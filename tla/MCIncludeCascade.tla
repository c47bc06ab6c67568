--------------------------- MODULE MCIncludeCascade ---------------------------
(***************************************************************************)
(* IncludeCascade for TLC: a component whose includes reach two more files *)
(* in every order, with cycles, diamonds, bad paths and a chain longer     *)
(* than the cap.                                                           *)
(***************************************************************************)
EXTENDS IncludeCascade, TLC

CONSTANTS Parent, Grand

MCFiles == {Child, Parent, Grand}

Inc(path, strategy) == [path |-> path, strategy |-> strategy]
Default(path) == Inc(path, "deep_map_only")
Holds(incs, kinds) ==
  {[includes |-> i, local |-> k, body |-> k \in {"scalar", "expr"}] :
     i \in incs, k \in kinds}

ChildIncludes ==
  {<< >>}
    \cup {<<Inc(p, s)>> : p \in {Parent, Grand}, s \in Strategies}
    \cup {<<Default(bad), Default(Parent)>> : bad \in BadPaths \cup {Child}}
    \cup {<<Inc(Parent, s), Inc(Grand, t)>> :
            s \in {"deep_map_only", "no_merge"}, t \in {"deep", "no_merge"}}
ParentIncludes ==
  {<< >>, <<Default(Child)>>, <<Default("missing"), Default(Grand)>>}
    \cup {<<Inc(Grand, s)>> : s \in Strategies}
GrandIncludes == {<< >>, <<Default(Parent)>>, <<Default(Child)>>}

MCContents ==
  Child  :> Holds(ChildIncludes, LocalKinds) @@
  Parent :> Holds(ParentIncludes, LocalKinds) @@
  Grand  :> Holds(GrandIncludes, {"absent", "list", "map", "expr"})
=============================================================================
