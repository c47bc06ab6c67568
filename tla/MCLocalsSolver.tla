--------------------------- MODULE MCLocalsSolver ---------------------------
(***************************************************************************)
(* LocalsSolver for TLC: four locals and one name only the cascade binds.  *)
(* `Shapes` is every graph in which the first two locals refer to at most  *)
(* two others and the last two to at most one: chains, diamonds, loops     *)
(* beside and below one another, in every source order.  `Values` adds the *)
(* inherited name, stuck locals and a cascade that binds a declared name.  *)
(***************************************************************************)
EXTENDS LocalsSolver, TLC

CONSTANT Env

AtMost(k, S) == {s \in SUBSET S : Cardinality(s) <= k}

Shapes ==
  {[refs |-> (1 :> a @@ 2 :> b @@ 3 :> c @@ 4 :> d),
    stuck |-> {}, cascade |-> {}] :
      a \in AtMost(2, 1..4), b \in AtMost(2, 1..4),
      c \in AtMost(1, 1..4), d \in AtMost(1, 1..4)}

\* Chains and diamonds, forwards and backwards.
Skeletons ==
  {<<{2}, {3}, {4}, {}>>, <<{}, {1}, {2}, {3}>>, <<{3}, {1}, {}, {2}>>,
   <<{2, 3}, {4}, {4}, {}>>, <<{}, {1}, {1}, {2, 3}>>}

Values ==
  {[refs |-> [i \in 1..4 |-> r[i] \cup (IF i \in w THEN {Env} ELSE {})],
    stuck |-> s, cascade |-> c] :
      r \in Skeletons, w \in AtMost(2, 1..4), s \in AtMost(1, 1..4),
      c \in {{}, {Env}, {2}, {Env, 3}}}

MCPrograms == Shapes \cup Values
=============================================================================
