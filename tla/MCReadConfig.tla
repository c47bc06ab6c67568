----------------------------- MODULE MCReadConfig -----------------------------
(***************************************************************************)
(* ReadConfig for TLC: a component and three files that read one another   *)
(* in every way, with locals that refer backwards, forwards, to themselves *)
(* and to one another.                                                     *)
(***************************************************************************)
EXTENDS ReadConfig

CONSTANTS A, B, C

MCFiles == {A, B, C}

\* One of them is included as well.
MCIncluded == {A}

E(call, use) == [call |-> call, use |-> use]
Lit == E(None, 0)
Read(f) == E(f, 0)
Body(ls, is) == [locals |-> ls, inputs |-> is]

\* Forward references resolve in as many passes as the chain is long: three
\* settle within the cap of the run, four do not.
ComponentBodies ==
  {Body(<<Read(A)>>, <<Read(f)>>) : f \in MCFiles}
    \cup {Body(<<E(A, 2), E(B, u)>>, <<E(None, 1)>>) : u \in {0, 1}}
    \cup {Body(<<E(None, 2), E(None, 3), E(None, 4), Read(A)>>, <<E(None, 1)>>)}
Leaves == {Body(<<Lit>>, << >>), Body(<<E(Illtyped, 0), E(None, 1)>>, << >>)}
OneRead == {Body(<<Read(f)>>, << >>) : f \in MCFiles}
FileBodies ==
  Leaves \cup OneRead
    \cup {Body(<<E(f, 2), Lit>>, <<E(g, 1)>>) : f \in {B, C}, g \in {A, B, None}}
    \cup {Body(<<E(None, 1)>>, <<Read(f)>>) : f \in {B, C}}

MCBodies ==
  [f \in MCFiles \cup {Component} |->
     CASE f = Component -> ComponentBodies
       [] f = C -> Leaves \cup OneRead
       [] OTHER -> FileBodies]
=============================================================================
