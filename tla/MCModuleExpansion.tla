--------------------------- MODULE MCModuleExpansion ---------------------------
(***************************************************************************)
(* ModuleExpansion for TLC: a component and four modules that call one     *)
(* another and themselves, so that chains reach the depth cap of 3 and     *)
(* cycles of one, two and three modules close below it.                    *)
(***************************************************************************)
EXTENDS ModuleExpansion

CONSTANTS A, B, C, D, main, k1, k2, twice, both, mixed, long

MCModules == {A, B, C, D}

\* Two keys that look the same in an address, two keys, one key and a number,
\* and more items than the cap allows.
MCItems ==
  [l \in {twice, both, mixed, long} |->
     CASE l = twice -> [size |-> 2, keys |-> <<k1, k1>>]
       [] l = both  -> [size |-> 2, keys |-> <<k1, k2>>]
       [] l = mixed -> [size |-> 2, keys |-> <<k1>>]
       [] l = long  -> [size |-> 3, keys |-> <<k1, k2, k1>>]]

Once == [count |-> None, for_each |-> None]
Count(e) == [count |-> e, for_each |-> None]
ForEach(e) == [count |-> None, for_each |-> e]
To(source, arg, provider, each) ==
  [source |-> source, arg |-> arg, provider |-> provider, each |-> each]
Res(provider, each) == [provider |-> provider, each |-> each]
Is(bound, res, calls) == [bound |-> bound, res |-> res, calls |-> calls]

\* Cardinalities below, at and above the cap of 2, the lists, of which one has
\* a key that is not valid, and a count or for_each that is the variable itself.
Eaches == {Once, Count(-1), Count(0), Count(2), Count(3), Count(VarX), Count(both),
           ForEach(twice), ForEach(both), ForEach(mixed), ForEach(long),
           ForEach(VarX), ForEach(2)}

ComponentBodies ==
  {Is(b, <<Res(None, Once)>>, <<To(A, arg, p, Once)>>) :
     b \in {None, 1}, arg \in {None, VarX, 2, mixed}, p \in {None, main}}
    \cup {Is(None, <<Res(main, e)>>, <<To(A, 2, Plain, e), To(B, VarX, main, Once)>>) :
            e \in Eaches}
    \cup {Is(None, << >>, <<To(s, None, None, Once), To(C, 0, None, Once)>>) :
            s \in BadSources}
    \cup {Is(None, << >>, <<To(C, 0, None, Once), To("unregistered", 0, None, Once)>>)}
ModuleBodies(next) ==
  {Is(b, <<Res(Plain, Once)>>, << >>) : b \in {None, 1}}
    \cup {Is(None, <<Res(None, e)>>, <<To(next, VarX, None, Once)>>) :
            e \in {Once, Count(VarX), ForEach(VarX)}}
    \cup {Is(b, <<Res(Plain, Once)>>, <<To(next, VarX, p, e)>>) :
            b \in {None, 1}, p \in {None, Plain}, e \in {Once, Count(VarX), Count(2)}}
    \cup {Is(None, <<Res(Plain, Once)>>, <<To(s, 2, None, Once), To(next, 2, None, Once)>>) :
            s \in {A, "external"}}

MCBodies ==
  [d \in MCModules \cup {Component} |->
     CASE d = Component -> ComponentBodies
       [] d = A -> ModuleBodies(B)
       [] d = B -> ModuleBodies(C)
       [] d = C -> {Is(b, <<Res(Plain, Once)>>, << >>) : b \in {None, 1}}
                     \cup {Is(None, <<Res(Plain, Count(VarX))>>, <<To(m, VarX, None, Once)>>) :
                             m \in {A, C, D}}
       [] d = D -> {Is(None, << >>, << >>)}]
=============================================================================
