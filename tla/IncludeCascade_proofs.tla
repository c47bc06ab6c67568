------------------------- MODULE IncludeCascade_proofs -------------------------
(***************************************************************************)
(* Proofs about IncludeCascade, for any number of files that include one   *)
(* another in any way, any cap on the depth and any merge strategies: no   *)
(* include is lost on the way to the load chain, what a file includes is   *)
(* merged before it, and the component has the last word.                  *)
(***************************************************************************)
EXTENDS IncludeCascade, SequenceTheorems, TLAPS

-----------------------------------------------------------------------------
(* The inductive invariant.                                                 *)

Occurs(f, s) == \E i \in 1..Len(s) : s[i].file = f
Before(s, g, f) == \A i, j \in 1..Len(s) : s[i].file = g /\ s[j].file = f => i < j

FrameShape ==
  [file : Files, via : Strategies \cup {None}, depth : Nat, next : Nat \ {0},
   chain : Seq(Entries), capped : BOOLEAN]

\* The include blocks of a file that were followed, or whose file could not be
\* read: the others are reported.
Unreported(f) == {k \in 1..Len(content[f].includes) : ~Reported(f, k)}
Target(f, k) == content[f].includes[k].path

ShapeInv ==
  /\ phase \in {"start", "chain", "cascade", "done"}
  /\ content \in [Files -> ContentShape \cup {None}]
  /\ \A f \in Files : content[f] # None => content[f] \in ContentShape /\ f \in visited
  /\ reads \in [Files -> 0..1]
  /\ \A f \in Files : reads[f] = 1 => f \in visited
  /\ visited \subseteq Files
  /\ stack \in Seq(FrameShape)
  /\ \A p \in 2..Len(stack) : stack[p].via \in Strategies
  /\ chain \in Seq(Entries)
  /\ pos \in 0..Len(chain)
  /\ acc.local.kind \in LocalKinds

PhaseInv ==
  /\ phase = "start" => ReadFiles = {} /\ visited = {} /\ pos = 0
  /\ phase = "chain" => stack # << >> /\ stack[1].file = Child /\ pos = 0
  /\ phase # "chain" => stack = << >>
  /\ phase \in {"start", "chain"} => chain = << >>

\* While the includes are walked a file that was read is in one place: it has
\* a frame, or it is in the chain of one frame.
PlaceInv ==
  /\ \A p \in 1..Len(stack) : stack[p].file \in ReadFiles
  /\ \A p \in 1..Len(stack) : \A f \in Files :
       Occurs(f, stack[p].chain) => f \in ReadFiles
  /\ phase = "chain" =>
       \A f \in ReadFiles : \E p \in 1..Len(stack) :
         stack[p].file = f \/ Occurs(f, stack[p].chain)
  /\ \A p, q \in 1..Len(stack) :
       /\ stack[p].file = stack[q].file => p = q
       /\ ~Occurs(stack[p].file, stack[q].chain)
       /\ \A f \in Files :
            Occurs(f, stack[p].chain) /\ Occurs(f, stack[q].chain) => p = q

\* The includes a frame has dealt with, and those of the files in its chain.
DoneInv ==
  \A p \in 1..Len(stack) : \A f \in Files :
    /\ stack[p].file = f /\ ~stack[p].capped =>
         \A k \in Unreported(f) : k < stack[p].next =>
           /\ Target(f, k) \in visited
           /\ Target(f, k) \in ReadFiles =>
                \/ Occurs(Target(f, k), stack[p].chain)
                \/ p < Len(stack) /\ stack[p + 1].file = Target(f, k)
    /\ Occurs(f, stack[p].chain) /\ ~Capped(f) =>
         \A k \in Unreported(f) :
           /\ Target(f, k) \in visited
           /\ Target(f, k) \in ReadFiles => Occurs(Target(f, k), stack[p].chain)
           /\ Before(stack[p].chain, Target(f, k), f)

\* The load chain: every file that was read, what it includes before it.
ChainInv ==
  phase \in {"cascade", "done"} =>
    /\ \A f \in ReadFiles : Occurs(f, chain)
    /\ \A f \in ReadFiles : ~Capped(f) =>
         \A k \in Unreported(f) :
           Target(f, k) \in visited /\ Before(chain, Target(f, k), f)
    /\ chain # << >> => chain[Len(chain)] = TailEntry(Child)
    /\ content[Child] # None => chain # << >>

\* The merge so far: a name that was bound stays bound, and the component's
\* own body, which comes last, has the last word.
ChildSays ==
  LET own == Binding(Child) IN
  /\ own.kind \in {"scalar", "list"} => acc.local = own
  /\ own.kind = "map" =>
       /\ acc.local.kind = "map"
       /\ \A key \in DOMAIN own.val : acc.local.val[key] = Child
  /\ content[Child].body => acc.inputs = Child /\ acc.generate = Child

MergeInv ==
  /\ phase = "done" /\ content[Child] # None => pos = Len(chain)
  /\ pos > 0 /\ pos = Len(chain) => ChildSays
  /\ (\A i \in 1..Len(chain) : chain[i].strategy # "no_merge") =>
       ((\E i \in 1..pos : content[chain[i].file].local # "absent")
          => acc.local.kind # "absent")
  /\ \A i \in 1..Len(chain) : chain[i].file \in ReadFiles

CascadeInv == ShapeInv /\ PhaseInv /\ PlaceInv /\ DoneInv /\ ChainInv /\ MergeInv

-----------------------------------------------------------------------------
(* Chains.                                                                  *)

\* An appended entry comes after all others.
LEMMA ChainAppend ==
  ASSUME NEW s \in Seq(Entries), NEW e \in Entries
  PROVE  /\ Append(s, e) \in Seq(Entries) /\ Append(s, e) # << >>
         /\ Len(Append(s, e)) = Len(s) + 1 /\ Append(s, e)[Len(s) + 1] = e
         /\ \A f : Occurs(f, Append(s, e)) <=> Occurs(f, s) \/ f = e.file
         /\ \A g, f : Before(s, g, f) /\ g # e.file => Before(Append(s, e), g, f)
<1> DEFINE t == Append(s, e)
<1>1. /\ t \in Seq(Entries) /\ Len(t) = Len(s) + 1 /\ t[Len(s) + 1] = e
      /\ \A i \in 1..Len(s) : t[i] = s[i]
  BY AppendProperties
<1>2. Len(s) \in Nat /\ \A i \in 1..Len(t) : i \in 1..Len(s) \/ i = Len(s) + 1
  BY <1>1
<1>3. t # << >>
  BY <1>1, <1>2, EmptySeq
<1> HIDE DEF t
<1>4. ASSUME NEW f  PROVE Occurs(f, t) <=> Occurs(f, s) \/ f = e.file
  <2>1. ASSUME Occurs(f, t)  PROVE Occurs(f, s) \/ f = e.file
    BY <1>1, <1>2, <2>1 DEF Occurs
  <2>2. ASSUME Occurs(f, s)  PROVE Occurs(f, t)
    <3>1. PICK i \in 1..Len(s) : s[i].file = f
      BY <2>2 DEF Occurs
    <3>2. i \in 1..Len(t) /\ t[i].file = f
      BY <1>1, <1>2, <3>1
    <3> QED  BY <3>2 DEF Occurs
  <2>3. ASSUME f = e.file  PROVE Occurs(f, t)
    <3>1. Len(s) + 1 \in 1..Len(t)
      BY <1>1, <1>2
    <3> QED  BY <1>1, <2>3, <3>1 DEF Occurs
  <2> QED  BY <2>1, <2>2, <2>3
<1>5. ASSUME NEW g, NEW f, Before(s, g, f), g # e.file  PROVE Before(t, g, f)
  <2> SUFFICES ASSUME NEW i \in 1..Len(t), NEW j \in 1..Len(t),
                      t[i].file = g, t[j].file = f
               PROVE  i < j
    BY DEF Before
  <2>1. i \in 1..Len(s)
    BY <1>1, <1>2, <1>5
  <2>2. CASE j \in 1..Len(s)
    BY <1>1, <1>5, <2>1, <2>2 DEF Before
  <2>3. CASE j = Len(s) + 1
    BY <1>2, <2>1, <2>3
  <2> QED  BY <1>2, <2>2, <2>3
<1> QED  BY <1>1, <1>3, <1>4, <1>5 DEF t

\* A chain follows another.
LEMMA ChainConcat ==
  ASSUME NEW s \in Seq(Entries), NEW t \in Seq(Entries)
  PROVE  /\ s \o t \in Seq(Entries)
         /\ \A f : Occurs(f, s \o t) <=> Occurs(f, s) \/ Occurs(f, t)
         /\ \A g, f : /\ Before(s, g, f) /\ Before(t, g, f)
                      /\ ~(Occurs(f, s) /\ Occurs(g, t))
                      => Before(s \o t, g, f)
<1> DEFINE u == s \o t
<1>1. /\ u \in Seq(Entries) /\ Len(u) = Len(s) + Len(t)
      /\ \A i \in 1..(Len(s) + Len(t)) :
           u[i] = IF i <= Len(s) THEN s[i] ELSE t[i - Len(s)]
  BY ConcatProperties
<1>2. Len(s) \in Nat /\ Len(t) \in Nat
  OBVIOUS
<1> HIDE DEF u
<1>3. \A i \in 1..Len(u) : \/ i \in 1..Len(s) /\ u[i] = s[i]
                           \/ i - Len(s) \in 1..Len(t) /\ u[i] = t[i - Len(s)]
  BY <1>1, <1>2
<1>4. \A i \in 1..Len(s) : i \in 1..Len(u) /\ u[i] = s[i]
  BY <1>1, <1>2
<1>5. ASSUME NEW i \in 1..Len(t)  PROVE i + Len(s) \in 1..Len(u) /\ u[i + Len(s)] = t[i]
  <2> DEFINE j == i + Len(s)
  <2>1. j \in 1..Len(u) /\ ~(j <= Len(s)) /\ j - Len(s) = i
    BY <1>1, <1>2
  <2> QED  BY <1>1, <1>2, <2>1
<1>6. ASSUME NEW f  PROVE Occurs(f, u) <=> Occurs(f, s) \/ Occurs(f, t)
  <2>1. ASSUME Occurs(f, u)  PROVE Occurs(f, s) \/ Occurs(f, t)
    BY <1>3, <2>1 DEF Occurs
  <2>2. ASSUME Occurs(f, s)  PROVE Occurs(f, u)
    BY <1>4, <2>2 DEF Occurs
  <2>3. ASSUME Occurs(f, t)  PROVE Occurs(f, u)
    <3>1. PICK i \in 1..Len(t) : t[i].file = f
      BY <2>3 DEF Occurs
    <3>2. i + Len(s) \in 1..Len(u) /\ u[i + Len(s)].file = f
      BY <1>5, <3>1
    <3> QED  BY <3>2 DEF Occurs
  <2> QED  BY <2>1, <2>2, <2>3
<1>7. ASSUME NEW g, NEW f, Before(s, g, f), Before(t, g, f),
             ~(Occurs(f, s) /\ Occurs(g, t))
      PROVE  Before(u, g, f)
  <2> SUFFICES ASSUME NEW i \in 1..Len(u), NEW j \in 1..Len(u),
                      u[i].file = g, u[j].file = f
               PROVE  i < j
    BY DEF Before
  <2>1. CASE i \in 1..Len(s) /\ u[i] = s[i] /\ j \in 1..Len(s) /\ u[j] = s[j]
    BY <1>7, <2>1 DEF Before
  <2>2. CASE i \in 1..Len(s) /\ j - Len(s) \in 1..Len(t)
    BY <1>2, <2>2
  <2>3. CASE /\ i - Len(s) \in 1..Len(t) /\ u[i] = t[i - Len(s)]
             /\ j - Len(s) \in 1..Len(t) /\ u[j] = t[j - Len(s)]
    <3>1. i - Len(s) < j - Len(s)
      BY <1>7, <2>3 DEF Before
    <3> QED  BY <1>2, <3>1
  <2>4. CASE /\ i - Len(s) \in 1..Len(t) /\ u[i] = t[i - Len(s)]
             /\ j \in 1..Len(s) /\ u[j] = s[j]
    BY <1>7, <2>4 DEF Occurs
  <2> QED  BY <1>3, <2>1, <2>2, <2>3, <2>4
<1> QED  BY <1>1, <1>6, <1>7 DEF u

\* A file that is not in a chain comes after nothing and before nothing.
LEMMA NotInChain ==
  ASSUME NEW s \in Seq(Entries), NEW g, NEW f
  PROVE  /\ ~Occurs(f, s) => Before(s, g, f)
         /\ ~Occurs(g, s) => Before(s, g, f)
  BY DEF Occurs, Before

-----------------------------------------------------------------------------
(* The walk over the includes.                                              *)

\* Diagnostics only accumulate.
LEMMA DiagsGrow ==
  ASSUME diags \subseteq diags'
  PROVE  /\ \A f, k : Reported(f, k) => Reported(f, k)'
         /\ \A f : Capped(f) => Capped(f)'
  BY DEF Reported, Capped

\* Nothing is merged yet while the includes are walked.
LEMMA StillWalking ==
  ASSUME phase' = "chain", chain' = << >>, pos' = 0
  PROVE  ChainInv' /\ MergeInv'
<1>1. ChainInv'
  BY DEF ChainInv
<1>2. Len(chain') = 0 /\ ~(pos' > 0) /\ \A i \in 1..0 : FALSE
  OBVIOUS
<1> QED  BY <1>1, <1>2 DEF MergeInv

\* The include a frame is at.
LEMMA IncludeFacts ==
  ASSUME CascadeInv, AtInclude
  PROVE  /\ phase = "chain" /\ chain = << >> /\ pos = 0
         /\ stack # << >> /\ Len(stack) \in Nat \ {0} /\ Len(stack) \in 1..Len(stack)
         /\ Top \in FrameShape /\ Top.file \in ReadFiles /\ ~Top.capped
         /\ content[Top.file] \in ContentShape
         /\ Top.next \in 1..Len(content[Top.file].includes)
         /\ Include = content[Top.file].includes[Top.next]
         /\ Include.path \in Files \cup BadPaths /\ Include.strategy \in Strategies
<1>1. phase = "chain" /\ stack # << >> /\ ~Top.capped /\ Top.next <= Len(TopIncludes)
  BY DEF AtInclude
<1>2. chain = << >> /\ pos = 0
  BY <1>1 DEF CascadeInv, PhaseInv
<1>3. stack \in Seq(FrameShape)
  BY DEF CascadeInv, ShapeInv
<1>4. Len(stack) \in Nat \ {0}
  BY <1>1, <1>3, EmptySeq
<1>5. Len(stack) \in 1..Len(stack)
  BY <1>4
<1>6. Top \in FrameShape
  BY <1>3, <1>5, ElementOfSeq DEF Top
<1>7. Top.file \in ReadFiles
  BY <1>5 DEF CascadeInv, PlaceInv, Top
<1>8. content[Top.file] \in ContentShape
  BY <1>7 DEF CascadeInv, ShapeInv, ReadFiles
<1>9. TopIncludes \in Seq(Includes) /\ TopIncludes = content[Top.file].includes
  BY <1>8 DEF TopIncludes, ContentShape
<1>10. Top.next \in 1..Len(TopIncludes)
  <2>1. Top.next \in Nat \ {0} /\ Len(TopIncludes) \in Nat
    BY <1>6, <1>9 DEF FrameShape
  <2> QED  BY <1>1, <2>1
<1>11. Include \in Includes /\ Include = content[Top.file].includes[Top.next]
  BY <1>9, <1>10, ElementOfSeq DEF Include
<1>12. Include.path \in Files \cup BadPaths /\ Include.strategy \in Strategies
  BY <1>11 DEF Includes
<1> QED  BY <1>1, <1>2, <1>4, <1>5, <1>6, <1>7, <1>8, <1>9, <1>10, <1>11, <1>12

\* The next include of a frame.
LEMMA NextOfFrame ==
  ASSUME NEW fr \in FrameShape
  PROVE  LET fr2 == [fr EXCEPT !.next = @ + 1] IN
         /\ fr2 \in FrameShape /\ fr2.file = fr.file /\ fr2.chain = fr.chain
         /\ fr2.capped = fr.capped /\ fr2.via = fr.via /\ fr2.next = fr.next + 1
<1>1. fr.next + 1 \in Nat \ {0}
  BY DEF FrameShape
<1> QED  BY <1>1 DEF FrameShape

\* The innermost frame goes on to its next include.
LEMMA AdvanceFacts ==
  ASSUME NEW st \in Seq(FrameShape), st # << >>, NEW st2,
         st2 = [st EXCEPT ![Len(st)].next = @ + 1]
  PROVE  /\ st2 \in Seq(FrameShape) /\ Len(st2) = Len(st)
         /\ \A p \in 1..Len(st) :
              /\ st2[p].file = st[p].file /\ st2[p].chain = st[p].chain
              /\ st2[p].capped = st[p].capped /\ st2[p].via = st[p].via
              /\ st2[p].next = IF p = Len(st) THEN st[p].next + 1 ELSE st[p].next
<1> DEFINE n == Len(st)
           fr2 == [st[n] EXCEPT !.next = @ + 1]
<1>1. n \in Nat \ {0}
  BY EmptySeq
<1>2. n \in 1..n
  BY <1>1
<1>3. st[n] \in FrameShape
  BY <1>2, ElementOfSeq
<1>4. /\ fr2 \in FrameShape /\ fr2.file = st[n].file /\ fr2.chain = st[n].chain
      /\ fr2.capped = st[n].capped /\ fr2.via = st[n].via
      /\ fr2.next = st[n].next + 1
  BY <1>3, NextOfFrame
<1>5. st2 = [st EXCEPT ![n] = fr2]
  OBVIOUS
<1> HIDE DEF fr2
<1>6. /\ st2 \in Seq(FrameShape) /\ Len(st2) = n
      /\ \A p \in 1..n : st2[p] = IF p = n THEN fr2 ELSE st[p]
  BY <1>2, <1>4, <1>5, ExceptSeq
<1> QED  BY <1>4, <1>6

\* An include is passed over: it is reported, or its file cannot be read.
LEMMA PassOver ==
  ASSUME CascadeInv, AtInclude, Advance, diags \subseteq diags',
         visited \subseteq visited', visited' \subseteq Files,
         NEW f0, NEW k0, f0 = Top.file, k0 = Top.next,
         Reported(f0, k0)' \/ (Include.path \in visited' /\ Include.path \notin ReadFiles),
         UNCHANGED <<phase, content, reads, chain, pos, acc>>
  PROVE  CascadeInv'
<1> DEFINE n == Len(stack)
<1>1. ShapeInv /\ PhaseInv /\ PlaceInv /\ DoneInv
  BY DEF CascadeInv
<1>2. /\ phase = "chain" /\ chain = << >> /\ pos = 0 /\ stack # << >> /\ n \in Nat \ {0}
      /\ Top \in FrameShape /\ f0 \in ReadFiles
      /\ k0 \in 1..Len(content[f0].includes) /\ Include = content[f0].includes[k0]
  BY IncludeFacts
<1>3. /\ stack' \in Seq(FrameShape) /\ Len(stack') = n
      /\ \A p \in 1..n :
           /\ stack'[p].file = stack[p].file /\ stack'[p].chain = stack[p].chain
           /\ stack'[p].capped = stack[p].capped /\ stack'[p].via = stack[p].via
           /\ stack'[p].next = IF p = n THEN stack[p].next + 1 ELSE stack[p].next
  <2>1. stack \in Seq(FrameShape)
    BY <1>1 DEF ShapeInv
  <2> QED  BY <1>2, <2>1, AdvanceFacts DEF Advance
<1>4. ReadFiles' = ReadFiles
  BY DEF ReadFiles
<1>5. ShapeInv'
  <2>1. \A p \in 2..n : p \in 1..n
    OBVIOUS
  <2> QED  BY <1>1, <1>3, <2>1 DEF ShapeInv
<1>6. PhaseInv'
  <2>1. 1 \in 1..n /\ stack' # << >>
    BY <1>2, <1>3, EmptySeq
  <2> QED  BY <1>1, <1>2, <1>3, <2>1 DEF PhaseInv
<1>7. PlaceInv'
  BY <1>1, <1>3, <1>4 DEF PlaceInv
<1>8. \A f, k : k \in Unreported(f)' => k \in Unreported(f)
  BY DiagsGrow DEF Unreported
<1>9. \A f : ~Capped(f)' => ~Capped(f)
  BY DiagsGrow
<1>10. \A f, k : Target(f, k)' = Target(f, k)
  BY DEF Target
<1>11. DoneInv'
  <2>1. ASSUME NEW p \in 1..n, NEW f \in Files, stack'[p].file = f, ~stack'[p].capped,
               NEW k \in Unreported(f)', k < stack'[p].next
        PROVE  /\ Target(f, k) \in visited'
               /\ Target(f, k) \in ReadFiles =>
                    \/ Occurs(Target(f, k), stack'[p].chain)
                    \/ p < n /\ stack'[p + 1].file = Target(f, k)
    <3>1. k \in Unreported(f) /\ k \in Nat /\ stack[p].file = f /\ ~stack[p].capped
      BY <1>3, <1>8, <2>1 DEF Unreported
    <3>2. CASE k < stack[p].next
      <4>1. /\ Target(f, k) \in visited
            /\ Target(f, k) \in ReadFiles =>
                 \/ Occurs(Target(f, k), stack[p].chain)
                 \/ p < n /\ stack[p + 1].file = Target(f, k)
        BY <1>1, <3>1, <3>2 DEF DoneInv
      <4>2. p < n => p + 1 \in 1..n
        BY <1>2
      <4> QED  BY <1>3, <4>1, <4>2
    <3>3. CASE ~(k < stack[p].next)
      <4>1. p = n /\ k < stack[p].next + 1
        BY <1>3, <2>1, <3>3
      <4>2. f = f0 /\ k = k0
        <5>1. stack[p] = Top /\ Top.next \in Nat
          BY <1>2, <4>1 DEF Top, FrameShape
        <5> QED  BY <3>1, <3>3, <4>1, <5>1
      <4>3. ~Reported(f0, k0)'
        BY <2>1, <4>2 DEF Unreported
      <4>4. Target(f, k) = Include.path
        BY <1>2, <4>2 DEF Target
      <4> QED  BY <4>3, <4>4
    <3> QED  BY <3>2, <3>3
  <2>2. ASSUME NEW p \in 1..n, NEW f \in Files, Occurs(f, stack'[p].chain), ~Capped(f)',
               NEW k \in Unreported(f)'
        PROVE  /\ Target(f, k) \in visited'
               /\ Target(f, k) \in ReadFiles => Occurs(Target(f, k), stack'[p].chain)
               /\ Before(stack'[p].chain, Target(f, k), f)
    <3>1. stack'[p].chain = stack[p].chain /\ ~Capped(f) /\ k \in Unreported(f)
      BY <1>3, <1>8, <1>9, <2>2
    <3> QED  BY <1>1, <2>2, <3>1 DEF DoneInv
  <2> QED  BY <1>3, <1>4, <1>10, <2>1, <2>2 DEF DoneInv
<1>12. ChainInv' /\ MergeInv'
  BY <1>2, StillWalking
<1> QED  BY <1>5, <1>6, <1>7, <1>11, <1>12 DEF CascadeInv

\* An include is followed: its file was neither read nor looked at before.
LEMMA DescendStep == ASSUME CascadeInv, Descend PROVE CascadeInv'
<1>1. ShapeInv /\ PhaseInv /\ PlaceInv /\ DoneInv /\ AtInclude
  BY DEF CascadeInv, Descend
<1>2. PICK n, f0, k0, g : n = Len(stack) /\ f0 = Top.file /\ k0 = Top.next /\ g = Include.path
  OBVIOUS
<1>3. /\ phase = "chain" /\ chain = << >> /\ pos = 0 /\ stack # << >>
      /\ n \in Nat \ {0} /\ n \in 1..n
      /\ Top \in FrameShape /\ f0 \in ReadFiles /\ k0 \in 1..Len(content[f0].includes)
      /\ g = content[f0].includes[k0].path /\ Include.strategy \in Strategies
  BY <1>1, <1>2, IncludeFacts
<1>4. /\ g \in Files /\ g \notin visited /\ visited' = visited \cup {g}
      /\ reads' = [reads EXCEPT ![g] = @ + 1]
      /\ UNCHANGED <<phase, chain, pos, diags>>
  BY <1>2 DEF Descend, Read
<1>5. content[g] = None /\ g \notin ReadFiles /\ reads[g] = 0
  BY <1>1, <1>4 DEF ShapeInv, ReadFiles
<1>6. PICK c \in Contents[g] : content' = [content EXCEPT ![g] = c]
  BY <1>2, <1>5 DEF Descend, Read
<1>7. c \in ContentShape /\ c # None
  BY <1>4, <1>6, ContentsShaped
<1>8. /\ content' \in [Files -> ContentShape \cup {None}]
      /\ content'[g] = c /\ \A f \in Files : f # g => content'[f] = content[f]
  BY <1>1, <1>4, <1>6, <1>7 DEF ShapeInv
<1>9. ReadFiles' = ReadFiles \cup {g}
  BY <1>4, <1>7, <1>8 DEF ReadFiles
<1> DEFINE mid == [stack EXCEPT ![Len(stack)].next = @ + 1]
           new == Frame(g, Include.strategy, Top.depth + 1)
<1>10. stack' = Append(mid, new)
  BY <1>2 DEF Descend
<1>11. /\ mid \in Seq(FrameShape) /\ Len(mid) = n
       /\ \A p \in 1..n :
            /\ mid[p].file = stack[p].file /\ mid[p].chain = stack[p].chain
            /\ mid[p].capped = stack[p].capped /\ mid[p].via = stack[p].via
            /\ mid[p].next = IF p = n THEN stack[p].next + 1 ELSE stack[p].next
  <2>1. stack \in Seq(FrameShape)
    BY <1>1 DEF ShapeInv
  <2>2. PICK st2 : st2 = mid
    OBVIOUS
  <2>3. st2 = [stack EXCEPT ![Len(stack)].next = @ + 1]
    BY <2>2
  <2> HIDE DEF mid
  <2> QED  BY <1>2, <1>3, <2>1, <2>2, <2>3, AdvanceFacts
<1>12. /\ new \in FrameShape /\ new.file = g /\ new.via = Include.strategy
       /\ new.chain = << >> /\ new.next = 1
  <2>1. Top.depth + 1 \in Nat /\ (Top.depth + 1 >= MaxDepth) \in BOOLEAN
    BY <1>3 DEF FrameShape
  <2>2. << >> \in Seq(Entries)
    BY EmptySeq
  <2> QED  BY <1>3, <1>4, <2>1, <2>2 DEF Frame, FrameShape
<1> HIDE DEF mid, new
<1>13. /\ stack' \in Seq(FrameShape) /\ Len(stack') = n + 1 /\ stack'[n + 1] = new
       /\ \A p \in 1..n :
            /\ stack'[p].file = stack[p].file /\ stack'[p].chain = stack[p].chain
            /\ stack'[p].capped = stack[p].capped /\ stack'[p].via = stack[p].via
            /\ stack'[p].next = IF p = n THEN stack[p].next + 1 ELSE stack[p].next
  BY <1>10, <1>11, <1>12, AppendProperties
<1>14. \A p \in 1..(n + 1) : p \in 1..n \/ p = n + 1
  BY <1>3
<1>15. ShapeInv'
  <2>1. \A p \in 2..(n + 1) : stack'[p].via \in Strategies
    <3>1. \A p \in 2..(n + 1) : (p \in 1..n /\ p \in 2..n) \/ p = n + 1
      BY <1>3
    <3> QED  BY <1>1, <1>2, <1>3, <1>12, <1>13, <3>1 DEF ShapeInv
  <2>2. reads' \in [Files -> 0..1] /\ \A f \in Files : reads'[f] = 1 => f \in visited'
    BY <1>1, <1>4, <1>5 DEF ShapeInv
  <2>3. \A f \in Files : content'[f] # None => content'[f] \in ContentShape /\ f \in visited'
    BY <1>1, <1>4, <1>7, <1>8 DEF ShapeInv
  <2>4. acc' = acc
    BY DEF Descend
  <2> QED  BY <1>1, <1>4, <1>8, <1>13, <2>1, <2>2, <2>3, <2>4 DEF ShapeInv
<1>16. PhaseInv'
  <2>1. stack' # << >> /\ 1 \in 1..n
    BY <1>3, <1>13, EmptySeq
  <2> QED  BY <1>1, <1>3, <1>4, <1>13, <2>1 DEF PhaseInv
<1>17. /\ \A f : ~Occurs(f, new.chain)
       /\ \A p \in 1..n : stack[p].file # g /\ ~Occurs(g, stack[p].chain)
  <2>1. \A f : ~Occurs(f, << >>)
    BY DEF Occurs
  <2> QED  BY <1>1, <1>2, <1>4, <1>5, <1>12, <2>1 DEF PlaceInv
<1>18. PlaceInv'
  <2>1. \A p \in 1..(n + 1) : stack'[p].file \in ReadFiles'
    BY <1>1, <1>2, <1>9, <1>12, <1>13, <1>14 DEF PlaceInv
  <2>2. \A p \in 1..(n + 1) : \A f \in Files : Occurs(f, stack'[p].chain) => f \in ReadFiles'
    BY <1>1, <1>2, <1>9, <1>13, <1>14, <1>17 DEF PlaceInv
  <2>3. \A f \in ReadFiles' : \E p \in 1..(n + 1) :
          stack'[p].file = f \/ Occurs(f, stack'[p].chain)
    <3> TAKE f \in ReadFiles'
    <3>1. CASE f = g
      <4>1. n + 1 \in 1..(n + 1)
        BY <1>3
      <4> QED  BY <1>12, <1>13, <3>1, <4>1
    <3>2. CASE f \in ReadFiles
      <4>1. PICK p \in 1..n : stack[p].file = f \/ Occurs(f, stack[p].chain)
        BY <1>1, <1>2, <1>3, <3>2 DEF PlaceInv
      <4>2. p \in 1..(n + 1)
        BY <1>3
      <4> QED  BY <1>13, <4>1, <4>2
    <3> QED  BY <1>9, <3>1, <3>2
  <2>4. ASSUME NEW p \in 1..(n + 1), NEW q \in 1..(n + 1)
        PROVE  /\ stack'[p].file = stack'[q].file => p = q
               /\ ~Occurs(stack'[p].file, stack'[q].chain)
               /\ \A f \in Files :
                    Occurs(f, stack'[p].chain) /\ Occurs(f, stack'[q].chain) => p = q
    <3>1. CASE p \in 1..n /\ q \in 1..n
      BY <1>1, <1>2, <1>13, <3>1 DEF PlaceInv
    <3>2. CASE p = n + 1 \/ q = n + 1
      BY <1>12, <1>13, <1>14, <1>17, <3>2
    <3> QED  BY <1>14, <3>1, <3>2
  <2> QED  BY <1>13, <2>1, <2>2, <2>3, <2>4 DEF PlaceInv
<1>19. \A f \in Files : f # g =>
         /\ Unreported(f)' = Unreported(f) /\ \A k : Target(f, k)' = Target(f, k)
  BY <1>4, <1>8 DEF Unreported, Target, Reported
<1>20. \A f : Capped(f)' = Capped(f)
  BY <1>4 DEF Capped
<1>21. DoneInv'
  <2>1. ASSUME NEW p \in 1..(n + 1), NEW f \in Files, stack'[p].file = f,
               NEW k \in Unreported(f)', k < stack'[p].next, ~stack'[p].capped
        PROVE  /\ Target(f, k)' \in visited'
               /\ Target(f, k)' \in ReadFiles' =>
                    \/ Occurs(Target(f, k)', stack'[p].chain)
                    \/ p < n + 1 /\ stack'[p + 1].file = Target(f, k)'
    <3>1. k \in Nat \ {0} /\ p \in 1..n
      <4>1. k \in Nat \ {0}
        BY <2>1 DEF Unreported
      <4>2. p # n + 1
        BY <1>12, <1>13, <2>1, <4>1
      <4> QED  BY <1>14, <4>1, <4>2
    <3>2. /\ stack[p].file = f /\ ~stack[p].capped /\ f # g /\ k \in Unreported(f)
          /\ Target(f, k)' = Target(f, k)
      BY <1>13, <1>17, <1>19, <2>1, <3>1
    <3>3. p < n + 1 /\ (p < n => p + 1 \in 1..n)
      BY <1>3, <3>1
    <3>4. CASE k < stack[p].next
      <4>1. /\ Target(f, k) \in visited
            /\ Target(f, k) \in ReadFiles =>
                 \/ Occurs(Target(f, k), stack[p].chain)
                 \/ p < n /\ stack[p + 1].file = Target(f, k)
        BY <1>1, <1>2, <3>1, <3>2, <3>4 DEF DoneInv
      <4>2. Target(f, k) # g
        BY <1>4, <4>1
      <4> QED  BY <1>4, <1>9, <1>13, <3>1, <3>2, <3>3, <4>1, <4>2
    <3>5. CASE ~(k < stack[p].next)
      <4>1. p = n /\ k < stack[p].next + 1
        BY <1>13, <2>1, <3>1, <3>5
      <4>2. f = f0 /\ k = k0
        <5>1. stack[p] = Top /\ Top.next \in Nat
          BY <1>2, <1>3, <4>1 DEF Top, FrameShape
        <5> QED  BY <1>2, <3>1, <3>2, <3>5, <4>1, <5>1
      <4>3. Target(f, k) = g
        BY <1>3, <4>2 DEF Target
      <4> QED  BY <1>4, <1>12, <1>13, <3>2, <3>3, <4>1, <4>3
    <3> QED  BY <3>4, <3>5
  <2>2. ASSUME NEW p \in 1..(n + 1), NEW f \in Files, Occurs(f, stack'[p].chain),
               ~Capped(f)', NEW k \in Unreported(f)'
        PROVE  /\ Target(f, k)' \in visited'
               /\ Target(f, k)' \in ReadFiles' => Occurs(Target(f, k)', stack'[p].chain)
               /\ Before(stack'[p].chain, Target(f, k)', f)
    <3>1. p \in 1..n
      BY <1>13, <1>14, <1>17, <2>2
    <3>2. /\ stack'[p].chain = stack[p].chain /\ Occurs(f, stack[p].chain)
          /\ f # g /\ k \in Unreported(f) /\ ~Capped(f) /\ Target(f, k)' = Target(f, k)
      BY <1>13, <1>17, <1>19, <1>20, <2>2, <3>1
    <3>3. /\ Target(f, k) \in visited
          /\ Target(f, k) \in ReadFiles => Occurs(Target(f, k), stack[p].chain)
          /\ Before(stack[p].chain, Target(f, k), f)
      BY <1>1, <1>2, <3>1, <3>2 DEF DoneInv
    <3> QED  BY <1>4, <1>9, <3>2, <3>3
  <2> QED  BY <1>13, <2>1, <2>2 DEF DoneInv
<1>22. ChainInv' /\ MergeInv'
  BY <1>3, <1>4, StillWalking
<1> QED  BY <1>15, <1>16, <1>18, <1>21, <1>22 DEF CascadeInv

\* A frame's own body goes behind what it includes.
LEMMA TailFacts ==
  ASSUME CascadeInv, Return
  PROVE  LET sub == Append(Top.chain, TailEntry(Top.file))
             f0 == Top.file
         IN
         /\ phase = "chain" /\ chain = << >> /\ pos = 0 /\ stack # << >>
         /\ Len(stack) \in Nat \ {0} /\ Len(stack) \in 1..Len(stack)
         /\ Top \in FrameShape /\ f0 \in ReadFiles /\ f0 \in Files
         /\ sub \in Seq(Entries) /\ sub # << >> /\ sub[Len(sub)] = TailEntry(f0)
         /\ \A f : Occurs(f, sub) <=> Occurs(f, Top.chain) \/ f = f0
         /\ diags \subseteq diags'
         /\ \A f : ~Capped(f)' => ~Capped(f)
         /\ \A f, k : k \in Unreported(f)' => k \in Unreported(f)
         /\ \A f \in Files : Occurs(f, sub) /\ ~Capped(f)' =>
              \A k \in Unreported(f)' :
                /\ Target(f, k) \in visited
                /\ Target(f, k) \in ReadFiles => Occurs(Target(f, k), Top.chain)
                /\ Target(f, k) # f0
                /\ Before(sub, Target(f, k), f)
<1> DEFINE n == Len(stack)
           f0 == Top.file
           sub == Append(Top.chain, TailEntry(Top.file))
<1>1. ShapeInv /\ PhaseInv /\ PlaceInv /\ DoneInv
  BY DEF CascadeInv
<1>2. /\ phase = "chain" /\ stack # << >> /\ (Top.capped \/ Top.next > Len(TopIncludes))
      /\ diags' = IF Top.capped THEN diags \cup {<<"TG2002", Top.file, 0>>} ELSE diags
      /\ UNCHANGED content
  BY DEF Return
<1>3. chain = << >> /\ pos = 0
  BY <1>1, <1>2 DEF PhaseInv
<1>4. n \in Nat \ {0}
  BY <1>1, <1>2, EmptySeq DEF ShapeInv
<1>5. n \in 1..n /\ ~(n < n)
  BY <1>4
<1>6. Top \in FrameShape
  BY <1>1, <1>5, ElementOfSeq DEF ShapeInv, Top
<1>7. f0 \in ReadFiles /\ f0 \in Files
  BY <1>1, <1>5 DEF PlaceInv, Top, ReadFiles
<1>8. Top.chain \in Seq(Entries) /\ TailEntry(f0) \in Entries /\ TailEntry(f0).file = f0
  BY <1>6, <1>7 DEF FrameShape, TailEntry, Entry, Entries, Strategies
<1>9. /\ sub \in Seq(Entries) /\ sub # << >> /\ Len(sub) = Len(Top.chain) + 1
      /\ sub[Len(Top.chain) + 1] = TailEntry(f0)
      /\ \A f : Occurs(f, sub) <=> Occurs(f, Top.chain) \/ f = f0
      /\ \A g, f : Before(Top.chain, g, f) /\ g # f0 => Before(sub, g, f)
  BY <1>8, ChainAppend
<1>10. diags \subseteq diags' /\ (Top.capped => <<"TG2002", f0, 0>> \in diags')
  BY <1>2
<1>11. \A f : ~Capped(f)' => ~Capped(f)
  BY <1>10, DiagsGrow
<1>12. \A f, k : k \in Unreported(f)' => k \in Unreported(f)
  BY <1>2, <1>10, DiagsGrow DEF Unreported
<1> HIDE DEF sub
<1>13. ASSUME NEW f \in Files, Occurs(f, sub), ~Capped(f)', NEW k \in Unreported(f)'
       PROVE  /\ Target(f, k) \in visited
              /\ Target(f, k) \in ReadFiles => Occurs(Target(f, k), Top.chain)
              /\ Target(f, k) # f0
              /\ Before(sub, Target(f, k), f)
  <2>1. ~Capped(f) /\ k \in Unreported(f)
    BY <1>11, <1>12, <1>13
  <2>2. ~Occurs(f0, Top.chain)
    BY <1>1, <1>5 DEF PlaceInv, Top
  <2>3. CASE Occurs(f, Top.chain)
    <3>1. /\ Target(f, k) \in visited
          /\ Target(f, k) \in ReadFiles => Occurs(Target(f, k), Top.chain)
          /\ Before(Top.chain, Target(f, k), f)
      BY <1>1, <1>5, <2>1, <2>3 DEF DoneInv, Top
    <3>2. Target(f, k) # f0
      BY <1>7, <2>2, <3>1
    <3> QED  BY <1>9, <3>1, <3>2
  <2>4. CASE f = f0
    <3>1. ~Top.capped
      BY <1>10, <1>13, <2>4 DEF Capped
    <3>2. k < Top.next
      <4>1. k \in 1..Len(TopIncludes) /\ Top.next > Len(TopIncludes)
        BY <1>2, <2>1, <2>4, <3>1 DEF Unreported, TopIncludes
      <4>2. Top.next \in Nat
        BY <1>6 DEF FrameShape
      <4>3. content[f0] \in ContentShape
        BY <1>1, <1>7 DEF ShapeInv, ReadFiles
      <4>4. Len(TopIncludes) \in Nat
        BY <4>3 DEF TopIncludes, ContentShape
      <4> QED  BY <4>1, <4>2, <4>4
    <3>3. /\ Target(f, k) \in visited
          /\ Target(f, k) \in ReadFiles => Occurs(Target(f, k), Top.chain)
      BY <1>1, <1>5, <2>1, <2>4, <3>1, <3>2 DEF DoneInv, Top
    <3>4. Target(f, k) # f0
      BY <1>7, <2>2, <3>3
    <3>5. Before(Top.chain, Target(f, k), f)
      BY <1>8, <2>2, <2>4, NotInChain
    <3> QED  BY <1>9, <3>3, <3>4, <3>5
  <2> QED  BY <1>9, <1>13, <2>3, <2>4
<1> QED  BY <1>2, <1>3, <1>4, <1>5, <1>6, <1>7, <1>9, <1>10, <1>11, <1>12, <1>13 DEF sub

\* The outermost call returns: the load chain is complete.
LEMMA ReturnLast == ASSUME CascadeInv, Return, Len(stack) = 1 PROVE CascadeInv'
<1>1. ShapeInv /\ PhaseInv /\ PlaceInv
  BY DEF CascadeInv
<1>2. PICK sub, f0 : f0 = Top.file /\ sub = Append(Top.chain, TailEntry(Top.file))
  OBVIOUS
<1>3. /\ phase = "chain" /\ pos = 0 /\ stack # << >> /\ f0 \in Files
      /\ sub \in Seq(Entries) /\ sub # << >> /\ sub[Len(sub)] = TailEntry(f0)
      /\ \A f : Occurs(f, sub) <=> Occurs(f, Top.chain) \/ f = f0
      /\ \A f \in Files : Occurs(f, sub) /\ ~Capped(f)' =>
           \A k \in Unreported(f)' :
             Target(f, k) \in visited /\ Before(sub, Target(f, k), f)
  BY <1>2, TailFacts
<1>4. /\ chain' = sub /\ phase' = "cascade" /\ stack' = << >>
      /\ UNCHANGED <<content, reads, visited, pos, acc>>
  BY <1>2 DEF Return
<1>5. Len(sub) \in Nat \ {0} /\ << >> \in Seq(FrameShape) /\ Len(<< >>) = 0
  BY <1>3, EmptySeq
<1>6. ShapeInv'
  <2>1. \A p \in 2..Len(stack') : FALSE
    BY <1>4, <1>5
  <2> QED  BY <1>1, <1>3, <1>4, <1>5, <2>1 DEF ShapeInv
<1>7. PhaseInv'
  BY <1>4 DEF PhaseInv
<1>8. PlaceInv' /\ DoneInv'
  <2>1. \A p \in 1..Len(stack') : FALSE
    BY <1>4, <1>5
  <2>2. PlaceInv'
    BY <1>4, <2>1 DEF PlaceInv
  <2>3. DoneInv'
    BY <2>1 DEF DoneInv
  <2> QED  BY <2>2, <2>3
<1>9. ReadFiles' = ReadFiles
  BY <1>4 DEF ReadFiles
<1>10. f0 = Child
  <2>1. stack[1].file = Child
    BY <1>1, <1>3 DEF PhaseInv
  <2> QED  BY <1>2, <2>1 DEF Top
<1>11. \A f \in ReadFiles : Occurs(f, sub)
  <2> TAKE f \in ReadFiles
  <2>1. PICK p \in 1..Len(stack) : stack[p].file = f \/ Occurs(f, stack[p].chain)
    BY <1>1, <1>3 DEF PlaceInv
  <2>2. p = Len(stack)
    BY <2>1
  <2> QED  BY <1>2, <1>3, <2>1, <2>2 DEF Top
<1>12. ChainInv'
  <2>1. \A f \in ReadFiles : f \in Files
    BY DEF ReadFiles
  <2>2. \A f, k : Target(f, k)' = Target(f, k)
    BY <1>4 DEF Target
  <2>3. \A f \in ReadFiles : ~Capped(f)' =>
          \A k \in Unreported(f)' : Target(f, k) \in visited /\ Before(sub, Target(f, k), f)
    BY <1>3, <1>11, <2>1
  <2> QED  BY <1>3, <1>4, <1>9, <1>10, <1>11, <2>2, <2>3 DEF ChainInv, TailEntry, Entry
<1>13. MergeInv'
  <2>1. \A i \in 1..Len(sub) : sub[i].file \in ReadFiles
    <3> TAKE i \in 1..Len(sub)
    <3>0. sub[i] \in Entries
      BY <1>3, ElementOfSeq
    <3>1. Occurs(sub[i].file, sub) /\ sub[i].file \in Files
      BY <3>0 DEF Occurs, Entries
    <3>2. f0 \in ReadFiles
      BY <1>2, TailFacts
    <3>3. Len(stack) \in 1..Len(stack)
      OBVIOUS
    <3> QED  BY <1>1, <1>2, <1>3, <3>1, <3>2, <3>3 DEF PlaceInv, Top
  <2>2. ~(pos' > 0) /\ \A i \in 1..0 : FALSE
    BY <1>3, <1>4
  <2> QED  BY <1>3, <1>4, <1>9, <2>1, <2>2 DEF MergeInv
<1> QED  BY <1>6, <1>7, <1>8, <1>12, <1>13 DEF CascadeInv

\* A frame returns to the one that called it.
LEMMA ReturnInner == ASSUME CascadeInv, Return, Len(stack) # 1 PROVE CascadeInv'
<1>1. ShapeInv /\ PhaseInv /\ PlaceInv /\ DoneInv
  BY DEF CascadeInv
<1>2. PICK sub, f0, n, m, D :
        /\ f0 = Top.file /\ sub = Append(Top.chain, TailEntry(Top.file))
        /\ n = Len(stack) /\ m = n - 1 /\ D = Top.chain
  OBVIOUS
<1>3. /\ phase = "chain" /\ chain = << >> /\ pos = 0 /\ stack # << >>
      /\ n \in Nat \ {0} /\ Top \in FrameShape /\ f0 \in Files /\ f0 \in ReadFiles
      /\ sub \in Seq(Entries)
      /\ \A f : Occurs(f, sub) <=> Occurs(f, D) \/ f = f0
      /\ \A f : ~Capped(f)' => ~Capped(f)
      /\ \A f, k : k \in Unreported(f)' => k \in Unreported(f)
      /\ \A f \in Files : Occurs(f, sub) /\ ~Capped(f)' =>
           \A k \in Unreported(f)' :
             /\ Target(f, k) \in visited
             /\ Target(f, k) \in ReadFiles => Occurs(Target(f, k), D)
             /\ Target(f, k) # f0
             /\ Before(sub, Target(f, k), f)
  BY <1>2, TailFacts
<1>4. n \in 2..n /\ n \in 1..n /\ m \in Nat \ {0} /\ m \in 1..m /\ m \in 1..n /\ n = m + 1 /\ m # n
  BY <1>2, <1>3
<1> DEFINE own == Entry(f0, Top.via, TRUE)
           block == Append(sub, own)
           C == stack[m].chain
           u == C \o block
           fr2 == [stack[m] EXCEPT !.chain = @ \o block]
<1>5. own \in Entries /\ own.file = f0
  <2>1. Top.via \in Strategies
    BY <1>1, <1>2, <1>4 DEF ShapeInv, Top
  <2> QED  BY <1>3, <2>1 DEF Entries, Entry
<1> HIDE DEF own
<1>6. /\ block \in Seq(Entries)
      /\ \A f : Occurs(f, block) <=> Occurs(f, D) \/ f = f0
      /\ \A g, f : Before(sub, g, f) /\ g # f0 => Before(block, g, f)
  BY <1>3, <1>5, ChainAppend
<1> HIDE DEF block
<1>7. stack[m] \in FrameShape /\ C \in Seq(Entries)
  <2>1. stack[m] \in FrameShape
    BY <1>1, <1>2, <1>4, ElementOfSeq DEF ShapeInv
  <2> QED  BY <2>1 DEF FrameShape
<1>8. /\ u \in Seq(Entries)
      /\ \A f : Occurs(f, u) <=> Occurs(f, C) \/ Occurs(f, block)
      /\ \A g, f : /\ Before(C, g, f) /\ Before(block, g, f)
                   /\ ~(Occurs(f, C) /\ Occurs(g, block))
                   => Before(u, g, f)
  BY <1>6, <1>7, ChainConcat
<1> HIDE DEF u
<1>9. /\ stack' = [i \in 1..m |-> IF i < m THEN stack[i] ELSE fr2]
      /\ UNCHANGED <<phase, content, reads, visited, chain, pos, acc>>
  <2>1. stack' = [i \in 1..m |-> IF i < m THEN stack[i] ELSE [stack[i] EXCEPT !.chain = @ \o block]]
    BY <1>2 DEF Return, block, own
  <2>2. \A i \in 1..m : ~(i < m) => i = m
    BY <1>4
  <2>3. UNCHANGED <<phase, content, reads, visited, chain, pos, acc>>
    BY DEF Return
  <2> QED  BY <2>1, <2>2, <2>3
<1>10. /\ fr2 \in FrameShape /\ fr2.file = stack[m].file /\ fr2.chain = u
       /\ fr2.capped = stack[m].capped /\ fr2.via = stack[m].via /\ fr2.next = stack[m].next
  BY <1>7, <1>8 DEF FrameShape, u
<1> HIDE DEF fr2
<1>11. /\ stack' \in Seq(FrameShape) /\ Len(stack') = m
       /\ \A p \in 1..m :
            /\ stack'[p].file = stack[p].file /\ stack'[p].capped = stack[p].capped
            /\ stack'[p].via = stack[p].via /\ stack'[p].next = stack[p].next
            /\ stack'[p].chain = IF p = m THEN u ELSE stack[p].chain
  <2>1. \A i \in 1..m : i \in 1..n /\ (i < m <=> i # m)
    BY <1>4
  <2>2. \A i \in 1..m : (IF i < m THEN stack[i] ELSE fr2) \in FrameShape
    BY <1>1, <1>2, <1>10, <2>1, ElementOfSeq DEF ShapeInv
  <2>3. stack' \in [1..m -> FrameShape]
    BY <1>9, <2>2
  <2>4. stack' \in Seq(FrameShape) /\ Len(stack') = m
    BY <1>4, <2>3
  <2> QED  BY <1>9, <1>10, <2>1, <2>4
<1>12. \A p \in 1..m : p \in 1..n /\ (p # m => p \in 1..m /\ p + 1 \in 1..m)
  BY <1>4
<1>13. ReadFiles' = ReadFiles /\ \A f, k : Target(f, k)' = Target(f, k)
  BY <1>9 DEF ReadFiles, Target
<1>14. /\ \A f : Occurs(f, u) <=> Occurs(f, C) \/ Occurs(f, D) \/ f = f0
       /\ stack[n] = Top /\ stack[n].chain = D /\ stack[n].file = f0
  BY <1>2, <1>6, <1>8 DEF Top
<1>15. ShapeInv'
  <2>1. \A p \in 2..m : p \in 1..m /\ p \in 2..n
    BY <1>4
  <2> QED  BY <1>1, <1>2, <1>9, <1>11, <2>1 DEF ShapeInv
<1>16. PhaseInv'
  <2>1. stack' # << >> /\ 1 \in 1..m
    BY <1>4, <1>11, EmptySeq
  <2> QED  BY <1>1, <1>3, <1>9, <1>11, <2>1 DEF PhaseInv
<1>17. PlaceInv'
  <2>0. \A f \in ReadFiles : f \in Files
    BY DEF ReadFiles
  <2>1. \A p \in 1..m : stack'[p].file \in ReadFiles
    BY <1>1, <1>2, <1>11, <1>12 DEF PlaceInv
  <2>2. \A p \in 1..m : \A f \in Files : Occurs(f, stack'[p].chain) => f \in ReadFiles
    <3>1. \A p \in 1..n : \A f \in Files : Occurs(f, stack[p].chain) => f \in ReadFiles
      BY <1>1, <1>2 DEF PlaceInv
    <3> TAKE p \in 1..m
    <3>2. CASE p = m
      BY <1>3, <1>4, <1>11, <1>14, <3>1, <3>2
    <3>3. CASE p # m
      BY <1>11, <1>12, <3>1, <3>3
    <3> QED  BY <3>2, <3>3
  <2>3. \A f \in ReadFiles : \E p \in 1..m : stack'[p].file = f \/ Occurs(f, stack'[p].chain)
    <3> TAKE f \in ReadFiles
    <3>1. PICK p \in 1..n : stack[p].file = f \/ Occurs(f, stack[p].chain)
      BY <1>1, <1>2, <1>3 DEF PlaceInv
    <3>2. CASE p = n
      BY <1>4, <1>11, <1>14, <3>1, <3>2
    <3>3. CASE p # n
      <4>1. p \in 1..m
        BY <1>4, <3>3
      <4> QED  BY <1>11, <1>14, <3>1, <4>1
    <3> QED  BY <3>2, <3>3
  <2>4. ASSUME NEW p \in 1..m, NEW q \in 1..m
        PROVE  /\ stack'[p].file = stack'[q].file => p = q
               /\ ~Occurs(stack'[p].file, stack'[q].chain)
               /\ \A f \in Files :
                    Occurs(f, stack'[p].chain) /\ Occurs(f, stack'[q].chain) => p = q
    <3>1. /\ \A i, j \in 1..n :
               /\ stack[i].file = stack[j].file => i = j
               /\ ~Occurs(stack[i].file, stack[j].chain)
               /\ \A f \in Files :
                    Occurs(f, stack[i].chain) /\ Occurs(f, stack[j].chain) => i = j
      BY <1>1, <1>2 DEF PlaceInv
    <3>2. p \in 1..n /\ q \in 1..n /\ p # n /\ q # n
      BY <1>4
    <3>3. stack'[p].file = stack'[q].file => p = q
      BY <1>11, <3>1, <3>2
    <3>4. ~Occurs(stack'[p].file, stack'[q].chain)
      <4>1. stack[p].file # f0 /\ ~Occurs(stack[p].file, D) /\ ~Occurs(stack[p].file, stack[q].chain)
        BY <1>4, <1>14, <3>1, <3>2
      <4> QED  BY <1>11, <1>14, <4>1
    <3>5. ASSUME NEW f \in Files, Occurs(f, stack'[p].chain), Occurs(f, stack'[q].chain)
          PROVE  p = q
      <4>1. \A i \in 1..m : Occurs(f, stack'[i].chain) =>
              Occurs(f, stack[i].chain) \/ (i = m /\ (Occurs(f, stack[n].chain) \/ f = stack[n].file))
        BY <1>11, <1>14
      <4>2. \A i \in 1..m : ~(Occurs(f, stack[i].chain) /\ (Occurs(f, stack[n].chain) \/ f = stack[n].file))
        BY <1>4, <1>12, <3>1
      <4> QED  BY <3>1, <3>2, <3>5, <4>1, <4>2
    <3> QED  BY <3>3, <3>4, <3>5
  <2> QED  BY <1>11, <1>13, <2>1, <2>2, <2>3, <2>4 DEF PlaceInv
<1>18. DoneInv'
  <2>1. ASSUME NEW p \in 1..m, NEW f \in Files, stack'[p].file = f, ~stack'[p].capped,
               NEW k \in Unreported(f)', k < stack'[p].next
        PROVE  /\ Target(f, k)' \in visited'
               /\ Target(f, k)' \in ReadFiles' =>
                    \/ Occurs(Target(f, k)', stack'[p].chain)
                    \/ p < m /\ stack'[p + 1].file = Target(f, k)'
    <3>0. Target(f, k)' = Target(f, k) /\ visited' = visited /\ ReadFiles' = ReadFiles
      BY <1>9, <1>13
    <3> SUFFICES
          /\ Target(f, k) \in visited
          /\ Target(f, k) \in ReadFiles =>
               \/ Occurs(Target(f, k), stack'[p].chain)
               \/ p < m /\ stack'[p + 1].file = Target(f, k)
      BY <3>0
    <3>1. /\ p \in 1..n /\ stack[p].file = f /\ ~stack[p].capped /\ k \in Unreported(f)
          /\ k < stack[p].next
      BY <1>3, <1>11, <1>12, <2>1
    <3>2. /\ Target(f, k) \in visited
          /\ Target(f, k) \in ReadFiles =>
               \/ Occurs(Target(f, k), stack[p].chain)
               \/ p < n /\ stack[p + 1].file = Target(f, k)
      BY <1>1, <1>2, <3>1 DEF DoneInv
    <3>3. CASE p = m
      <4>1. stack[p + 1].file = f0
        BY <1>4, <1>14, <3>3
      <4> QED  BY <1>11, <1>14, <3>2, <3>3, <4>1
    <3>4. CASE p # m
      <4>1. p < m /\ p + 1 \in 1..m
        BY <1>4, <3>4
      <4> QED  BY <1>11, <3>2, <3>4, <4>1
    <3> QED  BY <3>3, <3>4
  <2>2. ASSUME NEW p \in 1..m, NEW f \in Files, Occurs(f, stack'[p].chain), ~Capped(f)',
               NEW k \in Unreported(f)'
        PROVE  /\ Target(f, k)' \in visited'
               /\ Target(f, k)' \in ReadFiles' => Occurs(Target(f, k)', stack'[p].chain)
               /\ Before(stack'[p].chain, Target(f, k)', f)
    <3>0. Target(f, k)' = Target(f, k) /\ visited' = visited /\ ReadFiles' = ReadFiles
      BY <1>9, <1>13
    <3> SUFFICES
          /\ Target(f, k) \in visited
          /\ Target(f, k) \in ReadFiles => Occurs(Target(f, k), stack'[p].chain)
          /\ Before(stack'[p].chain, Target(f, k), f)
      BY <3>0
    <3>1. ~Capped(f) /\ k \in Unreported(f) /\ p \in 1..n
      BY <1>3, <1>12, <2>2
    <3>2. Occurs(f, stack[p].chain) =>
            /\ Target(f, k) \in visited
            /\ Target(f, k) \in ReadFiles => Occurs(Target(f, k), stack[p].chain)
            /\ Before(stack[p].chain, Target(f, k), f)
      BY <1>1, <1>2, <3>1 DEF DoneInv
    <3>3. CASE p # m
      BY <1>11, <2>2, <3>2, <3>3
    <3>4. CASE p = m
      <4> DEFINE g == Target(f, k)
      <4>0. \A i, j \in 1..n :
              /\ stack[i].file = stack[j].file => i = j
              /\ ~Occurs(stack[i].file, stack[j].chain)
              /\ \A h \in Files :
                   Occurs(h, stack[i].chain) /\ Occurs(h, stack[j].chain) => i = j
        BY <1>1, <1>2 DEF PlaceInv
      <4>1. CASE Occurs(f, C)
        <5>1. g \in visited /\ (g \in ReadFiles => Occurs(g, C)) /\ Before(C, g, f)
          BY <3>2, <3>4, <4>1
        <5>2. g \in Files
          BY <1>1, <5>1 DEF ShapeInv
        <5>3. Occurs(g, block) => Occurs(g, C)
          BY <1>1, <1>2, <1>3, <1>4, <1>6, <1>14, <5>1, <5>2 DEF PlaceInv
        <5>4. ~Occurs(g, block)
          <6>1. ~(Occurs(g, C) /\ Occurs(g, D))
            BY <1>4, <1>14, <4>0, <5>2
          <6>2. ~(Occurs(g, C) /\ g = f0)
            BY <1>4, <1>14, <4>0
          <6> QED  BY <1>6, <5>3, <6>1, <6>2
        <5>5. Before(block, g, f)
          BY <1>6, <5>4, NotInChain
        <5> QED  BY <1>8, <1>11, <3>4, <5>1, <5>4, <5>5
      <4>2. CASE ~Occurs(f, C)
        <5>1. Occurs(f, sub)
          BY <1>3, <1>11, <1>14, <2>2, <3>4, <4>2
        <5>2. /\ g \in visited /\ (g \in ReadFiles => Occurs(g, D))
              /\ g # f0 /\ Before(sub, g, f)
          BY <1>3, <2>2, <5>1
        <5>3. Before(C, g, f)
          BY <1>7, <4>2, NotInChain
        <5>4. Before(u, g, f)
          BY <1>6, <1>8, <4>2, <5>2, <5>3
        <5> QED  BY <1>11, <1>14, <3>4, <5>2, <5>4
      <4> QED  BY <4>1, <4>2
    <3> QED  BY <3>3, <3>4
  <2> QED  BY <1>11, <2>1, <2>2 DEF DoneInv
<1>19. ChainInv' /\ MergeInv'
  BY <1>3, <1>9, StillWalking
<1> QED  BY <1>15, <1>16, <1>17, <1>18, <1>19 DEF CascadeInv

-----------------------------------------------------------------------------
(* The first step, and the includes that are passed over.                   *)

\* The component is outside the root or has no file: there is nothing to do.
LEMMA NothingToResolve ==
  ASSUME CascadeInv, phase = "start", phase' = "done",
         UNCHANGED <<content, reads, visited, active, stack, chain, pos, acc>>
  PROVE  CascadeInv'
<1>1. ShapeInv /\ PhaseInv /\ MergeInv
  BY DEF CascadeInv
<1>2. /\ ReadFiles = {} /\ stack = << >> /\ chain = << >> /\ pos = 0
      /\ ReadFiles' = {} /\ stack' = << >> /\ chain' = << >> /\ pos' = 0
  <2>1. ReadFiles' = ReadFiles
    BY DEF ReadFiles
  <2> QED  BY <1>1, <2>1 DEF PhaseInv
<1>3. Len(stack') = 0 /\ Len(chain') = 0 /\ \A i \in 1..0 : FALSE
  BY <1>2
<1>4. content'[Child] = None
  BY <1>2, ChildIsFile DEF ReadFiles
<1>5. ShapeInv'
  BY <1>1 DEF ShapeInv
<1>6. PhaseInv'
  BY <1>2 DEF PhaseInv
<1>7. PlaceInv'
  BY <1>3 DEF PlaceInv
<1>8. DoneInv'
  BY <1>3 DEF DoneInv
<1>9. ChainInv'
  BY <1>2, <1>4 DEF ChainInv
<1>10. MergeInv'
  <2>1. ~(pos' > 0)
    BY <1>2
  <2> QED  BY <1>2, <1>3, <1>4, <2>1 DEF MergeInv
<1> QED  BY <1>5, <1>6, <1>7, <1>8, <1>9, <1>10 DEF CascadeInv

\* The component's own file is read.
LEMMA ReadChildStep == ASSUME CascadeInv, ReadChild PROVE CascadeInv'
<1>1. ShapeInv /\ PhaseInv
  BY DEF CascadeInv
<1>2. /\ ReadFiles = {} /\ visited = {} /\ chain = << >> /\ pos = 0
      /\ phase' = "chain" /\ chain' = << >> /\ pos' = 0 /\ acc' = acc
      /\ visited' = {Child} /\ stack' = <<Frame(Child, None, 0)>>
      /\ reads' = [reads EXCEPT ![Child] = @ + 1]
  BY <1>1 DEF ReadChild, Read, PhaseInv
<1>3. content[Child] = None /\ reads[Child] = 0
  <2>1. reads[Child] \in 0..1 /\ reads[Child] # 1
    BY <1>1, <1>2, ChildIsFile DEF ShapeInv
  <2> QED  BY <1>2, <2>1, ChildIsFile DEF ReadFiles
<1>4. PICK c \in Contents[Child] : content' = [content EXCEPT ![Child] = c]
  BY <1>3 DEF ReadChild, Read
<1>5. c \in ContentShape /\ c # None
  BY ContentsShaped, ChildIsFile
<1> DEFINE fr == Frame(Child, None, 0)
<1>6. /\ fr \in FrameShape /\ fr.file = Child /\ fr.next = 1 /\ fr.chain = << >>
  <2>1. (0 >= MaxDepth) \in BOOLEAN
    OBVIOUS
  <2>2. << >> \in Seq(Entries)
    OBVIOUS
  <2> QED  BY <2>1, <2>2, ChildIsFile DEF Frame, FrameShape
<1> HIDE DEF fr
<1>7. /\ stack' = <<fr>> /\ stack' \in Seq(FrameShape) /\ Len(stack') = 1
      /\ stack'[1] = fr /\ stack' # << >>
  BY <1>2, <1>6 DEF fr
<1>8. ReadFiles' = {Child}
  BY <1>1, <1>2, <1>4, <1>5, ChildIsFile DEF ReadFiles, ShapeInv
<1>9. \A p \in 1..1 : p = 1
  OBVIOUS
<1>10. ShapeInv'
  <2>1. \A p \in 2..Len(stack') : FALSE
    BY <1>7
  <2>2. reads' \in [Files -> 0..1]
    <3>1. reads[Child] + 1 \in 0..1
      BY <1>3
    <3> QED  BY <1>1, <1>2, <3>1 DEF ShapeInv
  <2>3. \A f \in Files : reads'[f] = 1 => f \in visited'
    BY <1>1, <1>2 DEF ShapeInv
  <2>4. content' \in [Files -> ContentShape \cup {None}]
    BY <1>1, <1>4, <1>5 DEF ShapeInv
  <2>5. \A f \in Files : content'[f] # None => content'[f] \in ContentShape /\ f \in visited'
    BY <1>1, <1>2, <1>4, <1>5 DEF ShapeInv
  <2>6. chain' \in Seq(Entries) /\ pos' \in 0..Len(chain')
    BY <1>2
  <2> QED  BY <1>1, <1>2, <1>7, <2>1, <2>2, <2>3, <2>4, <2>5, <2>6, ChildIsFile DEF ShapeInv
<1>11. PhaseInv'
  BY <1>2, <1>6, <1>7 DEF PhaseInv
<1>12. \A f : ~Occurs(f, stack'[1].chain)
  BY <1>6, <1>7 DEF Occurs
<1>13. PlaceInv'
  BY <1>6, <1>7, <1>8, <1>9, <1>12 DEF PlaceInv
<1>14. DoneInv'
  <2>1. \A f : \A k \in Unreported(f)' : ~(k < 1)
    BY DEF Unreported
  <2> QED  BY <1>6, <1>7, <1>9, <1>12, <2>1 DEF DoneInv
<1> QED  BY <1>2, <1>10, <1>11, <1>13, <1>14, StillWalking DEF CascadeInv

\* A bad path is reported, and the walk goes on.
LEMMA SkipBadPathStep == ASSUME CascadeInv, SkipBadPath PROVE CascadeInv'
<1>1. PICK f0, k0 : f0 = Top.file /\ k0 = Top.next
  OBVIOUS
<1>2. AtInclude /\ Include.path \in BadPaths
  BY DEF SkipBadPath
<1>3. BadPathCode[Include.path] \in {"TG2003", "TG2004", "TG2005", "TG2006"}
  BY <1>2 DEF BadPathCode, BadPaths
<1>4. diags' = diags \cup {<<BadPathCode[Include.path], f0, k0>>}
  BY <1>1 DEF SkipBadPath, Report
<1>5. Reported(f0, k0)'
  BY <1>3, <1>4 DEF Reported
<1>6. visited \subseteq visited' /\ visited' \subseteq Files
  BY DEF SkipBadPath, CascadeInv, ShapeInv
<1> QED  BY <1>1, <1>2, <1>4, <1>5, <1>6, PassOver DEF SkipBadPath

\* A file that was seen before is reported, and the walk goes on.
LEMMA SkipVisitedStep == ASSUME CascadeInv, SkipVisited PROVE CascadeInv'
<1>1. PICK f0, k0 : f0 = Top.file /\ k0 = Top.next
  OBVIOUS
<1>2. diags' = diags \cup {<<"TG2006", f0, k0>>}
  BY <1>1 DEF SkipVisited, Report
<1>3. Reported(f0, k0)'
  BY <1>2 DEF Reported
<1>4. visited \subseteq visited' /\ visited' \subseteq Files
  BY DEF SkipVisited, CascadeInv, ShapeInv
<1> QED  BY <1>1, <1>2, <1>3, <1>4, PassOver DEF SkipVisited

\* A file that cannot be read is passed over; it was not read before either.
LEMMA SkipUnreadableStep == ASSUME CascadeInv, SkipUnreadable PROVE CascadeInv'
<1>1. PICK f0, k0 : f0 = Top.file /\ k0 = Top.next
  OBVIOUS
<1>2. Include.path \in visited' /\ Include.path \notin ReadFiles
  BY DEF SkipUnreadable, CascadeInv, ShapeInv, ReadFiles
<1>3. /\ visited \subseteq visited' /\ visited' \subseteq Files
  BY DEF SkipUnreadable, CascadeInv, ShapeInv
<1> QED  BY <1>1, <1>2, <1>3, PassOver DEF SkipUnreadable

-----------------------------------------------------------------------------
(* The merge.                                                               *)

\* What a file that was read binds the name to.
LEMMA BindingFacts ==
  ASSUME NEW f, content[f] \in ContentShape
  PROVE  /\ Binding(f).kind = content[f].local /\ Binding(f).kind \in LocalKinds
         /\ Binding(f).kind = "map" => Binding(f).val = [key \in {f, Shared} |-> f]
<1>1. content[f].local \in LocalKinds
  BY DEF ContentShape
<1> QED  BY <1>1 DEF Binding, Absent, LocalKinds

\* A merge leaves a binding of some kind; and unless the include says no_merge,
\* a name bound above or by the file stays bound.
LEMMA InheritKeeps ==
  ASSUME NEW above, NEW own, NEW strategy, above.kind \in LocalKinds,
         own.kind \in LocalKinds
  PROVE  /\ Inherit(above, own, strategy).kind \in LocalKinds
         /\ strategy # "no_merge" /\ (above.kind # "absent" \/ own.kind # "absent")
              => Inherit(above, own, strategy).kind # "absent"
<1> DEFINE a == Literal(above)  o == Literal(own)  m == MergeLocal(a, o, strategy)
<1>1. /\ a.kind \in LocalKinds /\ o.kind \in LocalKinds
      /\ above.kind = "absent" \/ above.kind = "expr" \/ a.kind # "absent"
      /\ own.kind = "absent" \/ own.kind = "expr" \/ o.kind # "absent"
  BY DEF Literal, Absent, LocalKinds
<1> HIDE DEF a, o
<1>2. /\ m.kind \in LocalKinds
      /\ strategy # "no_merge" /\ (a.kind # "absent" \/ o.kind # "absent")
           => m.kind # "absent"
  BY <1>1 DEF MergeLocal, LocalKinds
<1>3. Inherit(above, own, strategy) =
        CASE m.kind # "absent" -> m
          [] m.kind = "absent" /\ own.kind = "expr" -> own
          [] OTHER -> IF above.kind = "expr" THEN above ELSE Absent
  BY DEF Inherit, a, o
<1> HIDE DEF m
<1> QED  BY <1>1, <1>2, <1>3 DEF Absent, LocalKinds

\* An entry with the tail's strategy has the last word.
LEMMA InheritTail ==
  ASSUME NEW above, NEW own
  PROVE  /\ own.kind \in {"scalar", "list"} =>
              Inherit(above, own, "deep_map_only") = own
         /\ own.kind = "map" =>
              /\ Inherit(above, own, "deep_map_only").kind = "map"
              /\ \A key \in DOMAIN own.val :
                   Inherit(above, own, "deep_map_only").val[key] = own.val[key]
<1>1. CASE own.kind \in {"scalar", "list"}
  <2>1. Literal(own) = own
    BY <1>1 DEF Literal
  <2>2. MergeLocal(Literal(above), own, "deep_map_only") = own
    BY <1>1 DEF MergeLocal
  <2> QED  BY <1>1, <2>1, <2>2 DEF Inherit
<1>2. CASE own.kind = "map"
  <2> DEFINE a == Literal(above)
             m == MergeLocal(a, own, "deep_map_only")
  <2>1. Literal(own) = own
    BY <1>2 DEF Literal
  <2>2. m = IF a.kind = "map" THEN [kind |-> "map", val |-> Over(own.val, a.val)] ELSE own
    BY <1>2 DEF MergeLocal
  <2>3. \A key \in DOMAIN own.val : Over(own.val, a.val)[key] = own.val[key]
    BY DEF Over
  <2>4. m.kind = "map" /\ \A key \in DOMAIN own.val : m.val[key] = own.val[key]
    BY <1>2, <2>2, <2>3
  <2>5. Inherit(above, own, "deep_map_only") = m
    BY <2>1, <2>4 DEF Inherit
  <2> QED  BY <1>2, <2>4, <2>5
<1> QED  BY <1>1, <1>2

\* One entry of the chain is merged.
LEMMA MergeEntryStep == ASSUME CascadeInv, MergeEntry PROVE CascadeInv'
<1>1. ShapeInv /\ PhaseInv /\ PlaceInv /\ DoneInv /\ ChainInv /\ MergeInv
  BY DEF CascadeInv
<1>2. PICK e, n, above, own : /\ e = chain[pos + 1] /\ n = Len(chain)
                              /\ above = acc.local /\ own = Binding(e.file)
  OBVIOUS
<1>3. /\ phase = "cascade" /\ pos < n /\ pos' = pos + 1
      /\ UNCHANGED <<phase, content, reads, visited, active, stack, chain, diags>>
      /\ acc'.local = Inherit(above, own, e.strategy)
      /\ content[e.file].body => acc'.inputs = e.file /\ acc'.generate = e.file
  BY <1>2 DEF MergeEntry
<1>4. pos \in 0..n /\ n \in Nat /\ pos \in Nat /\ chain \in Seq(Entries)
  BY <1>1, <1>2 DEF ShapeInv
<1>5. pos + 1 \in 1..n /\ pos + 1 \in 0..n /\ n # 0
  BY <1>3, <1>4
<1>6. e.file \in ReadFiles /\ content[e.file] \in ContentShape
  BY <1>1, <1>2, <1>5 DEF MergeInv, ShapeInv, ReadFiles
<1>7. /\ own.kind = content[e.file].local /\ own.kind \in LocalKinds
      /\ own.kind = "map" => own.val = [key \in {e.file, Shared} |-> e.file]
  BY <1>2, <1>6, BindingFacts
<1>8. above.kind \in LocalKinds
  BY <1>1, <1>2 DEF ShapeInv
<1>9. /\ acc'.local.kind \in LocalKinds
      /\ e.strategy # "no_merge" /\ (above.kind # "absent" \/ own.kind # "absent")
           => acc'.local.kind # "absent"
  BY <1>3, <1>7, <1>8, InheritKeeps
<1>10. ReadFiles' = ReadFiles /\ Binding(Child)' = Binding(Child)
  BY <1>3 DEF ReadFiles, Binding
<1>11. ShapeInv' /\ PhaseInv' /\ PlaceInv' /\ DoneInv' /\ ChainInv'
  <2>1. ShapeInv'
    BY <1>1, <1>2, <1>3, <1>5, <1>9 DEF ShapeInv
  <2>2. PhaseInv'
    BY <1>1, <1>3 DEF PhaseInv
  <2>3. PlaceInv'
    BY <1>1, <1>3, <1>10 DEF PlaceInv
  <2>4. /\ \A f, k : (Target(f, k)' = Target(f, k)) /\ (Reported(f, k)' <=> Reported(f, k))
        /\ \A f : (Capped(f)' <=> Capped(f)) /\ (Unreported(f)' = Unreported(f))
    BY <1>3 DEF Target, Reported, Capped, Unreported
  <2>5. DoneInv'
    BY <1>1, <1>3, <1>10, <2>4 DEF DoneInv
  <2>6. ChainInv'
    BY <1>1, <1>3, <1>10, <2>4 DEF ChainInv
  <2> QED  BY <2>1, <2>2, <2>3, <2>5, <2>6
<1>12. ASSUME pos + 1 = n  PROVE ChildSays'
  <2>1. e = TailEntry(Child)
    <3>1. chain # << >>
      BY <1>2, <1>4, <1>5, EmptySeq
    <3> QED  BY <1>1, <1>2, <1>3, <1>12, <3>1 DEF ChainInv
  <2>2. e.file = Child /\ e.strategy = "deep_map_only"
    BY <2>1 DEF TailEntry, Entry
  <2>3. own = Binding(Child)'
    BY <1>2, <1>10, <2>2
  <2>4. /\ own.kind \in {"scalar", "list"} => acc'.local = own
        /\ own.kind = "map" =>
             /\ acc'.local.kind = "map"
             /\ \A key \in DOMAIN own.val : acc'.local.val[key] = own.val[key]
    BY <1>3, <2>2, InheritTail
  <2>5. own.kind = "map" => \A key \in DOMAIN own.val : own.val[key] = Child
    BY <1>7, <2>2
  <2>6. content'[Child].body => acc'.inputs = Child /\ acc'.generate = Child
    BY <1>3, <2>2
  <2> QED  BY <2>3, <2>4, <2>5, <2>6 DEF ChildSays
<1>13. ASSUME \A i \in 1..n : chain[i].strategy # "no_merge",
              NEW i \in 1..(pos + 1), content[chain[i].file].local # "absent"
       PROVE  acc'.local.kind # "absent"
  <2>1. e.strategy # "no_merge"
    BY <1>2, <1>5, <1>13
  <2>2. CASE i = pos + 1
    BY <1>2, <1>7, <1>9, <1>13, <2>1, <2>2
  <2>3. CASE i # pos + 1
    <3>1. i \in 1..pos
      BY <1>4, <2>3
    <3>2. above.kind # "absent"
      BY <1>1, <1>2, <1>13, <3>1 DEF MergeInv
    <3> QED  BY <1>9, <2>1, <3>2
  <2> QED  BY <2>2, <2>3
<1>14. MergeInv'
  <2>1. (pos' > 0 /\ pos' = Len(chain')) => ChildSays'
    BY <1>2, <1>3, <1>12
  <2>2. (\A i \in 1..Len(chain') : chain'[i].strategy # "no_merge") =>
          ((\E i \in 1..pos' : content'[chain'[i].file].local # "absent")
             => acc'.local.kind # "absent")
    BY <1>2, <1>3, <1>13
  <2>3. \A i \in 1..Len(chain') : chain'[i].file \in ReadFiles'
    BY <1>1, <1>3, <1>10 DEF MergeInv
  <2>4. phase' # "done"
    BY <1>3
  <2> QED  BY <2>1, <2>2, <2>3, <2>4 DEF MergeInv
<1> QED  BY <1>11, <1>14 DEF CascadeInv

\* Steps that leave everything but the phase alone, after the chain is built.
LEMMA NothingMoves ==
  ASSUME CascadeInv, phase' # "chain", phase' # "start",
         phase' = phase \/ (phase = "cascade" /\ phase' = "done" /\ pos = Len(chain)),
         UNCHANGED <<content, reads, visited, active, stack, chain, pos, acc, diags>>
  PROVE  CascadeInv'
<1>1. ShapeInv /\ PhaseInv /\ PlaceInv /\ DoneInv /\ ChainInv /\ MergeInv
  BY DEF CascadeInv
<1>2. phase \in {"cascade", "done"} /\ phase' \in {"cascade", "done"}
  BY <1>1 DEF ShapeInv
<1>3. ReadFiles' = ReadFiles /\ Binding(Child)' = Binding(Child)
  BY DEF ReadFiles, Binding
<1>4. /\ \A f, k : (Target(f, k)' = Target(f, k)) /\ (Reported(f, k)' <=> Reported(f, k))
      /\ \A f : (Capped(f)' <=> Capped(f)) /\ (Unreported(f)' = Unreported(f))
  BY DEF Target, Reported, Capped, Unreported
<1>5. ShapeInv' /\ PhaseInv'
  BY <1>1, <1>2 DEF ShapeInv, PhaseInv
<1>6. PlaceInv'
  BY <1>1, <1>2, <1>3 DEF PlaceInv
<1>7. DoneInv'
  BY <1>1, <1>3, <1>4 DEF DoneInv
<1>8. ChainInv'
  BY <1>1, <1>2, <1>3, <1>4 DEF ChainInv
<1>9. MergeInv'
  <2>1. ChildSays => ChildSays'
    BY <1>3 DEF ChildSays
  <2> QED  BY <1>1, <1>2, <1>3, <2>1 DEF MergeInv
<1> QED  BY <1>5, <1>6, <1>7, <1>8, <1>9 DEF CascadeInv

-----------------------------------------------------------------------------
(* The theorems.                                                            *)

\* The invariant holds before anything was read.
LEMMA InitCascadeInv == Init => CascadeInv
<1> SUFFICES ASSUME Init PROVE CascadeInv
  OBVIOUS
<1>1. /\ phase = "start" /\ stack = << >> /\ chain = << >> /\ pos = 0 /\ visited = {}
      /\ content = [f \in Files |-> None] /\ reads = [f \in Files |-> 0]
      /\ acc.local.kind = "absent"
  BY DEF Init, EmptyBody, Absent
<1>2. Len(stack) = 0 /\ Len(chain) = 0 /\ ReadFiles = {} /\ \A i \in 1..0 : FALSE
  BY <1>1 DEF ReadFiles
<1>3. ShapeInv
  <2>1. stack \in Seq(FrameShape) /\ chain \in Seq(Entries) /\ pos \in 0..Len(chain)
    BY <1>1, <1>2
  <2>2. \A p \in 2..Len(stack) : FALSE
    BY <1>2
  <2>3. content \in [Files -> ContentShape \cup {None}] /\ reads \in [Files -> 0..1]
    BY <1>1
  <2> QED  BY <1>1, <2>1, <2>2, <2>3 DEF ShapeInv, LocalKinds
<1>4. PhaseInv
  BY <1>1, <1>2 DEF PhaseInv
<1>5. PlaceInv /\ DoneInv
  BY <1>1, <1>2 DEF PlaceInv, DoneInv
<1>6. ChainInv
  BY <1>1 DEF ChainInv
<1>7. MergeInv
  <2>1. ~(pos > 0)
    BY <1>1
  <2> QED  BY <1>1, <1>2, <2>1 DEF MergeInv
<1> QED  BY <1>3, <1>4, <1>5, <1>6, <1>7 DEF CascadeInv

\* Every step preserves it.
LEMMA NextCascadeInv == ASSUME CascadeInv, [Next]_vars PROVE CascadeInv'
<1>1. CASE OutsideRoot
  BY <1>1, NothingToResolve DEF OutsideRoot
<1>2. CASE NoChild
  BY <1>2, NothingToResolve DEF NoChild
<1>3. CASE ReadChild
  BY <1>3, ReadChildStep
<1>4. CASE SkipBadPath
  BY <1>4, SkipBadPathStep
<1>5. CASE SkipVisited
  BY <1>5, SkipVisitedStep
<1>6. CASE SkipUnreadable
  BY <1>6, SkipUnreadableStep
<1>7. CASE Descend
  BY <1>7, DescendStep
<1>8. CASE Return
  BY <1>8, ReturnLast, ReturnInner
<1>9. CASE MergeEntry
  BY <1>9, MergeEntryStep
<1>10. CASE Finish
  BY <1>10, NothingMoves DEF Finish
<1>11. CASE UNCHANGED vars
  <2>1. ShapeInv /\ PhaseInv /\ PlaceInv /\ DoneInv /\ ChainInv /\ MergeInv
    BY DEF CascadeInv
  <2>2. ReadFiles' = ReadFiles /\ Binding(Child)' = Binding(Child)
    BY <1>11 DEF vars, ReadFiles, Binding
  <2>3. /\ \A f, k : (Target(f, k)' = Target(f, k)) /\ (Reported(f, k)' <=> Reported(f, k))
        /\ \A f : (Capped(f)' <=> Capped(f)) /\ (Unreported(f)' = Unreported(f))
    BY <1>11 DEF vars, Target, Reported, Capped, Unreported
  <2>4. ShapeInv' /\ PhaseInv'
    BY <1>11, <2>1, <2>2 DEF vars, ShapeInv, PhaseInv
  <2>5. PlaceInv'
    BY <1>11, <2>1, <2>2 DEF vars, PlaceInv
  <2>6. DoneInv'
    BY <1>11, <2>1, <2>2, <2>3 DEF vars, DoneInv
  <2>7. ChainInv'
    BY <1>11, <2>1, <2>2, <2>3 DEF vars, ChainInv
  <2>8. MergeInv'
    BY <1>11, <2>1, <2>2 DEF vars, MergeInv, ChildSays
  <2> QED  BY <2>4, <2>5, <2>6, <2>7, <2>8 DEF CascadeInv
<1> QED
  BY <1>1, <1>2, <1>3, <1>4, <1>5, <1>6, <1>7, <1>8, <1>9, <1>10, <1>11
  DEF Next, ResolveStep, Terminated

\* CascadeInv is an invariant of a resolution.
LEMMA CascadeInvariant == Spec => []CascadeInv
  BY InitCascadeInv, NextCascadeInv, PTL DEF Spec

\* No include is lost: each include block of each file that was read is
\* reported, or its file was looked at, and merged if it could be read; and no
\* file is read twice (resolve_include_chain's `visited` set, I-TG-3).
THEOREM NoIncludeIsLost == Spec => []IncludesAccountedFor
<1>1. ASSUME CascadeInv  PROVE IncludesAccountedFor
  <2>1. ShapeInv /\ ChainInv
    BY <1>1 DEF CascadeInv
  <2>2. \A f \in Files : reads[f] <= 1
    <3> TAKE f \in Files
    <3>1. reads[f] \in 0..1
      BY <2>1 DEF ShapeInv
    <3> QED  BY <3>1
  <2>3. \A g : Occurs(g, chain) => InChain(g) # {}
    BY DEF Occurs, InChain
  <2>4. ASSUME phase \in {"cascade", "done"}, NEW f \in ReadFiles, ~Capped(f),
               NEW k \in 1..Len(content[f].includes), ~Reported(f, k)
        PROVE  /\ content[f].includes[k].path \in visited
               /\ content[f].includes[k].path \in ReadFiles =>
                    InChain(content[f].includes[k].path) # {}
    <3>1. k \in Unreported(f) /\ Target(f, k) = content[f].includes[k].path
      BY <2>4 DEF Unreported, Target
    <3>2. Target(f, k) \in visited
      BY <2>1, <2>4, <3>1 DEF ChainInv
    <3>3. \A g \in ReadFiles : InChain(g) # {}
      BY <2>1, <2>3, <2>4 DEF ChainInv
    <3> QED  BY <3>1, <3>2, <3>3
  <2> QED  BY <2>2, <2>4 DEF IncludesAccountedFor
<1> QED  BY <1>1, CascadeInvariant, PTL

\* What a file includes is merged before the file, and the component's own
\* body last ("deepest-first", the order apply_cascade relies on).
THEOREM ParentsFirst == Spec => []IncludedBeforeIncluder
<1>1. ASSUME CascadeInv  PROVE IncludedBeforeIncluder
  <2>1. ChainInv
    BY <1>1 DEF CascadeInv
  <2>2. ASSUME phase \in {"cascade", "done"}, NEW f \in ReadFiles, ~Capped(f),
               NEW k \in 1..Len(content[f].includes), ~Reported(f, k),
               NEW i \in InChain(content[f].includes[k].path), NEW j \in InChain(f)
        PROVE  i < j
    <3>1. k \in Unreported(f) /\ Target(f, k) = content[f].includes[k].path
      BY <2>2 DEF Unreported, Target
    <3>2. Before(chain, Target(f, k), f)
      BY <2>1, <2>2, <3>1 DEF ChainInv
    <3> QED  BY <3>1, <3>2 DEF Before, InChain
  <2> QED  BY <2>1, <2>2 DEF IncludedBeforeIncluder, ChainInv
<1> QED  BY <1>1, CascadeInvariant, PTL

\* The component has the last word: a literal it binds, its inputs and its
\* generate block come out of apply_cascade as it wrote them, and its map
\* keeps its keys.
THEOREM ChildHasLastWord == Spec => []ChildLiteralWins
<1>1. ASSUME CascadeInv  PROVE ChildLiteralWins
  <2>1. ASSUME phase = "done", content[Child] # None  PROVE ChildSays
    <3>1. pos = Len(chain) /\ chain # << >> /\ chain \in Seq(Entries)
      BY <1>1, <2>1 DEF CascadeInv, MergeInv, ChainInv, ShapeInv
    <3>2. pos > 0
      BY <3>1, EmptySeq
    <3> QED  BY <1>1, <3>1, <3>2 DEF CascadeInv, MergeInv
  <2> QED  BY <2>1 DEF ChildLiteralWins, ChildSays
<1> QED  BY <1>1, CascadeInvariant, PTL

\* Unless an include says no_merge, a name that any file of the chain binds,
\* by a literal or by an expression, is bound in the merged body (merge_locals
\* and map_to_locals_with_inherited).
THEOREM BoundStaysBound == Spec => []BindingsSurvive
<1>1. ASSUME CascadeInv  PROVE BindingsSurvive
  <2>1. ShapeInv /\ ChainInv /\ MergeInv
    BY <1>1 DEF CascadeInv
  <2>2. ASSUME phase = "done", NEW i \in 1..Len(chain)  PROVE pos = Len(chain)
    <3>1. chain # << >> /\ chain[Len(chain)].file = Child /\ Len(chain) \in 1..Len(chain)
      <4>1. chain \in Seq(Entries) /\ Len(chain) \in Nat
        BY <2>1 DEF ShapeInv
      <4>2. Len(chain) # 0 /\ Len(chain) \in 1..Len(chain)
        BY <2>2, <4>1
      <4>3. chain # << >>
        BY <4>2
      <4> QED  BY <2>1, <2>2, <4>2, <4>3 DEF ChainInv, TailEntry, Entry
    <3>2. content[Child] # None
      BY <2>1, <3>1 DEF MergeInv, ReadFiles
    <3> QED  BY <2>1, <2>2, <3>2 DEF MergeInv
  <2> QED  BY <2>1, <2>2 DEF BindingsSurvive, MergeInv
<1> QED  BY <1>1, CascadeInvariant, PTL

=============================================================================
