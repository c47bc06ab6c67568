--------------------------- MODULE ReadConfig_proofs ---------------------------
(***************************************************************************)
(* Proofs about ReadConfig, for any number of files that read one another  *)
(* in any way and any cap on the passes: the memo, the files in flight and *)
(* the stack of reads stay in step, a memoised result holds what the file  *)
(* asked for, and the passes over the locals end at a fixpoint.            *)
(***************************************************************************)
EXTENDS ReadConfig, SequenceTheorems, TLAPS

-----------------------------------------------------------------------------
(* The inductive invariant.                                                 *)

In(k, s) == \E i \in 1..Len(s) : s[i] = k
EntriesOf(b) == b.locals \o b.inputs
Outcome == (SUBSET Files) \cup {None}

\* Reduced, for a body that is given.
Literally(b, e, got, val) ==
  /\ e.call # Illtyped
  /\ e.call \in Files => got # None
  /\ e.use # 0 => (e.use \in 1..Len(b.locals) /\ val[e.use] # None)

FrameShape(b) ==
  [file : Callers, inputs : BOOLEAN, pass : 1..MaxPasses, progress : BOOLEAN,
   pending : Seq(1..Len(EntriesOf(b))), kept : Seq(1..Len(EntriesOf(b))),
   got : [1..Len(EntriesOf(b)) -> Outcome], val : [1..Len(EntriesOf(b)) -> Outcome]]
AnyFrame == UNION {FrameShape(b) : b \in BodyShape}

\* The locals come first, then the inputs.
Stage(b, fr, k) ==
  IF fr.inputs THEN k \in (Len(b.locals) + 1)..Len(EntriesOf(b))
               ELSE k \in 1..Len(b.locals)

\* While the locals are evaluated each is resolved or still to come, in this
\* pass or the next; what was put off had its call answered, and could not be
\* reduced unless something was resolved since.
Passing(b, fr) ==
  /\ \A k \in 1..Len(b.locals) : fr.val[k] = None => In(k, fr.pending) \/ In(k, fr.kept)
  /\ \A k \in 1..Len(EntriesOf(b)) : In(k, fr.kept) =>
       /\ EntriesOf(b)[k].call \in Files => fr.got[k] # None
       /\ ~fr.progress => ~Literally(b, EntriesOf(b)[k], fr.got[k], fr.val)

Settled(b, fr) ==
  \A k \in 1..Len(b.locals) :
    fr.val[k] = None => ~Literally(b, EntriesOf(b)[k], fr.got[k], fr.val)

\* An answered call that needs no local went into the entry's value, or is
\* about to.
CallsKept(b, fr) ==
  \A k \in 1..Len(EntriesOf(b)) :
    (EntriesOf(b)[k].use = 0 /\ EntriesOf(b)[k].call \in Files /\ fr.got[k] # None)
      => \/ fr.val[k] = fr.got[k]
         \/ fr.pending # << >> /\ k = Head(fr.pending)

FrameInv(b, fr) ==
  /\ fr \in FrameShape(b)
  /\ \A k \in 1..Len(EntriesOf(b)) :
       In(k, fr.pending) \/ In(k, fr.kept) => Stage(b, fr, k)
  /\ ~fr.inputs => Passing(b, fr)
  /\ fr.inputs /\ fr.pass < MaxPasses => Settled(b, fr)
  /\ CallsKept(b, fr)

\* The entry a frame is at is a call of that file, not yet answered.
Awaits(b, fr, g) ==
  /\ fr.pending # << >>
  /\ EntriesOf(b)[Head(fr.pending)].call = g
  /\ fr.got[Head(fr.pending)] = None

FramesInv ==
  /\ body = [f \in Callers |-> body[f]]
  /\ frames \in Seq(AnyFrame)
  /\ \A i \in 1..Len(frames) :
       /\ frames[i].file \in Callers
       /\ body[frames[i].file] \in BodyShape
       /\ FrameInv(body[frames[i].file], frames[i])
  /\ frames # << >> => frames[1].file = Component
  /\ \A i \in 1..(Len(frames) - 1) :
       Awaits(body[frames[i].file], frames[i], frames[i + 1].file)

StacksInv ==
  /\ parses \in [Files -> Nat]
  /\ open \in Seq(Files)
  /\ memo \in [Files -> Outcome]
  /\ inflight \subseteq Files
  /\ NothingLeaks
  /\ \A f \in Files : parses[f] = ByCascade(f) + (IF f \in inflight \/ memo[f] # None THEN 1 ELSE 0)

\* What became of the calls that were answered by a read or from the memo.
Accounted(f, k, g) ==
  /\ k \in 1..Len(Entries(f)) /\ Entries(f)[k].call = g /\ g \in Files
  /\ f \in inflight \/ memo[f] # None
  /\ \A i \in 1..Len(frames) : frames[i].file = f =>
       \/ memo[g] # None /\ frames[i].got[k] = memo[g]
       \/ /\ i < Len(frames) /\ frames[i + 1].file = g
          /\ k = Head(frames[i].pending)
  /\ (memo[f] # None /\ Entries(f)[k].use = 0) =>
       memo[g] # None /\ memo[g] \subseteq memo[f]

AnswersInv ==
  \A a \in answers :
    a[1] \in Files /\ a[4] \in {"memo", "read"} => Accounted(a[1], a[2], a[3])

ReadInv == FramesInv /\ StacksInv /\ AnswersInv

-----------------------------------------------------------------------------
(* Sequences.                                                               *)

\* A list is its head and its tail.
LEMMA InHead ==
  ASSUME NEW S, NEW s \in Seq(S), s # << >>
  PROVE  /\ Head(s) \in S /\ Tail(s) \in Seq(S) /\ In(Head(s), s)
         /\ \A k : In(k, s) <=> k = Head(s) \/ In(k, Tail(s))
<1>1. Len(s) \in Nat \ {0} /\ Head(s) = s[1] /\ Head(s) \in S
  BY EmptySeq, LenProperties, HeadTailProperties
<1>2. Tail(s) \in Seq(S) /\ Len(Tail(s)) = Len(s) - 1
      /\ \A i \in 1..(Len(s) - 1) : Tail(s)[i] = s[i + 1]
  BY HeadTailProperties
<1>3. ASSUME NEW k, In(k, s), k # Head(s)  PROVE In(k, Tail(s))
  <2>1. PICK i \in 1..Len(s) : s[i] = k
    BY <1>3 DEF In
  <2>2. i - 1 \in 1..Len(Tail(s)) /\ Tail(s)[i - 1] = k
    BY <1>1, <1>2, <1>3, <2>1
  <2> QED  BY <2>2 DEF In
<1>4. ASSUME NEW k, In(k, Tail(s))  PROVE In(k, s)
  <2>1. PICK i \in 1..Len(Tail(s)) : Tail(s)[i] = k
    BY <1>4 DEF In
  <2>2. i + 1 \in 1..Len(s) /\ s[i + 1] = k
    BY <1>1, <1>2, <2>1
  <2> QED  BY <2>2 DEF In
<1>5. In(Head(s), s)
  BY <1>1 DEF In
<1> QED  BY <1>1, <1>2, <1>3, <1>4, <1>5

\* Appending adds the one element.
LEMMA InAppend ==
  ASSUME NEW S, NEW s \in Seq(S), NEW e \in S
  PROVE  /\ Append(s, e) \in Seq(S)
         /\ \A k : In(k, Append(s, e)) <=> In(k, s) \/ k = e
<1>1. /\ Append(s, e) \in Seq(S) /\ Len(Append(s, e)) = Len(s) + 1
      /\ \A i \in 1..Len(s) : Append(s, e)[i] = s[i]
      /\ Append(s, e)[Len(s) + 1] = e
  BY AppendProperties
<1>2. Len(s) \in Nat
  OBVIOUS
<1>3. ASSUME NEW k, In(k, Append(s, e))  PROVE In(k, s) \/ k = e
  <2>1. PICK i \in 1..Len(Append(s, e)) : Append(s, e)[i] = k
    BY <1>3 DEF In
  <2>2. i \in 1..Len(s) \/ i = Len(s) + 1
    BY <1>1, <1>2, <2>1
  <2> QED  BY <1>1, <2>1, <2>2 DEF In
<1>4. ASSUME NEW k, In(k, s) \/ k = e  PROVE In(k, Append(s, e))
  <2>1. CASE k = e
    <3>1. Len(s) + 1 \in 1..Len(Append(s, e))
      BY <1>1, <1>2
    <3> QED  BY <1>1, <2>1, <3>1 DEF In
  <2>2. CASE In(k, s)
    <3>1. PICK i \in 1..Len(s) : s[i] = k
      BY <2>2 DEF In
    <3>2. i \in 1..Len(Append(s, e)) /\ Append(s, e)[i] = k
      BY <1>1, <1>2, <3>1
    <3> QED  BY <3>2 DEF In
  <2> QED  BY <1>4, <2>1, <2>2
<1> QED  BY <1>1, <1>3, <1>4

\* Nothing is in the empty list, and what is in a list is of its elements.
LEMMA InEmpty == /\ \A k : ~In(k, << >>)
                 /\ \A S : \A s \in Seq(S) : \A k : In(k, s) => k \in S
  BY EmptySeq, ElementOfSeq DEF In

\* Upwards(first, last) lists first..last.
LEMMA UpwardsLists ==
  ASSUME NEW first \in Nat, NEW last \in Nat, first <= last + 1,
         NEW S, first..last \subseteq S
  PROVE  /\ Upwards(first, last) \in Seq(S)
         /\ \A k : In(k, Upwards(first, last)) <=> k \in first..last
<1> DEFINE n == last + 1 - first
<1>1. n \in Nat
  OBVIOUS
<1>2. Upwards(first, last) = [k \in 1..n |-> first + k - 1]
  BY DEF Upwards
<1>3. \A k \in 1..n : first + k - 1 \in first..last
  BY <1>1
<1>4. Upwards(first, last) \in [1..n -> S]
  BY <1>2, <1>3
<1>5. Upwards(first, last) \in Seq(S) /\ Len(Upwards(first, last)) = n
  BY <1>1, <1>4
<1>6. ASSUME NEW k \in first..last  PROVE In(k, Upwards(first, last))
  <2> DEFINE i == k - first + 1
  <2>1. i \in 1..n /\ first + i - 1 = k
    OBVIOUS
  <2>2. Upwards(first, last)[i] = k
    BY <1>2, <2>1
  <2> QED  BY <1>5, <2>1, <2>2 DEF In
<1>7. ASSUME NEW k, In(k, Upwards(first, last))  PROVE k \in first..last
  BY <1>2, <1>3, <1>5, <1>7 DEF In
<1> QED  BY <1>5, <1>6, <1>7

\* A body's entries are its locals and its inputs.
LEMMA EntriesTyped ==
  ASSUME NEW b \in BodyShape
  PROVE  /\ EntriesOf(b) \in Seq(Entry) /\ Len(EntriesOf(b)) \in Nat
         /\ Len(b.locals) \in Nat /\ Len(b.locals) <= Len(EntriesOf(b))
         /\ \A k \in 1..Len(EntriesOf(b)) :
              /\ EntriesOf(b)[k] \in Entry /\ EntriesOf(b)[k].use \in Nat
              /\ EntriesOf(b)[k].call \in Files \cup {None, Illtyped}
<1>1. b.locals \in Seq(Entry) /\ b.inputs \in Seq(Entry)
  BY DEF BodyShape
<1>2. EntriesOf(b) \in Seq(Entry)
      /\ Len(EntriesOf(b)) = Len(b.locals) + Len(b.inputs)
  BY <1>1, ConcatProperties DEF EntriesOf
<1>3. \A k \in 1..Len(EntriesOf(b)) : EntriesOf(b)[k] \in Entry
  BY <1>2, ElementOfSeq
<1>4. \A e \in Entry : e.use \in Nat /\ e.call \in Files \cup {None, Illtyped}
  BY DEF Entry
<1>5. Len(b.locals) \in Nat /\ Len(b.inputs) \in Nat
  BY <1>1
<1>6. Len(EntriesOf(b)) \in Nat /\ Len(b.locals) <= Len(EntriesOf(b))
  <2> DEFINE l == Len(b.locals)
             m == Len(b.inputs)
             t == Len(EntriesOf(b))
  <2>1. l \in Nat /\ m \in Nat /\ t = l + m
    BY <1>2, <1>5
  <2> HIDE DEF l, m, t
  <2>2. t \in Nat /\ l <= t
    BY <2>1
  <2> QED  BY <2>2 DEF l, t
<1> QED  BY <1>2, <1>3, <1>4, <1>5, <1>6, Zenon

-----------------------------------------------------------------------------
(* One frame.                                                               *)

\* evaluate_locals begins with every local pending.
LEMMA NewFrameInv ==
  ASSUME NEW b \in BodyShape, NEW f \in Callers
  PROVE  FrameInv(b, NewFrame(f, b)) /\ NewFrame(f, b).file = f
<1> DEFINE n == Len(EntriesOf(b))
           fr == NewFrame(f, b)
<1>1. n \in Nat /\ Len(b.locals) \in Nat /\ Len(b.locals) <= n
  BY EntriesTyped
<1>2. fr = [file |-> f, inputs |-> FALSE, pass |-> 1, progress |-> FALSE,
            pending |-> Upwards(1, Len(b.locals)), kept |-> << >>,
            got |-> [k \in 1..n |-> None], val |-> [k \in 1..n |-> None]]
  BY DEF NewFrame, EntriesOf
<1>3. /\ Upwards(1, Len(b.locals)) \in Seq(1..n)
      /\ \A k : In(k, Upwards(1, Len(b.locals))) <=> k \in 1..Len(b.locals)
  <2>1. 1..Len(b.locals) \subseteq 1..n
    BY <1>1
  <2> QED  BY <1>1, <2>1, UpwardsLists
<1>4. [k \in 1..n |-> None] \in [1..n -> Outcome] /\ << >> \in Seq(1..n)
  BY DEF Outcome
<1>5. fr \in FrameShape(b)
  BY <1>2, <1>3, <1>4, CapPositive DEF FrameShape
<1>6. /\ fr.pending = Upwards(1, Len(b.locals)) /\ fr.kept = << >>
      /\ fr.inputs = FALSE /\ \A k \in 1..n : fr.got[k] = None
  BY <1>2
<1>7. \A k \in 1..n : In(k, fr.pending) \/ In(k, fr.kept) => Stage(b, fr, k)
  BY <1>3, <1>6, InEmpty DEF Stage
<1>8. Passing(b, fr)
  BY <1>3, <1>6, InEmpty DEF Passing
<1>9. CallsKept(b, fr)
  BY <1>6 DEF CallsKept
<1>10. fr.file = f
  BY <1>2
<1> HIDE DEF fr
<1>11. FrameInv(b, fr)
  BY <1>5, <1>6, <1>7, <1>8, <1>9 DEF FrameInv
<1> QED  BY <1>10, <1>11 DEF fr

\* The call at the cursor is answered with the files S.
Gotten(fr, S) == [fr EXCEPT !.got[Head(fr.pending)] = S]

LEMMA GotInv ==
  ASSUME NEW b \in BodyShape, NEW fr, FrameInv(b, fr), fr.pending # << >>,
         EntriesOf(b)[Head(fr.pending)].call \in Files,
         fr.got[Head(fr.pending)] = None, NEW S \in SUBSET Files
  PROVE  /\ FrameInv(b, Gotten(fr, S)) /\ Gotten(fr, S).file = fr.file
         /\ Gotten(fr, S).pending = fr.pending
         /\ Gotten(fr, S).got = [fr.got EXCEPT ![Head(fr.pending)] = S]
<1> DEFINE n == Len(EntriesOf(b))
           k0 == Head(fr.pending)
           fr2 == [fr EXCEPT !.got[Head(fr.pending)] = S]
<1>1. n \in Nat /\ Len(b.locals) \in Nat /\ Len(b.locals) <= n
  BY EntriesTyped
<1>2. fr \in FrameShape(b)
  BY DEF FrameInv
<1>3. fr.pending \in Seq(1..n) /\ fr.got \in [1..n -> Outcome]
  BY <1>2 DEF FrameShape
<1>4. k0 \in 1..n /\ In(k0, fr.pending)
  BY <1>3, InHead
<1>5. fr2 = [fr EXCEPT !.got = [fr.got EXCEPT ![k0] = S]]
  BY <1>2 DEF FrameShape
<1>6. /\ fr2.file = fr.file /\ fr2.inputs = fr.inputs /\ fr2.pass = fr.pass
      /\ fr2.progress = fr.progress /\ fr2.pending = fr.pending
      /\ fr2.kept = fr.kept /\ fr2.val = fr.val
      /\ fr2.got = [fr.got EXCEPT ![k0] = S]
  BY <1>2, <1>5 DEF FrameShape
<1>7. [fr.got EXCEPT ![k0] = S] \in [1..n -> Outcome]
  BY <1>3 DEF Outcome
<1>8. fr2 \in FrameShape(b)
  BY <1>2, <1>5, <1>7 DEF FrameShape
<1>9. /\ fr2.got[k0] = S /\ S # None
      /\ \A k \in 1..n : k # k0 => fr2.got[k] = fr.got[k]
  BY <1>3, <1>4, <1>6, MarksAreNoValues
<1> HIDE DEF fr2
<1>10. \A k \in 1..n : In(k, fr2.pending) \/ In(k, fr2.kept) => Stage(b, fr2, k)
  BY <1>6 DEF FrameInv, Stage
<1>11. ASSUME ~fr2.inputs  PROVE Passing(b, fr2)
  <2>1. Passing(b, fr) /\ k0 \in 1..Len(b.locals)
    BY <1>4, <1>6, <1>11 DEF FrameInv, Stage
  <2>2. ~In(k0, fr.kept)
    BY <1>4, <2>1 DEF Passing
  <2> QED  BY <1>6, <1>9, <2>1, <2>2 DEF Passing, Literally
<1>12. ASSUME fr2.inputs, fr2.pass < MaxPasses  PROVE Settled(b, fr2)
  <2>1. Settled(b, fr) /\ k0 \notin 1..Len(b.locals)
    BY <1>1, <1>4, <1>6, <1>12 DEF FrameInv, Stage
  <2>2. \A k \in 1..Len(b.locals) : fr2.got[k] = fr.got[k]
    BY <1>1, <1>9, <2>1
  <2> QED  BY <1>6, <2>1, <2>2 DEF Settled
<1>13. CallsKept(b, fr2)
  BY <1>6, <1>9 DEF FrameInv, CallsKept
<1>14. FrameInv(b, fr2)
  BY <1>8, <1>10, <1>11, <1>12, <1>13 DEF FrameInv
<1> QED  BY <1>6, <1>14 DEF Gotten, fr2

ReducedFrame(fr, k0, e, ok) ==
  [fr EXCEPT !.pending = Tail(@),
             !.val[k0] = IF ok THEN Sources(e, fr.got[k0], fr.val) ELSE None,
             !.progress = @ \/ ok,
             !.kept = IF ok THEN @ ELSE Append(@, k0)]

\* The entry at the cursor is reduced as far as it goes.
LEMMA ReduceInv ==
  ASSUME NEW b \in BodyShape, NEW fr, FrameInv(b, fr), fr.pending # << >>,
         NEW k0, k0 = Head(fr.pending), NEW e, e = EntriesOf(b)[k0],
         ~(e.call \in Files /\ fr.got[k0] = None),
         NEW ok, ok = Literally(b, e, fr.got[k0], fr.val)
  PROVE  LET fr2 == ReducedFrame(fr, k0, e, ok)
         IN  FrameInv(b, fr2) /\ fr2.file = fr.file /\ fr2.got = fr.got
<1> DEFINE n == Len(EntriesOf(b))
           v == IF ok THEN Sources(e, fr.got[k0], fr.val) ELSE None
           fr2 == ReducedFrame(fr, k0, e, ok)
<1>1. /\ n \in Nat /\ Len(b.locals) \in Nat /\ Len(b.locals) <= n
      /\ ok \in BOOLEAN
  BY EntriesTyped DEF Literally
<1>2. fr \in FrameShape(b)
  BY DEF FrameInv
<1>3. /\ fr.pending \in Seq(1..n) /\ fr.kept \in Seq(1..n)
      /\ fr.got \in [1..n -> Outcome] /\ fr.val \in [1..n -> Outcome]
      /\ fr.progress \in BOOLEAN /\ fr.inputs \in BOOLEAN
  BY <1>2 DEF FrameShape
<1>4. k0 \in 1..n /\ In(k0, fr.pending) /\ Tail(fr.pending) \in Seq(1..n)
      /\ \A k : In(k, fr.pending) <=> k = k0 \/ In(k, Tail(fr.pending))
  BY <1>3, InHead
<1>5. e \in Entry /\ e.use \in Nat /\ e.call \in Files \cup {None, Illtyped}
  BY <1>4, EntriesTyped
<1>6. v \in Outcome /\ (ok => v \in SUBSET Files)
  <2>1. CASE ok
    <3>1. /\ e.call \in Files => fr.got[k0] # None
          /\ e.use # 0 => (e.use \in 1..Len(b.locals) /\ fr.val[e.use] # None)
      BY <2>1 DEF Literally
    <3>2. e.call \in Files => fr.got[k0] \in SUBSET Files
      BY <1>3, <1>4, <3>1 DEF Outcome
    <3>3. e.use # 0 => fr.val[e.use] \in SUBSET Files
      <4>1. e.use # 0 => e.use \in 1..n
        BY <1>1, <1>5, <3>1
      <4> QED  BY <1>3, <3>1, <4>1 DEF Outcome
    <3>4. Sources(e, fr.got[k0], fr.val) \in SUBSET Files
      BY <3>2, <3>3 DEF Sources
    <3> QED  BY <2>1, <3>4 DEF Outcome
  <2>2. CASE ~ok
    BY <2>2 DEF Outcome
  <2> QED  BY <1>1, <2>1, <2>2
<1>7. Append(fr.kept, k0) \in Seq(1..n)
      /\ \A k : In(k, Append(fr.kept, k0)) <=> In(k, fr.kept) \/ k = k0
  BY <1>3, <1>4, InAppend
<1>8. fr2 = [fr EXCEPT !.pending = Tail(fr.pending),
                       !.val = [fr.val EXCEPT ![k0] = v],
                       !.progress = fr.progress \/ ok,
                       !.kept = IF ok THEN fr.kept ELSE Append(fr.kept, k0)]
  BY <1>2 DEF FrameShape, ReducedFrame
<1>9. /\ fr2.file = fr.file /\ fr2.inputs = fr.inputs /\ fr2.pass = fr.pass
      /\ fr2.pending = Tail(fr.pending) /\ fr2.got = fr.got
      /\ fr2.val = [fr.val EXCEPT ![k0] = v]
      /\ fr2.progress = (fr.progress \/ ok)
      /\ fr2.kept = IF ok THEN fr.kept ELSE Append(fr.kept, k0)
  BY <1>2, <1>8 DEF FrameShape
<1>10. /\ fr2.val[k0] = v
       /\ \A k \in 1..n : k # k0 => fr2.val[k] = fr.val[k]
       /\ [fr.val EXCEPT ![k0] = v] \in [1..n -> Outcome]
  BY <1>3, <1>4, <1>6, <1>9
<1>11. fr2 \in FrameShape(b)
  <2>1. (IF ok THEN fr.kept ELSE Append(fr.kept, k0)) \in Seq(1..n)
        /\ (fr.progress \/ ok) \in BOOLEAN
    BY <1>3, <1>7
  <2> HIDE DEF v
  <2> QED  BY <1>2, <1>4, <1>8, <1>10, <2>1 DEF FrameShape
<1> HIDE DEF fr2, v
<1>12. \A k \in 1..n : In(k, fr2.pending) \/ In(k, fr2.kept) => Stage(b, fr2, k)
  <2>1. \A k \in 1..n : In(k, fr2.pending) \/ In(k, fr2.kept)
                          => In(k, fr.pending) \/ In(k, fr.kept)
    BY <1>4, <1>7, <1>9
  <2> QED  BY <1>9, <2>1 DEF FrameInv, Stage
<1>13. ASSUME NEW k \in 1..n, ~Literally(b, EntriesOf(b)[k], fr.got[k], fr.val), ~ok
       PROVE  ~Literally(b, EntriesOf(b)[k], fr2.got[k], fr2.val)
  <2>1. v = None
    BY <1>13 DEF v
  <2>2. \A j \in 1..Len(b.locals) : fr2.val[j] # None => fr.val[j] # None
    BY <1>1, <1>10, <2>1
  <2> QED  BY <1>9, <1>13, <2>2 DEF Literally
<1>14. ASSUME ~fr2.inputs  PROVE Passing(b, fr2)
  <2>1. Passing(b, fr)
    BY <1>9, <1>14 DEF FrameInv
  <2>2. ASSUME NEW k \in 1..Len(b.locals), fr2.val[k] = None
        PROVE  In(k, fr2.pending) \/ In(k, fr2.kept)
    <3>1. CASE k = k0
      <4>1. ~ok
        BY <1>6, <1>10, <2>2, <3>1, MarksAreNoValues
      <4> QED  BY <1>7, <1>9, <3>1, <4>1
    <3>2. CASE k # k0
      <4>1. In(k, fr.pending) \/ In(k, fr.kept)
        BY <1>1, <1>10, <2>1, <2>2, <3>2 DEF Passing
      <4> QED  BY <1>4, <1>7, <1>9, <3>2, <4>1
    <3> QED  BY <3>1, <3>2
  <2>3. ASSUME NEW k \in 1..n, In(k, fr2.kept)
        PROVE  /\ EntriesOf(b)[k].call \in Files => fr2.got[k] # None
               /\ ~fr2.progress => ~Literally(b, EntriesOf(b)[k], fr2.got[k], fr2.val)
    <3>1. In(k, fr.kept) \/ (k = k0 /\ ~ok)
      BY <1>7, <1>9, <2>3
    <3>2. EntriesOf(b)[k].call \in Files => fr2.got[k] # None
      BY <1>9, <2>1, <3>1 DEF Passing
    <3>3. ASSUME ~fr2.progress  PROVE ~Literally(b, EntriesOf(b)[k], fr2.got[k], fr2.val)
      <4>1. ~fr.progress /\ ~ok
        BY <1>9, <3>3
      <4>2. ~Literally(b, EntriesOf(b)[k], fr.got[k], fr.val)
        BY <2>1, <3>1, <4>1 DEF Passing
      <4> QED  BY <1>13, <4>1, <4>2
    <3> QED  BY <3>2, <3>3
  <2> QED  BY <2>2, <2>3 DEF Passing
<1>15. ASSUME fr2.inputs, fr2.pass < MaxPasses  PROVE Settled(b, fr2)
  <2>1. Settled(b, fr) /\ k0 \notin 1..Len(b.locals)
    BY <1>1, <1>4, <1>9, <1>15 DEF FrameInv, Stage
  <2>2. \A k \in 1..Len(b.locals) : fr2.val[k] = fr.val[k]
    BY <1>1, <1>10, <2>1
  <2> QED  BY <1>9, <2>1, <2>2 DEF Settled, Literally
<1>16. CallsKept(b, fr2)
  <2>1. ASSUME NEW k \in 1..n, EntriesOf(b)[k].use = 0,
               EntriesOf(b)[k].call \in Files, fr2.got[k] # None
        PROVE  fr2.val[k] = fr2.got[k]
    <3>1. CASE k = k0
      <4>1. ok
        BY <1>9, <2>1, <3>1, MarksAreNoValues DEF Literally
      <4>2. v = fr.got[k0] \cup {}
        BY <2>1, <3>1, <4>1 DEF v, Sources
      <4>3. fr.got[k0] \in SUBSET Files
        BY <1>3, <1>4, <1>9, <2>1, <3>1 DEF Outcome
      <4> QED  BY <1>9, <1>10, <3>1, <4>2, <4>3
    <3>2. CASE k # k0
      BY <1>9, <1>10, <2>1, <3>2 DEF FrameInv, CallsKept
    <3> QED  BY <3>1, <3>2
  <2> QED  BY <2>1 DEF CallsKept
<1>17. FrameInv(b, fr2)
  BY <1>11, <1>12, <1>14, <1>15, <1>16 DEF FrameInv
<1> QED  BY <1>9, <1>17 DEF fr2

\* Another pass over what was put off.
LEMMA NextPassInv ==
  ASSUME NEW b \in BodyShape, NEW fr, FrameInv(b, fr), fr.pending = << >>,
         ~fr.inputs, fr.pass < MaxPasses
  PROVE  LET fr2 == [fr EXCEPT !.pass = @ + 1, !.progress = FALSE,
                               !.pending = fr.kept, !.kept = << >>]
         IN  FrameInv(b, fr2) /\ fr2.file = fr.file /\ fr2.got = fr.got
<1> DEFINE n == Len(EntriesOf(b))
           fr2 == [fr EXCEPT !.pass = @ + 1, !.progress = FALSE,
                             !.pending = fr.kept, !.kept = << >>]
<1>1. fr \in FrameShape(b)
  BY DEF FrameInv
<1>2. fr.kept \in Seq(1..n) /\ fr.pass \in 1..MaxPasses /\ << >> \in Seq(1..n)
  BY <1>1 DEF FrameShape
<1>3. fr.pass + 1 \in 1..MaxPasses
  BY <1>2, CapPositive
<1>4. /\ fr2.file = fr.file /\ fr2.inputs = fr.inputs /\ fr2.got = fr.got
      /\ fr2.val = fr.val /\ fr2.pending = fr.kept /\ fr2.kept = << >>
      /\ fr2 \in FrameShape(b)
  BY <1>1, <1>2, <1>3 DEF FrameShape
<1> HIDE DEF fr2
<1>5. \A k \in 1..n : In(k, fr2.pending) \/ In(k, fr2.kept) => Stage(b, fr2, k)
  BY <1>4, InEmpty DEF FrameInv, Stage
<1>6. Passing(b, fr2)
  BY <1>4, InEmpty DEF FrameInv, Passing
<1>7. CallsKept(b, fr2)
  BY <1>4 DEF FrameInv, CallsKept
<1>8. FrameInv(b, fr2)
  BY <1>4, <1>5, <1>6, <1>7 DEF FrameInv
<1> QED  BY <1>4, <1>8 DEF fr2

\* The passes end, at a fixpoint unless the cap was reached.
LEMMA BeginInputsInv ==
  ASSUME NEW b \in BodyShape, NEW fr, FrameInv(b, fr), fr.pending = << >>,
         ~fr.inputs, ~(fr.progress /\ fr.kept # << >> /\ fr.pass < MaxPasses)
  PROVE  LET fr2 == [fr EXCEPT !.inputs = TRUE, !.kept = << >>,
                       !.pending = Upwards(Len(b.locals) + 1, Len(EntriesOf(b)))]
         IN  FrameInv(b, fr2) /\ fr2.file = fr.file /\ fr2.got = fr.got
<1> DEFINE n == Len(EntriesOf(b))
           up == Upwards(Len(b.locals) + 1, Len(EntriesOf(b)))
           fr2 == [fr EXCEPT !.inputs = TRUE, !.kept = << >>, !.pending = up]
<1>1. fr \in FrameShape(b)
  BY DEF FrameInv
<1>2. n \in Nat /\ Len(b.locals) \in Nat /\ Len(b.locals) <= n
  BY EntriesTyped
<1>3. /\ up \in Seq(1..n) /\ << >> \in Seq(1..n)
      /\ \A k : In(k, up) <=> k \in (Len(b.locals) + 1)..n
  <2> DEFINE first == Len(b.locals) + 1
  <2>1. first..n \subseteq 1..n /\ first \in Nat /\ first <= n + 1
    BY <1>2
  <2> HIDE DEF first, n
  <2>2. /\ Upwards(first, n) \in Seq(1..n)
        /\ \A k : In(k, Upwards(first, n)) <=> k \in first..n
    BY <1>2, <2>1, UpwardsLists
  <2> QED  BY <2>2 DEF first, n
<1> HIDE DEF up
<1>4. /\ fr2.file = fr.file /\ fr2.inputs = TRUE /\ fr2.got = fr.got
      /\ fr2.val = fr.val /\ fr2.pending = up /\ fr2.kept = << >>
      /\ fr2.pass = fr.pass /\ fr2 \in FrameShape(b)
  BY <1>1, <1>3 DEF FrameShape
<1> HIDE DEF fr2
<1>5. \A k \in 1..n : In(k, fr2.pending) \/ In(k, fr2.kept) => Stage(b, fr2, k)
  BY <1>3, <1>4, InEmpty DEF Stage
<1>6. ASSUME fr2.pass < MaxPasses  PROVE Settled(b, fr2)
  <2> SUFFICES ASSUME NEW k \in 1..Len(b.locals), fr2.val[k] = None
               PROVE  ~Literally(b, EntriesOf(b)[k], fr2.got[k], fr2.val)
    BY DEF Settled
  <2>1. Passing(b, fr)
    BY DEF FrameInv
  <2>2. In(k, fr.kept) /\ fr.kept # << >>
    BY <1>4, <2>1, InEmpty DEF Passing
  <2>3. ~fr.progress
    BY <1>4, <1>6, <2>2
  <2>4. k \in 1..n
    BY <1>2
  <2> QED  BY <1>4, <2>1, <2>2, <2>3, <2>4 DEF Passing
<1>7. CallsKept(b, fr2)
  BY <1>4 DEF FrameInv, CallsKept
<1>8. FrameInv(b, fr2)
  BY <1>4, <1>5, <1>6, <1>7 DEF FrameInv
<1> QED  BY <1>4, <1>8 DEF fr2, up

-----------------------------------------------------------------------------
(* The stack of frames.                                                     *)

\* What is known of the innermost evaluation.
LEMMA TopFacts ==
  ASSUME FramesInv, frames # << >>
  PROVE  /\ Len(frames) \in Nat \ {0}
         /\ Top.file \in Callers /\ body[Top.file] \in BodyShape
         /\ FrameInv(body[Top.file], Top)
         /\ Entries(Top.file) = EntriesOf(body[Top.file])
<1>1. Len(frames) \in Nat \ {0}
  BY EmptySeq DEF FramesInv
<1>2. Len(frames) \in 1..Len(frames)
  BY <1>1
<1> QED  BY <1>1, <1>2 DEF FramesInv, Top, Entries, EntriesOf

\* No file is evaluated twice at a time.
LEMMA FramesDistinct ==
  ASSUME FramesInv, StacksInv
  PROVE  /\ \A i, j \in 1..Len(frames) : frames[i].file = frames[j].file => i = j
         /\ \A i \in 1..Len(frames) : frames[i].file \in Files =>
              /\ frames[i].file \in inflight /\ memo[frames[i].file] = None
              /\ i > 1 /\ frames[i].file = open[i - 1]
         /\ \A i \in 2..Len(frames) : frames[i].file \in Files
<1>1. Len(frames) \in Nat /\ Len(open) \in Nat
  BY DEF FramesInv, StacksInv
<1>2. ASSUME NEW i \in 2..Len(frames)
      PROVE  /\ i - 1 \in 1..Len(open) /\ frames[i].file = open[i - 1]
             /\ frames[i].file \in inflight /\ frames[i].file \in Files
             /\ memo[frames[i].file] = None
  <2>1. i - 1 \in 1..Len(open) /\ (i - 1) + 1 = i
    BY <1>1 DEF StacksInv, NothingLeaks
  <2>2. frames[i].file = open[i - 1]
    BY <2>1 DEF StacksInv, NothingLeaks
  <2>3. open[i - 1] \in inflight
    BY <2>1 DEF StacksInv, NothingLeaks
  <2> QED  BY <2>1, <2>2, <2>3 DEF StacksInv, NothingLeaks
<1>3. frames # << >> => frames[1].file = Component /\ Component \notin Files
  BY ComponentIsNoFile DEF FramesInv
<1>4. ASSUME NEW i \in 1..Len(frames), NEW j \in 1..Len(frames),
             frames[i].file = frames[j].file
      PROVE  i = j
  <2>1. frames # << >>
    BY <1>1, <1>4
  <2>2. CASE i = 1 \/ j = 1
    <3>1. i \in 2..Len(frames) => frames[i].file # Component
      BY <1>2, <1>3, <2>1
    <3>2. j \in 2..Len(frames) => frames[j].file # Component
      BY <1>2, <1>3, <2>1
    <3> QED  BY <1>1, <1>3, <1>4, <2>1, <2>2, <3>1, <3>2
  <2>3. CASE i \in 2..Len(frames) /\ j \in 2..Len(frames)
    <3>1. open[i - 1] = open[j - 1] /\ i - 1 \in 1..Len(open) /\ j - 1 \in 1..Len(open)
      BY <1>2, <1>4, <2>3
    <3>2. i - 1 = j - 1
      BY <3>1 DEF StacksInv, NothingLeaks
    <3> QED  BY <3>2
  <2> QED  BY <1>1, <2>2, <2>3
<1>5. ASSUME NEW i \in 1..Len(frames), frames[i].file \in Files
      PROVE  i \in 2..Len(frames)
  <2>1. frames # << >>
    BY <1>1, <1>5
  <2> QED  BY <1>1, <1>3, <1>5, <2>1
<1> QED  BY <1>1, <1>2, <1>4, <1>5

\* The innermost evaluation takes a step of its own.
LEMMA TopStep ==
  ASSUME FramesInv, StacksInv, frames # << >>, NEW fr2,
         FrameInv(body[Top.file], fr2), fr2.file = Top.file,
         frames' = [frames EXCEPT ![Len(frames)] = fr2],
         UNCHANGED <<body, parses, open, inflight, memo>>
  PROVE  /\ FramesInv' /\ StacksInv'
         /\ Len(frames') = Len(frames) /\ frames'[Len(frames)] = fr2
         /\ \A i \in 1..(Len(frames) - 1) : frames'[i] = frames[i]
         /\ \A i \in 1..Len(frames) : frames'[i].file = frames[i].file
<1> DEFINE n == Len(frames)
<1>1. n \in Nat \ {0} /\ Top.file \in Callers /\ body[Top.file] \in BodyShape
  BY TopFacts
<1>2. fr2 \in AnyFrame
  BY <1>1 DEF FrameInv, AnyFrame
<1>3. /\ frames' \in Seq(AnyFrame) /\ Len(frames') = n /\ frames'[n] = fr2
      /\ \A i \in 1..n : i # n => frames'[i] = frames[i]
  <2>1. frames \in Seq(AnyFrame) /\ n \in 1..n
    BY <1>1 DEF FramesInv
  <2> QED  BY <1>1, <1>2, <2>1, ExceptSeq
<1>4. \A i \in 1..n : frames'[i].file = frames[i].file
  BY <1>3 DEF Top
<1>5. frames' # << >>
  BY <1>1, <1>3, EmptySeq
<1>6. \A i \in 1..n :
        /\ frames'[i].file \in Callers
        /\ body'[frames'[i].file] \in BodyShape
        /\ FrameInv(body'[frames'[i].file], frames'[i])
  <2> TAKE i \in 1..n
  <2>1. CASE i = n
    BY <1>1, <1>3, <2>1
  <2>2. CASE i # n
    BY <1>3, <2>2 DEF FramesInv
  <2> QED  BY <2>1, <2>2
<1>7. \A i \in 1..(n - 1) : Awaits(body'[frames'[i].file], frames'[i], frames'[i + 1].file)
  <2> TAKE i \in 1..(n - 1)
  <2>1. i \in 1..n /\ i # n /\ i + 1 \in 1..n
    BY <1>1
  <2> QED  BY <1>3, <1>4, <2>1 DEF FramesInv
<1>8. FramesInv'
  <2>1. (frames # << >> => frames[1].file = Component)'
    <3>1. 1 \in 1..n /\ frames[1].file = Component
      BY <1>1 DEF FramesInv
    <3> QED  BY <1>4, <3>1
  <2>2. (body = [f \in Callers |-> body[f]])'
    BY DEF FramesInv
  <2> QED  BY <1>3, <1>6, <1>7, <2>1, <2>2 DEF FramesInv
<1>9. StacksInv'
  <2>1. Len(open) = n - 1 /\ \A i \in 1..Len(open) : frames'[i + 1].file = open[i]
    BY <1>1, <1>4 DEF StacksInv, NothingLeaks
  <2>2. /\ \A i, j \in 1..Len(open) : open[i] = open[j] => i = j
        /\ inflight = {open[i] : i \in 1..Len(open)}
        /\ \A f \in inflight : memo[f] = None
    BY DEF StacksInv, NothingLeaks
  <2>3. Len(open) = IF frames' = << >> THEN 0 ELSE Len(frames') - 1
    BY <1>3, <1>5, <2>1
  <2>4. NothingLeaks'
    BY <2>1, <2>2, <2>3, Zenon DEF NothingLeaks
  <2> QED  BY <2>4 DEF StacksInv
<1>10. \A i \in 1..(n - 1) : i \in 1..n /\ i # n
  BY <1>1
<1> QED  BY <1>3, <1>4, <1>8, <1>9, <1>10

\* It leaves the earlier answers as they are.
LEMMA TopStepAnswers ==
  ASSUME FramesInv, StacksInv, AnswersInv, frames # << >>, NEW fr2,
         FrameInv(body[Top.file], fr2), fr2.file = Top.file,
         frames' = [frames EXCEPT ![Len(frames)] = fr2],
         UNCHANGED <<body, parses, open, inflight, memo>>,
         \A k \in 1..Len(Entries(Top.file)) :
           Top.got[k] # None => fr2.got[k] = Top.got[k],
         NEW a \in answers, a[1] \in Files, a[4] \in {"memo", "read"}
  PROVE  Accounted(a[1], a[2], a[3])'
<1> DEFINE n == Len(frames)
<1>0. n \in Nat \ {0}
  BY TopFacts
<1>1. /\ Len(frames') = n /\ frames'[n] = fr2
      /\ \A i \in 1..(n - 1) : frames'[i] = frames[i]
      /\ \A i \in 1..n : frames'[i].file = frames[i].file
  BY TopStep
<1>2. Accounted(a[1], a[2], a[3])
  BY DEF AnswersInv
<1> DEFINE f == a[1]
           k == a[2]
           g == a[3]
<1>3. \A i \in 1..n : frames'[i].file = f =>
        \/ memo[g] # None /\ frames'[i].got[k] = memo[g]
        \/ i < n /\ frames'[i + 1].file = g /\ k = Head(frames'[i].pending)
  <2> SUFFICES ASSUME NEW i \in 1..n, frames'[i].file = f
               PROVE  \/ memo[g] # None /\ frames'[i].got[k] = memo[g]
                      \/ i < n /\ frames'[i + 1].file = g /\ k = Head(frames'[i].pending)
    OBVIOUS
  <2>1. \/ memo[g] # None /\ frames[i].got[k] = memo[g]
        \/ i < n /\ frames[i + 1].file = g /\ k = Head(frames[i].pending)
    BY <1>1, <1>2 DEF Accounted
  <2>2. CASE i = n
    <3>1. memo[g] # None /\ Top.got[k] = memo[g] /\ Top.file = f
      <4>1. ~(n < n)
        BY <1>0
      <4>2. memo[g] # None /\ frames[n].got[k] = memo[g] /\ frames[n].file = f
        BY <1>1, <2>1, <2>2, <4>1
      <4> QED  BY <4>2 DEF Top
    <3>2. k \in 1..Len(Entries(Top.file))
      BY <1>2, <3>1 DEF Accounted
    <3> QED  BY <1>1, <2>2, <3>1, <3>2
  <2>3. CASE i # n
    <3>1. i \in 1..(n - 1) /\ i + 1 \in 1..n
      BY <1>0, <2>3
    <3> QED  BY <1>1, <2>1, <3>1
  <2> QED  BY <2>2, <2>3
<1> QED  BY <1>1, <1>2, <1>3 DEF Accounted, Entries

-----------------------------------------------------------------------------
(* The steps.                                                               *)

\* What a call that is being made looks like.
LEMMA CallingFacts ==
  ASSUME FramesInv, Calling
  PROVE  /\ frames # << >> /\ Top.pending # << >>
         /\ Cursor \in 1..Len(Entries(Top.file))
         /\ EntriesOf(body[Top.file])[Cursor] = Now /\ Now.call \in Files
         /\ Top.got[Cursor] = None
<1>1. frames # << >> /\ Top.pending # << >> /\ Now.call \in Files /\ Top.got[Cursor] = None
  BY DEF Calling, AtEntry, Running
<1>2. FrameInv(body[Top.file], Top) /\ Entries(Top.file) = EntriesOf(body[Top.file])
  BY <1>1, TopFacts
<1>3. Top.pending \in Seq(1..Len(Entries(Top.file)))
  BY <1>2 DEF FrameInv, FrameShape
<1>4. Cursor \in 1..Len(Entries(Top.file))
  BY <1>1, <1>3, InHead DEF Cursor
<1> QED  BY <1>1, <1>2, <1>4 DEF Now

\* A call that is answered at once, from the memo or by the fallback.
LEMMA AnsweredInv ==
  ASSUME ReadInv, Calling, NEW S \in SUBSET Files, NEW how, Got(S), Answer(how),
         how \in {"memo", "read"} => how = "memo" /\ memo[Now.call] = S,
         UNCHANGED <<body, parses, open, inflight, memo>>
  PROVE  ReadInv'
<1> DEFINE fr2 == [Top EXCEPT !.got[Head(Top.pending)] = S]
           k0 == Cursor
           b == body[Top.file]
           n == Len(frames)
<1>1. FramesInv /\ StacksInv /\ AnswersInv
  BY DEF ReadInv
<1>2. /\ frames # << >> /\ Top.pending # << >> /\ k0 \in 1..Len(Entries(Top.file))
      /\ EntriesOf(b)[k0] = Now /\ Now.call \in Files /\ Top.got[k0] = None
  BY <1>1, CallingFacts
<1>3. /\ n \in Nat \ {0} /\ Top.file \in Callers /\ b \in BodyShape
      /\ FrameInv(b, Top) /\ Entries(Top.file) = EntriesOf(b)
  BY <1>1, <1>2, TopFacts
<1>4. /\ FrameInv(b, fr2) /\ fr2.file = Top.file
      /\ fr2.got = [Top.got EXCEPT ![k0] = S]
  <2>1. EntriesOf(b)[Head(Top.pending)].call \in Files /\ Top.got[Head(Top.pending)] = None
    BY <1>2 DEF Cursor
  <2>2. FrameInv(b, Top) /\ Top.pending # << >> /\ b \in BodyShape
    BY <1>2, <1>3
  <2> HIDE DEF b
  <2>3. /\ FrameInv(b, Gotten(Top, S)) /\ Gotten(Top, S).file = Top.file
        /\ Gotten(Top, S).got = [Top.got EXCEPT ![Head(Top.pending)] = S]
    BY <2>1, <2>2, GotInv
  <2> QED  BY <2>3 DEF Gotten, Cursor
<1>5. frames' = [frames EXCEPT ![n] = fr2]
  BY DEF Got, SetTop, Cursor
<1>6. Top.got \in [1..Len(Entries(Top.file)) -> Outcome]
  BY <1>3 DEF FrameInv, FrameShape
<1>7. /\ fr2.got[k0] = S /\ S # None
      /\ \A k \in 1..Len(Entries(Top.file)) : Top.got[k] # None => fr2.got[k] = Top.got[k]
  BY <1>2, <1>4, <1>6, MarksAreNoValues
<1> HIDE DEF fr2
<1>8. /\ FramesInv' /\ StacksInv' /\ Len(frames') = n /\ frames'[n] = fr2
      /\ \A i \in 1..n : frames'[i].file = frames[i].file
  BY <1>1, <1>2, <1>4, <1>5, TopStep
<1>9. ASSUME NEW a \in answers, a[1] \in Files, a[4] \in {"memo", "read"}
      PROVE  Accounted(a[1], a[2], a[3])'
  BY <1>1, <1>2, <1>4, <1>5, <1>7, <1>9, TopStepAnswers
<1>10. ASSUME NEW f, NEW k, NEW g, f = Top.file, k = k0, g = Now.call,
              f \in Files, how \in {"memo", "read"}
       PROVE  Accounted(f, k, g)'
  <2>1. memo[g] # None /\ fr2.got[k] = memo[g]
    BY <1>7, <1>10
  <2>2. n \in 1..n
    BY <1>3
  <2>3. f \in inflight /\ memo[f] = None
    BY <1>1, <1>10, <2>2, FramesDistinct DEF Top
  <2>4. \A i \in 1..n : frames'[i].file = f => i = n
    <3>1. \A i, j \in 1..n : frames[i].file = frames[j].file => i = j
      BY <1>1, FramesDistinct
    <3> QED  BY <1>8, <1>10, <2>2, <3>1 DEF Top
  <2>5. \A i \in 1..n : frames'[i].file = f => frames'[i].got[k] = memo[g]
    BY <1>8, <2>1, <2>4
  <2>6. k \in 1..Len(Entries(f)) /\ Entries(f)[k].call = g /\ g \in Files
    BY <1>2, <1>3, <1>10
  <2> QED  BY <1>8, <2>1, <2>3, <2>5, <2>6 DEF Accounted, Entries
<1>11. AnswersInv'
  <2> SUFFICES ASSUME NEW a \in answers', a[1] \in Files, a[4] \in {"memo", "read"}
               PROVE  Accounted(a[1], a[2], a[3])'
    BY DEF AnswersInv
  <2>1. CASE a \in answers
    BY <1>9, <2>1
  <2>2. CASE a = <<Top.file, Cursor, Now.call, how>>
    <3>1. a[1] = Top.file /\ a[2] = k0 /\ a[3] = Now.call /\ a[4] = how
      BY <2>2
    <3> QED  BY <1>10, <3>1
  <2> QED  BY <2>1, <2>2 DEF Answer
<1> QED  BY <1>8, <1>11 DEF ReadInv

\* Reduce, NextPass and BeginInputs concern the innermost frame alone.
LEMMA QuietInv ==
  ASSUME ReadInv, frames # << >>, NEW fr2, FrameInv(body[Top.file], fr2),
         fr2.file = Top.file, fr2.got = Top.got, SetTop(fr2),
         UNCHANGED <<body, parses, open, inflight, memo, answers>>
  PROVE  ReadInv'
<1>1. FramesInv /\ StacksInv /\ AnswersInv
  BY DEF ReadInv
<1>2. frames' = [frames EXCEPT ![Len(frames)] = fr2]
  BY DEF SetTop
<1>3. FramesInv' /\ StacksInv'
  BY <1>1, <1>2, TopStep
<1>4. ASSUME NEW a \in answers, a[1] \in Files, a[4] \in {"memo", "read"}
      PROVE  Accounted(a[1], a[2], a[3])'
  BY <1>1, <1>2, <1>4, TopStepAnswers
<1>5. AnswersInv'
  BY <1>4 DEF AnswersInv
<1> QED  BY <1>3, <1>5 DEF ReadInv

\* An entry is reduced.
LEMMA ReduceStep == ASSUME ReadInv, Reduce PROVE ReadInv'
<1> DEFINE b == body[Top.file]
<1>1. frames # << >> /\ Top.pending # << >>
      /\ UNCHANGED <<body, parses, open, inflight, memo, answers>>
  BY DEF Reduce, AtEntry, Running
<1>2. b \in BodyShape /\ FrameInv(b, Top) /\ Entries(Top.file) = EntriesOf(b)
  BY <1>1, TopFacts DEF ReadInv
<1>3. PICK k0, e, ok :
        /\ k0 = Head(Top.pending) /\ e = EntriesOf(b)[k0]
        /\ ok = Literally(b, e, Top.got[k0], Top.val)
  OBVIOUS
<1>4. ~(e.call \in Files /\ Top.got[k0] = None)
  BY <1>2, <1>3 DEF Reduce, Calling, Now, Cursor
<1> DEFINE fr2 == ReducedFrame(Top, k0, e, ok)
<1>5. FrameInv(b, fr2) /\ fr2.file = Top.file /\ fr2.got = Top.got
  BY <1>1, <1>2, <1>3, <1>4, ReduceInv
<1>6. ok = Reduced(Top.file, Now, Top.got[Cursor], Top.val) /\ k0 = Cursor /\ e = Now
  <2>1. k0 = Cursor /\ e = Now
    BY <1>2, <1>3 DEF Now, Cursor
  <2>2. Reduced(Top.file, Now, Top.got[Cursor], Top.val)
          = Literally(b, Now, Top.got[Cursor], Top.val)
    BY DEF Reduced, Literally, LocalsOf
  <2> QED  BY <1>3, <2>1, <2>2
<1>7. SetTop(fr2)
  BY <1>6 DEF Reduce, ReducedFrame
<1> HIDE DEF fr2
<1> QED  BY <1>1, <1>5, <1>7, QuietInv

\* A pass is followed by another.
LEMMA NextPassStep == ASSUME ReadInv, NextPass PROVE ReadInv'
<1> DEFINE b == body[Top.file]
           fr2 == [Top EXCEPT !.pass = @ + 1, !.progress = FALSE,
                              !.pending = Top.kept, !.kept = << >>]
<1>1. frames # << >> /\ Top.pending = << >> /\ ~Top.inputs /\ Top.pass < MaxPasses
      /\ UNCHANGED <<body, parses, open, inflight, memo, answers>> /\ SetTop(fr2)
  BY DEF NextPass, AtPassEnd, Running, Again
<1>2. b \in BodyShape /\ FrameInv(b, Top)
  BY <1>1, TopFacts DEF ReadInv
<1>3. FrameInv(b, fr2) /\ fr2.file = Top.file /\ fr2.got = Top.got
  BY <1>1, <1>2, NextPassInv
<1> HIDE DEF fr2
<1> QED  BY <1>1, <1>3, QuietInv

\* The locals are done and the inputs begin.
LEMMA BeginInputsStep == ASSUME ReadInv, BeginInputs PROVE ReadInv'
<1> DEFINE b == body[Top.file]
           fr2 == [Top EXCEPT !.inputs = TRUE, !.kept = << >>,
                     !.pending = Upwards(Len(b.locals) + 1, Len(EntriesOf(b)))]
<1>1. frames # << >> /\ Top.pending = << >> /\ ~Top.inputs /\ ~Again
      /\ UNCHANGED <<body, parses, open, inflight, memo, answers>>
  BY DEF BeginInputs, AtPassEnd, Running
<1>2. b \in BodyShape /\ FrameInv(b, Top) /\ Entries(Top.file) = EntriesOf(b)
  BY <1>1, TopFacts DEF ReadInv
<1>3. SetTop(fr2)
  BY <1>2 DEF BeginInputs
<1>4. FrameInv(b, fr2) /\ fr2.file = Top.file /\ fr2.got = Top.got
  BY <1>1, <1>2, BeginInputsInv DEF Again
<1> HIDE DEF fr2
<1> QED  BY <1>1, <1>3, <1>4, QuietInv

\* A read begins: a new frame for a file that no frame has.
LEMMA EnterReadStep == ASSUME ReadInv, EnterRead PROVE ReadInv'
<1>1. FramesInv /\ StacksInv /\ AnswersInv
  BY DEF ReadInv
<1>2. PICK g, b2, n, k0 : /\ g = Now.call /\ b2 \in Bodies[g] /\ n = Len(frames) /\ k0 = Cursor
                          /\ body' = [body EXCEPT ![g] = b2]
                          /\ frames' = Append(frames, NewFrame(g, b2))
  BY DEF EnterRead
<1>3. /\ frames # << >> /\ Top.pending # << >>
      /\ k0 \in 1..Len(Entries(Top.file)) /\ k0 = Head(Top.pending)
      /\ EntriesOf(body[Top.file])[k0].call = g /\ g \in Files /\ Top.got[k0] = None
  BY <1>1, <1>2, CallingFacts DEF EnterRead, Cursor
<1>4. /\ n \in Nat \ {0} /\ Top.file \in Callers /\ body[Top.file] \in BodyShape
      /\ Entries(Top.file) = EntriesOf(body[Top.file])
  BY <1>1, <1>2, <1>3, TopFacts
<1>5. /\ memo[g] = None /\ g \notin inflight /\ inflight' = inflight \cup {g}
      /\ open' = Append(open, g) /\ parses' = [parses EXCEPT ![g] = @ + 1]
      /\ memo' = memo /\ answers' = answers \cup {<<Top.file, k0, g, "read">>}
  BY <1>2 DEF EnterRead, Answer
<1>6. g \in Callers /\ b2 \in BodyShape
  BY <1>2, <1>3, BodiesShaped DEF Callers
<1> DEFINE new == NewFrame(g, b2)
<1>7. FrameInv(b2, new) /\ new.file = g /\ new \in AnyFrame
  <2>1. FrameInv(b2, new) /\ new.file = g
    BY <1>6, NewFrameInv
  <2> QED  BY <1>6, <2>1 DEF AnyFrame, FrameInv
<1> HIDE DEF new
<1>8. /\ frames' \in Seq(AnyFrame) /\ Len(frames') = n + 1 /\ frames'[n + 1] = new
      /\ \A i \in 1..n : frames'[i] = frames[i]
  <2>1. frames \in Seq(AnyFrame) /\ frames' = Append(frames, new)
    BY <1>1, <1>2 DEF FramesInv, new
  <2> QED  BY <1>2, <1>7, <2>1, AppendProperties
<1>9. \A i \in 1..n : frames[i].file # g
  BY <1>1, <1>2, <1>3, <1>5, FramesDistinct
<1>10. body'[g] = b2 /\ (\A f : f # g => body'[f] = body[f])
       /\ body' = [f \in Callers |-> body'[f]]
  <2>1. body = [f \in Callers |-> body[f]]
    BY <1>1 DEF FramesInv
  <2> QED  BY <1>2, <1>6, <2>1
<1>11. FramesInv'
  <2>1. \A i \in 1..(n + 1) :
          /\ frames'[i].file \in Callers
          /\ body'[frames'[i].file] \in BodyShape
          /\ FrameInv(body'[frames'[i].file], frames'[i])
    <3> TAKE i \in 1..(n + 1)
    <3>1. CASE i = n + 1
      BY <1>6, <1>7, <1>8, <1>10, <3>1
    <3>2. CASE i \in 1..n
      BY <1>1, <1>2, <1>8, <1>9, <1>10, <3>2 DEF FramesInv
    <3> QED  BY <1>4, <3>1, <3>2
  <2>2. \A i \in 1..((n + 1) - 1) :
          Awaits(body'[frames'[i].file], frames'[i], frames'[i + 1].file)
    <3> SUFFICES ASSUME NEW i \in 1..n
                 PROVE  Awaits(body'[frames'[i].file], frames'[i], frames'[i + 1].file)
      BY <1>4
    <3>1. frames'[i] = frames[i] /\ body'[frames'[i].file] = body[frames[i].file]
      BY <1>8, <1>9, <1>10
    <3>2. CASE i = n
      <4>1. frames[i] = Top /\ frames'[i + 1].file = g
        BY <1>2, <1>7, <1>8, <3>2 DEF Top
      <4> QED  BY <1>3, <3>1, <4>1 DEF Awaits
    <3>3. CASE i # n
      <4>1. i \in 1..(n - 1) /\ i + 1 \in 1..n
        BY <1>4, <3>3
      <4> QED  BY <1>1, <1>2, <1>8, <3>1, <4>1 DEF FramesInv
    <3> QED  BY <3>2, <3>3
  <2>3. frames'[1].file = Component
    <3>1. 1 \in 1..n
      BY <1>4
    <3> QED  BY <1>1, <1>3, <1>8, <3>1 DEF FramesInv
  <2> QED  BY <1>8, <1>10, <2>1, <2>2, <2>3 DEF FramesInv
<1>12. StacksInv'
  <2>1. open \in Seq(Files) /\ Len(open) = n - 1
    BY <1>1, <1>2, <1>3 DEF StacksInv, NothingLeaks
  <2>2. /\ open' \in Seq(Files) /\ Len(open') = n /\ open'[n] = g
        /\ \A i \in 1..(n - 1) : open'[i] = open[i]
    <3>1. (n - 1) + 1 = n
      BY <1>4
    <3> QED  BY <1>3, <1>5, <2>1, <3>1, AppendProperties
  <2>3. \A i \in 1..n : i \in 1..(n - 1) \/ i = n
    BY <1>4
  <2>4. /\ \A i \in 1..(n - 1) : frames[i + 1].file = open[i]
        /\ \A i, j \in 1..(n - 1) : open[i] = open[j] => i = j
        /\ inflight = {open[i] : i \in 1..(n - 1)}
        /\ \A f \in inflight : memo[f] = None
    BY <1>1, <2>1 DEF StacksInv, NothingLeaks
  <2>5. \A i \in 1..n : frames'[i + 1].file = open'[i]
    <3> TAKE i \in 1..n
    <3>1. CASE i = n
      BY <1>7, <1>8, <2>2, <3>1
    <3>2. CASE i \in 1..(n - 1)
      <4>1. i + 1 \in 1..n
        BY <1>4, <3>2
      <4> QED  BY <1>8, <2>2, <2>4, <3>2, <4>1
    <3> QED  BY <2>3, <3>1, <3>2
  <2>6. \A i, j \in 1..n : open'[i] = open'[j] => i = j
    <3>1. \A i \in 1..(n - 1) : open'[i] # g
      BY <1>5, <2>2, <2>4
    <3> QED  BY <2>2, <2>3, <2>4, <3>1
  <2>7. inflight' = {open'[i] : i \in 1..n}
    <3>1. 1..(n - 1) \subseteq 1..n /\ n \in 1..n
      BY <1>4
    <3> QED  BY <1>5, <2>2, <2>3, <2>4, <3>1
  <2>8. \A f \in inflight' : memo'[f] = None
    BY <1>5, <2>4
  <2>9. frames' # << >> /\ Len(open') = Len(frames') - 1
    BY <1>4, <1>8, <2>2, EmptySeq
  <2>10. NothingLeaks'
    BY <2>2, <2>5, <2>6, <2>7, <2>8, <2>9 DEF NothingLeaks
  <2>11. /\ parses' \in [Files -> Nat]
         /\ \A f \in Files : parses'[f] = ByCascade(f) + (IF f \in inflight' \/ memo'[f] # None THEN 1 ELSE 0)
    BY <1>1, <1>3, <1>5 DEF StacksInv, ByCascade
  <2>12. inflight' \subseteq Files /\ memo' \in [Files -> Outcome]
    BY <1>1, <1>3, <1>5 DEF StacksInv
  <2> QED  BY <2>2, <2>10, <2>11, <2>12 DEF StacksInv
<1>13. ASSUME NEW f, NEW k, NEW h, Accounted(f, k, h)  PROVE Accounted(f, k, h)'
  <2>1. f # g
    BY <1>5, <1>13 DEF Accounted
  <2>2. Entries(f)' = Entries(f)
    BY <1>10, <2>1 DEF Entries
  <2>3. \A i \in 1..(n + 1) : frames'[i].file = f =>
          \/ memo[h] # None /\ frames'[i].got[k] = memo[h]
          \/ i < n + 1 /\ frames'[i + 1].file = h /\ k = Head(frames'[i].pending)
    <3> SUFFICES ASSUME NEW i \in 1..(n + 1), frames'[i].file = f
                 PROVE  \/ memo[h] # None /\ frames'[i].got[k] = memo[h]
                        \/ i < n + 1 /\ frames'[i + 1].file = h /\ k = Head(frames'[i].pending)
      OBVIOUS
    <3>1. i \in 1..n
      BY <1>4, <1>7, <1>8, <2>1
    <3>2. \/ memo[h] # None /\ frames[i].got[k] = memo[h]
          \/ i < n /\ frames[i + 1].file = h /\ k = Head(frames[i].pending)
      BY <1>2, <1>8, <1>13, <3>1 DEF Accounted
    <3>3. i < n => i + 1 \in 1..n /\ i < n + 1
      BY <1>4, <3>1
    <3> QED  BY <1>8, <3>1, <3>2, <3>3
  <2> QED  BY <1>5, <1>8, <1>13, <2>2, <2>3 DEF Accounted
<1>14. ASSUME NEW f, f = Top.file, f \in Files  PROVE Accounted(f, k0, g)'
  <2>1. n \in 1..n /\ n < n + 1 /\ f # g
    BY <1>2, <1>4, <1>9, <1>14 DEF Top
  <2>2. f \in inflight /\ memo[f] = None
    BY <1>1, <1>2, <1>14, <2>1, FramesDistinct DEF Top
  <2>3. \A i \in 1..(n + 1) : frames'[i].file = f =>
          i < n + 1 /\ frames'[i + 1].file = g /\ k0 = Head(frames'[i].pending)
    <3> SUFFICES ASSUME NEW i \in 1..(n + 1), frames'[i].file = f
                 PROVE  i < n + 1 /\ frames'[i + 1].file = g /\ k0 = Head(frames'[i].pending)
      OBVIOUS
    <3>1. i \in 1..n
      BY <1>4, <1>7, <1>8, <2>1
    <3>2. i = n
      <4>1. frames[i].file = frames[n].file
        BY <1>2, <1>8, <1>14, <3>1 DEF Top
      <4> QED  BY <1>1, <1>2, <2>1, <3>1, <4>1, FramesDistinct
    <3> QED  BY <1>2, <1>3, <1>7, <1>8, <2>1, <3>2 DEF Top
  <2>4. Entries(f)' = Entries(f) /\ Entries(f) = EntriesOf(body[Top.file])
    BY <1>4, <1>10, <1>14, <2>1 DEF Entries
  <2> QED  BY <1>3, <1>4, <1>5, <1>8, <1>14, <2>2, <2>3, <2>4 DEF Accounted
<1>15. AnswersInv'
  <2> SUFFICES ASSUME NEW a \in answers', a[1] \in Files, a[4] \in {"memo", "read"}
               PROVE  Accounted(a[1], a[2], a[3])'
    BY DEF AnswersInv
  <2>1. CASE a \in answers
    BY <1>1, <1>13, <2>1 DEF AnswersInv
  <2>2. CASE a = <<Top.file, k0, g, "read">>
    <3>1. a[1] = Top.file /\ a[2] = k0 /\ a[3] = g
      BY <2>2
    <3> QED  BY <1>14, <3>1
  <2> QED  BY <1>5, <2>1, <2>2
<1> QED  BY <1>11, <1>12, <1>15 DEF ReadInv

\* A read ends: its result goes into the memo and into the caller's entry.
LEMMA FinishReadStep == ASSUME ReadInv, FinishRead PROVE ReadInv'
<1>1. FramesInv /\ StacksInv /\ AnswersInv
  BY DEF ReadInv
<1>2. PICK n, m, F, value, k0, caller :
        /\ n = Len(frames) /\ m = n - 1 /\ F = Top.file /\ value = {Top.file} \cup Collected
        /\ caller = frames[n - 1] /\ k0 = Head(caller.pending)
  OBVIOUS
<1>3. /\ frames # << >> /\ Top.pending = << >> /\ n > 1
      /\ memo' = [memo EXCEPT ![F] = value]
      /\ open' = SubSeq(open, 1, Len(open) - 1)
      /\ inflight' = inflight \ {F}
      /\ UNCHANGED <<body, parses, answers>>
  BY <1>2 DEF FinishRead, Evaluated, Running
<1>4. frames' = [SubSeq(frames, 1, n - 1) EXCEPT ![n - 1].got[k0] = value]
  BY <1>2 DEF FinishRead
<1>5. n \in Nat /\ m \in Nat \ {0} /\ n = m + 1 /\ n \in 2..n /\ m \in 1..n /\ m \in 1..(n - 1)
  <2>1. n \in Nat
    BY <1>1, <1>2, <1>3, TopFacts
  <2> QED  BY <1>2, <1>3, <2>1
<1>6. FrameInv(body[F], Top) /\ F \in Callers /\ body[F] \in BodyShape
      /\ Entries(F) = EntriesOf(body[F])
  BY <1>1, <1>2, <1>3, TopFacts
<1>7. F \in Files /\ F \in inflight /\ memo[F] = None /\ F = frames[n].file
  BY <1>1, <1>2, <1>5, FramesDistinct DEF Top
<1>8. value \in SUBSET Files /\ value # None
  <2>1. Top.val \in [1..Len(EntriesOf(body[F])) -> Outcome]
    BY <1>6 DEF FrameInv, FrameShape
  <2>2. \A j \in DOMAIN Top.val : Top.val[j] # None => Top.val[j] \subseteq Files
    BY <2>1 DEF Outcome
  <2>3. Collected \subseteq Files
    BY <2>2 DEF Collected
  <2> QED  BY <1>2, <1>7, <2>3, MarksAreNoValues
<1> DEFINE cb == body[caller.file]
           fr2 == [caller EXCEPT !.got[k0] = value]
<1>9. /\ caller.file \in Callers /\ cb \in BodyShape /\ FrameInv(cb, caller)
      /\ caller.pending # << >> /\ EntriesOf(cb)[k0].call = F /\ caller.got[k0] = None
  <2>1. Awaits(body[frames[m].file], frames[m], frames[m + 1].file)
    BY <1>1, <1>2, <1>5 DEF FramesInv
  <2>2. caller = frames[m]
    BY <1>2
  <2> QED  BY <1>1, <1>2, <1>5, <1>7, <2>1, <2>2 DEF FramesInv, Awaits
<1>10. /\ FrameInv(cb, fr2) /\ fr2.file = caller.file /\ fr2.pending = caller.pending
       /\ fr2.got = [caller.got EXCEPT ![k0] = value]
  <2>1. EntriesOf(cb)[Head(caller.pending)].call \in Files /\ caller.got[Head(caller.pending)] = None
    BY <1>2, <1>7, <1>9
  <2> DEFINE fr3 == Gotten(caller, value)
  <2>2. /\ FrameInv(cb, fr3) /\ fr3.file = caller.file /\ fr3.pending = caller.pending
        /\ fr3.got = [caller.got EXCEPT ![Head(caller.pending)] = value]
    BY <1>8, <1>9, <2>1, GotInv
  <2>3. fr2 = fr3
    BY <1>2 DEF Gotten
  <2> HIDE DEF fr2, fr3
  <2> QED  BY <1>2, <2>2, <2>3
<1>11. /\ fr2.got[k0] = value /\ k0 \in 1..Len(EntriesOf(cb))
       /\ \A k \in 1..Len(EntriesOf(cb)) : k # k0 => fr2.got[k] = caller.got[k]
  <2>1. caller.got \in [1..Len(EntriesOf(cb)) -> Outcome]
        /\ caller.pending \in Seq(1..Len(EntriesOf(cb)))
    BY <1>9 DEF FrameInv, FrameShape
  <2>2. k0 \in 1..Len(EntriesOf(cb))
    BY <1>2, <1>9, <2>1, InHead
  <2> QED  BY <1>10, <2>1, <2>2
<1>12. fr2 \in AnyFrame
  BY <1>9, <1>10 DEF AnyFrame, FrameInv
<1>13. /\ frames' \in Seq(AnyFrame) /\ Len(frames') = m /\ frames'[m] = fr2
       /\ \A i \in 1..m : i # m => frames'[i] = frames[i]
  <2> DEFINE low == SubSeq(frames, 1, m)
  <2>1. frames \in Seq(AnyFrame)
    BY <1>1 DEF FramesInv
  <2>2. low \in Seq(AnyFrame) /\ Len(low) = m /\ \A i \in 1..m : low[i] = frames[i]
    BY <1>2, <1>5, <2>1
  <2>3. frames' = [low EXCEPT ![m].got[k0] = value]
    BY <1>2, <1>4
  <2>4. low[m] = caller /\ m \in 1..Len(low)
    BY <1>2, <1>5, <2>2
  <2> HIDE DEF low
  <2>5. frames' = [low EXCEPT ![m] = fr2]
    BY <2>2, <2>3, <2>4
  <2> HIDE DEF fr2
  <2> QED  BY <1>12, <2>2, <2>4, <2>5, ExceptSeq
<1> HIDE DEF fr2
<1>14. \A i \in 1..m : frames'[i].file = frames[i].file
  BY <1>2, <1>10, <1>13
<1>15. FramesInv'
  <2>1. \A i \in 1..m :
          /\ frames'[i].file \in Callers
          /\ body'[frames'[i].file] \in BodyShape
          /\ FrameInv(body'[frames'[i].file], frames'[i])
    <3> TAKE i \in 1..m
    <3>1. CASE i = m
      BY <1>3, <1>9, <1>10, <1>13, <3>1
    <3>2. CASE i # m
      <4>1. i \in 1..Len(frames)
        BY <1>2, <1>5
      <4> QED  BY <1>1, <1>3, <1>13, <3>2, <4>1 DEF FramesInv
    <3> QED  BY <3>1, <3>2
  <2>2. \A i \in 1..(m - 1) :
          Awaits(body'[frames'[i].file], frames'[i], frames'[i + 1].file)
    <3> TAKE i \in 1..(m - 1)
    <3>1. i \in 1..m /\ i # m /\ i + 1 \in 1..m /\ i \in 1..(Len(frames) - 1)
      BY <1>2, <1>5
    <3> QED  BY <1>1, <1>3, <1>13, <1>14, <3>1 DEF FramesInv
  <2>3. frames'[1].file = Component
    <3>1. 1 \in 1..m
      BY <1>5
    <3> QED  BY <1>1, <1>3, <1>14, <3>1 DEF FramesInv
  <2>4. (body = [f \in Callers |-> body[f]])'
    BY <1>1, <1>3 DEF FramesInv
  <2> QED  BY <1>13, <2>1, <2>2, <2>3, <2>4 DEF FramesInv
<1>16. /\ \A f \in Files : f # F => memo'[f] = memo[f]
       /\ memo'[F] = value /\ memo' \in [Files -> Outcome]
  BY <1>1, <1>3, <1>7, <1>8 DEF StacksInv, Outcome
<1>17. StacksInv'
  <2>1. open \in Seq(Files) /\ Len(open) = m /\ open[m] = F
    <3>1. open \in Seq(Files) /\ Len(open) = m
      BY <1>1, <1>2, <1>3 DEF StacksInv, NothingLeaks
    <3>2. m \in 1..Len(open)
      BY <1>5, <3>1
    <3>3. frames[m + 1].file = open[m]
      BY <1>1, <3>2 DEF StacksInv, NothingLeaks
    <3> QED  BY <1>5, <1>7, <3>1, <3>3
  <2>2. /\ open' \in Seq(Files) /\ Len(open') = m - 1
        /\ \A i \in 1..(m - 1) : open'[i] = open[i]
    BY <1>3, <1>5, <2>1
  <2>3. /\ \A i \in 1..m : frames[i + 1].file = open[i]
        /\ \A i, j \in 1..m : open[i] = open[j] => i = j
        /\ inflight = {open[i] : i \in 1..m}
        /\ \A f \in inflight : memo[f] = None
    BY <1>1, <2>1 DEF StacksInv, NothingLeaks
  <2>4. \A i \in 1..m : i \in 1..(m - 1) <=> i # m
    BY <1>5
  <2>5. 1..(m - 1) \subseteq 1..m /\ m \in 1..m
    BY <1>5
  <2>6. \A i \in 1..(m - 1) : frames'[i + 1].file = open'[i]
    <3> TAKE i \in 1..(m - 1)
    <3>1. i + 1 \in 1..m
      BY <1>5
    <3> QED  BY <1>14, <2>2, <2>3, <2>5, <3>1
  <2>7. \A i, j \in 1..(m - 1) : open'[i] = open'[j] => i = j
    BY <2>2, <2>3, <2>5
  <2>8. inflight' = {open'[i] : i \in 1..(m - 1)}
    BY <1>3, <2>1, <2>2, <2>3, <2>4, <2>5
  <2>9. \A f \in inflight' : memo'[f] = None
    BY <1>1, <1>3, <1>16, <2>3 DEF StacksInv
  <2>10. frames' # << >> /\ Len(open') = Len(frames') - 1
    BY <1>5, <1>13, <2>2, EmptySeq
  <2>11. NothingLeaks'
    BY <2>2, <2>6, <2>7, <2>8, <2>9, <2>10 DEF NothingLeaks
  <2>12. /\ parses' \in [Files -> Nat]
         /\ \A f \in Files : parses'[f] = ByCascade(f) + (IF f \in inflight' \/ memo'[f] # None THEN 1 ELSE 0)
    <3> USE <1>1, <1>3 DEF StacksInv
    <3>1. parses'[F] = ByCascade(F) + (IF F \in inflight' \/ memo'[F] # None THEN 1 ELSE 0)
      BY <1>7, <1>8, <1>16
    <3>2. \A f \in Files : f # F => (f \in inflight' <=> f \in inflight)
      OBVIOUS
    <3> QED  BY <1>16, <3>1, <3>2
  <2>13. inflight' \subseteq Files
    BY <1>1, <1>3 DEF StacksInv
  <2> QED  BY <1>16, <2>2, <2>11, <2>12, <2>13 DEF StacksInv
<1>18. ASSUME NEW f \in Files, NEW k, NEW g, Accounted(f, k, g)
       PROVE  Accounted(f, k, g)'
  <2>1. k \in 1..Len(Entries(f)) /\ Entries(f)[k].call = g /\ g \in Files
        /\ (f \in inflight \/ memo[f] # None) /\ Entries(f)' = Entries(f)
    BY <1>3, <1>18 DEF Accounted, Entries
  <2>2. \A i \in 1..n : frames[i].file = f =>
          \/ memo[g] # None /\ frames[i].got[k] = memo[g]
          \/ i < n /\ frames[i + 1].file = g /\ k = Head(frames[i].pending)
    BY <1>2, <1>18 DEF Accounted
  <2>3. memo[g] # None => g # F /\ memo'[g] = memo[g]
    BY <1>7, <1>16, <2>1
  <2>4. \A i \in 1..m : frames'[i].file = f =>
          \/ memo'[g] # None /\ frames'[i].got[k] = memo'[g]
          \/ i < m /\ frames'[i + 1].file = g /\ k = Head(frames'[i].pending)
    <3> SUFFICES ASSUME NEW i \in 1..m, frames'[i].file = f
                 PROVE  \/ memo'[g] # None /\ frames'[i].got[k] = memo'[g]
                        \/ i < m /\ frames'[i + 1].file = g /\ k = Head(frames'[i].pending)
      OBVIOUS
    <3>1. i \in 1..n /\ frames[i].file = f /\ i < n
      BY <1>5, <1>14
    <3>2. \/ memo[g] # None /\ frames[i].got[k] = memo[g]
          \/ frames[i + 1].file = g /\ k = Head(frames[i].pending)
      BY <2>2, <3>1
    <3>3. CASE i = m
      <4>1. frames[i] = caller /\ frames[i + 1].file = F /\ frames'[i] = fr2
        BY <1>2, <1>5, <1>7, <1>13, <3>3
      <4>2. Entries(f) = EntriesOf(cb)
        BY <3>1, <4>1 DEF Entries, EntriesOf
      <4>3. CASE k = k0
        <5>1. g = F
          BY <1>9, <2>1, <4>2, <4>3
        <5> QED  BY <1>8, <1>11, <1>16, <4>1, <4>3, <5>1
      <4>4. CASE k # k0
        <5>1. memo[g] # None /\ caller.got[k] = memo[g]
          BY <1>2, <3>2, <4>1, <4>4
        <5>2. fr2.got[k] = caller.got[k]
          BY <1>11, <2>1, <4>2, <4>4
        <5> QED  BY <2>3, <4>1, <5>1, <5>2
      <4> QED  BY <4>3, <4>4
    <3>4. CASE i # m
      <4>1. i < m /\ i + 1 \in 1..m /\ frames'[i] = frames[i]
        BY <1>5, <1>13, <3>4
      <4> QED  BY <1>14, <2>3, <3>2, <4>1
    <3> QED  BY <3>3, <3>4
  <2>5. CASE f = F
    <3>1. n \in 1..n /\ ~(n < n) /\ frames[n] = Top
      BY <1>2, <1>5 DEF Top
    <3>2. memo[g] # None /\ Top.got[k] = memo[g]
      BY <1>7, <2>2, <2>5, <3>1
    <3>3. ASSUME Entries(f)[k].use = 0  PROVE memo[g] \subseteq value
      <4>1. CallsKept(body[F], Top)
        BY <1>6 DEF FrameInv
      <4>2. Top.val[k] = memo[g]
        BY <1>3, <1>6, <2>1, <2>5, <3>2, <3>3, <4>1 DEF CallsKept
      <4>3. k \in DOMAIN Top.val
        BY <1>6, <2>1, <2>5 DEF FrameInv, FrameShape
      <4> QED  BY <1>2, <3>2, <4>2, <4>3 DEF Collected
    <3> QED  BY <1>8, <1>13, <1>16, <2>1, <2>3, <2>4, <2>5, <3>2, <3>3 DEF Accounted
  <2>6. CASE f # F
    <3>1. (memo[f] # None /\ Entries(f)[k].use = 0) =>
             memo[g] # None /\ memo[g] \subseteq memo[f]
      BY <1>18 DEF Accounted
    <3>2. memo'[f] = memo[f] /\ (f \in inflight' <=> f \in inflight)
      BY <1>3, <1>16, <2>6
    <3> QED  BY <1>13, <2>1, <2>3, <2>4, <3>1, <3>2 DEF Accounted
  <2> QED  BY <2>5, <2>6
<1>19. AnswersInv'
  BY <1>1, <1>3, <1>18 DEF AnswersInv
<1> QED  BY <1>15, <1>17, <1>19 DEF ReadInv

\* `resolve` has its result: nothing is left in flight.
LEMMA FinishComponentStep == ASSUME ReadInv, FinishComponent PROVE ReadInv'
<1>1. FramesInv /\ StacksInv /\ AnswersInv
  BY DEF ReadInv
<1>2. /\ frames # << >> /\ Len(frames) = 1 /\ frames' = << >>
      /\ UNCHANGED <<body, parses, open, inflight, memo, answers>>
  BY DEF FinishComponent, Evaluated, Running
<1>3. << >> \in Seq(AnyFrame) /\ Len(<< >>) = 0
  BY EmptySeq
<1>4. FramesInv'
  BY <1>1, <1>2, <1>3 DEF FramesInv
<1>5. Len(open) = 0
  BY <1>1, <1>2 DEF StacksInv, NothingLeaks
<1>6. NothingLeaks'
  <2>1. Len(open') = 0 /\ \A i \in 1..Len(open') : FALSE
    BY <1>2, <1>5
  <2>2. inflight = {open[i] : i \in 1..Len(open)}
        /\ \A f \in inflight : memo[f] = None
    BY <1>1 DEF StacksInv, NothingLeaks
  <2>3. inflight' = {open'[i] : i \in 1..Len(open')}
        /\ \A f \in inflight' : memo'[f] = None
    BY <1>2, <2>2
  <2> QED  BY <1>2, <2>1, <2>3 DEF NothingLeaks
<1>7. StacksInv'
  BY <1>1, <1>2, <1>6 DEF StacksInv
<1>8. ASSUME NEW f, NEW k, NEW g, Accounted(f, k, g)  PROVE Accounted(f, k, g)'
  <2>1. \A i \in 1..Len(frames') : FALSE
    BY <1>2, <1>3
  <2>2. Entries(f)' = Entries(f)
    BY <1>2 DEF Entries
  <2> QED  BY <1>2, <1>8, <2>1, <2>2 DEF Accounted
<1>9. AnswersInv'
  BY <1>1, <1>2, <1>8 DEF AnswersInv
<1> QED  BY <1>4, <1>7, <1>9 DEF ReadInv

\* Before the first step: one frame, the component's.
LEMMA InitReadInv == Init => ReadInv
<1> SUFFICES ASSUME Init PROVE ReadInv
  OBVIOUS
<1>1. PICK b \in Bodies[Component] :
        /\ body = [f \in Callers |-> IF f = Component THEN b ELSE None]
        /\ frames = <<NewFrame(Component, b)>>
  BY DEF Init
<1>2. Component \in Callers /\ b \in BodyShape /\ body[Component] = b
  BY <1>1, BodiesShaped DEF Callers
<1> DEFINE new == NewFrame(Component, b)
<1>3. FrameInv(b, new) /\ new.file = Component
  BY <1>2, NewFrameInv
<1>4. new \in AnyFrame
  BY <1>2, <1>3 DEF AnyFrame, FrameInv
<1>5. frames = <<new>>
  BY <1>1
<1> HIDE DEF new
<1>6. frames \in Seq(AnyFrame) /\ Len(frames) = 1 /\ frames[1] = new
  BY <1>4, <1>5
<1>7. frames # << >>
  BY <1>6, EmptySeq
<1>8. body = [f \in Callers |-> body[f]]
  BY <1>1
<1>9. FramesInv
  <2>1. \A i \in 1..Len(frames) : i = 1
    BY <1>6
  <2>2. \A i \in 1..(Len(frames) - 1) : FALSE
    BY <1>6
  <2> QED  BY <1>2, <1>3, <1>6, <1>8, <2>1, <2>2 DEF FramesInv
<1>10. /\ open = << >> /\ inflight = {} /\ memo = [f \in Files |-> None]
       /\ parses = [f \in Files |-> ByCascade(f)] /\ answers = {} /\ Len(open) = 0
       /\ open \in Seq(Files)
  BY DEF Init
<1>11. NothingLeaks
  BY <1>6, <1>7, <1>10 DEF NothingLeaks
<1>12. StacksInv
  BY <1>10, <1>11 DEF StacksInv, Outcome, ByCascade
<1>13. AnswersInv
  BY <1>10 DEF AnswersInv
<1> QED  BY <1>9, <1>12, <1>13 DEF ReadInv

\* Every step of an evaluation preserves the invariant.
LEMMA NextReadInv == ReadInv /\ [Next]_vars => ReadInv'
<1> SUFFICES ASSUME ReadInv, [Next]_vars PROVE ReadInv'
  OBVIOUS
<1>1. CASE MemoHit
  <2>1. Calling /\ memo[Now.call] # None /\ Now.call \in Files
    BY <1>1 DEF MemoHit, Calling
  <2>2. PICK S : S = memo[Now.call]
    OBVIOUS
  <2>3. S \in SUBSET Files
    BY <2>1, <2>2 DEF ReadInv, StacksInv, Outcome
  <2> QED  BY <1>1, <2>1, <2>2, <2>3, AnsweredInv DEF MemoHit
<1>2. CASE RefuseInFlight
  BY <1>2, AnsweredInv DEF RefuseInFlight
<1>3. CASE ReadFails
  BY <1>3, AnsweredInv DEF ReadFails
<1>4. CASE EnterRead
  BY <1>4, EnterReadStep
<1>5. CASE Reduce
  BY <1>5, ReduceStep
<1>6. CASE NextPass
  BY <1>6, NextPassStep
<1>7. CASE BeginInputs
  BY <1>7, BeginInputsStep
<1>8. CASE FinishRead
  BY <1>8, FinishReadStep
<1>9. CASE FinishComponent
  BY <1>9, FinishComponentStep
<1>10. CASE UNCHANGED vars
  <2>1. FramesInv'
    BY <1>10 DEF vars, ReadInv, FramesInv
  <2>2. StacksInv'
    BY <1>10 DEF vars, ReadInv, StacksInv, NothingLeaks
  <2>3. AnswersInv'
    BY <1>10 DEF vars, ReadInv, AnswersInv, Accounted, Entries
  <2> QED  BY <2>1, <2>2, <2>3 DEF ReadInv
<1> QED  BY <1>1, <1>2, <1>3, <1>4, <1>5, <1>6, <1>7, <1>8, <1>9, <1>10
         DEF Next, EvaluateStep, Terminated

\* Everything below follows from the one inductive invariant.
LEMMA ReadInvariant == Spec => []ReadInv
<1>1. Init => ReadInv
  BY InitReadInv
<1>2. ReadInv /\ [Next]_vars => ReadInv'
  BY NextReadInv
<1> QED  BY <1>1, <1>2, PTL DEF Spec

-----------------------------------------------------------------------------
(* The theorems.                                                            *)

\* Whatever reads succeed, fail or run in a circle, the keys of `inflight`
\* are exactly the files being read, each once, and none of them has a result
\* yet: no error path of read_terragrunt_config leaves one behind.
THEOREM NothingLeaksOut == Spec => []NothingLeaks
<1>1. ReadInv => NothingLeaks
  BY DEF ReadInv, StacksInv
<1> QED  BY <1>1, ReadInvariant, PTL

\* A memoised result holds all that went into the files it asked for and got,
\* from the memo or by reading them, and read_terragrunt_config parses no file
\* twice; a file that the cascade includes has been parsed once before that.
THEOREM MemoIsComplete == Spec => []MemoHoldsWhatItCalled
<1>1. ReadInv => MemoHoldsWhatItCalled
  <2> SUFFICES ASSUME ReadInv PROVE MemoHoldsWhatItCalled
    OBVIOUS
  <2>1. \A f \in Files : parses[f] <= ByCascade(f) + 1
    BY DEF ReadInv, StacksInv, ByCascade
  <2>2. ASSUME NEW a \in answers, a[1] \in Files, a[4] \in {"memo", "read"},
               Entries(a[1])[a[2]].use = 0, memo[a[1]] # None
        PROVE  memo[a[3]] # None /\ memo[a[3]] \subseteq memo[a[1]]
    <3>1. Accounted(a[1], a[2], a[3])
      BY <2>2 DEF ReadInv, AnswersInv
    <3> QED  BY <2>2, <3>1 DEF Accounted
  <2> QED  BY <2>1, <2>2 DEF MemoHoldsWhatItCalled
<1> QED  BY <1>1, ReadInvariant, PTL

\* The passes of evaluate_locals end at a fixpoint unless the cap ends them.
THEOREM LocalsReachFixpoint == Spec => []LocalsSettle
<1>1. ReadInv => LocalsSettle
  <2> SUFFICES ASSUME ReadInv, NEW i \in 1..Len(frames), frames[i].inputs,
                      frames[i].pass < MaxPasses,
                      NEW k \in LocalsOf(frames[i].file), frames[i].val[k] = None
               PROVE  ~Reduced(frames[i].file, Entries(frames[i].file)[k],
                               frames[i].got[k], frames[i].val)
    BY DEF LocalsSettle
  <2> DEFINE b == body[frames[i].file]
  <2>1. FrameInv(b, frames[i])
    BY DEF ReadInv, FramesInv
  <2>2. Settled(b, frames[i])
    BY <2>1 DEF FrameInv
  <2>3. ~Literally(b, EntriesOf(b)[k], frames[i].got[k], frames[i].val)
    BY <2>2 DEF Settled, LocalsOf
  <2> QED  BY <2>3 DEF Literally, Reduced, LocalsOf, Entries, EntriesOf
<1> QED  BY <1>1, ReadInvariant, PTL

=============================================================================
