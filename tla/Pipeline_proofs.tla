--------------------------- MODULE Pipeline_proofs ---------------------------
(***************************************************************************)
(* Proofs about Pipeline, for any tree of files, any limits and any number *)
(* of changes to the files meanwhile: what a run reports, what it keeps    *)
(* and when it fails.                                                      *)
(***************************************************************************)
EXTENDS Pipeline, FiniteSetTheorems, SequenceTheorems, TLAPS

-----------------------------------------------------------------------------
(* Path order.                                                              *)

\* Those of S that come before d, of which there are finitely many.
Under(S, d) == {o \in S : o < d}

LEMMA UnderFinite ==
  ASSUME NEW S, IsFiniteSet(S), NEW d
  PROVE  IsFiniteSet(Under(S, d)) /\ Cardinality(Under(S, d)) \in Nat
<1>1. Under(S, d) \in SUBSET S
  BY DEF Under
<1> QED  BY <1>1, FS_Subset, FS_CardinalityType

LEMMA UnderBelow ==
  ASSUME NEW S, IsFiniteSet(S), S \subseteq Nat, NEW d \in S
  PROVE  Cardinality(Under(S, d)) < Cardinality(S)
<1>1. IsFiniteSet(S \ {d}) /\ Cardinality(S \ {d}) = Cardinality(S) - 1
  BY FS_RemoveElement
<1>2. Under(S, d) \in SUBSET (S \ {d})
  BY DEF Under
<1>3. Cardinality(Under(S, d)) <= Cardinality(S \ {d})
  BY <1>1, <1>2, FS_Subset
<1>4. Cardinality(S) \in Nat /\ Cardinality(Under(S, d)) \in Nat
  BY FS_CardinalityType, UnderFinite
<1> QED  BY <1>1, <1>3, <1>4

LEMMA UnderGrows ==
  ASSUME NEW S, IsFiniteSet(S), S \subseteq Nat, NEW d \in S, NEW e \in S, d < e
  PROVE  Cardinality(Under(S, d)) < Cardinality(Under(S, e))
<1>1. IsFiniteSet(Under(S, d)) /\ IsFiniteSet(Under(S, e))
  BY UnderFinite
<1>2. d \notin Under(S, d)
  BY DEF Under
<1>3. Cardinality(Under(S, d) \cup {d}) = Cardinality(Under(S, d)) + 1
  BY <1>1, <1>2, FS_AddElement
<1>4. Under(S, d) \cup {d} \in SUBSET Under(S, e)
  <2>1. d \in Nat /\ e \in Nat /\ \A o \in S : o \in Nat
    OBVIOUS
  <2>2. \A o \in S : o < d => o < e
    BY <2>1
  <2> QED  BY <2>2 DEF Under
<1>5. Cardinality(Under(S, d) \cup {d}) <= Cardinality(Under(S, e))
  BY <1>1, <1>4, FS_Subset
<1>6. Cardinality(Under(S, d)) \in Nat /\ Cardinality(Under(S, e)) \in Nat
  BY UnderFinite
<1> QED  BY <1>3, <1>5, <1>6

\* Each place in path order has one directory.
LEMMA PlaceTaken ==
  ASSUME NEW S, IsFiniteSet(S), S \subseteq Nat, NEW k \in 1..Cardinality(S)
  PROVE  \E d \in S : Cardinality(Under(S, d)) = k - 1
<1> DEFINE n == Cardinality(S)
           f == [d \in S |-> Cardinality(Under(S, d)) + 1]
<1>1. n \in Nat
  BY FS_CardinalityType
<1>2. ASSUME NEW d \in S  PROVE f[d] \in 1..n
  <2>1. Cardinality(Under(S, d)) < n /\ Cardinality(Under(S, d)) \in Nat
    BY UnderBelow, UnderFinite
  <2> QED  BY <1>1, <2>1
<1>3. ASSUME NEW d \in S, NEW e \in S, f[d] = f[e]  PROVE d = e
  <2>1. Cardinality(Under(S, d)) \in Nat /\ Cardinality(Under(S, e)) \in Nat
    BY UnderFinite
  <2>2. Cardinality(Under(S, d)) = Cardinality(Under(S, e))
    BY <1>3, <2>1
  <2>3. ~(d < e)
    <3> SUFFICES ASSUME d < e PROVE FALSE
      OBVIOUS
    <3>1. Cardinality(Under(S, d)) < Cardinality(Under(S, e))
      BY UnderGrows
    <3> QED  BY <2>1, <2>2, <3>1
  <2>4. ~(e < d)
    <3> SUFFICES ASSUME e < d PROVE FALSE
      OBVIOUS
    <3>1. Cardinality(Under(S, e)) < Cardinality(Under(S, d))
      BY UnderGrows
    <3> QED  BY <2>1, <2>2, <3>1
  <2>5. d \in Nat /\ e \in Nat
    OBVIOUS
  <2> QED  BY <2>3, <2>4, <2>5
<1>4. f \in Injection(S, 1..n)
  <2>1. f \in [S -> 1..n]
    BY <1>2
  <2> HIDE DEF f
  <2> QED  BY <1>3, <2>1 DEF Injection, IsInjective
<1>5. IsFiniteSet(1..n) /\ Cardinality(1..n) = n
  BY <1>1, FS_Interval
<1> HIDE DEF f
<1>6. f \in Surjection(S, 1..n)
  BY <1>4, <1>5, FS_Injection
<1>7. \E d \in S : f[d] = k
  BY <1>6 DEF Surjection
<1>8. PICK d \in S : Cardinality(Under(S, d)) + 1 = k
  BY <1>7 DEF f
<1>9. Cardinality(Under(S, d)) \in Nat
  BY UnderFinite
<1> QED  BY <1>8, <1>9

\* Path order lists what is in the set and nothing else, in ascending order.
LEMMA PathOrder ==
  ASSUME NEW S, IsFiniteSet(S), S \subseteq Nat
  PROVE  /\ InPathOrder(S) \in Seq(S)
         /\ \A d \in S : \E k \in 1..Len(InPathOrder(S)) : InPathOrder(S)[k] = d
<1> DEFINE n == Cardinality(S)
           s == InPathOrder(S)
<1>1. n \in Nat
  BY FS_CardinalityType
<1>2. s = [k \in 1..n |-> CHOOSE d \in S : Cardinality(Under(S, d)) = k - 1]
  BY DEF InPathOrder, Under
<1> HIDE DEF s
<1>3. ASSUME NEW k \in 1..n  PROVE s[k] \in S /\ Cardinality(Under(S, s[k])) = k - 1
  <2>1. \E d \in S : Cardinality(Under(S, d)) = k - 1
    BY PlaceTaken
  <2>2. s[k] = CHOOSE d \in S : Cardinality(Under(S, d)) = k - 1
    BY <1>2
  <2> QED  BY <2>1, <2>2, Zenon
<1>4. s \in Seq(S) /\ Len(s) = n
  <2>1. s \in [1..n -> S]
    BY <1>2, <1>3
  <2> QED  BY <1>1, <2>1
<1>5. ASSUME NEW d \in S  PROVE \E k \in 1..n : s[k] = d
  <2>1. PICK k : k = Cardinality(Under(S, d)) + 1
    OBVIOUS
  <2>2. k \in 1..n /\ k - 1 = Cardinality(Under(S, d))
    <3>1. Cardinality(Under(S, d)) < n /\ Cardinality(Under(S, d)) \in Nat
      BY UnderBelow, UnderFinite
    <3> QED  BY <1>1, <2>1, <3>1
  <2>3. s[k] \in S /\ Cardinality(Under(S, s[k])) = Cardinality(Under(S, d))
    BY <1>3, <2>2
  <2>4. ~(s[k] < d) /\ ~(d < s[k])
    <3>1. Cardinality(Under(S, d)) \in Nat
      BY UnderFinite
    <3>2. ASSUME s[k] < d  PROVE FALSE
      <4>1. Cardinality(Under(S, s[k])) < Cardinality(Under(S, d))
        BY <2>3, <3>2, UnderGrows
      <4> QED  BY <2>3, <3>1, <4>1
    <3>3. ASSUME d < s[k]  PROVE FALSE
      <4>1. Cardinality(Under(S, d)) < Cardinality(Under(S, s[k]))
        BY <2>3, <3>3, UnderGrows
      <4> QED  BY <2>3, <3>1, <4>1
    <3> QED  BY <3>2, <3>3
  <2>5. s[k] \in Nat /\ d \in Nat
    BY <2>3
  <2> QED  BY <2>2, <2>4, <2>5
<1> QED  BY <1>4, <1>5 DEF s

-----------------------------------------------------------------------------
(* Lists and their elements.                                                *)

\* Putting two lists together.
LEMMA JoinElements ==
  ASSUME NEW T, NEW a \in Seq(T), NEW b \in Seq(T)
  PROVE  a \o b \in Seq(T) /\ ToSet(a \o b) = ToSet(a) \cup ToSet(b)
<1>1. /\ a \o b \in Seq(T) /\ Len(a \o b) = Len(a) + Len(b)
      /\ \A i \in 1..(Len(a) + Len(b)) :
           (a \o b)[i] = IF i <= Len(a) THEN a[i] ELSE b[i - Len(a)]
  BY ConcatProperties
<1>2. PICK c : c = a \o b
  OBVIOUS
<1>3. /\ c \in Seq(T) /\ Len(c) = Len(a) + Len(b) /\ Len(a) \in Nat /\ Len(b) \in Nat
      /\ DOMAIN a = 1..Len(a) /\ DOMAIN b = 1..Len(b) /\ DOMAIN c = 1..(Len(a) + Len(b))
      /\ \A i \in 1..(Len(a) + Len(b)) : c[i] = IF i <= Len(a) THEN a[i] ELSE b[i - Len(a)]
  BY <1>1, <1>2
<1>4. ToSet(c) \subseteq ToSet(a) \cup ToSet(b)
  <2> SUFFICES ASSUME NEW i \in 1..(Len(a) + Len(b))
               PROVE  c[i] \in ToSet(a) \cup ToSet(b)
    BY <1>3 DEF ToSet
  <2>1. CASE i <= Len(a)
    <3>1. i \in DOMAIN a /\ c[i] = a[i]
      BY <1>3, <2>1
    <3> QED  BY <3>1 DEF ToSet
  <2>2. CASE ~(i <= Len(a))
    <3>1. i - Len(a) \in DOMAIN b /\ c[i] = b[i - Len(a)]
      BY <1>3, <2>2
    <3> QED  BY <3>1 DEF ToSet
  <2> QED  BY <2>1, <2>2
<1>5. ToSet(a) \subseteq ToSet(c)
  <2>1. \A i \in DOMAIN a : i \in DOMAIN c /\ c[i] = a[i]
    BY <1>3
  <2> QED  BY <2>1 DEF ToSet
<1>6. ToSet(b) \subseteq ToSet(c)
  <2>1. ASSUME NEW i \in DOMAIN b
        PROVE  i + Len(a) \in DOMAIN c /\ c[i + Len(a)] = b[i]
    <3>1. i + Len(a) \in 1..(Len(a) + Len(b)) /\ ~(i + Len(a) <= Len(a)) /\ (i + Len(a)) - Len(a) = i
      BY <1>3
    <3> QED  BY <1>3, <3>1
  <2> QED  BY <2>1 DEF ToSet
<1> QED  BY <1>1, <1>2, <1>4, <1>5, <1>6

\* One more element.
LEMMA AppendElements ==
  ASSUME NEW T, NEW a \in Seq(T), NEW x \in T
  PROVE  Append(a, x) \in Seq(T) /\ ToSet(Append(a, x)) = ToSet(a) \cup {x}
<1>1. PICK c : c = Append(a, x)
  OBVIOUS
<1>2. /\ c \in Seq(T) /\ DOMAIN a = 1..Len(a) /\ DOMAIN c = 1..(Len(a) + 1) /\ Len(a) \in Nat
      /\ c[Len(a) + 1] = x /\ \A i \in 1..Len(a) : c[i] = a[i]
  BY <1>1, AppendProperties
<1>3. \A i \in DOMAIN c : i \in DOMAIN a \/ i = Len(a) + 1
  BY <1>2
<1>4. Len(a) + 1 \in DOMAIN c /\ \A i \in DOMAIN a : i \in DOMAIN c
  BY <1>2
<1>5. ToSet(c) \subseteq ToSet(a) \cup {x}
  BY <1>2, <1>3 DEF ToSet
<1>6. ToSet(a) \cup {x} \subseteq ToSet(c)
  BY <1>2, <1>4 DEF ToSet
<1> QED  BY <1>1, <1>2, <1>5, <1>6

\* A list without its first element.
LEMMA TailElements ==
  ASSUME NEW T, NEW a \in Seq(T), a # << >>
  PROVE  /\ Head(a) \in T /\ Tail(a) \in Seq(T) /\ ToSet(a) = {Head(a)} \cup ToSet(Tail(a))
         /\ Len(a) \in Nat \ {0} /\ Len(Tail(a)) = Len(a) - 1
         /\ \A i \in 1..(Len(a) - 1) : Tail(a)[i] = a[i + 1]
<1>1. /\ Head(a) \in T /\ Tail(a) \in Seq(T) /\ Len(a) \in Nat \ {0} /\ Head(a) = a[1]
      /\ Len(Tail(a)) = Len(a) - 1 /\ \A i \in 1..(Len(a) - 1) : Tail(a)[i] = a[i + 1]
  BY EmptySeq, LenProperties, HeadTailProperties
<1>2. PICK c : c = Tail(a)
  OBVIOUS
<1>3. DOMAIN a = 1..Len(a) /\ DOMAIN c = 1..(Len(a) - 1)
  BY <1>1, <1>2
<1>4. \A i \in DOMAIN a : i = 1 \/ (i - 1 \in DOMAIN c /\ c[i - 1] = a[i])
  <2> SUFFICES ASSUME NEW i \in 1..Len(a), i # 1
               PROVE  i - 1 \in 1..(Len(a) - 1) /\ c[i - 1] = a[i]
    BY <1>3
  <2>1. i - 1 \in 1..(Len(a) - 1) /\ (i - 1) + 1 = i
    BY <1>1
  <2> QED  BY <1>1, <1>2, <2>1
<1>5. 1 \in DOMAIN a /\ \A i \in DOMAIN c : i + 1 \in DOMAIN a /\ c[i] = a[i + 1]
  BY <1>1, <1>2, <1>3
<1>6. ToSet(a) \subseteq {Head(a)} \cup ToSet(c)
  BY <1>1, <1>4 DEF ToSet
<1>7. {Head(a)} \cup ToSet(c) \subseteq ToSet(a)
  BY <1>1, <1>5 DEF ToSet
<1> QED  BY <1>1, <1>2, <1>6, <1>7

\* The elements of a list at some of its places.
LEMMA PickedElements ==
  ASSUME NEW T, NEW a \in Seq(T), NEW places \in SUBSET (1..Len(a))
  PROVE  Picked(a, places) \in Seq(T) /\ ToSet(Picked(a, places)) = {a[k] : k \in places}
<1> DEFINE order == InPathOrder(places)
<1>1. IsFiniteSet(places) /\ places \subseteq Nat /\ Len(a) \in Nat
  <2>1. PICK n \in Nat : n = Len(a)
    OBVIOUS
  <2>2. IsFiniteSet(1..n) /\ places \in SUBSET (1..n)
    BY <2>1, FS_Interval
  <2>3. IsFiniteSet(places)
    BY <2>2, FS_Subset
  <2> QED  BY <2>1, <2>2, <2>3
<1>2. order \in Seq(places) /\ \A p \in places : \E k \in 1..Len(order) : order[k] = p
  BY <1>1, PathOrder
<1>3. Picked(a, places) = [k \in DOMAIN order |-> a[order[k]]]
  BY DEF Picked
<1> HIDE DEF order
<1>4. DOMAIN order = 1..Len(order) /\ Len(order) \in Nat /\ \A k \in 1..Len(order) : order[k] \in places
  BY <1>2
<1>5. PICK c : c = Picked(a, places)
  OBVIOUS
<1>6. c = [k \in 1..Len(order) |-> a[order[k]]]
  BY <1>3, <1>4, <1>5
<1>7. \A p \in places : a[p] \in T
  BY <1>1
<1>8. c \in Seq(T) /\ DOMAIN c = 1..Len(order)
  <2>1. c \in [1..Len(order) -> T]
    BY <1>4, <1>6, <1>7
  <2> QED  BY <1>4, <2>1
<1>9. ToSet(c) \subseteq {a[k] : k \in places}
  BY <1>4, <1>6, <1>8 DEF ToSet
<1>10. {a[k] : k \in places} \subseteq ToSet(c)
  BY <1>2, <1>6, <1>8 DEF ToSet
<1> QED  BY <1>5, <1>8, <1>9, <1>10

\* A finite set as a list.
LEMMA ListOfSet ==
  ASSUME NEW S, IsFiniteSet(S)
  PROVE  SetToSeq(S) \in Seq(S) /\ ToSet(SetToSeq(S)) = S
<1> DEFINE n == Cardinality(S)
           s == SetToSeq(S)
<1>1. n \in Nat /\ IsFiniteSet(1..n) /\ Cardinality(1..n) = n
  BY FS_CardinalityType, FS_Interval
<1>2. \E f \in [1..n -> S] : IsInjective(f)
  <2>1. ExistsBijection(1..n, S)
    BY FS_CardinalityType
  <2> QED  BY <2>1 DEF ExistsBijection, Bijection, Injection
<1>3. s \in [1..n -> S] /\ IsInjective(s)
  <2>1. s = CHOOSE f \in [1..n -> S] : IsInjective(f)
    BY DEF SetToSeq
  <2> HIDE DEF s, n
  <2> QED  BY <1>2, <2>1, Zenon
<1> HIDE DEF s
<1>4. s \in Injection(1..n, S)
  BY <1>3 DEF Injection
<1>5. s \in Surjection(1..n, S)
  BY <1>1, <1>4, FS_Injection
<1>6. s \in Seq(S) /\ DOMAIN s = 1..n
  BY <1>1, <1>3
<1>7. ToSet(s) \subseteq S
  BY <1>3, <1>6 DEF ToSet
<1>8. \A x \in S : \E k \in 1..n : s[k] = x
  BY <1>5 DEF Surjection
<1>9. S \subseteq ToSet(s)
  BY <1>6, <1>8 DEF ToSet
<1> QED  BY <1>6, <1>7, <1>9 DEF s

\* A set of numbers that is not empty has a least one.
LEMMA LeastNumber ==
  ASSUME NEW S, S \subseteq Nat, S # {}
  PROVE  \E x \in S : \A y \in S : x <= y
<1>1. PICK x \in S : \A y \in S : ~ (<<y, x>> \in OpToRel(<, Nat))
  BY WFMin, NatLessThanWellFounded, Zenon
<1>2. \A y \in S : ~(y < x)
  BY <1>1 DEF OpToRel
<1> QED  BY <1>2

\* g joins the first lists of s, up to the n-th.
JoinedUpTo(g, s, n) == g = [i \in 1..n |-> IF i = 1 THEN s[i] ELSE g[i - 1] \o s[i]]

LEMMA JoinsStart ==
  ASSUME NEW s, NEW n \in Nat
  PROVE  \E g : JoinedUpTo(g, s, n)
<1> DEFINE Is(g, m) == JoinedUpTo(g, s, m)
           Stuck == {m \in Nat : ~\E g : Is(g, m)}
<1>1. \E g : Is(g, 0)
  <2>1. Is([i \in 1..0 |-> s], 0)
    <3>1. 1..0 = {}
      OBVIOUS
    <3> QED  BY <3>1 DEF JoinedUpTo
  <2> QED  BY <2>1
<1>2. ASSUME NEW m \in Nat, NEW g, Is(g, m)
      PROVE  \E h : Is(h, m + 1)
  <2> DEFINE h == [i \in 1..(m + 1) |->
                     IF i \in 1..m THEN g[i] ELSE IF i = 1 THEN s[i] ELSE g[m] \o s[i]]
  <2>1. ASSUME NEW i \in 1..(m + 1)
        PROVE  h[i] = IF i = 1 THEN s[i] ELSE h[i - 1] \o s[i]
    <3>1. CASE i \in 1..m
      <4>1. h[i] = g[i] /\ g[i] = IF i = 1 THEN s[i] ELSE g[i - 1] \o s[i]
        BY <1>2, <3>1 DEF JoinedUpTo
      <4>2. i # 1 => h[i - 1] = g[i - 1]
        <5>1. i # 1 => i - 1 \in 1..m /\ i - 1 \in 1..(m + 1)
          BY <3>1
        <5> QED  BY <5>1
      <4> QED  BY <4>1, <4>2
    <3>2. CASE i = m + 1
      <4>1. i \notin 1..m /\ i - 1 = m
        BY <3>2
      <4>2. i # 1 => m \in 1..m /\ m \in 1..(m + 1)
        BY <3>2
      <4> QED  BY <4>1, <4>2
    <3> QED  BY <3>1, <3>2
  <2>2. h = [i \in 1..(m + 1) |-> h[i]]
    OBVIOUS
  <2> HIDE DEF h
  <2>3. Is(h, m + 1)
    BY <2>1, <2>2 DEF JoinedUpTo
  <2> QED  BY <2>3
<1>3. Stuck = {}
  <2> SUFFICES ASSUME Stuck # {} PROVE FALSE
    OBVIOUS
  <2>1. Stuck \subseteq Nat
    OBVIOUS
  <2> HIDE DEF Stuck
  <2>2. PICK x \in Stuck : \A y \in Stuck : x <= y
    BY <2>1, LeastNumber
  <2> USE DEF Stuck
  <2>3. x \in Nat /\ x # 0
    BY <1>1, <2>2
  <2>4. PICK m \in Nat : x = m + 1 /\ ~(x <= m)
    <3>1. x - 1 \in Nat /\ x = (x - 1) + 1 /\ ~(x <= x - 1)
      BY <2>3
    <3> QED  BY <3>1
  <2> HIDE DEF Is
  <2>5. PICK g : Is(g, m)
    BY <2>2, <2>4
  <2>6. \E h : Is(h, m + 1)
    BY <1>2, <2>5
  <2> QED  BY <2>2, <2>4, <2>6
<1> QED  BY <1>3

\* A list of lists, all in one.
LEMMA FlatElements ==
  ASSUME NEW T, NEW s \in Seq(Seq(T))
  PROVE  /\ FlattenSeq(s) \in Seq(T)
         /\ ToSet(FlattenSeq(s)) = UNION {ToSet(s[k]) : k \in DOMAIN s}
<1>1. PICK n \in Nat : n = Len(s) /\ DOMAIN s = 1..n
  OBVIOUS
<1>2. CASE n = 0
  <2>1. s = << >> /\ 1..n = {}
    BY <1>1, <1>2, EmptySeq
  <2>2. FlattenSeq(s) = << >>
    BY <1>1, <1>2, <2>1 DEF FlattenSeq
  <2>3. ToSet(<< >>) = {} /\ << >> \in Seq(T)
    BY EmptySeq DEF ToSet
  <2> QED  BY <1>1, <2>1, <2>2, <2>3
<1>3. CASE n # 0
  <2> DEFINE flat == CHOOSE g : JoinedUpTo(g, s, n)
             Unions(i) == UNION {ToSet(s[k]) : k \in 1..i}
             Is(i) == flat[i] \in Seq(T) /\ ToSet(flat[i]) = Unions(i)
             Odd == {i \in 1..n : ~Is(i)}
  <2>1. JoinedUpTo(flat, s, n)
    <3>1. \E g : JoinedUpTo(g, s, n)
      BY JoinsStart
    <3> QED  BY <3>1, Zenon
  <2>2. FlattenSeq(s) = flat[n]
    BY <1>1, <1>3 DEF FlattenSeq, JoinedUpTo
  <2> HIDE DEF flat
  <2>3. \A i \in 1..n : flat[i] = IF i = 1 THEN s[i] ELSE flat[i - 1] \o s[i]
    BY <2>1 DEF JoinedUpTo
  <2>4. \A i \in 1..n : s[i] \in Seq(T)
    BY <1>1
  <2>5. 1 \in 1..n => Is(1)
    <3>1. Unions(1) = ToSet(s[1])
      <4>1. 1..1 = {1}
        OBVIOUS
      <4> QED  BY <4>1
    <3> QED  BY <2>3, <2>4, <3>1
  <2>6. ASSUME NEW i \in 1..n, NEW j \in 1..n, i = j + 1, Is(j)
        PROVE  Is(i)
    <3>1. flat[i] = flat[j] \o s[i] /\ i # 1
      <4>1. i - 1 = j /\ i # 1
        BY <2>6
      <4> QED  BY <2>3, <4>1
    <3>2. flat[j] \in Seq(T) /\ ToSet(flat[j]) = Unions(j) /\ s[i] \in Seq(T)
      BY <2>4, <2>6
    <3>3. flat[i] \in Seq(T) /\ ToSet(flat[i]) = Unions(j) \cup ToSet(s[i])
      <4> HIDE DEF Unions
      <4> QED  BY <3>1, <3>2, JoinElements
    <3>4. 1..i = 1..j \cup {i}
      BY <2>6
    <3>5. Unions(i) = Unions(j) \cup ToSet(s[i])
      BY <3>4
    <3> QED  BY <3>3, <3>5
  <2>7. Odd = {}
    <3> SUFFICES ASSUME Odd # {} PROVE FALSE
      OBVIOUS
    <3>1. Odd \subseteq Nat
      OBVIOUS
    <3> HIDE DEF Odd
    <3>2. PICK x \in Odd : \A y \in Odd : x <= y
      BY <3>1, LeastNumber
    <3> USE DEF Odd
    <3> HIDE DEF Is
    <3>3. x \in 1..n /\ x # 1
      BY <2>5, <3>2
    <3>4. PICK j \in 1..n : x = j + 1 /\ ~(x <= j)
      <4>1. x - 1 \in 1..n /\ x = (x - 1) + 1 /\ ~(x <= x - 1)
        BY <3>3
      <4> QED  BY <4>1
    <3>5. Is(j)
      BY <3>2, <3>4
    <3>6. Is(x)
      BY <2>6, <3>3, <3>4, <3>5
    <3> QED  BY <3>2, <3>6
  <2>8. Is(n)
    <3>1. n \in 1..n
      BY <1>3
    <3> QED  BY <2>7, <3>1
  <2> QED  BY <1>1, <2>2, <2>8
<1> QED  BY <1>2, <1>3

-----------------------------------------------------------------------------
(* What the variables are.                                                  *)

Codes ==
  {"TF1100", "TF1102", "TF1103", "TF1110", "TF1120", "TF1201", "TF1202", "TF1203",
   "TF1204", "TF1205", "TF1206", "TF1401"}
Diags == Codes \X (tree.entries \cup tree.dirs)
DirKinds == {"unknown", "environments", "component", "module", "files", "other"}
Phases ==
  {"root", "walk", "classify", "load", "terragrunt", "evaluate", "providers", "done", "failed"}

TreeShape ==
  /\ IsFiniteSet(tree.dirs) /\ Root \in tree.dirs /\ tree.dirs \subseteq Nat
  /\ tree.walled \subseteq tree.dirs \ {Root}
  /\ tree.depth \in [tree.dirs -> Nat] /\ tree.depth[Root] = 0
  /\ IsFiniteSet(tree.entries)
  /\ tree.dir \in [tree.entries -> tree.dirs]
  /\ tree.type \in [tree.entries -> {"file", "link", "special"}]

FilesShape == disk \in [tree.entries -> FileState]

WalkShape ==
  /\ phase \in Phases
  /\ unseen \subseteq (tree.dirs \X {"dir"}) \cup (tree.entries \X {"entry"})
  /\ seenDirs \subseteq tree.dirs /\ todo \subseteq tree.dirs
  /\ groups \in [tree.dirs -> Seq(tree.entries)]
  /\ kinds \in [tree.dirs -> DirKinds]

DiagsShape == diags \in Seq(Diags)

LoadShape ==
  /\ queue \in Seq(tree.dirs) /\ loaded \in Seq(tree.dirs)
  /\ position \in Nat \ {0}
  /\ raws \in [tree.dirs -> Seq(tree.entries \X BlockKinds)]
  /\ sources \subseteq tree.entries

RunShape ==
  /\ pending \in Seq(tree.dirs) /\ evaluated \in Seq(tree.dirs)
  /\ registry \subseteq tree.dirs
  /\ found \in [tree.dirs -> Seq(Diags)]
  /\ reading => phase = "terragrunt" /\ pending # << >> /\ TerragruntFiles(Head(pending)) # {}

Shape == TreeShape /\ FilesShape /\ WalkShape /\ DiagsShape /\ LoadShape /\ RunShape

\* One more diagnostic.
LEMMA PutShape ==
  ASSUME NEW code \in Codes, NEW x \in tree.entries \cup tree.dirs, DiagsShape, tree' = tree,
         Put(code, x)
  PROVE  DiagsShape'
<1>1. PICK D : D = Diags
  OBVIOUS
<1>2. <<code, x>> \in D /\ Diags' = D
  BY <1>1 DEF Diags
<1>3. diags' \in Seq(D)
  BY <1>1, <1>2 DEF Put, DiagsShape
<1> QED  BY <1>2, <1>3 DEF DiagsShape

LEMMA ShapeInit == Init => Shape
<1> SUFFICES ASSUME Init PROVE Shape
  OBVIOUS
<1>1. PICK w \in Workspaces : tree = w.tree /\ disk = w.disk
  BY DEF Init, DiscoveryInit
<1>2. WorkspaceShaped(w)
  BY <1>1, WorkspacesShaped
<1>3. TreeShape /\ FilesShape
  BY <1>1, <1>2 DEF WorkspaceShaped, TreeShape, FilesShape
<1>4. WalkShape /\ DiagsShape
  BY <1>3 DEF Init, DiscoveryInit, TreeShape, WalkShape, DiagsShape, Phases, DirKinds
<1>5. LoadShape /\ RunShape
  BY <1>3 DEF Init, LoaderInit, LoadShape, RunShape
<1> QED  BY <1>3, <1>4, <1>5 DEF Shape

LEMMA OfKindShape ==
  ASSUME TreeShape, NEW list \in Seq(tree.dirs), NEW kind
  PROVE  /\ OfKind(list, kind) \in Seq(tree.dirs)
         /\ ToSet(OfKind(list, kind)) = {d \in ToSet(list) : kinds[d] = kind}
<1> DEFINE places == {k \in DOMAIN list : kinds[list[k]] = kind}
<1>1. places \in SUBSET (1..Len(list))
  OBVIOUS
<1>2. OfKind(list, kind) = Picked(list, places)
  BY DEF OfKind
<1>3. {list[k] : k \in places} = {d \in ToSet(list) : kinds[d] = kind}
  BY DEF ToSet
<1> HIDE DEF places
<1> QED  BY <1>1, <1>2, <1>3, PickedElements

\* Directories of a kind, in path order.
LEMMA OrderShape ==
  ASSUME TreeShape, NEW S \in SUBSET tree.dirs
  PROVE  InPathOrder(S) \in Seq(tree.dirs) /\ ToSet(InPathOrder(S)) = S
<1>1. IsFiniteSet(S) /\ S \subseteq Nat
  <2>1. IsFiniteSet(S)
    BY FS_Subset DEF TreeShape
  <2>2. \A d \in S : d \in Nat
    BY DEF TreeShape
  <2> QED  BY <2>1, <2>2
<1>2. InPathOrder(S) \in Seq(S) /\ \A d \in S : \E k \in 1..Len(InPathOrder(S)) : InPathOrder(S)[k] = d
  BY <1>1, PathOrder
<1>3. PICK s : s = InPathOrder(S)
  OBVIOUS
<1>4. s \in Seq(S) /\ DOMAIN s = 1..Len(s) /\ \A d \in S : \E k \in 1..Len(s) : s[k] = d
  BY <1>2, <1>3
<1>5. s \in Seq(tree.dirs)
  <2>1. s \in [1..Len(s) -> tree.dirs] /\ Len(s) \in Nat
    BY <1>4
  <2> QED  BY <2>1
<1>6. ToSet(s) = S
  BY <1>4 DEF ToSet
<1> QED  BY <1>3, <1>5, <1>6

-----------------------------------------------------------------------------
(* Each step keeps the shape.                                               *)

\* Every file declares what it did, and once gone it stays away.
OnlyLost ==
  \A e \in tree.entries : /\ disk'[e].declares = disk[e].declares
                          /\ disk'[e].there => disk[e].there

LEMMA ChangeEffect ==
  ASSUME FilesShape, UserStep
  PROVE  /\ tree' = tree /\ disk' \in [tree.entries -> FileState]
         /\ OnlyLost
<1>1. tree' = tree /\ disk \in [tree.entries -> FileState]
  BY DEF FilesShape, UserStep, ChangeFile
<1>2. PICK f \in tree.entries :
        \/ disk' = [disk EXCEPT ![f].there = FALSE]
        \/ disk' = [disk EXCEPT ![f].size = MaxFileSize + 1]
        \/ disk' = [disk EXCEPT ![f].parses = ~@]
        \/ disk' = [disk EXCEPT ![f].text = FALSE]
  BY <1>1 DEF UserStep, ChangeFile
<1>3. MaxFileSize + 1 \in Nat /\ disk[f] \in FileState
  BY <1>1, LimitsAreNatural
<1>4. PICK r : /\ disk' = [disk EXCEPT ![f] = r]
               /\ r \in FileState /\ r.declares = disk[f].declares /\ (r.there => disk[f].there)
  <2>1. CASE disk' = [disk EXCEPT ![f].there = FALSE]
    <3>1. [disk[f] EXCEPT !.there = FALSE] \in FileState
      BY <1>3 DEF FileState
    <3> QED  BY <1>3, <2>1, <3>1 DEF FileState
  <2>2. CASE disk' = [disk EXCEPT ![f].size = MaxFileSize + 1]
    <3>1. [disk[f] EXCEPT !.size = MaxFileSize + 1] \in FileState
      BY <1>3 DEF FileState
    <3> QED  BY <1>3, <2>2, <3>1 DEF FileState
  <2>3. CASE disk' = [disk EXCEPT ![f].parses = ~@]
    <3>1. [disk[f] EXCEPT !.parses = ~@] \in FileState
      BY <1>3 DEF FileState
    <3> QED  BY <1>3, <2>3, <3>1 DEF FileState
  <2>4. CASE disk' = [disk EXCEPT ![f].text = FALSE]
    <3>1. [disk[f] EXCEPT !.text = FALSE] \in FileState
      BY <1>3 DEF FileState
    <3> QED  BY <1>3, <2>4, <3>1 DEF FileState
  <2> QED  BY <1>2, <2>1, <2>2, <2>3, <2>4
<1>5. disk' \in [tree.entries -> FileState]
  BY <1>1, <1>4
<1>6. \A e \in tree.entries : disk'[e] = IF e = f THEN r ELSE disk[e]
  BY <1>1, <1>4
<1>7. OnlyLost
  BY <1>4, <1>6 DEF OnlyLost
<1> QED  BY <1>1, <1>5, <1>7

LEMMA ChangeFileShape == Shape /\ UserStep => Shape'
<1> SUFFICES ASSUME Shape, UserStep PROVE Shape'
  OBVIOUS
<1>1. FilesShape'
  BY ChangeEffect DEF Shape, FilesShape
<1>2. TreeShape' /\ WalkShape' /\ DiagsShape'
  BY DEF Shape, UserStep, ChangeFile, TreeShape, WalkShape, DiagsShape, Diags
<1>3. LoadShape' /\ RunShape'
  BY DEF Shape, UserStep, ChangeFile, LoadShape, RunShape, loaderVars, pipelineVars, TerragruntFiles, Diags
<1> QED  BY <1>1, <1>2, <1>3 DEF Shape

\* What a step that leaves the files and the later stages alone keeps.
LEMMA StillShape ==
  ASSUME Shape, UNCHANGED <<tree, disk>>
  PROVE  /\ TreeShape' /\ FilesShape'
         /\ UNCHANGED loaderVars => LoadShape'
         /\ UNCHANGED pipelineVars /\ (phase = "terragrunt" => phase' = phase) => RunShape'
         /\ UNCHANGED diags => DiagsShape'
<1>1. TreeShape' /\ FilesShape'
  BY DEF Shape, TreeShape, FilesShape
<1>2. UNCHANGED loaderVars => LoadShape'
  BY DEF Shape, LoadShape, loaderVars
<1>3. UNCHANGED pipelineVars /\ (phase = "terragrunt" => phase' = phase) => RunShape'
  BY DEF Shape, RunShape, pipelineVars, TerragruntFiles, Diags
<1>4. UNCHANGED diags => DiagsShape'
  BY DEF Shape, DiagsShape, Diags
<1> QED  BY <1>1, <1>2, <1>3, <1>4

LEMMA OpenRootShape ==
  ASSUME Shape, OpenRoot, UNCHANGED loaderVars, UNCHANGED pipelineVars
  PROVE  Shape'
<1>1. TreeShape' /\ FilesShape' /\ LoadShape' /\ RunShape' /\ DiagsShape'
  BY StillShape DEF OpenRoot
<1>2. WalkShape'
  BY DEF Shape, TreeShape, WalkShape, OpenRoot, WalkedDirs, Phases
<1> QED  BY <1>1, <1>2 DEF Shape

LEMMA WalkShapes ==
  ASSUME Shape, WalkStep, UNCHANGED loaderVars, UNCHANGED pipelineVars
  PROVE  Shape'
<1>1. TreeShape' /\ FilesShape' /\ LoadShape' /\ RunShape' /\ (UNCHANGED diags => DiagsShape')
  BY StillShape DEF WalkStep
<1>2. PICK x \in unseen : IF x[2] = "dir" THEN EnterDir(x[1]) ELSE VisitEntry(x[1])
  BY DEF WalkStep
<1>3. WalkShape /\ TreeShape /\ DiagsShape
  BY DEF Shape
<1>4. tree' = tree /\ kinds' = kinds /\ todo' = todo /\ phase = "walk"
  BY DEF WalkStep
<1>5. \/ x[2] = "dir" /\ x[1] \in tree.dirs
      \/ x[2] # "dir" /\ x[1] \in tree.entries
  BY <1>3 DEF WalkShape
<1>6. CASE x[2] = "dir"
  <2>1. x[1] \in tree.dirs /\ EnterDir(x[1])
    BY <1>2, <1>5, <1>6
  <2>2. WalkShape'
    BY <1>3, <1>4, <2>1 DEF WalkShape, EnterDir
  <2>3. Put("TF1100", x[1]) \/ UNCHANGED diags
    BY <2>1 DEF EnterDir
  <2>4. DiagsShape'
    BY <1>1, <1>3, <1>4, <2>1, <2>3, PutShape DEF Codes
  <2> QED  BY <1>1, <2>2, <2>4 DEF Shape
<1>7. CASE x[2] # "dir"
  <2>1. x[1] \in tree.entries /\ VisitEntry(x[1])
    BY <1>2, <1>5, <1>7
  <2>2. PICK e \in tree.entries : e = x[1]
    BY <2>1
  <2>3. /\ unseen' = unseen \ {<<e, "entry">>}
        /\ \/ Skip
           \/ \E code \in Codes : SkipWith(code, e)
           \/ TakeFile(e)
    BY <2>1, <2>2 DEF VisitEntry, Codes
  <2>4. DiagsShape'
    <3>1. UNCHANGED diags \/ \E code \in Codes : Put(code, e)
      BY <2>3 DEF Skip, SkipWith, TakeFile
    <3> QED  BY <1>1, <1>3, <1>4, <3>1, PutShape
  <2>5. WalkShape'
    <3>1. tree.dir[e] \in tree.dirs
      BY <1>3 DEF TreeShape
    <3>2. /\ phase' \in Phases
          /\ seenDirs' \subseteq tree.dirs
          /\ groups' \in [tree.dirs -> Seq(tree.entries)]
      <4>1. CASE TakeFile(e)
        <5>1. groups[tree.dir[e]] \in Seq(tree.entries)
          BY <1>3, <3>1 DEF WalkShape
        <5>2. Append(groups[tree.dir[e]], e) \in Seq(tree.entries)
          BY <5>1, AppendProperties
        <5> QED  BY <1>3, <3>1, <4>1, <5>2 DEF WalkShape, TakeFile, Phases
      <4>2. CASE ~TakeFile(e)
        BY <1>3, <2>3, <4>2 DEF WalkShape, Skip, SkipWith
      <4> QED  BY <4>1, <4>2
    <3> QED  BY <1>3, <1>4, <2>3, <3>2 DEF WalkShape
  <2> QED  BY <1>1, <2>4, <2>5 DEF Shape
<1> QED  BY <1>6, <1>7

LEMMA EndWalkShape ==
  ASSUME Shape, EndWalk, UNCHANGED loaderVars, UNCHANGED pipelineVars
  PROVE  Shape'
<1>1. TreeShape' /\ FilesShape' /\ LoadShape' /\ RunShape' /\ DiagsShape'
  BY StillShape DEF EndWalk
<1>2. WalkShape'
  BY DEF Shape, TreeShape, WalkShape, EndWalk, Phases
<1> QED  BY <1>1, <1>2 DEF Shape

LEMMA KindOfRange == \A d, signals : KindOf(d, signals) \in DirKinds
<1> SUFFICES ASSUME NEW d, NEW signals PROVE KindOf(d, signals) \in DirKinds
  OBVIOUS
<1>1. PICK c, m, o : /\ c = IsComponent(d, signals)
                     /\ m = (d \in tree.globbed \/ VariablesOnly(d, signals))
                     /\ o = (FilesOf(d) # {} /\ \A f \in FilesOf(d) : tree.ext[f] \notin HclExts)
  OBVIOUS
<1> QED  BY DEF KindOf, DirKinds

\* The directory to classify next.
LEMMA NextDir ==
  ASSUME Shape, todo # {}
  PROVE  (CHOOSE d \in todo : \A o \in todo : d <= o) \in todo
<1>1. \A x \in todo : x \in Nat
  BY DEF Shape, WalkShape, TreeShape
<1>2. \E x \in todo : \A o \in todo : x <= o
  BY <1>1, LeastNumber
<1> QED  BY <1>2

LEMMA ClassifyShape ==
  ASSUME Shape, ClassifyDir, UNCHANGED loaderVars, UNCHANGED pipelineVars
  PROVE  Shape'
<1>1. TreeShape' /\ FilesShape' /\ LoadShape' /\ RunShape' /\ (UNCHANGED diags => DiagsShape')
  BY StillShape DEF ClassifyDir
<1> DEFINE d == CHOOSE d \in todo : \A o \in todo : d <= o
           kind == KindOf(d, Signals(d))
<1>2. d \in todo
  BY NextDir DEF ClassifyDir
<1>3. /\ todo' = todo \ {d} /\ kinds' = [kinds EXCEPT ![d] = kind]
      /\ Put("TF1120", d) \/ UNCHANGED diags
      /\ UNCHANGED <<tree, phase, unseen, seenDirs, groups>>
  BY DEF ClassifyDir
<1> HIDE DEF d
<1>4. kind \in DirKinds
  BY KindOfRange
<1> HIDE DEF kind
<1>5. d \in tree.dirs
  BY <1>2 DEF Shape, WalkShape
<1>6. DiagsShape'
  BY <1>1, <1>3, <1>5, PutShape DEF Shape, Codes
<1>7. WalkShape'
  BY <1>3, <1>4, <1>5 DEF Shape, WalkShape
<1> QED  BY <1>1, <1>6, <1>7 DEF Shape

\* What a step that moves to another stage keeps of the walk.
LEMMA WalkKept ==
  ASSUME Shape, UNCHANGED <<tree, unseen, seenDirs, groups, todo, kinds>>, phase' \in Phases
  PROVE  WalkShape'
  BY DEF Shape, WalkShape

LEMMA StartLoadingShape ==
  ASSUME Shape, StartLoading, UNCHANGED pipelineVars
  PROVE  Shape'
<1>1. TreeShape' /\ FilesShape' /\ RunShape' /\ DiagsShape'
  BY StillShape DEF StartLoading
<1>2. WalkShape'
  BY WalkKept DEF StartLoading, Phases
<1>3. queue' \in Seq(tree.dirs)
  <2>1. DirsOfKind("module") \in SUBSET tree.dirs /\ DirsOfKind("component") \in SUBSET tree.dirs
    BY DEF DirsOfKind
  <2>2. InPathOrder(DirsOfKind("module")) \in Seq(tree.dirs) /\ InPathOrder(DirsOfKind("component")) \in Seq(tree.dirs)
    BY <2>1, OrderShape DEF Shape
  <2> QED  BY <2>2, JoinElements DEF StartLoading
<1>4. LoadShape'
  BY <1>3 DEF Shape, LoadShape, StartLoading
<1> QED  BY <1>1, <1>2, <1>4 DEF Shape

\* The file a loading step is at.
LEMMA CurrentShape ==
  ASSUME Shape, Loading
  PROVE  Head(queue) \in tree.dirs /\ CurrentFile \in tree.entries
<1>1. Head(queue) \in tree.dirs
  BY TailElements DEF Shape, LoadShape, Loading
<1>2. groups[Head(queue)] \in Seq(tree.entries)
  BY <1>1 DEF Shape, WalkShape
<1>3. position \in 1..Len(groups[Head(queue)])
  BY <1>2 DEF Shape, LoadShape, Loading
<1> QED  BY <1>1, <1>2, <1>3 DEF CurrentFile

LEMMA StatFileShape ==
  ASSUME Shape, StatFile, UNCHANGED pipelineVars
  PROVE  Shape'
<1>1. TreeShape' /\ FilesShape' /\ RunShape' /\ (UNCHANGED diags => DiagsShape')
  BY StillShape DEF StatFile
<1>2. WalkShape'
  <2>1. phase \in Phases
    BY DEF Shape, WalkShape
  <2> QED  BY <2>1, WalkKept DEF StatFile
<1>3. PICK f \in tree.entries : f = CurrentFile
  BY CurrentShape DEF StatFile
<1>4. /\ UNCHANGED <<tree, queue, loaded>>
      /\ \/ PassOver
         \/ UNCHANGED <<position, raws, sources>>
      /\ UNCHANGED diags \/ \E code \in Codes : Put(code, f)
  BY <1>3 DEF StatFile, Codes
<1>5. DiagsShape'
  BY <1>1, <1>4, PutShape DEF Shape
<1>6. LoadShape'
  BY <1>4 DEF Shape, LoadShape, PassOver
<1> QED  BY <1>1, <1>2, <1>5, <1>6 DEF Shape

\* What KeepBlocks adds: a block for each kind declared, and remarks.
LEMMA KeepBlocksShape ==
  ASSUME Shape, Loading, UNCHANGED tree, KeepBlocks(CurrentFile)
  PROVE  /\ raws' \in [tree.dirs -> Seq(tree.entries \X BlockKinds)]
         /\ \A d \in tree.dirs : ToSet(raws[d]) \subseteq ToSet(raws'[d])
         /\ \A kind \in disk[CurrentFile].declares : <<CurrentFile, kind>> \in ToSet(raws'[Head(queue)])
         /\ DiagsShape' /\ ToSet(diags) \subseteq ToSet(diags')
<1>1. PICK f \in tree.entries, h \in tree.dirs : f = CurrentFile /\ h = Head(queue)
  BY CurrentShape
<1>2. PICK S : S = disk[f].declares
  OBVIOUS
<1>3. S \subseteq BlockKinds /\ IsFiniteSet(S)
  <2>1. S \in SUBSET BlockKinds
    BY <1>2 DEF Shape, FilesShape, FileState
  <2>2. IsFiniteSet(BlockKinds)
    <3>1. IsFiniteSet({}) /\ \A T, x : IsFiniteSet(T) => IsFiniteSet(T \cup {x})
      BY FS_EmptySet, FS_AddElement
    <3>2. IsFiniteSet({} \cup {"resource"} \cup {"data"} \cup {"module"} \cup {"provider"} \cup {"variable"}
                      \cup {"locals"} \cup {"output"} \cup {"terraform"} \cup {"backend"} \cup {"include"}
                      \cup {"generate"} \cup {"dependency"} \cup {"inputs"} \cup {"unknown"})
      BY <3>1, Zenon
    <3>3. BlockKinds
            = {} \cup {"resource"} \cup {"data"} \cup {"module"} \cup {"provider"} \cup {"variable"}
                      \cup {"locals"} \cup {"output"} \cup {"terraform"} \cup {"backend"} \cup {"include"}
                      \cup {"generate"} \cup {"dependency"} \cup {"inputs"} \cup {"unknown"}
      BY DEF BlockKinds
    <3> QED  BY <3>2, <3>3
  <2> QED  BY <2>1, <2>2, FS_Subset
<1>4. PICK listed : listed = SetToSeq(S)
  OBVIOUS
<1>5. listed \in Seq(S) /\ ToSet(listed) = S
  BY <1>3, <1>4, ListOfSet
<1>6. PICK blocks : blocks = [k \in DOMAIN listed |-> <<f, listed[k]>>]
  OBVIOUS
<1>7. blocks \in Seq(tree.entries \X BlockKinds) /\ \A kind \in S : <<f, kind>> \in ToSet(blocks)
  <2>1. DOMAIN listed = 1..Len(listed) /\ Len(listed) \in Nat /\ \A k \in DOMAIN listed : listed[k] \in S
    BY <1>5
  <2>2. blocks \in [1..Len(listed) -> tree.entries \X BlockKinds]
    BY <1>3, <1>6, <2>1
  <2>3. blocks \in Seq(tree.entries \X BlockKinds) /\ DOMAIN blocks = DOMAIN listed
    BY <2>1, <2>2
  <2>4. ASSUME NEW kind \in S  PROVE <<f, kind>> \in ToSet(blocks)
    <3>1. PICK k \in DOMAIN listed : listed[k] = kind
      BY <1>5 DEF ToSet
    <3>2. k \in DOMAIN blocks /\ blocks[k] = <<f, kind>>
      BY <1>6, <3>1
    <3> QED  BY <3>2 DEF ToSet
  <2> QED  BY <2>3, <2>4
<1>8. raws' = [raws EXCEPT ![h] = @ \o blocks]
  BY <1>1, <1>2, <1>4, <1>6 DEF KeepBlocks
<1>9. raws \in [tree.dirs -> Seq(tree.entries \X BlockKinds)] /\ raws[h] \in Seq(tree.entries \X BlockKinds)
  BY DEF Shape, LoadShape
<1>10. PICK both : both = raws[h] \o blocks
  OBVIOUS
<1>11. both \in Seq(tree.entries \X BlockKinds) /\ ToSet(both) = ToSet(raws[h]) \cup ToSet(blocks)
  BY <1>7, <1>9, <1>10, JoinElements
<1>12. /\ raws' \in [tree.dirs -> Seq(tree.entries \X BlockKinds)]
       /\ \A d \in tree.dirs : raws'[d] = IF d = h THEN both ELSE raws[d]
  BY <1>8, <1>9, <1>10, <1>11
<1>13. DiagsShape' /\ ToSet(diags) \subseteq ToSet(diags')
  <2>1. PICK odd : odd = {k \in S : ~SupportsKind(tree.ext[f], k)}
    OBVIOUS
  <2>2. PICK n \in Nat : n = Cardinality(odd)
    <3>1. odd \in SUBSET S
      BY <2>1
    <3> QED  BY <1>3, <3>1, FS_Subset, FS_CardinalityType
  <2>3. PICK D : D = Diags
    OBVIOUS
  <2>4. PICK more : more = [k \in 1..n |-> <<"TF1205", f>>]
    OBVIOUS
  <2>5. diags' = diags \o more
    BY <1>1, <1>2, <2>1, <2>2, <2>4 DEF KeepBlocks
  <2>6. diags \in Seq(D) /\ Diags' = D /\ <<"TF1205", f>> \in D
    BY <2>3 DEF Shape, DiagsShape, Diags, Codes
  <2>7. more \in Seq(D)
    <3>1. more \in [1..n -> D]
      BY <2>4, <2>6
    <3> QED  BY <3>1
  <2>8. diags' \in Seq(D) /\ ToSet(diags') = ToSet(diags) \cup ToSet(more)
    BY <2>5, <2>6, <2>7, JoinElements
  <2> QED  BY <2>6, <2>8 DEF DiagsShape
<1> QED  BY <1>1, <1>2, <1>7, <1>11, <1>12, <1>13

\* What is reported stays reported.
LEMMA PutGrows ==
  ASSUME DiagsShape, NEW code \in Codes, NEW x \in tree.entries \cup tree.dirs, Put(code, x)
  PROVE  ToSet(diags') = ToSet(diags) \cup {<<code, x>>}
<1>1. PICK D : D = Diags
  OBVIOUS
<1>2. <<code, x>> \in D /\ diags \in Seq(D)
  BY <1>1 DEF Diags, DiagsShape
<1> QED  BY <1>2, AppendElements DEF Put

\* What comes of the file that was read.
LEMMA ReadEffect ==
  ASSUME Shape, ReadFile
  PROVE  /\ \A d \in tree.dirs : ToSet(raws[d]) \subseteq ToSet(raws'[d])
         /\ raws' \in [tree.dirs -> Seq(tree.entries \X BlockKinds)]
         /\ sources \subseteq sources' /\ sources' \subseteq tree.entries
         /\ DiagsShape' /\ ToSet(diags) \subseteq ToSet(diags')
         /\ phase' = phase
         /\ \/ \E code \in Codes : <<code, CurrentFile>> \in ToSet(diags')
            \/ /\ CurrentFile \in sources'
               /\ \A kind \in disk[CurrentFile].declares : <<CurrentFile, kind>> \in ToSet(raws'[Head(queue)])
<1>1. PICK f \in tree.entries, h \in tree.dirs : f = CurrentFile /\ h = Head(queue)
  BY CurrentShape DEF ReadFile
<1>2. /\ Loading /\ tree' = tree
      /\ \/ \E code \in Codes : Put(code, f) /\ UNCHANGED <<phase, raws, sources>>
         \/ /\ UNCHANGED phase /\ sources' = sources \cup {f}
            /\ KeepBlocks(f) \/ (\E code \in Codes : Put(code, f) /\ UNCHANGED raws)
  BY <1>1 DEF ReadFile, ReadError, Codes
<1>3. sources \subseteq tree.entries /\ raws \in [tree.dirs -> Seq(tree.entries \X BlockKinds)] /\ DiagsShape
  BY DEF Shape, LoadShape
<1>4. ASSUME NEW code \in Codes, Put(code, f)
      PROVE  DiagsShape' /\ ToSet(diags) \subseteq ToSet(diags') /\ <<code, f>> \in ToSet(diags')
  <2>1. DiagsShape'
    BY <1>2, <1>3, <1>4, PutShape
  <2>2. ToSet(diags') = ToSet(diags) \cup {<<code, f>>}
    BY <1>3, <1>4, PutGrows
  <2> QED  BY <2>1, <2>2
<1>5. CASE \E code \in Codes : Put(code, f) /\ UNCHANGED <<phase, raws, sources>>
  BY <1>1, <1>3, <1>4, <1>5
<1>6. CASE /\ UNCHANGED phase /\ sources' = sources \cup {f}
           /\ \E code \in Codes : Put(code, f) /\ UNCHANGED raws
  BY <1>1, <1>3, <1>4, <1>6
<1>7. CASE UNCHANGED phase /\ sources' = sources \cup {f} /\ KeepBlocks(f)
  <2>1. /\ raws' \in [tree.dirs -> Seq(tree.entries \X BlockKinds)]
        /\ \A d \in tree.dirs : ToSet(raws[d]) \subseteq ToSet(raws'[d])
        /\ \A kind \in disk[CurrentFile].declares : <<CurrentFile, kind>> \in ToSet(raws'[Head(queue)])
        /\ DiagsShape' /\ ToSet(diags) \subseteq ToSet(diags')
    BY <1>1, <1>2, <1>7, KeepBlocksShape
  <2> QED  BY <1>1, <1>3, <1>7, <2>1
<1> QED  BY <1>2, <1>5, <1>6, <1>7

LEMMA ReadFileShape ==
  ASSUME Shape, ReadFile, UNCHANGED pipelineVars
  PROVE  Shape'
<1>1. phase' = phase
  BY ReadEffect
<1>2. TreeShape' /\ FilesShape' /\ RunShape'
  BY <1>1, StillShape DEF ReadFile
<1>3. WalkShape'
  <2>1. phase \in Phases
    BY DEF Shape, WalkShape
  <2> QED  BY <1>1, <2>1, WalkKept DEF ReadFile
<1>4. DiagsShape' /\ sources' \subseteq tree.entries /\ raws' \in [tree.dirs -> Seq(tree.entries \X BlockKinds)]
  BY ReadEffect
<1>5. LoadShape'
  BY <1>4 DEF Shape, LoadShape, ReadFile
<1> QED  BY <1>2, <1>3, <1>4, <1>5 DEF Shape

LEMMA EndDirShape ==
  ASSUME Shape, EndDir, UNCHANGED pipelineVars
  PROVE  Shape'
<1>1. TreeShape' /\ FilesShape' /\ RunShape' /\ DiagsShape'
  BY StillShape DEF EndDir, discoveryVars
<1>2. WalkShape'
  BY WalkKept DEF EndDir, discoveryVars, Shape, WalkShape
<1>3. /\ queue \in Seq(tree.dirs) /\ loaded \in Seq(tree.dirs) /\ queue # << >>
      /\ Head(queue) \in tree.dirs /\ Tail(queue) \in Seq(tree.dirs)
  BY TailElements DEF EndDir, Shape, LoadShape
<1>4. Append(loaded, Head(queue)) \in Seq(tree.dirs)
  BY <1>3, AppendProperties
<1>5. LoadShape'
  BY <1>3, <1>4 DEF Shape, LoadShape, EndDir, discoveryVars
<1> QED  BY <1>1, <1>2, <1>5 DEF Shape

LEMMA StartTerragruntShape ==
  ASSUME Shape, StartTerragrunt
  PROVE  Shape'
<1>1. TreeShape' /\ FilesShape' /\ LoadShape' /\ DiagsShape'
  BY StillShape DEF StartTerragrunt
<1>2. WalkShape'
  BY WalkKept DEF StartTerragrunt, Phases
<1>3. Components \in Seq(tree.dirs)
  BY OfKindShape DEF Shape, LoadShape, Components
<1>4. RunShape'
  BY <1>3 DEF Shape, RunShape, StartTerragrunt, Diags
<1> QED  BY <1>1, <1>2, <1>4 DEF Shape

LEMMA TestTerragruntShape ==
  ASSUME Shape, TestTerragrunt
  PROVE  Shape'
<1>1. TreeShape' /\ FilesShape' /\ LoadShape' /\ DiagsShape'
  BY StillShape DEF TestTerragrunt, discoveryVars
<1>2. WalkShape'
  BY WalkKept DEF TestTerragrunt, discoveryVars, Shape, WalkShape
<1>3. Tail(pending) \in Seq(tree.dirs)
  BY TailElements DEF TestTerragrunt, Shape, RunShape
<1>4. IsTerragruntComponent(Head(pending)) => TerragruntFiles(Head(pending)) # {}
  BY DEF IsTerragruntComponent
<1>5. RunShape'
  <2>1. /\ UNCHANGED <<tree, phase, evaluated, registry, found>> /\ phase = "terragrunt" /\ pending # << >>
        /\ \/ reading' = TRUE /\ pending' = pending /\ TerragruntFiles(Head(pending)) # {}
           \/ reading' = FALSE /\ pending' = Tail(pending)
    BY <1>4 DEF TestTerragrunt, discoveryVars
  <2> QED  BY <1>3, <2>1 DEF Shape, RunShape, Diags, TerragruntFiles
<1> QED  BY <1>1, <1>2, <1>5 DEF Shape

LEMMA ResolveTerragruntShape ==
  ASSUME Shape, ResolveTerragrunt
  PROVE  Shape' /\ ToSet(diags) \subseteq ToSet(diags') /\ loaded' = loaded
<1> DEFINE f == CHOOSE e \in TerragruntFiles(Head(pending)) : TRUE
<1>1. f \in tree.entries
  <2>1. TerragruntFiles(Head(pending)) # {}
    BY DEF Shape, RunShape, ResolveTerragrunt
  <2>2. f \in TerragruntFiles(Head(pending))
    BY <2>1
  <2> QED  BY <2>2 DEF TerragruntFiles
<1>2. /\ phase = "terragrunt" /\ reading /\ reading' = FALSE /\ pending' = Tail(pending)
      /\ UNCHANGED <<tree, disk, phase, unseen, seenDirs, groups, todo, kinds>>
      /\ UNCHANGED <<queue, position, raws, sources, evaluated, registry, found>>
  BY DEF ResolveTerragrunt
<1>3. (UNCHANGED diags \/ \E code \in Codes : Put(code, f)) /\ loaded' = loaded
  BY DEF ResolveTerragrunt, Unreadable, Codes
<1> HIDE DEF f
<1>4. TreeShape' /\ FilesShape' /\ (UNCHANGED diags => DiagsShape')
  BY <1>2, StillShape
<1>5. WalkShape'
  BY <1>2, WalkKept DEF Shape, WalkShape
<1>6. LoadShape'
  BY <1>2, <1>3 DEF Shape, LoadShape
<1>7. DiagsShape'
  BY <1>1, <1>2, <1>3, <1>4, PutShape DEF Shape
<1>8. ToSet(diags) \subseteq ToSet(diags')
  BY <1>1, <1>3, PutGrows DEF Shape
<1>9. Tail(pending) \in Seq(tree.dirs)
  BY <1>2, TailElements DEF Shape, RunShape
<1>10. RunShape'
  BY <1>2, <1>9 DEF Shape, RunShape, Diags
<1> QED  BY <1>3, <1>4, <1>5, <1>6, <1>7, <1>8, <1>10 DEF Shape

LEMMA StartEvaluationShape ==
  ASSUME Shape, StartEvaluation
  PROVE  Shape'
<1>1. TreeShape' /\ FilesShape' /\ LoadShape' /\ DiagsShape'
  BY StillShape DEF StartEvaluation
<1>2. WalkShape'
  BY WalkKept DEF StartEvaluation, Phases
<1>3. Components \in Seq(tree.dirs) /\ Modules \in Seq(tree.dirs)
  BY OfKindShape DEF Shape, LoadShape, Components, Modules
<1>4. pending' \in Seq(tree.dirs)
  BY <1>3, JoinElements DEF StartEvaluation
<1>5. ~reading
  BY DEF Shape, RunShape, StartEvaluation
<1>6. RunShape'
  BY <1>4, <1>5 DEF Shape, RunShape, StartEvaluation, Diags
<1> QED  BY <1>1, <1>2, <1>6 DEF Shape

LEMMA EvaluateNextShape ==
  ASSUME Shape, EvaluateNext
  PROVE  Shape' /\ ToSet(diags) \subseteq ToSet(diags')
<1>1. TreeShape' /\ FilesShape' /\ LoadShape'
  BY StillShape DEF EvaluateNext
<1>2. WalkShape'
  BY WalkKept DEF EvaluateNext, Shape, WalkShape
<1>3. PICK d \in tree.dirs : d = Head(pending)
  BY TailElements DEF EvaluateNext, Shape, RunShape
<1>4. PICK D, report : D = Diags /\ report = CycleReport(d)
  OBVIOUS
<1>5. report \in Seq(D)
  <2>1. <<"TF1401", d>> \in D
    BY <1>4 DEF Diags, Codes
  <2>2. << >> \in Seq(D) /\ <<<<"TF1401", d>>>> \in Seq(D)
    BY <2>1
  <2> QED  BY <1>4, <2>2 DEF CycleReport
<1>6. diags \in Seq(D) /\ found \in [tree.dirs -> Seq(D)] /\ Diags' = D
  BY <1>4 DEF Shape, DiagsShape, RunShape, Diags, EvaluateNext
<1>7. diags' \in Seq(D) /\ ToSet(diags') = ToSet(diags) \cup ToSet(report)
  BY <1>3, <1>4, <1>5, <1>6, JoinElements DEF EvaluateNext
<1>8. found' \in [tree.dirs -> Seq(D)]
  BY <1>3, <1>4, <1>5, <1>6 DEF EvaluateNext
<1>9. /\ pending \in Seq(tree.dirs) /\ evaluated \in Seq(tree.dirs) /\ pending # << >>
      /\ registry \subseteq tree.dirs /\ ~reading
  BY DEF Shape, RunShape, EvaluateNext
<1>10. Tail(pending) \in Seq(tree.dirs) /\ Append(evaluated, d) \in Seq(tree.dirs)
  BY <1>3, <1>9, TailElements, AppendProperties
<1>11. RunShape'
  <2>1. /\ pending' = Tail(pending) /\ evaluated' = Append(evaluated, d) /\ UNCHANGED <<tree, reading>>
        /\ registry' = registry \/ registry' = registry \cup {d}
    BY <1>3 DEF EvaluateNext
  <2> QED  BY <1>3, <1>6, <1>8, <1>9, <1>10, <2>1 DEF RunShape
<1>12. DiagsShape'
  BY <1>6, <1>7 DEF DiagsShape
<1> QED  BY <1>1, <1>2, <1>7, <1>11, <1>12 DEF Shape

LEMMA EndingShape ==
  ASSUME Shape, BuildWorkspace \/ ResolveProviders
  PROVE  Shape'
<1>1. /\ UNCHANGED <<tree, disk, unseen, seenDirs, groups, diags, todo, kinds, pending, evaluated, registry,
                     found, reading>>
      /\ UNCHANGED loaderVars /\ phase # "terragrunt" /\ phase' \in Phases
  BY DEF BuildWorkspace, ResolveProviders, Phases
<1>2. TreeShape' /\ FilesShape' /\ LoadShape' /\ DiagsShape'
  BY <1>1, StillShape
<1>3. WalkShape'
  BY <1>1, WalkKept
<1>4. RunShape'
  BY <1>1 DEF Shape, RunShape, Diags
<1> QED  BY <1>2, <1>3, <1>4 DEF Shape

\* The steps, one by one.
LEMMA Steps ==
  ASSUME [Next]_vars
  PROVE  \/ OpenRoot /\ UNCHANGED loaderVars /\ UNCHANGED pipelineVars
         \/ WalkStep /\ UNCHANGED loaderVars /\ UNCHANGED pipelineVars
         \/ EndWalk /\ UNCHANGED loaderVars /\ UNCHANGED pipelineVars
         \/ ClassifyDir /\ UNCHANGED loaderVars /\ UNCHANGED pipelineVars
         \/ StartLoading /\ UNCHANGED pipelineVars
         \/ StatFile /\ UNCHANGED pipelineVars
         \/ ReadFile /\ UNCHANGED pipelineVars
         \/ EndDir /\ UNCHANGED pipelineVars
         \/ StartTerragrunt \/ TestTerragrunt \/ ResolveTerragrunt
         \/ StartEvaluation \/ EvaluateNext \/ BuildWorkspace \/ ResolveProviders
         \/ UserStep
         \/ UNCHANGED vars
  BY DEF Next, Step, DiscoveryStep, LoaderStep, Terminated

LEMMA ShapeStep == Shape /\ [Next]_vars => Shape'
<1> SUFFICES ASSUME Shape, [Next]_vars PROVE Shape'
  OBVIOUS
<1>1. CASE UNCHANGED vars
  BY <1>1 DEF vars, discoveryVars, loaderVars, pipelineVars, Shape, TreeShape, FilesShape, WalkShape,
    DiagsShape, LoadShape, RunShape, Diags, TerragruntFiles
<1> QED
  BY <1>1, Steps, OpenRootShape, WalkShapes, EndWalkShape, ClassifyShape, StartLoadingShape, StatFileShape,
    ReadFileShape, EndDirShape, StartTerragruntShape, TestTerragruntShape, ResolveTerragruntShape,
    StartEvaluationShape, EvaluateNextShape, EndingShape, ChangeFileShape

-----------------------------------------------------------------------------
(* When a run fails.                                                        *)

(* Whatever happens to the files of a workspace while it is parsed, the    *)
(* run fails only when there is no root, when it has more source files     *)
(* than the limit, or when the caller asked for strict providers: none of  *)
(* the fallible calls of the stages of DefaultPipeline::run ends it.       *)
THEOREM FilesNeverFailTheRun == Spec => []OnlyLimitsFail
<1>1. Init => OnlyLimitsFail
  BY DEF Init, DiscoveryInit, OnlyLimitsFail
<1>2. OnlyLimitsFail /\ [Next]_vars => OnlyLimitsFail'
  <2> SUFFICES ASSUME OnlyLimitsFail, [Next]_vars PROVE OnlyLimitsFail'
    OBVIOUS
  <2>1. CASE WalkStep
    <3>1. PICK x : IF x[2] = "dir" THEN EnterDir(x[1]) ELSE VisitEntry(x[1])
      BY <2>1 DEF WalkStep
    <3>2. \/ phase' = phase
          \/ totalFiles' > MaxTotalFiles
      BY <3>1 DEF EnterDir, VisitEntry, Skip, SkipWith, TakeFile
    <3> QED  BY <2>1, <3>2 DEF WalkStep, OnlyLimitsFail
  <2>2. CASE OpenRoot
    BY <2>2 DEF OpenRoot, OnlyLimitsFail
  <2>3. CASE ResolveProviders
    BY <2>3 DEF ResolveProviders, OnlyLimitsFail
  <2>4. CASE ReadFile
    <3>1. phase' = phase /\ phase = "load"
      BY <2>4 DEF ReadFile, ReadError, Loading
    <3> QED  BY <3>1 DEF OnlyLimitsFail
  <2>5. CASE UNCHANGED vars
    BY <2>5 DEF vars, discoveryVars, OnlyLimitsFail
  <2>6. CASE UserStep \/ TestTerragrunt \/ ResolveTerragrunt
    BY <2>6 DEF UserStep, ChangeFile, TestTerragrunt, ResolveTerragrunt, discoveryVars, OnlyLimitsFail
  <2>7. CASE EndWalk \/ ClassifyDir \/ StartLoading \/ StatFile \/ EndDir
    BY <2>7 DEF EndWalk, ClassifyDir, StartLoading, StatFile, EndDir, discoveryVars, OnlyLimitsFail
  <2>8. CASE StartTerragrunt \/ StartEvaluation \/ EvaluateNext \/ BuildWorkspace
    BY <2>8 DEF StartTerragrunt, StartEvaluation, EvaluateNext, BuildWorkspace, OnlyLimitsFail
  <2> QED  BY <2>1, <2>2, <2>3, <2>4, <2>5, <2>6, <2>7, <2>8, Steps
<1> QED  BY <1>1, <1>2, PTL DEF Spec

-----------------------------------------------------------------------------
(* Every file is accounted for.                                             *)

\* The files the property is about.
SourceFiles == {e \in tree.entries : Visible(e) /\ tree.ext[e] \in HclExts}

InDiags(f) == \E code \in Codes : <<code, f>> \in ToSet(diags)

AllUsed(f) ==
  /\ f \in sources
  /\ \A kind \in disk[f].declares : \E d \in tree.dirs : <<f, kind>> \in ToSet(raws[d])

Handled(f) == InDiags(f) \/ AllUsed(f)

\* The loader has still to come to a file.
Ahead(f) ==
  /\ queue # << >>
  /\ \/ tree.dir[f] \in ToSet(Tail(queue))
     \/ /\ tree.dir[f] = Head(queue)
        /\ \E k \in DOMAIN groups[Head(queue)] : k >= position /\ groups[Head(queue)][k] = f

Loaders == {"load", "terragrunt", "evaluate", "providers", "done"}
Wanted(f) == f \in FilesOf(tree.dir[f]) /\ kinds[tree.dir[f]] \in {"component", "module"}

WalkDone == phase \notin {"root", "walk", "failed"} => unseen = {}

FilesFound ==
  phase \notin {"root", "failed"} =>
    \A f \in SourceFiles : \/ <<f, "entry">> \in unseen \/ f \in FilesOf(tree.dir[f])
                           \/ InDiags(f) \/ ~disk[f].there

FilesLoaded ==
  phase \in Loaders => \A f \in SourceFiles : Wanted(f) => Handled(f) \/ Ahead(f)

QueueDone ==
  /\ phase \in Loaders \ {"load"} => queue = << >>
  /\ phase \notin Loaders \cup {"failed"} => position = 1

\* Everything reported in the run is in the workspace's diagnostics.
ReportKept ==
  phase \in {"providers", "done"} =>
    \A f \in tree.entries : InDiags(f) => Reported(f)

FilesInv == WalkDone /\ FilesFound /\ FilesLoaded /\ QueueDone /\ ReportKept
\* What a step does to the reports and the blocks, when it takes none back.
Growing ==
  /\ tree' = tree
  /\ ToSet(diags) \subseteq ToSet(diags') /\ sources \subseteq sources'
  /\ \A d \in tree.dirs : ToSet(raws[d]) \subseteq ToSet(raws'[d])
  /\ OnlyLost

LEMMA HandledKept ==
  ASSUME Growing, NEW f \in tree.entries
  PROVE  (InDiags(f) => InDiags(f)') /\ (Handled(f) => Handled(f)')
<1>1. InDiags(f) => InDiags(f)'
  BY DEF Growing, OnlyLost, InDiags
<1>2. AllUsed(f) => AllUsed(f)'
  BY DEF Growing, OnlyLost, AllUsed
<1> QED  BY <1>1, <1>2 DEF Handled

\* What is not found in a later stage is not found any more.
LEMMA FoundKept ==
  ASSUME Growing, FilesFound, UNCHANGED <<unseen, groups>>, phase \notin {"root", "failed"}
  PROVE  FilesFound'
<1> SUFFICES ASSUME NEW f \in SourceFiles
             PROVE  \/ <<f, "entry">> \in unseen' \/ (f \in FilesOf(tree.dir[f]))'
                    \/ InDiags(f)' \/ ~disk'[f].there
  <2>1. SourceFiles' = SourceFiles
    BY DEF Growing, SourceFiles, Visible, Offered, Listed, TypeOf
  <2> QED  BY <2>1 DEF FilesFound
<1>1. f \in tree.entries
  BY DEF SourceFiles
<1>2. InDiags(f) => InDiags(f)'
  BY <1>1, HandledKept
<1>3. (f \in FilesOf(tree.dir[f]))' <=> f \in FilesOf(tree.dir[f])
  BY DEF Growing, FilesOf
<1> QED  BY <1>1, <1>2, <1>3 DEF Growing, OnlyLost, FilesFound, SourceFiles

\* A step of a stage that leaves the loader alone.
LEMMA LoadedKept ==
  ASSUME Growing, FilesLoaded, UNCHANGED <<groups, kinds, queue, position>>, phase \in Loaders
  PROVE  FilesLoaded'
<1> SUFFICES ASSUME NEW f \in SourceFiles, Wanted(f)
             PROVE  Handled(f)' \/ Ahead(f)'
  <2>1. SourceFiles' = SourceFiles
    BY DEF Growing, SourceFiles, Visible, Offered, Listed, TypeOf
  <2>2. \A f : Wanted(f)' <=> Wanted(f)
    BY DEF Growing, Wanted, FilesOf
  <2> QED  BY <2>1, <2>2 DEF FilesLoaded
<1>1. Handled(f) \/ Ahead(f)
  BY DEF FilesLoaded
<1>2. Handled(f) => Handled(f)'
  BY HandledKept DEF SourceFiles
<1>3. Ahead(f) => Ahead(f)'
  BY DEF Growing, Ahead
<1> QED  BY <1>1, <1>2, <1>3

LEMMA ChangeFileFiles == Shape /\ FilesInv /\ UserStep => FilesInv'
<1> SUFFICES ASSUME Shape, FilesInv, UserStep PROVE FilesInv'
  OBVIOUS
<1>1. /\ UNCHANGED <<tree, phase, unseen, groups, diags, kinds, queue, position, raws, sources, workspace>>
      /\ phase \notin {"root", "done", "failed"}
  BY DEF UserStep, ChangeFile, loaderVars, pipelineVars
<1>2. Growing
  <2>1. OnlyLost
    BY ChangeEffect DEF Shape
  <2> QED  BY <1>1, <2>1 DEF Growing
<1>3. FilesFound'
  BY <1>1, <1>2, FoundKept DEF FilesInv
<1>4. FilesLoaded'
  <2>1. CASE phase \in Loaders
    BY <1>1, <1>2, <2>1, LoadedKept DEF FilesInv
  <2>2. CASE phase \notin Loaders
    BY <1>1, <2>2 DEF FilesLoaded
  <2> QED  BY <2>1, <2>2
<1>5. ReportKept' /\ WalkDone' /\ QueueDone'
  BY <1>1 DEF FilesInv, ReportKept, WalkDone, QueueDone, InDiags, Reported
<1> QED  BY <1>3, <1>4, <1>5 DEF FilesInv

LEMMA OpenRootFiles ==
  ASSUME Shape, FilesInv, OpenRoot, UNCHANGED loaderVars
  PROVE  FilesInv'
<1>1. FilesFound'
  <2> SUFFICES ASSUME phase' = "walk", NEW f \in SourceFiles' PROVE <<f, "entry">> \in unseen'
    BY DEF OpenRoot, FilesFound
  <2>1. f \in tree.entries /\ Listed(tree.dir[f])
    BY DEF OpenRoot, SourceFiles, Visible, Offered, Listed
  <2> QED  BY <2>1 DEF OpenRoot
<1>2. WalkDone' /\ FilesLoaded' /\ QueueDone' /\ ReportKept'
  BY DEF OpenRoot, WalkDone, FilesLoaded, QueueDone, ReportKept, Loaders, loaderVars, FilesInv
<1> QED  BY <1>1, <1>2 DEF FilesInv

LEMMA VisitKeepsFound ==
  ASSUME Shape, FilesFound, phase = "walk", UNCHANGED <<tree, disk>>, NEW e \in tree.entries, VisitEntry(e)
  PROVE  FilesFound'
<1> SUFFICES ASSUME phase' # "failed", NEW f \in SourceFiles
             PROVE  \/ <<f, "entry">> \in unseen' \/ (f \in FilesOf(tree.dir[f]))'
                    \/ InDiags(f)' \/ ~disk'[f].there
  <2>1. SourceFiles' = SourceFiles
    BY DEF SourceFiles, Visible, Offered, Listed, TypeOf
  <2> QED  BY <2>1 DEF FilesFound
<1>1. /\ f \in tree.entries /\ tree.dir[f] \in tree.dirs /\ ~tree.excluded[f] /\ TypeOf(f) = "file"
      /\ tree.ext[f] \in HclExts
  BY DEF SourceFiles, Visible, Offered, Shape, TreeShape
<1>2. /\ unseen' = unseen \ {<<e, "entry">>}
      /\ \/ Skip
         \/ \E code \in Codes : SkipWith(code, e)
         \/ TakeFile(e)
  BY DEF VisitEntry, Codes
<1>3. ToSet(diags) \subseteq ToSet(diags') /\ ((\E code \in Codes : SkipWith(code, e)) => InDiags(e)')
  <2>1. UNCHANGED diags \/ \E code \in Codes : Put(code, e)
    BY <1>2 DEF Skip, SkipWith, TakeFile
  <2>2. ASSUME NEW code \in Codes, Put(code, e)
        PROVE  ToSet(diags') = ToSet(diags) \cup {<<code, e>>}
    BY <2>2, PutGrows DEF Shape
  <2> QED  BY <2>1, <2>2 DEF SkipWith, InDiags
<1>4. ASSUME TakeFile(e)
      PROVE  /\ FilesOf(tree.dir[f]) \subseteq FilesOf(tree.dir[f])'
             /\ (e \in FilesOf(tree.dir[e]))'
  <2>1. PICK D \in tree.dirs, E \in tree.dirs : D = tree.dir[f] /\ E = tree.dir[e]
    BY <1>1 DEF Shape, TreeShape
  <2>2. groups \in [tree.dirs -> Seq(tree.entries)] /\ groups' = [groups EXCEPT ![E] = Append(@, e)]
    BY <1>4, <2>1 DEF Shape, WalkShape, TakeFile
  <2>3. PICK g : g = Append(groups[E], e)
    OBVIOUS
  <2>4. groups[E] \in Seq(tree.entries)
    BY <2>2
  <2>5. /\ Len(g) = Len(groups[E]) + 1 /\ Len(groups[E]) \in Nat /\ g[Len(groups[E]) + 1] = e
        /\ \A k \in 1..Len(groups[E]) : g[k] = groups[E][k]
    BY <2>3, <2>4, AppendProperties
  <2>6. groups'[E] = g /\ (D # E => groups'[D] = groups[D])
    BY <2>2, <2>3
  <2>7. e \in {groups'[E][k] : k \in 1..Len(groups'[E])}
    BY <2>5, <2>6
  <2>8. {groups[D][k] : k \in 1..Len(groups[D])} \subseteq {groups'[D][k] : k \in 1..Len(groups'[D])}
    <3>1. CASE D = E
      <4>1. \A k \in 1..Len(groups[E]) : k \in 1..Len(g) /\ g[k] = groups[E][k]
        BY <2>5
      <4> QED  BY <2>6, <3>1, <4>1
    <3>2. CASE D # E
      BY <2>6, <3>2
    <3> QED  BY <3>1, <3>2
  <2> QED  BY <2>1, <2>7, <2>8 DEF FilesOf
<1>5. CASE f = e
  <2>1. ~disk[e].there \/ TakeFile(e) \/ \E code \in Codes : SkipWith(code, e)
    BY <1>1, <1>5 DEF VisitEntry, Countable, HclExts, Codes
  <2> QED  BY <1>3, <1>4, <1>5, <2>1
<1>6. CASE f # e
  <2>1. <<f, "entry">> \in unseen \/ f \in FilesOf(tree.dir[f]) \/ InDiags(f) \/ ~disk[f].there
    BY DEF FilesFound
  <2>2. <<f, "entry">> \in unseen => <<f, "entry">> \in unseen'
    BY <1>2, <1>6
  <2>3. InDiags(f) => InDiags(f)'
    BY <1>3 DEF InDiags
  <2>4. f \in FilesOf(tree.dir[f]) => (f \in FilesOf(tree.dir[f]))'
    <3>1. CASE TakeFile(e)
      BY <1>4, <3>1
    <3>2. CASE ~TakeFile(e)
      BY <1>2, <3>2 DEF Skip, SkipWith, FilesOf
    <3> QED  BY <3>1, <3>2
  <2> QED  BY <2>1, <2>2, <2>3, <2>4
<1> QED  BY <1>5, <1>6

LEMMA WalkFiles ==
  ASSUME Shape, FilesInv, WalkStep, UNCHANGED loaderVars
  PROVE  FilesInv'
<1>1. PICK x \in unseen : IF x[2] = "dir" THEN EnterDir(x[1]) ELSE VisitEntry(x[1])
  BY DEF WalkStep
<1>2. /\ UNCHANGED <<tree, disk, kinds>> /\ phase = "walk"
      /\ phase' \in {"walk", "failed"}
  BY <1>1 DEF WalkStep, EnterDir, VisitEntry, Skip, SkipWith, TakeFile
<1>3. \/ x[2] = "dir" /\ x[1] \in tree.dirs
      \/ x[2] # "dir" /\ x[1] \in tree.entries
  BY DEF Shape, WalkShape
<1>4. FilesFound'
  <2>1. CASE x[2] = "dir"
    <3>1. PICK d \in tree.dirs : d = x[1] /\ EnterDir(d)
      BY <1>1, <1>3, <2>1
    <3>2. UNCHANGED groups /\ ToSet(diags) \subseteq ToSet(diags')
      <4>1. UNCHANGED diags \/ Put("TF1100", d)
        BY <3>1 DEF EnterDir
      <4> QED  BY <3>1, <4>1, PutGrows DEF EnterDir, Shape, Codes
    <3> SUFFICES ASSUME NEW f \in SourceFiles
                 PROVE  \/ <<f, "entry">> \in unseen' \/ (f \in FilesOf(tree.dir[f]))'
                        \/ InDiags(f)' \/ ~disk'[f].there
      <4>1. SourceFiles' = SourceFiles
        BY <1>2 DEF SourceFiles, Visible, Offered, Listed, TypeOf
      <4> QED  BY <4>1 DEF FilesFound
    <3>3. <<f, "entry">> \in unseen \/ f \in FilesOf(tree.dir[f]) \/ InDiags(f) \/ ~disk[f].there
      BY <1>2 DEF FilesInv, FilesFound
    <3>4. <<f, "entry">> \in unseen => <<f, "entry">> \in unseen'
      BY <3>1 DEF EnterDir, SourceFiles, Visible, Offered
    <3>5. InDiags(f) => InDiags(f)'
      BY <3>2 DEF InDiags
    <3> QED  BY <1>2, <3>2, <3>3, <3>4, <3>5 DEF FilesOf
  <2>2. CASE x[2] # "dir"
    BY <1>1, <1>2, <1>3, <2>2, VisitKeepsFound DEF FilesInv
  <2> QED  BY <2>1, <2>2
<1>5. WalkDone' /\ FilesLoaded' /\ QueueDone' /\ ReportKept'
  BY <1>2 DEF WalkDone, FilesLoaded, QueueDone, ReportKept, Loaders, loaderVars, FilesInv
<1> QED  BY <1>4, <1>5 DEF FilesInv

LEMMA EndWalkFiles ==
  ASSUME Shape, FilesInv, EndWalk, UNCHANGED loaderVars
  PROVE  FilesInv'
<1>1. Growing
  BY DEF EndWalk, Growing, OnlyLost, loaderVars
<1>2. FilesFound'
  BY <1>1, FoundKept DEF EndWalk, FilesInv
<1>3. WalkDone' /\ FilesLoaded' /\ QueueDone' /\ ReportKept'
  BY DEF EndWalk, WalkDone, FilesLoaded, QueueDone, ReportKept, Loaders, loaderVars, FilesInv
<1> QED  BY <1>2, <1>3 DEF FilesInv

LEMMA ClassifyFiles ==
  ASSUME Shape, FilesInv, ClassifyDir, UNCHANGED loaderVars
  PROVE  FilesInv'
<1>1. UNCHANGED <<tree, disk, phase, unseen, groups>> /\ phase = "classify"
  BY DEF ClassifyDir
<1>2. ToSet(diags) \subseteq ToSet(diags')
  <2> DEFINE d == CHOOSE d \in todo : \A o \in todo : d <= o
  <2>1. d \in tree.dirs
    <3>1. d \in todo
      BY NextDir DEF ClassifyDir
    <3> QED  BY <3>1 DEF Shape, WalkShape
  <2>2. Put("TF1120", d) \/ UNCHANGED diags
    BY DEF ClassifyDir
  <2> HIDE DEF d
  <2> QED  BY <2>1, <2>2, PutGrows DEF Shape, Codes
<1>3. Growing
  BY <1>1, <1>2 DEF Growing, OnlyLost, loaderVars
<1>4. FilesFound'
  BY <1>1, <1>3, FoundKept DEF FilesInv
<1>5. WalkDone' /\ FilesLoaded' /\ QueueDone' /\ ReportKept'
  BY <1>1 DEF WalkDone, FilesLoaded, QueueDone, ReportKept, Loaders, loaderVars, FilesInv
<1> QED  BY <1>4, <1>5 DEF FilesInv

LEMMA StartLoadingFiles ==
  ASSUME Shape, FilesInv, StartLoading
  PROVE  FilesInv'
<1>1. /\ UNCHANGED <<tree, disk, unseen, groups, kinds, diags, sources, raws, position>>
      /\ phase = "classify" /\ phase' = "load"
  BY DEF StartLoading
<1>2. Growing
  BY <1>1 DEF Growing, OnlyLost
<1>3. FilesFound'
  BY <1>1, <1>2, FoundKept DEF FilesInv
<1>4. FilesLoaded'
  <2> SUFFICES ASSUME NEW f \in SourceFiles, Wanted(f)
               PROVE  Ahead(f)'
    <3>1. SourceFiles' = SourceFiles
      BY <1>1 DEF SourceFiles, Visible, Offered, Listed, TypeOf
    <3>2. \A f : Wanted(f)' <=> Wanted(f)
      BY <1>1 DEF Wanted, FilesOf
    <3> QED  BY <3>1, <3>2 DEF FilesLoaded
  <2>1. PICK d \in tree.dirs : d = tree.dir[f]
    BY DEF Shape, TreeShape, SourceFiles
  <2>2. d \in DirsOfKind("module") \cup DirsOfKind("component")
    BY <2>1 DEF Wanted, DirsOfKind
  <2>3. queue' \in Seq(tree.dirs) /\ d \in ToSet(queue')
    <3>1. DirsOfKind("module") \in SUBSET tree.dirs /\ DirsOfKind("component") \in SUBSET tree.dirs
      BY DEF DirsOfKind
    <3>2. PICK a, b : a = InPathOrder(DirsOfKind("module")) /\ b = InPathOrder(DirsOfKind("component"))
      OBVIOUS
    <3>3. /\ a \in Seq(tree.dirs) /\ ToSet(a) = DirsOfKind("module")
          /\ b \in Seq(tree.dirs) /\ ToSet(b) = DirsOfKind("component")
      BY <3>1, <3>2, OrderShape DEF Shape
    <3>4. queue' = a \o b
      BY <3>2 DEF StartLoading
    <3> QED  BY <2>2, <3>3, <3>4, JoinElements
  <2>4. PICK q \in Seq(tree.dirs) : q = queue'
    BY <2>3
  <2>5. q # << >> /\ (d = Head(q) \/ d \in ToSet(Tail(q)))
    <3>1. q # << >>
      BY <2>3, <2>4 DEF ToSet
    <3> QED  BY <2>3, <2>4, <3>1, TailElements
  <2>6. \E k \in DOMAIN groups[d] : k >= position /\ groups[d][k] = f
    <3>1. position = 1
      BY <1>1 DEF FilesInv, QueueDone, Loaders
    <3>2. PICK k \in 1..Len(groups[d]) : groups[d][k] = f
      BY <2>1 DEF Wanted, FilesOf
    <3>3. groups[d] \in Seq(tree.entries)
      BY DEF Shape, WalkShape
    <3>4. k \in DOMAIN groups[d] /\ k >= 1
      BY <3>2, <3>3
    <3> QED  BY <3>1, <3>2, <3>4
  <2> QED  BY <1>1, <2>1, <2>4, <2>5, <2>6 DEF Ahead
<1>5. WalkDone' /\ QueueDone' /\ ReportKept'
  BY <1>1 DEF WalkDone, QueueDone, ReportKept, Loaders, FilesInv
<1> QED  BY <1>3, <1>4, <1>5 DEF FilesInv

\* The loader goes on to the next file of a directory.
LEMMA NextFile ==
  ASSUME Shape, Growing, FilesLoaded, phase \in Loaders, Loading,
         UNCHANGED <<groups, kinds, queue>>,
         position' = position + 1,
         NEW c, c = CurrentFile, c \in SourceFiles => Handled(c)'
  PROVE  FilesLoaded'
<1> SUFFICES ASSUME NEW f \in SourceFiles, Wanted(f)
             PROVE  Handled(f)' \/ Ahead(f)'
  <2>1. SourceFiles' = SourceFiles
    BY DEF Growing, SourceFiles, Visible, Offered, Listed, TypeOf
  <2>2. \A f : Wanted(f)' <=> Wanted(f)
    BY DEF Growing, Wanted, FilesOf
  <2> QED  BY <2>1, <2>2 DEF FilesLoaded
<1>1. CASE Handled(f)
  BY <1>1, HandledKept DEF SourceFiles
<1>2. CASE Ahead(f) /\ tree.dir[f] \in ToSet(Tail(queue))
  BY <1>2 DEF Ahead, Growing
<1>3. CASE Ahead(f) /\ tree.dir[f] \notin ToSet(Tail(queue))
  <2>1. PICK k \in DOMAIN groups[Head(queue)] : k >= position /\ groups[Head(queue)][k] = f
    BY <1>3 DEF Ahead
  <2>2. tree.dir[f] = Head(queue) /\ queue # << >>
    BY <1>3 DEF Ahead
  <2>3. k \in Nat /\ position \in Nat
    <3>1. Head(queue) \in tree.dirs
      BY CurrentShape
    <3>2. groups[Head(queue)] \in Seq(tree.entries)
      BY <3>1 DEF Shape, WalkShape
    <3> QED  BY <2>1, <3>2 DEF Shape, LoadShape
  <2>4. CASE k = position
    <3>1. f = c
      BY <2>1, <2>4 DEF CurrentFile
    <3> QED  BY <3>1
  <2>5. CASE k # position
    <3>1. k >= position + 1
      BY <2>1, <2>3, <2>5
    <3> QED  BY <2>1, <2>2, <3>1 DEF Ahead, Growing
  <2> QED  BY <2>4, <2>5
<1> QED  BY <1>1, <1>2, <1>3 DEF FilesLoaded

LEMMA StatFileFiles ==
  ASSUME Shape, FilesInv, StatFile
  PROVE  FilesInv'
<1>1. PICK f \in tree.entries : f = CurrentFile
  BY CurrentShape DEF StatFile
<1>2. /\ UNCHANGED <<tree, disk, phase, unseen, groups, kinds, queue, raws, sources>>
      /\ Loading /\ phase = "load"
      /\ \/ PassOver /\ (tree.ext[f] \notin HclExts \/ \E code \in Codes : Put(code, f))
         \/ UNCHANGED <<position, diags>>
      /\ UNCHANGED diags \/ \E code \in Codes : Put(code, f)
  BY <1>1 DEF StatFile, PassOver, Loading, Codes
<1>3. ToSet(diags) \subseteq ToSet(diags') /\ ((\E code \in Codes : Put(code, f)) => InDiags(f)')
  <2>1. ASSUME NEW code \in Codes, Put(code, f)
        PROVE  ToSet(diags') = ToSet(diags) \cup {<<code, f>>}
    BY <2>1, PutGrows DEF Shape
  <2> QED  BY <1>2, <2>1 DEF InDiags
<1>4. Growing
  BY <1>2, <1>3 DEF Growing, OnlyLost
<1>5. FilesFound'
  BY <1>2, <1>4, FoundKept DEF FilesInv
<1>6. FilesLoaded'
  <2>1. CASE UNCHANGED position
    BY <1>2, <1>4, <2>1, LoadedKept DEF FilesInv, Loaders
  <2>2. CASE position' = position + 1 /\ (tree.ext[f] \notin HclExts \/ \E code \in Codes : Put(code, f))
    <3>1. f \in SourceFiles => Handled(f)'
      BY <1>3, <2>2 DEF SourceFiles, Handled
    <3> QED  BY <1>1, <1>2, <1>4, <2>2, <3>1, NextFile DEF FilesInv, Loaders
  <2> QED  BY <1>2, <2>1, <2>2 DEF PassOver
<1>7. WalkDone' /\ QueueDone' /\ ReportKept'
  BY <1>2 DEF WalkDone, QueueDone, ReportKept, Loaders, FilesInv
<1> QED  BY <1>5, <1>6, <1>7 DEF FilesInv

LEMMA ReadFileFiles ==
  ASSUME Shape, FilesInv, ReadFile
  PROVE  FilesInv'
<1>1. PICK f \in tree.entries : f = CurrentFile
  BY CurrentShape DEF ReadFile
<1>2. /\ UNCHANGED <<tree, disk, unseen, groups, kinds, queue>> /\ position' = position + 1
      /\ Loading /\ phase = "load"
  BY DEF ReadFile, Loading
<1>3. /\ \A d \in tree.dirs : ToSet(raws[d]) \subseteq ToSet(raws'[d])
      /\ sources \subseteq sources' /\ ToSet(diags) \subseteq ToSet(diags') /\ phase' = phase
      /\ \/ \E code \in Codes : <<code, f>> \in ToSet(diags')
         \/ f \in sources' /\ \A kind \in disk[f].declares : <<f, kind>> \in ToSet(raws'[Head(queue)])
  BY <1>1, ReadEffect
<1>4. Growing
  BY <1>2, <1>3 DEF Growing, OnlyLost
<1>5. FilesFound'
  BY <1>2, <1>4, FoundKept DEF FilesInv
<1>6. Handled(f)'
  <2>1. Head(queue) \in tree.dirs
    BY <1>2, CurrentShape
  <2> QED  BY <1>2, <1>3, <2>1 DEF Handled, InDiags, AllUsed
<1>7. FilesLoaded'
  BY <1>1, <1>2, <1>4, <1>6, NextFile DEF FilesInv, Loaders
<1>8. WalkDone' /\ QueueDone' /\ ReportKept'
  BY <1>2, <1>3 DEF WalkDone, QueueDone, ReportKept, Loaders, FilesInv
<1> QED  BY <1>5, <1>7, <1>8 DEF FilesInv

LEMMA EndDirFiles ==
  ASSUME Shape, FilesInv, EndDir
  PROVE  FilesInv'
<1>1. /\ UNCHANGED <<tree, disk, phase, unseen, groups, kinds, diags, sources, raws>>
      /\ phase = "load" /\ queue # << >> /\ position > Len(groups[Head(queue)])
      /\ queue' = Tail(queue) /\ position' = 1
  BY DEF EndDir, discoveryVars
<1>2. Growing
  BY <1>1 DEF Growing, OnlyLost
<1>3. FilesFound'
  BY <1>1, <1>2, FoundKept DEF FilesInv
<1>4. FilesLoaded'
  <2> SUFFICES ASSUME NEW f \in SourceFiles, Wanted(f)
               PROVE  Handled(f)' \/ Ahead(f)'
    <3>1. SourceFiles' = SourceFiles
      BY <1>1 DEF SourceFiles, Visible, Offered, Listed, TypeOf
    <3>2. \A f : Wanted(f)' <=> Wanted(f)
      BY <1>1 DEF Wanted, FilesOf
    <3> QED  BY <3>1, <3>2 DEF FilesLoaded
  <2>1. PICK d \in tree.dirs : d = tree.dir[f]
    BY DEF Shape, TreeShape, SourceFiles
  <2>2. /\ queue \in Seq(tree.dirs) /\ Head(queue) \in tree.dirs
        /\ Tail(queue) \in Seq(tree.dirs)
    BY <1>1, TailElements DEF Shape, LoadShape
  <2>3. CASE Handled(f)
    BY <1>2, <2>3, HandledKept DEF SourceFiles
  <2>4. CASE Ahead(f)
    <3>1. d \in ToSet(Tail(queue))
      <4>1. PICK h \in tree.dirs : h = Head(queue)
        BY <2>2
      <4>2. groups[h] \in Seq(tree.entries) /\ position \in Nat
        BY DEF Shape, WalkShape, LoadShape
      <4>3. \A k \in DOMAIN groups[h] : ~(k >= position)
        BY <1>1, <4>1, <4>2
      <4> QED  BY <2>1, <2>4, <4>1, <4>3 DEF Ahead
    <3>2. PICK q \in Seq(tree.dirs) : q = Tail(queue)
      BY <2>2
    <3>3. q # << >> /\ (d = Head(q) \/ d \in ToSet(Tail(q)))
      <4>1. q # << >>
        BY <3>1, <3>2 DEF ToSet
      <4> QED  BY <3>1, <3>2, <4>1, TailElements
    <3>4. \E k \in DOMAIN groups[d] : k >= 1 /\ groups[d][k] = f
      <4>1. PICK k \in 1..Len(groups[d]) : groups[d][k] = f
        BY <2>1 DEF Wanted, FilesOf
      <4>2. groups[d] \in Seq(tree.entries)
        BY DEF Shape, WalkShape
      <4>3. k \in DOMAIN groups[d] /\ k >= 1
        BY <4>1, <4>2
      <4> QED  BY <4>1, <4>3
    <3> QED  BY <1>1, <2>1, <3>2, <3>3, <3>4 DEF Ahead
  <2> QED  BY <1>1, <2>3, <2>4 DEF FilesInv, FilesLoaded, Loaders
<1>5. WalkDone' /\ QueueDone' /\ ReportKept'
  BY <1>1 DEF WalkDone, QueueDone, ReportKept, Loaders, FilesInv
<1> QED  BY <1>3, <1>4, <1>5 DEF FilesInv

\* The stages after loading touch no block; what they report is added.
LEMMA LaterFiles ==
  ASSUME Shape, FilesInv, Growing,
         UNCHANGED <<disk, unseen, groups, kinds, queue, position>>,
         phase \in {"load", "terragrunt", "evaluate", "providers"}, phase = "load" => queue = << >>,
         phase' \in Loaders \ {"load"}, ReportKept'
  PROVE  FilesInv'
<1>1. FilesFound'
  BY FoundKept DEF FilesInv
<1>2. FilesLoaded'
  BY LoadedKept DEF FilesInv, Loaders
<1>3. WalkDone' /\ QueueDone'
  BY DEF WalkDone, QueueDone, Loaders, FilesInv
<1> QED  BY <1>1, <1>2, <1>3 DEF FilesInv

LEMMA TerragruntFilesInv ==
  ASSUME Shape, FilesInv, StartTerragrunt \/ TestTerragrunt \/ ResolveTerragrunt
  PROVE  FilesInv'
<1>1. /\ UNCHANGED <<tree, disk, unseen, groups, kinds, queue, position, sources, raws>>
      /\ phase \in {"load", "terragrunt"} /\ (phase = "load" => queue = << >>) /\ phase' = "terragrunt"
  BY DEF StartTerragrunt, TestTerragrunt, ResolveTerragrunt, discoveryVars, loaderVars
<1>2. ToSet(diags) \subseteq ToSet(diags')
  <2>1. CASE ResolveTerragrunt
    BY <2>1, ResolveTerragruntShape
  <2>2. CASE StartTerragrunt \/ TestTerragrunt
    BY <2>2 DEF StartTerragrunt, TestTerragrunt, discoveryVars
  <2> QED  BY <2>1, <2>2
<1>3. Growing
  BY <1>1, <1>2 DEF Growing, OnlyLost
<1>4. ReportKept'
  BY <1>1 DEF ReportKept
<1> QED  BY <1>1, <1>3, <1>4, LaterFiles DEF Loaders

LEMMA EvaluateFiles ==
  ASSUME Shape, FilesInv, StartEvaluation \/ EvaluateNext
  PROVE  FilesInv'
<1>1. /\ UNCHANGED <<tree, disk, unseen, groups, kinds, queue, position, sources, raws>>
      /\ phase \in {"terragrunt", "evaluate"} /\ phase' = "evaluate"
  BY DEF StartEvaluation, EvaluateNext, loaderVars
<1>2. ToSet(diags) \subseteq ToSet(diags')
  <2>1. CASE EvaluateNext
    BY <2>1, EvaluateNextShape
  <2>2. CASE StartEvaluation
    BY <2>2 DEF StartEvaluation
  <2> QED  BY <2>1, <2>2
<1>3. Growing
  BY <1>1, <1>2 DEF Growing, OnlyLost
<1>4. ReportKept'
  BY <1>1 DEF ReportKept
<1> QED  BY <1>1, <1>3, <1>4, LaterFiles DEF Loaders

\* What the builder keeps.
Kept == InPathOrder({evaluated[k] : k \in {k \in DOMAIN evaluated : kinds[evaluated[k]] = "component"}})

LEMMA KeptShape ==
  ASSUME Shape
  PROVE  /\ Kept \in Seq(tree.dirs)
         /\ ToSet(Kept) = {d \in ToSet(evaluated) : kinds[d] = "component"}
<1>1. PICK S : S = {evaluated[k] : k \in {k \in DOMAIN evaluated : kinds[evaluated[k]] = "component"}}
  OBVIOUS
<1>2. evaluated \in Seq(tree.dirs)
  BY DEF Shape, RunShape
<1>3. S \in SUBSET tree.dirs
  BY <1>1, <1>2
<1>4. S = {d \in ToSet(evaluated) : kinds[d] = "component"}
  BY <1>1 DEF ToSet
<1>5. InPathOrder(S) \in Seq(tree.dirs) /\ ToSet(InPathOrder(S)) = S
  BY <1>3, OrderShape DEF Shape
<1> QED  BY <1>1, <1>4, <1>5 DEF Kept

LEMMA BuildReports ==
  ASSUME Shape, BuildWorkspace
  PROVE  ToSet(diags) \subseteq ToSet(workspace'.diagnostics)
<1>1. PICK D : D = Diags
  OBVIOUS
<1>2. PICK kept \in Seq(tree.dirs) : kept = Kept
  BY KeptShape
<1>3. PICK again : again = [k \in DOMAIN kept |-> found[kept[k]]]
  OBVIOUS
<1>4. workspace'.diagnostics = FlattenSeq(again) \o diags
  BY <1>2, <1>3 DEF BuildWorkspace, Kept
<1>5. again \in Seq(Seq(D))
  <2>1. found \in [tree.dirs -> Seq(D)]
    BY <1>1 DEF Shape, RunShape
  <2>2. DOMAIN kept = 1..Len(kept) /\ Len(kept) \in Nat /\ \A k \in DOMAIN kept : kept[k] \in tree.dirs
    OBVIOUS
  <2>3. \A k \in DOMAIN kept : found[kept[k]] \in Seq(D)
    BY <2>1, <2>2
  <2>4. again \in [1..Len(kept) -> Seq(D)]
    BY <1>3, <2>2, <2>3
  <2> QED  BY <2>2, <2>4
<1>6. FlattenSeq(again) \in Seq(D) /\ diags \in Seq(D)
  BY <1>1, <1>5, FlatElements DEF Shape, DiagsShape
<1> QED  BY <1>4, <1>6, JoinElements

LEMMA EndingFiles ==
  ASSUME Shape, FilesInv, BuildWorkspace \/ ResolveProviders
  PROVE  FilesInv'
<1>1. /\ UNCHANGED <<tree, disk, unseen, groups, kinds, queue, position, sources, raws, diags>>
      /\ phase \in {"evaluate", "providers"} /\ phase' \in {"providers", "done", "failed"}
  BY DEF BuildWorkspace, ResolveProviders, loaderVars
<1>2. Growing
  BY <1>1 DEF Growing, OnlyLost
<1>3. ReportKept'
  <2>1. CASE BuildWorkspace
    <3>1. ToSet(diags) \subseteq ToSet(workspace'.diagnostics)
      BY <2>1, BuildReports
    <3>2. ASSUME NEW f, InDiags(f)'  PROVE Reported(f)'
      <4>1. PICK code \in Codes : <<code, f>> \in ToSet(workspace'.diagnostics)
        BY <1>1, <3>1, <3>2 DEF InDiags
      <4>2. PICK k \in DOMAIN workspace'.diagnostics : workspace'.diagnostics[k] = <<code, f>>
        BY <4>1 DEF ToSet
      <4> QED  BY <4>2 DEF Reported
    <3> QED  BY <3>2 DEF ReportKept
  <2>2. CASE ResolveProviders
    BY <2>2 DEF ResolveProviders, FilesInv, ReportKept, InDiags, Reported
  <2> QED  BY <2>1, <2>2
<1>4. CASE phase' # "failed"
  BY <1>1, <1>2, <1>3, <1>4, LaterFiles DEF Loaders
<1>5. CASE phase' = "failed"
  BY <1>3, <1>5 DEF FilesInv, WalkDone, FilesFound, FilesLoaded, QueueDone, Loaders
<1> QED  BY <1>4, <1>5

LEMMA FilesInit == Init => FilesInv
  BY DEF Init, DiscoveryInit, LoaderInit, FilesInv, WalkDone, FilesFound, FilesLoaded, QueueDone, ReportKept, Loaders

LEMMA FilesStep == Shape /\ FilesInv /\ [Next]_vars => FilesInv'
<1> SUFFICES ASSUME Shape, FilesInv, [Next]_vars PROVE FilesInv'
  OBVIOUS
<1>1. CASE UNCHANGED vars
  <2>1. UNCHANGED <<tree, disk, phase, unseen, groups, kinds, queue, position, sources, raws, diags, workspace>>
    BY <1>1 DEF vars, discoveryVars, loaderVars, pipelineVars
  <2>2. Growing
    BY <2>1 DEF Growing, OnlyLost
  <2>3. FilesFound'
    BY <2>1, <2>2, FoundKept DEF FilesInv, FilesFound
  <2>4. FilesLoaded'
    BY <2>1, <2>2, LoadedKept DEF FilesInv, FilesLoaded
  <2>5. WalkDone' /\ QueueDone' /\ ReportKept'
    BY <2>1 DEF WalkDone, QueueDone, ReportKept, FilesInv, InDiags, Reported
  <2> QED  BY <2>3, <2>4, <2>5 DEF FilesInv
<1> QED
  BY <1>1, Steps, ChangeFileFiles, OpenRootFiles, WalkFiles, EndWalkFiles, ClassifyFiles, StartLoadingFiles,
    StatFileFiles, ReadFileFiles, EndDirFiles, TerragruntFilesInv, EvaluateFiles, EndingFiles

(* However many files a workspace has, in whatever order they are found,   *)
(* and whatever happens to them while the loader works: in a run that      *)
(* succeeds each source file of a component or a module is used block by   *)
(* block, or a diagnostic of the workspace names it, or it was gone before *)
(* the walk came to it.  load_one of loader/hcl.rs reports what it leaves  *)
(* out, and every later stage hands on what has been reported.  Nothing is *)
(* claimed of the files that max_depth keeps from the walk, which no one   *)
(* reports.                                                                *)
THEOREM FilesAccountedFor == Spec => []EveryFileAccountedFor
<1>1. Init => Shape /\ FilesInv
  BY ShapeInit, FilesInit
<1>2. Shape /\ FilesInv /\ [Next]_vars => (Shape /\ FilesInv)'
  BY ShapeStep, FilesStep
<1>3. Shape /\ FilesInv => EveryFileAccountedFor
  <2> SUFFICES ASSUME Shape, FilesInv, phase = "done",
                      NEW e \in SourceFiles, kinds[tree.dir[e]] \in {"component", "module"}
               PROVE  Used(e) \/ Reported(e) \/ (~disk[e].there /\ e \notin FilesOf(tree.dir[e]))
    BY DEF EveryFileAccountedFor, SourceFiles
  <2>1. e \in tree.entries /\ (InDiags(e) => Reported(e))
    BY DEF FilesInv, ReportKept, SourceFiles
  <2>2. unseen = {} /\ queue = << >>
    BY DEF FilesInv, WalkDone, QueueDone, Loaders
  <2>3. e \in FilesOf(tree.dir[e]) \/ InDiags(e) \/ ~disk[e].there
    BY <2>2 DEF FilesInv, FilesFound
  <2>4. e \in FilesOf(tree.dir[e]) => Handled(e)
    BY <2>2 DEF FilesInv, FilesLoaded, Wanted, Ahead, Loaders
  <2>5. AllUsed(e) => Used(e)
    BY DEF AllUsed, Used, ToSet
  <2> QED  BY <2>1, <2>3, <2>4, <2>5 DEF Handled
<1> QED  BY <1>1, <1>2, <1>3, PTL DEF Spec

-----------------------------------------------------------------------------
(* Every component survives.                                                *)

Later == {"evaluate", "providers", "done"}

LoadedWhole ==
  /\ phase \notin Loaders \cup {"failed"} => loaded = << >>
  /\ phase \in Loaders => ToSet(loaded) \cup ToSet(queue) = DirsOfKind("module") \cup DirsOfKind("component")

EvaluatedWhole ==
  /\ phase \notin Later \cup {"failed"} => evaluated = << >>
  /\ phase \in Later => evaluated \o pending = Modules \o Components
  /\ phase \in {"providers", "done"} => pending = << >>

RegistryWhole == registry = {d \in ToSet(evaluated) : kinds[d] = "module"}

Rows(d) == {b \in ToSet(raws[d]) : b[2] \in RowKinds}

WorkspaceWhole ==
  phase \in {"providers", "done"} =>
    /\ workspace.components = InPathOrder(DirsOfKind("component"))
    /\ ToSet(workspace.resources) = UNION {Rows(d) : d \in DirsOfKind("component")}

ComponentsInv == LoadedWhole /\ EvaluatedWhole /\ RegistryWhole /\ WorkspaceWhole

LEMMA ListsUnchanged ==
  ASSUME UNCHANGED <<tree, kinds, loaded>>
  PROVE  /\ Modules' = Modules /\ Components' = Components
         /\ DirsOfKind("module")' = DirsOfKind("module") /\ DirsOfKind("component")' = DirsOfKind("component")
  BY DEF Modules, Components, OfKind, DirsOfKind

\* The loader's queue goes over into the loaded directories.
LEMMA LoadedStep ==
  ASSUME Shape, QueueDone, LoadedWhole, [Next]_vars
  PROVE  LoadedWhole'
<1> DEFINE Calm == /\ UNCHANGED <<tree, kinds, queue, loaded>>
                   /\ phase \in Loaders => phase' \in Loaders \cup {"failed"}
                   /\ phase \notin Loaders => phase' = phase
<1>1. CASE OpenRoot \/ WalkStep \/ EndWalk \/ ClassifyDir
  <2>1. UNCHANGED loaderVars => loaded' = loaded
    BY DEF loaderVars
  <2>2. phase \notin Loaders \cup {"failed"} /\ phase' \notin Loaders
    <3>1. CASE WalkStep
      <4>1. PICK x : IF x[2] = "dir" THEN EnterDir(x[1]) ELSE VisitEntry(x[1])
        BY <3>1 DEF WalkStep
      <4>2. phase = "walk" /\ phase' \in {"walk", "failed"}
        BY <3>1, <4>1 DEF WalkStep, EnterDir, VisitEntry, Skip, SkipWith, TakeFile
      <4> QED  BY <4>2 DEF Loaders
    <3>2. CASE OpenRoot \/ EndWalk \/ ClassifyDir
      BY <3>2 DEF OpenRoot, EndWalk, ClassifyDir, Loaders
    <3> QED  BY <1>1, <3>1, <3>2
  <2>3. UNCHANGED loaderVars
    BY <1>1, Steps DEF OpenRoot, WalkStep, EndWalk, ClassifyDir, StartLoading, StatFile, ReadFile, EndDir,
      Loading, StartTerragrunt, TestTerragrunt, ResolveTerragrunt, StartEvaluation, EvaluateNext,
      BuildWorkspace, ResolveProviders, UserStep, vars
  <2> QED  BY <2>1, <2>2, <2>3 DEF LoadedWhole
<1>2. CASE StartLoading
  <2>1. loaded = << >> /\ loaded' = loaded /\ phase' = "load" /\ UNCHANGED <<tree, kinds>>
    BY <1>2 DEF StartLoading, LoadedWhole, Loaders
  <2>2. PICK a, b : a = InPathOrder(DirsOfKind("module")) /\ b = InPathOrder(DirsOfKind("component"))
    OBVIOUS
  <2>3. /\ a \in Seq(tree.dirs) /\ ToSet(a) = DirsOfKind("module")
        /\ b \in Seq(tree.dirs) /\ ToSet(b) = DirsOfKind("component")
    <3>1. DirsOfKind("module") \in SUBSET tree.dirs /\ DirsOfKind("component") \in SUBSET tree.dirs
      BY DEF DirsOfKind
    <3> QED  BY <2>2, <3>1, OrderShape DEF Shape
  <2>4. ToSet(queue') = DirsOfKind("module") \cup DirsOfKind("component")
    <3>1. queue' = a \o b
      BY <1>2, <2>2 DEF StartLoading
    <3> QED  BY <2>3, <3>1, JoinElements
  <2>5. ToSet(loaded') = {}
    BY <2>1 DEF ToSet
  <2>6. DirsOfKind("module")' = DirsOfKind("module") /\ DirsOfKind("component")' = DirsOfKind("component")
    BY <2>1, ListsUnchanged
  <2> QED  BY <2>1, <2>4, <2>5, <2>6 DEF LoadedWhole, Loaders
<1>3. CASE EndDir
  <2>1. /\ UNCHANGED <<tree, kinds, phase>> /\ phase = "load" /\ queue # << >>
        /\ queue' = Tail(queue) /\ loaded' = Append(loaded, Head(queue))
    BY <1>3 DEF EndDir, discoveryVars
  <2>2. queue \in Seq(tree.dirs) /\ loaded \in Seq(tree.dirs)
    BY DEF Shape, LoadShape
  <2>3. Head(queue) \in tree.dirs /\ ToSet(queue) = {Head(queue)} \cup ToSet(Tail(queue))
    BY <2>1, <2>2, TailElements
  <2>4. ToSet(loaded') = ToSet(loaded) \cup {Head(queue)}
    BY <2>1, <2>2, <2>3, AppendElements
  <2>5. DirsOfKind("module")' = DirsOfKind("module") /\ DirsOfKind("component")' = DirsOfKind("component")
    BY <2>1 DEF DirsOfKind
  <2>6. ToSet(queue') = ToSet(Tail(queue))
    BY <2>1
  <2> QED  BY <2>1, <2>3, <2>4, <2>5, <2>6 DEF LoadedWhole, Loaders
<1>4. CASE Calm
  <2>1. DirsOfKind("module")' = DirsOfKind("module") /\ DirsOfKind("component")' = DirsOfKind("component")
    BY <1>4, ListsUnchanged
  <2> QED  BY <1>4, <2>1 DEF LoadedWhole, Loaders
<1>5. StatFile \/ ReadFile \/ UserStep \/ UNCHANGED vars => Calm
  <2>1. ReadFile => phase' = phase
    BY ReadEffect
  <2> QED  BY <2>1 DEF StatFile, ReadFile, UserStep, ChangeFile, vars, loaderVars, discoveryVars
<1>6. StartTerragrunt \/ TestTerragrunt \/ StartEvaluation \/ EvaluateNext \/ BuildWorkspace \/ ResolveProviders
        => Calm
  BY DEF StartTerragrunt, TestTerragrunt, StartEvaluation, EvaluateNext, BuildWorkspace, ResolveProviders,
    loaderVars, discoveryVars, Loaders
<1>7. ResolveTerragrunt => Calm
  <2>1. ResolveTerragrunt => loaded' = loaded
    BY ResolveTerragruntShape
  <2> QED  BY <2>1 DEF ResolveTerragrunt
<1> QED  BY <1>1, <1>2, <1>3, <1>4, <1>5, <1>6, <1>7, Steps

\* Taking the first of one list to the end of another leaves what they make together.
LEMMA Handover ==
  ASSUME NEW T, NEW a \in Seq(T), NEW b \in Seq(T), b # << >>
  PROVE  Append(a, Head(b)) \o Tail(b) = a \o b
<1>1. PICK n \in Nat, m \in Nat : n = Len(a) /\ m = Len(b) /\ m # 0
  BY EmptySeq, LenProperties
<1>2. /\ Head(b) \in T /\ Head(b) = b[1] /\ Tail(b) \in Seq(T) /\ Len(Tail(b)) = m - 1
      /\ \A i \in 1..(m - 1) : Tail(b)[i] = b[i + 1]
  BY <1>1, HeadTailProperties
<1>3. PICK c, d : c = Append(a, Head(b)) /\ d = Tail(b)
  OBVIOUS
<1>4. /\ c \in Seq(T) /\ Len(c) = n + 1 /\ c[n + 1] = b[1]
      /\ \A i \in 1..n : c[i] = a[i]
  BY <1>1, <1>2, <1>3, AppendProperties
<1>5. PICK s, t : s = c \o d /\ t = a \o b
  OBVIOUS
<1>6. /\ s \in Seq(T) /\ Len(s) = n + m
      /\ \A i \in 1..(n + m) : s[i] = IF i <= n + 1 THEN c[i] ELSE d[i - (n + 1)]
  <2>1. Len(c) + Len(d) = n + m
    BY <1>1, <1>2, <1>3, <1>4
  <2>2. /\ s \in Seq(T) /\ Len(s) = Len(c) + Len(d)
        /\ \A i \in 1..(Len(c) + Len(d)) : s[i] = IF i <= Len(c) THEN c[i] ELSE d[i - Len(c)]
    BY <1>2, <1>3, <1>4, <1>5, ConcatProperties
  <2> QED  BY <1>4, <2>1, <2>2
<1>7. /\ t \in Seq(T) /\ Len(t) = n + m
      /\ \A i \in 1..(n + m) : t[i] = IF i <= n THEN a[i] ELSE b[i - n]
  BY <1>1, <1>5, ConcatProperties
<1>8. ASSUME NEW i \in 1..(n + m)  PROVE s[i] = t[i]
  <2>1. CASE i <= n
    <3>1. i \in 1..n /\ i <= n + 1
      BY <2>1
    <3> QED  BY <1>4, <1>6, <1>7, <2>1, <3>1
  <2>2. CASE i = n + 1
    <3>1. i <= n + 1 /\ ~(i <= n) /\ i - n = 1
      BY <2>2
    <3> QED  BY <1>4, <1>6, <1>7, <2>2, <3>1
  <2>3. CASE ~(i <= n + 1)
    <3>1. i - (n + 1) \in 1..(m - 1) /\ ~(i <= n) /\ (i - (n + 1)) + 1 = i - n
      BY <2>3
    <3> QED  BY <1>2, <1>3, <1>6, <1>7, <2>3, <3>1
  <2> QED  BY <2>1, <2>2, <2>3
<1> QED  BY <1>3, <1>5, <1>6, <1>7, <1>8, SeqEqual

\* Lists with nothing put to them.
LEMMA NothingJoined ==
  ASSUME NEW T, NEW a \in Seq(T)
  PROVE  a \o << >> = a /\ << >> \o a = a
  BY ConcatEmptySeq


\* Discovery and loading leave the later stages alone.
LEMMA EarlyOrLater ==
  ASSUME Shape, [Next]_vars
  PROVE  \/ UNCHANGED pipelineVars /\ phase \notin Later \cup {"failed"} /\ phase' \notin Later
         \/ StartTerragrunt \/ TestTerragrunt \/ ResolveTerragrunt
         \/ StartEvaluation \/ EvaluateNext \/ BuildWorkspace \/ ResolveProviders
         \/ UserStep \/ UNCHANGED vars
<1> DEFINE Early == phase \notin Later \cup {"failed"} /\ phase' \notin Later
<1>1. WalkStep => Early
  <2> SUFFICES ASSUME WalkStep PROVE Early
    OBVIOUS
  <2>1. PICK x : IF x[2] = "dir" THEN EnterDir(x[1]) ELSE VisitEntry(x[1])
    BY DEF WalkStep
  <2>2. phase = "walk" /\ phase' \in {"walk", "failed"}
    BY <2>1 DEF WalkStep, EnterDir, VisitEntry, Skip, SkipWith, TakeFile
  <2> QED  BY <2>2 DEF Later
<1>2. ReadFile => Early
  BY ReadEffect DEF ReadFile, Loading, Later
<1>3. OpenRoot \/ EndWalk \/ ClassifyDir \/ StartLoading \/ StatFile \/ EndDir => Early
  BY DEF OpenRoot, EndWalk, ClassifyDir, StartLoading, StatFile, EndDir, Loading, discoveryVars, Later
<1> QED  BY <1>1, <1>2, <1>3, Steps

\* What is evaluated and what is pending are together the modules and the components.
LEMMA EvaluatedStep ==
  ASSUME Shape, EvaluatedWhole, [Next]_vars
  PROVE  EvaluatedWhole'
<1> DEFINE Calm == /\ UNCHANGED <<tree, kinds, loaded, evaluated, pending>>
                   /\ phase \in Later => phase' \in Later \cup {"failed"}
                   /\ phase \notin Later => phase' = phase
                   /\ phase' \in {"providers", "done"} => phase \in {"providers", "done"} \/ pending = << >>
<1>1. CASE UNCHANGED pipelineVars /\ phase \notin Later \cup {"failed"} /\ phase' \notin Later
  BY <1>1 DEF EvaluatedWhole, pipelineVars, Later
<1>2. CASE StartTerragrunt \/ TestTerragrunt \/ ResolveTerragrunt
  BY <1>2 DEF StartTerragrunt, TestTerragrunt, ResolveTerragrunt, discoveryVars, EvaluatedWhole, Later
<1>3. CASE StartEvaluation
  <2>1. /\ evaluated = << >> /\ evaluated' = << >> /\ phase' = "evaluate" /\ pending' = Modules \o Components
        /\ UNCHANGED <<tree, kinds, loaded>>
    BY <1>3 DEF StartEvaluation, loaderVars, EvaluatedWhole, Later
  <2>2. Modules' = Modules /\ Components' = Components
    BY <2>1, ListsUnchanged
  <2>3. Modules \in Seq(tree.dirs) /\ Components \in Seq(tree.dirs)
    BY OfKindShape DEF Shape, LoadShape, Components, Modules
  <2>4. PICK s : s = Modules \o Components
    OBVIOUS
  <2>5. s \in Seq(tree.dirs)
    BY <2>3, <2>4, JoinElements
  <2>6. << >> \o s = s
    BY <2>5, NothingJoined
  <2> QED  BY <2>1, <2>2, <2>4, <2>6 DEF EvaluatedWhole, Later
<1>4. CASE EvaluateNext
  <2>1. /\ phase = "evaluate" /\ phase' = phase /\ pending # << >> /\ pending' = Tail(pending)
        /\ evaluated' = Append(evaluated, Head(pending)) /\ UNCHANGED <<tree, kinds, loaded>>
    BY <1>4 DEF EvaluateNext, loaderVars
  <2>2. pending \in Seq(tree.dirs) /\ evaluated \in Seq(tree.dirs)
    BY DEF Shape, RunShape
  <2>3. evaluated' \o pending' = evaluated \o pending
    BY <2>1, <2>2, Handover
  <2>4. Modules' = Modules /\ Components' = Components
    BY <2>1, ListsUnchanged
  <2> QED  BY <2>1, <2>3, <2>4 DEF EvaluatedWhole, Later
<1>5. CASE Calm
  <2>1. Modules' = Modules /\ Components' = Components
    BY <1>5, ListsUnchanged
  <2> QED  BY <1>5, <2>1 DEF EvaluatedWhole, Later
<1>6. BuildWorkspace \/ ResolveProviders \/ UserStep \/ UNCHANGED vars => Calm
  BY DEF BuildWorkspace, ResolveProviders, UserStep, ChangeFile, vars, loaderVars, discoveryVars, pipelineVars, Later
<1> QED  BY <1>1, <1>2, <1>3, <1>4, <1>5, <1>6, EarlyOrLater

\* The registry has the modules that were evaluated.
LEMMA RegistryStep ==
  ASSUME Shape, EvaluatedWhole, RegistryWhole, [Next]_vars
  PROVE  RegistryWhole'
<1>1. CASE UNCHANGED pipelineVars /\ phase \notin Later \cup {"failed"} /\ phase' \notin Later
  <2>1. evaluated = << >> /\ evaluated' = << >> /\ registry' = registry
    BY <1>1 DEF EvaluatedWhole, pipelineVars
  <2>2. ToSet(<< >>) = {}
    BY DEF ToSet
  <2> QED  BY <2>1, <2>2 DEF RegistryWhole
<1>2. CASE EvaluateNext
  <2>1. /\ evaluated' = Append(evaluated, Head(pending)) /\ UNCHANGED kinds
        /\ registry' = IF kinds[Head(pending)] = "module" THEN registry \cup {Head(pending)} ELSE registry
    BY <1>2 DEF EvaluateNext
  <2>2. evaluated \in Seq(tree.dirs) /\ Head(pending) \in tree.dirs
    BY <1>2, TailElements DEF Shape, RunShape, EvaluateNext
  <2>3. ToSet(evaluated') = ToSet(evaluated) \cup {Head(pending)}
    BY <2>1, <2>2, AppendElements
  <2> QED  BY <2>1, <2>3 DEF RegistryWhole
<1>3. CASE UNCHANGED <<evaluated, registry, kinds>>
  BY <1>3 DEF RegistryWhole
<1>4. StartTerragrunt \/ TestTerragrunt \/ ResolveTerragrunt \/ StartEvaluation \/ BuildWorkspace
        \/ ResolveProviders \/ UserStep \/ UNCHANGED vars => UNCHANGED <<evaluated, registry, kinds>>
  BY DEF StartTerragrunt, TestTerragrunt, ResolveTerragrunt, StartEvaluation, BuildWorkspace, ResolveProviders,
    UserStep, ChangeFile, vars, discoveryVars, pipelineVars
<1> QED  BY <1>1, <1>2, <1>3, <1>4, EarlyOrLater

\* Before the workspace is built everything loaded has been evaluated.
LEMMA AllEvaluated ==
  ASSUME Shape, QueueDone, LoadedWhole, EvaluatedWhole, phase \in Later, pending = << >>
  PROVE  /\ evaluated = Modules \o Components
         /\ Modules \in Seq(tree.dirs) /\ ToSet(Modules) = DirsOfKind("module")
         /\ Components \in Seq(tree.dirs) /\ ToSet(Components) = DirsOfKind("component")
         /\ ToSet(evaluated) = DirsOfKind("module") \cup DirsOfKind("component")
<1>1. evaluated \in Seq(tree.dirs) /\ loaded \in Seq(tree.dirs)
  BY DEF Shape, RunShape, LoadShape
<1>2. evaluated = Modules \o Components
  <2>1. evaluated \o << >> = evaluated
    BY <1>1, NothingJoined
  <2> QED  BY <2>1 DEF EvaluatedWhole
<1>3. ToSet(loaded) = DirsOfKind("module") \cup DirsOfKind("component")
  <2>1. phase \in Loaders \ {"load"}
    BY DEF Later, Loaders
  <2>2. ToSet(queue) = {}
    BY <2>1 DEF QueueDone, ToSet
  <2> QED  BY <2>1, <2>2 DEF LoadedWhole
<1>4. Modules \in Seq(tree.dirs) /\ ToSet(Modules) = {d \in ToSet(loaded) : kinds[d] = "module"}
  BY <1>1, OfKindShape DEF Shape, Modules
<1>5. Components \in Seq(tree.dirs) /\ ToSet(Components) = {d \in ToSet(loaded) : kinds[d] = "component"}
  BY <1>1, OfKindShape DEF Shape, Components
<1>6. ToSet(Modules) = DirsOfKind("module") /\ ToSet(Components) = DirsOfKind("component")
  BY <1>3, <1>4, <1>5 DEF DirsOfKind
<1>7. ToSet(evaluated) = ToSet(Modules) \cup ToSet(Components)
  BY <1>2, <1>4, <1>5, JoinElements
<1> QED  BY <1>2, <1>4, <1>5, <1>6, <1>7

LEMMA RowsShape ==
  ASSUME Shape, NEW d \in tree.dirs
  PROVE  RowsOf(d) \in Seq(tree.entries \X BlockKinds) /\ ToSet(RowsOf(d)) = Rows(d)
<1> DEFINE places == {k \in DOMAIN raws[d] : raws[d][k][2] \in RowKinds}
<1>1. PICK list \in Seq(tree.entries \X BlockKinds) : list = raws[d]
  BY DEF Shape, LoadShape
<1>2. places \in SUBSET (1..Len(list)) /\ RowsOf(d) = Picked(list, places)
  BY <1>1 DEF RowsOf
<1>3. {list[k] : k \in places} = Rows(d)
  BY <1>1 DEF Rows, ToSet
<1> HIDE DEF places
<1> QED  BY <1>2, <1>3, PickedElements

\* What the builder returns.
LEMMA BuildWhole ==
  ASSUME Shape, QueueDone, LoadedWhole, EvaluatedWhole, BuildWorkspace
  PROVE  /\ workspace'.components = InPathOrder(DirsOfKind("component"))
         /\ ToSet(workspace'.resources) = UNION {Rows(d) : d \in DirsOfKind("component")}
<1>1. ToSet(evaluated) = DirsOfKind("module") \cup DirsOfKind("component")
  BY AllEvaluated DEF BuildWorkspace, Later
<1>2. {evaluated[k] : k \in {k \in DOMAIN evaluated : kinds[evaluated[k]] = "component"}} = DirsOfKind("component")
  <2>1. {evaluated[k] : k \in {k \in DOMAIN evaluated : kinds[evaluated[k]] = "component"}}
          = {d \in ToSet(evaluated) : kinds[d] = "component"}
    BY DEF ToSet
  <2> QED  BY <1>1, <2>1 DEF DirsOfKind
<1>3. PICK kept \in Seq(tree.dirs) : kept = Kept
  BY KeptShape
<1>4. kept = InPathOrder(DirsOfKind("component"))
  BY <1>2, <1>3 DEF Kept
<1>5. ToSet(kept) = DirsOfKind("component")
  <2>1. DirsOfKind("component") \in SUBSET tree.dirs
    BY DEF DirsOfKind
  <2> QED  BY <1>4, <2>1, OrderShape DEF Shape
<1>6. PICK rows : rows = [k \in DOMAIN kept |-> RowsOf(kept[k])]
  OBVIOUS
<1>7. workspace'.components = kept /\ workspace'.resources = FlattenSeq(rows)
  BY <1>3, <1>6 DEF BuildWorkspace, Kept
<1>8. DOMAIN kept = 1..Len(kept) /\ Len(kept) \in Nat /\ \A k \in DOMAIN kept : kept[k] \in tree.dirs
  OBVIOUS
<1>9. rows \in Seq(Seq(tree.entries \X BlockKinds)) /\ DOMAIN rows = DOMAIN kept
  <2>1. \A k \in DOMAIN kept : RowsOf(kept[k]) \in Seq(tree.entries \X BlockKinds)
    BY <1>8, RowsShape
  <2>2. rows \in [1..Len(kept) -> Seq(tree.entries \X BlockKinds)]
    BY <1>6, <1>8, <2>1
  <2> QED  BY <1>6, <1>8, <2>2
<1>10. ToSet(FlattenSeq(rows)) = UNION {ToSet(rows[k]) : k \in DOMAIN rows}
  BY <1>9, FlatElements
<1>11. \A k \in DOMAIN kept : ToSet(rows[k]) = Rows(kept[k])
  BY <1>6, <1>8, RowsShape
<1>12. {ToSet(rows[k]) : k \in DOMAIN rows} = {Rows(d) : d \in DirsOfKind("component")}
  <2>1. {ToSet(rows[k]) : k \in DOMAIN rows} = {Rows(kept[k]) : k \in DOMAIN kept}
    BY <1>9, <1>11
  <2>2. {Rows(kept[k]) : k \in DOMAIN kept} = {Rows(d) : d \in ToSet(kept)}
    BY DEF ToSet
  <2> QED  BY <1>5, <2>1, <2>2
<1> QED  BY <1>4, <1>7, <1>10, <1>12

LEMMA WorkspaceStep ==
  ASSUME Shape, QueueDone, LoadedWhole, EvaluatedWhole, WorkspaceWhole, [Next]_vars
  PROVE  WorkspaceWhole'
<1> DEFINE Calm == phase \in {"providers", "done"} /\ UNCHANGED <<tree, kinds, raws, workspace>>
<1>1. CASE phase' \notin {"providers", "done"}
  BY <1>1 DEF WorkspaceWhole
<1>2. CASE BuildWorkspace
  <2>1. UNCHANGED <<tree, kinds, raws>>
    BY <1>2 DEF BuildWorkspace, loaderVars
  <2>2. DirsOfKind("component")' = DirsOfKind("component") /\ \A d : Rows(d)' = Rows(d)
    BY <2>1 DEF DirsOfKind, Rows
  <2>3. /\ workspace'.components = InPathOrder(DirsOfKind("component"))
        /\ ToSet(workspace'.resources) = UNION {Rows(d) : d \in DirsOfKind("component")}
    BY <1>2, BuildWhole
  <2> QED  BY <2>2, <2>3 DEF WorkspaceWhole
<1>3. CASE Calm
  <2>1. DirsOfKind("component")' = DirsOfKind("component") /\ \A d : Rows(d)' = Rows(d)
    BY <1>3 DEF DirsOfKind, Rows
  <2> QED  BY <1>3, <2>1 DEF WorkspaceWhole
<1>4. StartTerragrunt \/ TestTerragrunt \/ ResolveTerragrunt \/ StartEvaluation \/ EvaluateNext
        => phase' \notin {"providers", "done"}
  BY DEF StartTerragrunt, TestTerragrunt, ResolveTerragrunt, StartEvaluation, EvaluateNext, discoveryVars
<1>5. ResolveProviders \/ UserStep \/ UNCHANGED vars => Calm \/ phase' \notin {"providers", "done"}
  BY DEF ResolveProviders, UserStep, ChangeFile, vars, loaderVars, discoveryVars, pipelineVars
<1> QED  BY <1>1, <1>2, <1>3, <1>4, <1>5, EarlyOrLater DEF Later

(* The workspace of a run that succeeds has the components discovery       *)
(* found, each once and in path order, with the resource blocks that were  *)
(* loaded for them and no others; every module was evaluated, before any   *)
(* component (DefaultPipeline::run of pipeline.rs, WorkspaceBuilder of     *)
(* graph/builder.rs).                                                      *)
THEOREM ComponentsKept == Spec => []ComponentsSurvive
<1> DEFINE Inv == Shape /\ FilesInv /\ ComponentsInv
<1>1. Init => Inv
  <2>1. Init => ComponentsInv
    BY DEF Init, DiscoveryInit, LoaderInit, ComponentsInv, LoadedWhole, EvaluatedWhole, RegistryWhole, WorkspaceWhole,
      Loaders, Later, ToSet
  <2> QED  BY <2>1, ShapeInit, FilesInit
<1>2. Inv /\ [Next]_vars => Inv'
  BY ShapeStep, FilesStep, LoadedStep, EvaluatedStep, RegistryStep, WorkspaceStep DEF ComponentsInv, FilesInv
<1>3. Inv => ComponentsSurvive
  <2> SUFFICES ASSUME Inv, phase = "done" PROVE ComponentsSurvive
    BY DEF ComponentsSurvive
  <2>1. /\ evaluated = Modules \o Components
        /\ Modules \in Seq(tree.dirs) /\ ToSet(Modules) = DirsOfKind("module")
        /\ Components \in Seq(tree.dirs) /\ ToSet(Components) = DirsOfKind("component")
        /\ ToSet(evaluated) = DirsOfKind("module") \cup DirsOfKind("component")
    BY AllEvaluated DEF ComponentsInv, EvaluatedWhole, FilesInv, Later
  <2>2. workspace.components = InPathOrder(DirsOfKind("component"))
    BY DEF ComponentsInv, WorkspaceWhole
  <2>3. registry = DirsOfKind("module")
    BY <2>1 DEF ComponentsInv, RegistryWhole, DirsOfKind
  <2>4. ASSUME NEW i \in DOMAIN evaluated, NEW j \in DOMAIN evaluated,
               kinds[evaluated[i]] = "module", kinds[evaluated[j]] = "component"
        PROVE  i < j
    <3>1. PICK m, c : m = Modules /\ c = Components
      OBVIOUS
    <3>2. /\ m \in Seq(tree.dirs) /\ c \in Seq(tree.dirs) /\ evaluated = m \o c
          /\ \A k \in DOMAIN m : kinds[m[k]] = "module"
          /\ \A k \in DOMAIN c : kinds[c[k]] = "component"
      BY <2>1, <3>1 DEF DirsOfKind, ToSet
    <3>3. /\ Len(m) \in Nat /\ Len(c) \in Nat /\ DOMAIN evaluated = 1..(Len(m) + Len(c))
          /\ \A k \in 1..(Len(m) + Len(c)) : evaluated[k] = IF k <= Len(m) THEN m[k] ELSE c[k - Len(m)]
      BY <3>2, ConcatProperties
    <3>4. i <= Len(m)
      <4> SUFFICES ASSUME ~(i <= Len(m)) PROVE FALSE
        OBVIOUS
      <4>1. i - Len(m) \in DOMAIN c /\ evaluated[i] = c[i - Len(m)]
        BY <3>2, <3>3
      <4> QED  BY <2>4, <3>2, <4>1
    <3>5. ~(j <= Len(m))
      <4> SUFFICES ASSUME j <= Len(m) PROVE FALSE
        OBVIOUS
      <4>1. j \in DOMAIN m /\ evaluated[j] = m[j]
        BY <3>2, <3>3
      <4> QED  BY <2>4, <3>2, <4>1
    <3> QED  BY <3>3, <3>4, <3>5
  <2>5. {workspace.resources[k] : k \in DOMAIN workspace.resources}
          = {b \in UNION {{raws[d][k] : k \in DOMAIN raws[d]} : d \in DirsOfKind("component")} : b[2] \in RowKinds}
    <3>1. ToSet(workspace.resources) = UNION {Rows(d) : d \in DirsOfKind("component")}
      BY DEF ComponentsInv, WorkspaceWhole
    <3>2. UNION {Rows(d) : d \in DirsOfKind("component")}
            = {b \in UNION {ToSet(raws[d]) : d \in DirsOfKind("component")} : b[2] \in RowKinds}
      BY DEF Rows
    <3> QED  BY <3>1, <3>2 DEF ToSet
  <2> QED  BY <2>2, <2>3, <2>4, <2>5 DEF ComponentsSurvive
<1> QED  BY <1>1, <1>2, <1>3, PTL DEF Spec

-----------------------------------------------------------------------------
(* The order of the walk does not matter.                                   *)

\* The eligible files of the directories of D the walk has handed out.
Taken(D) == {e \in tree.entries : tree.dir[e] \in D /\ Eligible(e) /\ <<e, "entry">> \notin unseen}

\* What is in a directory that cannot be listed is hidden with it.
WalledHidden ==
  \A e \in tree.entries : tree.dir[e] \in tree.walled /\ <<e, "entry">> \in unseen => <<tree.dir[e], "dir">> \in unseen

\* Nothing below the depth limit is ever handed out.
DepthKept ==
  /\ \A e \in tree.entries : <<e, "entry">> \in unseen => Listed(tree.dir[e])
  /\ \A d \in tree.dirs : <<d, "dir">> \in unseen => d \in WalkedDirs
  /\ seenDirs \subseteq WalkedDirs
  /\ phase = "classify" => todo \subseteq seenDirs

DirsSeen ==
  /\ Root \in seenDirs
  /\ phase \notin {"root", "failed"} =>
       tree.exists /\ \A d \in WalkedDirs : d \in seenDirs \/ <<d, "dir">> \in unseen

FilesTaken ==
  changes = 0 /\ tree.exists /\ phase # "root" =>
    /\ totalFiles = Cardinality(Taken(tree.dirs))
    /\ phase # "failed" => \A d \in tree.dirs : FilesOf(d) = Taken({d})

KindsTaken ==
  changes = 0 /\ phase \notin {"root", "walk", "failed"} =>
    \A d \in WalkedDirs \ todo : kinds[d] = KindOf(d, Signals(d))

\* What is said of a tree: <<code, s>> once the walk has handed out s, or, for
\* a component a glob matches, once that is classified.
Due(code, s) ==
  \/ code = "TF1100" /\ s \in tree.walled /\ Listed(s) /\ <<s, "dir">> \notin unseen
  \/ /\ code = "TF1110" /\ s \in tree.entries /\ Offered(s) /\ TypeOf(s) = "link"
     /\ <<s, "entry">> \notin unseen
  \/ /\ code = "TF1103" /\ s \in tree.entries /\ Visible(s) /\ disk[s].size > MaxFileSize
     /\ <<s, "entry">> \notin unseen
  \/ /\ code = "TF1120" /\ phase = "classify" /\ s \in seenDirs \ todo
     /\ s \in tree.globbed /\ kinds[s] = "component"

SaidOnce == \A i, j \in DOMAIN diags : diags[i] = diags[j] => i = j

DiagsTaken ==
  changes = 0 /\ phase \in {"walk", "classify"} =>
    /\ SaidOnce
    /\ \A code \in Codes, s \in tree.entries \cup tree.dirs : <<code, s>> \in ToSet(diags) <=> Due(code, s)

AllThere == changes = 0 => \A e \in tree.entries : disk[e].there

TodoDone == phase \in Loaders => todo = {}

Counted ==
  /\ changes \in Nat /\ totalFiles \in Nat
  /\ phase # "failed" => totalFiles <= MaxTotalFiles
  /\ phase = "root" => totalFiles = 0 /\ diags = << >> /\ \A d \in tree.dirs : groups[d] = << >>

OrderInv ==
  /\ WalledHidden /\ DepthKept /\ DirsSeen /\ FilesTaken /\ KindsTaken /\ DiagsTaken
  /\ AllThere /\ TodoDone /\ Counted

\* One more diagnostic, of something not yet spoken of.
LEMMA SayOne ==
  ASSUME DiagsShape, NEW code \in Codes, NEW x \in tree.entries \cup tree.dirs, Put(code, x),
         SaidOnce, <<code, x>> \notin ToSet(diags)
  PROVE  SaidOnce' /\ ToSet(diags') = ToSet(diags) \cup {<<code, x>>}
<1>1. ToSet(diags') = ToSet(diags) \cup {<<code, x>>}
  BY PutGrows
<1>2. PICK D : D = Diags
  OBVIOUS
<1>3. PICK n \in Nat : n = Len(diags)
  BY <1>2 DEF DiagsShape
<1>4. /\ DOMAIN diags = 1..n /\ DOMAIN diags' = 1..(n + 1) /\ diags'[n + 1] = <<code, x>>
      /\ \A k \in 1..n : diags'[k] = diags[k]
  <2>1. diags \in Seq(D) /\ <<code, x>> \in D
    BY <1>2 DEF DiagsShape, Diags
  <2>2. diags' = Append(diags, <<code, x>>)
    BY DEF Put
  <2> HIDE DEF Put
  <2> QED  BY <1>3, <2>1, <2>2, AppendProperties
<1>5. \A k \in 1..n : diags[k] # <<code, x>>
  BY <1>4 DEF ToSet
<1>6. SaidOnce'
  <2> SUFFICES ASSUME NEW i \in 1..(n + 1), NEW j \in 1..(n + 1), diags'[i] = diags'[j] PROVE i = j
    BY <1>4 DEF SaidOnce
  <2>1. CASE i = n + 1 \/ j = n + 1
    <3>1. (i \in 1..n \/ i = n + 1) /\ (j \in 1..n \/ j = n + 1)
      OBVIOUS
    <3> QED  BY <1>4, <1>5, <2>1, <3>1
  <2>2. CASE i # n + 1 /\ j # n + 1
    <3>1. i \in 1..n /\ j \in 1..n
      BY <2>2
    <3> QED  BY <1>4, <3>1 DEF SaidOnce
  <2> QED  BY <2>1, <2>2
<1> QED  BY <1>1, <1>6

LEMMA TakenFinite ==
  ASSUME TreeShape, NEW D
  PROVE  IsFiniteSet(Taken(D)) /\ Cardinality(Taken(D)) \in Nat
<1>1. Taken(D) \in SUBSET tree.entries
  BY DEF Taken
<1> QED  BY <1>1, FS_Subset, FS_CardinalityType DEF TreeShape

\* A step that leaves the walk alone.
LEMMA OrderKept ==
  ASSUME OrderInv,
         UNCHANGED <<tree, disk, changes, unseen, seenDirs, groups, totalFiles>>,
         phase # "root", phase = "failed" => phase' = "failed", phase' # "root",
         KindsTaken', TodoDone', DiagsTaken', phase' = "classify" => todo' \subseteq seenDirs'
  PROVE  OrderInv'
<1>1. \A D : Taken(D)' = Taken(D)
  BY DEF Taken, Eligible, Visible, Offered, Listed, TypeOf, Countable
<1>2. \A d : FilesOf(d)' = FilesOf(d)
  BY DEF FilesOf
<1>3. FilesTaken'
  BY <1>1, <1>2 DEF FilesTaken, OrderInv
<1>4. WalledHidden' /\ DirsSeen' /\ Counted' /\ AllThere'
  BY DEF WalledHidden, DirsSeen, WalkedDirs, Counted, AllThere, OrderInv
<1>5. DepthKept'
  BY DEF DepthKept, Listed, WalkedDirs, OrderInv
<1> QED  BY <1>3, <1>4, <1>5 DEF OrderInv

LEMMA SignalsUnchanged ==
  ASSUME UNCHANGED <<tree, disk, groups>>
  PROVE  \A d : KindOf(d, Signals(d))' = KindOf(d, Signals(d))
<1> SUFFICES ASSUME NEW d PROVE KindOf(d, Signals(d))' = KindOf(d, Signals(d))
  OBVIOUS
<1>1. FilesOf(d)' = FilesOf(d)
  BY DEF FilesOf
<1>2. \A f : Probe(f)' = Probe(f)
  BY DEF Probe
<1>3. Signals(d)' = Signals(d)
  BY <1>1, <1>2 DEF Signals
<1>4. HasTerragrunt(d)' <=> HasTerragrunt(d)
  BY <1>1 DEF HasTerragrunt
<1>5. \A s : (IsComponent(d, s)' <=> IsComponent(d, s)) /\ (VariablesOnly(d, s)' <=> VariablesOnly(d, s))
  BY <1>4 DEF IsComponent, VariablesOnly
<1>6. \A s : KindOf(d, s)' = KindOf(d, s)
  BY <1>1, <1>5 DEF KindOf
<1> QED  BY <1>3, <1>6

LEMMA ListedWalked ==
  ASSUME TreeShape, NEW d \in tree.dirs, Listed(d)
  PROVE  d \in WalkedDirs
<1>1. tree.depth[d] \in Nat /\ MaxDepth \in Nat
  BY LimitsAreNatural DEF TreeShape
<1> QED  BY <1>1 DEF Listed, WalkedDirs

LEMMA OpenRootOrder ==
  ASSUME Shape, OrderInv, OpenRoot
  PROVE  OrderInv'
<1>1. /\ UNCHANGED <<tree, disk, changes, seenDirs, groups, totalFiles, diags>>
      /\ phase = "root" /\ totalFiles = 0 /\ diags = << >> /\ \A d \in tree.dirs : groups[d] = << >>
      /\ \/ /\ tree.exists /\ phase' = "walk"
            /\ unseen' = (WalkedDirs \ {Root}) \X {"dir"}
                         \cup {e \in tree.entries : Listed(tree.dir[e])} \X {"entry"}
         \/ ~tree.exists /\ phase' = "failed" /\ unseen' = unseen
  BY DEF OpenRoot, OrderInv, Counted
<1>2. WalledHidden'
  <2>1. \A e \in tree.entries : tree.dir[e] \in tree.walled => tree.dir[e] \in tree.dirs \ {Root}
    BY DEF Shape, TreeShape
  <2>2. \A d \in tree.dirs : Listed(d) => d \in WalkedDirs
    BY ListedWalked DEF Shape
  <2> QED  BY <1>1, <2>1, <2>2 DEF WalledHidden, OrderInv
<1>3. DirsSeen' /\ DepthKept' /\ AllThere'
  <2>1. \A d : (d \in WalkedDirs' <=> d \in WalkedDirs) /\ (Listed(d)' <=> Listed(d))
    BY <1>1 DEF WalkedDirs, Listed
  <2>2. DirsSeen'
    BY <1>1, <2>1 DEF DirsSeen, OrderInv
  <2>3. DepthKept'
    BY <1>1, <2>1 DEF DepthKept, OrderInv
  <2> QED  BY <1>1, <2>2, <2>3 DEF AllThere, OrderInv
<1>4. FilesTaken'
  <2> SUFFICES ASSUME tree.exists
               PROVE  totalFiles = Cardinality(Taken(tree.dirs)') /\ \A d \in tree.dirs : FilesOf(d)' = Taken({d})'
    BY <1>1 DEF FilesTaken, Taken
  <2>1. \A D : Taken(D)' = {}
    BY <1>1 DEF Taken, Eligible, Visible, Offered, Listed
  <2>2. \A d \in tree.dirs : FilesOf(d)' = {}
    <3> SUFFICES ASSUME NEW d \in tree.dirs PROVE FilesOf(d)' = {}
      OBVIOUS
    <3>1. groups'[d] = << >> /\ 1..Len(groups'[d]) = {}
      BY <1>1
    <3> QED  BY <3>1 DEF FilesOf
  <2>3. Cardinality({}) = 0
    BY FS_EmptySet
  <2> QED  BY <1>1, <2>1, <2>2, <2>3
<1>5. KindsTaken' /\ TodoDone' /\ Counted'
  BY <1>1 DEF KindsTaken, TodoDone, Counted, OrderInv, Loaders
<1>6. DiagsTaken'
  <2>1. ToSet(diags') = {} /\ SaidOnce'
    BY <1>1 DEF ToSet, SaidOnce
  <2> SUFFICES ASSUME tree.exists, NEW code \in Codes, NEW s \in tree.entries \cup tree.dirs
               PROVE  ~Due(code, s)'
    BY <1>1, <2>1 DEF DiagsTaken
  <2>2. \A d \in tree.walled : Listed(d) => <<d, "dir">> \in unseen'
    BY <1>1, ListedWalked DEF Shape, TreeShape
  <2>3. \A e \in tree.entries : Listed(tree.dir[e]) => <<e, "entry">> \in unseen'
    BY <1>1
  <2> QED  BY <1>1, <2>2, <2>3 DEF Due, Visible, Offered, Listed
<1> QED  BY <1>2, <1>3, <1>4, <1>5, <1>6 DEF OrderInv

LEMMA EnterDirOrder ==
  ASSUME Shape, OrderInv, phase = "walk", UNCHANGED <<tree, disk, changes, todo, kinds>>,
         NEW d \in tree.dirs, <<d, "dir">> \in unseen, EnterDir(d)
  PROVE  OrderInv'
<1>1. /\ UNCHANGED <<groups, totalFiles, phase>> /\ seenDirs' = seenDirs \cup {d}
      /\ \/ /\ ~(d \in tree.walled /\ Listed(d)) /\ UNCHANGED diags
            /\ unseen' = unseen \ {<<d, "dir">>}
         \/ /\ d \in tree.walled /\ Listed(d) /\ Put("TF1100", d)
            /\ unseen' = unseen \ ({<<d, "dir">>} \cup {<<e, "entry">> : e \in {e \in tree.entries : tree.dir[e] = d}})
  BY DEF EnterDir
<1>2. WalledHidden'
  <2> SUFFICES ASSUME NEW e \in tree.entries, tree.dir[e] \in tree.walled, <<e, "entry">> \in unseen'
               PROVE  <<tree.dir[e], "dir">> \in unseen'
    BY DEF WalledHidden
  <2>1. <<e, "entry">> \in unseen
    BY <1>1
  <2>2. <<tree.dir[e], "dir">> \in unseen
    BY <2>1 DEF OrderInv, WalledHidden
  <2>3. tree.dir[e] # d
    BY <1>1, <2>1 DEF OrderInv, DepthKept
  <2> QED  BY <1>1, <2>2, <2>3
<1>3. DirsSeen' /\ DepthKept' /\ AllThere'
  <2>1. \A x : (x \in WalkedDirs' <=> x \in WalkedDirs) /\ (Listed(x)' <=> Listed(x))
    BY DEF WalkedDirs, Listed
  <2>2. DirsSeen'
    BY <1>1, <2>1 DEF DirsSeen, OrderInv
  <2>3. DepthKept'
    BY <1>1, <2>1 DEF DepthKept, OrderInv
  <2> QED  BY <2>2, <2>3 DEF AllThere, OrderInv
<1>4. \A D : Taken(D)' = Taken(D)
  <2> SUFFICES ASSUME NEW D, NEW e \in tree.entries, Eligible(e)
               PROVE  <<e, "entry">> \in unseen' <=> <<e, "entry">> \in unseen
    BY DEF Taken, Eligible, Visible, Offered, Listed, TypeOf, Countable
  <2>1. tree.dir[e] \notin tree.walled
    BY DEF Eligible, Visible, Offered
  <2> QED  BY <1>1, <2>1
<1>5. FilesTaken'
  <2>1. \A x : FilesOf(x)' = FilesOf(x)
    BY <1>1 DEF FilesOf
  <2> QED  BY <1>1, <1>4, <2>1 DEF FilesTaken, OrderInv
<1>6. KindsTaken' /\ TodoDone' /\ Counted'
  BY <1>1 DEF KindsTaken, TodoDone, Counted, OrderInv, Loaders
<1>7. DiagsTaken'
  <2> SUFFICES ASSUME changes = 0 PROVE DiagsTaken'
    BY DEF DiagsTaken
  <2>1. /\ SaidOnce
        /\ \A code \in Codes, s \in tree.entries \cup tree.dirs : <<code, s>> \in ToSet(diags) <=> Due(code, s)
    BY DEF OrderInv, DiagsTaken
  <2>2. /\ \A s : s # d => (<<s, "dir">> \in unseen' <=> <<s, "dir">> \in unseen)
        /\ <<d, "dir">> \notin unseen'
        /\ \A e \in tree.entries : Offered(e) => (<<e, "entry">> \in unseen' <=> <<e, "entry">> \in unseen)
    BY <1>1 DEF Offered
  <2> DEFINE new(code, s) == code = "TF1100" /\ s = d /\ d \in tree.walled /\ Listed(d)
  <2>3. \A code, s : Due(code, s)' <=> Due(code, s) \/ new(code, s)
    <3>1. \A e : (Offered(e)' <=> Offered(e)) /\ (Visible(e)' <=> Visible(e)) /\ TypeOf(e)' = TypeOf(e)
                 /\ (Listed(e)' <=> Listed(e))
      BY DEF Offered, Visible, TypeOf, Listed
    <3>2. \A e \in tree.entries : Visible(e) => Offered(e)
      BY DEF Visible
    <3>3. /\ ~(d \in tree.walled /\ Listed(d)) \/ <<d, "dir">> \in unseen
          /\ UNCHANGED <<phase, todo, kinds, disk, tree>> /\ phase = "walk"
      BY <1>1
    <3>4. \A s \in tree.entries :
            /\ Offered(s)' /\ <<s, "entry">> \notin unseen' <=> Offered(s) /\ <<s, "entry">> \notin unseen
            /\ Visible(s)' /\ <<s, "entry">> \notin unseen' <=> Visible(s) /\ <<s, "entry">> \notin unseen
      BY <2>2, <3>1, <3>2
    <3>5. ASSUME NEW s
          PROVE  s \in tree.walled /\ Listed(s) /\ <<s, "dir">> \notin unseen'
                 <=> \/ s \in tree.walled /\ Listed(s) /\ <<s, "dir">> \notin unseen
                     \/ s = d /\ d \in tree.walled /\ Listed(d)
      BY <2>2
    <3>6. \A s \in tree.entries : TypeOf(s)' = TypeOf(s) /\ disk'[s] = disk[s]
      BY <3>1
    <3>7. phase' = "walk" /\ tree' = tree /\ phase = "walk" /\ \A s : Listed(s)' <=> Listed(s)
      BY <3>1, <3>3
    <3> SUFFICES ASSUME NEW code, NEW s PROVE Due(code, s)' <=> Due(code, s) \/ new(code, s)
      OBVIOUS
    <3>8. CASE code = "TF1100"
      BY <3>5, <3>7, <3>8 DEF Due
    <3>9. CASE code \in {"TF1110", "TF1103"}
      BY <3>4, <3>6, <3>7, <3>9 DEF Due
    <3>10. CASE code \notin {"TF1100", "TF1110", "TF1103"}
      BY <3>7, <3>10 DEF Due
    <3> QED  BY <3>8, <3>9, <3>10
  <2>4. CASE UNCHANGED diags /\ ~(d \in tree.walled /\ Listed(d))
    BY <2>1, <2>3, <2>4 DEF DiagsTaken, SaidOnce
  <2>5. CASE d \in tree.walled /\ Listed(d) /\ Put("TF1100", d)
    <3>1. "TF1100" \in Codes /\ ~Due("TF1100", d)
      BY DEF Codes, Due
    <3>2. SaidOnce' /\ ToSet(diags') = ToSet(diags) \cup {<<"TF1100", d>>}
      BY <2>1, <2>5, <3>1, SayOne DEF Shape
    <3> QED  BY <2>1, <2>3, <2>5, <3>2 DEF DiagsTaken
  <2> QED  BY <1>1, <2>4, <2>5
<1> QED  BY <1>2, <1>3, <1>5, <1>6, <1>7 DEF OrderInv

LEMMA VisitOrder ==
  ASSUME Shape, OrderInv, phase = "walk", UNCHANGED <<tree, disk, changes, todo, kinds>>,
         NEW e \in tree.entries, <<e, "entry">> \in unseen, <<tree.dir[e], "dir">> \notin unseen, VisitEntry(e)
  PROVE  OrderInv'
<1>1. tree.dir[e] \notin tree.walled /\ tree.dir[e] \in tree.dirs /\ Listed(tree.dir[e])
      /\ tree.type[e] \in {"file", "link", "special"}
  BY DEF OrderInv, WalledHidden, DepthKept, Shape, TreeShape
<1>2. unseen' = unseen \ {<<e, "entry">>}
  BY DEF VisitEntry
<1>3. \/ Eligible(e) /\ TakeFile(e)
      \/ ~Eligible(e) /\ UNCHANGED <<seenDirs, groups, totalFiles, phase>>
  <2>1. disk[e].size \in Nat /\ MaxFileSize \in Nat
    BY LimitsAreNatural DEF Shape, FilesShape, FileState
  <2>2. TypeOf(e) \in {"file", "link", "special"}
    BY <1>1 DEF TypeOf
  <2>3. Eligible(e) <=> /\ ~tree.excluded[e] /\ TypeOf(e) \notin {"link", "special"}
                        /\ disk[e].there /\ ~(disk[e].size > MaxFileSize) /\ Countable(e)
    BY <1>1, <2>1, <2>2 DEF Eligible, Visible, Offered
  <2> QED  BY <2>2, <2>3 DEF VisitEntry, Skip, SkipWith
<1>4. WalledHidden' /\ DirsSeen' /\ DepthKept' /\ AllThere'
  <2>1. \A x : (x \in WalkedDirs' <=> x \in WalkedDirs) /\ (Listed(x)' <=> Listed(x))
    BY DEF WalkedDirs, Listed
  <2>2. tree.dir[e] \in WalkedDirs
    BY <1>1, ListedWalked DEF Shape
  <2>3. phase' # "classify"
    BY <1>3 DEF TakeFile
  <2>4. DepthKept'
    BY <1>2, <1>3, <2>1, <2>2, <2>3 DEF DepthKept, OrderInv, TakeFile
  <2>5. WalledHidden' /\ DirsSeen'
    BY <1>2, <1>3, <2>1 DEF WalledHidden, DirsSeen, OrderInv, TakeFile
  <2> QED  BY <2>4, <2>5 DEF AllThere, OrderInv
<1>5. KindsTaken' /\ TodoDone'
  BY <1>3 DEF KindsTaken, TodoDone, OrderInv, Loaders, TakeFile
<1>6. Counted'
  BY <1>3, LimitsAreNatural DEF Counted, OrderInv, TakeFile
<1>7. \A f : Eligible(f)' <=> Eligible(f)
  BY DEF Eligible, Visible, Offered, Listed, TypeOf, Countable
<1>10. DiagsTaken'
  <2> SUFFICES ASSUME changes = 0 PROVE DiagsTaken'
    BY DEF DiagsTaken
  <2> DEFINE link == ~tree.excluded[e] /\ TypeOf(e) = "link"
             large == ~tree.excluded[e] /\ TypeOf(e) = "file" /\ disk[e].size > MaxFileSize
             new(code, s) == s = e /\ ((code = "TF1110" /\ link) \/ (code = "TF1103" /\ large))
  <2>1. /\ SaidOnce
        /\ \A code \in Codes, s \in tree.entries \cup tree.dirs : <<code, s>> \in ToSet(diags) <=> Due(code, s)
    BY DEF OrderInv, DiagsTaken
  <2>2. \A code, s : phase' # "failed" =>
          (Due(code, s)' <=> Due(code, s) \/ new(code, s))
    <3>1. \A x : (Offered(x)' <=> Offered(x)) /\ (Visible(x)' <=> Visible(x)) /\ TypeOf(x)' = TypeOf(x)
                 /\ (Listed(x)' <=> Listed(x))
      BY DEF Offered, Visible, TypeOf, Listed
    <3>2. /\ \A s : s # e => (<<s, "entry">> \in unseen' <=> <<s, "entry">> \in unseen)
          /\ <<e, "entry">> \notin unseen'
          /\ \A s : <<s, "dir">> \in unseen' <=> <<s, "dir">> \in unseen
      BY <1>2
    <3>3. (Offered(e) <=> ~tree.excluded[e]) /\ (Visible(e) <=> ~tree.excluded[e] /\ TypeOf(e) = "file")
      BY <1>1 DEF Offered, Visible
    <3>4. phase' # "failed" => phase' = "walk"
      BY <1>3 DEF TakeFile
    <3> QED  BY <3>1, <3>2, <3>3, <3>4 DEF Due
  <2>3. \/ /\ ~link /\ ~large /\ UNCHANGED diags
        \/ /\ link /\ ~large /\ Put("TF1110", e)
        \/ /\ ~link /\ large /\ Put("TF1103", e)
    <3>1. TypeOf(e) \in {"file", "link", "special"} /\ disk[e].there
      BY <1>1 DEF TypeOf, OrderInv, AllThere
    <3>2. CASE tree.excluded[e]
      BY <3>2 DEF VisitEntry, Skip
    <3>3. CASE ~tree.excluded[e] /\ TypeOf(e) = "link"
      BY <3>3 DEF VisitEntry, SkipWith
    <3>4. CASE ~tree.excluded[e] /\ TypeOf(e) = "special"
      BY <3>4 DEF VisitEntry, Skip
    <3>5. CASE ~tree.excluded[e] /\ TypeOf(e) = "file"
      BY <3>1, <3>5 DEF VisitEntry, Skip, SkipWith, TakeFile
    <3> QED  BY <3>1, <3>2, <3>3, <3>4, <3>5
  <2>4. {"TF1110", "TF1103"} \subseteq Codes /\ ~Due("TF1110", e) /\ ~Due("TF1103", e)
    BY DEF Codes, Due
  <2>5. CASE ~link /\ ~large /\ UNCHANGED diags
    BY <2>1, <2>2, <2>5 DEF DiagsTaken, SaidOnce
  <2>6. CASE link /\ ~large /\ Put("TF1110", e)
    <3>1. SaidOnce' /\ ToSet(diags') = ToSet(diags) \cup {<<"TF1110", e>>}
      BY <2>1, <2>4, <2>6, SayOne DEF Shape
    <3> HIDE DEF link, large
    <3> QED  BY <2>1, <2>2, <2>6, <3>1 DEF DiagsTaken
  <2>7. CASE ~link /\ large /\ Put("TF1103", e)
    <3>1. SaidOnce' /\ ToSet(diags') = ToSet(diags) \cup {<<"TF1103", e>>}
      BY <2>1, <2>4, <2>7, SayOne DEF Shape
    <3> HIDE DEF link, large
    <3> QED  BY <2>1, <2>2, <2>7, <3>1 DEF DiagsTaken
  <2> QED  BY <2>3, <2>5, <2>6, <2>7
<1>8. CASE ~Eligible(e) /\ UNCHANGED <<seenDirs, groups, totalFiles, phase>>
  <2>1. \A D : Taken(D)' = Taken(D)
    BY <1>2, <1>7, <1>8 DEF Taken
  <2>2. \A x : FilesOf(x)' = FilesOf(x)
    BY <1>8 DEF FilesOf
  <2>3. FilesTaken'
    BY <1>8, <2>1, <2>2 DEF FilesTaken, OrderInv
  <2> QED  BY <1>4, <1>5, <1>6, <1>10, <2>3 DEF OrderInv
<1>9. CASE Eligible(e) /\ TakeFile(e)
  <2>1. \A D : Taken(D)' = IF tree.dir[e] \in D THEN Taken(D) \cup {e} ELSE Taken(D)
    <3> SUFFICES ASSUME NEW D PROVE Taken(D)' = IF tree.dir[e] \in D THEN Taken(D) \cup {e} ELSE Taken(D)
      OBVIOUS
    <3>1. \A f \in tree.entries : <<f, "entry">> \notin unseen' <=> f = e \/ <<f, "entry">> \notin unseen
      BY <1>2
    <3> QED  BY <1>7, <1>9, <3>1 DEF Taken
  <2>2. FilesTaken'
    <3> SUFFICES ASSUME changes = 0
                 PROVE  /\ totalFiles' = Cardinality(Taken(tree.dirs)')
                        /\ phase' # "failed" => \A d \in tree.dirs : FilesOf(d)' = Taken({d})'
      BY DEF FilesTaken, Taken
    <3>1. /\ totalFiles = Cardinality(Taken(tree.dirs))
          /\ \A d \in tree.dirs : FilesOf(d) = Taken({d})
      BY DEF OrderInv, FilesTaken, DirsSeen
    <3>2. totalFiles' = Cardinality(Taken(tree.dirs)')
      <4>1. e \notin Taken(tree.dirs)
        BY DEF Taken
      <4>2. Cardinality(Taken(tree.dirs) \cup {e}) = Cardinality(Taken(tree.dirs)) + 1
        BY <4>1, TakenFinite, FS_AddElement DEF Shape
      <4>3. Taken(tree.dirs)' = Taken(tree.dirs) \cup {e}
        <5>1. PICK D : D = tree.dirs
          OBVIOUS
        <5>2. Taken(tree.dirs)' = Taken(D)' /\ Taken(tree.dirs) = Taken(D) /\ tree.dir[e] \in D
          BY <1>1, <5>1 DEF Taken
        <5> QED  BY <2>1, <5>2
      <4> QED  BY <1>9, <3>1, <4>2, <4>3 DEF TakeFile
    <3>3. ASSUME phase' # "failed", NEW d \in tree.dirs
          PROVE  FilesOf(d)' = Taken({d})'
      <4>1. PICK E \in tree.dirs : E = tree.dir[e]
        BY <1>1
      <4>2. groups' = [groups EXCEPT ![E] = Append(@, e)]
        BY <1>9, <3>3, <4>1 DEF TakeFile
      <4>3. groups \in [tree.dirs -> Seq(tree.entries)]
        BY DEF Shape, WalkShape
      <4>4. CASE d = E
        <5>1. PICK a \in Seq(tree.entries) : a = groups[E]
          BY <4>3
        <5>2. PICK g : g = Append(a, e)
          OBVIOUS
        <5>3. groups'[E] = g
          BY <4>2, <4>3, <5>1, <5>2
        <5>4. g \in Seq(tree.entries) /\ ToSet(g) = ToSet(a) \cup {e}
          <6>1. Append(a, e) \in Seq(tree.entries) /\ ToSet(Append(a, e)) = ToSet(a) \cup {e}
            BY AppendElements
          <6> QED  BY <5>2, <6>1
        <5>5. FilesOf(d)' = ToSet(g) /\ FilesOf(d) = ToSet(a)
          <6>1. DOMAIN g = 1..Len(g) /\ DOMAIN a = 1..Len(a) /\ groups[d] = a
            BY <4>4, <5>1, <5>4
          <6> QED  BY <4>4, <5>3, <6>1 DEF FilesOf, ToSet
        <5>6. Taken({d})' = Taken({d}) \cup {e}
          BY <2>1, <4>1, <4>4
        <5> QED  BY <3>1, <5>4, <5>5, <5>6
      <4>5. CASE d # E
        <5>1. groups'[d] = groups[d]
          BY <4>2, <4>3, <4>5
        <5>2. FilesOf(d)' = FilesOf(d)
          BY <5>1 DEF FilesOf
        <5>3. Taken({d})' = Taken({d})
          BY <2>1, <4>1, <4>5
        <5> QED  BY <3>1, <5>2, <5>3
      <4> QED  BY <4>4, <4>5
    <3> QED  BY <3>2, <3>3
  <2> QED  BY <1>4, <1>5, <1>6, <1>10, <2>2 DEF OrderInv
<1> QED  BY <1>3, <1>8, <1>9

LEMMA WalkOrder ==
  ASSUME Shape, OrderInv, WalkStep
  PROVE  OrderInv'
<1>1. PICK x \in unseen : Reached(x) /\ IF x[2] = "dir" THEN EnterDir(x[1]) ELSE VisitEntry(x[1])
  BY DEF WalkStep
<1>2. UNCHANGED <<tree, disk, changes, todo, kinds>> /\ phase = "walk"
  BY DEF WalkStep
<1>3. \/ x[2] = "dir" /\ x[1] \in tree.dirs /\ x = <<x[1], "dir">>
      \/ x[2] = "entry" /\ x[1] \in tree.entries /\ x = <<x[1], "entry">>
  BY DEF Shape, WalkShape
<1>4. CASE x[2] = "dir" /\ x[1] \in tree.dirs /\ x = <<x[1], "dir">>
  BY <1>1, <1>2, <1>4, EnterDirOrder
<1>5. CASE x[2] = "entry" /\ x[1] \in tree.entries /\ x = <<x[1], "entry">>
  <2>1. VisitEntry(x[1]) /\ <<x[1], "entry">> \in unseen /\ <<tree.dir[x[1]], "dir">> \notin unseen
    BY <1>1, <1>5 DEF Reached
  <2> QED  BY <1>2, <1>5, <2>1, VisitOrder
<1> QED  BY <1>3, <1>4, <1>5

LEMMA EndWalkOrder ==
  ASSUME Shape, OrderInv, EndWalk
  PROVE  OrderInv'
<1>1. /\ UNCHANGED <<tree, disk, changes, unseen, seenDirs, groups, totalFiles, kinds, diags>>
      /\ phase = "walk" /\ phase' = "classify" /\ unseen = {} /\ todo' = seenDirs
  BY DEF EndWalk
<1>2. KindsTaken'
  <2>1. WalkedDirs' \ todo' = {}
    BY <1>1 DEF OrderInv, DirsSeen, WalkedDirs
  <2> QED  BY <1>1, <2>1 DEF KindsTaken
<1>3. TodoDone'
  BY <1>1 DEF TodoDone, Loaders
<1>4. DiagsTaken'
  <2>1. \A code, s : Due(code, s)' <=> Due(code, s)
    BY <1>1 DEF Due, Visible, Offered, Listed, TypeOf
  <2> QED  BY <1>1, <2>1 DEF DiagsTaken, SaidOnce, OrderInv
<1> QED  BY <1>1, <1>2, <1>3, <1>4, OrderKept

LEMMA ClassifyOrder ==
  ASSUME Shape, OrderInv, ClassifyDir
  PROVE  OrderInv'
<1> DEFINE d == CHOOSE d \in todo : \A o \in todo : d <= o
           kind == KindOf(d, Signals(d))
<1>1. /\ UNCHANGED <<tree, disk, changes, unseen, seenDirs, groups, totalFiles, phase>>
      /\ phase = "classify" /\ todo' = todo \ {d} /\ kinds' = [kinds EXCEPT ![d] = kind]
      /\ IF kind = "component" /\ d \in tree.globbed THEN Put("TF1120", d) ELSE UNCHANGED diags
      /\ todo # {}
  BY DEF ClassifyDir
<1>4. d \in todo /\ d \in tree.dirs
  BY <1>1, NextDir DEF Shape, WalkShape
<1> HIDE DEF d
<1>2. KindsTaken'
  <2> SUFFICES ASSUME changes = 0, NEW x \in WalkedDirs \ todo'
               PROVE  kinds'[x] = KindOf(x, Signals(x))'
    BY <1>1 DEF KindsTaken, WalkedDirs
  <2> x \in tree.dirs
    BY DEF WalkedDirs
  <2>1. KindOf(x, Signals(x))' = KindOf(x, Signals(x))
    BY <1>1, SignalsUnchanged
  <2>2. x \notin todo \/ x = d
    BY <1>1
  <2>3. x \notin todo => kinds[x] = KindOf(x, Signals(x))
    BY <1>1 DEF KindsTaken, OrderInv
  <2>4. kinds'[x] = IF x = d THEN kind ELSE kinds[x]
    BY <1>1 DEF Shape, WalkShape
  <2> QED  BY <2>1, <2>2, <2>3, <2>4
<1>3. TodoDone'
  BY <1>1 DEF TodoDone, Loaders
<1>5. todo' \subseteq seenDirs' /\ d \in seenDirs
  BY <1>1, <1>4 DEF OrderInv, DepthKept
<1>6. DiagsTaken'
  <2> SUFFICES ASSUME changes = 0 PROVE DiagsTaken'
    BY <1>1 DEF DiagsTaken
  <2> DEFINE both == kind = "component" /\ d \in tree.globbed
  <2>1. /\ SaidOnce
        /\ \A code \in Codes, s \in tree.entries \cup tree.dirs : <<code, s>> \in ToSet(diags) <=> Due(code, s)
    BY <1>1 DEF OrderInv, DiagsTaken
  <2>2. \A code, s : Due(code, s)' <=> Due(code, s) \/ (code = "TF1120" /\ s = d /\ both)
    <3>1. \A x \in tree.dirs : kinds'[x] = IF x = d THEN kind ELSE kinds[x]
      BY <1>1 DEF Shape, WalkShape
    <3>2. seenDirs \subseteq tree.dirs
      BY DEF Shape, WalkShape
    <3>3. \A x : (Offered(x)' <=> Offered(x)) /\ (Visible(x)' <=> Visible(x)) /\ TypeOf(x)' = TypeOf(x)
                 /\ (Listed(x)' <=> Listed(x))
      BY <1>1 DEF Offered, Visible, TypeOf, Listed
    <3> HIDE DEF kind
    <3>4. ASSUME NEW s
          PROVE  /\ s \in seenDirs' \ todo' /\ s \in tree.globbed /\ kinds'[s] = "component"
                 <=> \/ s \in seenDirs \ todo /\ s \in tree.globbed /\ kinds[s] = "component"
                     \/ s = d /\ both
      BY <1>1, <1>4, <1>5, <3>1, <3>2
    <3> QED  BY <1>1, <3>3, <3>4 DEF Due
  <2>3. CASE ~both /\ UNCHANGED diags
    BY <1>1, <2>1, <2>2, <2>3 DEF DiagsTaken, SaidOnce
  <2>4. CASE both /\ Put("TF1120", d)
    <3>1. "TF1120" \in Codes /\ ~Due("TF1120", d)
      BY <1>4 DEF Codes, Due
    <3>2. SaidOnce' /\ ToSet(diags') = ToSet(diags) \cup {<<"TF1120", d>>}
      BY <1>4, <2>1, <2>4, <3>1, SayOne DEF Shape
    <3> HIDE DEF both
    <3> QED  BY <1>1, <2>1, <2>2, <2>4, <3>2 DEF DiagsTaken
  <2> QED  BY <1>1, <2>3, <2>4
<1> QED  BY <1>1, <1>2, <1>3, <1>5, <1>6, OrderKept

LEMMA ChangeFileOrder ==
  ASSUME Shape, OrderInv, UserStep
  PROVE  OrderInv'
<1>1. /\ UNCHANGED <<tree, phase, unseen, seenDirs, groups, totalFiles, todo>>
      /\ changes' = changes + 1 /\ changes' # 0 /\ changes' \in Nat
  BY DEF UserStep, ChangeFile, OrderInv, Counted
<1>2. FilesTaken' /\ KindsTaken' /\ DiagsTaken' /\ AllThere'
  BY <1>1 DEF FilesTaken, KindsTaken, DiagsTaken, AllThere
<1>3. WalledHidden' /\ DirsSeen' /\ TodoDone' /\ Counted'
  BY <1>1 DEF WalledHidden, DirsSeen, WalkedDirs, TodoDone, Counted, OrderInv, UserStep, ChangeFile
<1>4. DepthKept'
  BY <1>1 DEF DepthKept, Listed, WalkedDirs, OrderInv
<1> QED  BY <1>2, <1>3, <1>4 DEF OrderInv

LEMMA LaterOrder ==
  ASSUME OrderInv, UNCHANGED <<tree, disk, changes, unseen, seenDirs, groups, totalFiles, todo, kinds>>,
         phase \in Loaders \/ (phase = "classify" /\ todo = {}),
         phase' \in Loaders \cup {"failed"}
  PROVE  OrderInv'
<1>1. KindsTaken'
  <2>1. \A d : KindOf(d, Signals(d))' = KindOf(d, Signals(d))
    BY SignalsUnchanged
  <2> QED  BY <2>1 DEF KindsTaken, WalkedDirs, OrderInv, Loaders
<1>2. TodoDone' /\ DiagsTaken'
  BY DEF TodoDone, DiagsTaken, OrderInv, Loaders
<1> QED  BY <1>1, <1>2, OrderKept DEF Loaders

LEMMA OrderStep == Shape /\ OrderInv /\ [Next]_vars => OrderInv'
<1> SUFFICES ASSUME Shape, OrderInv, [Next]_vars PROVE OrderInv'
  OBVIOUS
<1> DEFINE Calm == /\ UNCHANGED <<tree, disk, changes, unseen, seenDirs, groups, totalFiles, todo, kinds>>
                   /\ phase \in Loaders \/ (phase = "classify" /\ todo = {})
                   /\ phase' \in Loaders \cup {"failed"}
<1>1. CASE UNCHANGED vars
  <2>1. UNCHANGED <<tree, disk, changes, phase, unseen, seenDirs, groups, totalFiles, diags, todo, kinds>>
    BY <1>1 DEF vars, discoveryVars
  <2>2. \A D : Taken(D)' = Taken(D)
    BY <2>1 DEF Taken, Eligible, Visible, Offered, Listed, TypeOf, Countable
  <2>3. \A d : FilesOf(d)' = FilesOf(d) /\ KindOf(d, Signals(d))' = KindOf(d, Signals(d))
    BY <2>1, SignalsUnchanged DEF FilesOf
  <2>4. FilesTaken' /\ KindsTaken'
    BY <2>1, <2>2, <2>3 DEF FilesTaken, KindsTaken, WalkedDirs, OrderInv
  <2>5. \A code, s : Due(code, s)' <=> Due(code, s)
    BY <2>1 DEF Due, Visible, Offered, Listed, TypeOf
  <2>6. DiagsTaken' /\ DepthKept'
    BY <2>1, <2>5 DEF DiagsTaken, SaidOnce, DepthKept, Listed, WalkedDirs, OrderInv
  <2> QED  BY <2>1, <2>4, <2>6 DEF OrderInv, WalledHidden, DirsSeen, WalkedDirs, AllThere, TodoDone, Counted
<1>2. CASE Calm
  BY <1>2, LaterOrder
<1>3. StartLoading \/ StatFile \/ EndDir \/ StartTerragrunt \/ TestTerragrunt \/ ResolveTerragrunt => Calm
  BY DEF StartLoading, StatFile, EndDir, Loading, StartTerragrunt, TestTerragrunt, ResolveTerragrunt,
    discoveryVars, Loaders
<1>4. StartEvaluation \/ EvaluateNext \/ BuildWorkspace \/ ResolveProviders => Calm
  BY DEF StartEvaluation, EvaluateNext, BuildWorkspace, ResolveProviders, Loaders
<1>5. ReadFile => Calm
  BY ReadEffect DEF ReadFile, Loading, Loaders
<1> QED
  BY <1>1, <1>2, <1>3, <1>4, <1>5, Steps, OpenRootOrder, WalkOrder, EndWalkOrder, ClassifyOrder, ChangeFileOrder

LEMMA InitOrder == Init => OrderInv
<1> SUFFICES ASSUME Init PROVE OrderInv
  OBVIOUS
<1>1. PICK w \in Workspaces : tree = w.tree /\ disk = w.disk
  BY DEF Init, DiscoveryInit
<1>2. AllThere
  BY <1>1, WorkspacesShaped DEF WorkspaceShaped, AllThere
<1>3. DepthKept
  <2>1. tree.depth[Root] = 0 /\ Root \in tree.dirs /\ 0 <= MaxDepth
    BY ShapeInit, LimitsAreNatural DEF Shape, TreeShape
  <2> QED  BY <2>1 DEF Init, DiscoveryInit, DepthKept, WalkedDirs
<1>4. WalledHidden /\ DirsSeen /\ FilesTaken /\ KindsTaken /\ DiagsTaken /\ TodoDone
  BY DEF Init, DiscoveryInit, WalledHidden, DirsSeen, FilesTaken, KindsTaken, DiagsTaken, TodoDone, Loaders
<1>5. Counted
  BY LimitsAreNatural DEF Init, DiscoveryInit, Counted
<1> QED  BY <1>2, <1>3, <1>4, <1>5 DEF OrderInv

\* What is expected of a directory is what was found there.
LEMMA ExpectedFound ==
  ASSUME Shape, NEW d \in tree.dirs, FilesOf(d) = Expected(d).files
  PROVE  /\ KindOf(d, Signals(d)) = "component" <=> Expected(d).component
         /\ KindOf(d, Signals(d)) = "module" <=> Expected(d).module
<1> DEFINE files == {e \in tree.entries : tree.dir[e] = d /\ Eligible(e)}
           signals == UNION {disk[f].declares : f \in {f \in files : tree.ext[f] \in HclExts /\ disk[f].text}}
           wrapped == \E f \in files : tree.ext[f] = "terragrunt"
           applied == \/ wrapped /\ "include" \in signals
                      \/ "backend" \in signals /\ "terraform" \in signals
                      \/ d \notin tree.globbed /\ ("resource" \in signals \/ "data" \in signals)
<1>1. FilesOf(d) = files
  BY DEF Expected
<1>2. Signals(d) = signals
  <2>1. \A f \in files : Probe(f) = IF disk[f].text THEN disk[f].declares ELSE {}
    BY DEF Probe, Eligible
  <2>2. Signals(d) = UNION {Probe(f) : f \in {f \in files : tree.ext[f] \in HclExts}}
    BY <1>1 DEF Signals
  <2> HIDE DEF files
  <2>3. \A x : x \in signals <=> \E f \in files : tree.ext[f] \in HclExts /\ disk[f].text /\ x \in disk[f].declares
    OBVIOUS
  <2>4. \A x : x \in Signals(d) <=> \E f \in files : tree.ext[f] \in HclExts /\ x \in Probe(f)
    BY <2>2
  <2>5. \A x : x \in signals <=> x \in Signals(d)
    BY <2>1, <2>3, <2>4
  <2> QED  BY <2>5
<1>3. HasTerragrunt(d) <=> wrapped
  BY <1>1 DEF HasTerragrunt
<1>4. IsComponent(d, signals) <=> applied
  BY <1>3 DEF IsComponent
<1>5. VariablesOnly(d, signals) <=> /\ "variable" \in signals /\ ~wrapped
                                    /\ \A s \in {"resource", "data", "backend"} : s \notin signals
  BY <1>3 DEF VariablesOnly
<1>6. /\ Expected(d).component <=> d # tree.environments /\ applied
      /\ Expected(d).module <=> /\ d # tree.environments /\ ~applied
                                /\ \/ d \in tree.globbed
                                   \/ /\ "variable" \in signals /\ ~wrapped
                                      /\ \A s \in {"resource", "data", "backend"} : s \notin signals
  BY DEF Expected
<1> HIDE DEF applied, signals, wrapped, files
<1>7. /\ KindOf(d, signals) = "component" <=> d # tree.environments /\ IsComponent(d, signals)
      /\ KindOf(d, signals) = "module" <=> /\ d # tree.environments /\ ~IsComponent(d, signals)
                                           /\ d \in tree.globbed \/ VariablesOnly(d, signals)
  BY DEF KindOf
<1> QED  BY <1>2, <1>4, <1>5, <1>6, <1>7

(* In whatever order the file system returns its entries, a tree that does *)
(* not change while it is walked gives the same directories, the same set  *)
(* of files in each, the same kinds and the same diagnostics, each once;   *)
(* and the walk fails exactly on the trees with more source files above    *)
(* the depth limit than max_total_files (discovery/fs_walker.rs).  The     *)
(* order of a directory's files is left to the file system.                *)
THEOREM WalkOrderDoesNotMatter == Spec => []DiscoveryOrderFree
<1> DEFINE Inv == Shape /\ FilesInv /\ OrderInv
<1>1. Init => Inv
  <2>1. Init => OrderInv
    BY InitOrder
  <2> QED  BY <2>1, ShapeInit, FilesInit
<1>2. Inv /\ [Next]_vars => Inv'
  BY ShapeStep, FilesStep, OrderStep
<1>3. Inv => DiscoveryOrderFree
  <2> SUFFICES ASSUME Inv, changes = 0, tree.exists PROVE DiscoveryOrderFree
    BY DEF DiscoveryOrderFree
  <2>1. IsFiniteSet(EligibleFiles) /\ Cardinality(EligibleFiles) \in Nat
    <3>1. EligibleFiles \in SUBSET tree.entries
      BY DEF EligibleFiles
    <3> QED  BY <3>1, FS_Subset, FS_CardinalityType DEF Shape, TreeShape
  <2>2. ASSUME totalFiles > MaxTotalFiles  PROVE Cardinality(EligibleFiles) > MaxTotalFiles
    <3>1. totalFiles \in Nat /\ MaxTotalFiles \in Nat
      BY LimitsAreNatural DEF OrderInv, Counted
    <3>2. phase # "root"
      BY <2>2, <3>1 DEF OrderInv, Counted
    <3>3. totalFiles = Cardinality(Taken(tree.dirs))
      BY <3>2 DEF OrderInv, FilesTaken
    <3>4. Taken(tree.dirs) \in SUBSET EligibleFiles
      BY DEF Taken, EligibleFiles
    <3>5. Cardinality(Taken(tree.dirs)) <= Cardinality(EligibleFiles)
      BY <2>1, <3>4, FS_Subset
    <3> QED  BY <2>1, <2>2, <3>1, <3>3, <3>5
  <2>3. ASSUME phase \notin {"root", "walk", "failed"}
        PROVE  /\ seenDirs = WalkedDirs
               /\ totalFiles = Cardinality(EligibleFiles) /\ totalFiles <= MaxTotalFiles
               /\ \A d \in tree.dirs : FilesOf(d) = Expected(d).files
    <3>1. unseen = {}
      BY <2>3 DEF FilesInv, WalkDone
    <3>2. seenDirs = WalkedDirs
      BY <2>3, <3>1 DEF OrderInv, DirsSeen, DepthKept
    <3>3. \A e \in tree.entries : tree.dir[e] \in tree.dirs
      BY DEF Shape, TreeShape
    <3>4. Taken(tree.dirs) = EligibleFiles
      BY <3>1, <3>3 DEF Taken, EligibleFiles
    <3>5. \A d \in tree.dirs : Taken({d}) = Expected(d).files
      BY <3>1 DEF Taken, Expected
    <3> QED  BY <2>3, <3>2, <3>4, <3>5 DEF OrderInv, FilesTaken, Counted
  <2>4. ASSUME phase \notin {"root", "walk", "failed"}, todo = {}, NEW d \in WalkedDirs
        PROVE  /\ kinds[d] = "component" <=> Expected(d).component
               /\ kinds[d] = "module" <=> Expected(d).module
    <3>1. d \in tree.dirs
      BY DEF WalkedDirs
    <3>2. kinds[d] = KindOf(d, Signals(d))
      BY <2>4 DEF OrderInv, KindsTaken
    <3>3. FilesOf(d) = Expected(d).files
      BY <2>3, <2>4, <3>1
    <3> QED  BY <3>1, <3>2, <3>3, ExpectedFound
  <2>5. phase \notin {"root", "walk", "classify", "failed"} => todo = {}
    BY DEF OrderInv, TodoDone, Loaders, Shape, WalkShape, Phases
  <2>6. ASSUME phase = "classify", todo = {}
        PROVE  {diags[k] : k \in DOMAIN diags} = ExpectedDiags /\ SaidOnce
    <3>1. unseen = {} /\ seenDirs = WalkedDirs
      BY <2>3, <2>6 DEF FilesInv, WalkDone
    <3>2. SaidOnce /\ \A code \in Codes, s \in tree.entries \cup tree.dirs :
            <<code, s>> \in ToSet(diags) <=> Due(code, s)
      BY <2>6 DEF OrderInv, DiagsTaken
    <3>3. \A d \in WalkedDirs : kinds[d] = "component" <=> Expected(d).component
      BY <2>4, <2>6
    <3>4. ToSet(diags) \subseteq Codes \X (tree.entries \cup tree.dirs)
      BY DEF Shape, DiagsShape, Diags, ToSet
    <3>5. \A code, s : <<code, s>> \in ExpectedDiags <=>
            \/ code = "TF1100" /\ s \in tree.walled /\ Listed(s)
            \/ code = "TF1110" /\ s \in tree.entries /\ Offered(s) /\ TypeOf(s) = "link"
            \/ code = "TF1103" /\ s \in tree.entries /\ Visible(s) /\ disk[s].size > MaxFileSize
            \/ code = "TF1120" /\ s \in WalkedDirs \cap tree.globbed /\ Expected(s).component
      BY DEF ExpectedDiags
    <3>6. \A code, s : <<code, s>> \in ExpectedDiags <=> Due(code, s)
      BY <2>6, <3>1, <3>3, <3>5 DEF Due
    <3>7. ExpectedDiags \subseteq Codes \X (tree.entries \cup tree.dirs)
      <4>1. tree.walled \subseteq tree.dirs /\ WalkedDirs \subseteq tree.dirs
        BY DEF Shape, TreeShape, WalkedDirs
      <4> QED  BY <4>1 DEF ExpectedDiags, Codes
    <3>8. ToSet(diags) = ExpectedDiags
      <4>1. \A x \in Codes \X (tree.entries \cup tree.dirs) : x \in ToSet(diags) <=> x \in ExpectedDiags
        BY <3>2, <3>6
      <4> QED  BY <3>4, <3>7, <4>1
    <3> QED  BY <3>2, <3>8 DEF ToSet
  <2> QED  BY <2>2, <2>3, <2>4, <2>5, <2>6 DEF DiscoveryOrderFree, SaidOnce
<1> QED  BY <1>1, <1>2, <1>3, PTL DEF Spec

=============================================================================
