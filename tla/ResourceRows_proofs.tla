------------------------- MODULE ResourceRows_proofs -------------------------
(***************************************************************************)
(* Proofs about ResourceRows, for any workspace whose components list what *)
(* they declare, and any limits of a row group: no row is lost or doubled  *)
(* where a group ends, and each component's rows are in address order.     *)
(***************************************************************************)
EXTENDS ResourceRows, FiniteSetTheorems, SequenceTheorems, WellFoundedInduction, TLAPS

-----------------------------------------------------------------------------
(* The invariant.                                                           *)

RowsAt(k) == SortedRows(RowsOf(ws.components[k]))
Row == UNION {Elements(RowsAt(k)) : k \in Components}

\* The rows of the first n components, and those that left the sorted lists.
RowsUpTo(n) == FlattenSeq([k \in 1..n |-> RowsAt(k)])
Written == FlattenSeq(groups) \o builders

\* What was written and what waits to be flushed are the rows of the components
\* before the current one and the first rows of that one.
RowsInv ==
  /\ stage \in {"edges", "resolve"} =>
       builders = << >> /\ groups = << >> /\ emitted = 0 /\ total = 0
  /\ stage \in {"rows", "tables", "done"} =>
       /\ Listed /\ groups \in Seq(Seq(Row)) /\ builders \in Seq(Row)
       /\ total = Len(Written)
  /\ stage = "rows" =>
       \/ /\ at \in Components /\ emitted \in {0} \cup (1..Len(RowsAt(at)))
          /\ Written = RowsUpTo(at - 1) \o SubSeq(RowsAt(at), 1, emitted)
       \/ at = Len(ws.components) + 1 /\ emitted = 0 /\ Written = RowsUpTo(at - 1)
  /\ stage \in {"tables", "done"} =>
       builders = << >> /\ Written = RowsUpTo(Len(ws.components))

-----------------------------------------------------------------------------
(* Lists of lists.                                                          *)

\* A set of numbers that is not empty has a least one.
LEMMA LeastNumber ==
  ASSUME NEW S, S \subseteq Nat, S # {}
  PROVE  \E x \in S : \A y \in S : x <= y
<1>1. PICK x \in S : \A y \in S : ~ (<<y, x>> \in OpToRel(<, Nat))
  BY WFMin, NatLessThanWellFounded, Zenon
<1>2. \A y \in S : ~(y < x)
  BY <1>1 DEF OpToRel
<1> QED  BY <1>2

\* g joins the first lists of s, up to the n-th.
JoinedUpTo(g, s, n) == g = [i \in 1..n |-> IF i = 1 THEN s[i] ELSE g[i - 1] \o s[i]]

LEMMA JoinsStart ==
  ASSUME NEW s, NEW n \in Nat
  PROVE  \E g : JoinedUpTo(g, s, n)
<1> DEFINE Is(g, m) == JoinedUpTo(g, s, m)
           Stuck == {m \in Nat : ~\E g : Is(g, m)}
<1>1. \E g : Is(g, 0)
  <2>1. Is([i \in 1..0 |-> s], 0)
    <3>1. 1..0 = {}
      OBVIOUS
    <3> QED  BY <3>1 DEF JoinedUpTo
  <2> QED  BY <2>1
<1>2. ASSUME NEW m \in Nat, NEW g, Is(g, m)
      PROVE  \E h : Is(h, m + 1)
  <2> DEFINE h == [i \in 1..(m + 1) |->
                     IF i \in 1..m THEN g[i] ELSE IF i = 1 THEN s[i] ELSE g[m] \o s[i]]
  <2>1. ASSUME NEW i \in 1..(m + 1)
        PROVE  h[i] = IF i = 1 THEN s[i] ELSE h[i - 1] \o s[i]
    <3>1. CASE i \in 1..m
      <4>1. h[i] = g[i] /\ g[i] = IF i = 1 THEN s[i] ELSE g[i - 1] \o s[i]
        BY <1>2, <3>1 DEF JoinedUpTo
      <4>2. i # 1 => h[i - 1] = g[i - 1]
        <5>1. i # 1 => i - 1 \in 1..m /\ i - 1 \in 1..(m + 1)
          BY <3>1
        <5> QED  BY <5>1
      <4> QED  BY <4>1, <4>2
    <3>2. CASE i = m + 1
      <4>1. i \notin 1..m /\ i - 1 = m
        BY <3>2
      <4>2. i # 1 => m \in 1..m /\ m \in 1..(m + 1)
        BY <3>2
      <4> QED  BY <4>1, <4>2
    <3> QED  BY <3>1, <3>2
  <2>2. h = [i \in 1..(m + 1) |-> h[i]]
    OBVIOUS
  <2> HIDE DEF h
  <2>3. Is(h, m + 1)
    BY <2>1, <2>2 DEF JoinedUpTo
  <2> QED  BY <2>3
<1>3. Stuck = {}
  <2> SUFFICES ASSUME Stuck # {} PROVE FALSE
    OBVIOUS
  <2>1. Stuck \subseteq Nat
    OBVIOUS
  <2> HIDE DEF Stuck
  <2>2. PICK x \in Stuck : \A y \in Stuck : x <= y
    BY <2>1, LeastNumber
  <2> USE DEF Stuck
  <2>3. x \in Nat /\ x # 0
    BY <1>1, <2>2
  <2>4. PICK m \in Nat : x = m + 1 /\ ~(x <= m)
    <3>1. x - 1 \in Nat /\ x = (x - 1) + 1 /\ ~(x <= x - 1)
      BY <2>3
    <3> QED  BY <3>1
  <2> HIDE DEF Is
  <2>5. PICK g : Is(g, m)
    BY <2>2, <2>4
  <2>6. \E h : Is(h, m + 1)
    BY <1>2, <2>5
  <2> QED  BY <2>2, <2>4, <2>6
<1> QED  BY <1>3

\* The first n of s are lists, and t has the same.
Start(T, n, s, t) == \A i \in 1..n : s[i] \in Seq(T) /\ t[i] = s[i]

\* What is joined is a list, and depends on the lists that are joined only.
LEMMA JoinedLists ==
  ASSUME NEW T, NEW n \in Nat, NEW m, m = n + 1, NEW s, NEW t, NEW g, NEW h,
         JoinedUpTo(g, s, n), JoinedUpTo(h, t, m),
         Start(T, n, s, t)
  PROVE  \A i \in 1..n : g[i] \in Seq(T) /\ h[i] = g[i]
<1> DEFINE Is(i) == g[i] \in Seq(T) /\ h[i] = g[i]
           Odd == {i \in 1..n : ~Is(i)}
<1>1. \A i \in 1..n : /\ g[i] = IF i = 1 THEN s[i] ELSE g[i - 1] \o s[i]
                     /\ h[i] = IF i = 1 THEN t[i] ELSE h[i - 1] \o t[i]
  <2> TAKE i \in 1..n
  <2>1. i \in 1..m
    OBVIOUS
  <2>2. h[i] = IF i = 1 THEN t[i] ELSE h[i - 1] \o t[i]
    BY <2>1 DEF JoinedUpTo
  <2> QED  BY <2>2 DEF JoinedUpTo
<1>2. 1 \in 1..n => Is(1)
  BY <1>1 DEF Start
<1>3. ASSUME NEW i \in 1..n, NEW j \in 1..n, i = j + 1, Is(j)
      PROVE  Is(i)
  <2>1. i # 1 /\ i - 1 = j
    BY <1>3
  <2>2. g[i] = g[j] \o s[i] /\ h[i] = h[j] \o t[i]
    BY <1>1, <2>1
  <2>3. s[i] \in Seq(T) /\ t[i] = s[i]
    BY DEF Start
  <2>4. g[j] \o s[i] \in Seq(T)
    BY <1>3, <2>3, ConcatProperties
  <2> QED  BY <1>3, <2>2, <2>3, <2>4
<1>4. Odd = {}
  <2> SUFFICES ASSUME Odd # {} PROVE FALSE
    OBVIOUS
  <2>1. Odd \subseteq Nat
    OBVIOUS
  <2> HIDE DEF Odd
  <2>2. PICK x \in Odd : \A y \in Odd : x <= y
    BY <2>1, LeastNumber
  <2> USE DEF Odd
  <2> HIDE DEF Is
  <2>3. x \in 1..n /\ x # 1
    BY <1>2, <2>2
  <2>4. PICK j \in 1..n : x = j + 1 /\ ~(x <= j)
    <3>1. x - 1 \in 1..n /\ x = (x - 1) + 1 /\ ~(x <= x - 1)
      BY <2>3
    <3> QED  BY <3>1
  <2>5. Is(j)
    BY <2>2, <2>4
  <2>6. Is(x)
    BY <1>3, <2>3, <2>4, <2>5
  <2> QED  BY <2>2, <2>6
<1> QED  BY <1>4

LEMMA FlattenEmpty == FlattenSeq(<< >>) = << >>
<1>1. Len(<< >>) = 0
  BY EmptySeq
<1> QED  BY <1>1 DEF FlattenSeq

\* One more list at the end.
LEMMA FlattenAppend ==
  ASSUME NEW T, NEW n \in Nat, NEW s, NEW t,
         Len(s) = n, Len(t) = n + 1,
         n = 0 => s = << >>,
         Start(T, n, s, t),
         t[n + 1] \in Seq(T)
  PROVE  /\ FlattenSeq(s) \in Seq(T)
         /\ FlattenSeq(t) = FlattenSeq(s) \o t[n + 1]
<1> DEFINE g == CHOOSE f : JoinedUpTo(f, s, n)
           h == CHOOSE f : JoinedUpTo(f, t, n + 1)
<1>1. JoinedUpTo(g, s, n)
  <2>1. \E f : JoinedUpTo(f, s, n)
    BY JoinsStart
  <2> QED  BY <2>1, Zenon
<1>2. JoinedUpTo(h, t, n + 1)
  <2>1. n + 1 \in Nat
    OBVIOUS
  <2>2. \E f : JoinedUpTo(f, t, n + 1)
    BY <2>1, JoinsStart
  <2> QED  BY <2>2, Zenon
<1>3. FlattenSeq(t) = h[n + 1]
  <2>1. Len(t) # 0
    OBVIOUS
  <2> QED  BY <2>1 DEF FlattenSeq, JoinedUpTo
<1>4. n # 0 => FlattenSeq(s) = g[n]
  BY DEF FlattenSeq, JoinedUpTo
<1> HIDE DEF g, h
<1>5. \A i \in 1..n : g[i] \in Seq(T) /\ h[i] = g[i]
  BY <1>1, <1>2, JoinedLists
<1>6. h[n + 1] = IF n + 1 = 1 THEN t[n + 1] ELSE h[(n + 1) - 1] \o t[n + 1]
  <2>1. n + 1 \in 1..(n + 1)
    OBVIOUS
  <2> QED  BY <1>2, <2>1 DEF JoinedUpTo
<1>7. CASE n = 0
  <2>1. FlattenSeq(s) = << >> /\ << >> \in Seq(T)
    BY <1>7, FlattenEmpty, EmptySeq
  <2>2. << >> \o t[n + 1] = t[n + 1]
    BY ConcatEmptySeq
  <2> QED  BY <1>3, <1>6, <1>7, <2>1, <2>2
<1>8. CASE n # 0
  <2>1. n \in 1..n /\ (n + 1) - 1 = n /\ n + 1 # 1
    BY <1>8
  <2> QED  BY <1>3, <1>4, <1>5, <1>6, <1>8, <2>1
<1> QED  BY <1>7, <1>8

-----------------------------------------------------------------------------
(* The rows of a component.                                                 *)

\* A function on 1..n is a sequence of its values.
LEMMA ListOf ==
  ASSUME NEW n \in Nat, NEW s, s = [k \in 1..n |-> s[k]]
  PROVE  s \in Seq({s[k] : k \in 1..n}) /\ Len(s) = n
<1>1. s \in [1..n -> {s[k] : k \in 1..n}]
  OBVIOUS
<1> QED  BY <1>1

\* Two sequences make one.
LEMMA Joined ==
  ASSUME NEW S, NEW T, NEW a \in Seq(S), NEW b \in Seq(T)
  PROVE  a \o b \in Seq(S \cup T)
<1>1. a \in Seq(S \cup T) /\ b \in Seq(S \cup T)
  BY SeqMonotonic
<1> QED  BY <1>1, ConcatProperties

LEMMA RowsListed ==
  ASSUME NEW c, \A k \in 1..6 : Len(Lists(c)[k]) \in Nat
  PROVE  \E S : RowsOf(c) \in Seq(S)
<1> DEFINE a == [k \in 1..Len(c.resources) |-> ResourceRow(c, c.resources[k])]
           b == [k \in 1..Len(c.providers) |-> ProviderRow(c, c.providers[k])]
           d == [k \in 1..Len(c.modules) |-> ModuleCallRow(c, c.modules[k])]
           e == [k \in 1..Len(c.variables) |-> VariableRow(c, c.variables[k])]
           f == [k \in 1..Len(c.locals) |-> LocalRow(c, c.locals[k])]
           g == [k \in 1..Len(c.outputs) |-> OutputRow(c, c.outputs[k])]
<1>1. RowsOf(c) = a \o b \o d \o e \o f \o g
  BY DEF RowsOf
<1>2. /\ Len(c.resources) \in Nat /\ Len(c.providers) \in Nat /\ Len(c.modules) \in Nat
      /\ Len(c.variables) \in Nat /\ Len(c.locals) \in Nat /\ Len(c.outputs) \in Nat
  <2>1. /\ Lists(c)[1] = c.resources /\ Lists(c)[2] = c.providers /\ Lists(c)[3] = c.modules
        /\ Lists(c)[4] = c.variables /\ Lists(c)[5] = c.locals /\ Lists(c)[6] = c.outputs
    BY DEF Lists
  <2>2. 1 \in 1..6 /\ 2 \in 1..6 /\ 3 \in 1..6 /\ 4 \in 1..6 /\ 5 \in 1..6 /\ 6 \in 1..6
    OBVIOUS
  <2> QED  BY <2>1, <2>2
<1>3. PICK A, B, D, E, F, G :
        a \in Seq(A) /\ b \in Seq(B) /\ d \in Seq(D) /\ e \in Seq(E) /\ f \in Seq(F) /\ g \in Seq(G)
  <2>1. \E S : a \in Seq(S)
    <3>1. a = [k \in 1..Len(c.resources) |-> a[k]]
      OBVIOUS
    <3> HIDE DEF a
    <3> QED  BY <1>2, <3>1, ListOf
  <2>2. \E S : b \in Seq(S)
    <3>1. b = [k \in 1..Len(c.providers) |-> b[k]]
      OBVIOUS
    <3> HIDE DEF b
    <3> QED  BY <1>2, <3>1, ListOf
  <2>3. \E S : d \in Seq(S)
    <3>1. d = [k \in 1..Len(c.modules) |-> d[k]]
      OBVIOUS
    <3> HIDE DEF d
    <3> QED  BY <1>2, <3>1, ListOf
  <2>4. \E S : e \in Seq(S)
    <3>1. e = [k \in 1..Len(c.variables) |-> e[k]]
      OBVIOUS
    <3> HIDE DEF e
    <3> QED  BY <1>2, <3>1, ListOf
  <2>5. \E S : f \in Seq(S)
    <3>1. f = [k \in 1..Len(c.locals) |-> f[k]]
      OBVIOUS
    <3> HIDE DEF f
    <3> QED  BY <1>2, <3>1, ListOf
  <2>6. \E S : g \in Seq(S)
    <3>1. g = [k \in 1..Len(c.outputs) |-> g[k]]
      OBVIOUS
    <3> HIDE DEF g
    <3> QED  BY <1>2, <3>1, ListOf
  <2> HIDE DEF a, b, d, e, f, g
  <2> QED  BY <2>1, <2>2, <2>3, <2>4, <2>5, <2>6, Zenon
<1> HIDE DEF a, b, d, e, f, g
<1>4. \E S : a \o b \in Seq(S)
  BY <1>3, Joined
<1>5. \E S : a \o b \o d \in Seq(S)
  BY <1>3, <1>4, Joined
<1>6. \E S : a \o b \o d \o e \in Seq(S)
  BY <1>3, <1>5, Joined
<1>7. \E S : a \o b \o d \o e \o f \in Seq(S)
  BY <1>3, <1>6, Joined
<1>8. \E S : a \o b \o d \o e \o f \o g \in Seq(S)
  BY <1>3, <1>7, Joined
<1> QED  BY <1>1, <1>8

LEMMA SortedLength ==
  ASSUME NEW rows, Len(rows) \in Nat
  PROVE  /\ SortedRows(rows) \in Seq(Elements(SortedRows(rows)))
         /\ Len(SortedRows(rows)) = Len(rows)
<1> DEFINE s == SortedRows(rows)
<1>1. s = [n \in 1..Len(rows) |-> s[n]]
  BY DEF SortedRows
<1> HIDE DEF s
<1>2. s \in Seq({s[n] : n \in 1..Len(rows)}) /\ Len(s) = Len(rows)
  BY <1>1, ListOf
<1>3. s \in Seq(Elements(s)) /\ Len(s) = Len(rows)
  BY <1>2 DEF Elements
<1> QED  BY <1>3 DEF s

\* The sorted rows of a component are rows of the workspace.
LEMMA RowsAtList ==
  ASSUME Listed, NEW k \in Components
  PROVE  /\ RowsAt(k) \in Seq(Row)
         /\ Len(RowsAt(k)) = Len(RowsOf(ws.components[k]))
<1> DEFINE c == ws.components[k]
<1>1. c \in Elements(ws.components)
  BY DEF Elements, Components
<1>2. \A j \in 1..6 : Len(Lists(c)[j]) \in Nat
  BY <1>1 DEF Listed
<1>3. PICK S : RowsOf(c) \in Seq(S)
  BY <1>2, RowsListed
<1>4. Len(RowsOf(c)) \in Nat
  BY <1>3, LenProperties
<1>5. RowsAt(k) \in Seq(Elements(RowsAt(k))) /\ Len(RowsAt(k)) = Len(RowsOf(c))
  BY <1>4, SortedLength DEF RowsAt
<1>6. Elements(RowsAt(k)) \subseteq Row
  BY DEF Row
<1> QED  BY <1>5, <1>6, SeqMonotonic

-----------------------------------------------------------------------------
(* What is written, and what is to be.                                      *)

\* A list of lists, and one more at the end.
LEMMA FlatAppend ==
  ASSUME NEW T, NEW s \in Seq(Seq(T)), NEW x \in Seq(T)
  PROVE  /\ FlattenSeq(s) \in Seq(T)
         /\ FlattenSeq(Append(s, x)) = FlattenSeq(s) \o x
<1>1. PICK n \in Nat : n = Len(s)
  BY LenProperties
<1>2. PICK t : t = Append(s, x)
  OBVIOUS
<1>3. Len(t) = n + 1 /\ t[n + 1] = x /\ \A i \in 1..n : t[i] = s[i]
  BY <1>1, <1>2, AppendProperties
<1>4. Start(T, n, s, t)
  <2>1. \A i \in 1..n : s[i] \in Seq(T)
    BY <1>1, ElementOfSeq
  <2> QED  BY <1>3, <2>1 DEF Start
<1>5. n = 0 => s = << >>
  BY <1>1, EmptySeq
<1>6. FlattenSeq(s) \in Seq(T) /\ FlattenSeq(t) = FlattenSeq(s) \o t[n + 1]
  <2>1. Len(s) = n /\ Len(t) = n + 1 /\ t[n + 1] \in Seq(T)
    BY <1>1, <1>3
  <2> HIDE <1>2
  <2> QED  BY <1>4, <1>5, <2>1, FlattenAppend
<1> QED  BY <1>2, <1>3, <1>6

LEMMA NoRowsYet == RowsUpTo(0) = << >> /\ RowsUpTo(0)' = << >>
<1>1. ASSUME NEW s, s = [k \in 1..0 |-> s[k]] PROVE FlattenSeq(s) = << >>
  <2>1. s \in Seq({s[k] : k \in 1..0}) /\ Len(s) = 0
    BY <1>1, ListOf
  <2> QED  BY <2>1, EmptySeq, FlattenEmpty
<1> DEFINE s == [k \in 1..0 |-> RowsAt(k)]
           t == [k \in 1..0 |-> RowsAt(k)']
<1>2. RowsUpTo(0) = FlattenSeq(s) /\ RowsUpTo(0)' = FlattenSeq(t)
  BY DEF RowsUpTo
<1>3. s = [k \in 1..0 |-> s[k]] /\ t = [k \in 1..0 |-> t[k]]
  OBVIOUS
<1> HIDE DEF s, t
<1> QED  BY <1>1, <1>2, <1>3

\* The rows up to a component are those up to the one before it, and its own.
LEMMA RowsOfNext ==
  ASSUME Listed, NEW n \in Nat, n + 1 \in Components
  PROVE  /\ RowsUpTo(n) \in Seq(Row)
         /\ RowsUpTo(n + 1) = RowsUpTo(n) \o RowsAt(n + 1)
<1> DEFINE s == [k \in 1..n |-> RowsAt(k)]
           t == [k \in 1..(n + 1) |-> RowsAt(k)]
<1>1. \A k \in 1..(n + 1) : k \in Components
  BY DEF Components, Listed
<1>2. \A k \in 1..(n + 1) : RowsAt(k) \in Seq(Row)
  BY <1>1, RowsAtList
<1>3. s \in Seq(Seq(Row)) /\ Len(s) = n
  <2>1. s \in [1..n -> Seq(Row)]
    <3>1. \A k \in 1..n : k \in 1..(n + 1)
      OBVIOUS
    <3> QED  BY <1>2, <3>1
  <2> QED  BY <2>1
<1>4. t \in Seq(Seq(Row)) /\ Len(t) = n + 1
  <2>1. t \in [1..(n + 1) -> Seq(Row)]
    BY <1>2
  <2> QED  BY <2>1
<1>5. t[n + 1] = RowsAt(n + 1) /\ \A k \in 1..n : t[k] = s[k]
  OBVIOUS
<1>6. RowsUpTo(n) = FlattenSeq(s) /\ RowsUpTo(n + 1) = FlattenSeq(t)
  BY DEF RowsUpTo
<1>7. n + 1 \in 1..(n + 1)
  OBVIOUS
<1> HIDE DEF s, t
<1>8. Start(Row, n, s, t)
  BY <1>3, <1>5, ElementOfSeq DEF Start
<1>9. n = 0 => s = << >>
  BY <1>3, EmptySeq
<1> QED  BY <1>2, <1>3, <1>4, <1>5, <1>6, <1>7, <1>8, <1>9, FlattenAppend

\* Flushed or not, a row comes after those written before it.
LEMMA RowAppended ==
  ASSUME groups \in Seq(Seq(Row)), builders \in Seq(Row), NEW row \in Row,
         LET pending == Append(builders, row)
         IN  \/ builders' = << >> /\ groups' = Append(groups, pending)
             \/ builders' = pending /\ groups' = groups
  PROVE  /\ groups' \in Seq(Seq(Row)) /\ builders' \in Seq(Row)
         /\ Written \in Seq(Row) /\ Written' = Append(Written, row)
<1> DEFINE pending == Append(builders, row)
<1>1. pending \in Seq(Row) /\ pending = builders \o <<row>> /\ <<row>> \in Seq(Row)
  BY AppendProperties, AppendIsConcat
<1>2. /\ FlattenSeq(groups) \in Seq(Row)
      /\ FlattenSeq(Append(groups, pending)) = FlattenSeq(groups) \o pending
  BY <1>1, FlatAppend
<1>3. Written \in Seq(Row)
  BY <1>2, ConcatProperties DEF Written
<1>4. Append(Written, row) = FlattenSeq(groups) \o pending
  <2>1. Append(Written, row) = Written \o <<row>>
    BY <1>3, AppendIsConcat
  <2> DEFINE flat == FlattenSeq(groups)
  <2>2. flat \in Seq(Row) /\ Written = flat \o builders
    BY <1>2 DEF Written
  <2> HIDE DEF flat
  <2>3. (flat \o builders) \o <<row>> = flat \o (builders \o <<row>>)
    BY <1>1, <2>2, ConcatAssociative
  <2> QED  BY <1>1, <2>1, <2>2, <2>3 DEF flat
<1>5. FlattenSeq(groups) \o pending \in Seq(Row)
  BY <1>1, <1>2, ConcatProperties
<1>6. CASE builders' = << >> /\ groups' = Append(groups, pending)
  <2>1. groups' \in Seq(Seq(Row)) /\ builders' \in Seq(Row)
    BY <1>1, <1>6, AppendProperties, EmptySeq
  <2>2. Written' = (FlattenSeq(groups) \o pending) \o << >>
    BY <1>2, <1>6 DEF Written
  <2> QED  BY <1>3, <1>4, <1>5, <2>1, <2>2, ConcatEmptySeq
<1>7. CASE builders' = pending /\ groups' = groups
  BY <1>1, <1>3, <1>4, <1>7 DEF Written
<1> QED  BY <1>6, <1>7

LEMMA RowsInitInv == stage = "edges" /\ RowsInit => RowsInv
  BY DEF RowsInit, RowsInv

LEMMA SameRows ==
  ASSUME ws' = ws
  PROVE  /\ Row' = Row /\ (Listed' <=> Listed) /\ Components' = Components
         /\ \A k : RowsAt(k)' = RowsAt(k) /\ RowsUpTo(k)' = RowsUpTo(k)
<1>1. \A k : RowsAt(k)' = RowsAt(k)
  BY DEF RowsAt, SortedRows, Rank
<1>2. Components' = Components
  BY DEF Components
<1> QED  BY <1>1, <1>2 DEF Row, Listed, RowsUpTo

LEMMA RowsBegin == ASSUME RowsInv, StagesBeforeRows PROVE RowsInv'
<1>1. /\ stage \in {"edges", "resolve"}
      /\ stage' \in {"edges", "resolve", "failed"} \/ (stage' = "rows" /\ at' = 1 /\ Listed')
      /\ builders' = builders /\ groups' = groups /\ emitted' = emitted /\ total' = total
  BY DEF StagesBeforeRows, Advance, rowVars
<1>2. builders' = << >> /\ groups' = << >> /\ emitted' = 0 /\ total' = 0
  BY <1>1 DEF RowsInv
<1>3. CASE stage' \in {"edges", "resolve", "failed"}
  BY <1>2, <1>3 DEF RowsInv
<1>4. CASE stage' = "rows" /\ at' = 1 /\ Listed'
  <2>1. groups' \in Seq(Seq(Row')) /\ builders' \in Seq(Row')
    BY <1>2, EmptySeq
  <2>2. Written' = << >>
    <3>1. << >> \o << >> = << >>
      BY EmptySeq, ConcatEmptySeq
    <3> QED  BY <1>2, <3>1, FlattenEmpty DEF Written
  <2>3. total' = Len(Written')
    BY <1>2, <2>2, EmptySeq
  <2>4. at' - 1 = 0 /\ RowsUpTo(0)' = << >> /\ << >> \o << >> = << >>
    BY <1>4, NoRowsYet, EmptySeq, ConcatEmptySeq
  <2>5. Len(ws'.components) \in Nat
    BY <1>4 DEF Listed
  <2>6. SubSeq(RowsAt(at)', 1, emitted') = << >>
    BY <1>2, SubSeqEmpty
  <2>7. at' \in Components' \/ at' = Len(ws'.components) + 1
    BY <1>4, <2>5 DEF Components
  <2> QED  BY <1>2, <1>4, <2>1, <2>2, <2>3, <2>4, <2>6, <2>7 DEF RowsInv
<1> QED  BY <1>1, <1>3, <1>4

LEMMA RowsEmit == ASSUME RowsInv, EmitRow PROVE RowsInv'
<1> DEFINE rows == RowsAt(at)
           row == rows[emitted + 1]
<1>1. /\ stage = "rows" /\ at \in Components /\ emitted < Len(rows)
      /\ stage' = stage /\ at' = at /\ ws' = ws
      /\ emitted' = emitted + 1 /\ total' = total + 1
      /\ \/ builders' = << >> /\ groups' = Append(groups, Append(builders, row))
         \/ builders' = Append(builders, row) /\ groups' = groups
  BY Zenon DEF EmitRow, RowsAt
<1>2. /\ Listed /\ groups \in Seq(Seq(Row)) /\ builders \in Seq(Row) /\ total = Len(Written)
      /\ at \in 1..Len(ws.components) /\ Len(ws.components) \in Nat
  BY <1>1 DEF RowsInv, Listed, Components
<1>3. rows \in Seq(Row) /\ Len(rows) \in Nat
  BY <1>1, <1>2, RowsAtList, LenProperties
<1>4. /\ emitted \in 0..Len(rows)
      /\ Written = RowsUpTo(at - 1) \o SubSeq(rows, 1, emitted)
  <2>1. at # Len(ws.components) + 1
    BY <1>2
  <2> HIDE DEF rows
  <2>2. emitted \in {0} \cup (1..Len(rows)) /\ Written = RowsUpTo(at - 1) \o SubSeq(rows, 1, emitted)
    BY <1>1, <2>1 DEF RowsInv, rows
  <2> QED  BY <1>3, <2>2
<1>5. emitted + 1 \in 1..Len(rows)
  BY <1>1, <1>3, <1>4
<1>6. row \in Row
  BY <1>3, <1>5, ElementOfSeq
<1>7. /\ groups' \in Seq(Seq(Row)) /\ builders' \in Seq(Row)
      /\ Written \in Seq(Row) /\ Written' = Append(Written, row)
  <2> HIDE DEF row
  <2> QED  BY <1>1, <1>2, <1>6, RowAppended
<1>8. RowsUpTo(at - 1) \in Seq(Row)
  <2>1. at - 1 \in Nat /\ (at - 1) + 1 = at
    BY <1>2
  <2> QED  BY <1>1, <1>2, <2>1, RowsOfNext
<1>9. Append(Written, row) = RowsUpTo(at - 1) \o SubSeq(rows, 1, emitted + 1)
  <2> DEFINE first == SubSeq(rows, 1, emitted)
             before == RowsUpTo(at - 1)
  <2>1. first \in Seq(Row)
    BY <1>3, <1>4, ElementOfSeq, SubSeqProperties
  <2>2. SubSeq(rows, 1, emitted + 1) = first \o <<row>>
    <3>1. 1 \in 1..Len(rows) /\ emitted + 1 \in 1..Len(rows) /\ (emitted + 1) - 1 = emitted
      BY <1>3, <1>4, <1>5
    <3> HIDE DEF rows
    <3> QED  BY <1>3, <3>1, SubSeqRecursiveSecond
  <2>3. Append(Written, row) = Written \o <<row>> /\ <<row>> \in Seq(Row)
    <3> HIDE DEF row
    <3> QED  BY <1>6, <1>7, AppendIsConcat
  <2>4. (before \o first) \o <<row>> = before \o (first \o <<row>>)
    <3> HIDE DEF before, first, row
    <3> QED  BY <1>8, <2>1, <2>3, ConcatAssociative DEF before
  <2> QED  BY <1>4, <2>2, <2>3, <2>4
<1>10. total' = Len(Written')
  <2> HIDE DEF row
  <2> QED  BY <1>1, <1>2, <1>6, <1>7, AppendProperties
<1>11. /\ Row' = Row /\ Listed' /\ Components' = Components
       /\ \A k : RowsAt(k)' = RowsAt(k) /\ RowsUpTo(k)' = RowsUpTo(k)
  BY <1>1, <1>2, SameRows
<1>12. RowsUpTo(at - 1)' = RowsUpTo(at - 1) /\ RowsAt(at)' = rows
  BY <1>1, <1>11 DEF RowsUpTo, RowsAt
<1>13. Written' = RowsUpTo(at - 1)' \o SubSeq(RowsAt(at)', 1, emitted')
  <2> HIDE DEF rows, row
  <2> QED  BY <1>1, <1>7, <1>9, <1>12
<1> QED  BY <1>1, <1>5, <1>7, <1>10, <1>11, <1>12, <1>13 DEF RowsInv

LEMMA RowsTurn == ASSUME RowsInv, NextComponent PROVE RowsInv'
<1> DEFINE rows == RowsAt(at)
<1>1. /\ stage = "rows" /\ at \in Components /\ emitted = Len(RowsOf(ws.components[at]))
      /\ emitted' = 0 /\ at' = at + 1
      /\ ws' = ws /\ stage' = stage /\ builders' = builders /\ groups' = groups /\ total' = total
  BY DEF NextComponent
<1>2. /\ Listed /\ groups \in Seq(Seq(Row)) /\ builders \in Seq(Row) /\ total = Len(Written)
      /\ at \in 1..Len(ws.components) /\ Len(ws.components) \in Nat
  BY <1>1 DEF RowsInv, Listed, Components
<1>3. rows \in Seq(Row) /\ emitted = Len(rows)
  BY <1>1, <1>2, RowsAtList
<1>4. Written = RowsUpTo(at - 1) \o SubSeq(rows, 1, emitted)
  <2>1. at # Len(ws.components) + 1
    BY <1>2
  <2> HIDE DEF rows
  <2> QED  BY <1>1, <2>1 DEF RowsInv, rows
<1>5. Written = RowsUpTo(at)
  <2>1. SubSeq(rows, 1, emitted) = rows
    BY <1>3, SubSeqFull
  <2>2. at - 1 \in Nat /\ (at - 1) + 1 = at
    BY <1>2
  <2>3. RowsUpTo(at) = RowsUpTo(at - 1) \o rows
    <3>1. RowsUpTo((at - 1) + 1) = RowsUpTo(at - 1) \o RowsAt((at - 1) + 1)
      BY <1>1, <1>2, <2>2, RowsOfNext
    <3> QED  BY <2>2, <3>1
  <2> QED  BY <1>4, <2>1, <2>3
<1>6. Written \in Seq(Row)
  <2>1. FlattenSeq(groups) \in Seq(Row)
    BY <1>2, EmptySeq, FlatAppend
  <2> QED  BY <1>2, <2>1, ConcatProperties DEF Written
<1>7. /\ Row' = Row /\ Listed' /\ Components' = Components
      /\ \A k : RowsAt(k)' = RowsAt(k) /\ RowsUpTo(k)' = RowsUpTo(k)
  BY <1>1, <1>2, SameRows
<1>8. Written' = Written /\ at' - 1 = at
  BY <1>1, <1>2 DEF Written
<1>9. RowsUpTo(at - 1)' = RowsUpTo(at)
  BY <1>7, <1>8 DEF RowsUpTo
<1>10. Written' = RowsUpTo(at - 1)' \o SubSeq(RowsAt(at)', 1, emitted') /\ Written' = RowsUpTo(at - 1)'
  <2>1. SubSeq(RowsAt(at)', 1, emitted') = << >>
    BY <1>1, SubSeqEmpty
  <2>2. Written \o << >> = Written
    BY <1>6, ConcatEmptySeq
  <2> QED  BY <1>5, <1>8, <1>9, <2>1, <2>2
<1>11. at' \in Components' \/ at' = Len(ws'.components) + 1
  BY <1>1, <1>2 DEF Components
<1>12. groups' \in Seq(Seq(Row')) /\ builders' \in Seq(Row') /\ total' = Len(Written')
  BY <1>1, <1>2, <1>7, <1>8
<1> QED  BY <1>1, <1>7, <1>10, <1>11, <1>12 DEF RowsInv

LEMMA RowsFinish == ASSUME RowsInv, FinishRows PROVE RowsInv'
<1>1. /\ stage = "rows" /\ at \notin Components
      /\ groups' = LastFlush(builders, groups) /\ builders' = << >>
      /\ stage' = "tables" /\ ws' = ws /\ total' = total
  BY DEF FinishRows, Advance
<1>2. /\ Listed /\ groups \in Seq(Seq(Row)) /\ builders \in Seq(Row) /\ total = Len(Written)
      /\ at = Len(ws.components) + 1 /\ Written = RowsUpTo(at - 1)
  BY <1>1 DEF RowsInv
<1>3. Written = RowsUpTo(Len(ws.components))
  <2>1. at - 1 = Len(ws.components)
    BY <1>2 DEF Listed
  <2> QED  BY <1>2, <2>1
<1>4. /\ FlattenSeq(groups) \in Seq(Row)
      /\ FlattenSeq(Append(groups, builders)) = FlattenSeq(groups) \o builders
  BY <1>2, FlatAppend
<1>5. groups' \in Seq(Seq(Row)) /\ FlattenSeq(groups') = Written /\ Written \in Seq(Row)
  <2>1. Written \in Seq(Row)
    BY <1>2, <1>4, ConcatProperties DEF Written
  <2>2. CASE builders = << >>
    BY <1>1, <1>2, <1>4, <2>1, <2>2, ConcatEmptySeq DEF LastFlush, Written
  <2>3. CASE builders # << >>
    BY <1>1, <1>2, <1>4, <2>1, <2>3, AppendProperties DEF LastFlush, Written
  <2> QED  BY <2>2, <2>3
<1>6. Written' = Written
  <2>1. Written' = FlattenSeq(groups') \o << >>
    BY <1>1 DEF Written
  <2> QED  BY <1>5, <2>1, ConcatEmptySeq
<1>7. /\ Row' = Row /\ Listed'
      /\ \A k : RowsUpTo(k)' = RowsUpTo(k)
  BY <1>1, <1>2, SameRows
<1>8. RowsUpTo(Len(ws.components))' = RowsUpTo(Len(ws.components))
  BY <1>1, <1>7 DEF RowsUpTo
<1>9. groups' \in Seq(Seq(Row')) /\ builders' \in Seq(Row')
  BY <1>1, <1>5, <1>7, EmptySeq
<1> QED  BY <1>1, <1>2, <1>3, <1>6, <1>7, <1>8, <1>9 DEF RowsInv

\* Where neither the workspace nor what was written changes.
LEMMA RowsStay ==
  ASSUME RowsInv, UNCHANGED <<ws, rowVars>>,
         UNCHANGED <<stage, at>> \/ StageAfterRows
  PROVE  RowsInv'
<1>1. /\ ws' = ws /\ builders' = builders /\ groups' = groups /\ emitted' = emitted /\ total' = total
  BY DEF rowVars
<1>2. /\ Row' = Row /\ (Listed' <=> Listed) /\ Components' = Components
      /\ \A k : RowsAt(k)' = RowsAt(k) /\ RowsUpTo(k)' = RowsUpTo(k)
  BY <1>1, SameRows
<1>3. Written' = Written
  BY <1>1 DEF Written
<1>4. RowsUpTo(Len(ws.components))' = RowsUpTo(Len(ws.components))
  BY <1>1, <1>2 DEF RowsUpTo
<1>5. CASE UNCHANGED <<stage, at>>
  <2>1. RowsUpTo(at - 1)' = RowsUpTo(at - 1) /\ RowsAt(at)' = RowsAt(at)
    BY <1>2, <1>5 DEF RowsUpTo, RowsAt
  <2> QED  BY <1>1, <1>2, <1>3, <1>4, <1>5, <2>1 DEF RowsInv
<1>6. CASE StageAfterRows
  <2>1. stage = "tables" /\ stage' \in {"tables", "done"}
    BY <1>6 DEF StageAfterRows
  <2> QED  BY <1>1, <1>2, <1>3, <1>4, <2>1 DEF RowsInv
<1> QED  BY <1>5, <1>6

\* Wherever the row groups are cut, the file has every row of every component once,
\* component by component and each in the order of its addresses, and the row count
\* in the manifest is that of the file.
THEOREM EveryRowIsWritten == RowsSpec => []RowsAllWritten
<1>1. stage = "edges" /\ RowsInit => RowsInv
  BY RowsInitInv
<1>2. RowsInv /\ [RowsNext]_<<ws, stage, at, rowVars>> => RowsInv'
  <2> SUFFICES ASSUME RowsInv, [RowsNext]_<<ws, stage, at, rowVars>> PROVE RowsInv'
    OBVIOUS
  <2>1. CASE StagesBeforeRows
    BY <2>1, RowsBegin
  <2>2. CASE EmitRow
    BY <2>2, RowsEmit
  <2>3. CASE NextComponent
    BY <2>3, RowsTurn
  <2>4. CASE FinishRows
    BY <2>4, RowsFinish
  <2>5. CASE StageAfterRows
    <3>1. UNCHANGED <<ws, rowVars>>
      BY <2>5 DEF StageAfterRows
    <3> QED  BY <2>5, <3>1, RowsStay
  <2>6. CASE UNCHANGED <<ws, stage, at, rowVars>>
    BY <2>6, RowsStay
  <2> QED  BY <2>1, <2>2, <2>3, <2>4, <2>5, <2>6 DEF RowsNext
<1>3. RowsInv => RowsAllWritten
  <2> SUFFICES ASSUME RowsInv, stage \in {"tables", "done"}
               PROVE  /\ RowsInFile = RowsUpTo(Len(ws.components))
                      /\ total = Len(RowsInFile)
    BY DEF RowsAllWritten, RowsUpTo, RowsAt, Components
  <2>1. /\ groups \in Seq(Seq(Row)) /\ builders = << >> /\ total = Len(Written)
        /\ Written = RowsUpTo(Len(ws.components))
    BY DEF RowsInv
  <2>2. FlattenSeq(groups) \in Seq(Row)
    BY <2>1, EmptySeq, FlatAppend
  <2>3. Written = RowsInFile
    BY <2>1, <2>2, ConcatEmptySeq DEF Written, RowsInFile
  <2> QED  BY <2>1, <2>3
<1> QED  BY <1>1, <1>2, <1>3, PTL DEF RowsSpec

-----------------------------------------------------------------------------
(* The order of the rows.                                                   *)

Below(rows, j, k) ==
  \/ Rank(rows[j]) < Rank(rows[k])
  \/ Rank(rows[j]) = Rank(rows[k]) /\ j < k

Before(rows, k) == {j \in 1..Len(rows) : Below(rows, j, k)}
Ranked(rows) == Len(rows) \in Nat /\ \A k \in 1..Len(rows) : Rank(rows[k]) \in Nat

LEMMA BelowIsOrder ==
  ASSUME NEW rows, Ranked(rows)
  PROVE  /\ \A j, k \in 1..Len(rows) : j = k \/ Below(rows, j, k) \/ Below(rows, k, j)
         /\ \A j \in 1..Len(rows) : ~Below(rows, j, j)
         /\ \A i, j, k \in 1..Len(rows) : Below(rows, i, j) /\ Below(rows, j, k) => Below(rows, i, k)
<1>1. /\ Len(rows) \in Nat
      /\ \A k \in 1..Len(rows) : Rank(rows[k]) \in Nat
  BY DEF Ranked
<1> QED  BY <1>1 DEF Below

\* Of two rows, the one that is below has fewer before it.
LEMMA BeforeCounts ==
  ASSUME NEW rows, Ranked(rows), NEW k \in 1..Len(rows)
  PROVE  /\ IsFiniteSet(Before(rows, k))
         /\ Cardinality(Before(rows, k)) \in 0..(Len(rows) - 1)
         /\ \A j \in 1..Len(rows) :
              Below(rows, j, k) => Cardinality(Before(rows, j)) < Cardinality(Before(rows, k))
<1> DEFINE n == Len(rows)
<1>1. n \in Nat /\ IsFiniteSet(1..n) /\ Cardinality(1..n) = n
  BY FS_Interval DEF Ranked
<1>2. \A j \in 1..n : /\ Before(rows, j) \subseteq 1..n /\ IsFiniteSet(Before(rows, j))
                      /\ Cardinality(Before(rows, j)) \in Nat
  <2> TAKE j \in 1..n
  <2>1. Before(rows, j) \subseteq 1..n
    BY DEF Before
  <2> QED  BY <1>1, <2>1, FS_Subset, FS_CardinalityType
<1>3. ASSUME NEW j \in 1..n, NEW S, S \subseteq 1..n, Before(rows, j) \subseteq S, j \in S
      PROVE  Cardinality(Before(rows, j)) < Cardinality(S)
  <2>1. IsFiniteSet(S)
    BY <1>1, <1>3, FS_Subset
  <2>2. j \notin Before(rows, j)
    BY BelowIsOrder DEF Before
  <2>3. Cardinality(Before(rows, j) \cup {j}) = Cardinality(Before(rows, j)) + 1
    BY <1>2, <2>2, FS_AddElement
  <2>4. Cardinality(Before(rows, j) \cup {j}) <= Cardinality(S)
    BY <1>3, <2>1, FS_Subset
  <2>5. Cardinality(S) \in Nat
    BY <2>1, FS_CardinalityType
  <2> QED  BY <1>2, <2>3, <2>4, <2>5
<1>4. Cardinality(Before(rows, k)) < n
  BY <1>1, <1>2, <1>3
<1>5. ASSUME NEW j \in 1..n, Below(rows, j, k)
      PROVE  Cardinality(Before(rows, j)) < Cardinality(Before(rows, k))
  <2>1. Before(rows, j) \subseteq Before(rows, k) /\ j \in Before(rows, k)
    BY <1>5, BelowIsOrder DEF Before
  <2> QED  BY <1>2, <1>3, <2>1
<1> QED  BY <1>1, <1>2, <1>4, <1>5

\* Sorting a component's rows loses and doubles none: each comes once, in the order
\* of the addresses, and rows of one address keep their order.
THEOREM SortingKeepsRows ==
  ASSUME NEW rows, Ranked(rows)
  PROVE  \E from \in Bijection(1..Len(rows), 1..Len(rows)) :
           /\ \A i \in 1..Len(rows) : SortedRows(rows)[i] = rows[from[i]]
           /\ \A i, j \in 1..Len(rows) : i < j => Below(rows, from[i], from[j])
<1> DEFINE n == Len(rows)
           place == [k \in 1..n |-> Cardinality(Before(rows, k)) + 1]
           from == [i \in 1..n |-> CHOOSE k \in 1..n : Cardinality(Before(rows, k)) = i - 1]
<1>1. n \in Nat /\ IsFiniteSet(1..n) /\ Cardinality(1..n) = n
  <2>1. n \in Nat
    BY DEF Ranked
  <2> HIDE DEF n
  <2> QED  BY <2>1, FS_Interval
<1>2. \A k \in 1..n : Cardinality(Before(rows, k)) \in 0..(n - 1)
  BY BeforeCounts
<1>3. ASSUME NEW j \in 1..n, NEW k \in 1..n, place[j] = place[k]  PROVE j = k
  <2>1. Cardinality(Before(rows, j)) = Cardinality(Before(rows, k))
    BY <1>2, <1>3
  <2>2. ~Below(rows, j, k) /\ ~Below(rows, k, j)
    <3>1. \A a, b \in 1..n : Below(rows, a, b) => Cardinality(Before(rows, a)) < Cardinality(Before(rows, b))
      BY BeforeCounts
    <3> QED  BY <1>2, <2>1, <3>1
  <2> QED  BY <2>2, BelowIsOrder
<1>4. place \in [1..n -> 1..n]
  BY <1>1, <1>2
<1>5. place \in Injection(1..n, 1..n)
  <2> HIDE DEF place
  <2> QED  BY <1>3, <1>4 DEF Injection, IsInjective
<1>6. place \in Surjection(1..n, 1..n)
  <2> HIDE DEF place
  <2> QED  BY <1>1, <1>5, FS_Injection
<1>7. \A i \in 1..n : \E k \in 1..n : Cardinality(Before(rows, k)) = i - 1
  <2> TAKE i \in 1..n
  <2>1. PICK k \in 1..n : place[k] = i
    <3> HIDE DEF place
    <3> QED  BY <1>6 DEF Surjection
  <2> QED  BY <1>2, <2>1
<1>8. \A i \in 1..n : from[i] \in 1..n /\ Cardinality(Before(rows, from[i])) = i - 1
  <2> TAKE i \in 1..n
  <2>1. \E k \in 1..n : Cardinality(Before(rows, k)) = i - 1
    BY <1>7
  <2>2. from[i] = CHOOSE k \in 1..n : Cardinality(Before(rows, k)) = i - 1
    OBVIOUS
  <2> HIDE DEF from
  <2> QED  BY <2>1, <2>2, Zenon
<1>9. from \in [1..n -> 1..n]
  BY <1>8
<1>10. \A i, j \in 1..n : from[i] = from[j] => i = j
  <2> HIDE DEF from
  <2> QED  BY <1>8
<1>11. \A i, j \in 1..n : i < j => Below(rows, from[i], from[j])
  <2> TAKE i, j \in 1..n
  <2> HAVE i < j
  <2> HIDE DEF from
  <2>1. from[i] \in 1..n /\ from[j] \in 1..n /\ from[i] # from[j]
    BY <1>8
  <2>2. ~Below(rows, from[j], from[i])
    <3> SUFFICES ASSUME Below(rows, from[j], from[i]) PROVE FALSE
      OBVIOUS
    <3>1. Cardinality(Before(rows, from[j])) < Cardinality(Before(rows, from[i]))
      BY <2>1, BeforeCounts
    <3> QED  BY <1>8, <3>1
  <2> QED  BY <2>1, <2>2, BelowIsOrder
<1>12. from \in Bijection(1..n, 1..n)
  <2> HIDE DEF from
  <2>1. from \in Injection(1..n, 1..n)
    BY <1>9, <1>10 DEF Injection, IsInjective
  <2>2. from \in Surjection(1..n, 1..n)
    BY <1>1, <2>1, FS_Injection
  <2> QED  BY <2>1, <2>2 DEF Bijection
<1>13. \A i \in 1..n : SortedRows(rows)[i] = rows[from[i]]
  BY DEF SortedRows, Before, Below
<1> QED  BY <1>11, <1>12, <1>13
=============================================================================
