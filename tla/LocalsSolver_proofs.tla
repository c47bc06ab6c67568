------------------------- MODULE LocalsSolver_proofs -------------------------
(***************************************************************************)
(* Proofs about LocalsSolver, for any number of locals and any references  *)
(* among them: the cycle check refuses exactly the components that have a  *)
(* cycle, and where there is none the passes end with every local that has *)
(* a value, and the right one.                                             *)
(***************************************************************************)
EXTENDS LocalsSolver, FiniteSetTheorems, SequenceTheorems, WellFoundedInduction, TLAPS

-----------------------------------------------------------------------------
(* The invariants.                                                          *)

\* The stack holds nodes in the order of their indices, and the calls under way
\* are those of nodes on the stack, in the same order.
StackShape ==
  /\ \A v \in Indexed : indices[v] < Cardinality(Indexed)
  /\ \A k \in 1..Len(tstack) : tstack[k] \in Indexed
  /\ \A j, k \in 1..Len(tstack) : j < k => indices[tstack[j]] < indices[tstack[k]]
  /\ \A k \in 1..Len(calls) :
       calls[k].node \in OnStack /\ calls[k].edges \subseteq Edges(calls[k].node)
  /\ \A j, k \in 1..Len(calls) :
       j < k => indices[calls[j].node] < indices[calls[k].node]

CallNodes == {calls[k].node : k \in 1..Len(calls)}
Walk(i) == Reachable(EdgeMap, {i})
Cyclic == \E i \in Locals : i \in Reaches(i)

\* A node stays on the stack while it leads back to a call under way.
LeadsBack ==
  \A x \in OnStack : \E c \in CallNodes : indices[c] <= indices[x] /\ c \in Walk(x)

\* On the stack, an earlier node leads to every later one.
LeadsOn == \A x, y \in OnStack : indices[x] <= indices[y] => y \in Walk(x)

\* A lowlink is the index of a node on the stack the node leads to.
LowIsIndex ==
  \A x \in OnStack :
    /\ low[x] <= indices[x]
    /\ \E u \in OnStack : low[x] = indices[u] /\ u \in Walk(x)

\* An edge that was walked leads to a node that has been entered, and the lowlink
\* takes notice of it while it is on the stack.
EdgesWalked ==
  \A k \in 1..Len(calls) :
    \A w \in Edges(calls[k].node) \ calls[k].edges :
      w \in Indexed /\ (w \in OnStack => low[calls[k].node] <= indices[w])

\* What left the stack leads to nothing but what left it before, in no circle.
Gone == Indexed \ OnStack
LeftIsAcyclic == \A v \in Gone : Edges(v) \subseteq Gone /\ v \notin Reaches(v)

SearchInv ==
  /\ found = {} => LeadsBack /\ LeadsOn /\ LowIsIndex /\ EdgesWalked /\ LeftIsAcyclic
  /\ found # {} => Cyclic
  /\ phase # "check" => (found = {} => ~Cyclic)
  /\ phase = "solve" => found = {}

CheckInv == TypeOK /\ StackShape /\ SearchInv

\* What a reference ends up as, once everything it is built from is a literal.
Brings(x) ==
  IF x \in program.cascade THEN {CascadeOrigin(x)}
  ELSE {OwnOrigin(j) : j \in Below(x)} \cup {CascadeOrigin(y) : y \in Cascaded(x)}

HasValue(i) ==
  Below(i) \cap program.stuck = {} /\ Leaves(i) \subseteq program.cascade

\* What was substituted is bound, and brought in all it will ever stand for.
Substituted ==
  \A i \in Locals :
    /\ left[i] \subseteq program.refs[i]
    /\ \A x \in program.refs[i] \ left[i] : Bound(x)
    /\ value[i] = UNION {Brings(x) : x \in program.refs[i] \ left[i]}
    /\ i \in scope => i \notin program.stuck /\ left[i] = {}

\* Before the cursor, a local that has a value and is not a literal yet waits for
\* one that is not a literal yet.
Waiting(upto) ==
  \A i \in 1..upto : HasValue(i) /\ i \notin scope => \E j \in SolveEdges[i] : j \notin scope

AllSolved == \A i \in Locals : HasValue(i) => i \in scope

PassInv ==
  /\ ~progress => Waiting(cursor - 1)
  /\ \/ Cardinality(scope) >= pass
     \/ Cardinality(scope) >= pass - 1 /\ Waiting(cursor - 1)
     \/ AllSolved

SolveInv ==
  /\ phase = "check" => left = program.refs /\ value = [i \in Locals |-> {}]
                        /\ scope = {} /\ pass = 1 /\ cursor = 1 /\ ~progress
  /\ phase = "solve" => Substituted /\ PassInv
  /\ phase = "done" /\ found = {} => Substituted /\ AllSolved

-----------------------------------------------------------------------------
(* Reachability.                                                            *)

EdgeFunctions == [Locals -> SUBSET Locals]

\* What is reached holds what it starts from and is closed under the edges.
LEMMA ReachableClosed ==
  ASSUME NEW E \in EdgeFunctions, NEW S \in SUBSET Locals
  PROVE  /\ S \subseteq Reachable(E, S)
         /\ Reachable(E, S) \subseteq Locals
         /\ ClosedUnder(E, Reachable(E, S))
<1>1. S \subseteq Reachable(E, S) /\ Reachable(E, S) \subseteq Locals
  BY DEF Reachable
<1>2. ASSUME NEW v \in Reachable(E, S), NEW j \in E[v]
      PROVE  j \in Reachable(E, S)
  <2>1. v \in Locals /\ j \in Locals
    BY <1>2 DEF Reachable, EdgeFunctions
  <2>2. ASSUME NEW T \in SUBSET Locals, S \subseteq T, ClosedUnder(E, T)
        PROVE  j \in T
    BY <1>2, <2>2 DEF Reachable, ClosedUnder
  <2> QED  BY <2>1, <2>2 DEF Reachable
<1> QED  BY <1>1, <1>2 DEF ClosedUnder

\* It is the least such set.
LEMMA ReachableLeast ==
  ASSUME NEW E, NEW S, NEW T \in SUBSET Locals, S \subseteq T, ClosedUnder(E, T)
  PROVE  Reachable(E, S) \subseteq T
  BY DEF Reachable

\* Going on from what is reached reaches nothing else.
LEMMA ReachableOnward ==
  ASSUME NEW E \in EdgeFunctions, NEW S \in SUBSET Locals,
         NEW S2 \in SUBSET Reachable(E, S)
  PROVE  Reachable(E, S2) \subseteq Reachable(E, S)
  BY ReachableClosed, ReachableLeast

\* A node leads to itself and to what its edges lead to.
LEMMA ReachableStep ==
  ASSUME NEW E \in EdgeFunctions, NEW i \in Locals
  PROVE  /\ Reachable(E, {i}) = {i} \cup Reachable(E, E[i])
         /\ Reachable(E, E[i]) = UNION {Reachable(E, {j}) : j \in E[i]}
<1>1. E[i] \in SUBSET Locals /\ {i} \in SUBSET Locals
  BY DEF EdgeFunctions
<1> DEFINE R == Reachable(E, E[i])
           U == UNION {Reachable(E, {j}) : j \in E[i]}
<1>2. E[i] \subseteq R /\ R \subseteq Locals /\ ClosedUnder(E, R)
  BY <1>1, ReachableClosed
<1>3. Reachable(E, {i}) \subseteq {i} \cup R
  <2>1. ClosedUnder(E, {i} \cup R)
    BY <1>2 DEF ClosedUnder
  <2> QED  BY <1>2, <2>1, ReachableLeast
<1>4. {i} \cup R \subseteq Reachable(E, {i})
  <2>1. i \in Reachable(E, {i}) /\ ClosedUnder(E, Reachable(E, {i}))
        /\ Reachable(E, {i}) \subseteq Locals
    BY <1>1, ReachableClosed
  <2>2. E[i] \subseteq Reachable(E, {i})
    BY <2>1 DEF ClosedUnder
  <2> QED  BY <1>1, <2>1, <2>2, ReachableLeast
<1>5. \A j \in E[i] : /\ j \in Reachable(E, {j}) /\ Reachable(E, {j}) \subseteq Locals
                      /\ ClosedUnder(E, Reachable(E, {j}))
                      /\ Reachable(E, {j}) \subseteq R
  <2> TAKE j \in E[i]
  <2>1. {j} \in SUBSET Locals /\ {j} \in SUBSET R
    BY <1>1, <1>2
  <2>2. Reachable(E, {j}) \subseteq R
    BY <1>1, <2>1, ReachableOnward
  <2>3. {j} \subseteq Reachable(E, {j}) /\ Reachable(E, {j}) \subseteq Locals
        /\ ClosedUnder(E, Reachable(E, {j}))
    BY <2>1, ReachableClosed
  <2> QED  BY <2>2, <2>3
<1>6. R \subseteq U
  <2>1. E[i] \subseteq U /\ U \subseteq Locals /\ ClosedUnder(E, U)
    BY <1>5 DEF ClosedUnder
  <2> HIDE DEF U
  <2> QED  BY <1>1, <2>1, ReachableLeast
<1> QED  BY <1>3, <1>4, <1>5, <1>6

LEMMA EdgeMapType == program \in ProgramShape => EdgeMap \in EdgeFunctions
  BY DEF EdgeMap, Edges, EdgeFunctions

\* Walks: reflexive, transitive, and by one edge.
LEMMA Walks ==
  ASSUME program \in ProgramShape
  PROVE  /\ \A x \in Locals : x \in Walk(x) /\ Walk(x) \subseteq Locals
         /\ \A x, y, z \in Locals : y \in Walk(x) /\ z \in Walk(y) => z \in Walk(x)
         /\ \A x, y \in Locals : y \in Edges(x) => y \in Walk(x)
         /\ \A x \in Locals : Walk(x) = {x} \cup Reaches(x)
<1> USE EdgeMapType
<1>1. \A x \in Locals : x \in Walk(x) /\ Walk(x) \subseteq Locals
  <2> TAKE x \in Locals
  <2>1. {x} \in SUBSET Locals
    OBVIOUS
  <2> QED  BY <2>1, ReachableClosed DEF Walk
<1>2. ASSUME NEW x \in Locals, NEW y \in Locals, NEW z \in Locals,
             y \in Walk(x), z \in Walk(y)
      PROVE  z \in Walk(x)
  <2>1. {x} \in SUBSET Locals /\ {y} \in SUBSET Reachable(EdgeMap, {x})
    BY <1>2 DEF Walk
  <2> QED  BY <1>2, <2>1, ReachableOnward DEF Walk
<1>3. \A x \in Locals : Walk(x) = {x} \cup Reaches(x)
  <2> TAKE x \in Locals
  <2>1. EdgeMap[x] = Edges(x)
    BY DEF EdgeMap
  <2> QED  BY <2>1, ReachableStep DEF Walk, Reaches
<1>4. \A x, y \in Locals : y \in Edges(x) => y \in Walk(x)
  <2> TAKE x, y \in Locals
  <2>1. Edges(x) \in SUBSET Locals
    BY DEF Edges
  <2>2. Edges(x) \subseteq Reaches(x)
    BY <2>1, ReachableClosed DEF Reaches
  <2> QED  BY <1>3, <2>2
<1> QED  BY <1>1, <1>2, <1>3, <1>4

\* Two nodes that lead to one another are on a circle, and so is one with an edge
\* to itself.
LEMMA CircleIsCyclic ==
  ASSUME program \in ProgramShape, NEW x \in Locals, NEW y \in Locals,
         \/ x # y /\ y \in Walk(x) /\ x \in Walk(y)
         \/ x \in Edges(x)
  PROVE  Cyclic
<1>1. CASE x \in Edges(x)
  <2>1. Edges(x) \in SUBSET Locals
    BY DEF Edges
  <2>2. x \in Reaches(x)
    BY <1>1, <2>1, EdgeMapType, ReachableClosed DEF Reaches
  <2> QED  BY <2>2 DEF Cyclic
<1>2. CASE x # y /\ y \in Walk(x) /\ x \in Walk(y)
  <2>1. y \in Reaches(x)
    BY <1>2, Walks
  <2>2. Edges(x) \in SUBSET Locals /\ {y} \in SUBSET Reachable(EdgeMap, Edges(x))
    BY <2>1 DEF Edges, Reaches
  <2>3. Walk(y) \subseteq Reaches(x)
    BY <2>2, EdgeMapType, ReachableOnward DEF Walk, Reaches
  <2> QED  BY <1>2, <2>3 DEF Cyclic
<1> QED  BY <1>1, <1>2

-----------------------------------------------------------------------------
(* Numbers.                                                                 *)

\* A set of numbers that is not empty has a least one.
LEMMA LeastNumber ==
  ASSUME NEW T, T \subseteq Nat, T # {}
  PROVE  \E x \in T : \A y \in T : x <= y
<1>1. PICK x \in T : \A y \in T : ~ (<<y, x>> \in OpToRel(<, Nat))
  BY WFMin, NatLessThanWellFounded, Zenon
<1>2. \A y \in T : ~(y < x)
  BY <1>1 DEF OpToRel
<1> QED  BY <1>2

\* Without a cycle, some local of any set refers to no other of the set.
LEMMA HasMinimal ==
  ASSUME NEW E \in EdgeFunctions, NEW T \in SUBSET Locals, T # {},
         \A i \in Locals : i \notin Reachable(E, E[i])
  PROVE  \E i \in T : E[i] \cap T = {}
<1> DEFINE R(i) == Reachable(E, E[i])
           Sizes == {Cardinality(R(i)) : i \in T}
<1>1. \A i \in Locals : /\ R(i) \in SUBSET Locals /\ E[i] \subseteq R(i) /\ E[i] \in SUBSET Locals
                        /\ IsFiniteSet(R(i)) /\ Cardinality(R(i)) \in Nat
  <2> TAKE i \in Locals
  <2>1. E[i] \in SUBSET Locals
    BY DEF EdgeFunctions
  <2>2. R(i) \in SUBSET Locals /\ E[i] \subseteq R(i)
    BY <2>1, ReachableClosed
  <2>3. IsFiniteSet(Locals)
    BY LocalsExist, FS_Interval DEF Locals
  <2> QED  BY <2>1, <2>2, <2>3, FS_Subset, FS_CardinalityType
<1>2. Sizes \subseteq Nat /\ Sizes # {}
  BY <1>1
<1>3. PICK i \in T : \A j \in T : Cardinality(R(i)) <= Cardinality(R(j))
  <2>1. PICK n \in Sizes : \A m \in Sizes : n <= m
    BY <1>2, LeastNumber
  <2> QED  BY <2>1
<1>4. ASSUME NEW j \in E[i] \cap T
      PROVE  FALSE
  <2>1. {j} \in SUBSET R(i) /\ j \in R(i)
    BY <1>1, <1>4
  <2>2. Reachable(E, {j}) \subseteq R(i)
    BY <1>1, <2>1, ReachableOnward
  <2>3. R(j) \subseteq R(i)
    BY <2>2, ReachableStep
  <2>4. j \notin R(j)
    OBVIOUS
  <2>5. R(j) \in SUBSET R(i) /\ R(j) # R(i) /\ IsFiniteSet(R(i))
    BY <1>1, <2>1, <2>3, <2>4
  <2>6. Cardinality(R(j)) <= Cardinality(R(i)) /\ Cardinality(R(j)) # Cardinality(R(i))
    BY <2>5, FS_Subset
  <2> QED  BY <1>1, <1>3, <1>4, <2>6
<1> QED  BY <1>3, <1>4

-----------------------------------------------------------------------------
(* Types and the shape of the search.                                       *)

LEMMA LocalsFinite ==
  ASSUME NEW S \in SUBSET Locals
  PROVE  IsFiniteSet(S) /\ Cardinality(S) \in Nat /\ Cardinality(S) <= N
<1>1. IsFiniteSet(Locals) /\ Cardinality(Locals) = N
  BY LocalsExist, FS_Interval DEF Locals
<1> QED  BY <1>1, FS_Subset, FS_CardinalityType

LEMMA NumberOfLocals == N \in Nat /\ N >= 1
  BY LocalsExist

\* What is on the stack is indexed, and an index is a number.
LEMMA IndexType ==
  ASSUME TypeOK
  PROVE  /\ Indexed \subseteq Locals
         /\ \A v \in Indexed : indices[v] \in 0..(N - 1) /\ indices[v] \in Nat
         /\ OnStack \subseteq Locals
         /\ Len(tstack) \in Nat /\ \A k \in 1..Len(tstack) : tstack[k] \in Locals
         /\ \A v \in Locals : low[v] \in 0..(N - 1) /\ low[v] \in Nat
<1>1. indices \in [Locals -> 0..(N - 1) \cup {None}] /\ low \in [Locals -> 0..(N - 1)]
      /\ tstack \in Seq(Locals)
  BY DEF TypeOK
<1>2. \A n \in 0..(N - 1) : n \in Nat
  OBVIOUS
<1>3. Len(tstack) \in Nat /\ \A k \in 1..Len(tstack) : tstack[k] \in Locals
  BY <1>1, LenProperties, ElementOfSeq
<1> QED  BY <1>1, <1>2, <1>3 DEF Indexed, OnStack

\* A node that is not indexed yet gets an index that is new and in range.
LEMMA FreshIndex ==
  ASSUME TypeOK, NEW w \in Locals \ Indexed
  PROVE  Cardinality(Indexed) \in 0..(N - 1)
<1>1. Indexed \in SUBSET Locals /\ Indexed # Locals /\ Locals \in SUBSET Locals
  BY DEF Indexed
<1>2. IsFiniteSet(Locals) /\ Cardinality(Locals) = N
  BY LocalsExist, FS_Interval DEF Locals
<1>3. Cardinality(Indexed) # N
  BY <1>1, <1>2, FS_Subset
<1> QED  BY <1>1, <1>3, LocalsFinite, LocalsExist

Frame == [node : Locals, edges : SUBSET Locals]

\* The call under way is the last of the list, the others are those before it.
LEMMA InnerOuter ==
  ASSUME calls \in Seq(Frame), calls # << >>
  PROVE  /\ Len(calls) \in 1..Len(calls)
         /\ Inner \in Frame
         /\ Outer \in Seq(Frame) /\ Len(Outer) = Len(calls) - 1
         /\ \A k \in 1..Len(Outer) : Outer[k] = calls[k]
<1>1. Len(calls) \in Nat \ {0} /\ calls \in [1..Len(calls) -> Frame]
  BY EmptySeq, LenProperties
<1>2. Outer \in Seq(Frame) /\ Len(Outer) = Len(calls) - 1
      /\ \A k \in 1..Len(Outer) : Outer[k] = calls[k]
  BY <1>1 DEF Outer
<1> QED  BY <1>1, <1>2 DEF Inner

\* The list of calls after an edge of the innermost has been walked.
LEMMA WalkedShape ==
  ASSUME calls \in Seq(Frame), calls # << >>, NEW w
  PROVE  /\ Walked(w) \in Seq(Frame) /\ Len(Walked(w)) = Len(calls)
         /\ \A k \in 1..(Len(calls) - 1) : Walked(w)[k] = calls[k]
         /\ Walked(w)[Len(calls)].node = Inner.node
         /\ Walked(w)[Len(calls)].edges = Inner.edges \ {w}
<1> DEFINE f == [Inner EXCEPT !.edges = @ \ {w}]
<1>1. Inner \in Frame /\ Outer \in Seq(Frame) /\ Len(Outer) = Len(calls) - 1
      /\ Len(calls) \in Nat
      /\ \A k \in 1..Len(Outer) : Outer[k] = calls[k]
  BY InnerOuter, LenProperties
<1>2. f \in Frame /\ f.node = Inner.node /\ f.edges = Inner.edges \ {w}
  BY <1>1 DEF Frame
<1>3. Walked(w) = Append(Outer, f)
  BY DEF Walked
<1> HIDE DEF f
<1>4. Walked(w) \in Seq(Frame) /\ Len(Walked(w)) = Len(calls)
      /\ Walked(w)[Len(calls)] = f
      /\ \A k \in 1..(Len(calls) - 1) : Walked(w)[k] = Outer[k]
  BY <1>1, <1>2, <1>3
<1> QED  BY <1>1, <1>2, <1>4

LEMMA EnterType ==
  ASSUME TypeOK, NEW w \in Locals \ Indexed, Enter(w)
  PROVE  /\ indices' \in [Locals -> 0..(N - 1) \cup {None}]
         /\ low' \in [Locals -> 0..(N - 1)]
         /\ tstack' \in Seq(Locals)
  BY FreshIndex, AppendProperties DEF TypeOK, Enter

LEMMA LeastType ==
  ASSUME NEW a \in 0..(N - 1), NEW b \in 0..(N - 1)
  PROVE  Least(a, b) \in 0..(N - 1) /\ Least(a, b) <= a /\ Least(a, b) <= b
         /\ (Least(a, b) = a \/ Least(a, b) = b)
  BY LocalsExist DEF Least

LEMMA ProgramIsShape == TypeOK => program \in ProgramShape
  BY ProgramsShaped DEF TypeOK

\* The stack below a node, of which it is the first.
LEMMA StackPosition ==
  ASSUME TypeOK, StackShape, NEW v \in OnStack
  PROVE  \E at \in 1..Len(tstack) :
           /\ tstack[at] = v
           /\ at = CHOOSE k \in 1..Len(tstack) : tstack[k] = v
           /\ Popped(v) = {tstack[k] : k \in at..Len(tstack)}
           /\ Cardinality(Popped(v)) = Len(tstack) - at + 1
           /\ IsFiniteSet(Popped(v))
<1> DEFINE at == CHOOSE k \in 1..Len(tstack) : tstack[k] = v
           f == [k \in at..Len(tstack) |-> tstack[k]]
<1>1. at \in 1..Len(tstack) /\ tstack[at] = v
  BY DEF OnStack
<1>2. Popped(v) = {tstack[k] : k \in at..Len(tstack)}
  BY DEF Popped
<1>3. Len(tstack) \in Nat /\ at \in Nat
  BY <1>1, LenProperties DEF TypeOK
<1> HIDE DEF at
<1>4. \A j, k \in at..Len(tstack) : j # k => tstack[j] # tstack[k]
  <2>1. \A j, k \in 1..Len(tstack) : j < k => indices[tstack[j]] < indices[tstack[k]]
    BY DEF StackShape
  <2>2. \A k \in 1..Len(tstack) : indices[tstack[k]] \in Nat
    BY IndexType DEF StackShape
  <2> QED  BY <1>1, <1>3, <2>1, <2>2
<1>5. f \in Surjection(at..Len(tstack), Popped(v)) /\ f \in Injection(at..Len(tstack), Popped(v))
  <2>1. f \in [at..Len(tstack) -> Popped(v)]
    BY <1>2
  <2>2. \A a, b \in at..Len(tstack) : f[a] = f[b] => a = b
    BY <1>4
  <2>3. \A t \in Popped(v) : \E s \in at..Len(tstack) : f[s] = t
    BY <1>2
  <2> HIDE DEF f
  <2>4. f \in Injection(at..Len(tstack), Popped(v))
    BY <2>1, <2>2 DEF Injection, IsInjective
  <2>5. f \in Surjection(at..Len(tstack), Popped(v))
    BY <2>1, <2>3 DEF Surjection
  <2> QED  BY <2>4, <2>5
<1>6. IsFiniteSet(at..Len(tstack)) /\ Cardinality(at..Len(tstack)) = Len(tstack) - at + 1
  BY <1>1, <1>3, FS_Interval
<1>7. IsFiniteSet(Popped(v)) /\ Cardinality(Popped(v)) = Cardinality(at..Len(tstack))
  BY <1>5, <1>6, FS_Surjection
<1> QED  BY <1>1, <1>2, <1>6, <1>7 DEF at

\* The stack without v and what was entered after it.
Rest(v) == SubSeq(tstack, 1, Len(tstack) - Cardinality(Popped(v)))

\* Taking nodes off the stack leaves those that were entered before v.
LEMMA Unwound ==
  ASSUME TypeOK, StackShape, NEW v \in OnStack
  PROVE  /\ Rest(v) \in Seq(Locals) /\ Len(Rest(v)) <= Len(tstack)
         /\ \A k \in 1..Len(Rest(v)) : Rest(v)[k] = tstack[k]
         /\ {Rest(v)[k] : k \in 1..Len(Rest(v))} = {x \in OnStack : indices[x] < indices[v]}
         /\ Popped(v) = {x \in OnStack : indices[v] <= indices[x]}
         /\ v \in Popped(v)
<1> DEFINE rest == Rest(v)
<1>1. PICK at \in 1..Len(tstack) :
           /\ tstack[at] = v
           /\ Popped(v) = {tstack[k] : k \in at..Len(tstack)}
           /\ Cardinality(Popped(v)) = Len(tstack) - at + 1
  BY StackPosition
<1>2. Len(tstack) \in Nat /\ tstack \in Seq(Locals)
  BY LenProperties DEF TypeOK
<1>3. Len(tstack) - Cardinality(Popped(v)) = at - 1
  BY <1>1, <1>2
<1>4. /\ rest \in Seq(Locals) /\ Len(rest) = at - 1
      /\ \A k \in 1..Len(rest) : rest[k] = tstack[k]
  <2> DEFINE m == at - 1
  <2>1. m \in Nat /\ m <= Len(tstack) /\ Rest(v) = SubSeq(tstack, 1, m)
    <3>1. m \in Nat /\ m <= Len(tstack)
      BY <1>1, <1>2
    <3>2. Rest(v) = SubSeq(tstack, 1, m)
      BY <1>3, Zenon DEF Rest
    <3> QED  BY <3>1, <3>2
  <2> HIDE DEF m
  <2>2. SubSeq(tstack, 1, m) \in Seq(Locals) /\ Len(SubSeq(tstack, 1, m)) = m
        /\ \A k \in 1..m : SubSeq(tstack, 1, m)[k] = tstack[k]
    <3>1. \A i \in 1..m : tstack[i] \in Locals
      BY <1>2, <2>1, IndexType
    <3>2. m \in Int /\ m - 1 + 1 = m /\ (IF 1 <= m THEN m - 1 + 1 ELSE 0) = m
          /\ \A i \in 1..m : 1 + i - 1 = i
      BY <2>1
    <3> QED  BY <3>1, <3>2, SubSeqProperties
  <2> QED  BY <2>1, <2>2 DEF m
<1>5. \A k \in 1..Len(tstack) : indices[tstack[k]] \in Nat
  BY IndexType DEF StackShape
<1>6. \A k \in 1..Len(tstack) : /\ k < at => indices[tstack[k]] < indices[v]
                                /\ at <= k => indices[v] <= indices[tstack[k]]
  <2>1. \A j, k \in 1..Len(tstack) : j < k => indices[tstack[j]] < indices[tstack[k]]
    BY DEF StackShape
  <2> QED  BY <1>1, <1>2, <1>5, <2>1
<1>7. {rest[k] : k \in 1..Len(rest)} = {x \in OnStack : indices[x] < indices[v]}
  <2>1. {rest[k] : k \in 1..Len(rest)} = {tstack[k] : k \in 1..(at - 1)}
    BY <1>4
  <2>2. ASSUME NEW x \in OnStack, indices[x] < indices[v]
        PROVE  x \in {tstack[k] : k \in 1..(at - 1)}
    <3>1. PICK k \in 1..Len(tstack) : x = tstack[k]
      BY DEF OnStack
    <3>2. k < at
      BY <1>1, <1>2, <1>5, <1>6, <2>2, <3>1
    <3> QED  BY <1>2, <3>1, <3>2
  <2>3. ASSUME NEW k \in 1..(at - 1)
        PROVE  tstack[k] \in OnStack /\ indices[tstack[k]] < indices[v]
    BY <1>1, <1>2, <1>6 DEF OnStack
  <2> QED  BY <2>1, <2>2, <2>3
<1>8. Popped(v) = {x \in OnStack : indices[v] <= indices[x]}
  <2>1. ASSUME NEW x \in OnStack, indices[v] <= indices[x]
        PROVE  x \in {tstack[k] : k \in at..Len(tstack)}
    <3>1. PICK k \in 1..Len(tstack) : x = tstack[k]
      BY DEF OnStack
    <3>2. ~(k < at)
      BY <1>1, <1>2, <1>5, <1>6, <2>1, <3>1
    <3> QED  BY <1>1, <1>2, <3>1, <3>2
  <2>2. ASSUME NEW k \in at..Len(tstack)
        PROVE  tstack[k] \in OnStack /\ indices[v] <= indices[tstack[k]]
    BY <1>1, <1>2, <1>6 DEF OnStack
  <2> QED  BY <1>1, <2>1, <2>2
<1>9. v \in Popped(v)
  BY <1>1, <1>2
<1> QED  BY <1>1, <1>2, <1>4, <1>7, <1>8, <1>9

LEMMA TypeInit == Init => TypeOK
<1> SUFFICES ASSUME Init PROVE TypeOK
  OBVIOUS
<1>1. program \in ProgramShape
  BY ProgramsShaped DEF Init
<1>2. program.refs \in [Locals -> SUBSET Names]
  BY <1>1 DEF ProgramShape
<1>3. << >> \in Seq(Locals) /\ << >> \in Seq(Frame)
  OBVIOUS
<1>4. 0 \in 0..(N - 1) /\ 1 \in 1..PassesAllowed /\ 1 \in 1..(N + 1)
  BY NumberOfLocals DEF PassesAllowed
<1> QED  BY <1>2, <1>3, <1>4 DEF Init, TypeOK, Frame

LEMMA TypeCheck ==
  ASSUME TypeOK, StackShape,
         \/ NextRoot \/ Return
         \/ \E w \in Locals : Descend(w) \/ ReturnAtOnce(w) \/ Lookup(w)
  PROVE  TypeOK'
<1> USE DEF Frame
<1>1. program \in ProgramShape
  BY ProgramIsShape
<1>2. \A v \in Locals : Edges(v) \in SUBSET Locals
  BY DEF Edges
<1>3. CASE NextRoot
  <2>1. PICK v \in Locals \ Indexed : Enter(v) /\ calls' = <<[node |-> v, edges |-> Edges(v)]>>
    BY <1>3 DEF NextRoot
  <2>2. [node |-> v, edges |-> Edges(v)] \in Frame
    BY <1>2
  <2>3. calls' \in Seq(Frame)
    BY <2>1, <2>2
  <2> QED  BY <1>3, <2>1, <2>3, EnterType DEF NextRoot, solver, TypeOK
<1>4. ASSUME NEW w \in Locals, Descend(w)
      PROVE  TypeOK'
  <2>1. w \in Locals \ Indexed /\ calls \in Seq(Frame) /\ calls # << >>
    BY <1>4 DEF Descend, Checking, TypeOK
  <2>2. Walked(w) \in Seq(Frame) /\ [node |-> w, edges |-> Edges(w)] \in Frame
    BY <1>2, <2>1, WalkedShape
  <2>3. calls' \in Seq(Frame)
    BY <1>4, <2>2, AppendProperties DEF Descend
  <2> QED  BY <1>4, <2>1, <2>3, EnterType DEF Descend, solver, TypeOK
<1>5. ASSUME NEW w \in Locals, ReturnAtOnce(w) \/ Lookup(w)
      PROVE  TypeOK'
  <2>1. calls \in Seq(Frame) /\ calls # << >>
    BY <1>5 DEF ReturnAtOnce, Lookup, Checking, TypeOK
  <2>2. Walked(w) \in Seq(Frame) /\ Inner.node \in Locals
    BY <2>1, WalkedShape, InnerOuter
  <2>3. low' \in [Locals -> 0..(N - 1)]
    <3>1. CASE ReturnAtOnce(w)
      <4>1. low[w] \in 0..(N - 1) /\ low[Inner.node] \in 0..(N - 1)
        BY <2>2 DEF TypeOK
      <4> QED  BY <2>2, <3>1, <4>1, LeastType DEF ReturnAtOnce, TypeOK
    <3>2. CASE Lookup(w) /\ w \in OnStack
      <4>1. indices[w] \in 0..(N - 1) /\ low[Inner.node] \in 0..(N - 1)
        BY <2>2, <3>2 DEF TypeOK, Lookup, Indexed
      <4> QED  BY <2>2, <3>2, <4>1, LeastType DEF Lookup, TypeOK
    <3>3. CASE Lookup(w) /\ w \notin OnStack
      BY <3>3 DEF Lookup, TypeOK
    <3> QED  BY <1>5, <3>1, <3>2, <3>3
  <2> QED  BY <1>5, <2>2, <2>3 DEF ReturnAtOnce, Lookup, solver, TypeOK
<1>6. CASE Return
  <2>1. calls \in Seq(Frame) /\ calls # << >>
    BY <1>6 DEF Return, Checking, TypeOK
  <2>2. Inner \in Frame /\ Outer \in Seq(Frame) /\ Len(calls) \in 1..Len(calls)
    BY <2>1, InnerOuter
  <2>3. Inner.node \in OnStack
    BY <2>2 DEF StackShape, Inner
  <2>4. tstack' \in Seq(Locals)
    BY <1>6, <2>3, Unwound DEF Return, TypeOK, Rest
  <2>5. Popped(Inner.node) \subseteq Locals
    <3>1. OnStack \subseteq Locals
      BY LenProperties DEF OnStack, TypeOK
    <3> QED  BY <2>3, <3>1, Unwound
  <2>6. found' \subseteq Locals
    BY <1>6, <2>5 DEF Return, TypeOK
  <2>7. low' \in [Locals -> 0..(N - 1)]
    <3>1. CASE Outer = << >>
      BY <1>6, <3>1 DEF Return, TypeOK
    <3>2. CASE Outer # << >>
      <4>1. Outer[Len(Outer)] \in Frame
        <5>1. Len(Outer) \in 1..Len(Outer)
          BY <2>2, <3>2, EmptySeq, LenProperties
        <5> QED  BY <2>2, <5>1, ElementOfSeq
      <4>2. low[Inner.node] \in 0..(N - 1) /\ low[Outer[Len(Outer)].node] \in 0..(N - 1)
        BY <2>2, <4>1 DEF TypeOK
      <4> QED  BY <1>6, <3>2, <4>1, <4>2, LeastType DEF Return, TypeOK
    <3> QED  BY <3>1, <3>2
  <2> QED  BY <1>6, <2>2, <2>4, <2>6, <2>7 DEF Return, solver, TypeOK
<1> QED  BY <1>3, <1>4, <1>5, <1>6

\* What a name may stand for.
LEMMA PublishType ==
  ASSUME TypeOK, NEW S \in SUBSET Locals, NEW x \in Names
  PROVE  Publish(x, S) \in (SUBSET Origin) \cup {None}
<1>1. CASE x \in S
  <2>1. Publish(x, S) = {OwnOrigin(x)} \cup value[x]
    BY <1>1, Zenon DEF Publish
  <2> QED  BY <1>1, <2>1 DEF TypeOK, OwnOrigin, Origin
<1>2. CASE x \notin S /\ x \in program.cascade
  <2>1. Publish(x, S) = {CascadeOrigin(x)}
    BY <1>2, Zenon DEF Publish
  <2> QED  BY <2>1 DEF CascadeOrigin, Origin
<1>3. CASE x \notin S /\ x \notin program.cascade
  BY <1>3, Zenon DEF Publish
<1> QED  BY <1>1, <1>2, <1>3

LEMMA TypeSolve ==
  ASSUME TypeOK, BeginSolve \/ ReduceLocal \/ NextPass \/ Finish \/ ReportCycle
  PROVE  TypeOK'
<1>1. program \in ProgramShape
  BY ProgramIsShape
<1>2. CASE BeginSolve
  BY <1>2 DEF BeginSolve, tarjan, solver, TypeOK
<1>3. CASE ReduceLocal
  <2> DEFINE i == cursor
             now == {x \in left[i] : Bound(x)}
  <2>1. i \in Locals /\ phase = "solve"
    BY <1>3 DEF ReduceLocal
  <2>2. UNCHANGED <<program, phase, indices, low, tstack, calls, found, pass, namespace>>
    BY <1>3 DEF ReduceLocal, tarjan
  <2>3. cursor' = cursor + 1 /\ cursor' \in 1..(N + 1)
    BY <1>3, <2>1, LocalsExist DEF ReduceLocal, Locals
  <2>4. \A x \in now : LookupLocal(x) \in SUBSET Origin
    <3> TAKE x \in now
    <3>1. x \in Names /\ Bound(x)
      BY <2>1 DEF TypeOK
    <3>2. CASE x \in program.cascade
      BY <3>1, <3>2 DEF LookupLocal, CascadeOrigin, Origin
    <3>3. CASE x \notin program.cascade
      <4>1. x \in Locals
        BY <3>1, <3>3 DEF Bound, TypeOK
      <4> QED  BY <3>1, <3>3, <4>1 DEF LookupLocal, OwnOrigin, Origin, TypeOK
    <3> QED  BY <3>2, <3>3
  <2>5. UNION {LookupLocal(x) : x \in now} \in SUBSET Origin
    BY <2>4
  <2>6. CASE i \in scope
    BY <1>3, <2>2, <2>3, <2>6 DEF ReduceLocal, TypeOK
  <2>7. CASE i \notin scope
    <3> DEFINE brought == UNION {LookupLocal(x) : x \in now}
    <3>1. left' = [left EXCEPT ![i] = @ \ now] /\ value' = [value EXCEPT ![i] = @ \cup brought]
      BY <1>3, <2>7 DEF ReduceLocal
    <3>2. scope' \subseteq scope \cup {i}
      BY <1>3, <2>7 DEF ReduceLocal
    <3>3. progress' \in BOOLEAN
      BY <1>3, <2>7 DEF ReduceLocal, TypeOK
    <3> HIDE DEF now, i, brought
    <3>4. left' \in [Locals -> SUBSET Names]
      BY <2>1, <3>1 DEF TypeOK
    <3>5. value' \in [Locals -> SUBSET Origin]
      BY <2>1, <2>5, <3>1 DEF TypeOK, brought
    <3>6. scope' \subseteq Locals
      BY <2>1, <3>2 DEF TypeOK
    <3> QED  BY <2>2, <2>3, <3>3, <3>4, <3>5, <3>6 DEF TypeOK
  <2> QED  BY <2>6, <2>7
<1>4. CASE NextPass
  <2>1. pass' \in 1..PassesAllowed /\ cursor' \in 1..(N + 1) /\ progress' \in BOOLEAN
    <3>1. pass \in 1..PassesAllowed
      BY DEF TypeOK
    <3>2. pass < PassesAllowed /\ pass' = pass + 1 /\ cursor' = 1 /\ progress' = FALSE
      BY <1>4, Zenon DEF NextPass
    <3>3. pass' \in 1..PassesAllowed /\ cursor' \in 1..(N + 1)
      BY <3>1, <3>2, NumberOfLocals DEF PassesAllowed
    <3> QED  BY <3>2, <3>3
  <2> QED  BY <1>4, <2>1 DEF NextPass, tarjan, TypeOK
<1>5. CASE Finish
  <2>1. \A x \in Names : Publish(x, scope) \in (SUBSET Origin) \cup {None}
    BY PublishType DEF TypeOK
  <2> QED  BY <1>5, <2>1 DEF Finish, tarjan, solver, TypeOK
<1>6. CASE ReportCycle
  <2>1. SourceLiterals \in SUBSET Locals
    BY DEF SourceLiterals
  <2>2. \A x \in Names : Publish(x, SourceLiterals) \in (SUBSET Origin) \cup {None}
    BY <2>1, PublishType
  <2> QED  BY <1>6, <2>2 DEF ReportCycle, tarjan, solver, TypeOK
<1> QED  BY <1>2, <1>3, <1>4, <1>5, <1>6

-----------------------------------------------------------------------------
(* The shape of the search is kept.                                         *)

\* The parts of StackShape: the nodes on the stack, and the calls.
NodesShape ==
  /\ \A v \in Indexed : indices[v] < Cardinality(Indexed)
  /\ \A k \in 1..Len(tstack) : tstack[k] \in Indexed
  /\ \A j, k \in 1..Len(tstack) : j < k => indices[tstack[j]] < indices[tstack[k]]

CallsShape ==
  /\ \A k \in 1..Len(calls) :
       calls[k].node \in OnStack /\ calls[k].edges \subseteq Edges(calls[k].node)
  /\ \A j, k \in 1..Len(calls) :
       j < k => indices[calls[j].node] < indices[calls[k].node]

LEMMA ShapeParts ==
  (StackShape <=> NodesShape /\ CallsShape) /\ (StackShape' <=> NodesShape' /\ CallsShape')
  BY DEF StackShape, NodesShape, CallsShape

\* A node that is entered comes last: on the stack and by its index.
LEMMA Entered ==
  ASSUME TypeOK, NodesShape, NEW v \in Locals \ Indexed, Enter(v)
  PROVE  /\ Indexed' = Indexed \cup {v} /\ OnStack' = OnStack \cup {v} /\ v \notin OnStack
         /\ \A x \in Locals \ {v} : indices'[x] = indices[x] /\ low'[x] = low[x]
         /\ indices'[v] \in Nat /\ low'[v] = indices'[v]
         /\ \A x \in Indexed : indices[x] < indices'[v]
         /\ NodesShape'
<1> DEFINE c == Cardinality(Indexed)
<1>1. c \in 0..(N - 1) /\ c \in Nat /\ c # None
  BY FreshIndex, NoneIsNoIndex
<1>2. indices \in [Locals -> 0..(N - 1) \cup {None}] /\ low \in [Locals -> 0..(N - 1)]
      /\ tstack \in Seq(Locals)
  BY DEF TypeOK
<1>3. indices' = [indices EXCEPT ![v] = c] /\ low' = [low EXCEPT ![v] = c]
      /\ tstack' = Append(tstack, v)
  BY DEF Enter
<1>4. Cardinality(Indexed \cup {v}) = c + 1
  BY IndexType, LocalsFinite, FS_AddElement
<1> HIDE DEF c
<1>5. indices'[v] = c /\ low'[v] = c
      /\ \A x \in Locals \ {v} : indices'[x] = indices[x] /\ low'[x] = low[x]
  BY <1>2, <1>3
<1>6. Indexed' = Indexed \cup {v}
  BY <1>1, <1>2, <1>5 DEF Indexed
<1>7. Len(tstack) \in Nat /\ Len(tstack') = Len(tstack) + 1 /\ tstack'[Len(tstack) + 1] = v
      /\ \A k \in 1..Len(tstack) : tstack'[k] = tstack[k]
  BY <1>2, <1>3, AppendProperties, LenProperties
<1>8. OnStack \subseteq Indexed
  BY DEF NodesShape, OnStack
<1>9. OnStack' = OnStack \cup {v}
  <2>1. OnStack' = {tstack'[k] : k \in 1..(Len(tstack) + 1)}
    BY <1>7 DEF OnStack
  <2>2. 1..(Len(tstack) + 1) = 1..Len(tstack) \cup {Len(tstack) + 1}
    BY <1>7
  <2> QED  BY <1>7, <2>1, <2>2 DEF OnStack
<1>10. \A x \in Indexed : indices[x] < c
  BY DEF NodesShape, c
<1>11. NodesShape'
  <2>1. ASSUME NEW x \in Indexed' PROVE indices'[x] < Cardinality(Indexed')
    <3>1. Cardinality(Indexed') = c + 1
      BY <1>4, <1>6
    <3>2. CASE x = v
      BY <1>1, <1>5, <3>1, <3>2
    <3>3. CASE x # v
      <4>1. x \in Indexed /\ indices'[x] = indices[x] /\ indices[x] \in Nat
        BY <1>5, <1>6, <3>3, IndexType
      <4> QED  BY <1>1, <1>10, <3>1, <4>1
    <3> QED  BY <3>2, <3>3
  <2>2. ASSUME NEW k \in 1..Len(tstack') PROVE tstack'[k] \in Indexed'
    BY <1>6, <1>7 DEF NodesShape
  <2>3. ASSUME NEW j \in 1..Len(tstack'), NEW k \in 1..Len(tstack'), j < k
        PROVE  indices'[tstack'[j]] < indices'[tstack'[k]]
    <3>1. j \in 1..Len(tstack) /\ tstack[j] \in Indexed /\ tstack[j] # v
          /\ tstack'[j] = tstack[j] /\ indices'[tstack'[j]] = indices[tstack[j]]
      BY <1>5, <1>7, <2>3, IndexType DEF NodesShape
    <3>2. CASE k = Len(tstack) + 1
      BY <1>5, <1>7, <1>10, <3>1, <3>2
    <3>3. CASE k # Len(tstack) + 1
      <4>1. k \in 1..Len(tstack)
        BY <1>7, <3>3
      <4>2. tstack[k] \in Indexed /\ tstack[k] # v /\ tstack'[k] = tstack[k]
            /\ indices'[tstack'[k]] = indices[tstack[k]]
        BY <1>5, <1>7, <4>1, IndexType DEF NodesShape
      <4> QED  BY <2>3, <3>1, <4>1, <4>2 DEF NodesShape
    <3> QED  BY <3>2, <3>3
  <2> QED  BY <2>1, <2>2, <2>3 DEF NodesShape
<1> QED  BY <1>1, <1>5, <1>6, <1>8, <1>9, <1>10, <1>11 DEF c

\* A call that is made adds the last frame.
LEMMA Called ==
  ASSUME TypeOK, StackShape, NEW v \in Locals \ Indexed, Enter(v), UNCHANGED program,
         NEW base \in Seq(Frame), Len(base) = Len(calls),
         \A k \in 1..Len(base) : base[k].node = calls[k].node /\ base[k].edges \subseteq calls[k].edges,
         calls' = Append(base, [node |-> v, edges |-> Edges(v)])
  PROVE  /\ StackShape'
         /\ CallNodes' = CallNodes \cup {v}
<1> DEFINE f == [node |-> v, edges |-> Edges(v)]
<1>1. f \in Frame /\ f.node = v /\ f.edges = Edges(v)
  BY DEF Frame, Edges
<1>2. calls' = Append(base, f)
  OBVIOUS
<1> HIDE DEF f
<1>3. Len(base) \in Nat /\ Len(calls') = Len(base) + 1 /\ calls'[Len(base) + 1] = f
      /\ \A k \in 1..Len(base) : calls'[k] = base[k]
  BY <1>1, <1>2, AppendProperties, LenProperties
<1>4. NodesShape /\ CallsShape
  BY ShapeParts
<1>5. /\ OnStack' = OnStack \cup {v} /\ v \notin OnStack /\ OnStack \subseteq Indexed
      /\ \A x \in Locals \ {v} : indices'[x] = indices[x]
      /\ \A x \in Indexed : indices[x] < indices'[v]
      /\ NodesShape'
  <2>1. OnStack \subseteq Indexed
    BY <1>4 DEF NodesShape, OnStack
  <2> QED  BY <1>4, <2>1, Entered
<1>6. \A k \in 1..Len(base) : /\ calls'[k].node = calls[k].node
                              /\ calls[k].node \in OnStack
                              /\ calls'[k].edges \subseteq Edges(calls[k].node)
                              /\ indices'[calls[k].node] = indices[calls[k].node]
                              /\ indices[calls[k].node] < indices'[v]
  BY <1>3, <1>4, <1>5, IndexType DEF CallsShape
<1>7. \A x : Edges(x)' = Edges(x)
  BY DEF Edges
<1>8. CallsShape'
  <2>1. ASSUME NEW k \in 1..Len(calls')
        PROVE  calls'[k].node \in OnStack' /\ calls'[k].edges \subseteq Edges(calls'[k].node)
    <3>1. CASE k = Len(base) + 1
      BY <1>1, <1>3, <1>5, <3>1
    <3>2. CASE k # Len(base) + 1
      <4>1. k \in 1..Len(base)
        BY <1>3, <3>2
      <4> QED  BY <1>3, <1>5, <1>6, <4>1
    <3> QED  BY <3>1, <3>2
  <2>2. ASSUME NEW j \in 1..Len(calls'), NEW k \in 1..Len(calls'), j < k
        PROVE  indices'[calls'[j].node] < indices'[calls'[k].node]
    <3>1. j \in 1..Len(base)
      BY <1>3, <2>2
    <3>2. CASE k = Len(base) + 1
      BY <1>1, <1>3, <1>6, <3>1, <3>2
    <3>3. CASE k # Len(base) + 1
      <4>1. k \in 1..Len(base)
        BY <1>3, <3>3
      <4>2. j \in 1..Len(calls) /\ k \in 1..Len(calls)
        BY <3>1, <4>1
      <4> QED  BY <1>4, <1>6, <2>2, <3>1, <4>1, <4>2 DEF CallsShape
    <3> QED  BY <3>2, <3>3
  <2> QED  BY <1>7, <2>1, <2>2 DEF CallsShape
<1>9. CallNodes' = CallNodes \cup {v}
  <2>1. CallNodes' = {calls'[k].node : k \in 1..(Len(base) + 1)}
    BY <1>3 DEF CallNodes
  <2>2. 1..(Len(base) + 1) = 1..Len(base) \cup {Len(base) + 1}
    BY <1>3
  <2>3. CallNodes' = {calls'[k].node : k \in 1..Len(base)} \cup {v}
    BY <1>1, <1>3, <2>1, <2>2
  <2>4. {calls'[k].node : k \in 1..Len(base)} = CallNodes
    BY <1>6 DEF CallNodes
  <2> QED  BY <2>3, <2>4
<1> QED  BY <1>5, <1>8, <1>9, ShapeParts

\* Walking an edge within a call changes only that call's edges.
LEMMA EdgeWalked ==
  ASSUME TypeOK, StackShape, calls # << >>, NEW w, calls' = Walked(w),
         UNCHANGED <<program, indices, tstack>>
  PROVE  StackShape' /\ CallNodes' = CallNodes
<1>1. calls \in Seq(Frame) /\ Len(calls) \in Nat
  BY LenProperties DEF TypeOK, Frame
<1>2. /\ Len(calls') = Len(calls)
      /\ \A k \in 1..(Len(calls) - 1) : calls'[k] = calls[k]
      /\ calls'[Len(calls)].node = calls[Len(calls)].node
      /\ calls'[Len(calls)].edges = calls[Len(calls)].edges \ {w}
  BY <1>1, WalkedShape DEF Inner
<1>3. \A k \in 1..Len(calls) : calls'[k].node = calls[k].node /\ calls'[k].edges \subseteq calls[k].edges
  <2> TAKE k \in 1..Len(calls)
  <2>1. CASE k = Len(calls)
    BY <1>2, <2>1
  <2>2. CASE k # Len(calls)
    <3>1. k \in 1..(Len(calls) - 1)
      BY <1>1, <2>2
    <3> QED  BY <1>2, <3>1
  <2> QED  BY <2>1, <2>2
<1>4. OnStack' = OnStack /\ Indexed' = Indexed /\ \A x : Edges(x)' = Edges(x)
  BY DEF OnStack, Indexed, Edges
<1>5. NodesShape' /\ CallsShape'
  BY <1>2, <1>3, <1>4, ShapeParts DEF NodesShape, CallsShape
<1>6. CallNodes' = CallNodes
  BY <1>2, <1>3 DEF CallNodes
<1> QED  BY <1>5, <1>6, ShapeParts

\* A call that returns leaves the others, and the nodes of those are still on the
\* stack: they were entered before it.
LEMMA Returned ==
  ASSUME TypeOK, StackShape, Return
  PROVE  /\ StackShape'
         /\ Inner.node \in OnStack /\ Inner.node \in Locals
         /\ CallNodes = CallNodes' \cup {Inner.node}
         /\ \A c \in CallNodes' : c \in OnStack /\ c \in Locals /\ indices[c] < indices[Inner.node]
         /\ OnStack' = IF low[Inner.node] = indices[Inner.node]
                         THEN {x \in OnStack : indices[x] < indices[Inner.node]} ELSE OnStack
         /\ Indexed' = Indexed
<1> DEFINE v == Inner.node
<1>1. calls \in Seq(Frame) /\ calls # << >>
  BY DEF Return, Checking, TypeOK, Frame
<1>2. /\ Len(calls) \in 1..Len(calls) /\ Inner \in Frame /\ calls[Len(calls)] = Inner
      /\ calls' = Outer /\ Len(calls') = Len(calls) - 1
      /\ \A k \in 1..Len(calls') : calls'[k] = calls[k]
      /\ Len(calls) \in Nat
  BY <1>1, InnerOuter, LenProperties DEF Return, Inner
<1>3. v \in OnStack /\ v \in Locals
  BY <1>2, IndexType DEF StackShape
<1>4. UNCHANGED <<program, indices>>
  BY DEF Return
<1>5. Indexed' = Indexed /\ \A x : Edges(x)' = Edges(x)
  BY <1>4 DEF Indexed, Edges
<1>6. \A k \in 1..Len(calls') : /\ calls[k].node \in OnStack
                                /\ calls[k].node \in Locals
                                /\ calls[k].edges \subseteq Edges(calls[k].node)
                                /\ indices[calls[k].node] < indices[v]
  BY <1>2, IndexType DEF StackShape
<1>7. CallNodes = CallNodes' \cup {v}
  <2>1. 1..Len(calls) = 1..Len(calls') \cup {Len(calls)}
    BY <1>2
  <2>2. CallNodes' = {calls[k].node : k \in 1..Len(calls')}
    BY <1>2 DEF CallNodes
  <2> QED  BY <1>2, <2>1, <2>2 DEF CallNodes
<1>8. \A c \in CallNodes' : c \in OnStack /\ c \in Locals /\ indices[c] < indices[v]
  BY <1>2, <1>6 DEF CallNodes
<1>9. /\ Len(tstack') <= Len(tstack) /\ tstack' \in Seq(Locals)
      /\ \A k \in 1..Len(tstack') : tstack'[k] = tstack[k]
      /\ OnStack' = IF low[v] = indices[v] THEN {x \in OnStack : indices[x] < indices[v]} ELSE OnStack
  <2>1. CASE low[v] = indices[v]
    <3>1. tstack' = Rest(v)
      BY <2>1 DEF Return, Rest
    <3> QED  BY <1>3, <2>1, <3>1, Unwound DEF OnStack
  <2>2. CASE low[v] # indices[v]
    <3>1. tstack' = tstack
      BY <2>2 DEF Return
    <3> QED  BY <2>2, <3>1, IndexType DEF OnStack, TypeOK
  <2> QED  BY <2>1, <2>2
<1>10. NodesShape'
  <2>1. Len(tstack') \in Nat /\ Len(tstack) \in Nat
    BY <1>9, IndexType, LenProperties
  <2>2. \A k \in 1..Len(tstack') : k \in 1..Len(tstack)
    BY <1>9, <2>1
  <2> QED  BY <1>4, <1>5, <1>9, <2>2 DEF NodesShape, StackShape
<1>11. CallsShape'
  <2>1. \A k \in 1..Len(calls') : calls[k].node \in OnStack'
    BY <1>6, <1>9
  <2>2. \A k \in 1..Len(calls') : k \in 1..Len(calls)
    BY <1>2
  <2> QED  BY <1>2, <1>4, <1>5, <1>6, <2>1, <2>2 DEF CallsShape, StackShape
<1> QED  BY <1>3, <1>5, <1>7, <1>8, <1>9, <1>10, <1>11, ShapeParts

LEMMA ShapeKept ==
  ASSUME TypeOK, StackShape, [Next]_vars
  PROVE  StackShape' /\ program' = program
<1>1. CASE NextRoot
  <2>1. PICK v \in Locals \ Indexed :
           Enter(v) /\ calls' = <<[node |-> v, edges |-> Edges(v)]>>
    BY <1>1 DEF NextRoot
  <2>2. calls = << >> /\ program' = program
    BY <1>1 DEF NextRoot
  <2>3. << >> \in Seq(Frame) /\ Len(<< >>) = 0
        /\ calls' = Append(<< >>, [node |-> v, edges |-> Edges(v)])
    BY <2>1
  <2>4. Len(calls) = 0 /\ \A k \in 1..0 : FALSE
    BY <2>2, <2>3
  <2> QED  BY <2>1, <2>2, <2>3, <2>4, Called
<1>2. ASSUME NEW w \in Locals, Descend(w)
      PROVE  StackShape' /\ program' = program
  <2>1. /\ w \in Locals \ Indexed /\ Enter(w) /\ program' = program
        /\ calls' = Append(Walked(w), [node |-> w, edges |-> Edges(w)])
        /\ calls # << >> /\ calls \in Seq(Frame)
    BY <1>2 DEF Descend, Checking, TypeOK, Frame
  <2>2. /\ Walked(w) \in Seq(Frame) /\ Len(Walked(w)) = Len(calls)
        /\ \A k \in 1..(Len(calls) - 1) : Walked(w)[k] = calls[k]
        /\ Walked(w)[Len(calls)].node = calls[Len(calls)].node
        /\ Walked(w)[Len(calls)].edges = calls[Len(calls)].edges \ {w}
        /\ Len(calls) \in Nat
    BY <2>1, WalkedShape, LenProperties DEF Inner
  <2>3. \A k \in 1..Len(Walked(w)) :
           Walked(w)[k].node = calls[k].node /\ Walked(w)[k].edges \subseteq calls[k].edges
    <3> TAKE k \in 1..Len(Walked(w))
    <3>1. k = Len(calls) \/ k \in 1..(Len(calls) - 1)
      BY <2>2
    <3> QED  BY <2>2, <3>1
  <2> QED  BY <2>1, <2>2, <2>3, Called
<1>3. ASSUME NEW w \in Locals, ReturnAtOnce(w) \/ Lookup(w)
      PROVE  StackShape' /\ program' = program
  <2>1. calls # << >> /\ calls' = Walked(w) /\ UNCHANGED <<program, indices, tstack>>
    BY <1>3 DEF ReturnAtOnce, Lookup, Checking
  <2> QED  BY <2>1, EdgeWalked
<1>4. CASE Return
  BY <1>4, Returned DEF Return
<1>5. CASE UNCHANGED <<program, tarjan>>
  <2>1. OnStack' = OnStack /\ Indexed' = Indexed /\ \A x : Edges(x)' = Edges(x)
    BY <1>5 DEF tarjan, OnStack, Indexed, Edges
  <2>2. UNCHANGED <<program, indices, tstack, calls>>
    BY <1>5 DEF tarjan
  <2> QED  BY <2>1, <2>2, ShapeParts DEF NodesShape, CallsShape
<1>6. BeginSolve \/ ReduceLocal \/ NextPass \/ Finish \/ ReportCycle \/ UNCHANGED vars
      => UNCHANGED <<program, tarjan>>
  BY DEF BeginSolve, ReduceLocal, NextPass, Finish, ReportCycle, vars
<1> QED  BY <1>1, <1>2, <1>3, <1>4, <1>5, <1>6 DEF Next, Evaluate, Terminated

-----------------------------------------------------------------------------
(* The search finds a cycle if there is one.                                *)

LEMMA SameGraph ==
  ASSUME program' = program
  PROVE  /\ \A x : Edges(x)' = Edges(x) /\ Walk(x)' = Walk(x) /\ Reaches(x)' = Reaches(x)
         /\ Cyclic' <=> Cyclic
<1>1. \A x : Edges(x)' = Edges(x)
  BY DEF Edges
<1>2. EdgeMap' = EdgeMap
  BY <1>1 DEF EdgeMap
<1> QED  BY <1>1, <1>2 DEF Walk, Reaches, Reachable, Cyclic

Tracks == LeadsBack /\ LeadsOn /\ LowIsIndex /\ LeftIsAcyclic

\* A node that every call under way leads to is entered.
LEMMA EnterTracks ==
  ASSUME TypeOK, StackShape, Tracks, program' = program,
         NEW v \in Locals \ Indexed, Enter(v), CallNodes' = CallNodes \cup {v},
         \A c \in CallNodes : v \in Walk(c)
  PROVE  Tracks'
<1>1. /\ Indexed' = Indexed \cup {v} /\ OnStack' = OnStack \cup {v} /\ v \notin OnStack
      /\ \A x \in Locals \ {v} : indices'[x] = indices[x] /\ low'[x] = low[x]
      /\ indices'[v] \in Nat /\ low'[v] = indices'[v]
      /\ \A x \in Indexed : indices[x] < indices'[v]
  BY Entered, ShapeParts
<1>2. OnStack \subseteq Indexed /\ CallNodes \subseteq OnStack /\ Indexed \subseteq Locals
  BY IndexType DEF StackShape, OnStack, CallNodes
<1>3. \A x \in OnStack : /\ x # v /\ x \in Locals
                         /\ indices'[x] = indices[x] /\ low'[x] = low[x]
                         /\ indices[x] < indices'[v] /\ indices[x] \in Nat /\ low[x] \in Nat
  BY <1>1, <1>2, IndexType
<1>4. program \in ProgramShape
  BY ProgramIsShape
<1>5. \A x : Walk(x)' = Walk(x) /\ Edges(x)' = Edges(x) /\ Reaches(x)' = Reaches(x)
  BY SameGraph
<1>6. \A x \in OnStack : v \in Walk(x)
  <2> TAKE x \in OnStack
  <2>1. PICK c \in CallNodes : c \in Walk(x)
    BY DEF Tracks, LeadsBack
  <2> QED  BY <1>2, <1>4, <2>1, Walks
<1>7. v \in Walk(v)
  BY <1>4, Walks
<1>8. LeadsBack'
  <2> SUFFICES ASSUME NEW x \in OnStack'
               PROVE  \E c \in CallNodes' : indices'[c] <= indices'[x] /\ c \in Walk(x)
    BY <1>5 DEF LeadsBack
  <2>1. CASE x = v
    BY <1>1, <1>7, <2>1
  <2>2. CASE x # v
    <3>1. x \in OnStack
      BY <1>1, <2>2
    <3>2. PICK c \in CallNodes : indices[c] <= indices[x] /\ c \in Walk(x)
      BY <3>1 DEF Tracks, LeadsBack
    <3> QED  BY <1>2, <1>3, <3>1, <3>2
  <2> QED  BY <2>1, <2>2
<1>9. LeadsOn'
  <2> SUFFICES ASSUME NEW x \in OnStack', NEW y \in OnStack', indices'[x] <= indices'[y]
               PROVE  y \in Walk(x)
    BY <1>5 DEF LeadsOn
  <2>1. CASE y = v
    BY <1>1, <1>6, <1>7, <2>1
  <2>2. CASE y # v
    <3>1. y \in OnStack /\ x \in OnStack
      BY <1>1, <1>3, <2>2
    <3> QED  BY <1>3, <3>1 DEF Tracks, LeadsOn
  <2> QED  BY <2>1, <2>2
<1>10. LowIsIndex'
  <2> SUFFICES ASSUME NEW x \in OnStack'
               PROVE  /\ low'[x] <= indices'[x]
                      /\ \E u \in OnStack' : low'[x] = indices'[u] /\ u \in Walk(x)
    BY <1>5 DEF LowIsIndex
  <2>1. CASE x = v
    BY <1>1, <1>7, <2>1
  <2>2. CASE x # v
    <3>1. x \in OnStack
      BY <1>1, <2>2
    <3>2. low[x] <= indices[x] /\ \E u \in OnStack : low[x] = indices[u] /\ u \in Walk(x)
      BY <3>1 DEF Tracks, LowIsIndex
    <3> QED  BY <1>1, <1>3, <3>1, <3>2
  <2> QED  BY <2>1, <2>2
<1>11. LeftIsAcyclic'
  <2>1. Gone' = Gone
    BY <1>1 DEF Gone
  <2> QED  BY <1>5, <2>1 DEF Tracks, LeftIsAcyclic
<1> QED  BY <1>8, <1>9, <1>10, <1>11 DEF Tracks

\* The node of the innermost call is entered after those of the others, which
\* therefore lead to it.
LEMMA InnerIsLast ==
  ASSUME TypeOK, StackShape, calls # << >>
  PROVE  /\ Inner.node \in OnStack /\ Inner.node \in Locals /\ Inner.edges \subseteq Edges(Inner.node)
         /\ Len(calls) \in 1..Len(calls) /\ Inner = calls[Len(calls)]
         /\ \A c \in CallNodes : c \in OnStack /\ indices[c] <= indices[Inner.node]
         /\ Inner.node \in CallNodes
<1>1. Len(calls) \in 1..Len(calls) /\ Inner = calls[Len(calls)] /\ Len(calls) \in Nat
  BY InnerOuter, LenProperties DEF TypeOK, Frame, Inner
<1>2. Inner.node \in OnStack /\ Inner.edges \subseteq Edges(Inner.node)
  BY <1>1 DEF StackShape
<1>3. \A x \in OnStack : x \in Locals /\ indices[x] \in Nat
  BY IndexType DEF StackShape, OnStack
<1>4. \A k \in 1..Len(calls) :
         calls[k].node \in OnStack /\ indices[calls[k].node] <= indices[Inner.node]
  <2> TAKE k \in 1..Len(calls)
  <2>1. calls[k].node \in OnStack
    BY DEF StackShape
  <2>2. CASE k = Len(calls)
    BY <1>1, <1>3, <2>1, <2>2
  <2>3. CASE k # Len(calls)
    <3>1. k < Len(calls)
      BY <1>1, <2>3
    <3>2. indices[calls[k].node] < indices[calls[Len(calls)].node]
      BY <1>1, <3>1 DEF StackShape
    <3> QED  BY <1>1, <1>2, <1>3, <2>1, <3>2
  <2> QED  BY <2>2, <2>3
<1> QED  BY <1>1, <1>2, <1>3, <1>4 DEF CallNodes

\* An edge of the innermost call has been walked to w, whose entry, if it is on the
\* stack, the lowlink of that call's node accounts for.
LEMMA EdgesWalkedOn ==
  ASSUME TypeOK, StackShape, EdgesWalked, calls # << >>, NEW w,
         program' = program, \A x \in Indexed : x \in Indexed' /\ indices'[x] = indices[x],
         \A x \in OnStack' \cap Indexed : x \in OnStack,
         \A x \in Locals : low'[x] \in Nat /\ (x \in OnStack => low'[x] <= low[x]),
         w \in Indexed', w \in OnStack' => low'[Inner.node] <= indices'[w],
         NEW k \in 1..Len(calls),
         NEW x \in Edges(Walked(w)[k].node) \ Walked(w)[k].edges
  PROVE  x \in Indexed' /\ (x \in OnStack' => low'[Walked(w)[k].node] <= indices'[x])
<1>1. /\ Len(Walked(w)) = Len(calls)
      /\ \A j \in 1..(Len(calls) - 1) : Walked(w)[j] = calls[j]
      /\ Walked(w)[Len(calls)].node = Inner.node
      /\ Walked(w)[Len(calls)].edges = Inner.edges \ {w}
      /\ Inner = calls[Len(calls)]
  BY WalkedShape DEF TypeOK, Frame, Inner
<1>2. Walked(w)[k].node = calls[k].node
      /\ (x \in Edges(calls[k].node) \ calls[k].edges \/ (x = w /\ calls[k].node = Inner.node))
  <2>1. CASE k = Len(calls)
    BY <1>1, <2>1
  <2>2. CASE k # Len(calls)
    <3>1. k \in 1..(Len(calls) - 1)
      BY <2>2, LenProperties DEF TypeOK
    <3> QED  BY <1>1, <3>1
  <2> QED  BY <2>1, <2>2
<1>3. calls[k].node \in OnStack /\ calls[k].node \in Locals
  BY IndexType DEF StackShape
<1>4. CASE x = w /\ calls[k].node = Inner.node
  BY <1>2, <1>4
<1>5. CASE x \in Edges(calls[k].node) \ calls[k].edges
  <2>1. x \in Indexed /\ (x \in OnStack => low[calls[k].node] <= indices[x])
    BY <1>5 DEF EdgesWalked
  <2>2. x \in Indexed' /\ indices'[x] = indices[x] /\ indices[x] \in Nat
    BY <2>1, IndexType
  <2>3. low'[calls[k].node] \in Nat /\ low'[calls[k].node] <= low[calls[k].node]
        /\ low[calls[k].node] \in Nat
    BY <1>3, IndexType
  <2> QED  BY <1>2, <2>1, <2>2, <2>3
<1> QED  BY <1>2, <1>4, <1>5

SearchState == LeadsBack /\ LeadsOn /\ LowIsIndex /\ EdgesWalked /\ LeftIsAcyclic

LEMMA SearchNextRoot ==
  ASSUME TypeOK, StackShape, SearchState, NextRoot
  PROVE  SearchState'
<1>1. PICK v \in Locals \ Indexed :
           Enter(v) /\ calls' = <<[node |-> v, edges |-> Edges(v)]>>
  BY DEF NextRoot
<1>2. calls = << >> /\ program' = program
  BY DEF NextRoot
<1>3. CallNodes = {} /\ CallNodes' = {v}
  <2>1. Len(calls') = 1 /\ calls'[1].node = v /\ Len(calls) = 0
    BY <1>1, <1>2
  <2> QED  BY <2>1 DEF CallNodes
<1>4. Tracks'
  BY <1>1, <1>2, <1>3, EnterTracks DEF Tracks, SearchState
<1>5. EdgesWalked'
  <2>1. Len(calls') = 1 /\ calls'[1].node = v /\ calls'[1].edges = Edges(v)
    BY <1>1
  <2>2. \A x : Edges(x)' = Edges(x)
    BY <1>2, SameGraph
  <2> QED  BY <2>1, <2>2 DEF EdgesWalked
<1> QED  BY <1>4, <1>5 DEF Tracks, SearchState

LEMMA SearchDescend ==
  ASSUME TypeOK, StackShape, SearchState, NEW w \in Locals, Descend(w)
  PROVE  SearchState'
<1> DEFINE f == [node |-> w, edges |-> Edges(w)]
<1>1. /\ w \in Locals \ Indexed /\ w \in Inner.edges /\ Enter(w) /\ program' = program
      /\ calls' = Append(Walked(w), f)
      /\ calls # << >> /\ calls \in Seq(Frame)
  BY DEF Descend, Checking, TypeOK, Frame
<1>2. /\ f \in Frame /\ f.node = w /\ f.edges = Edges(w)
  BY DEF Frame, Edges
<1> HIDE DEF f
<1>3. /\ Walked(w) \in Seq(Frame) /\ Len(Walked(w)) = Len(calls) /\ Len(calls) \in Nat
      /\ \A k \in 1..(Len(calls) - 1) : Walked(w)[k] = calls[k]
      /\ Walked(w)[Len(calls)].node = Inner.node
      /\ Walked(w)[Len(calls)].edges = Inner.edges \ {w}
      /\ Inner = calls[Len(calls)]
  BY <1>1, WalkedShape, LenProperties DEF Inner
<1>4. \A k \in 1..Len(Walked(w)) :
         Walked(w)[k].node = calls[k].node /\ Walked(w)[k].edges \subseteq calls[k].edges
  <2> TAKE k \in 1..Len(Walked(w))
  <2>1. k = Len(calls) \/ k \in 1..(Len(calls) - 1)
    BY <1>3
  <2> QED  BY <1>3, <2>1
<1>5. CallNodes' = CallNodes \cup {w}
  BY <1>1, <1>3, <1>4, Called DEF f
<1>6. program \in ProgramShape
  BY ProgramIsShape
<1>7. \A c \in CallNodes : w \in Walk(c)
  <2> TAKE c \in CallNodes
  <2>1. /\ Inner.node \in OnStack /\ Inner.node \in Locals
        /\ c \in OnStack /\ indices[c] <= indices[Inner.node] /\ w \in Edges(Inner.node)
    BY <1>1, InnerIsLast
  <2>2. Inner.node \in Walk(c) /\ c \in Locals
    BY <2>1, IndexType DEF SearchState, LeadsOn
  <2> QED  BY <1>6, <2>1, <2>2, Walks
<1>8. Tracks'
  BY <1>1, <1>5, <1>7, EnterTracks DEF Tracks, SearchState
<1>9. EdgesWalked'
  <2>1. /\ Indexed' = Indexed \cup {w} /\ OnStack' = OnStack \cup {w} /\ w \notin OnStack
        /\ \A x \in Locals \ {w} : indices'[x] = indices[x] /\ low'[x] = low[x]
        /\ indices'[w] \in Nat /\ low'[w] = indices'[w]
        /\ \A x \in Indexed : indices[x] < indices'[w]
    BY <1>1, Entered, ShapeParts
  <2>2. Inner.node \in OnStack /\ Inner.node \in Locals /\ Inner.node # w /\ Inner.node \in Indexed
        /\ low[Inner.node] <= indices[Inner.node]
    BY <1>1, <2>1, InnerIsLast, IndexType DEF SearchState, LowIsIndex, StackShape, OnStack
  <2>3. low'[Inner.node] <= indices'[w]
    BY <2>1, <2>2, IndexType
  <2>4. \A x \in Locals : low'[x] \in Nat /\ (x \in OnStack => low'[x] <= low[x])
    BY <2>1, IndexType
  <2>5. \A x \in Indexed : x \in Indexed' /\ indices'[x] = indices[x]
    BY <1>1, <2>1, IndexType
  <2>6. \A x \in OnStack' \cap Indexed : x \in OnStack
    BY <1>1, <2>1
  <2>7. \A k \in 1..Len(calls) : \A x \in Edges(Walked(w)[k].node) \ Walked(w)[k].edges :
            x \in Indexed' /\ (x \in OnStack' => low'[Walked(w)[k].node] <= indices'[x])
    <3> TAKE k \in 1..Len(calls)
    <3> TAKE x \in Edges(Walked(w)[k].node) \ Walked(w)[k].edges
    <3>1. w \in Indexed'
      BY <2>1
    <3>2. EdgesWalked
      BY DEF SearchState
    <3> QED  BY <1>1, <2>3, <2>4, <2>5, <2>6, <3>1, <3>2, EdgesWalkedOn
  <2>8. /\ Len(calls') = Len(calls) + 1 /\ calls'[Len(calls) + 1] = f
        /\ \A k \in 1..Len(calls) : calls'[k] = Walked(w)[k]
    BY <1>1, <1>2, <1>3, AppendProperties
  <2>9. \A k \in 1..Len(calls') : k = Len(calls) + 1 \/ k \in 1..Len(calls)
    BY <1>3, <2>8
  <2>10. \A x : Edges(x)' = Edges(x)
    BY <1>1, SameGraph
  <2> QED  BY <1>2, <2>7, <2>8, <2>9, <2>10 DEF EdgesWalked
<1> QED  BY <1>8, <1>9 DEF Tracks, SearchState

LEMMA SearchLookup ==
  ASSUME TypeOK, StackShape, SearchState, NEW w \in Locals, Lookup(w)
  PROVE  SearchState'
<1> DEFINE v == Inner.node
<1>1. /\ w \in Inner.edges /\ w \in Indexed /\ calls # << >> /\ calls' = Walked(w)
      /\ low' = IF w \in OnStack THEN [low EXCEPT ![v] = Least(@, indices[w])] ELSE low
      /\ UNCHANGED <<program, indices, tstack>>
  BY DEF Lookup, Checking
<1>2. v \in OnStack /\ v \in Locals /\ w \in Edges(v)
  BY <1>1, InnerIsLast
<1>3. OnStack' = OnStack /\ Indexed' = Indexed /\ Gone' = Gone
      /\ \A x : Edges(x)' = Edges(x) /\ Walk(x)' = Walk(x) /\ Reaches(x)' = Reaches(x)
  BY <1>1, SameGraph DEF OnStack, Indexed, Gone
<1>4. CallNodes' = CallNodes
  BY <1>1, EdgeWalked
<1>5. OnStack \subseteq Indexed /\ \A x \in OnStack : indices[x] \in 0..(N - 1) /\ indices[x] \in Nat
  BY IndexType DEF StackShape, OnStack
<1>6. \A x \in Locals : /\ low[x] \in Nat /\ low'[x] \in Nat /\ low'[x] <= low[x]
                        /\ low'[x] = low[x] \/ (x = v /\ w \in OnStack /\ low'[x] = indices[w])
                        /\ (x = v /\ w \in OnStack) => low'[x] <= indices[w]
  <2>1. low \in [Locals -> 0..(N - 1)]
    BY DEF TypeOK
  <2>2. CASE w \in OnStack
    <3>1. low[v] \in 0..(N - 1) /\ indices[w] \in 0..(N - 1)
      BY <1>2, <1>5, <2>1, <2>2
    <3>2. low' = [low EXCEPT ![v] = Least(low[v], indices[w])]
      BY <1>1, <2>2
    <3> DEFINE m == Least(low[v], indices[w])
    <3>3. m \in 0..(N - 1) /\ m <= low[v] /\ m <= indices[w] /\ (m = low[v] \/ m = indices[w])
      BY <3>1, LeastType
    <3> HIDE DEF m
    <3>4. low'[v] = m /\ \A x \in Locals \ {v} : low'[x] = low[x]
      BY <1>2, <2>1, <3>2 DEF m
    <3>5. m \in Nat /\ \A x \in Locals : low[x] \in Nat
      BY <3>3, IndexType
    <3> QED  BY <1>2, <2>2, <3>3, <3>4, <3>5
  <2>3. CASE w \notin OnStack
    BY <1>1, <2>3, IndexType
  <2> QED  BY <2>2, <2>3
<1>7. program \in ProgramShape
  BY ProgramIsShape
<1>8. LowIsIndex'
  <2> SUFFICES ASSUME NEW x \in OnStack
               PROVE  low'[x] <= indices[x] /\ \E u \in OnStack : low'[x] = indices[u] /\ u \in Walk(x)
    BY <1>1, <1>3 DEF LowIsIndex
  <2>1. low[x] <= indices[x] /\ \E u \in OnStack : low[x] = indices[u] /\ u \in Walk(x)
    BY DEF SearchState, LowIsIndex
  <2>2. x \in Locals /\ indices[x] \in Nat
    BY <1>5, IndexType
  <2>3. low'[x] <= indices[x]
    BY <1>6, <2>1, <2>2
  <2>4. w \in Walk(v)
    BY <1>2, <1>7, Walks
  <2>5. low'[x] = low[x] \/ (x = v /\ w \in OnStack /\ low'[x] = indices[w])
    BY <1>6, <2>2
  <2> QED  BY <2>1, <2>3, <2>4, <2>5
<1>9. EdgesWalked'
  <2>1. EdgesWalked
    BY DEF SearchState
  <2>2. \A k \in 1..Len(calls) : \A x \in Edges(Walked(w)[k].node) \ Walked(w)[k].edges :
            x \in Indexed' /\ (x \in OnStack' => low'[Walked(w)[k].node] <= indices'[x])
    <3> TAKE k \in 1..Len(calls)
    <3> TAKE x \in Edges(Walked(w)[k].node) \ Walked(w)[k].edges
    <3>1. \A y \in Indexed : y \in Indexed' /\ indices'[y] = indices[y]
      BY <1>1, <1>3
    <3>2. \A y \in OnStack' \cap Indexed : y \in OnStack
      BY <1>3
    <3>3. \A y \in Locals : low'[y] \in Nat /\ (y \in OnStack => low'[y] <= low[y])
      BY <1>6
    <3>4. w \in Indexed' /\ (w \in OnStack' => low'[v] <= indices'[w])
      BY <1>1, <1>2, <1>3, <1>6
    <3> QED  BY <1>1, <2>1, <3>1, <3>2, <3>3, <3>4, EdgesWalkedOn
  <2>3. Len(calls') = Len(calls)
    BY <1>1, WalkedShape DEF TypeOK, Frame
  <2> QED  BY <1>1, <1>3, <2>2, <2>3 DEF EdgesWalked
<1>10. LeadsBack' /\ LeadsOn' /\ LeftIsAcyclic'
  BY <1>1, <1>3, <1>4 DEF SearchState, LeadsBack, LeadsOn, LeftIsAcyclic
<1> QED  BY <1>8, <1>9, <1>10 DEF SearchState

\* The caller of a call that returns merges the lowlink of its node, if that is the
\* lower one.
LEMMA MergedLow ==
  ASSUME TypeOK, StackShape, Return
  PROVE  \A x \in Locals :
           /\ low'[x] \in Nat /\ low'[x] <= low[x] /\ low'[x] <= N - 1
           /\ low'[x] = low[x] \/ (x \in CallNodes' /\ low'[x] = low[Inner.node])
<1> DEFINE v == Inner.node
           o == Outer[Len(Outer)].node
           m == Least(low[o], low[v])
<1>1. calls \in Seq(Frame) /\ calls # << >>
  BY DEF Return, Checking, TypeOK, Frame
<1>2. /\ calls' = Outer /\ Outer \in Seq(Frame) /\ v \in Locals
      /\ low' = IF Outer = << >> THEN low ELSE [low EXCEPT ![o] = Least(@, low[v])]
  BY <1>1, InnerOuter DEF Return, Frame
<1>3. low \in [Locals -> 0..(N - 1)]
  BY DEF TypeOK
<1>4. CASE Outer = << >>
  BY <1>2, <1>3, <1>4, IndexType, NumberOfLocals
<1>5. CASE Outer # << >>
  <2>1. Len(Outer) \in 1..Len(Outer)
    BY <1>2, <1>5, EmptySeq, LenProperties
  <2>2. o \in CallNodes' /\ o \in Locals
    <3>1. Outer[Len(Outer)] \in Frame
      BY <1>2, <2>1, ElementOfSeq
    <3>2. o \in {calls'[k].node : k \in 1..Len(calls')}
      BY <1>2, <2>1
    <3> QED  BY <3>1, <3>2 DEF CallNodes, Frame
  <2>3. low[o] \in 0..(N - 1) /\ low[v] \in 0..(N - 1)
    BY <1>2, <1>3, <2>2
  <2>4. m \in 0..(N - 1) /\ m <= low[o] /\ (m = low[o] \/ m = low[v])
    BY <2>3, LeastType
  <2>5. low' = [low EXCEPT ![o] = m]
    BY <1>2, <1>5
  <2> HIDE DEF m, o, v
  <2>6. low'[o] = m /\ \A x \in Locals \ {o} : low'[x] = low[x]
    BY <1>3, <2>2, <2>5
  <2>7. \A x \in Locals : low[x] \in Nat /\ low[x] <= N - 1
    BY <1>3, IndexType, NumberOfLocals
  <2> QED  BY <2>2, <2>4, <2>6, <2>7 DEF v
<1> QED  BY <1>4, <1>5

\* A node of the stack that is above v leads back to it.
LEMMA AboveIsCircle ==
  ASSUME TypeOK, StackShape, SearchState, calls # << >>,
         NEW w \in OnStack, w # Inner.node, indices[Inner.node] <= indices[w]
  PROVE  Cyclic
<1> DEFINE v == Inner.node
<1>1. v \in OnStack /\ v \in Locals /\ \A c \in CallNodes : c \in OnStack /\ indices[c] <= indices[v]
  BY InnerIsLast
<1>2. program \in ProgramShape /\ OnStack \subseteq Locals
  BY ProgramIsShape, IndexType
<1>3. w \in Walk(v)
  BY <1>1 DEF SearchState, LeadsOn
<1>4. PICK c \in CallNodes : c \in Walk(w)
  BY DEF SearchState, LeadsBack
<1>5. v \in Walk(c)
  BY <1>1, <1>4 DEF SearchState, LeadsOn
<1>6. v \in Walk(w)
  BY <1>1, <1>2, <1>4, <1>5, Walks
<1> QED  BY <1>1, <1>2, <1>3, <1>6, CircleIsCyclic

\* What is reported when nothing was reported yet is on a circle.
LEMMA ReportIsCycle ==
  ASSUME TypeOK, StackShape, SearchState, found = {}, Return, found' # {}
  PROVE  Cyclic
<1> DEFINE v == Inner.node
<1>1. calls # << >>
  BY DEF Return, Checking
<1>2. v \in OnStack /\ v \in Locals /\ OnStack \subseteq Locals
  BY <1>1, InnerIsLast, IndexType
<1>3. v \in Edges(v) \/ Cardinality(Popped(v)) > 1
  BY DEF Return
<1>4. CASE v \in Edges(v)
  BY <1>2, <1>4, CircleIsCyclic, ProgramIsShape
<1>5. CASE Cardinality(Popped(v)) > 1
  <2>1. Popped(v) = {x \in OnStack : indices[v] <= indices[x]} /\ v \in Popped(v)
    BY <1>2, Unwound
  <2>2. Popped(v) # {v}
    BY <1>5, FS_Singleton
  <2>3. PICK w \in Popped(v) : w # v
    BY <2>1, <2>2
  <2> QED  BY <1>1, <2>1, <2>3, AboveIsCircle
<1> QED  BY <1>3, <1>4, <1>5

\* A node that returns without a report leaves the stack alone, or stays on it and
\* leads back to a caller.
LEMMA SearchReturn ==
  ASSUME TypeOK, StackShape, SearchState, found = {}, Return, found' = {}
  PROVE  SearchState'
<1> DEFINE v == Inner.node
           closes == low[v] = indices[v]
<1>1. calls # << >> /\ Inner.edges = {} /\ calls' = Outer /\ UNCHANGED <<program, indices>>
      /\ v \in OnStack /\ v \in Locals /\ OnStack \subseteq Locals
  BY InnerIsLast, IndexType DEF Return, Checking
<1>2. /\ CallNodes = CallNodes' \cup {v}
      /\ \A c \in CallNodes' : c \in OnStack /\ c \in Locals /\ indices[c] < indices[v]
      /\ OnStack' = IF closes THEN {x \in OnStack : indices[x] < indices[v]} ELSE OnStack
      /\ Indexed' = Indexed
  BY Returned
<1>3. \A x \in Locals : /\ low'[x] \in Nat /\ low'[x] <= low[x]
                        /\ low'[x] = low[x] \/ (x \in CallNodes' /\ low'[x] = low[v])
  BY MergedLow
<1>4. program \in ProgramShape
  BY ProgramIsShape
<1>5. \A x : Walk(x)' = Walk(x) /\ Edges(x)' = Edges(x) /\ Reaches(x)' = Reaches(x)
  BY <1>1, SameGraph
<1>6. \A x \in OnStack : /\ x \in Indexed /\ x \in Locals /\ indices[x] \in Nat /\ low[x] \in Nat
                         /\ low[x] <= indices[x]
                         /\ \E u \in OnStack : low[x] = indices[u] /\ u \in Walk(x)
  BY IndexType DEF StackShape, OnStack, SearchState, LowIsIndex
<1>7. \A x, y \in OnStack : indices[x] <= indices[y] => y \in Walk(x)
  BY DEF SearchState, LeadsOn
<1>8. closes => /\ OnStack' = OnStack \ {v} /\ v \notin Edges(v)
                /\ \A x \in OnStack' : indices[x] < indices[v]
  <2> SUFFICES ASSUME closes
               PROVE  OnStack' = OnStack \ {v} /\ v \notin Edges(v)
                      /\ \A x \in OnStack' : indices[x] < indices[v]
    OBVIOUS
  <2>1. Popped(v) = {x \in OnStack : indices[v] <= indices[x]} /\ v \in Popped(v)
    BY <1>1, Unwound
  <2>2. v \notin Edges(v) /\ ~(Cardinality(Popped(v)) > 1)
    BY <2>1 DEF Return
  <2>3. IsFiniteSet(Popped(v)) /\ Cardinality(Popped(v)) \in Nat /\ Cardinality(Popped(v)) # 0
    BY <1>1, <2>1, LocalsFinite, FS_EmptySet
  <2>4. Cardinality(Popped(v)) = 1
    BY <2>2, <2>3
  <2>5. Popped(v) = {v}
    BY <2>1, <2>3, <2>4, FS_Singleton
  <2>6. \A x \in OnStack : indices[v] <= indices[x] => x = v
    BY <2>1, <2>5
  <2> QED  BY <1>1, <1>2, <1>6, <2>2, <2>6
<1>9. OnStack' \subseteq OnStack /\ (~closes => OnStack' = OnStack)
  BY <1>2
<1>10. LeadsBack'
  <2> SUFFICES ASSUME NEW x \in OnStack'
               PROVE  \E c \in CallNodes' : indices[c] <= indices[x] /\ c \in Walk(x)
    BY <1>1, <1>5 DEF LeadsBack
  <2>1. PICK c \in CallNodes : indices[c] <= indices[x] /\ c \in Walk(x)
    BY <1>9 DEF SearchState, LeadsBack
  <2>2. CASE c # v
    BY <1>2, <2>1, <2>2
  <2>3. CASE c = v
    <3>1. ~closes
      BY <1>1, <1>6, <1>8, <1>9, <2>1, <2>3
    <3>2. PICK u \in OnStack : low[v] = indices[u] /\ u \in Walk(v)
      BY <1>1, <1>6
    <3>3. indices[u] < indices[v]
      BY <1>1, <1>6, <3>1, <3>2
    <3>4. PICK d \in CallNodes : indices[d] <= indices[u] /\ d \in Walk(u)
      BY DEF SearchState, LeadsBack
    <3>5. d \in OnStack /\ d # v
      BY <1>1, <1>2, <1>6, <3>3, <3>4
    <3>6. d \in Walk(x)
      BY <1>1, <1>4, <1>6, <1>9, <2>1, <2>3, <3>2, <3>4, <3>5, Walks
    <3>7. indices[d] <= indices[x]
      BY <1>1, <1>6, <1>9, <2>1, <2>3, <3>2, <3>3, <3>4, <3>5
    <3> QED  BY <1>2, <3>4, <3>5, <3>6, <3>7
  <2> QED  BY <2>2, <2>3
<1>11. LeadsOn'
  BY <1>1, <1>5, <1>7, <1>9 DEF LeadsOn
<1>12. LowIsIndex'
  <2> SUFFICES ASSUME NEW x \in OnStack'
               PROVE  low'[x] <= indices[x] /\ \E u \in OnStack' : low'[x] = indices[u] /\ u \in Walk(x)
    BY <1>1, <1>5 DEF LowIsIndex
  <2>1. x \in OnStack /\ x \in Locals /\ indices[x] \in Nat /\ low[x] \in Nat /\ low[x] <= indices[x]
    BY <1>6, <1>9
  <2>2. low'[x] \in Nat /\ low'[x] <= low[x] /\ (low'[x] = low[x] \/ (x \in CallNodes' /\ low'[x] = low[v]))
    BY <1>3, <2>1
  <2>3. low'[x] <= indices[x]
    BY <2>1, <2>2
  <2>4. \E u \in OnStack : low'[x] = indices[u] /\ u \in Walk(x)
    <3>1. CASE low'[x] = low[x]
      BY <1>6, <2>1, <3>1
    <3>2. CASE x \in CallNodes' /\ low'[x] = low[v]
      <4>1. PICK u \in OnStack : low[v] = indices[u] /\ u \in Walk(v)
        BY <1>1, <1>6
      <4>2. v \in Walk(x)
        BY <1>1, <1>2, <1>6, <1>7, <3>2
      <4> QED  BY <1>1, <1>4, <2>1, <3>2, <4>1, <4>2, Walks
    <3> QED  BY <2>2, <3>1, <3>2
  <2>5. PICK u \in OnStack : low'[x] = indices[u] /\ u \in Walk(x)
    BY <2>4
  <2>6. u \in OnStack'
    <3>1. CASE closes
      <4>1. indices[x] < indices[v]
        BY <1>8, <3>1
      <4>2. u # v
        BY <1>1, <1>6, <2>1, <2>3, <2>5, <4>1
      <4> QED  BY <1>8, <3>1, <4>2
    <3>2. CASE ~closes
      BY <1>9, <3>2
    <3> QED  BY <3>1, <3>2
  <2> QED  BY <2>3, <2>5, <2>6
<1>13. EdgesWalked'
  <2>1. \A k \in 1..Len(calls') : calls'[k] = calls[k] /\ k \in 1..Len(calls)
    BY <1>1, InnerOuter, LenProperties DEF TypeOK, Frame
  <2> SUFFICES ASSUME NEW k \in 1..Len(calls'), NEW w \in Edges(calls[k].node) \ calls[k].edges
               PROVE  w \in Indexed /\ (w \in OnStack' => low'[calls[k].node] <= indices[w])
    BY <1>1, <1>2, <1>5, <2>1 DEF EdgesWalked
  <2>2. w \in Indexed /\ (w \in OnStack => low[calls[k].node] <= indices[w])
    BY <2>1 DEF SearchState, EdgesWalked
  <2>3. calls[k].node \in OnStack
    BY <2>1 DEF StackShape
  <2>4. low'[calls[k].node] \in Nat /\ low'[calls[k].node] <= low[calls[k].node]
        /\ low[calls[k].node] \in Nat
    BY <1>3, <1>6, <2>3
  <2> QED  BY <1>6, <1>9, <2>2, <2>4
<1>14. LeftIsAcyclic'
  <2>1. CASE ~closes
    <3>1. Gone' = Gone
      BY <1>2, <1>9, <2>1 DEF Gone
    <3> QED  BY <1>5, <3>1 DEF SearchState, LeftIsAcyclic
  <2>2. CASE closes
    <3>1. v \notin Gone /\ Gone' = Gone \cup {v} /\ Gone \subseteq Locals
      BY <1>1, <1>2, <1>6, <1>8, <2>2, IndexType DEF Gone
    <3>2. \A x \in Gone : Edges(x) \subseteq Gone /\ x \notin Reaches(x)
      BY DEF SearchState, LeftIsAcyclic
    <3>3. Edges(v) \subseteq Gone
      <4> SUFFICES ASSUME NEW w \in Edges(v), w \in OnStack
                   PROVE  FALSE
        <5>1. \A w \in Edges(v) : w \in Indexed
          BY <1>1, InnerIsLast DEF SearchState, EdgesWalked
        <5> QED  BY <5>1 DEF Gone
      <4>1. low[v] <= indices[w]
        BY <1>1, InnerIsLast DEF SearchState, EdgesWalked
      <4>2. w # v /\ w \in OnStack'
        BY <1>8, <2>2
      <4> QED  BY <1>1, <1>6, <1>8, <2>2, <4>1, <4>2
    <3>4. v \notin Reaches(v)
      <4>1. ClosedUnder(EdgeMap, Gone)
        BY <3>1, <3>2 DEF ClosedUnder, EdgeMap
      <4>2. Reaches(v) \subseteq Gone
        BY <3>1, <3>3, <4>1, ReachableLeast DEF Reaches
      <4> QED  BY <3>1, <4>2
    <3> QED  BY <1>5, <3>1, <3>2, <3>3, <3>4 DEF LeftIsAcyclic
  <2> QED  BY <2>1, <2>2
<1> QED  BY <1>10, <1>11, <1>12, <1>13, <1>14 DEF SearchState

\* The cycle check is right when it ends, and what it found is not forgotten.
LEMMA SearchKept ==
  ASSUME CheckInv, [Next]_vars
  PROVE  CheckInv'
<1>1. TypeOK /\ StackShape /\ SearchInv
  BY DEF CheckInv
<1>2. StackShape' /\ program' = program
  BY <1>1, ShapeKept
<1>3. Cyclic' <=> Cyclic
  BY <1>2, SameGraph
<1>4. TypeOK'
  <2>1. CASE UNCHANGED vars
    BY <1>1, <2>1 DEF TypeOK, vars, tarjan, solver
  <2>2. CASE Next
    BY <1>1, <2>1, <2>2, TypeCheck, TypeSolve DEF Next, Evaluate, Terminated
  <2> QED  BY <2>1, <2>2
<1>5. SearchInv <=> /\ found = {} => SearchState
                    /\ found # {} => Cyclic
                    /\ phase # "check" => (found = {} => ~Cyclic)
                    /\ phase = "solve" => found = {}
  BY DEF SearchInv, SearchState
<1>6. SearchInv' <=> /\ found' = {} => SearchState'
                     /\ found' # {} => Cyclic
                     /\ phase' # "check" => (found' = {} => ~Cyclic)
                     /\ phase' = "solve" => found' = {}
  BY <1>3 DEF SearchInv, SearchState
<1>7. ASSUME NextRoot PROVE SearchInv'
  <2>1. found' = found /\ phase' = phase
    BY <1>7 DEF NextRoot
  <2> QED  BY <1>1, <1>5, <1>6, <1>7, <2>1, SearchNextRoot
<1>8. ASSUME NEW w \in Locals, Descend(w) \/ Lookup(w) PROVE SearchInv'
  <2>1. found' = found /\ phase' = phase
    BY <1>8 DEF Descend, Lookup
  <2> QED  BY <1>1, <1>5, <1>6, <1>8, <2>1, SearchDescend, SearchLookup
<1>9. ASSUME NEW w \in Locals, ReturnAtOnce(w) PROVE SearchInv'
  <2>1. found' = found /\ phase' = phase /\ found # {}
    BY <1>9 DEF ReturnAtOnce
  <2> QED  BY <1>1, <1>5, <1>6, <2>1
<1>10. ASSUME Return PROVE SearchInv'
  <2>1. phase = "check" /\ phase' = phase
    BY <1>10 DEF Return, Checking
  <2>2. CASE found # {}
    <3>1. found' # {}
      <4>1. Inner.node \in OnStack
        BY <1>1, <1>10, InnerIsLast DEF Return, Checking
      <4>2. Inner.node \in Popped(Inner.node)
        BY <1>1, <4>1, Unwound
      <4>3. found' = found \/ found' = Popped(Inner.node)
        BY <1>10 DEF Return
      <4> QED  BY <2>2, <4>2, <4>3
    <3> QED  BY <1>1, <1>5, <1>6, <2>1, <2>2, <3>1
  <2>3. CASE found = {}
    BY <1>1, <1>5, <1>6, <1>10, <2>1, <2>3, SearchReturn, ReportIsCycle
  <2> QED  BY <2>2, <2>3
<1>11. ASSUME UNCHANGED <<program, tarjan>>
       PROVE  SearchState' <=> SearchState
  <2>1. UNCHANGED <<program, indices, low, tstack, calls>>
    BY <1>11 DEF tarjan
  <2>2. OnStack' = OnStack /\ Indexed' = Indexed /\ CallNodes' = CallNodes
    BY <2>1 DEF OnStack, Indexed, CallNodes
  <2>3. Gone' = Gone
    BY <2>2 DEF Gone
  <2> QED  BY <2>1, <2>2, <2>3, SameGraph
           DEF SearchState, LeadsBack, LeadsOn, LowIsIndex, EdgesWalked, LeftIsAcyclic
<1>12. ASSUME BeginSolve PROVE SearchInv'
  <2>1. calls = << >> /\ found = {} /\ Indexed = Locals /\ UNCHANGED <<program, tarjan>>
    BY <1>12 DEF BeginSolve
  <2>2. found' = {}
    BY <2>1 DEF tarjan
  <2>3. CallNodes = {}
    <3>1. Len(calls) = 0
      BY <2>1
    <3> QED  BY <3>1 DEF CallNodes
  <2>4. OnStack = {}
    BY <1>1, <1>5, <2>1, <2>3 DEF SearchState, LeadsBack
  <2>5. Gone = Locals
    BY <2>1, <2>4 DEF Gone
  <2>6. ~Cyclic
    BY <1>1, <1>5, <2>1, <2>5 DEF SearchState, LeftIsAcyclic, Cyclic
  <2> QED  BY <1>1, <1>5, <1>6, <1>11, <2>1, <2>2, <2>6
<1>13. ASSUME ReduceLocal \/ NextPass \/ Finish PROVE SearchInv'
  <2>1. phase = "solve" /\ phase' \in {"solve", "done"} /\ UNCHANGED <<program, tarjan>>
    BY <1>13 DEF ReduceLocal, NextPass, Finish
  <2>2. found' = found
    BY <2>1 DEF tarjan
  <2> QED  BY <1>1, <1>5, <1>6, <1>11, <2>1, <2>2
<1>14. ASSUME ReportCycle PROVE SearchInv'
  <2>1. found # {} /\ phase' = "done" /\ UNCHANGED <<program, tarjan>>
    BY <1>14 DEF ReportCycle
  <2>2. found' = found
    BY <2>1 DEF tarjan
  <2> QED  BY <1>1, <1>5, <1>6, <2>1, <2>2
<1>15. ASSUME UNCHANGED vars PROVE SearchInv'
  <2>1. UNCHANGED <<program, tarjan, phase>> /\ found' = found
    BY <1>15 DEF vars, tarjan
  <2> QED  BY <1>1, <1>5, <1>6, <1>11, <2>1
<1>16. SearchInv'
  BY <1>7, <1>8, <1>9, <1>10, <1>12, <1>13, <1>14, <1>15 DEF Next, Evaluate, Terminated
<1> QED  BY <1>2, <1>4, <1>16 DEF CheckInv

LEMMA CheckInit == Init => CheckInv
<1> SUFFICES ASSUME Init PROVE CheckInv
  OBVIOUS
<1>1. TypeOK
  BY TypeInit
<1>2. Indexed = {} /\ OnStack = {} /\ CallNodes = {} /\ Gone = {} /\ Len(tstack) = 0 /\ Len(calls) = 0
  BY DEF Init, Indexed, OnStack, CallNodes, Gone
<1>3. StackShape
  BY <1>2 DEF StackShape
<1>4. SearchInv
  BY <1>2 DEF Init, SearchInv, LeadsBack, LeadsOn, LowIsIndex, EdgesWalked, LeftIsAcyclic
<1> QED  BY <1>1, <1>3, <1>4 DEF CheckInv

\* solve_locals keeps to its types, whatever the locals refer to.
THEOREM LocalsTypeCorrect == Spec => []TypeOK
<1>1. Init => CheckInv
  BY CheckInit
<1>2. CheckInv /\ [Next]_vars => CheckInv'
  BY SearchKept
<1>3. CheckInv => TypeOK
  BY DEF CheckInv
<1> QED  BY <1>1, <1>2, <1>3, PTL DEF Spec

\* The cycle check refuses exactly the components whose locals refer to one
\* another in a circle, for every graph and every order its edges are walked in.
THEOREM CycleCheckIsRight == Spec => []CycleIffReported
<1>1. Init => CheckInv
  BY CheckInit
<1>2. CheckInv /\ [Next]_vars => CheckInv'
  BY SearchKept
<1>3. CheckInv => CycleIffReported
  BY DEF CheckInv, SearchInv, CycleIffReported, Cyclic
<1> QED  BY <1>1, <1>2, <1>3, PTL DEF Spec

-----------------------------------------------------------------------------
(* What a local is built from.                                              *)

\* Fewer edges from less reach less.
LEMMA ReachableMono ==
  ASSUME NEW E \in EdgeFunctions, NEW F, \A v \in Locals : F[v] \subseteq E[v],
         NEW S \in SUBSET Locals, NEW S2 \in SUBSET S
  PROVE  Reachable(F, S2) \subseteq Reachable(E, S)
<1>1. /\ S \subseteq Reachable(E, S) /\ Reachable(E, S) \subseteq Locals
      /\ ClosedUnder(E, Reachable(E, S))
  BY ReachableClosed
<1>2. ClosedUnder(F, Reachable(E, S))
  BY <1>1 DEF ClosedUnder
<1> QED  BY <1>1, <1>2, ReachableLeast

\* A local is built from itself and from what those it looks through are built
\* from, among which it is not.
LEMMA BelowStep ==
  ASSUME program \in ProgramShape, ~Cyclic, NEW i \in Locals
  PROVE  /\ SolveEdges \in EdgeFunctions
         /\ SolveEdges[i] = (program.refs[i] \cap Locals) \ program.cascade
         /\ Below(i) = {i} \cup UNION {Below(j) : j \in SolveEdges[i]}
         /\ Below(i) \subseteq Locals
         /\ i \notin UNION {Below(j) : j \in SolveEdges[i]}
         /\ \A j \in Locals : j \notin Reachable(SolveEdges, SolveEdges[j])
<1>1. SolveEdges \in EdgeFunctions
  BY DEF SolveEdges, Edges, EdgeFunctions
<1>2. \A v \in Locals : SolveEdges[v] = (program.refs[v] \cap Locals) \ program.cascade
                        /\ SolveEdges[v] \subseteq EdgeMap[v] /\ EdgeMap[v] = Edges(v)
                        /\ Edges(v) \in SUBSET Locals
  BY DEF SolveEdges, Edges, EdgeMap
<1>3. \A j \in Locals : j \notin Reachable(SolveEdges, SolveEdges[j])
  <2> TAKE j \in Locals
  <2>1. SolveEdges[j] \in SUBSET Edges(j) /\ Edges(j) \in SUBSET Locals
    BY <1>2
  <2>2. Reachable(SolveEdges, SolveEdges[j]) \subseteq Reaches(j)
    BY <1>2, <2>1, EdgeMapType, ReachableMono DEF Reaches
  <2>3. j \notin Reaches(j)
    BY DEF Cyclic
  <2> QED  BY <2>2, <2>3
<1>4. /\ Reachable(SolveEdges, {i}) = {i} \cup Reachable(SolveEdges, SolveEdges[i])
      /\ Reachable(SolveEdges, SolveEdges[i]) = UNION {Reachable(SolveEdges, {j}) : j \in SolveEdges[i]}
  BY <1>1, ReachableStep
<1>5. Below(i) \subseteq Locals
  BY DEF Below, Reachable
<1>6. Reachable(SolveEdges, SolveEdges[i]) = UNION {Below(j) : j \in SolveEdges[i]}
  BY <1>4 DEF Below
<1>7. Below(i) = {i} \cup UNION {Below(j) : j \in SolveEdges[i]}
  BY <1>4, <1>6 DEF Below
<1> QED  BY <1>1, <1>2, <1>3, <1>5, <1>6, <1>7

\* What the locals a local is built from refer to.
LEMMA LeavesStep ==
  ASSUME program \in ProgramShape, ~Cyclic, NEW i \in Locals
  PROVE  /\ Leaves(i) = (program.refs[i] \ Locals) \cup UNION {Leaves(j) : j \in SolveEdges[i]}
         /\ Cascaded(i) = (program.refs[i] \cap program.cascade)
                            \cup UNION {Cascaded(j) : j \in SolveEdges[i]}
<1> DEFINE U == UNION {Below(j) : j \in SolveEdges[i]}
           R(j) == UNION {program.refs[k] : k \in Below(j)}
<1>1. Below(i) = {i} \cup U
  BY BelowStep
<1>2. R(i) = program.refs[i] \cup UNION {R(j) : j \in SolveEdges[i]}
  <2>1. ASSUME NEW x \in R(i)
        PROVE  x \in program.refs[i] \cup UNION {R(j) : j \in SolveEdges[i]}
    <3>1. PICK k \in Below(i) : x \in program.refs[k]
      BY <2>1
    <3>2. CASE k = i
      BY <3>1, <3>2
    <3>3. CASE k # i
      <4>1. PICK j \in SolveEdges[i] : k \in Below(j)
        BY <1>1, <3>1, <3>3
      <4> QED  BY <3>1, <4>1
    <3> QED  BY <3>2, <3>3
  <2>2. program.refs[i] \subseteq R(i)
    BY <1>1
  <2>3. ASSUME NEW j \in SolveEdges[i], NEW x \in R(j) PROVE x \in R(i)
    <3>1. PICK k \in Below(j) : x \in program.refs[k]
      BY <2>3
    <3> QED  BY <1>1, <3>1
  <2> QED  BY <2>1, <2>2, <2>3
<1>3. \A j : Leaves(j) = R(j) \ Locals /\ Cascaded(j) = R(j) \cap program.cascade
  BY DEF Leaves, Cascaded
<1> HIDE DEF R
<1> QED  BY <1>2, <1>3

\* The value of a local all of whose references can be resolved, put together from
\* what they bring in.
Whole(i) ==
  {OwnOrigin(j) : j \in Below(i) \ {i}} \cup {CascadeOrigin(x) : x \in Cascaded(i)}

LEMMA Assembled ==
  ASSUME program \in ProgramShape, ~Cyclic, NEW i \in Locals,
         program.refs[i] \subseteq Locals \cup program.cascade
  PROVE  /\ UNION {Brings(x) : x \in program.refs[i]} = Whole(i)
         /\ i \notin program.cascade => Brings(i) = {OwnOrigin(i)} \cup Whole(i)
<1>1. /\ SolveEdges[i] = (program.refs[i] \cap Locals) \ program.cascade
      /\ Below(i) \ {i} = UNION {Below(j) : j \in SolveEdges[i]}
      /\ i \in Below(i)
  BY BelowStep
<1>2. Cascaded(i) = (program.refs[i] \cap program.cascade) \cup UNION {Cascaded(j) : j \in SolveEdges[i]}
  BY LeavesStep
<1>3. \A x \in program.refs[i] : \/ x \in program.cascade /\ Brings(x) = {CascadeOrigin(x)}
                                 \/ x \in SolveEdges[i]
  BY <1>1 DEF Brings
<1>4. \A j \in SolveEdges[i] :
         /\ j \in program.refs[i]
         /\ Brings(j) = {OwnOrigin(k) : k \in Below(j)} \cup {CascadeOrigin(y) : y \in Cascaded(j)}
  BY <1>1 DEF Brings
<1>5. ASSUME NEW x \in program.refs[i], NEW o \in Brings(x)
      PROVE  o \in Whole(i)
  <2>1. CASE x \in program.cascade /\ Brings(x) = {CascadeOrigin(x)}
    <3>1. x \in Cascaded(i)
      BY <1>2, <2>1
    <3> QED  BY <1>5, <2>1, <3>1 DEF Whole
  <2>2. CASE x \in SolveEdges[i]
    <3>1. CASE \E k \in Below(x) : o = OwnOrigin(k)
      <4>1. PICK k \in Below(x) : o = OwnOrigin(k)
        BY <3>1
      <4>2. k \in Below(i) \ {i}
        BY <1>1, <2>2
      <4> QED  BY <4>1, <4>2 DEF Whole
    <3>2. CASE \E y \in Cascaded(x) : o = CascadeOrigin(y)
      <4>1. PICK y \in Cascaded(x) : o = CascadeOrigin(y)
        BY <3>2
      <4>2. y \in Cascaded(i)
        BY <1>2, <2>2
      <4> QED  BY <4>1, <4>2 DEF Whole
    <3> QED  BY <1>4, <1>5, <2>2, <3>1, <3>2
  <2> QED  BY <1>3, <2>1, <2>2
<1>6. ASSUME NEW o \in Whole(i)
      PROVE  \E x \in program.refs[i] : o \in Brings(x)
  <2>1. CASE \E k \in Below(i) \ {i} : o = OwnOrigin(k)
    <3>1. PICK k \in Below(i) \ {i} : o = OwnOrigin(k)
      BY <2>1
    <3>2. PICK j \in SolveEdges[i] : k \in Below(j)
      BY <1>1, <3>1
    <3>3. o \in Brings(j)
      BY <1>4, <3>1, <3>2
    <3> QED  BY <1>4, <3>2, <3>3
  <2>2. CASE \E y \in Cascaded(i) : o = CascadeOrigin(y)
    <3>1. PICK y \in Cascaded(i) : o = CascadeOrigin(y)
      BY <2>2
    <3>2. CASE y \in program.refs[i] /\ y \in program.cascade
      BY <1>3, <3>1, <3>2, <1>1
    <3>3. CASE \E j \in SolveEdges[i] : y \in Cascaded(j)
      <4>1. PICK j \in SolveEdges[i] : y \in Cascaded(j)
        BY <3>3
      <4>2. o \in Brings(j)
        BY <1>4, <3>1, <4>1
      <4> QED  BY <1>4, <4>1, <4>2
    <3> QED  BY <1>2, <3>1, <3>2, <3>3
  <2> QED  BY <2>1, <2>2 DEF Whole
<1>7. UNION {Brings(x) : x \in program.refs[i]} = Whole(i)
  <2> HIDE DEF Whole
  <2> QED  BY <1>5, <1>6
<1>8. i \notin program.cascade => Brings(i) = {OwnOrigin(i)} \cup Whole(i)
  <2>1. {OwnOrigin(j) : j \in Below(i)} = {OwnOrigin(i)} \cup {OwnOrigin(j) : j \in Below(i) \ {i}}
    BY <1>1
  <2> QED  BY <2>1 DEF Brings, Whole
<1> QED  BY <1>7, <1>8

-----------------------------------------------------------------------------
(* The passes.                                                              *)

\* A literal has a value, and the right one.
LEMMA LiteralIsRight ==
  ASSUME TypeOK, ~Cyclic, Substituted, NEW i \in scope
  PROVE  /\ HasValue(i) /\ value[i] = Whole(i)
         /\ program.refs[i] \subseteq Locals \cup program.cascade
<1>1. program \in ProgramShape /\ scope \subseteq Locals
  BY ProgramIsShape DEF TypeOK
<1>2. \A j \in scope : /\ j \notin program.stuck
                       /\ \A x \in program.refs[j] : x \in program.cascade \cup scope
                       /\ value[j] = UNION {Brings(x) : x \in program.refs[j]}
  <2> TAKE j \in scope
  <2>1. j \in Locals /\ j \notin program.stuck /\ left[j] = {}
    BY <1>1 DEF Substituted
  <2>2. program.refs[j] \ left[j] = program.refs[j]
    BY <2>1
  <2> QED  BY <2>1, <2>2 DEF Substituted, Bound
<1>3. ClosedUnder(SolveEdges, scope)
  <2>1. \A j \in scope : SolveEdges[j] = (program.refs[j] \cap Locals) \ program.cascade
    BY <1>1, BelowStep
  <2> QED  BY <1>2, <2>1 DEF ClosedUnder
<1>4. Below(i) \subseteq scope
  BY <1>1, <1>3, ReachableLeast DEF Below
<1>5. HasValue(i)
  <2>1. Below(i) \cap program.stuck = {}
    BY <1>2, <1>4
  <2>2. ASSUME NEW x \in Leaves(i) PROVE x \in program.cascade
    <3>1. PICK j \in Below(i) : x \in program.refs[j]
      BY <2>2 DEF Leaves
    <3>2. x \notin Locals
      BY <2>2 DEF Leaves
    <3> QED  BY <1>1, <1>2, <1>4, <3>1, <3>2
  <2> QED  BY <2>1, <2>2 DEF HasValue
<1>6. program.refs[i] \subseteq Locals \cup program.cascade
  BY <1>1, <1>2
<1>7. value[i] = Whole(i)
  BY <1>1, <1>2, <1>6, Assembled
<1> QED  BY <1>5, <1>6, <1>7

\* What lookup_local returns for a bound name is all that name will ever bring in.
LEMMA LookupIsWhole ==
  ASSUME TypeOK, ~Cyclic, Substituted, NEW x, Bound(x)
  PROVE  LookupLocal(x) = Brings(x)
<1>1. CASE x \in program.cascade
  BY <1>1 DEF LookupLocal, Brings
<1>2. CASE x \notin program.cascade
  <2>1. x \in scope /\ x \in Locals
    BY <1>2 DEF Bound, TypeOK
  <2>2. value[x] = Whole(x) /\ program.refs[x] \subseteq Locals \cup program.cascade
    BY <2>1, LiteralIsRight
  <2>3. Brings(x) = {OwnOrigin(x)} \cup Whole(x)
    BY <1>2, <2>1, <2>2, Assembled, ProgramIsShape
  <2> QED  BY <1>2, <2>2, <2>3 DEF LookupLocal
<1> QED  BY <1>1, <1>2

\* A local that has a value looks only through locals that have one.
LEMMA ValueBelow ==
  ASSUME program \in ProgramShape, ~Cyclic, NEW i \in Locals, HasValue(i)
  PROVE  /\ i \notin program.stuck
         /\ program.refs[i] \subseteq Locals \cup program.cascade
         /\ \A j \in SolveEdges[i] : j \in Locals /\ HasValue(j)
<1>1. /\ SolveEdges[i] \subseteq Locals
      /\ Below(i) = {i} \cup UNION {Below(j) : j \in SolveEdges[i]}
  BY BelowStep
<1>2. Leaves(i) = (program.refs[i] \ Locals) \cup UNION {Leaves(j) : j \in SolveEdges[i]}
  BY LeavesStep
<1> QED  BY <1>1, <1>2 DEF HasValue

\* When nobody waits for more than another that waits, nobody waits.
LEMMA WaitingIsSolved ==
  ASSUME TypeOK, ~Cyclic, Waiting(N)
  PROVE  AllSolved
<1> DEFINE T == {i \in Locals : HasValue(i) /\ i \notin scope}
<1> SUFFICES ASSUME T # {} PROVE FALSE
  BY DEF AllSolved
<1>1. program \in ProgramShape /\ 1 \in Locals
  BY ProgramIsShape, NumberOfLocals DEF Locals
<1>2. SolveEdges \in EdgeFunctions /\ \A j \in Locals : j \notin Reachable(SolveEdges, SolveEdges[j])
  BY <1>1, BelowStep
<1>3. PICK i \in T : SolveEdges[i] \cap T = {}
  <2>1. T \in SUBSET Locals
    OBVIOUS
  <2> HIDE DEF T
  <2> QED  BY <1>2, <2>1, HasMinimal
<1>4. PICK j \in SolveEdges[i] : j \notin scope
  BY DEF Waiting, Locals
<1>5. j \in T
  BY <1>1, <1>4, ValueBelow
<1> QED  BY <1>3, <1>4, <1>5

LEMMA SameValues ==
  ASSUME program' = program
  PROVE  /\ SolveEdges' = SolveEdges
         /\ \A i : /\ Below(i)' = Below(i) /\ Leaves(i)' = Leaves(i) /\ Cascaded(i)' = Cascaded(i)
                   /\ Brings(i)' = Brings(i) /\ (HasValue(i)' <=> HasValue(i))
<1>1. SolveEdges' = SolveEdges
  BY DEF SolveEdges, Edges
<1>2. \A i : Below(i)' = Below(i)
  BY <1>1 DEF Below, Reachable
<1>3. \A i : Leaves(i)' = Leaves(i) /\ Cascaded(i)' = Cascaded(i)
  BY <1>2 DEF Leaves, Cascaded
<1> QED  BY <1>1, <1>2, <1>3 DEF Brings, HasValue

\* One local is reduced: what was bound goes into its value.
LEMMA ReduceSubstitutes ==
  ASSUME TypeOK, ~Cyclic, Substituted, ReduceLocal
  PROVE  /\ Substituted'
         /\ scope \subseteq scope' /\ scope' \subseteq scope \cup {cursor}
<1> DEFINE i == cursor
           now == {x \in left[i] : Bound(x)}
           brought == UNION {LookupLocal(x) : x \in now}
           literal == left[i] = now /\ i \notin program.stuck
<1>1. i \in Locals /\ program' = program /\ scope \subseteq Locals
  BY DEF ReduceLocal, TypeOK
<1>2. \A x : Brings(x)' = Brings(x)
  BY <1>1, SameValues
<1>3. CASE i \in scope
  <2>1. UNCHANGED <<left, value, scope, program>>
    BY <1>3 DEF ReduceLocal
  <2> QED  BY <1>2, <2>1 DEF Substituted, Bound
<1>4. CASE i \notin scope
  <2>1. /\ left' = [left EXCEPT ![i] = @ \ now]
        /\ value' = [value EXCEPT ![i] = @ \cup brought]
        /\ scope' = IF literal THEN scope \cup {i} ELSE scope
    BY <1>4 DEF ReduceLocal
  <2>2. left \in [Locals -> SUBSET Names] /\ value \in [Locals -> SUBSET Origin]
    BY DEF TypeOK
  <2>3. now \subseteq left[i] /\ \A x \in now : Bound(x)
    OBVIOUS
  <2>4. brought = UNION {Brings(x) : x \in now}
    BY <2>3, LookupIsWhole
  <2>5. literal => i \notin program.stuck /\ left[i] = now
    OBVIOUS
  <2> HIDE DEF i, now, brought, literal
  <2>6. left'[i] = left[i] \ now /\ value'[i] = value[i] \cup brought
        /\ \A j \in Locals \ {i} : left'[j] = left[j] /\ value'[j] = value[j]
    BY <1>1, <2>1, <2>2
  <2>7. scope \subseteq scope' /\ scope' \subseteq scope \cup {i}
        /\ \A x : Bound(x) => Bound(x)'
    BY <1>1, <2>1 DEF Bound
  <2>8. ASSUME NEW j \in Locals
        PROVE  /\ left'[j] \subseteq program.refs[j]
               /\ \A x \in program.refs[j] \ left'[j] : Bound(x)'
               /\ value'[j] = UNION {Brings(x) : x \in program.refs[j] \ left'[j]}
               /\ j \in scope' => j \notin program.stuck /\ left'[j] = {}
    <3>1. /\ left[j] \subseteq program.refs[j]
          /\ \A x \in program.refs[j] \ left[j] : Bound(x)
          /\ value[j] = UNION {Brings(x) : x \in program.refs[j] \ left[j]}
          /\ j \in scope => j \notin program.stuck /\ left[j] = {}
      BY DEF Substituted
    <3>2. CASE j # i
      BY <2>6, <2>7, <3>1, <3>2
    <3>3. CASE j = i
      <4>1. program.refs[i] \ left'[i] = (program.refs[i] \ left[i]) \cup now
        BY <2>3, <2>6, <3>1, <3>3
      <4>2. value'[i] = UNION {Brings(x) : x \in program.refs[i] \ left'[i]}
        BY <2>4, <2>6, <3>1, <3>3, <4>1
      <4>3. left'[i] \subseteq program.refs[i] /\ \A x \in program.refs[i] \ left'[i] : Bound(x)'
        BY <2>3, <2>6, <2>7, <3>1, <3>3, <4>1
      <4>4. i \in scope' => i \notin program.stuck /\ left'[i] = {}
        BY <1>4, <2>1, <2>5, <2>6
      <4> QED  BY <3>3, <4>2, <4>3, <4>4
    <3> QED  BY <3>2, <3>3
  <2>9. Substituted' <=> \A j \in Locals :
               /\ left'[j] \subseteq program.refs[j]
               /\ \A x \in program.refs[j] \ left'[j] : Bound(x)'
               /\ value'[j] = UNION {Brings(x) : x \in program.refs[j] \ left'[j]}
               /\ j \in scope' => j \notin program.stuck /\ left'[j] = {}
    BY <1>1, <1>2 DEF Substituted
  <2> QED  BY <2>7, <2>8, <2>9 DEF i
<1> QED  BY <1>3, <1>4 DEF ReduceLocal

\* A local that is left behind although it has a value waits for another.
LEMMA ReduceLeaves ==
  ASSUME TypeOK, ~Cyclic, Substituted, ReduceLocal, cursor \notin scope', HasValue(cursor)
  PROVE  \E j \in SolveEdges[cursor] : j \notin scope
<1> DEFINE i == cursor
           now == {x \in left[i] : Bound(x)}
<1>1. i \in Locals /\ program \in ProgramShape
  BY ProgramIsShape DEF ReduceLocal
<1>2. i \notin program.stuck /\ program.refs[i] \subseteq Locals \cup program.cascade
  BY <1>1, ValueBelow
<1>3. i \notin scope
  BY ReduceSubstitutes
<1>4. left[i] # now
  <2>1. scope' = IF left[i] = now /\ i \notin program.stuck THEN scope \cup {i} ELSE scope
    BY <1>3 DEF ReduceLocal
  <2> QED  BY <1>2, <2>1
<1>5. PICK x \in left[i] : ~Bound(x)
  BY <1>4
<1>6. x \in program.refs[i] /\ x \notin program.cascade /\ x \notin scope
  BY <1>1, <1>5 DEF Substituted, Bound
<1>7. x \in SolveEdges[i]
  BY <1>1, <1>2, <1>6, BelowStep
<1> QED  BY <1>6, <1>7

\* A pass makes a literal of one more local, unless all that have a value are.
LEMMA ReducePasses ==
  ASSUME TypeOK, ~Cyclic, Substituted, PassInv, ReduceLocal
  PROVE  PassInv'
<1> DEFINE i == cursor
           After == \A j \in 1..i : HasValue(j) /\ j \notin scope'
                                       => \E k \in SolveEdges[j] : k \notin scope'
<1>1. /\ i \in Locals /\ i \in Nat /\ cursor' = i + 1 /\ pass' = pass /\ program' = program
      /\ pass \in Nat
  BY DEF ReduceLocal, TypeOK, Locals
<1>2. scope \subseteq scope' /\ scope' \subseteq scope \cup {i} /\ scope \in SUBSET Locals
  BY ReduceSubstitutes DEF TypeOK
<1>3. SolveEdges' = SolveEdges /\ \A j : HasValue(j)' <=> HasValue(j)
  BY <1>1, SameValues
<1>4. Waiting(cursor - 1)' <=> After
  <2>1. Waiting(cursor - 1)' <=> \A j \in 1..(cursor' - 1) :
            HasValue(j)' /\ j \notin scope' => \E k \in SolveEdges'[j] : k \notin scope'
    BY DEF Waiting
  <2>2. cursor' - 1 = i
    BY <1>1
  <2> QED  BY <1>3, <2>1, <2>2
<1>5. cursor' - 1 = i /\ cursor - 1 = i - 1
  BY <1>1
<1>6. AllSolved => AllSolved'
  BY <1>2, <1>3 DEF AllSolved
<1>7. ASSUME scope' = scope, Waiting(i - 1) PROVE After
  <2> SUFFICES ASSUME NEW j \in 1..i, HasValue(j), j \notin scope
               PROVE  \E k \in SolveEdges[j] : k \notin scope
    BY <1>4, <1>7
  <2>1. CASE j = i
    BY <1>7, <2>1, ReduceLeaves
  <2>2. CASE j # i
    <3>1. j \in 1..(i - 1)
      BY <1>1, <2>2
    <3> QED  BY <1>7, <3>1 DEF Waiting
  <2> QED  BY <2>1, <2>2
<1>8. ~progress' => ~progress /\ scope' = scope
  <2>1. CASE i \in scope
    <3>1. progress' = progress /\ scope' = scope
      BY <2>1, Zenon DEF ReduceLocal
    <3> QED  BY <3>1
  <2>2. CASE i \notin scope
    <3> DEFINE now == {x \in left[i] : Bound(x)}
               literal == left[i] = now /\ i \notin program.stuck
    <3>1. scope' = (IF literal THEN scope \cup {i} ELSE scope)
          /\ progress' = (progress \/ literal \/ now # {})
      BY <2>2, Zenon DEF ReduceLocal
    <3> HIDE DEF literal
    <3> QED  BY <3>1, Zenon
  <2> QED  BY <2>1, <2>2
<1>9. scope' # scope => Cardinality(scope') = Cardinality(scope) + 1
  <2>1. scope' # scope => scope' = scope \cup {i} /\ i \notin scope
    BY <1>2
  <2> QED  BY <1>2, <2>1, LocalsFinite, FS_AddElement
<1>10. Cardinality(scope) \in Nat
  BY <1>2, LocalsFinite
<1>11. PassInv' <=> /\ ~progress' => After
                    /\ \/ Cardinality(scope') >= pass
                       \/ Cardinality(scope') >= pass - 1 /\ After
                       \/ AllSolved'
  <2> HIDE DEF After
  <2> QED  BY <1>1, <1>4, Zenon DEF PassInv
<1>12. ~progress' => After
  BY <1>5, <1>7, <1>8 DEF PassInv
<1>13. \/ Cardinality(scope') >= pass
       \/ Cardinality(scope') >= pass - 1 /\ After
       \/ AllSolved'
  <2>1. CASE AllSolved
    BY <1>6, <2>1
  <2>2. CASE scope' # scope /\ Cardinality(scope) >= pass - 1
    BY <1>1, <1>9, <1>10, <2>2
  <2>3. CASE scope' = scope /\ Cardinality(scope) >= pass - 1 /\ Waiting(i - 1)
    BY <1>7, <2>3
  <2>4. CASE Cardinality(scope) >= pass
    BY <1>1, <1>9, <1>10, <2>4
  <2> QED  BY <1>5, <2>1, <2>2, <2>3, <2>4 DEF PassInv
<1> QED  BY <1>11, <1>12, <1>13

\* As long as what the passes work on stays, so does what holds of it.
LEMMA SolveFrame ==
  ASSUME UNCHANGED <<program, left, value, scope>>
  PROVE  /\ Substituted' <=> Substituted
         /\ AllSolved' <=> AllSolved
         /\ \A n : Waiting(n)' <=> Waiting(n)
<1>1. \A x : Bound(x)' <=> Bound(x)
  BY DEF Bound
<1>2. SolveEdges' = SolveEdges /\ \A x : Brings(x)' = Brings(x) /\ (HasValue(x)' <=> HasValue(x))
  BY SameValues
<1>3. Substituted' <=> \A i \in Locals :
         /\ left[i] \subseteq program.refs[i]
         /\ \A x \in program.refs[i] \ left[i] : Bound(x)
         /\ value[i] = UNION {Brings(x) : x \in program.refs[i] \ left[i]}
         /\ i \in scope => i \notin program.stuck /\ left[i] = {}
  BY <1>1, <1>2 DEF Substituted
<1>4. AllSolved' <=> AllSolved
  BY <1>2 DEF AllSolved
<1>5. \A n : Waiting(n)' <=> Waiting(n)
  BY <1>2 DEF Waiting
<1> QED  BY <1>3, <1>4, <1>5 DEF Substituted

\* A pass that ends the loop leaves nothing to do: it made no progress, or it was
\* the last one allowed, and every pass before it made a literal of some local.
LEMMA LastPass ==
  ASSUME TypeOK, ~Cyclic, PassInv, cursor > N, ~(progress /\ pass < PassesAllowed)
  PROVE  AllSolved
<1>1. cursor - 1 = N /\ pass \in 1..(N + 1)
  BY NumberOfLocals DEF TypeOK, PassesAllowed
<1>2. Waiting(N) => AllSolved
  BY WaitingIsSolved
<1>3. CASE ~progress
  BY <1>1, <1>2, <1>3 DEF PassInv
<1>4. CASE pass = N + 1
  <2>1. Cardinality(scope) \in Nat /\ Cardinality(scope) <= N
    BY LocalsFinite DEF TypeOK
  <2>2. ~(Cardinality(scope) >= pass)
    BY <1>4, <2>1, NumberOfLocals
  <2> QED  BY <1>1, <1>2, <2>2 DEF PassInv
<1> QED  BY <1>1, <1>3, <1>4, NumberOfLocals DEF PassesAllowed

LEMMA SolveKept ==
  ASSUME CheckInv, SolveInv, [Next]_vars
  PROVE  SolveInv'
<1>1. TypeOK /\ StackShape /\ SearchInv
  BY DEF CheckInv
<1>2. phase = "solve" => ~Cyclic /\ found = {} /\ Substituted /\ PassInv
  BY <1>1 DEF SearchInv, SolveInv
<1>4. ASSUME UNCHANGED <<program, solver>>
      PROVE  /\ UNCHANGED <<left, value, scope, pass, cursor, progress>>
             /\ Substituted' <=> Substituted
             /\ AllSolved' <=> AllSolved
             /\ PassInv' <=> PassInv
  <2>1. UNCHANGED <<program, left, value, scope, pass, cursor, progress>>
    BY <1>4 DEF solver
  <2>2. Waiting(cursor - 1)' <=> Waiting(cursor - 1)
    BY <2>1, SolveFrame DEF Waiting
  <2> QED  BY <2>1, <2>2, SolveFrame DEF PassInv
<1>5. ASSUME phase = "check", phase' = phase, UNCHANGED <<program, solver>>
      PROVE  SolveInv'
  BY <1>4, <1>5 DEF SolveInv
<1>6. ASSUME NextRoot \/ Return \/ \E w \in Locals : Descend(w) \/ ReturnAtOnce(w) \/ Lookup(w)
      PROVE  SolveInv'
  <2>1. phase = "check" /\ phase' = phase /\ UNCHANGED <<program, solver>>
    BY <1>6 DEF NextRoot, Return, Descend, ReturnAtOnce, Lookup, Checking
  <2> QED  BY <1>5, <2>1
<1>7. ASSUME BeginSolve PROVE SolveInv'
  <2>1. phase = "check" /\ phase' = "solve" /\ UNCHANGED <<program, solver>>
    BY <1>7 DEF BeginSolve
  <2>2. left = program.refs /\ value = [i \in Locals |-> {}] /\ scope = {} /\ pass = 1 /\ cursor = 1
    BY <2>1 DEF SolveInv
  <2>3. Substituted
    <3>1. \A i \in Locals : program.refs[i] \ left[i] = {} /\ value[i] = {}
      BY <2>2
    <3>2. \A i \in Locals : value[i] = UNION {Brings(x) : x \in program.refs[i] \ left[i]}
      BY <3>1
    <3> QED  BY <2>2, <3>1, <3>2 DEF Substituted
  <2>4. PassInv
    <3>1. 1..(cursor - 1) = {} /\ pass - 1 = 0
      BY <2>2
    <3>2. Waiting(cursor - 1)
      BY <3>1 DEF Waiting
    <3>3. Cardinality(scope) >= pass - 1
      BY <2>2, <3>1, FS_EmptySet
    <3> QED  BY <3>2, <3>3 DEF PassInv
  <2> QED  BY <1>4, <2>1, <2>3, <2>4 DEF SolveInv
<1>8. ASSUME ReduceLocal PROVE SolveInv'
  <2>1. phase = "solve" /\ phase' = phase
    BY <1>8 DEF ReduceLocal
  <2>2. Substituted' /\ PassInv'
    BY <1>1, <1>2, <1>8, <2>1, ReduceSubstitutes, ReducePasses
  <2> QED  BY <2>1, <2>2 DEF SolveInv
<1>9. ASSUME NextPass PROVE SolveInv'
  <2>1. /\ phase = "solve" /\ phase' = phase /\ cursor > N /\ cursor' = 1
        /\ pass' = pass + 1 /\ UNCHANGED <<program, left, value, scope>>
    BY <1>9 DEF NextPass
  <2>2. Substituted' /\ (AllSolved' <=> AllSolved)
    BY <1>2, <2>1, SolveFrame
  <2>3. Waiting(cursor - 1)'
    <3>1. 1..(cursor' - 1) = {}
      BY <2>1
    <3> QED  BY <3>1 DEF Waiting
  <2>4. pass \in Nat /\ pass' - 1 = pass /\ cursor - 1 = N
    BY <1>1, <2>1, NumberOfLocals DEF TypeOK
  <2>5. Cardinality(scope) >= pass \/ AllSolved
    BY <1>1, <1>2, <2>1, <2>4, WaitingIsSolved DEF PassInv
  <2>6. Cardinality(scope') >= pass' - 1 \/ AllSolved'
    BY <2>1, <2>2, <2>4, <2>5
  <2>7. PassInv'
    BY <2>3, <2>6, Zenon DEF PassInv
  <2> QED  BY <2>1, <2>2, <2>7 DEF SolveInv
<1>10. ASSUME Finish PROVE SolveInv'
  <2>1. /\ phase = "solve" /\ phase' = "done" /\ UNCHANGED <<program, solver>>
        /\ cursor > N /\ ~(progress /\ pass < PassesAllowed)
    BY <1>10 DEF Finish
  <2>2. Substituted /\ AllSolved
    BY <1>1, <1>2, <2>1, LastPass
  <2> QED  BY <1>4, <2>1, <2>2 DEF SolveInv
<1>11. ASSUME ReportCycle PROVE SolveInv'
  <2>1. phase' = "done" /\ found # {} /\ found' = found
    BY <1>11 DEF ReportCycle, tarjan
  <2> QED  BY <2>1 DEF SolveInv
<1>12. ASSUME UNCHANGED vars PROVE SolveInv'
  <2>1. UNCHANGED <<program, solver, phase>> /\ found' = found
    BY <1>12 DEF vars, tarjan
  <2> QED  BY <1>4, <2>1 DEF SolveInv
<1> QED  BY <1>6, <1>7, <1>8, <1>9, <1>10, <1>11, <1>12 DEF Next, Evaluate, Terminated

\* At the end of the passes a local is a literal exactly if nothing it is built
\* from is stuck or unbound, and it is built from all the bindings it refers to:
\* the bound on the passes is enough for any number of locals in any order.
THEOREM PassesReachClosure == Spec => []SolvedIsClosure
<1> DEFINE Inv == CheckInv /\ SolveInv
<1>1. Init => Inv
  <2>1. Init => SolveInv
    BY DEF Init, SolveInv
  <2> QED  BY <2>1, CheckInit
<1>2. Inv /\ [Next]_vars => Inv'
  BY SearchKept, SolveKept
<1>3. Inv => SolvedIsClosure
  <2> SUFFICES ASSUME CheckInv, SolveInv, phase = "done", found = {}, NEW i \in Locals
               PROVE  /\ i \in scope <=> HasValue(i)
                      /\ i \in scope => value[i] = Whole(i)
    BY DEF SolvedIsClosure, HasValue, Whole
  <2>1. TypeOK /\ ~Cyclic /\ Substituted /\ AllSolved
    BY DEF CheckInv, SearchInv, SolveInv
  <2> QED  BY <2>1, LiteralIsRight DEF AllSolved
<1> QED  BY <1>1, <1>2, <1>3, PTL DEF Spec
=============================================================================
