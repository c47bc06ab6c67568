---------------------------- MODULE LocalsSolver ----------------------------
(***************************************************************************)
(* The locals of one component: `solve_locals` (crates/core/src/eval/      *)
(* locals.rs), its cycle check, and what `StandardEvaluator::evaluate`     *)
(* (eval/component.rs) makes of the result.                                *)
(*                                                                         *)
(* Locals are numbered in source order.  An expression is abstracted to    *)
(* the names it refers to and to whether it is `stuck`: it also has an     *)
(* apply-time reference, or an operation that has no literal result.  One  *)
(* that refers to nothing and is not stuck is a literal in the source.  A  *)
(* value is abstracted to its origins: the bindings that went into it.     *)
(* The names a local refers to are collected in a HashSet, so the cycle    *)
(* check walks the edges of a node in any order.                           *)
(***************************************************************************)
EXTENDS Naturals, Sequences, FiniteSets

CONSTANTS
  N,          \* the locals the component declares are 1..N
  Inherited,  \* names it does not declare, which the cascade may bind
  Programs,   \* the programs considered: a set of ProgramShape records
  None

Locals == 1..N
Names == Locals \cup Inherited
ProgramShape ==
  [refs : [Locals -> SUBSET Names], stuck : SUBSET Locals, cascade : SUBSET Names]

ASSUME LocalsExist == N \in Nat \ {0} /\ Inherited \cap Locals = {}
ASSUME ProgramsShaped == Programs \subseteq ProgramShape
ASSUME NoneIsNoIndex == None \notin Nat

VARIABLES
  program,   \* refs, stuck, and the names in ctx.cascade_locals
  phase,     \* "check" | "solve" | "done"
  indices,   \* [Locals -> 0..N - 1 \cup {None}]: Tarjan's `indices`
  low,       \* [Locals -> 0..N - 1]: `lowlinks`
  tstack,    \* `stack`
  calls,     \* the calls of strongconnect under way: [node, edges not walked]
  found,     \* `found`: the nodes reported, or {}
  left,      \* [Locals -> SUBSET Names]: the references not substituted yet
  value,     \* [Locals -> SUBSET Origin]: what the substituted ones brought in
  scope,     \* the locals pushed on `scope.locals` so far (`converged`)
  pass, cursor, progress,   \* the two loops of solve_locals
  namespace  \* what resources and modules are reduced against, once "done"

tarjan == <<indices, low, tstack, calls, found>>
solver == <<left, value, scope, pass, cursor, progress>>
vars == <<program, phase, tarjan, solver, namespace>>

\* A binding: of the cascade, or of the component itself.
Origin == [from : {"cascade", "own"}, name : Names]
CascadeOrigin(x) == [from |-> "cascade", name |-> x]
OwnOrigin(x) == [from |-> "own", name |-> x]

Init ==
  /\ program \in Programs
  /\ phase = "check"
  /\ indices = [v \in Locals |-> None]
  /\ low = [v \in Locals |-> 0]
  /\ tstack = << >> /\ calls = << >> /\ found = {}
  /\ left = program.refs
  /\ value = [i \in Locals |-> {}]
  /\ scope = {} /\ pass = 1 /\ cursor = 1 /\ progress = FALSE
  /\ namespace = [x \in Names |-> None]

-----------------------------------------------------------------------------
(* check_cycle: Tarjan's algorithm, one call of strongconnect per frame.    *)

\* Only names the component declares are nodes (`name_to_idx`).
Edges(v) == program.refs[v] \cap Locals

Indexed == {v \in Locals : indices[v] # None}
OnStack == {tstack[k] : k \in 1..Len(tstack)}
Least(a, b) == IF a <= b THEN a ELSE b

Enter(v) ==
  /\ indices' = [indices EXCEPT ![v] = Cardinality(Indexed)]
  /\ low' = [low EXCEPT ![v] = Cardinality(Indexed)]
  /\ tstack' = Append(tstack, v)

Checking == phase = "check" /\ calls # << >>
Inner == calls[Len(calls)]
Outer == SubSeq(calls, 1, Len(calls) - 1)
Walked(w) == Append(Outer, [Inner EXCEPT !.edges = @ \ {w}])

\* The outer loop: the first local without an index, while nothing is found.
NextRoot ==
  /\ phase = "check" /\ calls = << >> /\ found = {}
  /\ \E v \in Locals \ Indexed :
       /\ 1..(v - 1) \subseteq Indexed
       /\ Enter(v)
       /\ calls' = <<[node |-> v, edges |-> Edges(v)]>>
  /\ UNCHANGED <<program, phase, found, solver, namespace>>

\* An edge to a node without an index: strongconnect is called for it.
Descend(w) ==
  /\ Checking /\ w \in Inner.edges \ Indexed /\ found = {}
  /\ Enter(w)
  /\ calls' = Append(Walked(w), [node |-> w, edges |-> Edges(w)])
  /\ UNCHANGED <<program, phase, found, solver, namespace>>

\* Once something is found that call returns at once, and the node's lowlink,
\* still the 0 it was allocated with, is merged into the caller's.
ReturnAtOnce(w) ==
  /\ Checking /\ w \in Inner.edges \ Indexed /\ found # {}
  /\ calls' = Walked(w)
  /\ low' = [low EXCEPT ![Inner.node] = Least(@, low[w])]
  /\ UNCHANGED <<program, phase, indices, tstack, found, solver, namespace>>

\* Wrong: `on_stack` is not asked.
Lookup_AnyNode(w) ==
  /\ Checking /\ w \in Inner.edges \cap Indexed
  /\ calls' = Walked(w)
  /\ low' = [low EXCEPT ![Inner.node] = Least(@, indices[w])]
  /\ UNCHANGED <<program, phase, indices, tstack, found, solver, namespace>>

\* An edge to a node that has one counts if the node is on the stack.
Lookup(w) ==
  /\ Checking /\ w \in Inner.edges \cap Indexed
  /\ calls' = Walked(w)
  /\ low' = IF w \in OnStack
              THEN [low EXCEPT ![Inner.node] = Least(@, indices[w])] ELSE low
  /\ UNCHANGED <<program, phase, indices, tstack, found, solver, namespace>>

\* All edges of v are walked.  A root of a component pops it and reports it if
\* it is a cycle; the caller merges v's lowlink into its own.
Popped(v) ==
  LET at == CHOOSE k \in 1..Len(tstack) : tstack[k] = v
  IN  {tstack[k] : k \in at..Len(tstack)}

Return ==
  LET v == Inner.node
      scc == Popped(v)
      closes == low[v] = indices[v]
  IN  /\ Checking /\ Inner.edges = {}
      /\ tstack' = IF closes
                     THEN SubSeq(tstack, 1, Len(tstack) - Cardinality(scc)) ELSE tstack
      /\ found' = IF closes /\ (Cardinality(scc) > 1 \/ v \in Edges(v))
                    THEN scc ELSE found
      /\ calls' = Outer
      /\ low' = IF Outer = << >> THEN low
                ELSE [low EXCEPT ![Outer[Len(Outer)].node] = Least(@, low[v])]
      /\ UNCHANGED <<program, phase, indices, solver, namespace>>

-----------------------------------------------------------------------------
(* solve_locals: passes in source order, until one makes no progress.       *)

BeginSolve ==
  /\ phase = "check" /\ calls = << >> /\ found = {} /\ Indexed = Locals
  /\ phase' = "solve"
  /\ UNCHANGED <<program, tarjan, solver, namespace>>

\* lookup_local takes the first binding of a name; those of the cascade come
\* first, the component's own are pushed behind them.
Bound(x) == x \in program.cascade \cup scope
LookupLocal(x) ==
  IF x \in program.cascade THEN {CascadeOrigin(x)} ELSE {OwnOrigin(x)} \cup value[x]

\* reduce_expression of the local at the cursor.  A literal is pushed on the
\* scope, for the locals that follow in this pass as well.
ReduceLocal ==
  LET i == cursor
      now == {x \in left[i] : Bound(x)}
      literal == left[i] = now /\ i \notin program.stuck
  IN  /\ phase = "solve" /\ i \in Locals
      /\ IF i \in scope THEN UNCHANGED <<left, value, scope, progress>>
         ELSE /\ left' = [left EXCEPT ![i] = @ \ now]
              /\ value' = [value EXCEPT ![i] = @ \cup UNION {LookupLocal(x) : x \in now}]
              /\ scope' = IF literal THEN scope \cup {i} ELSE scope
              /\ progress' = (progress \/ literal \/ now # {})
      /\ cursor' = cursor + 1
      /\ UNCHANGED <<program, phase, tarjan, pass, namespace>>

\* Wrong: two passes too few.
PassesAllowed_TooFew == N - 1

\* max_iters is len() + 1.
PassesAllowed == N + 1

NextPass ==
  /\ phase = "solve" /\ cursor > N
  /\ progress /\ pass < PassesAllowed
  /\ pass' = pass + 1 /\ cursor' = 1 /\ progress' = FALSE
  /\ UNCHANGED <<program, phase, tarjan, left, value, scope, namespace>>

\* evaluate: the literals override the cascade's bindings in the namespace the
\* providers, resources, modules and outputs are reduced against.
Publish(x, literals) ==
  CASE x \in literals -> {OwnOrigin(x)} \cup value[x]
    [] x \notin literals /\ x \in program.cascade -> {CascadeOrigin(x)}
    [] OTHER -> None

Finish ==
  /\ phase = "solve" /\ cursor > N
  /\ ~(progress /\ pass < PassesAllowed)
  /\ phase' = "done"
  /\ namespace' = [x \in Names |-> Publish(x, scope)]
  /\ UNCHANGED <<program, tarjan, solver>>

\* EvalError::Cycle: TF1401, and the locals keep their source expressions; those
\* that are literals already go into the namespace.
SourceLiterals == {i \in Locals \ program.stuck : program.refs[i] = {}}

ReportCycle ==
  /\ phase = "check" /\ calls = << >> /\ found # {}
  /\ phase' = "done"
  /\ namespace' = [x \in Names |-> Publish(x, SourceLiterals)]
  /\ UNCHANGED <<program, tarjan, solver>>

Evaluate ==
  \/ NextRoot \/ Return
  \/ \E w \in Locals : Descend(w) \/ ReturnAtOnce(w) \/ Lookup(w)
  \/ BeginSolve \/ ReduceLocal \/ NextPass \/ Finish \/ ReportCycle

Terminated == phase = "done" /\ UNCHANGED vars

Next == Evaluate \/ Terminated

\* One thread evaluates the component and nothing else can hold it up.
Spec == Init /\ [][Next]_vars

-----------------------------------------------------------------------------
(* Properties.                                                              *)

TypeOK ==
  /\ program \in Programs
  /\ phase \in {"check", "solve", "done"}
  /\ indices \in [Locals -> 0..(N - 1) \cup {None}]
  /\ low \in [Locals -> 0..(N - 1)]
  /\ tstack \in Seq(Locals)
  /\ calls \in Seq([node : Locals, edges : SUBSET Locals])
  /\ found \subseteq Locals
  /\ left \in [Locals -> SUBSET Names]
  /\ value \in [Locals -> SUBSET Origin]
  /\ scope \subseteq Locals
  /\ pass \in 1..PassesAllowed /\ cursor \in 1..(N + 1) /\ progress \in BOOLEAN
  /\ namespace \in [Names -> (SUBSET Origin) \cup {None}]

\* What is reached from the locals in S along the edges of E: the least set that
\* holds them and is closed under E.
ClosedUnder(E, T) == \A v \in T : E[v] \subseteq T
Reachable(E, S) ==
  {j \in Locals : \A T \in SUBSET Locals : S \subseteq T /\ ClosedUnder(E, T) => j \in T}

\* What a local refers to, directly or through others.
EdgeMap == [v \in Locals |-> Edges(v)]
Reaches(i) == Reachable(EdgeMap, Edges(i))

\* The check refuses exactly the components whose locals refer to one another
\* in a circle, in whatever order the edges are walked: a cycle that slipped
\* through would be "evaluating a tree we know will diverge", a false one loses
\* every local of the component.
CycleIffReported ==
  phase = "done" => ((found # {}) <=> \E i \in Locals : i \in Reaches(i))

\* While solving, a name the cascade binds is the cascade's, so only the other
\* declared ones are looked through.
SolveEdges == [v \in Locals |-> Edges(v) \ program.cascade]
Below(i) == Reachable(SolveEdges, {i})
Leaves(i) == (UNION {program.refs[j] : j \in Below(i)}) \ Locals
Cascaded(i) == (UNION {program.refs[j] : j \in Below(i)}) \cap program.cascade

\* The passes end at the right answer, in as many passes as the bound allows: a
\* local is a literal exactly if nothing it is built from is stuck or unbound,
\* and then it is built from all the bindings it refers to, however deep and in
\* whatever order the locals were written.
SolvedIsClosure ==
  (phase = "done" /\ found = {}) =>
    \A i \in Locals :
      /\ (i \in scope) <=> (/\ Below(i) \cap program.stuck = {}
                            /\ Leaves(i) \subseteq program.cascade)
      /\ i \in scope =>
           value[i] = {OwnOrigin(j) : j \in Below(i) \ {i}}
                        \cup {CascadeOrigin(x) : x \in Cascaded(i)}

\* "fail with Error::Cycle listing the participants" (specs/13-evaluator.md):
\* every local reported is in a cycle, and in the same one.
ParticipantsAreACycle ==
  phase = "done" => \A i, j \in found : j \in Reaches(i)
=============================================================================
