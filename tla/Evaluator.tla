------------------------------ MODULE Evaluator ------------------------------
(***************************************************************************)
(* One directory on its way from the parsed file to the attributes column: *)
(* the file is lowered and projected (Lowering), its Terragrunt            *)
(* configuration, if it has one, is resolved (TerragruntConfig),           *)
(* `HclEvaluator::evaluate` (crates/core/src/eval/component.rs) binds the  *)
(* variables, solves the locals (eval/locals.rs) and reduces every         *)
(* expression, the expansion of a module call puts the inputs of the call  *)
(* in place of the variables (graph/expand.rs), and the exporter renders   *)
(* what is left (exporter/json.rs).                                        *)
(***************************************************************************)
EXTENDS TerragruntConfig

CONSTANT Programs   \* a set of records:
                    \*   file      what the parser gives for the directory
                    \*   lim       the loader's limits [blocks, depth, parts]
                    \*   repo      .tfvars and --var: a map of values
                    \*   terragrunt  << >>, or the unit of the Terragrunt files
                    \*   workspace the environment's name, or Nothing
                    \*   cx        what functions may use
                    \*   inputs    what the module call gives: a map of expressions

VARIABLES program,    \* the member of Programs evaluated
          pc,
          blocks,     \* what the loader gives
          hits,       \* how many TF1200 diagnostics it gives
          component,  \* the projected component, rewritten as it is evaluated
          scope,
          at,         \* the variable or local whose turn it is
          pass,       \* the passes of the solver so far
          converged,  \* the names of the locals the solver has a value for
          progress,   \* has this pass changed something?
          cyclic,     \* TF1401
          rows        \* the attributes columns
evVars == <<program, blocks, hits, component, scope, at, pass, converged, progress, cyclic, rows>>
vars == <<evVars, pc, tgVars>>

NoComponent == [variables |-> << >>, locals |-> << >>, providers |-> << >>,
                resources |-> << >>, modules |-> << >>, outputs |-> << >>]

EmptyScope(p) == [vars |-> << >>, locals |-> << >>, binders |-> << >>,
                  workspace |-> p.workspace, cx |-> p.cx]

Init ==
  /\ program \in Programs
  /\ pc = "lower"
  /\ blocks = << >>
  /\ hits = 0
  /\ component = NoComponent
  /\ scope = EmptyScope(program)
  /\ at = 1
  /\ pass = 0
  /\ converged = {}
  /\ progress = FALSE
  /\ cyclic = FALSE
  /\ rows = << >>
  /\ TgInit(IF program.terragrunt = << >> THEN << >> ELSE program.terragrunt[1])

-----------------------------------------------------------------------------

LowerFile ==
  /\ pc = "lower"
  /\ blocks' = LowerBody(program.file, program.lim)
  /\ hits' = FileHits(program.file, program.lim)
  /\ pc' = "project"
  /\ UNCHANGED <<program, component, scope, at, pass, converged, progress, cyclic, rows, tgVars>>

Project ==
  /\ pc = "project"
  /\ component' = ProjectComponent(blocks)
  /\ pc' = IF program.terragrunt = << >> THEN "bind" ELSE "terragrunt"
  /\ UNCHANGED <<program, blocks, hits, scope, at, pass, converged, progress, cyclic, rows, tgVars>>

ResolveTerragrunt ==
  /\ pc = "terragrunt"
  /\ ResolveStep
  /\ pc' = IF stage' = "done" THEN "bind" ELSE "terragrunt"
  /\ UNCHANGED evVars

\* bind_variables: a default is reduced where nothing is bound, and binds the
\* variable if it comes to a value.
BindVariable ==
  /\ pc = "bind"
  /\ at <= Len(component.variables)
  /\ LET variable == component.variables[at]
         default == IF variable.default = Absent THEN Absent
                    ELSE Reduce(variable.default, EmptyScope(program))
     IN  /\ component' = [component EXCEPT !.variables[at].default = default]
         /\ scope' = IF IsLit(default)
                       THEN [scope EXCEPT !.vars = Append(@, <<variable.name, default[2]>>)]
                     ELSE scope
  /\ at' = at + 1
  /\ UNCHANGED <<program, pc, blocks, hits, pass, converged, progress, cyclic, rows, tgVars>>

\* What is given wins over the defaults, and --var and .tfvars over the Terragrunt
\* inputs; the cascade's locals come first.
Given == PutAll(config.inputs, program.repo)

OverrideVariables ==
  /\ pc = "bind"
  /\ at > Len(component.variables)
  /\ scope' = [scope EXCEPT !.vars = PutAll(@, Given), !.locals = config.locals]
  /\ pc' = "check"
  /\ UNCHANGED <<program, blocks, hits, component, at, pass, converged, progress, cyclic, rows, tgVars>>

\* check_cycle on the references as they are written; of locals with one name the
\* last is the one referred to.
LocalRefs(e) == {s[3] : s \in {t \in Symbols(e) : t[2] = "Local"}}
RefersTo(locals, i, j) ==
  /\ locals[j][1] \in LocalRefs(locals[i][2])
  /\ \A k \in (j + 1)..Len(locals) : locals[k][1] # locals[j][1]

HasCycle(locals) ==
  LET n == Len(locals)
      step(S) == S \cup {j \in 1..n : \E i \in S : RefersTo(locals, i, j)}
      reach(i) == FoldLeft(LAMBDA S, k : step(S), {j \in 1..n : RefersTo(locals, i, j)},
                           [k \in 1..n |-> k])
  IN  \E i \in 1..n : i \in reach(i)

\* Locals on a cycle leave all of them as they were written.
CheckCycle ==
  /\ pc = "check"
  /\ cyclic' = HasCycle(component.locals)
  /\ pc' = IF HasCycle(component.locals) THEN "inherit" ELSE "solve"
  /\ at' = 1
  /\ UNCHANGED <<program, blocks, hits, component, scope, pass, converged, progress, rows, tgVars>>

\* solve_locals: a value goes behind what is already in the namespace.
ReduceLocal ==
  /\ pc = "solve"
  /\ at <= Len(component.locals)
  /\ LET local == component.locals[at]
         reduced == Reduce(local[2], scope)
     IN  IF local[1] \in converged THEN UNCHANGED <<component, scope, converged, progress>>
         ELSE /\ component' = [component EXCEPT !.locals[at] = <<local[1], reduced>>]
              /\ progress' = (progress \/ reduced # local[2] \/ IsLit(reduced))
              /\ converged' = IF IsLit(reduced) THEN converged \cup {local[1]} ELSE converged
              /\ scope' = IF IsLit(reduced)
                            THEN [scope EXCEPT !.locals = Append(@, <<local[1], reduced[2]>>)]
                          ELSE scope
  /\ at' = at + 1
  /\ UNCHANGED <<program, pc, blocks, hits, pass, cyclic, rows, tgVars>>

\* Wrong: one pass is thought to be enough.
NeedsPass_One(n) == FALSE

NeedsPass(n) == progress /\ pass + 1 < n + 1

EndPass ==
  /\ pc = "solve"
  /\ at > Len(component.locals)
  /\ pass' = pass + 1
  /\ pc' = IF NeedsPass(Len(component.locals)) THEN "solve" ELSE "inherit"
  /\ at' = 1
  /\ progress' = FALSE
  /\ UNCHANGED <<program, blocks, hits, component, scope, converged, cyclic, rows, tgVars>>

\* The locals with a value take the place of the cascade's.
InheritLocals ==
  /\ pc = "inherit"
  /\ LET solved == SelectSeq(component.locals, LAMBDA l : IsLit(l[2]))
     IN  scope' = [scope EXCEPT !.locals =
                     PutAll(config.locals, [k \in 1..Len(solved) |-> <<solved[k][1], solved[k][2][2]>>])]
  /\ pc' = "reduce"
  /\ UNCHANGED <<program, blocks, hits, component, at, pass, converged, progress, cyclic, rows, tgVars>>

\* reduce_attrs and the reductions of one block.
ReduceAttrs(attrs) == [k \in 1..Len(attrs) |-> <<attrs[k][1], Reduce(attrs[k][2], scope)>>]
ReduceOpt(e) == IF e = Absent THEN Absent ELSE Reduce(e, scope)
ReduceProvider(p) ==
  [p EXCEPT !.region = ReduceOpt(@), !.profile = ReduceOpt(@), !.raw = ReduceAttrs(@)]
ReduceResource(r) ==
  [r EXCEPT !.count = ReduceOpt(@), !.for_each = ReduceOpt(@), !.attributes = ReduceAttrs(@)]
ReduceModule(m) ==
  [m EXCEPT !.count = ReduceOpt(@), !.for_each = ReduceOpt(@), !.inputs = ReduceAttrs(@)]
ReduceOutput(o) == [o EXCEPT !.value = Reduce(@, scope)]

\* A panic of an operator ends the program.
Panicked(c) ==
  \/ \E k \in 1..Len(c.locals) : c.locals[k][2] = Lit(Panic)
  \/ \E k \in 1..Len(c.resources) : Panics([i \in 1..Len(c.resources[k].attributes) |->
                                              c.resources[k].attributes[i][2]])

ReduceBlocks ==
  /\ pc = "reduce"
  /\ component' = [component EXCEPT !.providers = Each(ReduceProvider, @),
                                    !.resources = Each(ReduceResource, @),
                                    !.modules = Each(ReduceModule, @),
                                    !.outputs = Each(ReduceOutput, @)]
  /\ pc' = IF Panicked(component') THEN "panicked" ELSE "expand"
  /\ UNCHANGED <<program, blocks, hits, scope, at, pass, converged, progress, cyclic, rows, tgVars>>

\* substitute_inputs_in_attrs on every resource of the module.
SubstituteAttrs(attrs, inputs) ==
  [k \in 1..Len(attrs) |-> <<attrs[k][1], Substitute(attrs[k][2], inputs)>>]

Expand ==
  /\ pc = "expand"
  /\ component' = [component EXCEPT !.resources =
       [k \in 1..Len(@) |->
          [@[k] EXCEPT !.attributes = SubstituteAttrs(@, program.inputs),
                       !.count = IF @ = Absent THEN Absent ELSE Substitute(@, program.inputs),
                       !.for_each = IF @ = Absent THEN Absent ELSE Substitute(@, program.inputs)]]]
  /\ pc' = "render"
  /\ UNCHANGED <<program, blocks, hits, scope, at, pass, converged, progress, cyclic, rows, tgVars>>

\* render_attribute_map: the attributes of a row, sorted by name.
RenderAttributes(attrs) ==
  LET sorted == SortedByKey(attrs)
  IN  JsonObject([k \in 1..Len(sorted) |-> <<sorted[k][1], Render(sorted[k][2])>>])

RenderRows ==
  /\ pc = "render"
  /\ rows' = [k \in 1..Len(component.resources) |-> RenderAttributes(component.resources[k].attributes)]
  /\ pc' = "done"
  /\ UNCHANGED <<program, blocks, hits, component, scope, at, pass, converged, progress, cyclic, tgVars>>

Terminated == pc \in {"done", "panicked"} /\ UNCHANGED vars

Step == \/ LowerFile \/ Project \/ ResolveTerragrunt \/ BindVariable \/ OverrideVariables
        \/ CheckCycle \/ ReduceLocal \/ EndPass \/ InheritLocals \/ ReduceBlocks \/ Expand \/ RenderRows

Next == Step \/ Terminated

Spec == Init /\ [][Next]_vars

-----------------------------------------------------------------------------
(* Properties.                                                              *)

Source == ProjectComponent(blocks)
Evaluated == pc \in {"expand", "render", "done"}

\* The attributes as written and as they are now, side by side.
Attributes == {<<k, i>> \in (1..Len(Source.resources)) \X (1..40) :
                 i <= Len(Source.resources[k].attributes)}
Written(a) == Source.resources[a[1]].attributes[a[2]][2]
Now(a) == component.resources[a[1]].attributes[a[2]][2]

\* The loader never changes what it reads without a TF1200 diagnostic: a file
\* lowered without one is what it would be without limits, however deep the
\* place where a limit could have cut.
NoLimits == [blocks |-> 1000, depth |-> 1000, parts |-> 1000]
TruncationReported ==
  pc # "lower" /\ hits = 0 => blocks = LowerBody(program.file, NoLimits)

\* What has been reduced is reduced: a second call of reduce_expression in the same
\* scope changes nothing, loops that were kept and failed calls included.
ReduceIdempotent ==
  pc = "expand" => \A a \in Attributes : Reduce(Now(a), scope) = Now(a)

\* The order in which the locals are written and the number of passes leave no
\* trace: each ends as its own text reduced where all the others have their values,
\* unless the cascade already gave a local of the component another value.
Shadows == \E k \in 1..Len(Source.locals) : Has(config.locals, Source.locals[k][1])
LocalsAgree ==
  Evaluated /\ ~cyclic /\ ~Shadows =>
    \A k \in 1..Len(Source.locals) :
      Reduce(Source.locals[k][2], scope) = component.locals[k][2]

\* A value in a row is never a guess: whatever the names without a value turn out
\* to be, the attribute comes to the same value.
Possible == {BoolVal(TRUE), BoolVal(FALSE), IntVal(1), StrVal(<<1>>), ListVal(<< >>)}
OpenNames(e, kind) ==
  {s[3] : s \in {t \in Symbols(e) :
     t[2] = kind /\ ~Has(IF kind = "Var" THEN scope.vars ELSE scope.locals, t[3])}}
Entries(f) == LET names == SetToSeq(DOMAIN f) IN [k \in 1..Len(names) |-> <<names[k], f[names[k]]>>]
NoGuess ==
  pc = "expand" =>
    \A a \in Attributes :
      IsLit(Now(a)) =>
        \A v \in [OpenNames(Written(a), "Var") -> Possible],
           l \in [OpenNames(Written(a), "Local") -> Possible] :
          Reduce(Written(a), [scope EXCEPT !.vars = @ \o Entries(v), !.locals = @ \o Entries(l)])
            = Now(a)

\* Putting the inputs of a call into what is left of an attribute gives no value but
\* the one the attribute has where the inputs are bound.  (An input without a value
\* speaks of the caller's names, which have no meaning in the module.)
SubstitutionFaithful ==
  LET given == program.inputs
      bound == [scope EXCEPT !.vars = @ \o [k \in 1..Len(given) |-> <<given[k][1], given[k][2][2]>>]]
  IN  pc = "render" /\ (\A k \in 1..Len(given) : IsLit(given[k][2])) =>
        \A a \in Attributes :
          LET filled == Reduce(Now(a), scope)
          IN  IsLit(filled) => filled = Reduce(Written(a), bound)

\* No function makes a string or a list longer than the limits allow, except those
\* that hand out text of the file system or of the environment.
Unlimited == {"file", "get_env", "lookup", "templatefile"}
Within(v) ==
  /\ Is("str", v) => Len(v[2]) <= program.cx.limits.str
  /\ Is("list", v) => Len(v[2]) <= program.cx.limits.list
FunctionsBounded ==
  pc = "expand" =>
    \A a \in Attributes :
      LET e == Written(a)
      IN  e[1] = "call" /\ e[2] \notin Unlimited /\ IsLit(Now(a))
            /\ (\A k \in 1..Len(e[3]) : IsLit(e[3][k]) => Within(e[3][k][2])) =>
          Within(Now(a)[2])

\* No input makes the evaluator panic.
NeverPanics == pc # "panicked"

=============================================================================
