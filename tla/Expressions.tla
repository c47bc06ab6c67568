---------------------------- MODULE Expressions ----------------------------
(***************************************************************************)
(* Expressions and their reduction: `Expression` (crates/core/src/ir/      *)
(* expression.rs), `reduce_expression` (eval/reduce.rs), the substitution  *)
(* of module inputs (graph/expand.rs) and the canonical JSON of the        *)
(* attributes column (exporter/json.rs).                                   *)
(*                                                                         *)
(* An expression is a tuple that starts with the name of its variant:      *)
(*   <<"lit", value>>              <<"sym", kind, name, path>>             *)
(*   <<"bin", op, lhs, rhs>>       <<"un", op, operand>>                   *)
(*   <<"tmpl", parts>>             <<"arr", items>>                        *)
(*   <<"obj", pairs>>              <<"call", name, args>>                  *)
(*   <<"cond", cond, then, else>>  <<"for", binders, collection, value,    *)
(*                                   cond, key>>, with Absent for no cond  *)
(*                                   or no key; a key makes it an object   *)
(* A symbol `var.x.a` has kind "Var", name "x" and path <<a>>.             *)
(***************************************************************************)
EXTENDS TerragruntFunctions

Lit(v) == <<"lit", v>>
Sym(kind, name) == <<"sym", kind, name, << >>>>
Absent == << >>

IsLit(e) == e # Absent /\ e[1] = "lit"
AllLit(es) == \A k \in 1..Len(es) : IsLit(es[k])
ValuesIn(es) == [k \in 1..Len(es) |-> es[k][2]]

\* The sub-expressions, and the same node around others.
Kids(e) ==
  CASE e[1] \in {"lit", "sym"} -> << >>
    [] e[1] = "bin" -> <<e[3], e[4]>>
    [] e[1] = "un" -> <<e[3]>>
    [] e[1] \in {"tmpl", "arr"} -> e[2]
    [] e[1] = "obj" -> [k \in 1..Len(e[2]) |-> e[2][k][1]] \o [k \in 1..Len(e[2]) |-> e[2][k][2]]
    [] e[1] = "call" -> e[3]
    [] e[1] = "cond" -> <<e[2], e[3], e[4]>>
    [] e[1] = "for" -> SelectSeq(<<e[3], e[4], e[5], e[6]>>, LAMBDA s : s # Absent)

Rebuild(e, kids) ==
  CASE e[1] \in {"lit", "sym"} -> e
    [] e[1] = "bin" -> <<"bin", e[2], kids[1], kids[2]>>
    [] e[1] = "un" -> <<"un", e[2], kids[1]>>
    [] e[1] \in {"tmpl", "arr"} -> <<e[1], kids>>
    [] e[1] = "obj" ->
         <<"obj", [k \in 1..Len(e[2]) |-> <<kids[k], kids[Len(e[2]) + k]>>]>>
    [] e[1] = "call" -> <<"call", e[2], kids>>
    [] e[1] = "cond" -> <<"cond", kids[1], kids[2], kids[3]>>
    [] e[1] = "for" ->
         <<"for", e[2], kids[1], kids[2],
           IF e[5] = Absent THEN Absent ELSE kids[3],
           IF e[6] = Absent THEN Absent ELSE kids[Len(kids)]>>

\* The symbols an expression still refers to, the binders of its loops among them.
RECURSIVE Symbols(_)
Symbols(e) ==
  IF e[1] = "sym" THEN {e} ELSE UNION {Symbols(Kids(e)[k]) : k \in 1..Len(Kids(e))}

-----------------------------------------------------------------------------
(* Reduction.  A scope has the fields vars, locals, binders: maps from      *)
(* names; workspace: a value or Nothing; and cx, the context of calls.      *)

\* lookup_var and its like take the first entry of the name; a path that leads
\* nowhere leaves the symbol as it is.
Bound(e, entries) ==
  IF ~Has(entries, e[3]) THEN e
  ELSE LET v == Descend(First(entries, e[3]), e[4]) IN IF v = Nothing THEN e ELSE Lit(v)

\* The one name of `terraform.` that has a value.
Workspace == <<90>>

Resolve(e, scope) ==
  CASE e[2] = "Var" -> Bound(e, scope.vars)
    [] e[2] = "Local" -> Bound(e, scope.locals)
    [] e[2] = "Other" -> Bound(e, scope.binders)
    [] e[2] = "Terraform" /\ e[3] = Workspace /\ e[4] = << >> /\ scope.workspace # Nothing ->
         Lit(scope.workspace)
    [] OTHER -> e

\* A failed call gives no value.
Answer(r) == IF Failed(r) THEN Nothing ELSE r

\* What a node with literal children comes to, or Nothing.
Operate(e, values, scope) ==
  CASE e[1] = "bin" -> EvalBinary(e[2], values[1], values[2])
    [] e[1] = "un" -> EvalUnary(e[2], values[1])
    [] e[1] = "tmpl" ->
         StrVal(FoldLeft(LAMBDA acc, v : acc \o RenderAsStr(v), << >>, values))
    [] e[1] = "arr" -> ListVal(values)
    [] e[1] = "obj" ->
         LET n == Len(values) \div 2
         IN  IF \E k \in 1..n : ~Is("str", values[k]) THEN Nothing
             ELSE MapVal([k \in 1..n |-> <<values[k][2], values[n + k]>>])
    [] e[1] = "call" ->
         IF ~IsRegistered(e[2], scope.cx) THEN Nothing
         ELSE Answer(CallRegistered(e[2], values, scope.cx))

Settle(e, v) == IF v = Nothing THEN e ELSE Lit(v)

\* Wrong: a part without a value is left out of a template.
Collapse_Lenient(e, scope) ==
  LET kids == IF e[1] = "tmpl" THEN SelectSeq(Kids(e), IsLit) ELSE Kids(e)
  IN  IF ~AllLit(kids) THEN e ELSE Settle(e, Operate(e, ValuesIn(kids), scope))

\* A failed call, a failed operation or one child without a value keeps the node;
\* a panic of one child is the panic of all.
Panics(es) == \E k \in 1..Len(es) : es[k] = Lit(Panic)

Collapse(e, scope) ==
  IF Panics(Kids(e)) THEN Lit(Panic)
  ELSE IF ~AllLit(Kids(e)) THEN e
  ELSE Settle(e, Operate(e, ValuesIn(Kids(e)), scope))

\* What a loop runs over: pairs of key and value.
Pairs(v) ==
  IF Is("list", v) THEN [k \in 1..Len(v[2]) |-> <<IntVal(k - 1), v[2][k]>>]
  ELSE [k \in 1..Len(v[2]) |-> <<StrVal(v[2][k][1]), v[2][k][2]>>]

\* The binders of an iteration go behind those already in scope.
WithBinders(scope, binders, pair) ==
  [scope EXCEPT !.binders =
     @ \o (IF Len(binders) = 1 THEN <<<<binders[1], pair[2]>>>>
           ELSE <<<<binders[1], pair[1]>>, <<binders[2], pair[2]>>>>)]

RECURSIVE Reduce(_, _)

\* reduce_for: the loop is kept as it was written unless every iteration gives a
\* condition that is a boolean and, where that holds, a value (and a key).
ReduceFor(e, collection, scope) ==
  LET pairs == Pairs(collection)
      in(k) == WithBinders(scope, e[2], pairs[k])
      cond == [k \in 1..Len(pairs) |->
                 IF e[5] = Absent THEN Lit(BoolVal(TRUE)) ELSE Reduce(e[5], in(k))]
      decided == \A k \in 1..Len(pairs) : IsLit(cond[k]) /\ Is("bool", cond[k][2])
      chosen == SelectSeq([k \in 1..Len(pairs) |-> k], LAMBDA k : cond[k][2][2])
      items == [i \in 1..Len(chosen) |-> Reduce(e[4], in(chosen[i]))]
      keys == [i \in 1..Len(chosen) |-> Reduce(e[6], in(chosen[i]))]
  IN  IF collection[1] \notin {"list", "map"} \/ Len(pairs) > scope.cx.limits.iterations THEN e
      ELSE IF Panics(cond) \/ (decided /\ Panics(items)) THEN Lit(Panic)
      ELSE IF ~decided THEN e
      ELSE IF ~AllLit(items) THEN e
      ELSE IF e[6] = Absent THEN Lit(ListVal(ValuesIn(items)))
      ELSE IF \E i \in 1..Len(keys) : ~(IsLit(keys[i]) /\ Is("str", keys[i][2])) THEN e
      ELSE Lit(MapVal([i \in 1..Len(keys) |-> <<keys[i][2][2], items[i][2]>>]))

\* Wrong: the branch is returned as it was written.
ReduceCond_OneLevel(e, scope) ==
  LET cond == Reduce(e[2], scope)
  IN  IF IsLit(cond) /\ Is("bool", cond[2])
        THEN IF cond[2][2] THEN e[3] ELSE e[4]
      ELSE <<"cond", cond, Reduce(e[3], scope), Reduce(e[4], scope)>>

\* A condition that is a boolean picks its branch; any other keeps both.
ReduceCond(e, scope) ==
  LET cond == Reduce(e[2], scope)
  IN  IF IsLit(cond) /\ Is("bool", cond[2])
        THEN Reduce(IF cond[2][2] THEN e[3] ELSE e[4], scope)
      ELSE IF cond = Lit(Panic) THEN cond
      ELSE <<"cond", cond, Reduce(e[3], scope), Reduce(e[4], scope)>>

\* reduce_expression.
Reduce(e, scope) ==
  CASE e[1] = "lit" -> e
    [] e[1] = "sym" -> Resolve(e, scope)
    [] e[1] = "cond" -> ReduceCond(e, scope)
    [] e[1] = "for" ->
         LET collection == Reduce(e[3], scope)
         IN  IF IsLit(collection) THEN ReduceFor(e, collection[2], scope)
             ELSE [e EXCEPT ![3] = collection]
    [] OTHER ->
         Collapse(Rebuild(e, [k \in 1..Len(Kids(e)) |-> Reduce(Kids(e)[k], scope)]), scope)

-----------------------------------------------------------------------------
(* Module inputs.                                                           *)

RECURSIVE Substitute(_, _)

\* Wrong: `var.x.a` becomes what the call gives for x.
GivenFor_NoPath(e, inputs) ==
  IF e[2] = "Var" /\ Has(inputs, e[3]) THEN First(inputs, e[3]) ELSE e

\* `var.x` alone becomes the expression the call gives for x; `var.x.a` stays.
GivenFor(e, inputs) ==
  IF e[2] = "Var" /\ e[4] = << >> /\ Has(inputs, e[3]) THEN First(inputs, e[3]) ELSE e

\* substitute_inputs_in_expr: nothing is reduced.
Substitute(e, inputs) ==
  IF e[1] = "sym" THEN GivenFor(e, inputs)
  ELSE Rebuild(e, [k \in 1..Len(Kids(e)) |-> Substitute(Kids(e)[k], inputs)])

-----------------------------------------------------------------------------
(* Canonical JSON.  A rendering is a tuple too: an object is a sequence of  *)
(* names and renderings in the order they are written.                      *)

JsonObject(fields) == <<"json", fields>>

RECURSIVE RenderValue(_)
RenderValue(v) ==
  CASE Is("num", v) /\ IsNaN(v) -> NullVal
    [] Is("list", v) -> <<"[]", [k \in 1..Len(v[2]) |-> RenderValue(v[2][k])]>>
    [] Is("map", v) ->
         LET sorted == SortedByKey(v[2])
         IN  JsonObject([k \in 1..Len(sorted) |-> <<sorted[k][1], RenderValue(sorted[k][2])>>])
    [] OTHER -> v

RECURSIVE Render(_)

\* write_for writes the binders, the collection, the form and the value.
RenderFor(e) ==
  JsonObject(<<<<"__for__",
     JsonObject(<<<<"binders", e[2]>>, <<"collection", Render(e[3])>>,
                  <<"object_form", BoolVal(e[6] # Absent)>>, <<"value", Render(e[4])>>>>)>>>>)

\* write_expression.  The keys of an object with an expression for a key are
\* sorted by their own rendering; the model keeps them in order.
Render(e) ==
  LET kids == [k \in 1..Len(Kids(e)) |-> Render(Kids(e)[k])]
  IN  CASE e[1] = "lit" -> RenderValue(e[2])
        [] e[1] = "sym" -> JsonObject(<<<<"__kind__", e[2]>>, <<"__unresolved__", <<e[3], e[4]>>>>>>)
        [] e[1] = "call" -> JsonObject(<<<<"__unresolved_func__", e[2]>>, <<"args", kids>>>>)
        [] e[1] = "bin" ->
             JsonObject(<<<<"__binary_op__", e[2]>>, <<"lhs", kids[1]>>, <<"rhs", kids[2]>>>>)
        [] e[1] = "un" -> JsonObject(<<<<"__unary_op__", e[2]>>, <<"operand", kids[1]>>>>)
        [] e[1] = "tmpl" -> JsonObject(<<<<"__template_concat__", kids>>>>)
        [] e[1] = "arr" -> <<"[]", kids>>
        [] e[1] = "obj" ->
             JsonObject([k \in 1..Len(e[2]) |-> <<kids[k], kids[Len(e[2]) + k]>>])
        [] e[1] = "cond" ->
             JsonObject(<<<<"__conditional__",
               JsonObject(<<<<"cond", kids[1]>>, <<"else", kids[3]>>, <<"then", kids[2]>>>>)>>>>)
        [] e[1] = "for" -> RenderFor(e)
=============================================================================
