---------------------------- MODULE ModuleExpansion ----------------------------
(***************************************************************************)
(* What `DefaultGraphBuilder::build` (crates/core/src/graph/builder.rs)    *)
(* does with one component: `flatten_modules` and `expand_module_call`     *)
(* (graph/expand.rs), a recursion over the calls of local modules kept     *)
(* here as an explicit stack, then count / for_each expansion of every     *)
(* resource and the removal of colliding addresses.                        *)
(*                                                                         *)
(* Every body is evaluated (eval/component.rs) before any call of it is    *)
(* known.  One input variable, `var.x`, stands for a body's variables; its *)
(* value is an integer, also used as a count, a list or map, also used as  *)
(* a for_each, or VarX when it stays unresolved.  One provider local name  *)
(* stands for all: a reference to it is an alias, Plain for the name       *)
(* alone, or None.                                                         *)
(*                                                                         *)
(* Three history fields of a frame: `passes` has the providers entry of    *)
(* every call around it, from the outside in, and two say what the call    *)
(* means in Terraform, `xmeans`, the value of var.x inside it, and         *)
(* `means`, the component's provider its default provider stands for.      *)
(***************************************************************************)
EXTENDS Integers, Sequences, FiniteSets

CONSTANTS
  Modules,       \* the local module directories in the registry
  Component,     \* the component being built
  Bodies,        \* [Modules \cup {Component} -> SUBSET BodyShape]
  Aliases,       \* the aliases of the component's provider blocks
  Keys,          \* for_each keys, as they look in an address
  Lists,         \* the lists and maps a for_each can come to
  Items,         \* [Lists -> ListShape]
  BadKeys,       \* those of them that `Address::new` does not accept
  MaxDepth,      \* max_module_depth
  MaxExpansion,  \* max_expansion_per_resource
  MaxSegments,   \* the module calls an address has room for
  VarX, Plain, NoKey, None

Refs == Aliases \cup {Plain}
BadSources == {"external", "escapes", "unregistered"}
SkipCode == [external |-> "none", escapes |-> "TF1502", unregistered |-> "TF1503"]
Values == Int \cup Lists
Exprs == Values \cup {VarX}

\* How many items a list or a map has, and the keys of those that have one, in
\* order: of a list the strings alone.
ListShape == [size : Nat, keys : Seq(Keys)]

\* The `count` and `for_each` of a call or a resource.
Each == [count : Exprs \cup {None}, for_each : Exprs \cup {None}]
Call == [source : Modules \cup BadSources, arg : Exprs \cup {None},
         provider : Refs \cup {None}, each : Each]
Resource == [provider : Refs \cup {None}, each : Each]
\* `bound`: what the evaluator binds var.x to, a default or one of repo_vars.
BodyShape == [bound : Values \cup {None}, res : Seq(Resource), calls : Seq(Call)]

ASSUME NamesDistinct ==
  /\ Component \notin Modules /\ NoKey \notin Keys /\ BadKeys \subseteq Keys
  /\ None \notin Refs /\ Plain \notin Aliases
  /\ VarX \notin Values /\ None \notin Exprs
ASSUME ListsShaped == Items \in [Lists -> ListShape]
ASSUME CapsPositive ==
  MaxDepth \in Nat \ {0} /\ MaxExpansion \in Nat \ {0} /\ MaxSegments \in Nat \ {0}
ASSUME BodiesShaped ==
  /\ DOMAIN Bodies = Modules \cup {Component}
  /\ \A d \in DOMAIN Bodies : Bodies[d] \subseteq BodyShape /\ None \notin Bodies[d]

VARIABLES
  body,    \* [Modules \cup {Component} -> BodyShape \cup {None}]: the evaluated
           \* bodies; which one a module has is chosen at its first call
  phase,   \* "flatten", "expand", "dedup", "done"
  frames,  \* the calls being expanded, the innermost last; the first frame
           \* is the loop over the component's own calls
  active,  \* ExpansionState::stack, the module paths on the current chain
  flat,    \* the component's resources, then the flattened ones
  turn,    \* the instance of the first of them that is expanded next
  combined, \* the expanded rows, in order
  rows,    \* those of them that are kept
  diags,   \* the diagnostics: <<code, path of calls>>
  expanded \* history: the module instances that were expanded

vars == <<body, phase, frames, active, flat, turn, combined, rows, diags, expanded>>

-----------------------------------------------------------------------------
(* Helpers.                                                                 *)

\* `reduce_expression`, when the body b was evaluated on its own.
Reduced(b, e) == IF e = VarX /\ b.bound # None THEN b.bound ELSE e

\* Wrong: the input is not substituted (InputsReachUnboundModules fails).
Substitute_Ignored(e, input) == e

\* `substitute_inputs_in_expr`: only a reference that is still unresolved.
Substitute(e, input) == IF e = VarX /\ input # None THEN input ELSE e

OverCap(count, for_each) ==
  \/ count \in Int /\ count > MaxExpansion
  \/ count = None /\ for_each \in Lists /\ Items[for_each].size > MaxExpansion

\* The index segments a count or a for_each comes to: one per instance, none
\* for a negative count or an item that is not a string, and a single row
\* without an index when it is above the cap or no number, list or map.
Instances(count, for_each) ==
  CASE OverCap(count, for_each) -> <<NoKey>>
    [] count \in Int /\ ~OverCap(count, for_each) -> [i \in 1..count |-> i - 1]
    [] count = None /\ for_each \in Lists /\ ~OverCap(count, for_each) ->
         Items[for_each].keys
    [] OTHER -> <<NoKey>>

\* The count and for_each of a call, and its instances, where the body b makes
\* it.
ReducedOr(b, e) == IF e = None THEN None ELSE Reduced(b, e)
CallCount(b, c) == ReducedOr(b, c.each.count)
CallForEach(b, c) == ReducedOr(b, c.each.for_each)
CallKeys(b, c) == Instances(CallCount(b, c), CallForEach(b, c))

\* `Address::new` takes the address of a resource below these calls: it is not
\* too long and every key is in its character set.
Valid(path) ==
  Len(path) <= MaxSegments /\ \A i \in 1..Len(path) : path[i][2] \notin BadKeys

\* `merge_provider_maps` on the one local name: the call's entry as it is
\* written, else the inherited one.
EffectiveProvider(inherited, own) == IF own = None THEN inherited ELSE own

\* Wrong: a module's explicit reference is kept (ExplicitRefsRewritten fails).
RewriteProvider_Kept(ref, map) == ref

\* `substitute_provider_ref`, for a resource that has a reference.
RewriteProvider(ref, map) ==
  IF ref # None /\ map # None THEN map ELSE ref

\* A row of the flattened list: the k-th resource of the body the frame f is
\* in, below `path`.
Row(path, f, k) ==
  LET b == body[f.dir]
      r == b.res[k]
      Rewritten(e) == Substitute(ReducedOr(b, e), f.input)
  IN  [path |-> path, dir |-> f.dir, res |-> k, key |-> NoKey,
       count |-> Rewritten(r.each.count), for_each |-> Rewritten(r.each.for_each),
       value |-> Rewritten(VarX),
       provider |-> RewriteProvider(r.provider, f.map),
       passes |-> f.passes, xmeans |-> f.xmeans, means |-> f.means]

ComponentFrame ==
  [dir |-> Component, path |-> << >>, insts |-> <<NoKey>>, begun |-> TRUE, next |-> 1,
   input |-> None, map |-> None, passes |-> << >>,
   xmeans |-> Reduced(body[Component], VarX), means |-> Plain]

Init ==
  /\ \E b \in Bodies[Component] :
       body = [d \in Modules \cup {Component} |-> IF d = Component THEN b ELSE None]
  /\ phase = "flatten"
  /\ frames = <<ComponentFrame>>
  /\ active = << >>
  /\ flat = [k \in 1..Len(body[Component].res) |->
               Row(<< >>, ComponentFrame, k)]
  /\ turn = 1
  /\ combined = << >>
  /\ rows = << >>
  /\ diags = {}
  /\ expanded = {}

-----------------------------------------------------------------------------
(* expand_module_call.                                                      *)

Top == frames[Len(frames)]
Depth == Len(frames) - 1    \* the depth of the calls that Top makes
AtCall == /\ phase = "flatten" /\ Top.begun
          /\ Top.next <= Len(body[Top.dir].calls)
ThisCall == body[Top.dir].calls[Top.next]
\* Where the call is, without the index of its own instances.
Site == Append(Top.path, <<Top.next, NoKey>>)
Advance == [frames EXCEPT ![Len(frames)].next = @ + 1]
Report(codes) == diags' = diags \cup {<<c, Site>> : c \in codes}

TooDeep == Depth >= MaxDepth

OnChain(d) == \E i \in 1..Len(active) : active[i] = d

\* The first test of resolve_module_call.
SkipTooDeep ==
  /\ AtCall
  /\ TooDeep
  /\ Report({"TF1501"})
  /\ frames' = Advance
  /\ UNCHANGED <<body, phase, active, flat, turn, combined, rows, expanded>>

\* An external source (no diagnostic), a path that does not resolve under the
\* root, or one the registry does not have.
SkipBadSource ==
  /\ AtCall
  /\ ~TooDeep
  /\ ThisCall.source \in BadSources
  /\ Report({SkipCode[ThisCall.source]} \ {"none"})
  /\ frames' = Advance
  /\ UNCHANGED <<body, phase, active, flat, turn, combined, rows, expanded>>

\* The module is on the chain already.
SkipCycle ==
  /\ AtCall
  /\ ~TooDeep
  /\ ThisCall.source \in Modules /\ OnChain(ThisCall.source)
  /\ Report({"TF1504"})
  /\ frames' = Advance
  /\ UNCHANGED <<body, phase, active, flat, turn, combined, rows, expanded>>

\* The frame of a call c that the frame top makes, b the body it makes it in
\* and callee the module's: its inputs and providers as b was evaluated, the
\* inputs substituted through the call above.  Its count and for_each are not.
CallFrame(top, b, callee, c, site) ==
  LET input == IF c.arg = None THEN None
               ELSE Substitute(Reduced(b, c.arg), top.input)
      xmeans == CASE c.arg = VarX -> top.xmeans
                  [] c.arg = None -> IF callee.bound # None THEN callee.bound ELSE VarX
                  [] OTHER -> c.arg
      means == IF c.provider \in {None, Plain} THEN top.means ELSE c.provider
  IN  [dir |-> c.source, path |-> site, insts |-> CallKeys(b, c), begun |-> FALSE,
       next |-> 1, input |-> input,
       map |-> EffectiveProvider(top.map, c.provider),
       passes |-> Append(top.passes, c.provider), xmeans |-> xmeans, means |-> means]

EnterCall ==
  LET c == ThisCall
      d == c.source
      b == body[Top.dir]
  IN  /\ AtCall
      /\ ~TooDeep
      /\ d \in Modules /\ ~OnChain(d)
      /\ \E new \in IF body[d] = None THEN Bodies[d] ELSE {body[d]} :
           /\ body' = [body EXCEPT ![d] = new]
           /\ frames' = Append(Advance, CallFrame(Top, b, new, c, Site))
      /\ Report(IF OverCap(CallCount(b, c), CallForEach(b, c)) THEN {"TF1505"} ELSE {})
      /\ UNCHANGED <<phase, active, flat, turn, combined, rows, expanded>>

\* The prefix of one instance (`Prefix::Step`), and the frame at work in it
\* and at the end of it.
Indexed(path, k) == [path EXCEPT ![Len(path)][2] = k]
Begun(f, site) == [f EXCEPT !.begun = TRUE, !.next = 1, !.path = site]
Ended(f) == [f EXCEPT !.begun = FALSE, !.insts = Tail(@)]

\* One turn of `for index in instances`: the module goes on the chain and its
\* resources are emitted below the indexed prefix, unless that address would
\* not be valid; the calls in the module are made either way.
BeginInstance ==
  LET f == Top
      site == Indexed(f.path, Head(f.insts))
      n == Len(body[f.dir].res)
      fits == Valid(site)
  IN  /\ phase = "flatten" /\ ~f.begun /\ f.insts # << >>
      /\ frames' = [frames EXCEPT ![Len(frames)] = Begun(f, site)]
      /\ active' = Append(active, f.dir)
      /\ expanded' = expanded \cup {<<site, f.dir>>}
      /\ flat' = flat \o
           [k \in 1..(IF fits THEN n ELSE 0) |-> Row(site, f, k)]
      /\ diags' = IF fits \/ n = 0 THEN diags ELSE diags \cup {<<"TF1507", site>>}
      /\ UNCHANGED <<body, phase, turn, combined, rows>>

\* Wrong: only the first instance is expanded (NothingDropped fails).
EndInstance_FirstOnly ==
  /\ phase = "flatten" /\ Len(frames) > 1 /\ Top.begun
  /\ Top.next > Len(body[Top.dir].calls)
  /\ frames' = [frames EXCEPT ![Len(frames)].begun = FALSE,
                              ![Len(frames)].insts = << >>]
  /\ active' = SubSeq(active, 1, Len(active) - 1)
  /\ UNCHANGED <<body, phase, flat, turn, combined, rows, diags, expanded>>

EndInstance ==
  /\ phase = "flatten" /\ Len(frames) > 1 /\ Top.begun
  /\ Top.next > Len(body[Top.dir].calls)
  /\ frames' = [frames EXCEPT ![Len(frames)] = Ended(Top)]
  /\ active' = SubSeq(active, 1, Len(active) - 1)
  /\ UNCHANGED <<body, phase, flat, turn, combined, rows, diags, expanded>>

EndCall ==
  /\ phase = "flatten" /\ Len(frames) > 1
  /\ ~Top.begun /\ Top.insts = << >>
  /\ frames' = SubSeq(frames, 1, Len(frames) - 1)
  /\ UNCHANGED <<body, phase, active, flat, turn, combined, rows, diags, expanded>>

\* flatten_modules returns; the builder takes over.
EndFlatten ==
  /\ phase = "flatten" /\ Len(frames) = 1
  /\ Top.next > Len(body[Component].calls)
  /\ phase' = "expand"
  /\ frames' = << >>
  /\ UNCHANGED <<body, active, flat, turn, combined, rows, diags, expanded>>

-----------------------------------------------------------------------------
(* build: the instances of each resource, then the first of equal addresses. *)

Address(row) == <<row.path, row.dir, row.res, row.key>>
Taken(address) == \E i \in 1..Len(rows) : Address(rows[i]) = address

\* The resource being expanded, and its instances.
Current == Head(flat)
CurrentKeys == Instances(Current.count, Current.for_each)

\* expand_resource, one instance: dropped when its key makes no valid address.
ExpandInstance ==
  LET k == CurrentKeys[turn]
      bad == k \in BadKeys
  IN  /\ phase = "expand" /\ flat # << >> /\ turn <= Len(CurrentKeys)
      /\ combined' = IF bad THEN combined
                     ELSE Append(combined, [Current EXCEPT !.key = k])
      /\ diags' = diags
           \cup (IF OverCap(Current.count, Current.for_each)
                   THEN {<<"TF1505", Current.path>>} ELSE {})
           \cup (IF bad THEN {<<"TF1507", Current.path>>} ELSE {})
      /\ turn' = turn + 1
      /\ UNCHANGED <<body, phase, frames, active, flat, rows, expanded>>

EndResource ==
  /\ phase = "expand" /\ flat # << >> /\ turn > Len(CurrentKeys)
  /\ flat' = Tail(flat)
  /\ turn' = 1
  /\ UNCHANGED <<body, phase, frames, active, combined, rows, diags, expanded>>

StartDedup ==
  /\ phase = "expand" /\ flat = << >>
  /\ phase' = "dedup"
  /\ UNCHANGED <<body, frames, active, flat, turn, combined, rows, diags, expanded>>

\* Wrong: a colliding row is kept (AddressesUnique fails).
DedupRow_KeepAll ==
  /\ phase = "dedup" /\ combined # << >>
  /\ rows' = Append(rows, Head(combined))
  /\ combined' = Tail(combined)
  /\ UNCHANGED <<body, phase, frames, active, flat, turn, diags, expanded>>

\* Of the rows that come to one address the first stays.
DedupRow ==
  LET r == Head(combined)
      collides == Taken(Address(r))
  IN  /\ phase = "dedup" /\ combined # << >>
      /\ rows' = IF collides THEN rows ELSE Append(rows, r)
      /\ diags' = IF collides THEN diags \cup {<<"TF1506", r.path>>} ELSE diags
      /\ combined' = Tail(combined)
      /\ UNCHANGED <<body, phase, frames, active, flat, turn, expanded>>

Finish ==
  /\ phase = "dedup" /\ combined = << >>
  /\ phase' = "done"
  /\ UNCHANGED <<body, frames, active, flat, turn, combined, rows, diags, expanded>>

BuildStep ==
  \/ SkipTooDeep \/ SkipBadSource \/ SkipCycle \/ EnterCall
  \/ BeginInstance \/ EndInstance \/ EndCall \/ EndFlatten
  \/ ExpandInstance \/ EndResource \/ StartDedup \/ DedupRow \/ Finish

Terminated == phase = "done" /\ UNCHANGED vars

Next == BuildStep \/ Terminated

\* One thread builds the graph; it runs until `build` returns.
Spec == Init /\ [][Next]_vars

-----------------------------------------------------------------------------
(* Properties.                                                              *)

Segments == Seq(Nat \X (Nat \cup Keys \cup {NoKey}))
RowOK(r) ==
  /\ r.path \in Segments /\ r.dir \in Modules \cup {Component}
  /\ r.res \in 1..Len(body[r.dir].res)
  /\ r.key \in Nat \cup Keys \cup {NoKey}
  /\ r.value \in Exprs /\ r.xmeans \in Exprs
  /\ r.provider \in Refs \cup {None} /\ r.means \in Refs

TypeOK ==
  /\ \A d \in Modules \cup {Component} : body[d] \in Bodies[d] \cup {None}
  /\ phase \in {"flatten", "expand", "dedup", "done"}
  /\ active \in Seq(Modules)
  /\ \A i \in 1..Len(flat) : RowOK(flat[i])
  /\ turn \in Nat
  /\ \A i \in 1..Len(combined) : RowOK(combined[i])
  /\ \A i \in 1..Len(rows) : RowOK(rows[i])
  /\ \A i \in 1..Len(frames) :
       /\ frames[i].dir \in Modules \cup {Component}
       /\ frames[i].path \in Segments
       /\ frames[i].begun \in BOOLEAN
       /\ frames[i].next \in 1..(Len(body[frames[i].dir].calls) + 1)

\* I-GRAPH-1 within a component: every row has an address of its own, whatever
\* for_each keys come to one address and however often a module is called.
AddressesUnique ==
  \A i, j \in 1..Len(rows) : Address(rows[i]) = Address(rows[j]) => i = j

\* "the partial expansion is kept": below each instance that was expanded every
\* call was expanded in all its instances and every resource without a count or
\* a for_each has a row, or a diagnostic at that place says why it has not.
\* Items of a list that are no strings are no instances: nothing tells of them.
At(p, n, k) == Append(p, <<n, k>>)
Skipped(site) ==
  \E c \in {"TF1501", "TF1502", "TF1503", "TF1504"} : <<c, site>> \in diags
CallAnswered(p, d, n) ==
  LET c == body[d].calls[n]
      keys == CallKeys(body[d], c)
  IN  \/ Skipped(At(p, n, NoKey))
      \/ c.source = "external"
      \/ \A i \in 1..Len(keys) : <<At(p, n, keys[i]), c.source>> \in expanded

AllRows ==
  {flat[i] : i \in 1..Len(flat)} \cup {combined[i] : i \in 1..Len(combined)}
    \cup {rows[i] : i \in 1..Len(rows)}

NothingDropped ==
  /\ phase # "flatten" =>
       \A e \in expanded \cup {<<<< >>, Component>>} :
         \A n \in 1..Len(body[e[2]].calls) : CallAnswered(e[1], e[2], n)
  /\ \A e \in expanded : \A k \in 1..Len(body[e[2]].res) :
       body[e[2]].res[k].each = [count |-> None, for_each |-> None] =>
         \/ <<"TF1507", e[1]>> \in diags
         \/ \E r \in AllRows : r.path = e[1] /\ r.res = k

Seen == {m \in Modules : body[m] # None}

\* Through any number of calls a resource sees the value its caller passed, as
\* long as no module on the way has a value of its own for the variable.
InputsReachUnboundModules ==
  (\A m \in Seen : body[m].bound = None)
     => \A r \in AllRows : r.value = r.xmeans

\* The providers entry of the innermost of these calls that has one.
Nearest(passes, p) ==
  \/ p = Plain /\ \A i \in 1..Len(passes) : passes[i] = None
  \/ \E i \in 1..Len(passes) :
       /\ passes[i] = p /\ p # None
       /\ \A j \in (i + 1)..Len(passes) : passes[j] = None
\* A call passes on, as its default provider, what a call above it was passed.
PassedOn(passes) ==
  \E i, j \in 1..Len(passes) : i < j /\ passes[i] \in Aliases /\ passes[j] = Plain

\* D8, as far as it goes: an explicit reference to the default provider in a
\* module comes out as the innermost providers entry around it.  That is the
\* component's provider which the reference stands for, unless a call writes
\* the default provider down again below one that was passed an alias.
ExplicitRefsRewritten ==
  \A r \in AllRows :
    (r.dir \in Modules /\ body[r.dir].res[r.res].provider = Plain)
      => /\ Nearest(r.passes, r.provider)
         /\ ~PassedOn(r.passes) => r.provider = r.means

\* "the module's `var.*` references resolve against `ModuleCall.inputs`": also
\* when the module has a default for the variable.
InputsReachModules == \A r \in AllRows : r.value = r.xmeans

=============================================================================
