---------------------------- MODULE IncludeCascade ----------------------------
(***************************************************************************)
(* One call of `FsTerragruntResolver::resolve`                             *)
(* (crates/core/src/terragrunt/resolver.rs) up to the merged body: read    *)
(* the component's terragrunt.hcl, walk its `include` blocks into a load   *)
(* chain (`resolve_include_chain`, a recursion kept here as an explicit    *)
(* stack of frames), then merge the chain front to back (`apply_cascade`,  *)
(* `merge_locals` of terragrunt/merge.rs).                                 *)
(*                                                                         *)
(* What a file holds is chosen when the file is read.  A file's data is    *)
(* abstracted to where it comes from: one local name, whose value is a     *)
(* scalar, a list, a map or an expression made of the names of the files   *)
(* that contributed, and one flag for the blocks that are inherited whole. *)
(***************************************************************************)
EXTENDS Naturals, Sequences, FiniteSets

CONSTANTS
  Files,        \* the terragrunt.hcl files a path can lead to
  Child,        \* the component's own terragrunt.hcl
  MaxDepth,     \* TgContext::max_include_depth
  Contents,     \* [Files -> SUBSET ContentShape]: what each file may hold
  Shared,       \* a key every file's map value has
  None

ASSUME ChildIsFile == Child \in Files
ASSUME MaxDepthNat == MaxDepth \in Nat \ {0}
ASSUME NoneIsNoFile == None \notin Files

\* What an include's `path = ...` comes to: a file below the workspace root,
\* no attribute at all, an expression that does not reduce to a string, or a
\* path that does not resolve under the root.
BadPaths == {"missing", "unreduced", "escapes"}
Strategies == {"deep_map_only", "deep", "shallow", "no_merge"}
Includes == [path : Files \cup BadPaths, strategy : Strategies]

\* How a file binds the local name: not at all, to a literal, to an expression.
LocalKinds == {"absent", "scalar", "list", "map", "expr"}
ContentShape ==
  [includes : Seq(Includes), local : LocalKinds, body : BOOLEAN]

ASSUME ContentsShaped ==
  /\ DOMAIN Contents = Files
  /\ \A f \in Files : Contents[f] \subseteq ContentShape /\ None \notin Contents[f]

VARIABLES
  phase,    \* "start", "chain", "cascade", "done"
  content,  \* [Files -> ContentShape \cup {None}]: what the files read so far hold
  reads,    \* [Files -> Nat]: how often each file was read and parsed
  visited,  \* the canonical paths in the shared `visited` set
  active,   \* TgState::active_include
  stack,    \* the frames of resolve_include_chain, the innermost last
  chain,    \* the chain the outermost call returned
  pos,      \* the entries of it that apply_cascade has merged
  acc,      \* the accumulated body
  diags     \* the diagnostics: <<code, file, index of the include block>>

vars == <<phase, content, reads, visited, active, stack, chain, pos, acc, diags>>

Absent == [kind |-> "absent", val |-> None]

\* The binding of the local name as f declares it.  A map has f's own key and
\* one that all files share.
Binding(f) ==
  LET k == content[f].local
  IN  CASE k = "absent" -> Absent
        [] k = "list"   -> [kind |-> k, val |-> <<f>>]
        [] k = "map"    -> [kind |-> k, val |-> [key \in {f, Shared} |-> f]]
        [] OTHER        -> [kind |-> k, val |-> f]

Entry(f, strategy, origin) == [file |-> f, strategy |-> strategy, origin |-> origin]
TailEntry(f) == Entry(f, "deep_map_only", FALSE)

EmptyBody == [local |-> Absent, inputs |-> None, generate |-> None,
              terraform |-> << >>]

Init ==
  /\ phase = "start"
  /\ content = [f \in Files |-> None]
  /\ reads = [f \in Files |-> 0]
  /\ visited = {}
  /\ active = None
  /\ stack = << >>
  /\ chain = << >>
  /\ pos = 0
  /\ acc = EmptyBody
  /\ diags = {}

-----------------------------------------------------------------------------
(* Reading and entering.                                                    *)

\* `read_and_project`: the file is parsed anew each time.
Read(f) ==
  /\ \E c \in Contents[f] :
       content' = IF content[f] = None THEN [content EXCEPT ![f] = c] ELSE content
  /\ reads' = [reads EXCEPT ![f] = @ + 1]

\* A call of resolve_include_chain on a file that was just read: at the depth
\* cap it returns the file alone, otherwise it marks the file as visited.
Frame(f, via, depth) ==
  [file |-> f, via |-> via, depth |-> depth, next |-> 1, chain |-> << >>,
   capped |-> depth >= MaxDepth]

\* The component directory is outside the root: an empty configuration.
OutsideRoot ==
  /\ phase = "start"
  /\ phase' = "done"
  /\ diags' = {<<"TG2001", Child, 0>>}
  /\ UNCHANGED <<content, reads, visited, active, stack, chain, pos, acc>>

\* The component has no readable terragrunt.hcl: empty, and no diagnostic.
NoChild ==
  /\ phase = "start"
  /\ phase' = "done"
  /\ UNCHANGED <<content, reads, visited, active, stack, chain, pos, acc, diags>>

ReadChild ==
  /\ phase = "start"
  /\ Read(Child)
  /\ phase' = "chain"
  /\ stack' = <<Frame(Child, None, 0)>>
  /\ visited' = {Child}
  /\ UNCHANGED <<active, chain, pos, acc, diags>>

-----------------------------------------------------------------------------
(* One frame at work: `for include in &child.includes`.                     *)

Top == stack[Len(stack)]
TopIncludes == content[Top.file].includes
Include == TopIncludes[Top.next]
AtInclude == /\ phase = "chain" /\ stack # << >>
             /\ ~Top.capped /\ Top.next <= Len(TopIncludes)
Advance == stack' = [stack EXCEPT ![Len(stack)].next = @ + 1]
Report(code) == diags' = diags \cup {<<code, Top.file, Top.next>>}

\* Wrong: a bad path ends the loop over the includes (IncludesAccountedFor fails).
SkipBadPath_Break ==
  /\ AtInclude
  /\ Include.path \in BadPaths
  /\ diags' = diags \cup {<<"TG2003", Top.file, Top.next>>}
  /\ stack' = [stack EXCEPT ![Len(stack)].next = Len(TopIncludes) + 1]
  /\ UNCHANGED <<phase, content, reads, visited, active, chain, pos, acc>>

\* The path is missing, does not reduce or does not resolve under the root:
\* a diagnostic, and on to the next include.
BadPathCode == [missing |-> "TG2003", unreduced |-> "TG2004", escapes |-> "TG2005"]
SkipBadPath ==
  /\ AtInclude
  /\ Include.path \in BadPaths
  /\ Report(BadPathCode[Include.path])
  /\ Advance
  /\ UNCHANGED <<phase, content, reads, visited, active, chain, pos, acc>>

\* Wrong: `continue` without taking the next include (ResolveEnds fails).
SkipVisited_Stuck ==
  /\ AtInclude
  /\ Include.path \in visited
  /\ Report("TG2006")
  /\ UNCHANGED <<phase, content, reads, visited, active, stack, chain, pos, acc>>

\* `!visited.insert(canonical)`: seen anywhere in this resolution.
SkipVisited ==
  /\ AtInclude
  /\ Include.path \in visited
  /\ Report("TG2006")
  /\ Advance
  /\ UNCHANGED <<phase, content, reads, visited, active, chain, pos, acc>>

\* `read_and_project` returns None: the path is visited, nothing is reported.
SkipUnreadable ==
  /\ AtInclude
  /\ Include.path \in Files \ visited
  /\ visited' = visited \cup {Include.path}
  /\ Advance
  /\ UNCHANGED <<phase, content, reads, active, chain, pos, acc, diags>>

\* Read the parent, make it the active include, recurse into its includes.
Descend ==
  /\ AtInclude
  /\ Include.path \in Files \ visited
  /\ visited' = visited \cup {Include.path}
  /\ Read(Include.path)
  /\ active' = Include.path
  /\ stack' = Append([stack EXCEPT ![Len(stack)].next = @ + 1],
                     Frame(Include.path, Include.strategy, Top.depth + 1))
  /\ UNCHANGED <<phase, chain, pos, acc, diags>>

\* Wrong: the parents go after the body that includes them
\* (IncludedBeforeIncluder fails).
Return_ChildFirst ==
  LET sub == <<TailEntry(Top.file)>> \o Top.chain
      n   == Len(stack)
  IN  /\ phase = "chain" /\ stack # << >>
      /\ Top.capped \/ Top.next > Len(TopIncludes)
      /\ IF n = 1
           THEN chain' = sub /\ phase' = "cascade" /\ stack' = << >>
           ELSE /\ stack' = [i \in 1..(n - 1) |->
                     IF i < n - 1 THEN stack[i]
                     ELSE [stack[i] EXCEPT !.chain =
                             @ \o Append(sub, Entry(Top.file, Top.via, TRUE))]]
                /\ UNCHANGED <<chain, phase>>
      /\ UNCHANGED <<content, reads, visited, active, pos, acc, diags>>

\* The frame's includes are done (or it is capped): its own body becomes the
\* tail of its chain.  The caller appends that chain and then pushes the same
\* body once more, with the include's strategy.
Return ==
  LET sub == Append(Top.chain, TailEntry(Top.file))
      n   == Len(stack)
  IN  /\ phase = "chain" /\ stack # << >>
      /\ Top.capped \/ Top.next > Len(TopIncludes)
      /\ diags' = IF Top.capped THEN diags \cup {<<"TG2002", Top.file, 0>>}
                                ELSE diags
      /\ IF n = 1
           THEN /\ chain' = sub
                /\ phase' = "cascade"
                /\ stack' = << >>
           ELSE /\ stack' = [i \in 1..(n - 1) |->
                     IF i < n - 1 THEN stack[i]
                     ELSE [stack[i] EXCEPT !.chain =
                             @ \o Append(sub, Entry(Top.file, Top.via, TRUE))]]
                /\ UNCHANGED <<chain, phase>>
      /\ UNCHANGED <<content, reads, visited, active, pos, acc>>

-----------------------------------------------------------------------------
(* The merge cascade.                                                       *)

Literal(b) == IF b.kind \in {"scalar", "list", "map"} THEN b ELSE Absent

\* Two maps into one; the first has the last word on a key of both.
Over(first, second) ==
  [key \in DOMAIN first \cup DOMAIN second |->
     IF key \in DOMAIN first THEN first[key] ELSE second[key]]

\* Wrong: the arguments are swapped, so what is above wins (ChildLiteralWins
\* fails).
MergeLocal_Swapped(above, own, strategy) ==
  CASE strategy = "no_merge" -> own
    [] strategy # "no_merge" /\ above.kind = "absent" -> own
    [] strategy \in {"deep", "deep_map_only"}
         /\ own.kind = "map" /\ above.kind = "map" ->
           [kind |-> "map", val |-> Over(above.val, own.val)]
    [] OTHER -> above

\* merge_locals on one name: `above` is what has been merged so far.
MergeLocal(above, own, strategy) ==
  CASE strategy = "no_merge" -> own
    [] strategy # "no_merge" /\ own.kind = "absent" -> above
    [] strategy \in {"deep", "deep_map_only"}
         /\ own.kind = "map" /\ above.kind = "map" ->
           [kind |-> "map", val |-> Over(own.val, above.val)]
    [] strategy = "deep" /\ own.kind = "list" /\ above.kind = "list" ->
           [kind |-> "list", val |-> above.val \o own.val]
    [] OTHER -> own

\* Wrong: expressions from above are not carried down (BindingsSurvive fails).
Inherit_DropsExpr(above, own, strategy) ==
  LET merged == MergeLocal(Literal(above), Literal(own), strategy)
  IN  IF merged.kind # "absent" THEN merged
      ELSE IF own.kind = "expr" THEN own ELSE Absent

\* map_to_locals_with_inherited on one name: the merged literal if there is
\* one, then the entry's own expression, then an expression from above.
Inherit(above, own, strategy) ==
  LET merged == MergeLocal(Literal(above), Literal(own), strategy)
  IN  CASE merged.kind # "absent" -> merged
        [] merged.kind = "absent" /\ own.kind = "expr" -> own
        [] OTHER -> IF above.kind = "expr" THEN above ELSE Absent

\* One turn of the loop of apply_cascade.  A body's `inputs`, a `generate` of
\* the same label and a `remote_state` replace what is there; `terraform`
\* blocks accumulate.
MergeEntry ==
  /\ phase = "cascade"
  /\ pos < Len(chain)
  /\ LET e == chain[pos + 1]
         b == content[e.file].body
     IN  acc' = [local     |-> Inherit(acc.local, Binding(e.file), e.strategy),
                 inputs    |-> IF b THEN e.file ELSE acc.inputs,
                 generate  |-> IF b THEN e.file ELSE acc.generate,
                 terraform |-> IF b THEN Append(acc.terraform, e.file)
                                    ELSE acc.terraform]
  /\ pos' = pos + 1
  /\ UNCHANGED <<phase, content, reads, visited, active, stack, chain, diags>>

Finish ==
  /\ phase = "cascade"
  /\ pos = Len(chain)
  /\ phase' = "done"
  /\ UNCHANGED <<content, reads, visited, active, stack, chain, pos, acc, diags>>

ResolveStep ==
  \/ OutsideRoot \/ NoChild \/ ReadChild
  \/ SkipBadPath \/ SkipVisited \/ SkipUnreadable \/ Descend \/ Return
  \/ MergeEntry \/ Finish

\* `resolve` has returned; nothing is left to do.
Terminated == phase = "done" /\ UNCHANGED vars

Next == ResolveStep \/ Terminated

Spec == Init /\ [][Next]_vars /\ WF_vars(ResolveStep)

-----------------------------------------------------------------------------
(* Properties.                                                              *)

Entries == [file : Files, strategy : Strategies, origin : BOOLEAN]

TypeOK ==
  /\ phase \in {"start", "chain", "cascade", "done"}
  /\ \A f \in Files : content[f] \in Contents[f] \cup {None}
  /\ reads \in [Files -> Nat]
  /\ visited \subseteq Files
  /\ active \in Files \cup {None}
  /\ \A i \in 1..Len(stack) :
       /\ stack[i].file \in Files /\ stack[i].via \in Strategies \cup {None}
       /\ stack[i].depth = i - 1
       /\ stack[i].chain \in Seq(Entries)
  /\ chain \in Seq(Entries)
  /\ pos \in 0..Len(chain)
  /\ acc.local.kind \in LocalKinds
  /\ acc.inputs \in Files \cup {None} /\ acc.generate \in Files \cup {None}
  /\ acc.terraform \in Seq(Files)

ReadFiles == {f \in Files : content[f] # None}
InChain(f) == {i \in 1..Len(chain) : chain[i].file = f}
Capped(f) == <<"TG2002", f, 0>> \in diags
Reported(f, k) == \E code \in {"TG2003", "TG2004", "TG2005", "TG2006"} :
                    <<code, f, k>> \in diags

\* Once the chain is built no include got lost on the way: each include block
\* of each file in it is reported, or its file was looked at, and is in the
\* chain too unless it could not be read.  And no file is read twice, whatever
\* cycles and diamonds the includes form (I-TG-3).
IncludesAccountedFor ==
  /\ \A f \in Files : reads[f] <= 1
  /\ phase \in {"cascade", "done"} =>
       \A f \in ReadFiles : ~Capped(f) =>
         \A k \in 1..Len(content[f].includes) :
           LET g == content[f].includes[k].path
           IN  Reported(f, k) \/ (g \in visited /\ (g \in ReadFiles => InChain(g) # {}))

\* "deepest-first": what a file includes is merged before the file itself, and
\* the component's own body is merged last.
IncludedBeforeIncluder ==
  phase \in {"cascade", "done"} /\ chain # << >> =>
    /\ chain[Len(chain)] = TailEntry(Child)
    /\ \A f \in ReadFiles : ~Capped(f) =>
         \A k \in 1..Len(content[f].includes) : ~Reported(f, k) =>
           \A i \in InChain(content[f].includes[k].path), j \in InChain(f) : i < j

\* The component has the last word: a literal it binds, its inputs and its
\* generate block come out as it wrote them; a map keeps its keys.
ChildLiteralWins ==
  LET own == Binding(Child) IN
  phase = "done" /\ content[Child] # None =>
    /\ own.kind \in {"scalar", "list"} => acc.local = own
    /\ own.kind = "map" =>
         /\ acc.local.kind = "map"
         /\ \A key \in DOMAIN own.val : acc.local.val[key] = Child
    /\ content[Child].body => acc.inputs = Child /\ acc.generate = Child

\* Unless an include asks for `no_merge`, a name that any file of the chain
\* binds is bound in the merged body (the F-023 fix).
BindingsSurvive ==
  phase = "done" /\ (\A i \in 1..Len(chain) : chain[i].strategy # "no_merge") =>
    ((\E i \in 1..Len(chain) : content[chain[i].file].local # "absent")
       => acc.local.kind # "absent")

\* `resolve` returns.
ResolveEnds == <>(phase = "done")

=============================================================================
