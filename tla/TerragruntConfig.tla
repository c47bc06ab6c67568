-------------------------- MODULE TerragruntConfig --------------------------
(***************************************************************************)
(* What a component's terragrunt.hcl and the files it includes come to:    *)
(* `FsTerragruntResolver::resolve` (crates/core/src/terragrunt/            *)
(* resolver.rs) after the chain of includes is known.  The chain and the   *)
(* merge of its `locals` are module IncludeCascade; here the other blocks  *)
(* are merged, the locals evaluated, and the configuration built.          *)
(*                                                                         *)
(* A unit is a record                                                      *)
(*   chain   what the parser gives for each file, the component's own last *)
(*   locals  the merged locals: a sequence of <<name, expression>>         *)
(*   lim     the loader's limits                                           *)
(*   cx      the context of calls, its field tg set                        *)
(*   texts   what the parser gives for each text that a `generate` block   *)
(*           may hold; a text that is not there does not parse             *)
(* No local and no input divides by the number that makes `%` panic.       *)
(***************************************************************************)
EXTENDS Lowering

CONSTANT MaxPasses   \* evaluate_locals gives up after 16

ASSUME MaxPassesAssumption == MaxPasses \in Nat \ {0}

VARIABLES unit,       \* << >>, or the unit of the component that has one
          stage,      \* "merge", "locals", "build", "done"
          merged,     \* the blocks of the chain, merged
          pending,    \* the locals this pass has yet to reduce
          waiting,    \* those it left without a value
          progressed, \* has it given one of them a value?
          effective,  \* the values
          passes,
          config      \* the TerragruntConfig
tgVars == <<unit, stage, merged, pending, waiting, progressed, effective, passes, config>>

TgKey == [inputs |-> <<63>>, path |-> <<64>>, if_exists |-> <<65>>, contents |-> <<66>>,
          config_path |-> <<67>>, mock_outputs |-> <<68>>, backend |-> <<69>>]
S3 == <<74>>        \* s3
Quoted == 75        \* ${ and }

NothingMerged == [inputs |-> << >>, generates |-> << >>, dependencies |-> << >>, terraform |-> << >>]
NoConfig == [locals |-> << >>, inputs |-> << >>, generates |-> << >>,
             dependencies |-> << >>, backend |-> Absent]

TgInit(u) ==
  /\ unit = u
  /\ stage = "merge"
  /\ merged = NothingMerged
  /\ pending = << >>
  /\ waiting = << >>
  /\ progressed = FALSE
  /\ effective = << >>
  /\ passes = 0
  /\ config = NoConfig

-----------------------------------------------------------------------------
(* Projection of a file, and the merge.                                     *)

KnownKinds == {"resource", "data", "module", "provider", "variable", "locals", "output",
               "terraform", "include", "generate", "dependency", "inputs"}

\* object_to_attribute_map: the entries with a string for a key.
ObjectEntries(e) ==
  IF e[1] = "obj"
    THEN LET named == SelectSeq(e[2], LAMBDA p : IsLit(p[1]) /\ Is("str", p[1][2]))
         IN  [k \in 1..Len(named) |-> <<named[k][1][2][2], named[k][2]>>]
  ELSE IF IsLit(e) /\ Is("map", e[2])
    THEN [k \in 1..Len(e[2][2]) |-> <<e[2][2][k][1], Lit(e[2][2][k][2])>>]
  ELSE << >>

\* `inputs = { ... }` is an attribute of the file, which the loader takes for a block
\* it does not know; anything but an object or a value is not taken for inputs.
InputsOf(block) ==
  IF block.kind = "inputs" THEN <<block.body>>
  ELSE IF /\ block.kind \notin KnownKinds /\ block.body # << >>
          /\ block.body[1][1] = TgKey.inputs /\ block.body[1][2][1] \in {"obj", "lit"}
    THEN <<ObjectEntries(block.body[1][2])>>
  ELSE << >>

\* A block without a label has the empty name.
Named(block) == [name |-> IF block.labels = << >> THEN << >> ELSE block.labels[1], attrs |-> block.body]
BlocksOf(blocks, kind) == SelectSeq(blocks, LAMBDA b : b.kind = kind)
BodiesOf(blocks, kind) == Each(LAMBDA b : b.body, BlocksOf(blocks, kind))

\* Wrong: the parent's block is kept.
MergeNamed_KeepsFirst(acc, block) ==
  IF \E k \in 1..Len(acc) : acc[k].name = block.name THEN acc ELSE Append(acc, block)

\* A block takes the place of the one with its name.
MergeNamed(acc, block) ==
  IF \E k \in 1..Len(acc) : acc[k].name = block.name
    THEN [acc EXCEPT ![CHOOSE k \in 1..Len(acc) : acc[k].name = block.name] = block]
  ELSE Append(acc, block)

\* project and one turn of apply_cascade: the inputs of a file replace all of the
\* inputs before, its `terraform` blocks come after those before.
MergeFile(acc, blocks) ==
  LET inputs == FoldLeft(LAMBDA last, b : IF InputsOf(b) = << >> THEN last ELSE InputsOf(b), << >>, blocks)
  IN  [inputs |-> IF inputs = << >> THEN acc.inputs ELSE inputs,
       generates |-> FoldLeft(MergeNamed, acc.generates, Each(Named, BlocksOf(blocks, "generate"))),
       dependencies |-> FoldLeft(MergeNamed, acc.dependencies, Each(Named, BlocksOf(blocks, "dependency"))),
       terraform |-> acc.terraform \o BodiesOf(blocks, "terraform")]

ApplyCascade ==
  /\ stage = "merge"
  /\ merged' = FoldLeft(MergeFile, NothingMerged,
                        [k \in 1..Len(unit.chain) |-> LowerBody(unit.chain[k], unit.lim)])
  /\ pending' = unit.locals
  /\ stage' = "locals"
  /\ UNCHANGED <<unit, waiting, progressed, effective, passes, config>>

-----------------------------------------------------------------------------
(* Evaluation.                                                              *)

TgScope(locals) ==
  [vars |-> << >>, locals |-> locals, binders |-> << >>, workspace |-> Nothing, cx |-> unit.cx]

\* evaluate_locals: a value counts from the next local on; what is left of the
\* others waits for the next pass.
EvaluateLocal ==
  /\ stage = "locals"
  /\ pending # << >>
  /\ LET name == Head(pending)[1]
         reduced == Reduce(Head(pending)[2], TgScope(effective))
     IN  IF IsLit(reduced)
           THEN /\ effective' = Append(effective, <<name, reduced[2]>>)
                /\ progressed' = TRUE
                /\ UNCHANGED waiting
         ELSE /\ waiting' = Append(waiting, <<name, reduced>>)
              /\ UNCHANGED <<effective, progressed>>
  /\ pending' = Tail(pending)
  /\ UNCHANGED <<unit, stage, merged, passes, config>>

EndLocalsPass ==
  /\ stage = "locals"
  /\ pending = << >>
  /\ stage' = IF ~progressed \/ waiting = << >> \/ passes + 1 = MaxPasses THEN "build" ELSE "locals"
  /\ pending' = waiting
  /\ waiting' = << >>
  /\ progressed' = FALSE
  /\ passes' = passes + 1
  /\ UNCHANGED <<unit, merged, effective, config>>

\* evaluate_inputs: an input without a value is left out.
EvaluateInputs(attrs) ==
  LET reduced == [k \in 1..Len(attrs) |-> <<attrs[k][1], Reduce(attrs[k][2], TgScope(effective))>>]
      known == SelectSeq(reduced, LAMBDA a : IsLit(a[2]))
  IN  [k \in 1..Len(known) |-> <<known[k][1], known[k][2][2]>>]

\* reduce_generates and reduce_dependencies.
ReduceNamed(block) ==
  [block EXCEPT !.attrs = [k \in 1..Len(@) |-> <<@[k][1], Reduce(@[k][2], TgScope(effective))>>]]

-----------------------------------------------------------------------------
(* The parts of the configuration.                                          *)

PlainPart(p) == IsLit(p) /\ p[2][1] \in {"str", "int", "bool"}

\* render_expr_to_string: a reference of a template stays as `${...}`; the root of
\* its name and the dots are left out here.  Absent is no text.
RenderText(e) ==
  IF e = Absent THEN Absent
  ELSE IF IsLit(e) /\ e[2][1] \in {"str", "int", "num", "bool"} THEN <<RenderAsStr(e[2])>>
  ELSE IF e[1] = "tmpl" /\ \A k \in 1..Len(e[2]) : PlainPart(e[2][k]) \/ e[2][k][1] = "sym"
    THEN <<FlattenSeq(Each(LAMBDA p : IF IsLit(p) THEN RenderAsStr(p[2])
                                  ELSE <<Quoted>> \o p[3] \o FlattenSeq(p[4]) \o <<Quoted>>, e[2]))>>
  ELSE Absent

\* render_contents_for_reparse leaves out what has no value.
RenderForReparse(e) ==
  IF IsLit(e) /\ Is("str", e[2]) THEN <<e[2][2]>>
  ELSE IF e[1] = "tmpl"
    THEN <<FlattenSeq(Each(LAMBDA p : RenderAsStr(p[2]), SelectSeq(e[2], PlainPart)))>>
  ELSE Absent

\* build_generates: a block that lacks the text of one of its three attributes is
\* dropped.
BuildGenerate(block) ==
  LET text(key) == RenderText(LastOf(block.attrs, key))
      texts == <<text(TgKey.path), text(TgKey.if_exists), text(TgKey.contents)>>
  IN  IF \E k \in 1..3 : texts[k] = Absent THEN << >>
      ELSE <<[name |-> block.name, path |-> texts[1][1], if_exists |-> texts[2][1],
              contents |-> texts[3][1]]>>

\* build_dependencies: a `config_path` that is no string is passed over, and so are
\* `mock_outputs` that have become a value.
BuildDependency(block) ==
  LET path == LastOf(SelectSeq(block.attrs, LAMBDA a : IsLit(a[2]) /\ Is("str", a[2][2])), TgKey.config_path)
      mocks == LastOf(SelectSeq(block.attrs, LAMBDA a : a[2][1] = "obj"), TgKey.mock_outputs)
  IN  IF path = Absent THEN << >>
      ELSE <<[name |-> block.name, path |-> JoinPath(unit.cx.tg[1].dir, path[2][2]),
              mocks |-> IF mocks = Absent THEN << >> ELSE ObjectEntries(mocks)]>>

\* backend_from_terraform_body: the first `backend` block.  Its kind is looked for in
\* labels that are a value; other labels are one more attribute.
IsLabels(entry) ==
  /\ entry[1] = Key.labels /\ IsLit(entry[2]) /\ Is("list", entry[2][2])
  /\ entry[2][2][2] # << >> /\ Is("str", entry[2][2][2][1])

BackendOf(body) ==
  LET objects == SelectSeq(body, LAMBDA a : a[1] = TgKey.backend /\ a[2][1] = "obj")
      entries == ObjectEntries(objects[1][2])
      labels == SelectSeq(entries, IsLabels)
  IN  IF objects = << >> THEN << >>
      ELSE <<[kind |-> IF labels = << >> THEN S3 ELSE labels[Len(labels)][2][2][2][1][2],
              attributes |-> SelectSeq(entries, LAMBDA entry : ~IsLabels(entry))]>>

\* The `terraform` blocks in the text of a `generate "backend"` block as it was merged.
GeneratedBodies(block) ==
  LET contents == SelectSeq(block.attrs, LAMBDA a : a[1] = TgKey.contents /\ RenderForReparse(a[2]) # Absent)
      text == RenderForReparse(contents[1][2])[1]
  IN  IF block.name # TgKey.backend \/ contents = << >> THEN << >>
      ELSE IF text \notin DOMAIN unit.texts THEN << >>
      ELSE BodiesOf(LowerBody(unit.texts[text], unit.lim), "terraform")

\* extract_state_backend: the files' own blocks come first.
StateBackend ==
  LET bodies == merged.terraform \o FlattenSeq(Each(GeneratedBodies, merged.generates))
      backends == FlattenSeq(Each(BackendOf, bodies))
  IN  IF backends = << >> THEN Absent ELSE backends[1]

BuildConfig ==
  /\ stage = "build"
  /\ config' = [locals |-> effective,
                inputs |-> IF merged.inputs = << >> THEN << >> ELSE EvaluateInputs(merged.inputs[1]),
                generates |-> FlattenSeq(Each(BuildGenerate, Each(ReduceNamed, merged.generates))),
                dependencies |-> FlattenSeq(Each(BuildDependency, Each(ReduceNamed, merged.dependencies))),
                backend |-> StateBackend]
  /\ stage' = "done"
  /\ UNCHANGED <<unit, merged, pending, waiting, progressed, effective, passes>>

ResolveStep == ApplyCascade \/ EvaluateLocal \/ EndLocalsPass \/ BuildConfig

-----------------------------------------------------------------------------
(* Properties.                                                              *)

\* What the text of a `config_path` stands for: itself, the value of a local, or the
\* path that is nearest above the component, inside the root and there, or else the
\* fallback.
Nearest(name) ==
  LET tg == unit.cx.tg[1]
      there(n) == LET path == SubSeq(tg.dir, 1, n) \o name
                  IN  path \in DOMAIN tg.leads /\ IsPrefix(tg.root, tg.leads[path])
      levels == {n \in Len(tg.root)..Len(tg.dir) : there(n)}
  IN  IF levels = {} THEN Absent
      ELSE <<tg.leads[SubSeq(tg.dir, 1, CHOOSE n \in levels : \A m \in levels : m <= n) \o name]>>

RECURSIVE Stands(_)
Stands(e) ==
  CASE IsLit(e) /\ Is("str", e[2]) -> <<e[2][2]>>
    [] e[1] = "sym" /\ e[2] = "Local" /\ Has(effective, e[3]) -> <<First(effective, e[3])[2]>>
    [] e[1] = "call" /\ e[2] = "find_in_parent_folders" ->
         LET name == e[3][1][2][2]
         IN  IF Nearest(name) = Absent /\ Len(e[3]) = 2 THEN Stands(e[3][2]) ELSE Nearest(name)
    [] OTHER -> Absent

\* The files a component includes never decide what the component itself declares:
\* its dependencies are the last declaration of each name along the chain, once, and
\* each leads where its own text says; its inputs are those of the last file that
\* has any.
Declared(kind) ==
  FlattenSeq([k \in 1..Len(unit.chain) |-> Each(Named, BlocksOf(LowerBody(unit.chain[k], unit.lim), kind))])
LastDeclared(kind) ==
  LET all == Declared(kind)
  IN  {all[k] : k \in {i \in 1..Len(all) : \A j \in (i + 1)..Len(all) : all[j].name # all[i].name}}

InputNames(file) ==
  UNION {{file[k][3][2][i][1][2] : i \in 1..Len(file[k][3][2])} :
           k \in {j \in 1..Len(file) : file[j][1] = "attr" /\ file[j][2] = TgKey.inputs}}

ConfigFollowsChain ==
  stage = "done" =>
    LET expected == {[name |-> d.name, at |-> Stands(LastOf(d.attrs, TgKey.config_path))]
                       : d \in LastDeclared("dependency")}
        found == {e \in expected : e.at # Absent}
        given == {n \in 1..Len(unit.chain) : InputNames(unit.chain[n]) # {}}
    IN  /\ Len(config.dependencies) = Cardinality(found)
        /\ {[name |-> config.dependencies[k].name, path |-> config.dependencies[k].path]
              : k \in 1..Len(config.dependencies)}
             = {[name |-> e.name, path |-> JoinPath(unit.cx.tg[1].dir, e.at[1])] : e \in found}
        /\ \A k \in 1..Len(config.inputs) : \E n \in given :
             (\A m \in given : m <= n) /\ config.inputs[k][1] \in InputNames(unit.chain[n])
=============================================================================
