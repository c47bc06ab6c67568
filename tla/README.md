# tfparser: verification project

This directory holds TLA+ models of tfparser (`crates/core`, `apps/cli`), the TLC
configurations that check them on small instances, and proofs that TLAPS checks: the
exporter, `verify`, the include cascade, nested reads, the locals solver, module
expansion, the profile map, the provider resolver, the rows of the resource table and the
pipeline. Paths are relative to the repository; `core/` abbreviates `crates/core/src/`. `PROJECT.json` lists components, runs, the correspondence of
definitions and source lines, hazards, findings and theorems.

## 1. The system

tfparser reads a Terraform / Terragrunt monorepo without running Terraform and
writes the resources, dependencies, components and modules as Parquet tables.
`tfparser parse` runs one pipeline, in one thread:

    discovery -> loader -> projection -> terragrunt resolver (per component)
      -> evaluator (modules first, then components) -> graph builder (expansion,
      edges) -> provider resolver -> exporter          and `tfparser verify` later

| Component | State | Operations | What is hard | What makes it correct |
|---|---|---|---|---|
| Parquet exporter (`core/exporter/writer.rs`, `secondary.rs`, `manifest.rs`) | the output directory: `<file>`, `<file>.partial`, written and fsynced bytes; digests and sizes | `export`: check, then per table probe, unlink, create_new, write, fsync, rename, stat, hash; the manifest last | several runs in one directory, kill and power loss at any point, left-overs | files under final names are whole; the manifest is last and truthful; left-overs do not hurt; names do not vanish |
| `verify` (`apps/cli/src/main.rs`) | the manifest it read, mismatches so far | read the manifest, then hash each file | files replaced while it reads | "ok" was true of one moment |
| Include cascade (`core/terragrunt/resolver.rs`, `merge.rs`) | visited set, recursion, chain, accumulated body | resolve, recurse into each `include`, merge the chain | diamonds, cycles, depth cap, includes that fail, four merge strategies | read once, nothing lost silently, outside-in order, the child wins |
| `read_terragrunt_config` (same file) | memo, in-flight set, stack, pending locals | call, evaluate locals in passes, evaluate inputs | re-entrance, failure after marking, results computed inside a cycle | memo, in-flight set and stack agree; the function parses no file twice; passes reach a fixpoint |
| Terragrunt configuration and functions (`core/terragrunt/resolver.rs`, `parsed.rs`, `funcs.rs`) | merged blocks, pending and effective locals, configuration | project each file, merge, evaluate locals in passes, build inputs, generated files, dependencies and the backend; search the directories above | a name declared on several levels, links out of the workspace, the pass cap | the component's own declarations win; a path leads where its text says |
| Evaluator: locals (`core/eval/locals.rs`, `component.rs`, `reduce.rs`) | Tarjan's stack and numbers, scope, passes | cycle check, passes, publish the namespace | early return in the recursion, hash order, pass bound, shadowing | cycles reported exactly; passes reach the solution |
| Module expansion (`core/graph/expand.rs`, `builder.rs`) | module chain, prefix, flattened resources, addresses seen | expand calls per instance, rewrite resources, expand resources | recursion, caps, address collisions, order of evaluation and substitution | distinct addresses, bounded expansion, nothing dropped silently, inputs and providers reach the rows |
| Loader, projection (`core/loader/`, `core/projection/`) | queue of directories, source map, blocks per directory | path check, size check, read, decode, parse, lower, project | files that change between the checks and the read; depth, block and template caps | a file is used or reported; what a cap cuts is reported |
| Evaluator: expressions (`core/eval/reduce.rs`, `stdlib.rs`, `files.rs`, `registry.rs`) | scope of variables and locals | reduce every expression, call functions, substitute inputs | unknown operands, nested loops, integer edges, sizes | nothing left half reduced, nothing guessed, sizes bounded, no panic |
| Dependency edges (`core/graph/edges.rs`) | edges | explicit, implicit, input and Terragrunt edges | names anywhere in an expression, the same key twice | edges are exactly the references as written |
| Provider resolver (`core/provider/`) | profile map, accounts and regions of resources and backends | load the map, pick a provider, derive account and region | chains of profiles, aliases, defaults, strict mode | the account is the named provider's; a profile that is relied on and missing is reported |
| Discovery (`core/discovery/`) | files per directory, counters, kinds | walk, probe, classify | order of the file system, limits on size, number and depth, links, files that vanish | directories, their files, kinds and diagnostics do not depend on the order (that of the files in a directory does) |
| Tables (`core/exporter/writer.rs`, `secondary.rs`) | builders, row groups, counts | append, cut, flush, count | limits that fall on the last row; four writers over one workspace | every row once, in order; the tables agree |
| Pipeline (`core/pipeline.rs`, `parser.rs`) | what each stage handed on, diagnostics | one step per stage and directory | partial failure | only limits and strict mode fail; every component survives |

The components call one another directly and pass values on. The only state that
outlives a call is the output directory (shared by runs and by `verify`) and,
inside one `resolve`, the memo and stack that nested reads share. The only real
concurrency is that of processes: several runs in one output directory, and users
who edit the tree while it is read. The other components are recursive, sequential
algorithms over graphs that users write, and what is hard about them is the order
of the steps and what each step leaves behind.

## 2. Modules

| Module | Models | Extends / uses |
|---|---|---|
| `RunPublication` | abstract: what an exporter promises the reader of a directory | - |
| `ParquetExporter` | `export` and its writers, one action per system call, for a set of runs; `Abort` and `PowerLoss` | refines `RunPublication` (`Abs`) |
| `ManifestVerify` | `run_verify`, interleaved with the exporter | `ParquetExporter` |
| `IncludeCascade` | `resolve_include_chain`, `apply_cascade` and the merge functions | - |
| `ReadConfig` | `ReadTerragruntConfigFn::call`, `evaluate_locals`, `evaluate_inputs` | - |
| `ModuleExpansion` | `flatten_modules`, `expand_module_call`, `expand_resource`, `DefaultGraphBuilder::build` | - |
| `LocalsSolver` | `check_cycle`, `tarjan_first_cycle`, `solve_locals`, the namespace of `evaluate` | - |
| `HclValues` | `Value`, operators and renderings of `reduce.rs` | - |
| `HclFunctions` | `FuncRegistry`, standard library, file functions | `HclValues` |
| `TerragruntFunctions` | the functions of `terragrunt/funcs.rs`, `build_func_registry` | `HclFunctions` |
| `Expressions` | `Expression`, `reduce_expression`, `substitute_inputs_in_expr`, canonical JSON | `TerragruntFunctions` |
| `Lowering` | `lower_body` and its limits, `project_component` | `Expressions` |
| `TerragruntConfig` | `FsTerragruntResolver::resolve` once the chain is known: merge of the blocks, `evaluate_locals`, the configuration | `Lowering` |
| `Evaluator` | composition: the Terragrunt configuration, then `HclEvaluator::evaluate`, expansion and rendering of the attributes | `TerragruntConfig` |
| `ProfileMap` | `load_yaml_profile_map`, `load_aws_config` | - |
| `WorkspaceIR` | the workspace that the later stages pass on | - |
| `ProviderResolver` | `resolve` of `provider/resolver.rs` | `ProfileMap`, `WorkspaceIR` |
| `GraphEdges` | `collect_edges_in_place` | `Expressions`, `WorkspaceIR` |
| `ResourceRows` | the rows of `resources.parquet`, sorted and cut into row groups | `WorkspaceIR` |
| `Tables` | row writers of the other three tables | `GraphEdges`, `ResourceRows` |
| `WorkspaceRun` | composition: edges, resolver, tables | `ProviderResolver`, `Tables` |
| `Discovery` | walk, probe, classification | - |
| `Loader` | `HclEditLoader::load` and the source map | `Discovery` |
| `Pipeline` | composition: `DefaultPipeline::run` over a changing tree | `Loader` |
| `MC...` | values of the constants for TLC | each its module |
| `..._proofs` (`ParquetExporter` with `ManifestVerify`, `IncludeCascade`, `ReadConfig`, `LocalsSolver`, `ModuleExpansion`, `ProviderResolver` with `ProfileMap`, `ResourceRows`, `Pipeline`) | theorems, section 5 | each its module, TLAPS |

How state and actions correspond to the code:

* **ParquetExporter.** A run is a call of `export`; `pc[r]` is its next system
  call. `file` and `partial` say whose inode a name refers to; `len` and `synced`
  belong to the inode, not to the name, so a run goes on writing to an inode that
  another run has renamed. `create_new` fails if the partial exists, unlink and
  rename fail if it does not; that failure is the phase "conflict". Errors clean
  nothing up, so `Abort` only ends the run. `PowerLoss` loses what was not fsynced;
  renames are taken as durable. A digest is the inode and how much of it was there: two runs are taken to write
  different bytes.
* **ManifestVerify.** One action reads the manifest, one reads each file, one
  gives the verdict; `vsame` remembers whether all files were the manifest's own
  when it was read.
* **IncludeCascade.** A frame of `stack` is a call of `resolve_include_chain`. What
  a file holds is chosen when it is first read, so one run of TLC covers all
  contents. A file's locals are abstracted to one name, bound to a scalar, list,
  map, expression, or not at all.
* **ReadConfig.** A frame is an evaluation of one file's locals and then inputs;
  `open` and `inflight` are the two fields of that purpose in the code. A value is
  the set of files that went into it. `Included` is what the cascade has read and
  parsed before, past the memo; `parses` counts the reads of both.
* **ModuleExpansion.** A frame is a module call with the instances left. `flat`,
  `combined` and `rows` are the vectors of the builder: what flattening found, what
  expanding made of it, and what is left once colliding addresses are dropped. Its two
  loops are actions per instance (`ExpandInstance`, `EndResource`) and per row
  (`DedupRow`). A multiplicity is an integer, which may be negative, or a list, of
  which the code counts every item and keeps the strings. One variable `x` stands for
  the inputs; the history fields `xmeans` and `means` carry what Terraform's semantics
  gives, and `passes` has the providers entry of each call around it.
* **LocalsSolver.** A frame of `calls` is a call of `strongconnect` with the edges
  left to walk, taken in any order because they come out of a `HashSet`. A value is
  the set of bindings that went into it.
* **Evaluator** and the modules below it. A value or expression is a tuple headed by
  its variant. Strings are sequences of tokens with an order; an integer has `Width`
  bits where `i64` has 64; a float is the exact ratio it stands for, with 0 over 0 for
  NaN. Reduction is an operator; an action is a phase of `evaluate` (lower, project,
  bind, one pass over the locals, reduce, expand). A panic is the phase "panicked".
* **TerragruntConfig.** A unit is the chain of parsed files with the locals that the
  cascade merged. The actions are the merge, the turn of one local, the end of a pass
  over them, and the construction of the configuration; `Evaluator` runs them between projection and
  binding, where the pipeline calls the resolver, and takes the locals and inputs from
  the result. A path is a sequence of components and `leads` is the file system: the
  canonical path of everything that exists. The text of a generated file is parsed by
  looking it up in `texts`. An included file is in the chain twice, as in the code.
* **ProfileMap, ProviderResolver, GraphEdges, ResourceRows, Tables.** One action per profile,
  component, resource or row. The profiles of an AWS configuration are taken in any
  order, as the code takes them from a `HashMap`. Roles of providers and the backend of
  a component occur only in workspaces that a caller of the library builds: the
  pipeline's own stages leave them out, the resolver reads them all the same. The
  path of a component is a sequence of segments; a `config_path` is joined to it,
  stripped of the root and rid of `.`, while `..` stays, as in `normalise_relative`.
* **Discovery, Loader, Pipeline.** An entry of the tree is walked, probed, examined and
  read in separate actions; `ChangeFile` is the user, who edits, breaks, grows or
  removes a file between any two. What a file declares is a set of block kinds. A
  diagnostic is a code and the file or directory it names. Each directory has a depth:
  the walk hands out one at `MaxDepth` and nothing that it holds. `WorkspaceShaped` says
  what a tree is: finitely many directories and entries, and a root that can be listed.

## 3. Runs

| Run | Checks | Shows |
|---|---|---|
| `exporter_exclusive` | `TypeOK`, `NoHalfWrittenFile`, `ManifestTellsSameRun`, `NoConflict`, `OkMeansOneRun`, `StartedRunEnds`, `PublishesRunByRun` | runs one after another, cut short anywhere, implement the abstract exporter; `verify` may run at any time |
| `exporter_shared` | `NeverVanishes` | what still holds when runs overlap |
| `include_cascade` | `IncludesAccountedFor`, `IncludedBeforeIncluder`, `ChildLiteralWins`, `BindingsSurvive`, `ResolveEnds` | the chain and its merge |
| `read_config` | `NothingLeaks`, `MemoHoldsWhatItCalled`, `LocalsSettle`, `ReadsEnd` | nested reads |
| `module_expansion` | `AddressesUnique`, `NothingDropped`, `InputsReachUnboundModules`, `ExplicitRefsRewritten` | expansion |
| `expansion_inputs` | `InputsReachModules`, violated | finding 1 |
| `locals_solver` | `CycleIffReported`, `SolvedIsClosure` | locals |
| `locals_participants` | `ParticipantsAreACycle`, violated | finding 2 |
| `evaluator` | `TruncationReported`, `ReduceIdempotent`, `LocalsAgree`, `NoGuess`, `SubstitutionFaithful`, `FunctionsBounded`, `ConfigFollowsChain` | a file from its syntax tree to the attributes of a row: limits are reported, reduction leaves nothing to reduce, neither the order of locals nor the moment of substitution shows, an unknown is never guessed, and what a component's own Terragrunt file declares is what its configuration holds |
| `evaluator_panic` | `NeverPanics`, violated | finding 3 |
| `workspace_run` | `MapMatchesChains`, `AccountFromNamedProvider`, `UnresolvedReported`, `EdgesAreReferences`, `RowsAllWritten`, `TablesAgree` | a workspace from the graph builder to the tables |
| `pipeline` | `DiscoveryOrderFree`, `EveryFileAccountedFor`, `OnlyLimitsFail`, `ComponentsSurvive` | one `parse` of a tree that changes meanwhile |

No run disables the deadlock check: every sequential model ends in an explicit
terminal stutter, and in the exporter's the machine may lose power at any time.

### Bounds

* **Exporter.** Two runs, one optional table or none, two writes per file. Two runs
  are an interrupted one and its successor, or an overlapping pair; the steps of a
  run name only the directory, not the other run. With two writes a file can be
  empty, torn or whole.
* **Cascade.** Three files, two includes per file, `MaxDepth = 2`: self-inclusion,
  cycles of two and three, a diamond, a chain that reaches the cap, each bad path
  next to a good one, each strategy, and each pair of binding kinds that the merge
  tells apart.
* **ReadConfig.** The component and three files, two calls per body, three passes
  (sixteen in the code): chains that settle within the cap and one that does not,
  cycles of one to three files, repeated and failing reads, and a file that is both
  included and read.
* **Expansion.** A component and four modules, two calls per body, depth cap 3,
  expansion cap 2, two keys of which one is not valid in an address: counts that are
  negative, below, at and above the cap, lists with two equal keys, with an item that
  is no string, and longer than the cap, colliding keys, cycles of one to three modules,
  a chain that exceeds the cap, and two sibling calls of different modules.
* **Locals.** Four locals. The graphs are all those in which two of them refer to
  at most two others and two to at most one; finding 2 needs four nodes. Stuck
  locals, the cascade's names and shadowing are added to chains and diamonds.
* **Evaluator.** `Width = 3`, so that every operator meets both ends of the integers.
  All pairs of operands for every operator, all lists of at most two of 15 arguments for
  every function, three locals of eight forms each in every combination, and one file
  with every structure under all limits from too small to ample. Terragrunt: chains of
  one or two included files and the component's own, each `config_path` written in six
  ways over four file trees (nearest of two, a link out of the root, a link inside, only
  above the root), locals that settle and one that `MaxPasses = 2` (sixteen in the code)
  cuts off, and every pair of bodies with inputs, generated files and backends.
* **Workspace.** Three profiles with every way of naming one another and `MaxHops = 2`;
  two components with an address in common, one through a module; a reference in each
  place of an expression; dependencies on a sibling (`../net`), on `.`, on absolute paths
  inside and outside of the root, and on text that is refused; row groups of three rows
  or seven bytes, so that both cuts and a remainder occur.
* **Pipeline.** Trees of at most five entries (six where the limit is to be
  exceeded), one of them with a file below `MaxDepth = 2`, walked in every order, and at
  most `MaxChanges = 2` changes of files: one between any two steps, and a second that
  undoes or aggravates it.

Mutants of the models, kept beside the definitions they change and marked
`Wrong:`, show that each property can fail: each changes one definition the way a
slip in that code would.

### Fairness

Everything that has a liveness property runs in one thread that waits for nobody,
so weak fairness of "what the code does next" is all that is assumed: per run in
the exporter (`Fairness`), of the verifier's steps (`VerifySpec`), and of the single
next step in `IncludeCascade` and `ReadConfig`. Starting a run, aborting it and losing
power are never fair. The other specifications state no fairness and are checked for
safety only.

## 4. Findings

1. `expansion_inputs`: a module's variable that has a default keeps it whatever the
   call passes, because modules are evaluated before their calls are expanded
   (`core/eval/component.rs:237`; `specs/15-resource-graph.md:57`).
2. `locals_participants`: `tarjan_first_cycle` (`core/eval/locals.rs:161-183`) merges the
   lowlink of nodes it did not visit. With `a -> b`, `b -> {c, d}`, `d -> d`, taking `d`
   before `c`, it reports `{a, b}`, neither of which is in a cycle; with the other order,
   `{d}`. The order is that of a `HashSet`.
3. `evaluator_panic`: `%` on integers guards against a zero divisor only, and
   `rem_euclid` of the least `i64` by -1 panics (`core/eval/reduce.rs:390`;
   `specs/70-security.md:125`).

Seen while modelling, without a run of their own. In the first group the models do what
the code does, and the property named claims no more than that:

* `EveryFileAccountedFor`: below `max_depth` the walker stops silently
  (`core/discovery/fs_walker.rs:319`). A directory at the limit is listed, and classified
  as a module if a glob matches it, without its files (`specs/11-discovery.md:118` asks
  for an error).
* `DiscoveryOrderFree`: files of a directory stay in the order of `readdir`
  (`fs_walker.rs:208`) and are loaded in it, so that two discoveries of one tree may
  differ (`specs/11-discovery.md:116`; `specs/12-hcl-loader.md:109` states an order).
* `MemoHoldsWhatItCalled`: the include cascade reads its files past the memo
  (`core/terragrunt/resolver.rs:399`); one that is included and also read is parsed twice
  (`specs/14-terragrunt.md:143`).
* The same property leaves out what a cycle of reads gives. The cycle check compares by
  address with a fresh allocation (`resolver.rs:1158`) and never fires. The in-flight set
  ends the cycle with the fallback (1172), and the caller's result, built on it, is
  memoised (1230) for reads that are in no cycle (`specs/14-terragrunt.md:142` asks for an
  error).
* `ExplicitRefsRewritten`: a `providers` entry of a nested call is taken as written
  (`core/graph/expand.rs:339`). A module that was passed an alias and passes its default
  provider on sends the inner module's resources to the component's default, not to the
  alias (`specs/99-key-decisions.md:100`).
* `UnresolvedReported`: only the profile of a block that some resource resolves to is
  looked up, and not beside a role that names the account
  (`core/provider/resolver.rs:274`); strict mode succeeds with a missing profile in any
  other block (`resolver.rs:45`, `core/pipeline.rs:145`: "any referenced profile").
* `EdgesAreReferences`: an edge between resources of one module, explicit
  (`core/graph/expand.rs:564`) or implicit (`edges.rs:275`), keeps the address the target
  has inside of the module, which no row has (`specs/15-resource-graph.md:125`). And `..`
  stays in the target of a Terragrunt dependency (`edges.rs:168`, `resolver.rs:849` of
  `core/terragrunt/`): `component.app/../net` is the address of no component
  (`core/ir/edge.rs:37`, `specs/15-resource-graph.md:95`).
* `PublishesRunByRun`, for runs that follow one another only: outputs are tested for
  existence once, before anything is written (`core/exporter/writer.rs:251`), so that of
  two overlapping runs without `--overwrite` the later replaces the files of the first
  (`core/exporter/mod.rs:16`).

Others:

* `no_merge` does not keep a parent out: its body is pushed once more as the tail of its
  own sub-chain (`core/terragrunt/resolver.rs:431-444`; `specs/14-terragrunt.md:62`).
* A child's expression loses to a literal further out (`resolver.rs:562-578`; the comment
  at 469 says the child overrides by name).
* The pass cap on locals ends the passes without a diagnostic (`resolver.rs:598`), and
  what is left then is an expression.
* An item of a `for_each` list that is no string is counted and gets no instance, without
  a diagnostic (`core/graph/expand.rs:485`, 859).
* A resource without a `provider` does not follow the call's provider map
  (`core/graph/expand.rs:550`; `specs/15-resource-graph.md:58`).
* While locals are solved a name bound by both the Terragrunt cascade and the component
  is the cascade's, while resources later see the component's (`component.rs:146`);
  `LocalsAgree` is stated for components without such a name, and `SolvedIsClosure`
  states what is computed with one.
* A backend that Terragrunt gives is resolved on the cascade, while the state columns of
  the rows are read from `component.state_backend` (`core/exporter/writer.rs:712`;
  `specs/14-terragrunt.md:123`), so they stay empty.
* The kind of a backend is always `s3` and its labels become an attribute: the loader
  lowers labels to an array (`core/loader/lowering.rs:529-532`), the extractor looks for
  a literal list (`resolver.rs:937`; the comment at 924-926 says the first label gives the
  kind).
* The backend is taken from the blocks as merged, not as reduced (`resolver.rs:881`), so
  text that a local would have completed is left out of a generated backend.
* `mock_outputs` whose entries are all literals are a value by the time they are looked
  for and get lost (`resolver.rs:852`; `specs/14-terragrunt.md:133`); `remote_state` is
  projected and never read (`specs/14-terragrunt.md:34`).
* `active_include` is set on the way down the chain and never reset
  (`resolver.rs:410`), against the comment at `core/terragrunt/funcs.rs:36-38`, so that the component's
  own expressions see the last include read. `path_relative_from_include` is `.` for
  every include above the component (`funcs.rs:314`), and `find_in_parent_folders` starts
  at the component also where an included file calls it (`funcs.rs:173`).
* `try` with an argument that has no value stays unreduced, its fallback unused
  (`funcs.rs:346`).
* A file that cannot be read when it is probed is only logged, and its directory may
  then be "other" and never loaded (`core/discovery/fs_walker.rs:351`); a
  `terragrunt.hcl` removed before its stage gives no diagnostic (`core/pipeline.rs:280`).
* With `follow_symlinks` the walk lists linked files, and the loader then refuses each
  of them with a diagnostic (`core/loader/traits.rs:282`).
* Diagnostics of the evaluator are added by the builder and by the pipeline and appear
  twice (`core/graph/builder.rs:157`).
* TF1602 is issued once per alias, not per component (`core/provider/resolver.rs:176`).
* When runs overlap in one directory a reader can see a half-written file, since the
  second run's partial may be renamed by the first; what the documentation promises is
  about crashes (`specs/20-parquet-exporter.md:108`).
* A module found by walking has `call_count` 0 in `modules.parquet`: its key is its path,
  that of a call the text of `source` (`core/exporter/secondary.rs:424-443`).
  `TablesAgree` compares the sum over all modules and does not show it.
* A file above the size limit is skipped with a diagnostic, as `specs/11-discovery.md`
  describes in its section 3.1; the invariant at line 118 of the same file asks for an
  error.
* The pipeline's arm for a failed Terragrunt resolution (TG2001, `pipeline.rs:283`)
  cannot be reached with `FsTerragruntResolver`, which reports instead of failing; the
  model keeps the reporting path.

## 5. Proofs

Each theorem holds for every value of the constants that meets the assumptions of its
module, and states a property that a run checks too. What the assumptions say is what
the code gives: paths are distinct, caps are positive, the marks that stand for "nothing"
are no values, and whatever a file may hold has the shape of a parsed file (`...Shaped`).
TLC evaluates them in every run. Of these properties `OnlyLimitsFail` alone is inductive
as it stands; for the others each module strengthens the property to an invariant that
says what the steps rely on.

**`ParquetExporter_proofs`.**

* `TypeCorrect`: `Spec => []TypeOK`, overlapping runs included. `HashFile` and `StatFile`
  read `file[cur[r]]`, whose content is only defined if the name exists: `TypeInv` adds
  `Present`, a run that reads a file back has published it, and no step removes a name.
* `NamesStay`: `Spec => NeverVanishes`, the action property, from the same.
* With `Exclusive` (runs follow one another, however each ends): `FilesAreWhole`,
  `LeftoversNeverConflict`. `AloneInv` says that at most one run is live and that from
  `create` to `rename` the partial is its own, whole when the rename comes. `StepIsAlone`:
  only the live run takes code steps.
* With `Exclusive`: `ManifestTells`. `PublishInv` adds, per run, which tables are done and
  which are to come (`LoopInv`), that what it published has not been replaced
  (`OwnFiles`, `Unreplaced`) and that its digests are those of what it wrote (`Digests`),
  and of the manifest in place that its run publishes nothing more (`Finished`,
  `Recorded`).
* With `Exclusive`: `ExporterPublishes`, the refinement. Initial states map to initial
  states; a code step maps to a publication of the abstract exporter (rename) or a
  stutter, a crash to a crash.

The same module, of `ManifestVerify`. `VerdictIsSound`: with `Exclusive`,
`VerifySpec => []OkMeansOneRun`. `verify` hashes file by file while a run may replace them.
`VerifyInv`: a path that was not the manifest's own when it was read still is not, since a
finished run publishes nothing and digests name their writer, so it will be counted
or has been.

**`IncludeCascade_proofs`.** `NoIncludeIsLost`, `ParentsFirst`, `ChildHasLastWord`,
`BoundStaysBound`, for any include graph, any depth cap and any strategies. `CascadeInv`:
a file that was read has one place, a frame of the recursion or the chain of one frame
(`PlaceInv`), so splicing chains neither loses nor doubles it; the includes a frame is
past are reported or visited and, if they were read, in its chain or the frame above it
(`DoneInv`), which with `Before` gives the order; in the load phase the chain accounts
for all files (`ChainInv`) and the accumulator for the entries merged so far
(`MergeInv`).

**`ReadConfig_proofs`.** `NothingLeaksOut`, `MemoIsComplete`, `LocalsReachFixpoint`, for any
files that read one another. `ReadInv`: each frame waits for the file of the frame above it
and has not been answered (`Awaits`), the stack and the in-flight set are the files of the
frames, the function parsed a file once if it is in flight or memoised and not at all
otherwise, whatever the cascade read before (`StacksInv`); what
a call was answered with is in the memo or on its way, and reached the value of the
entry (`AnswersInv`, `CallsKept`); what a pass puts off cannot be reduced unless something
was resolved since (`Passing`), which is the fixpoint once a pass makes no progress.

**`LocalsSolver_proofs`.** `LocalsTypeCorrect`, `CycleCheckIsRight`, `PassesReachClosure`,
for any number of locals, whatever they refer to and in whatever order edges are walked.
Reachability is the least set closed under the edges, so that no path has to be counted.

* `CheckInv`, the correctness of Tarjan's algorithm as the code has it: the stack is
  in the order of the indices and holds the nodes of the calls under way (`StackShape`); a node stays on the stack while it leads back to a call under way
  (`LeadsBack`), on the stack an earlier node leads to every later one (`LeadsOn`), a
  lowlink is the index of a node it leads to (`LowIsIndex`) and takes notice of every edge
  walked (`EdgesWalked`), and what left the stack is in no circle and leads only to what
  left it before (`LeftIsAcyclic`). So something is reported exactly if some local
  refers to itself in a circle.
* `SolveInv`: what was substituted is bound and brought in everything it stands for
  (`Substituted`); before the cursor of a pass without progress, a local that has a value
  and is no literal yet waits for one that is none either (`Waiting`). In a graph
  without circles such a chain ends, so a full pass makes a literal of one more local
  (`PassInv`), and the code's bound of one pass more than there are locals cuts nothing off.

**`ModuleExpansion_proofs`.** `RowsHaveTheirOwnAddress`, `NoCallIsDropped`, `InputsReach`,
`RefsAreRewritten`, for any call graph and caps. `ExpansionInv`: every call of an expanded
instance is answered or a frame is at it or before it (`CallsInv` with `LinkInv`); a
resource of an expanded instance has a row in one of the three vectors or a diagnostic
(`DropInv`, and `TurnInv` for the row at the cursor); what a frame carries down is what
Terraform's semantics gives as long as no module called so far binds the variable, and
for providers as long as none that was passed an alias passes its own default on
(`FrameGood`, `RowGood`); beyond that the theorem still says which entry it is. Bodies are chosen when first read, so these
conditions only get harder to meet (`ConditionsShrink`, `GoodStays`).

**`Pipeline_proofs`.** `FilesNeverFailTheRun`, `FilesAccountedFor`, `ComponentsKept`,
`WalkOrderDoesNotMatter`, for any tree, limits (that on depth included), options and strict mode, and whatever the
user does to the tree between two steps. `Shape` is type correctness, one conjunct per
stage; `FilesInv` rests on it, `ComponentsInv` and `OrderInv` on both.

* `FilesInv`: while the tree is walked, a file the property is about is still to be seen,
  among the files of its directory, reported or gone (`FilesFound`); while it is
  loaded, it is ahead of the loader (`Ahead`) or in a loaded component or reported
  (`Handled`). `Growing`: no later step takes back a report, a loaded block or the fact
  that a file went missing, so what was settled in one stage is settled in the next.
* `ComponentsInv`: what discovery found is the queue and the components loaded from it
  (`LoadedWhole`), evaluation has those it did and those it has yet to do in order
  (`EvaluatedWhole`), and the registry and the workspace have what was evaluated.
* `OrderInv`: what the walk counted, grouped and classified is a function of the set of
  entries handed out, not of their order (`FilesTaken`, `KindsTaken`, `Counted`, and
  `DiagsTaken` for the diagnostics), and when none is left that set is the eligible part of the
  tree (`TodoDone`). The order within a directory is left open, as in the code.
* The lemmas underneath are on path order (it is total, so a sorted sequence is
  determined by its set), on the elements a filter of a sequence picks, and on flattened
  sequences.

**`ProviderResolver_proofs`**, of `ProfileMap`. `MapIsRight`: `ProfileMapSpec => []MapMatchesChains`, in whatever
order the profiles are taken and for any limit on the hops. `ProfileInv` adds type
correctness, that a walk under way stands where its chain stands, has visited exactly the
profiles before it, none of which names an account, and carries the nearest region so far
(`Underway`); and that a profile whose walk ended has the entry its chain gives
(`Settled`). Chains are functions defined by recursion on the number of hops; that
they exist, and that one which comes back to a profile stays among those it passed
(`ChainTurns`), is shown by least counterexample.

The same module, of `ProviderResolver`. `AccountsAsNamed`, `UnknownProfilesReported`, for any profile
file, any mode and any workspace in which nothing is resolved yet (`HandedOn`: the
fields are there, and no backend has an account, as in what the graph builder
builds). They are about `ResolverSpec`, the resolver with the stages before and after it
reduced to what they do to its state (`StageBefore`, `StagesAfter`), because
`WorkspaceRun` reaches RECURSIVE operators. `EdgeStep` and `TableStep` of `WorkspaceRun` have
these two as conjuncts and its `Init` has `HandedOn`, so that every behaviour of `WorkspaceRun`
is one of `ResolverSpec`, and both properties hold of it. `ResolverInv`: a component the
resolver has not come to is as it was handed on (`AheadInv`), one it has been through has
accounts only from where it may (`NamedInv`), and the profiles noted are those that the
components so far rely on in vain (`UnknownInv`), which is less than those their source
names (section 4); the map no longer changes once anything
is resolved (`StagesInv`). `ResolvedKeeps`: resolving changes neither what a component
relies on nor its providers. `AscendingLists`: counting smaller elements lists a
finite set in order, each element once.

**`ResourceRows_proofs`.** `EveryRowIsWritten`, for any number of components and rows and any
limits of a row group. It is about `RowsSpec`, the writer with the stages before and after it
reduced to what they do to its state, as `ResolverSpec` is for the resolver: `EdgeStep` and
`ResolveStep` of `WorkspaceRun` have `StagesBeforeRows` as a conjunct, the steps of the other
tables have `StageAfterRows`, and since the steps they restrict have one outcome each, the
deadlock check shows that these conjuncts block nothing. `RowsInv`: the groups and the rows
pending, joined, are the rows of the components before the current one and the first
`emitted` of that one (`Written`), wherever the groups were cut. `FlattenAppend` and the
lemmas around it say what the library's fold over a list of lists is, by least
counterexample. `SortingKeepsRows`: `SortedRows` is a bijection of a component's rows in the
order of their addresses, and rows of one address keep their order; it assumes that the
addresses have places in that order (`Ranked`).

**Only model-checked.**

* Liveness (`StartedRunEnds`, `ResolveEnds`, `ReadsEnd`): TLAPS does not handle ENABLED.
* The properties of `evaluator` (`Evaluator` and `TerragruntConfig`) and `EdgesAreReferences`
  and `TablesAgree` of `workspace_run`. The modules they are about reach `HclFunctions`,
  `TerragruntFunctions`, `Expressions` and `Lowering`, whose operators are RECURSIVE over
  values, expressions and paths; what those compute is an induction over data.
* The properties that are violated (section 4): a counterexample settles them.

## 6. Hazards

The list, each at its line and with the properties that cover it, is in
`PROJECT.json`. In short: interleaved runs and crashes between any two system calls
(exporter); files edited between walk, probe, size check and read (pipeline);
recursion whose bookkeeping must be undone on every way out (cascade, reads, expansion,
Tarjan, profile chains); caps and pass bounds, and what they cut; multiplicities at zero, below it and above the cap; values that are
evaluated before what they depend on is known (module defaults, memoised results,
shadowed locals, substituted inputs); orders that come from a file system or a hash
table; and partial failures that must neither lose siblings nor stay unreported.

## 7. Plan

Modelled so far, the most important behaviour first: the exporter with its abstract
specification and `verify`; cascade, reads, expansion and locals; expressions,
functions, lowering, projection and the Terragrunt configuration; profile map, resolver, edges and tables; discovery,
loader and the composition of the pipeline.

Proofs: every safety property and action property that a run shows to hold in a module
without RECURSIVE operators is a theorem. What could follow is a second version of reduction as a recursive
function over the depth of an expression; it would bring `EdgesAreReferences` into a
module that can be proved about, but not the induction it needs.

A model to come, where it fits: the merge of `.tfvars`. A property to come: the exact
level at which the depth caps of the cascade and of the walk cut.

## 8. Not modelled

* A call of `read_terragrunt_config` inside `TerragruntConfig`: reads nest, and have
  their own model in `ReadConfig`. The chain of includes that `TerragruntConfig` starts
  from, and the merge of its locals, are `IncludeCascade`'s.
* `jsonencode`, `jsondecode`, `base64encode`, `base64decode`, `sha256`, `sha512` and
  `formatdate`: one string to another, with the size check the others share.
* Rounding of floats, the text of numbers in scientific notation, Unicode beyond a token
  per character.
* `core/eval/adapter.rs`, a pair of conversions to another value type that no stage calls.
* The Arrow schema and the layout of columns, source positions, serialisation of the IR,
  command-line parsing, tracing.
* Calls of `read_terragrunt_config` in the attributes of a `generate` or `dependency`
  block or in the path of an `include`; `ReadConfig` has those in locals and inputs.
* A workspace root that exists but cannot be listed.
* Glob and ignore rules, which a library evaluates; they are the set of excluded entries.
