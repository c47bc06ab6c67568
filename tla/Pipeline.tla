------------------------------ MODULE Pipeline ------------------------------
(***************************************************************************)
(* One `parse` from the root directory to the workspace                    *)
(* (crates/core/src/pipeline.rs, parser.rs): discovery, loading,           *)
(* projection, terragrunt, evaluation, the graph and the providers, in     *)
(* that order, over files that may change meanwhile.  What each stage      *)
(* computes is in the module of that stage; here is what it hands on, what *)
(* it reports and when it gives up.                                        *)
(*                                                                         *)
(* A tree has three more fields: cyclic (directories whose locals, if      *)
(* loaded, are cyclic), strict (the option) and unresolved (the provider   *)
(* resolver would leave an account out).                                   *)
(***************************************************************************)
EXTENDS Loader

CONSTANTS
  CallerVars,       \* variables given on the command line
  TerragruntInputs  \* variables a terragrunt configuration gives

VARIABLES
  terragrunt,  \* directory -> "none", "empty" or "full"
  reading,     \* a terragrunt.hcl was found there and is about to be read
  pending,     \* the directories of the stage at work, in order
  given,       \* directory -> variable -> who gave its value
  evaluated,   \* directories in the order they were evaluated
  registry,    \* modules a call can be expanded with
  found,       \* evaluation diagnostics of each directory
  workspace    \* what is returned

pipelineVars == <<terragrunt, reading, pending, given, evaluated, registry, found, workspace>>
vars == <<discoveryVars, loaderVars, pipelineVars>>

NoWorkspace == [components |-> << >>, modules |-> << >>, resources |-> << >>, diagnostics |-> << >>]

Init ==
  /\ DiscoveryInit /\ LoaderInit
  /\ terragrunt = [d \in tree.dirs |-> "none"]
  /\ reading = FALSE
  /\ pending = << >>
  /\ given = [d \in tree.dirs |-> << >>]
  /\ evaluated = << >>
  /\ registry = {}
  /\ found = [d \in tree.dirs |-> << >>]
  /\ workspace = NoWorkspace

\* The elements of a list at some of its places, in their order.
Picked(list, places) ==
  LET order == InPathOrder(places) IN [k \in DOMAIN order |-> list[order[k]]]

OfKind(dirs, kind) == Picked(dirs, {k \in DOMAIN dirs : kinds[dirs[k]] = kind})
Modules == OfKind(loaded, "module")
Components == OfKind(loaded, "component")

-----------------------------------------------------------------------------
(* Terragrunt, component by component.                                      *)

\* Everything is loaded; projection keeps every component and changes no file.
StartTerragrunt ==
  /\ phase = "load" /\ queue = << >>
  /\ phase' = "terragrunt"
  /\ pending' = Components
  /\ UNCHANGED <<tree, disk, changes, unseen, seenDirs, groups, totalFiles, diags, todo, kinds>>
  /\ UNCHANGED loaderVars
  /\ UNCHANGED <<terragrunt, reading, given, evaluated, registry, found, workspace>>

TerragruntFiles(d) == {e \in tree.entries : tree.dir[e] = d /\ tree.ext[e] = "terragrunt"}

\* is_terragrunt_component looks again, and at every file, excluded or not.
IsTerragruntComponent(d) == \E e \in TerragruntFiles(d) : tree.type[e] # "special" /\ disk[e].there

TestTerragrunt ==
  /\ phase = "terragrunt" /\ pending # << >> /\ ~reading
  /\ IF IsTerragruntComponent(Head(pending))
       THEN reading' = TRUE /\ UNCHANGED pending
       ELSE pending' = Tail(pending) /\ UNCHANGED reading
  /\ UNCHANGED <<discoveryVars, loaderVars>>
  /\ UNCHANGED <<terragrunt, given, evaluated, registry, found, workspace>>

\* Wrong: a configuration that cannot be read takes its component with it.
Unreadable_Drops(d) == loaded' = SelectSeq(loaded, LAMBDA x : x # d)

\* `resolve` never fails: a file gone by now gives an empty configuration and
\* no word of it, one that does not parse an empty one and the parser's word.
Unreadable(d) == UNCHANGED loaded

ResolveTerragrunt ==
  /\ phase = "terragrunt" /\ reading
  /\ LET d == Head(pending)
         f == CHOOSE e \in TerragruntFiles(d) : TRUE
         code == IF disk[f].size > MaxFileSize THEN "TF1201" ELSE IF ~disk[f].text THEN "TF1202" ELSE "TF1203"
     IN  IF disk[f].there /\ disk[f].size <= MaxFileSize /\ disk[f].text /\ disk[f].parses
           THEN terragrunt' = [terragrunt EXCEPT ![d] = "full"] /\ UNCHANGED <<diags, loaded>>
           ELSE /\ terragrunt' = [terragrunt EXCEPT ![d] = "empty"]
                /\ Unreadable(d)
                /\ IF disk[f].there THEN Put(code, f) ELSE UNCHANGED diags
  /\ reading' = FALSE
  /\ pending' = Tail(pending)
  /\ UNCHANGED <<tree, disk, changes, phase, unseen, seenDirs, groups, totalFiles, todo, kinds>>
  /\ UNCHANGED <<queue, position, statted, raws, sources>>
  /\ UNCHANGED <<given, evaluated, registry, found, workspace>>

-----------------------------------------------------------------------------
(* Evaluation: the modules, for the registry, then the components.          *)

StartEvaluation ==
  /\ phase = "terragrunt" /\ pending = << >>
  /\ phase' = "evaluate"
  /\ pending' = Modules \o Components
  /\ UNCHANGED <<tree, disk, changes, unseen, seenDirs, groups, totalFiles, diags, todo, kinds>>
  /\ UNCHANGED loaderVars
  /\ UNCHANGED <<terragrunt, reading, given, evaluated, registry, found, workspace>>

\* The terragrunt inputs of a component, under what the caller gives.
RepoVars(d) ==
  LET inputs == IF terragrunt[d] = "full" THEN TerragruntInputs ELSE {}
  IN  [v \in inputs \cup CallerVars |-> IF v \in CallerVars THEN "caller" ELSE "terragrunt"]

\* `evaluate` never fails: a cycle in the locals is reported.
CycleReport(d) ==
  IF d \in tree.cyclic /\ \E k \in DOMAIN raws[d] : raws[d][k][2] = "locals" THEN <<<<"TF1401", d>>>> ELSE << >>

EvaluateNext ==
  /\ phase = "evaluate" /\ pending # << >>
  /\ LET d == Head(pending) IN
       /\ given' = [given EXCEPT ![d] = RepoVars(d)]
       /\ found' = [found EXCEPT ![d] = CycleReport(d)]
       /\ diags' = diags \o CycleReport(d)
       /\ registry' = IF kinds[d] = "module" THEN registry \cup {d} ELSE registry
       /\ evaluated' = Append(evaluated, d)
  /\ pending' = Tail(pending)
  /\ UNCHANGED <<tree, disk, changes, phase, unseen, seenDirs, groups, totalFiles, todo, kinds>>
  /\ UNCHANGED loaderVars
  /\ UNCHANGED <<terragrunt, reading, workspace>>

-----------------------------------------------------------------------------
(* The graph and the providers.                                             *)

RowKinds == {"resource", "data"}
RowsOf(d) == Picked(raws[d], {k \in DOMAIN raws[d] : raws[d][k][2] \in RowKinds})

\* The builder keeps the components, by path, and reports what their
\* evaluation found; the run then adds all it has reported itself.
BuildWorkspace ==
  /\ phase = "evaluate" /\ pending = << >>
  /\ LET kept == InPathOrder({evaluated[k] : k \in {k \in DOMAIN evaluated : kinds[evaluated[k]] = "component"}})
         again == [k \in DOMAIN kept |-> found[kept[k]]]
     IN  workspace' = [components  |-> kept,
                       modules     |-> OfKind(evaluated, "module"),
                       resources   |-> FlattenSeq([k \in DOMAIN kept |-> RowsOf(kept[k])]),
                       diagnostics |-> FlattenSeq(again) \o diags]
  /\ phase' = "providers"
  /\ UNCHANGED <<tree, disk, changes, unseen, seenDirs, groups, totalFiles, diags, todo, kinds>>
  /\ UNCHANGED loaderVars
  /\ UNCHANGED <<terragrunt, reading, pending, given, evaluated, registry, found>>

\* The resolver fails only when it is strict; the workspace goes with it.
ResolveProviders ==
  /\ phase = "providers"
  /\ IF tree.strict /\ tree.unresolved
       THEN phase' = "failed" /\ workspace' = NoWorkspace
       ELSE phase' = "done" /\ UNCHANGED workspace
  /\ UNCHANGED <<tree, disk, changes, unseen, seenDirs, groups, totalFiles, diags, todo, kinds>>
  /\ UNCHANGED loaderVars
  /\ UNCHANGED <<terragrunt, reading, pending, given, evaluated, registry, found>>

DiscoveryStep == (OpenRoot \/ WalkStep \/ EndWalk \/ ClassifyDir) /\ UNCHANGED loaderVars

Step ==
  \/ (DiscoveryStep \/ LoaderStep) /\ UNCHANGED pipelineVars
  \/ StartTerragrunt \/ TestTerragrunt \/ ResolveTerragrunt
  \/ StartEvaluation \/ EvaluateNext
  \/ BuildWorkspace \/ ResolveProviders

UserStep == ChangeFile /\ UNCHANGED <<loaderVars, pipelineVars>>

Terminated == phase \in {"done", "failed"} /\ UNCHANGED vars

Next == Step \/ UserStep \/ Terminated

Spec == Init /\ [][Next]_vars

-----------------------------------------------------------------------------
(* Properties.                                                              *)

Reported(f) == \E k \in DOMAIN workspace.diagnostics : workspace.diagnostics[k][2] = f
Used(f) == f \in sources /\ \A kind \in disk[f].declares : \E d \in tree.dirs : \E k \in DOMAIN raws[d] : raws[d][k] = <<f, kind>>

(* Every source file above the depth limit, in a directory that was taken  *)
(* for a component or a module, is used, block by block, or the workspace  *)
(* says why not, however the files change while the loader works and       *)
(* whichever of its checks sees it first (only one removed before the walk *)
(* came to it is missed).  Of what lies deeper the walk says nothing.      *)
EveryFileAccountedFor ==
  phase = "done" =>
    \A e \in {e \in tree.entries : Visible(e) /\ tree.ext[e] \in HclExts} :
      kinds[tree.dir[e]] \in {"component", "module"} =>
        \/ Used(e) \/ Reported(e)
        \/ ~disk[e].there /\ e \notin FilesOf(tree.dir[e])

(* Nothing that happens to a file ends the run: it fails only when there   *)
(* is no root, there are more files than the limit, or the caller asked    *)
(* for strict providers.                                                   *)
OnlyLimitsFail ==
  phase = "failed" => ~tree.exists \/ totalFiles > MaxTotalFiles \/ tree.strict

(* The workspace of a run that succeeds has every component discovery      *)
(* found, once, in path order, with all its resource blocks that were      *)
(* loaded; its modules were all evaluated before any component was.        *)
ComponentsSurvive ==
  phase = "done" =>
    /\ workspace.components = InPathOrder(DirsOfKind("component"))
    /\ registry = DirsOfKind("module")
    /\ \A i, j \in DOMAIN evaluated :
         kinds[evaluated[i]] = "module" /\ kinds[evaluated[j]] = "component" => i < j
    /\ {workspace.resources[k] : k \in DOMAIN workspace.resources}
         = {b \in UNION {{raws[d][k] : k \in DOMAIN raws[d]} : d \in DirsOfKind("component")} : b[2] \in RowKinds}

=============================================================================
