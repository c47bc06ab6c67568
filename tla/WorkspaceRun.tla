---------------------------- MODULE WorkspaceRun ----------------------------
(***************************************************************************)
(* The second half of a run, composed: the profile map is loaded, edges    *)
(* are inferred at the end of the graph builder, the provider resolver     *)
(* fills in accounts and regions, and the tables are written               *)
(* (crates/core/src/pipeline.rs, parser.rs, exporter/writer.rs).           *)
(***************************************************************************)
EXTENDS ProviderResolver, Tables

CONSTANT Inputs   \* records of a workspace, as module expansion hands it on, and a file

vars == <<ws, stage, at, edges, profileVars, resolverVars, tableVars>>

Init ==
  /\ \E input \in Inputs : ws = input.ws /\ file = input.file /\ strict = input.strict
  /\ stage = "edges" /\ at = 1 /\ HandedOn
  /\ ProfileMapInit
  /\ ResolverInit
  /\ EdgesInit
  /\ TablesInit

\* The parser is built, with its profile map, before it runs.
LoadStep ==
  /\ ProfileMapNext
  /\ UNCHANGED <<ws, stage, at, edges, resolverVars, tableVars>>

\* To the resolver the edges are a stage before it, the tables one after it, and to
\* the writer of the rows both are stages before it: every step of a run is a step
\* of ResolverSpec and one of RowsSpec.
EdgeStep ==
  /\ CollectEdges \/ EdgesDone
  /\ StageBefore /\ StagesBeforeRows
  /\ UNCHANGED tables

ResolveStep ==
  /\ ResolveComponent \/ ReportUnresolved \/ NoProfileMap
  /\ StagesBeforeRows
  /\ UNCHANGED <<edges, tables>>

TableStep ==
  /\ \/ (EmitRow \/ NextComponent \/ FinishRows) /\ UNCHANGED tables
     \/ (WriteDependencies \/ WriteComponents \/ WriteModules) /\ StageAfterRows
  /\ StagesAfter
  /\ UNCHANGED edges

Step == LoadStep \/ EdgeStep \/ ResolveStep \/ TableStep

Terminated == stage \in {"done", "failed"} /\ UNCHANGED vars

Next == Step \/ Terminated

Spec == Init /\ [][Next]_vars

=============================================================================
