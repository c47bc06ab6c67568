---------------------------- MODULE ResourceRows ----------------------------
(***************************************************************************)
(* The rows of resources.parquet (crates/core/src/exporter/writer.rs): a   *)
(* row for everything a component declares, in the order of the addresses, *)
(* collected and cut into row groups.  How the file reaches the disk is    *)
(* module ParquetExporter.                                                 *)
(*                                                                         *)
(* A row keeps the columns below; the text columns and the position in the *)
(* source are left out.  ws.order gives the place of an address in the     *)
(* order of their text, module path first.                                 *)
(***************************************************************************)
EXTENDS WorkspaceIR, FiniteSets, SequencesExt

CONSTANTS RowGroupRows, RowGroupBytes   \* limits of a row group

ASSUME RowGroupLimits == RowGroupRows \in Nat \ {0} /\ RowGroupBytes \in Nat \ {0}

VARIABLES
  builders,   \* the rows appended since the last flush
  groups,     \* the row groups written
  emitted,    \* rows of the current component appended
  total       \* the row count that goes into the manifest

rowVars == <<builders, groups, emitted, total>>

RowsInit ==
  /\ builders = << >>
  /\ groups = << >>
  /\ emitted = 0
  /\ total = 0

-----------------------------------------------------------------------------
(* Rows.                                                                    *)

Empty == "none"

RowFor(c, kind, addr) ==
  [path |-> c.path, kind |-> kind, addr |-> addr, provider |-> << >>, account |-> Empty,
   region |-> Empty, deps |-> << >>, stateAccount |-> Empty, stateRegion |-> Empty]

\* The state columns come from the backend of the component, not from the one
\* terragrunt has for it.
ResourceRow(c, r) ==
  [RowFor(c, r.kind, r.addr) EXCEPT
     !.provider = r.ref, !.account = r.account, !.region = r.region, !.deps = r.deps,
     !.stateAccount = IF IsSome(c.backend) THEN c.backend[1].account ELSE Empty,
     !.stateRegion = IF IsSome(c.backend) THEN c.backend[1].stateRegion ELSE Empty]

ProviderRow(c, p) ==
  RowFor(c, "provider", <<"provider", p.local>> \o (IF p.alias = Empty THEN << >> ELSE <<p.alias>>))

ModuleCallRow(c, m) == RowFor(c, "module", m.addr)
VariableRow(c, v) == RowFor(c, "variable", <<"var", v.name>>)
LocalRow(c, l) == RowFor(c, "local", <<"local", l.name>>)
OutputRow(c, o) == RowFor(c, "output", <<"output", o.name>>)

RowsOf(c) ==
  [k \in 1..Len(c.resources) |-> ResourceRow(c, c.resources[k])]
    \o [k \in 1..Len(c.providers) |-> ProviderRow(c, c.providers[k])]
    \o [k \in 1..Len(c.modules) |-> ModuleCallRow(c, c.modules[k])]
    \o [k \in 1..Len(c.variables) |-> VariableRow(c, c.variables[k])]
    \o [k \in 1..Len(c.locals) |-> LocalRow(c, c.locals[k])]
    \o [k \in 1..Len(c.outputs) |-> OutputRow(c, c.outputs[k])]

\* sort_by is stable: rows of one address keep their order.
Rank(row) == ws.order[row.addr]
SortedRows(rows) ==
  LET below(j, k) == \/ Rank(rows[j]) < Rank(rows[k])
                     \/ Rank(rows[j]) = Rank(rows[k]) /\ j < k
      place(k) == Cardinality({j \in 1..Len(rows) : below(j, k)})
  IN  [n \in 1..Len(rows) |-> rows[CHOOSE k \in 1..Len(rows) : place(k) = n - 1]]

\* approx_row_bytes, as the length of the address.
RowBytes(row) == Len(row.addr)
PendingBytes(rows) == FoldLeft(LAMBDA sum, row : sum + RowBytes(row), 0, rows)

\* One row of emit_component_rows, flushed with those before it when the group is
\* full.
EmitRow ==
  /\ stage = "rows" /\ at \in Components
  /\ LET rows == SortedRows(RowsOf(ws.components[at]))
     IN  /\ emitted < Len(rows)
         /\ LET pending == Append(builders, rows[emitted + 1])
            IN  IF Len(pending) >= RowGroupRows \/ PendingBytes(pending) >= RowGroupBytes
                  THEN builders' = << >> /\ groups' = Append(groups, pending)
                  ELSE builders' = pending /\ UNCHANGED groups
  /\ emitted' = emitted + 1
  /\ total' = total + 1
  /\ UNCHANGED <<ws, stage, at>>

NextComponent ==
  /\ stage = "rows" /\ at \in Components
  /\ emitted = Len(RowsOf(ws.components[at]))
  /\ emitted' = 0
  /\ at' = at + 1
  /\ UNCHANGED <<ws, stage, builders, groups, total>>

\* Wrong: the rows since the last full group are dropped.
LastFlush_Dropped(pending, written) == written

LastFlush(pending, written) == IF pending = << >> THEN written ELSE Append(written, pending)

\* The end of write_resources_parquet.
FinishRows ==
  /\ stage = "rows" /\ at \notin Components
  /\ groups' = LastFlush(builders, groups)
  /\ builders' = << >>
  /\ Advance("tables")
  /\ UNCHANGED <<ws, emitted, total>>

-----------------------------------------------------------------------------
(* The writer by itself.  The stages before it hand on components that list *)
(* what they declare; the one after it leaves alone what it reads and wrote.*)

Lists(c) == <<c.resources, c.providers, c.modules, c.variables, c.locals, c.outputs>>

Listed ==
  /\ Len(ws.components) \in Nat
  /\ \A c \in Elements(ws.components) : \A k \in 1..6 : Len(Lists(c)[k]) \in Nat

StagesBeforeRows ==
  /\ stage \in {"edges", "resolve"}
  /\ stage' \in {"edges", "resolve", "failed"} \/ (Advance("rows") /\ Listed')
  /\ UNCHANGED rowVars

StageAfterRows ==
  /\ stage = "tables" /\ stage' \in {"tables", "done"}
  /\ UNCHANGED <<ws, rowVars>>

RowsNext ==
  \/ StagesBeforeRows
  \/ EmitRow
  \/ NextComponent
  \/ FinishRows
  \/ StageAfterRows

\* What the theorem is about; a run of WorkspaceRun is one of its behaviours.
RowsSpec ==
  stage = "edges" /\ RowsInit /\ [][RowsNext]_<<ws, stage, at, rowVars>>

-----------------------------------------------------------------------------
(* Properties.                                                              *)

RowsInFile == FlattenSeq(groups)

(* Every row of every component is in the file once, component by component *)
(* and each in the order of its addresses, whatever the limits of a row     *)
(* group cut, and the manifest's count is that of the file.                 *)
RowsAllWritten ==
  stage \in {"tables", "done"} =>
    /\ RowsInFile = FlattenSeq([k \in Components |-> SortedRows(RowsOf(ws.components[k]))])
    /\ total = Len(RowsInFile)

=============================================================================
