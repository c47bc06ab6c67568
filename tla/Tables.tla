------------------------------- MODULE Tables -------------------------------
(***************************************************************************)
(* The rows of the other three tables (crates/core/src/exporter/           *)
(* secondary.rs): what of a workspace each of them tells, once             *)
(* resources.parquet is written.                                           *)
(***************************************************************************)
EXTENDS GraphEdges, ResourceRows

VARIABLE tables   \* the other tables written so far

tableVars == <<rowVars, tables>>

TablesInit == RowsInit /\ tables = << >>

-----------------------------------------------------------------------------
(* The other tables.                                                        *)

CountIn(e) == Cardinality(WalkExpression(e, << >>, << >>))
CountAttrs(attrs) == Cardinality(WalkAttributes(attrs, << >>))

\* count_unresolved: variables and the arguments of providers do not count.
CountUnresolved(c) ==
  FoldLeft(LAMBDA sum, r : sum + CountAttrs(r.attrs), 0, c.resources)
    + FoldLeft(LAMBDA sum, m : sum + CountAttrs(m.inputs), 0, c.modules)
    + FoldLeft(LAMBDA sum, v : sum + CountIn(v.value), 0, c.outputs \o c.locals)

\* The backend of a component row is terragrunt's before its own.
BackendShown(c) ==
  IF IsSome(c.terragrunt) /\ IsSome(c.terragrunt[1].backend) THEN c.terragrunt[1].backend
  ELSE c.backend

\* Wrong: data sources count as resources.
CountKind_All(rows, kind) == IF kind = "resource" THEN Len(rows) ELSE 0

CountKind(rows, kind) == Len(SelectSeq(rows, LAMBDA r : r.kind = kind))

ComponentRow(c) ==
  [path |-> c.path,
   counts |-> [resource |-> CountKind(c.resources, "resource"),
               data |-> CountKind(c.resources, "data"),
               module |-> Len(c.modules), output |-> Len(c.outputs),
               variable |-> Len(c.variables), local |-> Len(c.locals),
               provider |-> Len(c.providers)],
   terragrunt |-> IsSome(c.terragrunt),
   stateAccount |-> IF IsSome(BackendShown(c)) THEN BackendShown(c)[1].account ELSE Empty,
   stateRegion |-> IF IsSome(BackendShown(c)) THEN BackendShown(c)[1].stateRegion ELSE Empty,
   unresolved |-> CountUnresolved(c)]

\* write_modules_parquet: the key of a walked module is the path it was found at,
\* the key of a call the source as written.
Calls == FlattenSeq([k \in Components |-> ws.components[k].modules])
CallCount(source) == Len(SelectSeq(Calls, LAMBDA m : m.source = source))
WalkedKeys == {<<"local", path>> : path \in Elements(ws.walked)}

ModuleRows ==
  {[source |-> key, walked |-> TRUE, calls |-> CallCount(key)] : key \in WalkedKeys}
    \cup {[source |-> m.source, walked |-> FALSE, calls |-> CallCount(m.source)] :
            m \in {m \in Elements(Calls) : m.source \notin WalkedKeys}}

WriteTable(table) ==
  /\ tables' = Append(tables, table)
  /\ UNCHANGED <<ws, rowVars>>

WriteDependencies ==
  /\ stage = "tables" /\ Len(tables) = 0
  /\ WriteTable(edges)
  /\ UNCHANGED <<stage, at>>

WriteComponents ==
  /\ stage = "tables" /\ Len(tables) = 1
  /\ WriteTable([k \in Components |-> ComponentRow(ws.components[k])])
  /\ UNCHANGED <<stage, at>>

WriteModules ==
  /\ stage = "tables" /\ Len(tables) = 2
  /\ WriteTable(ModuleRows)
  /\ Advance("done")

-----------------------------------------------------------------------------
(* Properties.                                                              *)

RowsOfKind(path, kind) ==
  Len(SelectSeq(RowsInFile, LAMBDA row : row.path = path /\ row.kind = kind))

(* The tables tell one story: the counts of a component are those of its    *)
(* rows; each edge starts at a row of the resources table or at a component *)
(* of the components table; the calls of all modules add up to the module   *)
(* rows.                                                                    *)
TablesAgree ==
  stage = "done" =>
    /\ \A k \in 1..Len(tables[2]) :
         LET row == tables[2][k]
         IN  \A kind \in DOMAIN row.counts : row.counts[kind] = RowsOfKind(row.path, kind)
    /\ \A e \in tables[1] :
         IF e.kind = "terragrunt" THEN \E k \in 1..Len(tables[2]) : e.from = ComponentAddress(tables[2][k].path)
         ELSE \E k \in 1..Len(RowsInFile) : RowsInFile[k].addr = e.from
    /\ FoldSet(LAMBDA row, sum : sum + row.calls, 0, tables[3]) =
         Len(SelectSeq(RowsInFile, LAMBDA row : row.kind = "module"))

=============================================================================
