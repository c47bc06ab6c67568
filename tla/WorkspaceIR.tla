---------------------------- MODULE WorkspaceIR ----------------------------
(***************************************************************************)
(* The workspace that the graph builder hands on (crates/core/src/ir) and  *)
(* the stages it goes through: edges are inferred, accounts resolved and   *)
(* tables written.                                                         *)
(*                                                                         *)
(* A workspace has the field components, in path order:                    *)
(*   path, resources, modules, providers, variables, locals, outputs,      *)
(*   terragrunt, backend                                                   *)
(* The last two are options: a sequence with no element or one.            *)
(*   resource:  addr, kind, ref, attrs, deps, and what resolving fills in: *)
(*              account, name, region                                      *)
(*   call:      addr, inputs, source                                       *)
(*   provider:  local, alias, region, profile, role                        *)
(*   terragrunt: deps, backend, region, account (cascade locals)           *)
(*   backend:   profile, role, region (attributes), account and            *)
(*              stateRegion, which resolving fills in                      *)
(*   variable, local, output: name and value                               *)
(* An address is the sequence of its dotted segments; attrs and inputs are *)
(* sequences of a key and an expression.  The field walked has the paths   *)
(* of the modules the discovery found.                                     *)
(***************************************************************************)
EXTENDS Naturals, Sequences

VARIABLES
  ws,      \* the workspace
  stage,   \* "edges", "resolve", "rows", "tables", "done", "failed"
  at       \* the component the stage has reached

Components == 1..Len(ws.components)
Elements(seq) == {seq[k] : k \in 1..Len(seq)}
IsSome(option) == option # << >>

\* The next stage starts with the first component again.
Advance(next) == stage' = next /\ at' = 1

=============================================================================
