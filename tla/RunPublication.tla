---------------------------- MODULE RunPublication ----------------------------
(***************************************************************************)
(* What the exporter promises of an output directory (specs/20 § 3.1 and   *)
(* I-EXP-5), with none of how it is done: a file appears in one step and   *)
(* whole, a run that may not overwrite never replaces one, and a manifest  *)
(* appears only when every file it lists is in place and of its own run.   *)
(***************************************************************************)
EXTENDS FiniteSets

CONSTANTS
  Runs,             \* the export runs
  Resources,        \* the file every run writes
  ManifestFile,     \* the file that lists a run's files
  SecondaryTables,  \* the files a run may write as well
  None              \* "no such file"

Paths == {Resources, ManifestFile} \cup SecondaryTables

VARIABLES
  phase,      \* [Runs -> {"idle", "running", "ended"}]
  overwrite,  \* [Runs -> BOOLEAN]: the run may replace files
  wanted,     \* [Runs -> SUBSET SecondaryTables]: the tables the run writes
  dir         \* [Paths -> Runs \cup {None}]: the run whose file is at a path

vars == <<phase, overwrite, wanted, dir>>

Init ==
  /\ phase = [r \in Runs |-> "idle"]
  /\ overwrite = [r \in Runs |-> FALSE]
  /\ wanted = [r \in Runs |-> {}]
  /\ dir = [p \in Paths |-> None]

\* A run starts when no other is under way.
Begin(r) ==
  /\ phase[r] = "idle"
  /\ \A s \in Runs : phase[s] # "running"
  /\ phase' = [phase EXCEPT ![r] = "running"]
  /\ \E o \in BOOLEAN, w \in SUBSET SecondaryTables :
       /\ overwrite' = [overwrite EXCEPT ![r] = o]
       /\ wanted' = [wanted EXCEPT ![r] = w]
  /\ UNCHANGED dir

\* The run's file takes the place of whatever is at p, in one step.
Publish(r, p) ==
  /\ phase[r] = "running"
  /\ p \in {Resources} \cup wanted[r]
  /\ overwrite[r] \/ dir[p] = None
  /\ dir' = [dir EXCEPT ![p] = r]
  /\ UNCHANGED <<phase, overwrite, wanted>>

\* The manifest appears last.
Commit(r) ==
  /\ phase[r] = "running"
  /\ overwrite[r] \/ dir[ManifestFile] = None
  /\ \A p \in {Resources} \cup wanted[r] : dir[p] = r
  /\ dir' = [dir EXCEPT ![ManifestFile] = r]
  /\ UNCHANGED <<phase, overwrite, wanted>>

\* The run ends, committed or not; what it published stays.
End(r) ==
  /\ phase[r] = "running"
  /\ phase' = [phase EXCEPT ![r] = "ended"]
  /\ UNCHANGED <<overwrite, wanted, dir>>

Next == \E r \in Runs :
          Begin(r) \/ Commit(r) \/ End(r) \/ \E p \in Paths : Publish(r, p)

Spec == Init /\ [][Next]_vars
=============================================================================
