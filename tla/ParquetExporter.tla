--------------------------- MODULE ParquetExporter ---------------------------
(***************************************************************************)
(* `ParquetExporter::export` (crates/core/src/exporter/writer.rs) together *)
(* with the two helpers that repeat its write pattern,                     *)
(* `write_single_batch` (exporter/secondary.rs) and `write_manifest`       *)
(* (exporter/manifest.rs).                                                 *)
(*                                                                         *)
(* A run is one call of `export`, usually one `tfparser parse` process.    *)
(* Every run writes the same path names below one output directory, and    *)
(* each file goes through the same steps: test for a left-over             *)
(* `<file>.partial`, unlink it, create_new the partial, write it, fsync    *)
(* it, rename it over `<file>`, stat it, and later hash it.  One action is *)
(* one system call, so two runs (or a run and a crash) interleave wherever *)
(* the code lets them.                                                     *)
(*                                                                         *)
(* A file's bytes are abstracted to the inode that holds them: a run       *)
(* creates each of its files once, so <<run, path>> names the inode, and   *)
(* len[run][path] says how much of it has been written.                    *)
(***************************************************************************)
EXTENDS Naturals, Sequences

CONSTANTS
  Runs,             \* the calls of `export` on this output directory
  Resources,        \* the path of resources.parquet
  ManifestFile,     \* the path of workspace.manifest.json
  SecondaryTables,  \* the paths of dependencies / components / modules.parquet
  TableLists,       \* the values `opts.tables` may take: sequences of them
  OverwriteModes,   \* the values `opts.overwrite` may take
  Full,             \* the writes (row groups, then the footer) a file needs
  Exclusive,        \* TRUE: runs follow one another; FALSE: they may overlap
  None              \* "no such file"

Paths == {Resources, ManifestFile} \cup SecondaryTables

ASSUME PathsDistinct == /\ Resources # ManifestFile
                        /\ {Resources, ManifestFile} \cap SecondaryTables = {}
ASSUME TablesAreLists == TableLists \subseteq Seq(SecondaryTables)
ASSUME NoneIsNoRun == None \notin Runs
ASSUME FullPositive == Full \in Nat \ {0}
ASSUME FlagsBoolean == Exclusive \in BOOLEAN /\ OverwriteModes \subseteq BOOLEAN

VARIABLES
  pc,         \* [Runs -> Phases]: the system call each run makes next
  overwrite,  \* [Runs -> BOOLEAN]: `opts.overwrite`
  tables,     \* [Runs -> Seq(SecondaryTables)]: `opts.tables`
  todo,       \* [Runs -> Seq(Paths)]: what is left of the loop the run is in
  cur,        \* [Runs -> Paths]: the file the run is working on
  file,       \* [Paths -> Runs \cup {None}]: whose inode `<file>` names
  partial,    \* [Paths -> Runs \cup {None}]: whose inode `<file>.partial` names
  len,        \* [Runs -> [Paths -> 0..Full]]: how much of the inode is written
  synced,     \* [Runs -> [Paths -> BOOLEAN]]: the inode has been fsynced
  stat,       \* [Runs -> [Paths -> 0..Full]]: the size the run read back
  hash        \* [Runs -> [Paths -> Contents \cup {None}]]: the digest it took

runVars  == <<overwrite, tables>>
loopVars == <<todo, cur>>
dirVars  == <<file, partial>>
dataVars == <<len, synced>>
seenVars == <<stat, hash>>
vars == <<pc, runVars, loopVars, dirVars, dataVars, seenVars>>

\* The phases of a run that is inside `export`, and those of one that left it.
\* "conflict" is ExportError::Io from a call that found the directory changed
\* under it; "aborted" stands for a killed process and for any other error:
\* `export` cleans up nothing on an error, so both leave the same files.
LivePhases == {"check", "probe", "unlink", "create", "write", "rename", "stat",
               "next", "hash", "manifest"}
FinalPhases == {"done", "refused", "conflict", "aborted"}

Live(r) == pc[r] \in LivePhases

\* The bytes of the file at p, as a digest would tell them apart.
Contents == Runs \X Paths \X (0..Full)
Content(p) == <<file[p], p, len[file[p]][p]>>

\* The files a run's manifest lists, in its order.
Listed(r) == <<Resources>> \o tables[r]

TypeOK ==
  /\ pc \in [Runs -> {"idle"} \cup LivePhases \cup FinalPhases]
  /\ overwrite \in [Runs -> BOOLEAN]
  /\ tables \in [Runs -> Seq(SecondaryTables)]
  /\ todo \in [Runs -> Seq(Paths)]
  /\ cur \in [Runs -> Paths]
  /\ file \in [Paths -> Runs \cup {None}]
  /\ partial \in [Paths -> Runs \cup {None}]
  /\ len \in [Runs -> [Paths -> 0..Full]]
  /\ synced \in [Runs -> [Paths -> BOOLEAN]]
  /\ stat \in [Runs -> [Paths -> 0..Full]]
  /\ hash \in [Runs -> [Paths -> Contents \cup {None}]]

Init ==
  /\ pc = [r \in Runs |-> "idle"]
  /\ overwrite = [r \in Runs |-> FALSE]
  /\ tables = [r \in Runs |-> << >>]
  /\ todo = [r \in Runs |-> << >>]
  /\ cur = [r \in Runs |-> Resources]
  /\ file = [p \in Paths |-> None]
  /\ partial = [p \in Paths |-> None]
  /\ len = [r \in Runs |-> [p \in Paths |-> 0]]
  /\ synced = [r \in Runs |-> [p \in Paths |-> FALSE]]
  /\ stat = [r \in Runs |-> [p \in Paths |-> 0]]
  /\ hash = [r \in Runs |-> [p \in Paths |-> None]]

Goto(r, label) == pc' = [pc EXCEPT ![r] = label]

-----------------------------------------------------------------------------
(* Entry: the options are fixed, and without `overwrite` every output path  *)
(* is tested before anything is written.                                    *)

Start(r) ==
  /\ pc[r] = "idle"
  /\ Exclusive => \A s \in Runs : ~Live(s)
  /\ \E o \in OverwriteModes, ts \in TableLists :
       /\ overwrite' = [overwrite EXCEPT ![r] = o]
       /\ tables' = [tables EXCEPT ![r] = ts]
       /\ todo' = [todo EXCEPT ![r] =
                     IF o THEN << >> ELSE <<Resources, ManifestFile>> \o ts]
  /\ Goto(r, "check")
  /\ UNCHANGED <<cur, dirVars, dataVars, seenVars>>

\* Wrong: the answer of `exists()` is dropped (PublishesRunByRun fails).
CheckAbsent_NoRefusal(r) ==
  /\ pc[r] = "check"
  /\ todo[r] # << >>
  /\ todo' = [todo EXCEPT ![r] = Tail(@)]
  /\ UNCHANGED <<pc, runVars, cur, dirVars, dataVars, seenVars>>

\* One `p.exists()` of the loops at the top of `export`.
CheckAbsent(r) ==
  /\ pc[r] = "check"
  /\ todo[r] # << >>
  /\ IF file[Head(todo[r])] # None
       THEN Goto(r, "refused") /\ UNCHANGED todo
       ELSE todo' = [todo EXCEPT ![r] = Tail(@)] /\ UNCHANGED pc
  /\ UNCHANGED <<runVars, cur, dirVars, dataVars, seenVars>>

BeginResources(r) ==
  /\ pc[r] = "check"
  /\ todo[r] = << >>
  /\ cur' = [cur EXCEPT ![r] = Resources]
  /\ todo' = [todo EXCEPT ![r] = tables[r]]
  /\ Goto(r, "probe")
  /\ UNCHANGED <<runVars, dirVars, dataVars, seenVars>>

-----------------------------------------------------------------------------
(* Writing one file, the same for all of them.                              *)

\* Wrong: left-over partials are not looked for (NoConflict fails).
ProbePartial_Skipped(r) ==
  /\ pc[r] = "probe"
  /\ Goto(r, "create")
  /\ UNCHANGED <<runVars, loopVars, dirVars, dataVars, seenVars>>

\* `if partial.exists()`: only the answer is kept, the unlink comes later.
ProbePartial(r) ==
  /\ pc[r] = "probe"
  /\ Goto(r, IF partial[cur[r]] # None THEN "unlink" ELSE "create")
  /\ UNCHANGED <<runVars, loopVars, dirVars, dataVars, seenVars>>

\* `fs::remove_file(&partial)?`
UnlinkPartial(r) ==
  /\ pc[r] = "unlink"
  /\ IF partial[cur[r]] = None
       THEN Goto(r, "conflict") /\ UNCHANGED partial
       ELSE /\ partial' = [partial EXCEPT ![cur[r]] = None]
            /\ Goto(r, "create")
  /\ UNCHANGED <<runVars, loopVars, file, dataVars, seenVars>>

\* `OpenOptions::new().write(true).create_new(true).open(&partial)?`
CreatePartial(r) ==
  /\ pc[r] = "create"
  /\ IF partial[cur[r]] # None
       THEN Goto(r, "conflict") /\ UNCHANGED partial
       ELSE /\ partial' = [partial EXCEPT ![cur[r]] = r]
            /\ Goto(r, "write")
  /\ UNCHANGED <<runVars, loopVars, file, dataVars, seenVars>>

\* Wrong: the loop over the row groups does not stop (TypeOK fails).
WriteChunk_NoBound(r) ==
  /\ pc[r] = "write"
  /\ len' = [len EXCEPT ![r][cur[r]] = @ + 1]
  /\ UNCHANGED <<pc, runVars, loopVars, dirVars, synced, seenVars>>

\* A row group, or the footer: it goes to the open file, wherever its name is.
WriteChunk(r) ==
  /\ pc[r] = "write"
  /\ len[r][cur[r]] < Full
  /\ len' = [len EXCEPT ![r][cur[r]] = @ + 1]
  /\ UNCHANGED <<pc, runVars, loopVars, dirVars, synced, seenVars>>

\* Wrong: renamed without an fsync (NoHalfWrittenFile fails).
SyncPartial_NoFsync(r) ==
  /\ pc[r] = "write"
  /\ len[r][cur[r]] = Full
  /\ Goto(r, "rename")
  /\ UNCHANGED <<runVars, loopVars, dirVars, dataVars, seenVars>>

\* `file.sync_all()?` after the writer is closed.
SyncPartial(r) ==
  /\ pc[r] = "write"
  /\ len[r][cur[r]] = Full
  /\ synced' = [synced EXCEPT ![r][cur[r]] = TRUE]
  /\ Goto(r, "rename")
  /\ UNCHANGED <<runVars, loopVars, dirVars, len, seenVars>>

\* Wrong: an old file is removed first (NeverVanishes fails).
RenamePartial_RemoveFirst(r) ==
  /\ pc[r] = "rename"
  /\ partial[cur[r]] # None
  /\ IF file[cur[r]] # None
       THEN file' = [file EXCEPT ![cur[r]] = None] /\ UNCHANGED <<pc, partial>>
       ELSE /\ file' = [file EXCEPT ![cur[r]] = partial[cur[r]]]
            /\ partial' = [partial EXCEPT ![cur[r]] = None]
            /\ Goto(r, "stat")
  /\ UNCHANGED <<runVars, loopVars, dataVars, seenVars>>

\* `fs::rename(&partial, final_path)?`: by name, whatever the name holds now.
RenamePartial(r) ==
  /\ pc[r] = "rename"
  /\ IF partial[cur[r]] = None
       THEN Goto(r, "conflict") /\ UNCHANGED dirVars
       ELSE /\ file' = [file EXCEPT ![cur[r]] = partial[cur[r]]]
            /\ partial' = [partial EXCEPT ![cur[r]] = None]
            /\ Goto(r, "stat")
  /\ UNCHANGED <<runVars, loopVars, dataVars, seenVars>>

\* `fs::metadata(final_path)`; resources.parquet is hashed after the tables.
StatFile(r) ==
  /\ pc[r] = "stat"
  /\ stat' = [stat EXCEPT ![r][cur[r]] = len[file[cur[r]]][cur[r]]]
  /\ Goto(r, IF cur[r] = Resources THEN "next" ELSE "hash")
  /\ UNCHANGED <<runVars, loopVars, dirVars, dataVars, hash>>

\* Wrong: the loop over the tables hashes resources.parquet each time
\* (ManifestTellsSameRun fails).
HashFile_WrongPath(r) ==
  /\ pc[r] = "hash"
  /\ hash' = [hash EXCEPT ![r][cur[r]] = Content(Resources)]
  /\ Goto(r, CASE cur[r] = ManifestFile -> "done"
               [] cur[r] = Resources -> "manifest"
               [] OTHER -> "next")
  /\ UNCHANGED <<runVars, loopVars, dirVars, dataVars, stat>>

\* `sha256_hex_of_file`: the published file is opened again and read.
HashFile(r) ==
  /\ pc[r] = "hash"
  /\ hash' = [hash EXCEPT ![r][cur[r]] = Content(cur[r])]
  /\ Goto(r, CASE cur[r] = ManifestFile -> "done"
               [] cur[r] = Resources -> "manifest"
               [] OTHER -> "next")
  /\ UNCHANGED <<runVars, loopVars, dirVars, dataVars, stat>>

-----------------------------------------------------------------------------
(* The order of the files: resources, each table, the resources digest, the *)
(* manifest.                                                                *)

\* Wrong: the loop over the tables does not advance (StartedRunEnds fails).
NextTable_Stuck(r) ==
  /\ pc[r] = "next"
  /\ todo[r] # << >>
  /\ cur' = [cur EXCEPT ![r] = Head(todo[r])]
  /\ Goto(r, "probe")
  /\ UNCHANGED <<runVars, todo, dirVars, dataVars, seenVars>>

NextTable(r) ==
  /\ pc[r] = "next"
  /\ todo[r] # << >>
  /\ cur' = [cur EXCEPT ![r] = Head(todo[r])]
  /\ todo' = [todo EXCEPT ![r] = Tail(@)]
  /\ Goto(r, "probe")
  /\ UNCHANGED <<runVars, dirVars, dataVars, seenVars>>

HashResources(r) ==
  /\ pc[r] = "next"
  /\ todo[r] = << >>
  /\ cur' = [cur EXCEPT ![r] = Resources]
  /\ Goto(r, "hash")
  /\ UNCHANGED <<runVars, todo, dirVars, dataVars, seenVars>>

\* The head of `write_manifest`: it tests its own target once more.
BeginManifest(r) ==
  /\ pc[r] = "manifest"
  /\ IF file[ManifestFile] # None /\ ~overwrite[r]
       THEN Goto(r, "refused") /\ UNCHANGED cur
       ELSE /\ cur' = [cur EXCEPT ![r] = ManifestFile]
            /\ Goto(r, "probe")
  /\ UNCHANGED <<runVars, todo, dirVars, dataVars, seenVars>>

-----------------------------------------------------------------------------
(* What the environment does.                                               *)

\* A system call fails, or the process is killed.
Abort(r) ==
  /\ Live(r)
  /\ Goto(r, "aborted")
  /\ UNCHANGED <<runVars, loopVars, dirVars, dataVars, seenVars>>

\* The machine stops: what was not fsynced is gone (the worst case; a run
\* that is only killed keeps what it wrote), names and fsynced data stay.
PowerLoss ==
  /\ pc' = [r \in Runs |-> IF Live(r) THEN "aborted" ELSE pc[r]]
  /\ len' = [r \in Runs |-> [p \in Paths |->
               IF synced[r][p] THEN len[r][p] ELSE 0]]
  /\ UNCHANGED <<runVars, loopVars, dirVars, synced, seenVars>>

\* What the code of a run does next.
Step(r) ==
  \/ CheckAbsent(r) \/ BeginResources(r)
  \/ ProbePartial(r) \/ UnlinkPartial(r) \/ CreatePartial(r)
  \/ WriteChunk(r) \/ SyncPartial(r) \/ RenamePartial(r)
  \/ StatFile(r) \/ HashFile(r)
  \/ NextTable(r) \/ HashResources(r) \/ BeginManifest(r)

Next ==
  \/ \E r \in Runs : Start(r) \/ Step(r) \/ Abort(r)
  \/ PowerLoss

Spec == Init /\ [][Next]_vars

\* `export` is straight-line code in a thread the OS schedules: it never
\* waits for another run, so each run that is inside it takes its next step.
Fairness == \A r \in Runs : WF_vars(Step(r))
FairSpec == Spec /\ Fairness

-----------------------------------------------------------------------------
(* Properties.                                                              *)

\* A file that can be seen under its final name is complete and fsynced, so
\* neither a crash nor a power loss leaves a half-written one (I-EXP-5).
Whole(r, p) == len[r][p] = Full /\ synced[r][p]
NoHalfWrittenFile == \A p \in Paths : file[p] # None => Whole(file[p], p)

\* `tfparser verify` on one entry of run m's manifest: the digest and the
\* size of the file that is there now are those the run recorded.
Matches(m, p) ==
  /\ file[p] # None
  /\ Content(p) = hash[m][p]
  /\ len[file[p]][p] = stat[m][p]

Vouched(m) == \A i \in DOMAIN Listed(m) : Matches(m, Listed(m)[i])
OneRun(m)  == \A i \in DOMAIN Listed(m) : file[Listed(m)[i]] = m

\* The manifest in place tells whether the files are "from the same run": its
\* entries match exactly when every file it lists is that run's own, whatever
\* runs were cut short since.
ManifestTellsSameRun ==
  LET m == file[ManifestFile] IN m # None => (Vouched(m) <=> OneRun(m))

\* A partial left behind by a run that was cut short never fails a later
\* run: unlink, create_new and rename find what the run's own test saw.
NoConflict == \A r \in Runs : pc[r] # "conflict"

\* A published name never disappears: a reader that polls the directory sees
\* the old file or the new one, never neither.
NeverVanishes ==
  [][\A p \in Paths : file[p] # None => file'[p] # None]_vars

\* Every run that entered `export` leaves it, whatever the others do.
StartedRunEnds ==
  \A r \in Runs : pc[r] = "check" ~> pc[r] \in FinalPhases

\* The directory as RunPublication sees it; a torn file is nobody's.
Abs == INSTANCE RunPublication WITH
  phase  <- [r \in Runs |-> IF pc[r] = "idle" THEN "idle"
                            ELSE IF Live(r) THEN "running" ELSE "ended"],
  wanted <- [r \in Runs |-> {tables[r][i] : i \in DOMAIN tables[r]}],
  dir    <- [p \in Paths |-> IF file[p] = None THEN None
                             ELSE IF Whole(file[p], p) THEN file[p] ELSE "torn"]

\* Runs that follow one another implement RunPublication: files appear whole,
\* only `overwrite` replaces, and the manifest is published last.
PublishesRunByRun == Abs!Spec
=============================================================================
