------------------------ MODULE ParquetExporter_proofs ------------------------
(***************************************************************************)
(* Proofs about ParquetExporter, for any set of runs and of tables, and    *)
(* about ManifestVerify: what `tfparser verify` says is true of the moment *)
(* it read the manifest, for any number of runs that follow one another    *)
(* while it reads the files one by one.                                    *)
(***************************************************************************)
EXTENDS ManifestVerify, SequenceTheorems, TLAPS

\* What the type invariant needs to be inductive: a run that reads a published
\* file back has published it, and a published name never disappears.
Present ==
  \A r \in Runs :
    /\ pc[r] \in {"stat", "hash"} => file[cur[r]] # None
    /\ pc[r] \in {"next", "manifest"} => file[Resources] # None
    /\ (pc[r] \in LivePhases \ {"check"} /\ cur[r] # Resources)
         => file[Resources] # None

TypeInv == TypeOK /\ Present

\* A list of secondary tables, as `export` walks it, is a list of the paths it
\* writes.
LEMMA TablesArePaths == Seq(SecondaryTables) \subseteq Seq(Paths)
  BY SeqMonotonic DEF Paths

\* What `export` looks for before it writes anything is a list of paths.
LEMMA CheckListIsPaths ==
  ASSUME NEW ts \in TableLists
  PROVE  /\ ts \in Seq(SecondaryTables)
         /\ <<Resources, ManifestFile>> \o ts \in Seq(Paths)
<1>1. ts \in Seq(SecondaryTables) /\ ts \in Seq(Paths)
  BY TablesAreLists, TablesArePaths
<1>2. <<Resources, ManifestFile>> \in Seq(Paths)
  BY DEF Paths
<1> QED  BY <1>1, <1>2, ConcatProperties

\* Before any run of the exporter has started, the invariant holds.
LEMMA InitTypeInv == Init => TypeInv
<1> SUFFICES ASSUME Init PROVE TypeInv
  OBVIOUS
<1> USE DEF Init
<1>1. TypeOK
  BY FullPositive DEF TypeOK, Paths
<1>2. Present
  BY DEF Present, LivePhases
<1> QED  BY <1>1, <1>2 DEF TypeInv

\* Every step of `export`, of its writers and of the machine keeps the types,
\* and keeps a file that a run will read back where it is.
LEMMA NextTypeInv == TypeInv /\ [Next]_vars => TypeInv'
<1> SUFFICES ASSUME TypeInv, [Next]_vars PROVE TypeInv'
  OBVIOUS
<1> USE FullPositive, NoneIsNoRun DEF TypeInv
<1>1. ASSUME NEW r \in Runs, Start(r) PROVE TypeInv'
  <2>1. TypeOK'
    <3>1. PICK o \in OverwriteModes, ts \in TableLists :
            /\ overwrite' = [overwrite EXCEPT ![r] = o]
            /\ tables' = [tables EXCEPT ![r] = ts]
            /\ todo' = [todo EXCEPT ![r] =
                 IF o THEN << >> ELSE <<Resources, ManifestFile>> \o ts]
      BY <1>1 DEF Start
    <3>2. overwrite' \in [Runs -> BOOLEAN]
      BY <3>1, FlagsBoolean DEF TypeOK
    <3>3. tables' \in [Runs -> Seq(SecondaryTables)]
      BY <3>1, CheckListIsPaths DEF TypeOK
    <3>4. todo' \in [Runs -> Seq(Paths)]
      BY <3>1, CheckListIsPaths, EmptySeq DEF TypeOK
    <3> QED
      BY <1>1, <3>2, <3>3, <3>4 DEF Start, TypeOK, Goto, LivePhases, dirVars,
                                    dataVars, seenVars
  <2>2. Present'
    BY <1>1 DEF Start, TypeOK, Present, Goto, Live, LivePhases, FinalPhases,
                Paths, dirVars, dataVars, seenVars
  <2> QED  BY <2>1, <2>2
<1>2. ASSUME NEW r \in Runs, CheckAbsent(r) PROVE TypeInv'
  <2>1. TypeOK'
    <3>1. todo[r] \in Seq(Paths) /\ todo[r] # << >>
      BY <1>2 DEF CheckAbsent, TypeOK
    <3>2. Tail(todo[r]) \in Seq(Paths)
      BY <3>1, HeadTailProperties
    <3>3. todo' \in [Runs -> Seq(Paths)]
      BY <1>2, <3>2 DEF CheckAbsent, TypeOK
    <3>4. pc' \in [Runs -> {"idle"} \cup LivePhases \cup FinalPhases]
      BY <1>2 DEF CheckAbsent, TypeOK, Goto, FinalPhases
    <3> QED
      BY <1>2, <3>3, <3>4 DEF CheckAbsent, TypeOK, runVars, dirVars, dataVars,
                              seenVars
  <2>2. Present'
    BY <1>2 DEF CheckAbsent, TypeOK, Present, Goto, LivePhases, FinalPhases,
                Paths, runVars, dirVars, dataVars, seenVars
  <2> QED  BY <2>1, <2>2
<1>3. ASSUME NEW r \in Runs, BeginResources(r) PROVE TypeInv'
  <2>1. TypeOK'
    <3>1. tables[r] \in Seq(Paths) /\ Resources \in Paths
      BY TablesArePaths DEF TypeOK, Paths
    <3> QED
      BY <1>3, <3>1 DEF BeginResources, TypeOK, Goto, LivePhases, FinalPhases,
                        runVars, dirVars, dataVars, seenVars
  <2>2. Present'
    BY <1>3 DEF BeginResources, TypeOK, Present, Goto, LivePhases,
                FinalPhases, Paths, runVars, dirVars, dataVars, seenVars
  <2> QED  BY <2>1, <2>2
<1>4. ASSUME NEW r \in Runs, ProbePartial(r) PROVE TypeInv'
  <2>1. TypeOK'
    BY <1>4 DEF ProbePartial, TypeOK, Goto, LivePhases, FinalPhases, Paths,
                runVars, loopVars, dirVars, dataVars, seenVars
  <2>2. Present'
    BY <1>4 DEF ProbePartial, TypeOK, Present, Goto, LivePhases, FinalPhases,
                Paths, runVars, loopVars, dirVars, dataVars, seenVars
  <2> QED  BY <2>1, <2>2
<1>5. ASSUME NEW r \in Runs, UnlinkPartial(r) PROVE TypeInv'
  <2>1. TypeOK'
    BY <1>5 DEF UnlinkPartial, TypeOK, Goto, LivePhases, FinalPhases, Paths,
                runVars, loopVars, dataVars, seenVars
  <2>2. Present'
    BY <1>5 DEF UnlinkPartial, TypeOK, Present, Goto, LivePhases,
                FinalPhases, Paths, runVars, loopVars, dataVars, seenVars
  <2> QED  BY <2>1, <2>2
<1>6. ASSUME NEW r \in Runs, CreatePartial(r) PROVE TypeInv'
  <2>1. TypeOK'
    <3>1. cur[r] \in Paths
      BY DEF TypeOK
    <3>2. partial' \in [Paths -> Runs \cup {None}]
      BY <1>6, <3>1 DEF CreatePartial, TypeOK
    <3> QED
      BY <1>6, <3>2 DEF CreatePartial, TypeOK, Goto, LivePhases, FinalPhases,
                        runVars, loopVars, dataVars, seenVars
  <2>2. Present'
    BY <1>6 DEF CreatePartial, TypeOK, Present, Goto, LivePhases,
                FinalPhases, Paths, runVars, loopVars, dataVars, seenVars
  <2> QED  BY <2>1, <2>2
<1>7. ASSUME NEW r \in Runs, WriteChunk(r) PROVE TypeInv'
  <2>1. TypeOK'
    <3> DEFINE longer == [len[r] EXCEPT ![cur[r]] = len[r][cur[r]] + 1]
    <3>1. cur[r] \in Paths /\ len[r] \in [Paths -> 0..Full]
      BY DEF TypeOK
    <3>2. len[r][cur[r]] + 1 \in 0..Full
      BY <1>7, <3>1 DEF WriteChunk
    <3>3. longer \in [Paths -> 0..Full]
      BY <3>1, <3>2
    <3>4. len' = [len EXCEPT ![r] = longer]
      BY <1>7 DEF WriteChunk
    <3>5. len' \in [Runs -> [Paths -> 0..Full]]
      BY <3>3, <3>4 DEF TypeOK
    <3> QED
      BY <1>7, <3>5 DEF WriteChunk, TypeOK, runVars, loopVars, dirVars, seenVars
  <2>2. Present'
    BY <1>7 DEF WriteChunk, TypeOK, Present, Paths, runVars, loopVars,
                dirVars, seenVars
  <2> QED  BY <2>1, <2>2
<1>8. ASSUME NEW r \in Runs, SyncPartial(r) PROVE TypeInv'
  <2>1. TypeOK'
    BY <1>8 DEF SyncPartial, TypeOK, Goto, LivePhases, FinalPhases, Paths,
                runVars, loopVars, dirVars, seenVars
  <2>2. Present'
    BY <1>8 DEF SyncPartial, TypeOK, Present, Goto, LivePhases, FinalPhases,
                Paths, runVars, loopVars, dirVars, seenVars
  <2> QED  BY <2>1, <2>2
<1>9. ASSUME NEW r \in Runs, RenamePartial(r) PROVE TypeInv'
  <2>1. TypeOK'
    BY <1>9 DEF RenamePartial, TypeOK, Goto, LivePhases, FinalPhases, Paths,
                runVars, loopVars, dirVars, dataVars, seenVars
  <2>2. Present'
    <3>1. /\ cur[r] \in Paths /\ file \in [Paths -> Runs \cup {None}]
          /\ pc \in [Runs -> {"idle"} \cup LivePhases \cup FinalPhases]
      BY DEF TypeOK
    <3>2. CASE partial[cur[r]] = None
      BY <1>9, <3>1, <3>2 DEF RenamePartial, Present, Goto, LivePhases,
              FinalPhases, loopVars, dirVars
    <3>3. CASE partial[cur[r]] # None
      <4>1. /\ file' = [file EXCEPT ![cur[r]] = partial[cur[r]]]
            /\ pc' = [pc EXCEPT ![r] = "stat"]
            /\ cur' = cur
        BY <1>9, <3>3 DEF RenamePartial, Goto, loopVars
      <4>2. \A p \in Paths : file[p] # None => file'[p] # None
        BY <3>1, <3>3, <4>1
      <4>3. file'[cur[r]] # None
        BY <3>1, <3>3, <4>1
      <4>4. \A s \in Runs : cur[s] \in Paths /\ Resources \in Paths
        BY DEF TypeOK, Paths
      <4> QED
        BY <1>9, <3>1, <4>1, <4>2, <4>3, <4>4
           DEF RenamePartial, Present, LivePhases
    <3> QED  BY <3>2, <3>3
  <2> QED  BY <2>1, <2>2
<1>10. ASSUME NEW r \in Runs, StatFile(r) PROVE TypeInv'
  <2>1. TypeOK'
    <3>1. /\ cur[r] \in Paths /\ stat[r] \in [Paths -> 0..Full]
          /\ file[cur[r]] \in Runs
      BY <1>10 DEF StatFile, TypeOK, Present
    <3>2. len[file[cur[r]]][cur[r]] \in 0..Full
      BY <3>1 DEF TypeOK
    <3>3. stat' = [stat EXCEPT ![r] = [@ EXCEPT ![cur[r]] =
                                         len[file[cur[r]]][cur[r]]]]
      BY <1>10 DEF StatFile
    <3>4. stat' \in [Runs -> [Paths -> 0..Full]]
      BY <3>1, <3>2, <3>3 DEF TypeOK
    <3> QED
      BY <1>10, <3>4 DEF StatFile, TypeOK, Goto, LivePhases, FinalPhases,
                         runVars, loopVars, dirVars, dataVars
  <2>2. Present'
    BY <1>10 DEF StatFile, TypeOK, Present, Goto, LivePhases, FinalPhases,
                 Paths, runVars, loopVars, dirVars, dataVars
  <2> QED  BY <2>1, <2>2
<1>11. ASSUME NEW r \in Runs, HashFile(r) PROVE TypeInv'
  <2>1. TypeOK'
    <3>1. /\ cur[r] \in Paths
          /\ hash[r] \in [Paths -> Contents \cup {None}]
          /\ file[cur[r]] \in Runs
      BY <1>11 DEF HashFile, TypeOK, Present
    <3>2. Content(cur[r]) \in Contents
      BY <3>1 DEF Content, Contents, TypeOK
    <3>3. hash' = [hash EXCEPT ![r] = [@ EXCEPT ![cur[r]] = Content(cur[r])]]
      BY <1>11 DEF HashFile
    <3>4. hash' \in [Runs -> [Paths -> Contents \cup {None}]]
      BY <3>1, <3>2, <3>3 DEF TypeOK
    <3> QED
      BY <1>11, <3>4 DEF HashFile, TypeOK, Goto, LivePhases, FinalPhases,
                         runVars, loopVars, dirVars, dataVars
  <2>2. Present'
    BY <1>11 DEF HashFile, Content, Contents, TypeOK, Present, Goto,
                 LivePhases, FinalPhases, Paths, runVars, loopVars, dirVars,
                 dataVars
  <2> QED  BY <2>1, <2>2
<1>12. ASSUME NEW r \in Runs, NextTable(r) PROVE TypeInv'
  <2>1. TypeOK'
    <3>1. todo[r] \in Seq(Paths) /\ todo[r] # << >>
      BY <1>12 DEF NextTable, TypeOK
    <3>2. Head(todo[r]) \in Paths /\ Tail(todo[r]) \in Seq(Paths)
      BY <3>1, HeadTailProperties
    <3> QED
      BY <1>12, <3>2 DEF NextTable, TypeOK, Goto, LivePhases, FinalPhases,
                         runVars, dirVars, dataVars, seenVars
  <2>2. Present'
    BY <1>12 DEF NextTable, TypeOK, Present, Goto, LivePhases, FinalPhases,
                 Paths, runVars, dirVars, dataVars, seenVars
  <2> QED  BY <2>1, <2>2
<1>13. ASSUME NEW r \in Runs, HashResources(r) PROVE TypeInv'
  <2>1. TypeOK'
    BY <1>13 DEF HashResources, TypeOK, Goto, LivePhases, FinalPhases, Paths,
                 runVars, dirVars, dataVars, seenVars
  <2>2. Present'
    BY <1>13 DEF HashResources, TypeOK, Present, Goto, LivePhases,
                 FinalPhases, Paths, runVars, dirVars, dataVars, seenVars
  <2> QED  BY <2>1, <2>2
<1>14. ASSUME NEW r \in Runs, BeginManifest(r) PROVE TypeInv'
  <2>1. TypeOK'
    BY <1>14 DEF BeginManifest, TypeOK, Goto, LivePhases, FinalPhases, Paths,
                 runVars, dirVars, dataVars, seenVars
  <2>2. Present'
    BY <1>14 DEF BeginManifest, TypeOK, Present, Goto, LivePhases,
                 FinalPhases, Paths, runVars, dirVars, dataVars, seenVars
  <2> QED  BY <2>1, <2>2
<1>15. ASSUME NEW r \in Runs, Abort(r) PROVE TypeInv'
  <2>1. TypeOK'
    BY <1>15 DEF Abort, TypeOK, Goto, LivePhases, FinalPhases, Paths,
                 runVars, loopVars, dirVars, dataVars, seenVars
  <2>2. Present'
    BY <1>15 DEF Abort, TypeOK, Present, Goto, LivePhases, FinalPhases,
                 Paths, runVars, loopVars, dirVars, dataVars, seenVars
  <2> QED  BY <2>1, <2>2
<1>16. CASE PowerLoss
  <2>1. TypeOK'
    <3>1. len' \in [Runs -> [Paths -> 0..Full]]
      BY <1>16 DEF PowerLoss, TypeOK
    <3>2. pc' \in [Runs -> {"idle"} \cup LivePhases \cup FinalPhases]
      BY <1>16 DEF PowerLoss, TypeOK, FinalPhases
    <3> QED
      BY <1>16, <3>1, <3>2 DEF PowerLoss, TypeOK, runVars, loopVars, dirVars,
                               seenVars
  <2>2. Present'
    BY <1>16 DEF PowerLoss, TypeOK, Present, Live, LivePhases, FinalPhases,
                 loopVars, dirVars
  <2> QED  BY <2>1, <2>2
<1>17. CASE UNCHANGED vars
  BY <1>17 DEF TypeOK, Present, vars, runVars, loopVars, dirVars, dataVars,
               seenVars
<1> QED
  BY <1>1, <1>2, <1>3, <1>4, <1>5, <1>6, <1>7, <1>8, <1>9, <1>10, <1>11,
     <1>12, <1>13, <1>14, <1>15, <1>16, <1>17 DEF Next, Step

\* The variables keep their types, whether or not the runs overlap: in
\* particular every published path a run reads back is there to be read.
THEOREM TypeCorrect == Spec => []TypeOK
<1>1. Init => TypeInv
  BY InitTypeInv
<1>2. TypeInv /\ [Next]_vars => TypeInv'
  BY NextTypeInv
<1>3. TypeInv => TypeOK
  BY DEF TypeInv
<1> QED  BY <1>1, <1>2, <1>3, PTL DEF Spec

-----------------------------------------------------------------------------
(* Runs that follow one another.  NoHalfWrittenFile is not inductive: a     *)
(* rename publishes whatever `<file>.partial` names, so the proof needs     *)
(* that the live run's partial is its own and, before the rename, whole.    *)

OneLive == \A r, s \in Runs : Live(r) /\ Live(s) => r = s

OwnPartial ==
  \A r \in Runs :
    /\ pc[r] = "unlink" => partial[cur[r]] # None
    /\ pc[r] = "create" => partial[cur[r]] = None
    /\ pc[r] \in {"write", "rename"} => partial[cur[r]] = r
    /\ pc[r] = "rename" => Whole(r, cur[r])

AloneInv == TypeInv /\ OneLive /\ OwnPartial /\ NoHalfWrittenFile /\ NoConflict

\* Only a live run takes a step of the code, and it is the only live one.
LEMMA StepIsAlone ==
  ASSUME AloneInv, NEW r \in Runs, Step(r)
  PROVE  /\ Live(r)
         /\ \A s \in Runs \ {r} : ~Live(s) /\ pc'[s] = pc[s]
         /\ OneLive'
<1>1. Live(r)
  BY DEF Step, CheckAbsent, BeginResources, ProbePartial, UnlinkPartial,
         CreatePartial, WriteChunk, SyncPartial, RenamePartial, StatFile,
         HashFile, NextTable, HashResources, BeginManifest, Live, LivePhases
<1>2. \A s \in Runs \ {r} : ~Live(s)
  BY <1>1 DEF AloneInv, OneLive
<1>3. \E label : Goto(r, label) \/ UNCHANGED pc
  BY DEF Step, CheckAbsent, BeginResources, ProbePartial, UnlinkPartial,
         CreatePartial, WriteChunk, SyncPartial, RenamePartial, StatFile,
         HashFile, NextTable, HashResources, BeginManifest
<1>4. \A s \in Runs \ {r} : pc'[s] = pc[s]
  BY <1>3 DEF Goto, AloneInv, TypeInv, TypeOK
<1>5. OneLive'
  BY <1>2, <1>4 DEF OneLive, Live
<1> QED  BY <1>1, <1>2, <1>4, <1>5

\* A step that writes no data and changes no name of the directory keeps what
\* is published whole.
LEMMA SameDirectory ==
  ASSUME AloneInv, UNCHANGED <<file, dataVars>>
  PROVE  NoHalfWrittenFile'
  BY DEF AloneInv, NoHalfWrittenFile, Whole, dataVars

\* Every step of the live run keeps the invariant.
LEMMA StepAloneInv ==
  ASSUME AloneInv, TypeInv', NEW r \in Runs, Step(r)
  PROVE  AloneInv'
<1> USE NoneIsNoRun DEF AloneInv
<1>1. /\ \A s \in Runs \ {r} : ~Live(s) /\ pc'[s] = pc[s]
      /\ OneLive'
  BY StepIsAlone
<1>2. \A s \in Runs \ {r} :
        pc'[s] \notin {"unlink", "create", "write", "rename"}
  BY <1>1 DEF Live, LivePhases
<1>3. cur[r] \in Paths /\ pc \in [Runs -> {"idle"} \cup LivePhases \cup FinalPhases]
  BY DEF TypeInv, TypeOK
<1>4. CASE CheckAbsent(r)
  <2>1. pc'[r] \notin {"conflict", "unlink", "create", "write", "rename"}
    BY <1>3, <1>4 DEF CheckAbsent, Goto, NoConflict
  <2>2. UNCHANGED <<file, dataVars>>
    BY <1>4 DEF CheckAbsent, dirVars
  <2>3. OwnPartial' /\ NoConflict'
    BY <1>1, <1>2, <2>1 DEF OwnPartial, NoConflict
  <2> QED  BY <1>1, <2>2, <2>3, SameDirectory
<1>5. CASE BeginResources(r)
  <2>1. pc'[r] \notin {"conflict", "unlink", "create", "write", "rename"}
    BY <1>3, <1>5 DEF BeginResources, Goto, NoConflict
  <2>2. UNCHANGED <<file, dataVars>>
    BY <1>5 DEF BeginResources, dirVars
  <2>3. OwnPartial' /\ NoConflict'
    BY <1>1, <1>2, <2>1 DEF OwnPartial, NoConflict
  <2> QED  BY <1>1, <2>2, <2>3, SameDirectory
<1>6. CASE StatFile(r)
  <2>1. pc'[r] \notin {"conflict", "unlink", "create", "write", "rename"}
    BY <1>3, <1>6 DEF StatFile, Goto, NoConflict
  <2>2. UNCHANGED <<file, dataVars>>
    BY <1>6 DEF StatFile, dirVars
  <2>3. OwnPartial' /\ NoConflict'
    BY <1>1, <1>2, <2>1 DEF OwnPartial, NoConflict
  <2> QED  BY <1>1, <2>2, <2>3, SameDirectory
<1>7. CASE HashFile(r)
  <2>1. pc'[r] \notin {"conflict", "unlink", "create", "write", "rename"}
    BY <1>3, <1>7 DEF HashFile, Goto, NoConflict
  <2>2. UNCHANGED <<file, dataVars>>
    BY <1>7 DEF HashFile, dirVars
  <2>3. OwnPartial' /\ NoConflict'
    BY <1>1, <1>2, <2>1 DEF OwnPartial, NoConflict
  <2> QED  BY <1>1, <2>2, <2>3, SameDirectory
<1>8. CASE NextTable(r)
  <2>1. pc'[r] \notin {"conflict", "unlink", "create", "write", "rename"}
    BY <1>3, <1>8 DEF NextTable, Goto, NoConflict
  <2>2. UNCHANGED <<file, dataVars>>
    BY <1>8 DEF NextTable, dirVars
  <2>3. OwnPartial' /\ NoConflict'
    BY <1>1, <1>2, <2>1 DEF OwnPartial, NoConflict
  <2> QED  BY <1>1, <2>2, <2>3, SameDirectory
<1>9. CASE HashResources(r)
  <2>1. pc'[r] \notin {"conflict", "unlink", "create", "write", "rename"}
    BY <1>3, <1>9 DEF HashResources, Goto, NoConflict
  <2>2. UNCHANGED <<file, dataVars>>
    BY <1>9 DEF HashResources, dirVars
  <2>3. OwnPartial' /\ NoConflict'
    BY <1>1, <1>2, <2>1 DEF OwnPartial, NoConflict
  <2> QED  BY <1>1, <2>2, <2>3, SameDirectory
<1>10. CASE BeginManifest(r)
  <2>1. pc'[r] \notin {"conflict", "unlink", "create", "write", "rename"}
    BY <1>3, <1>10 DEF BeginManifest, Goto, NoConflict
  <2>2. UNCHANGED <<file, dataVars>>
    BY <1>10 DEF BeginManifest, dirVars
  <2>3. OwnPartial' /\ NoConflict'
    BY <1>1, <1>2, <2>1 DEF OwnPartial, NoConflict
  <2> QED  BY <1>1, <2>2, <2>3, SameDirectory
<1>11. CASE ProbePartial(r)
  <2>1. UNCHANGED <<file, partial, cur, dataVars>>
    BY <1>11 DEF ProbePartial, dirVars, loopVars
  <2>2. \/ pc'[r] = "unlink" /\ partial[cur[r]] # None
        \/ pc'[r] = "create" /\ partial[cur[r]] = None
    BY <1>3, <1>11 DEF ProbePartial, Goto
  <2>3. OwnPartial' /\ NoConflict'
    BY <1>1, <1>2, <2>1, <2>2 DEF OwnPartial, NoConflict
  <2> QED  BY <1>1, <2>1, <2>3, SameDirectory
<1>12. CASE UnlinkPartial(r)
  <2>1. partial[cur[r]] # None
    BY <1>12 DEF UnlinkPartial, OwnPartial
  <2>2. /\ UNCHANGED <<file, cur, dataVars>>
        /\ pc'[r] = "create"
        /\ partial' = [partial EXCEPT ![cur[r]] = None]
    BY <1>3, <1>12, <2>1 DEF UnlinkPartial, Goto, loopVars
  <2>3. partial'[cur'[r]] = None
    BY <1>3, <2>2 DEF TypeInv, TypeOK
  <2>4. OwnPartial' /\ NoConflict'
    BY <1>1, <1>2, <2>2, <2>3 DEF OwnPartial, NoConflict
  <2> QED  BY <1>1, <2>2, <2>4, SameDirectory
<1>13. CASE CreatePartial(r)
  <2>1. partial[cur[r]] = None
    BY <1>13 DEF CreatePartial, OwnPartial
  <2>2. /\ UNCHANGED <<file, cur, dataVars>>
        /\ pc'[r] = "write"
        /\ partial' = [partial EXCEPT ![cur[r]] = r]
    BY <1>3, <1>13, <2>1 DEF CreatePartial, Goto, loopVars
  <2>3. partial'[cur'[r]] = r
    BY <1>3, <2>2 DEF TypeInv, TypeOK
  <2>4. OwnPartial' /\ NoConflict'
    BY <1>1, <1>2, <2>2, <2>3 DEF OwnPartial, NoConflict
  <2> QED  BY <1>1, <2>2, <2>4, SameDirectory
<1>14. CASE WriteChunk(r)
  <2>1. UNCHANGED <<pc, file, partial, cur, synced>>
    BY <1>14 DEF WriteChunk, dirVars, loopVars
  <2>2. OwnPartial' /\ NoConflict'
    BY <1>1, <1>2, <1>14, <2>1 DEF WriteChunk, OwnPartial, NoConflict
  <2>3. \A s \in Runs, p \in Paths : Whole(s, p) => Whole(s, p)'
    BY <1>3, <1>14, <2>1 DEF WriteChunk, Whole, TypeInv, TypeOK
  <2>4. NoHalfWrittenFile'
    BY <2>1, <2>3 DEF NoHalfWrittenFile, TypeInv, TypeOK
  <2> QED  BY <1>1, <2>2, <2>4
<1>15. CASE SyncPartial(r)
  <2>1. UNCHANGED <<file, partial, cur, len>> /\ pc'[r] = "rename"
    BY <1>3, <1>15 DEF SyncPartial, Goto, dirVars, loopVars
  <2>2. partial[cur[r]] = r
    BY <1>15 DEF SyncPartial, OwnPartial
  <2>3. Whole(r, cur[r])'
    BY <1>3, <1>15, <2>1 DEF SyncPartial, Whole, TypeInv, TypeOK
  <2>4. OwnPartial' /\ NoConflict'
    BY <1>1, <1>2, <2>1, <2>2, <2>3 DEF OwnPartial, NoConflict, Whole
  <2>5. \A s \in Runs, p \in Paths : Whole(s, p) => Whole(s, p)'
    BY <1>3, <1>15, <2>1 DEF SyncPartial, Whole, TypeInv, TypeOK
  <2>6. NoHalfWrittenFile'
    BY <2>1, <2>5 DEF NoHalfWrittenFile, TypeInv, TypeOK
  <2> QED  BY <1>1, <2>4, <2>6
<1>16. CASE RenamePartial(r)
  <2>1. partial[cur[r]] = r /\ Whole(r, cur[r])
    BY <1>16 DEF RenamePartial, OwnPartial
  <2>2. /\ file' = [file EXCEPT ![cur[r]] = r]
        /\ pc'[r] = "stat"
        /\ UNCHANGED dataVars
    BY <1>3, <1>16, <2>1 DEF RenamePartial, Goto
  <2>3. OwnPartial' /\ NoConflict'
    BY <1>1, <1>2, <2>2 DEF OwnPartial, NoConflict
  <2>4. NoHalfWrittenFile'
    BY <1>3, <2>1, <2>2
       DEF NoHalfWrittenFile, Whole, dataVars, TypeInv, TypeOK
  <2> QED  BY <1>1, <2>3, <2>4
<1> QED
  BY <1>4, <1>5, <1>6, <1>7, <1>8, <1>9, <1>10, <1>11, <1>12, <1>13,
     <1>14, <1>15, <1>16
     DEF Step

\* So does every step of the system, power loss and the start of the next run
\* included, as long as a run starts only after the one before it has ended.
LEMMA NextAloneInv ==
  ASSUME Exclusive, AloneInv, [Next]_vars
  PROVE  AloneInv'
<1> USE NoneIsNoRun DEF AloneInv
<1>1. TypeInv'
  BY NextTypeInv
<1>2. pc \in [Runs -> {"idle"} \cup LivePhases \cup FinalPhases]
  BY DEF TypeInv, TypeOK
<1>3. ASSUME NEW r \in Runs, Start(r) PROVE AloneInv'
  <2>1. /\ \A s \in Runs : ~Live(s)
        /\ pc' = [pc EXCEPT ![r] = "check"]
        /\ UNCHANGED <<file, partial, dataVars>>
    BY <1>3 DEF Start, Goto, dirVars
  <2>2. OneLive'
    BY <1>2, <2>1 DEF OneLive, Live
  <2>3. OwnPartial' /\ NoConflict'
    BY <1>2, <2>1 DEF OwnPartial, NoConflict, Live, LivePhases
  <2> QED  BY <1>1, <2>1, <2>2, <2>3, SameDirectory
<1>4. ASSUME NEW r \in Runs, Step(r) PROVE AloneInv'
  BY <1>1, <1>4, StepAloneInv
<1>5. ASSUME NEW r \in Runs, Abort(r) PROVE AloneInv'
  <2>1. /\ pc' = [pc EXCEPT ![r] = "aborted"]
        /\ UNCHANGED <<file, partial, cur, dataVars>>
    BY <1>5 DEF Abort, Goto, dirVars, loopVars
  <2>2. OneLive' /\ NoConflict'
    BY <1>2, <2>1 DEF OneLive, NoConflict, Live, LivePhases
  <2>3. OwnPartial'
    BY <1>2, <2>1 DEF OwnPartial, Whole, dataVars
  <2> QED  BY <1>1, <2>1, <2>2, <2>3, SameDirectory
<1>6. CASE PowerLoss
  <2>1. /\ \A s \in Runs : ~Live(s)' /\ pc'[s] \in {pc[s], "aborted"}
        /\ UNCHANGED <<file, synced>>
    BY <1>2, <1>6 DEF PowerLoss, Live, LivePhases, dirVars
  <2>2. OneLive' /\ NoConflict'
    BY <2>1 DEF OneLive, NoConflict
  <2>3. OwnPartial'
    BY <2>1 DEF OwnPartial, Live, LivePhases
  <2>4. \A s \in Runs, p \in Paths : Whole(s, p) => Whole(s, p)'
    BY <1>6, <2>1 DEF PowerLoss, Whole
  <2>5. NoHalfWrittenFile'
    BY <2>1, <2>4 DEF NoHalfWrittenFile, TypeInv, TypeOK
  <2> QED  BY <1>1, <2>2, <2>3, <2>5
<1>7. CASE UNCHANGED vars
  BY <1>1, <1>7 DEF vars, runVars, loopVars, dirVars, dataVars, OneLive, Live,
     OwnPartial, NoHalfWrittenFile, Whole, NoConflict
<1> QED  BY <1>3, <1>4, <1>5, <1>6, <1>7 DEF Next

\* Hence, when runs follow one another, the invariant always holds.
LEMMA AloneInvariant == ASSUME Exclusive PROVE Spec => []AloneInv
<1>1. Init => AloneInv
  BY InitTypeInv, NoneIsNoRun
     DEF Init, AloneInv, OneLive, Live, LivePhases, OwnPartial,
         NoHalfWrittenFile, NoConflict
<1>2. AloneInv /\ [Next]_vars => AloneInv'
  BY NextAloneInv
<1> QED  BY <1>1, <1>2, PTL DEF Spec

\* When runs follow one another, however each of them ends, no file that can
\* be seen under its final name is half-written or not yet fsynced (I-EXP-5).
THEOREM FilesAreWhole == ASSUME Exclusive PROVE Spec => []NoHalfWrittenFile
<1>1. AloneInv => NoHalfWrittenFile
  BY DEF AloneInv
<1> QED  BY <1>1, AloneInvariant, PTL

\* When runs follow one another, what an interrupted run left behind never
\* makes a later one fail.
THEOREM LeftoversNeverConflict == ASSUME Exclusive PROVE Spec => []NoConflict
<1>1. AloneInv => NoConflict
  BY DEF AloneInv
<1> QED  BY <1>1, AloneInvariant, PTL

-----------------------------------------------------------------------------
(* What is published, and what the manifest says of it.  While a run works  *)
(* through its list, each listed file is the run's own, or still to come,   *)
(* or the one it is writing; so are the size and the digest it took of it.  *)

Elems(s) == {s[i] : i \in DOMAIN s}
ListedFiles(r) == {Resources} \cup Elems(tables[r])

Writing == {"probe", "unlink", "create", "write", "rename"}
Past(r) == Live(r) /\ pc[r] # "check"

\* Where the loop over the tables is.
LoopInv(r) ==
  Past(r) =>
    /\ Elems(todo[r]) \subseteq Elems(tables[r])
    /\ cur[r] \in ListedFiles(r) \cup {ManifestFile}
    /\ (\/ pc[r] = "hash" /\ cur[r] = Resources
        \/ pc[r] = "manifest"
        \/ cur[r] = ManifestFile) => todo[r] = << >>

\* A listed file is the run's own once it has been written.
OwnFiles(r) ==
  Past(r) => \A p \in ListedFiles(r) :
               \/ file[p] = r
               \/ p \in Elems(todo[r])
               \/ p = cur[r] /\ pc[r] \in Writing

\* Without `overwrite`, what has been tested is not there, or the run's own.
Unreplaced(r) ==
  Live(r) /\ ~overwrite[r] =>
    \A p \in ListedFiles(r) \cup {ManifestFile} :
      file[p] \in {None, r} \/ (pc[r] = "check" /\ p \in Elems(todo[r]))

\* So are the size and the digest; that of resources.parquet comes last.
Digests(r) ==
  Past(r) => \A p \in ListedFiles(r) :
    /\ \/ stat[r][p] = Full
       \/ p \in Elems(todo[r])
       \/ p = cur[r] /\ pc[r] \in Writing \cup {"stat"}
    /\ \/ hash[r][p] = <<r, p, Full>>
       \/ p \in Elems(todo[r])
       \/ p = cur[r] /\ pc[r] \in Writing \cup {"stat", "hash"}
       \/ p = Resources /\ cur[r] # ManifestFile /\ pc[r] # "manifest"

\* A run whose manifest is in place publishes nothing any more, and it has
\* recorded each file it lists as it wrote it.
Finished(m) ==
  \/ pc[m] \in FinalPhases
  \/ pc[m] \in {"stat", "hash"} /\ cur[m] = ManifestFile
Recorded(m) ==
  \A p \in ListedFiles(m) : hash[m][p] = <<m, p, Full>> /\ stat[m][p] = Full
ManifestInv ==
  \A m \in Runs : file[ManifestFile] = m => Finished(m) /\ Recorded(m)

RunInv(r) == LoopInv(r) /\ OwnFiles(r) /\ Unreplaced(r) /\ Digests(r)
PublishInv == AloneInv /\ ManifestInv /\ \A r \in Runs : RunInv(r)

\* What a list of tables or of files to do holds.
LEMMA ElemsOfLists ==
  /\ Elems(<< >>) = {}
  /\ \A S : \A s \in Seq(S) :
       s # << >> => Elems(s) = {Head(s)} \cup Elems(Tail(s))
<1>1. Elems(<< >>) = {}
  BY DEF Elems
<1>2. ASSUME NEW S, NEW s \in Seq(S), s # << >>
      PROVE  Elems(s) = {Head(s)} \cup Elems(Tail(s))
  <2>1. /\ Len(s) \in Nat \ {0} /\ DOMAIN s = 1..Len(s)
        /\ Head(s) = s[1] /\ DOMAIN Tail(s) = 1..(Len(s) - 1)
        /\ \A i \in 1..(Len(s) - 1) : Tail(s)[i] = s[i + 1]
    BY <1>2
  <2>2. ASSUME NEW x PROVE x \in Elems(s) <=> x \in {Head(s)} \cup Elems(Tail(s))
    <3>1. ASSUME x \in Elems(s) PROVE x \in {Head(s)} \cup Elems(Tail(s))
      <4>1. PICK i \in 1..Len(s) : x = s[i]
        BY <2>1, <3>1 DEF Elems
      <4>2. CASE i = 1
        BY <2>1, <4>1, <4>2
      <4>3. CASE i # 1
        <5>1. i - 1 \in 1..(Len(s) - 1) /\ x = Tail(s)[i - 1]
          BY <2>1, <4>1, <4>3
        <5> QED  BY <2>1, <5>1 DEF Elems
      <4> QED  BY <4>2, <4>3
    <3>2. ASSUME x \in {Head(s)} \cup Elems(Tail(s)) PROVE x \in Elems(s)
      <4>1. CASE x = Head(s)
        BY <2>1, <4>1 DEF Elems
      <4>2. CASE x \in Elems(Tail(s))
        <5>1. PICK i \in 1..(Len(s) - 1) : x = Tail(s)[i]
          BY <2>1, <4>2 DEF Elems
        <5>2. i + 1 \in 1..Len(s) /\ x = s[i + 1]
          BY <2>1, <5>1
        <5> QED  BY <2>1, <5>2 DEF Elems
      <4> QED  BY <3>2, <4>1, <4>2
    <3> QED  BY <3>1, <3>2
  <2> QED  BY <2>2
<1> QED  BY <1>1, <1>2

\* What two lists hold, one after the other.
LEMMA ElemsOfConcat ==
  ASSUME NEW S, NEW s \in Seq(S), NEW t \in Seq(S)
  PROVE  Elems(s \o t) = Elems(s) \cup Elems(t)
<1>1. /\ Len(s) \in Nat /\ DOMAIN s = 1..Len(s)
      /\ Len(t) \in Nat /\ DOMAIN t = 1..Len(t)
      /\ DOMAIN (s \o t) = 1..(Len(s) + Len(t))
      /\ \A i \in 1..(Len(s) + Len(t)) :
           (s \o t)[i] = IF i <= Len(s) THEN s[i] ELSE t[i - Len(s)]
  OBVIOUS
<1>2. ASSUME NEW x PROVE x \in Elems(s \o t) <=> x \in Elems(s) \cup Elems(t)
  <2>1. ASSUME x \in Elems(s \o t) PROVE x \in Elems(s) \cup Elems(t)
    <3>1. PICK i \in 1..(Len(s) + Len(t)) : x = (s \o t)[i]
      BY <1>1, <2>1 DEF Elems
    <3>2. CASE i <= Len(s)
      BY <1>1, <3>1, <3>2 DEF Elems
    <3>3. CASE ~(i <= Len(s))
      <4>1. i - Len(s) \in 1..Len(t) /\ x = t[i - Len(s)]
        BY <1>1, <3>1, <3>3
      <4> QED  BY <1>1, <4>1 DEF Elems
    <3> QED  BY <3>2, <3>3
  <2>2. ASSUME x \in Elems(s) PROVE x \in Elems(s \o t)
    <3>1. PICK i \in 1..Len(s) : x = s[i]
      BY <1>1, <2>2 DEF Elems
    <3>2. i \in 1..(Len(s) + Len(t)) /\ x = (s \o t)[i]
      BY <1>1, <3>1
    <3> QED  BY <1>1, <3>2 DEF Elems
  <2>3. ASSUME x \in Elems(t) PROVE x \in Elems(s \o t)
    <3>1. PICK i \in 1..Len(t) : x = t[i]
      BY <1>1, <2>3 DEF Elems
    <3>2. i + Len(s) \in 1..(Len(s) + Len(t)) /\ x = (s \o t)[i + Len(s)]
      BY <1>1, <3>1
    <3> QED  BY <1>1, <3>2 DEF Elems
  <2> QED  BY <2>1, <2>2, <2>3
<1> QED  BY <1>2

\* A run that stays at work on one file changes none of this.
LEMMA WritingStep ==
  ASSUME NEW r \in Runs, RunInv(r), pc[r] \in Writing, pc'[r] \in Writing,
         UNCHANGED <<runVars, loopVars, file, seenVars>>
  PROVE  RunInv(r)'
<1> USE DEF RunInv, runVars, loopVars, seenVars
<1>1. Past(r) /\ Past(r)' /\ pc[r] \notin {"check", "hash", "manifest"}
      /\ pc'[r] \notin {"check", "hash", "manifest"}
  BY DEF Past, Live, LivePhases, Writing
<1>2. LoopInv(r)'
  BY <1>1 DEF LoopInv, ListedFiles
<1>3. OwnFiles(r)'
  BY <1>1 DEF OwnFiles, ListedFiles
<1>4. Unreplaced(r)'
  BY <1>1 DEF Unreplaced, ListedFiles, Past
<1>5. Digests(r)'
  BY <1>1 DEF Digests, ListedFiles
<1> QED  BY <1>2, <1>3, <1>4, <1>5

\* A step of the live run that publishes nothing and takes no size or digest
\* keeps what the manifest in place says, unless it starts over.
LEMMA ManifestKept ==
  ASSUME ManifestInv, NEW r \in Runs,
         UNCHANGED <<file, tables, seenVars>>,
         \A s \in Runs \ {r} : pc'[s] = pc[s] /\ cur'[s] = cur[s],
         file[ManifestFile] = r => Finished(r)'
  PROVE  ManifestInv'
<1> SUFFICES ASSUME NEW m \in Runs, file[ManifestFile] = m
             PROVE  Finished(m)' /\ Recorded(m)'
  BY DEF ManifestInv
<1>1. Finished(m)'
  BY DEF ManifestInv, Finished
<1>2. Recorded(m)'
  BY DEF ManifestInv, Recorded, ListedFiles, seenVars
<1> QED  BY <1>1, <1>2

\* Every step of the live run keeps the invariant.
LEMMA StepPublishInv ==
  ASSUME PublishInv, AloneInv', NEW r \in Runs, Step(r)
  PROVE  PublishInv'
<1> USE NoneIsNoRun, PathsDistinct
<1>1. AloneInv /\ ManifestInv /\ \A s \in Runs : RunInv(s)
  BY DEF PublishInv
<1>2. /\ Live(r)
      /\ \A s \in Runs \ {r} : ~Live(s) /\ pc'[s] = pc[s]
  BY <1>1, StepIsAlone
<1>3. \A s \in Runs \ {r} : RunInv(s)'
  BY <1>2 DEF RunInv, LoopInv, OwnFiles, Unreplaced, Digests, Past, Live
<1>4. SUFFICES RunInv(r)' /\ ManifestInv'
  BY <1>3 DEF PublishInv
<1>5. TypeOK /\ TypeOK' /\ LoopInv(r) /\ OwnFiles(r) /\ Unreplaced(r) /\ Digests(r)
  BY <1>1 DEF AloneInv, TypeInv, RunInv
<1>6. /\ pc \in [Runs -> {"idle"} \cup LivePhases \cup FinalPhases]
      /\ cur \in [Runs -> Paths] /\ cur[r] \in Paths
      /\ todo \in [Runs -> Seq(Paths)] /\ todo[r] \in Seq(Paths)
      /\ tables \in [Runs -> Seq(SecondaryTables)]
      /\ file \in [Paths -> Runs \cup {None}]
  BY <1>5 DEF TypeOK
<1>7. /\ ListedFiles(r) \subseteq Paths /\ ManifestFile \notin ListedFiles(r)
      /\ ManifestFile \in Paths /\ Resources \in ListedFiles(r)
  <2>1. Elems(tables[r]) \subseteq SecondaryTables
    BY <1>6 DEF Elems
  <2> QED  BY <2>1 DEF ListedFiles, Paths
<1>8. CASE CheckAbsent(r)
  <2>1. /\ UNCHANGED <<runVars, cur, file, seenVars>>
        /\ pc[r] = "check" /\ todo[r] # << >>
    BY <1>8 DEF CheckAbsent, dirVars
  <2>2. ManifestInv'
    <3>1. file[ManifestFile] # r
      BY <1>1, <2>1 DEF ManifestInv, Finished, FinalPhases
    <3> QED  BY <1>1, <1>2, <2>1, <3>1, ManifestKept DEF runVars
  <2>3. CASE file[Head(todo[r])] # None
    <3>1. pc'[r] = "refused"
      BY <1>6, <1>8, <2>3 DEF CheckAbsent, Goto
    <3> QED
      BY <2>2, <3>1 DEF RunInv, LoopInv, OwnFiles, Unreplaced, Digests, Past,
                        Live, LivePhases
  <2>4. CASE file[Head(todo[r])] = None
    <3>1. pc' = pc /\ todo'[r] = Tail(todo[r])
      BY <1>6, <1>8, <2>4 DEF CheckAbsent
    <3>2. Elems(todo[r]) = {Head(todo[r])} \cup Elems(todo'[r])
      BY <1>6, <2>1, <3>1, ElemsOfLists
    <3>3. ~Past(r)'
      BY <2>1, <3>1 DEF Past
    <3>4. Unreplaced(r)'
      BY <1>5, <2>1, <2>4, <3>1, <3>2 DEF Unreplaced, ListedFiles, runVars, Live
    <3> QED  BY <2>2, <3>3, <3>4 DEF RunInv, LoopInv, OwnFiles, Digests
  <2> QED  BY <2>3, <2>4
<1>9. CASE BeginResources(r)
  <2>1. /\ UNCHANGED <<runVars, file, seenVars>>
        /\ pc[r] = "check" /\ todo[r] = << >>
        /\ pc'[r] = "probe" /\ cur'[r] = Resources /\ todo'[r] = tables[r]
        /\ \A s \in Runs \ {r} : cur'[s] = cur[s]
    BY <1>6, <1>9 DEF BeginResources, Goto, dirVars
  <2>2. ManifestInv'
    <3>1. file[ManifestFile] # r
      BY <1>1, <2>1 DEF ManifestInv, Finished, FinalPhases
    <3> QED  BY <1>1, <1>2, <2>1, <3>1, ManifestKept DEF runVars
  <2>3. LoopInv(r)'
    BY <2>1 DEF LoopInv, ListedFiles, runVars
  <2>4. OwnFiles(r)'
    BY <2>1 DEF OwnFiles, ListedFiles, runVars, Writing
  <2>5. Unreplaced(r)'
    BY <1>2, <1>5, <2>1, ElemsOfLists DEF Unreplaced, ListedFiles, runVars
  <2>6. Digests(r)'
    BY <2>1 DEF Digests, ListedFiles, runVars, Writing
  <2> QED  BY <2>2, <2>3, <2>4, <2>5, <2>6 DEF RunInv
<1>10. CASE ProbePartial(r) \/ UnlinkPartial(r) \/ CreatePartial(r)
            \/ WriteChunk(r) \/ SyncPartial(r)
  <2>1. /\ UNCHANGED <<runVars, loopVars, file, seenVars>>
        /\ pc[r] \in Writing
    BY <1>10 DEF ProbePartial, UnlinkPartial, CreatePartial, WriteChunk,
                 SyncPartial, dirVars, Writing
  <2>2. pc'[r] \in Writing
    <3>1. pc'[r] \in Writing \cup {"conflict"}
      BY <1>6, <1>10 DEF ProbePartial, UnlinkPartial, CreatePartial,
                         WriteChunk, SyncPartial, Goto, Writing
    <3>2. pc'[r] # "conflict"
      BY DEF AloneInv, NoConflict
    <3> QED  BY <3>1, <3>2
  <2>3. RunInv(r)'
    BY <1>1, <2>1, <2>2, WritingStep
  <2>4. file[ManifestFile] # r
    BY <1>1, <2>1 DEF ManifestInv, Finished, FinalPhases, Writing
  <2> QED  BY <1>1, <1>2, <2>1, <2>3, <2>4, ManifestKept DEF runVars, loopVars
<1>11. CASE RenamePartial(r)
  <2>1. partial[cur[r]] = r /\ pc[r] = "rename"
    BY <1>1, <1>11 DEF RenamePartial, AloneInv, OwnPartial
  <2>2. /\ UNCHANGED <<runVars, loopVars, seenVars>>
        /\ file' = [file EXCEPT ![cur[r]] = r]
        /\ pc'[r] = "stat"
    BY <1>6, <1>11, <2>1 DEF RenamePartial, Goto
  <2>3. Past(r) /\ Past(r)' /\ pc[r] \in Writing
    BY <2>1, <2>2 DEF Past, Live, LivePhases, Writing
  <2>4. file'[cur[r]] = r /\ \A p \in Paths \ {cur[r]} : file'[p] = file[p]
    BY <1>6, <2>2
  <2>5. LoopInv(r)'
    BY <1>5, <2>1, <2>2, <2>3 DEF LoopInv, ListedFiles, runVars, loopVars
  <2>6. OwnFiles(r)'
    BY <1>5, <1>7, <2>2, <2>3, <2>4 DEF OwnFiles, ListedFiles, runVars, loopVars
  <2>7. Unreplaced(r)'
    BY <1>2, <1>5, <1>7, <2>1, <2>2, <2>4
       DEF Unreplaced, ListedFiles, runVars, loopVars
  <2>8. Digests(r)'
    BY <1>5, <2>1, <2>2, <2>3 DEF Digests, ListedFiles, runVars, loopVars, seenVars
  <2>9. ManifestInv'
    <3> SUFFICES ASSUME NEW m \in Runs, file'[ManifestFile] = m
                 PROVE  Finished(m)' /\ Recorded(m)'
      BY DEF ManifestInv
    <3>1. CASE cur[r] = ManifestFile
      <4>1. m = r /\ todo[r] = << >>
        BY <1>5, <2>3, <2>4, <3>1 DEF LoopInv
      <4>2. Finished(r)'
        BY <2>2, <3>1 DEF Finished, loopVars
      <4>3. Recorded(r)
        BY <1>5, <1>7, <2>3, <3>1, <4>1, ElemsOfLists DEF Digests, Recorded
      <4>4. Recorded(r)'
        BY <2>2, <4>3 DEF Recorded, ListedFiles, runVars, seenVars
      <4> QED  BY <4>1, <4>2, <4>4
    <3>2. CASE cur[r] # ManifestFile
      <4>1. file[ManifestFile] = m
        BY <1>7, <2>4, <3>2
      <4>2. m # r /\ Finished(m) /\ Recorded(m)
        BY <1>1, <2>1, <4>1 DEF ManifestInv, Finished, FinalPhases
      <4> QED
        BY <1>2, <2>2, <4>2 DEF Finished, Recorded, ListedFiles, runVars,
                                loopVars, seenVars
    <3> QED  BY <3>1, <3>2
  <2> QED  BY <2>5, <2>6, <2>7, <2>8, <2>9 DEF RunInv
<1>12. CASE StatFile(r)
  <2>1. /\ UNCHANGED <<runVars, loopVars, file, hash>>
        /\ pc[r] = "stat"
        /\ pc'[r] = IF cur[r] = Resources THEN "next" ELSE "hash"
        /\ stat' = [stat EXCEPT ![r][cur[r]] = len[file[cur[r]]][cur[r]]]
    BY <1>6, <1>12 DEF StatFile, Goto, dirVars
  <2>2. Past(r) /\ Past(r)' /\ pc'[r] \notin Writing /\ pc[r] \notin Writing
    BY <2>1 DEF Past, Live, LivePhases, Writing
  <2>3. len[file[cur[r]]][cur[r]] = Full
    BY <1>1, <1>6, <2>1
       DEF AloneInv, TypeInv, Present, NoHalfWrittenFile, Whole
  <2>4. /\ stat'[r][cur[r]] = Full
        /\ \A s \in Runs, p \in Paths : stat'[s][p] = stat[s][p]
                                        \/ (s = r /\ p = cur[r])
    BY <1>5, <1>6, <2>1, <2>3 DEF TypeOK
  <2>5. LoopInv(r)'
    BY <1>5, <2>1, <2>2 DEF LoopInv, ListedFiles, runVars, loopVars
  <2>6. OwnFiles(r)'
    BY <1>5, <2>1, <2>2 DEF OwnFiles, ListedFiles, runVars, loopVars
  <2>7. Unreplaced(r)'
    BY <1>2, <1>5, <2>1 DEF Unreplaced, ListedFiles, runVars, loopVars
  <2>8. Digests(r)'
    <3> SUFFICES ASSUME NEW p \in ListedFiles(r)
                 PROVE  /\ \/ stat'[r][p] = Full
                           \/ p \in Elems(todo[r])
                        /\ \/ hash[r][p] = <<r, p, Full>>
                           \/ p \in Elems(todo[r])
                           \/ p = cur[r] /\ pc'[r] = "hash"
                           \/ p = Resources /\ cur[r] # ManifestFile
                                /\ pc'[r] # "manifest"
      BY <2>1 DEF Digests, ListedFiles, runVars, loopVars
    <3> QED  BY <1>5, <1>7, <2>1, <2>2, <2>4 DEF Digests
  <2>9. ManifestInv'
    <3> SUFFICES ASSUME NEW m \in Runs, file[ManifestFile] = m
                 PROVE  Finished(m)' /\ Recorded(m)'
      BY <2>1 DEF ManifestInv
    <3>1. Finished(m) /\ Recorded(m)
      BY <1>1 DEF ManifestInv
    <3>2. Finished(m)'
      BY <1>2, <2>1, <3>1 DEF Finished, loopVars, FinalPhases
    <3>3. ListedFiles(m) \subseteq Paths
      BY <1>6 DEF ListedFiles, Elems, Paths
    <3>4. Recorded(m)'
      BY <2>1, <2>4, <3>1, <3>3 DEF Recorded, ListedFiles, runVars
    <3> QED  BY <3>2, <3>4
  <2> QED  BY <2>5, <2>6, <2>7, <2>8, <2>9 DEF RunInv
<1>13. CASE HashFile(r)
  <2>1. /\ UNCHANGED <<runVars, loopVars, file, stat>>
        /\ pc[r] = "hash"
        /\ pc'[r] = CASE cur[r] = ManifestFile -> "done"
                      [] cur[r] = Resources -> "manifest"
                      [] OTHER -> "next"
        /\ hash' = [hash EXCEPT ![r][cur[r]] = Content(cur[r])]
    BY <1>6, <1>13 DEF HashFile, Goto, dirVars
  <2>2. Past(r) /\ pc[r] \notin Writing
    BY <2>1 DEF Past, Live, LivePhases, Writing
  <2>3. /\ hash'[r][cur[r]] = Content(cur[r])
        /\ \A s \in Runs, p \in Paths : hash'[s][p] = hash[s][p]
                                        \/ (s = r /\ p = cur[r])
    BY <1>5, <1>6, <2>1 DEF TypeOK
  <2>4. ManifestInv'
    <3> SUFFICES ASSUME NEW m \in Runs, file[ManifestFile] = m
                 PROVE  Finished(m)' /\ Recorded(m)'
      BY <2>1 DEF ManifestInv
    <3>1. Finished(m) /\ Recorded(m)
      BY <1>1 DEF ManifestInv
    <3>2. Finished(m)' /\ (m = r => cur[r] = ManifestFile)
      BY <1>2, <2>1, <3>1 DEF Finished, loopVars, FinalPhases
    <3>3. ListedFiles(m) \subseteq Paths /\ ManifestFile \notin ListedFiles(m)
      BY <1>6 DEF ListedFiles, Elems, Paths
    <3>4. Recorded(m)'
      BY <2>1, <2>3, <3>1, <3>2, <3>3 DEF Recorded, ListedFiles, runVars
    <3> QED  BY <3>2, <3>4
  <2>5. CASE cur[r] = ManifestFile
    <3>1. ~Live(r)'
      BY <2>1, <2>5 DEF Live, LivePhases
    <3> QED
      BY <2>4, <3>1 DEF RunInv, LoopInv, OwnFiles, Unreplaced, Digests, Past
  <2>6. CASE cur[r] # ManifestFile
    <3>1. /\ pc'[r] = IF cur[r] = Resources THEN "manifest" ELSE "next"
          /\ Past(r)' /\ pc'[r] \notin Writing
      BY <2>1, <2>6 DEF Past, Live, LivePhases, Writing
    <3>2. LoopInv(r)'
      BY <1>5, <2>1, <2>2, <2>6, <3>1 DEF LoopInv, ListedFiles, runVars, loopVars
    <3>3. OwnFiles(r)'
      BY <1>5, <2>1, <2>2, <3>1 DEF OwnFiles, ListedFiles, runVars, loopVars
    <3>4. Unreplaced(r)'
      BY <1>2, <1>5, <2>1 DEF Unreplaced, ListedFiles, runVars, loopVars
    <3>5. cur[r] \in ListedFiles(r)
      BY <1>5, <2>2, <2>6 DEF LoopInv
    <3>6. CASE cur[r] \in Elems(todo[r])
      BY <1>5, <1>7, <2>1, <2>2, <2>3, <3>1, <3>6, <3>2, <3>3, <3>4, <2>4
         DEF Digests, ListedFiles, runVars, loopVars, RunInv
    <3>7. CASE cur[r] \notin Elems(todo[r])
      <4>1. file[cur[r]] = r
        BY <1>5, <2>2, <3>5, <3>7 DEF OwnFiles
      <4>2. Content(cur[r]) = <<r, cur[r], Full>>
        BY <1>1, <1>6, <4>1 DEF Content, AloneInv, NoHalfWrittenFile, Whole
      <4>3. Digests(r)'
        <5> SUFFICES ASSUME NEW p \in ListedFiles(r)
                     PROVE  /\ stat[r][p] = Full \/ p \in Elems(todo[r])
                            /\ \/ hash'[r][p] = <<r, p, Full>>
                               \/ p \in Elems(todo[r])
                               \/ p = Resources /\ pc'[r] # "manifest"
          BY <2>1, <2>6 DEF Digests, ListedFiles, runVars, loopVars
        <5>1. p = cur[r] => hash'[r][p] = <<r, p, Full>>
          BY <2>3, <4>2
        <5>2. p # cur[r] => hash'[r][p] = hash[r][p]
          BY <1>7, <2>3
        <5> QED
          BY <1>5, <2>1, <2>2, <3>1, <5>1, <5>2 DEF Digests
      <4> QED  BY <2>4, <3>2, <3>3, <3>4, <4>3 DEF RunInv
    <3> QED  BY <3>6, <3>7
  <2> QED  BY <2>5, <2>6
<1>14. CASE NextTable(r)
  <2>1. /\ UNCHANGED <<runVars, file, seenVars>>
        /\ pc[r] = "next" /\ todo[r] # << >>
        /\ pc'[r] = "probe" /\ cur'[r] = Head(todo[r])
        /\ todo'[r] = Tail(todo[r])
        /\ \A s \in Runs \ {r} : cur'[s] = cur[s]
    BY <1>6, <1>14 DEF NextTable, Goto, dirVars
  <2>2. Past(r) /\ Past(r)' /\ pc[r] \notin Writing /\ pc'[r] \in Writing
    BY <2>1 DEF Past, Live, LivePhases, Writing
  <2>3. Elems(todo[r]) = {cur'[r]} \cup Elems(todo'[r])
    BY <1>6, <2>1, ElemsOfLists
  <2>4. cur'[r] # ManifestFile /\ cur[r] # ManifestFile
    BY <1>5, <1>7, <2>1, <2>2, <2>3 DEF LoopInv, ListedFiles
  <2>5. LoopInv(r)'
    BY <1>5, <2>1, <2>2, <2>3, <2>4 DEF LoopInv, ListedFiles, runVars
  <2>6. OwnFiles(r)'
    BY <1>5, <2>1, <2>2, <2>3 DEF OwnFiles, ListedFiles, runVars
  <2>7. Unreplaced(r)'
    BY <1>2, <1>5, <2>1 DEF Unreplaced, ListedFiles, runVars
  <2>8. Digests(r)'
    BY <1>5, <2>1, <2>2, <2>3, <2>4 DEF Digests, ListedFiles, runVars, seenVars
  <2>9. file[ManifestFile] # r
    BY <1>1, <2>1 DEF ManifestInv, Finished, FinalPhases
  <2>10. ManifestInv'
    BY <1>1, <1>2, <2>1, <2>9, ManifestKept DEF runVars
  <2> QED  BY <2>5, <2>6, <2>7, <2>8, <2>10 DEF RunInv
<1>15. CASE HashResources(r)
  <2>1. /\ UNCHANGED <<runVars, todo, file, seenVars>>
        /\ pc[r] = "next" /\ todo[r] = << >>
        /\ pc'[r] = "hash" /\ cur'[r] = Resources
        /\ \A s \in Runs \ {r} : cur'[s] = cur[s]
    BY <1>6, <1>15 DEF HashResources, Goto, dirVars
  <2>2. Past(r) /\ Past(r)' /\ pc[r] \notin Writing /\ pc'[r] \notin Writing
    BY <2>1 DEF Past, Live, LivePhases, Writing
  <2>3. LoopInv(r)'
    BY <1>5, <1>7, <2>1, <2>2 DEF LoopInv, ListedFiles, runVars
  <2>4. OwnFiles(r)'
    BY <1>5, <2>1, <2>2 DEF OwnFiles, ListedFiles, runVars
  <2>5. Unreplaced(r)'
    BY <1>2, <1>5, <2>1 DEF Unreplaced, ListedFiles, runVars
  <2>6. Digests(r)'
    BY <1>5, <2>1, <2>2 DEF Digests, ListedFiles, runVars, seenVars
  <2>7. file[ManifestFile] # r
    BY <1>1, <2>1 DEF ManifestInv, Finished, FinalPhases
  <2>8. ManifestInv'
    BY <1>1, <1>2, <2>1, <2>7, ManifestKept DEF runVars
  <2> QED  BY <2>3, <2>4, <2>5, <2>6, <2>8 DEF RunInv
<1>16. CASE BeginManifest(r)
  <2>1. /\ UNCHANGED <<runVars, todo, file, seenVars>>
        /\ pc[r] = "manifest"
        /\ \A s \in Runs \ {r} : cur'[s] = cur[s]
        /\ \/ pc'[r] = "refused"
           \/ pc'[r] = "probe" /\ cur'[r] = ManifestFile
    BY <1>6, <1>16 DEF BeginManifest, Goto, dirVars
  <2>2. Past(r) /\ pc[r] \notin Writing
    BY <2>1 DEF Past, Live, LivePhases, Writing
  <2>3. file[ManifestFile] # r
    BY <1>1, <2>1 DEF ManifestInv, Finished, FinalPhases
  <2>4. ManifestInv'
    BY <1>1, <1>2, <2>1, <2>3, ManifestKept DEF runVars
  <2>5. CASE pc'[r] = "refused"
    <3>1. ~Live(r)'
      BY <2>5 DEF Live, LivePhases
    <3> QED
      BY <2>4, <3>1 DEF RunInv, LoopInv, OwnFiles, Unreplaced, Digests, Past
  <2>6. CASE pc'[r] = "probe" /\ cur'[r] = ManifestFile
    <3>1. Past(r)' /\ pc'[r] \in Writing
      BY <2>6 DEF Past, Live, LivePhases, Writing
    <3>2. LoopInv(r)'
      BY <1>5, <2>1, <2>2, <2>6 DEF LoopInv, ListedFiles, runVars
    <3>3. OwnFiles(r)'
      BY <1>5, <2>1, <2>2, <3>1 DEF OwnFiles, ListedFiles, runVars
    <3>4. Unreplaced(r)'
      BY <1>2, <1>5, <2>1, <2>6 DEF Unreplaced, ListedFiles, runVars
    <3>5. Digests(r)'
      BY <1>5, <2>1, <2>2, <3>1 DEF Digests, ListedFiles, runVars, seenVars
    <3> QED  BY <2>4, <3>2, <3>3, <3>4, <3>5 DEF RunInv
  <2> QED  BY <2>1, <2>5, <2>6
<1> QED
  BY <1>8, <1>9, <1>10, <1>11, <1>12, <1>13, <1>14, <1>15, <1>16 DEF Step

\* So does every other step, as long as runs follow one another.
LEMMA NextPublishInv ==
  ASSUME Exclusive, PublishInv, [Next]_vars
  PROVE  PublishInv'
<1> USE NoneIsNoRun, PathsDistinct
<1>1. AloneInv /\ AloneInv' /\ ManifestInv /\ \A s \in Runs : RunInv(s)
  BY NextAloneInv DEF PublishInv
<1>2. /\ pc \in [Runs -> {"idle"} \cup LivePhases \cup FinalPhases]
      /\ tables \in [Runs -> Seq(SecondaryTables)]
      /\ todo \in [Runs -> Seq(Paths)] /\ overwrite \in [Runs -> BOOLEAN]
  BY <1>1 DEF AloneInv, TypeInv, TypeOK
<1>3. ASSUME NEW r \in Runs, Start(r) PROVE PublishInv'
  <2>1. PICK o \in OverwriteModes, ts \in TableLists :
          /\ overwrite' = [overwrite EXCEPT ![r] = o]
          /\ tables' = [tables EXCEPT ![r] = ts]
          /\ todo' = [todo EXCEPT ![r] =
               IF o THEN << >> ELSE <<Resources, ManifestFile>> \o ts]
    BY <1>3 DEF Start
  <2>2. /\ pc[r] = "idle" /\ \A s \in Runs : ~Live(s)
        /\ pc' = [pc EXCEPT ![r] = "check"]
        /\ UNCHANGED <<cur, file, seenVars>>
    BY <1>3 DEF Start, Goto, dirVars
  <2>3. \A s \in Runs : ~Past(s)' /\ (Live(s)' => s = r)
    BY <1>2, <2>2 DEF Past, Live
  <2>4. Unreplaced(r)'
    <3> SUFFICES ASSUME ~overwrite'[r],
                        NEW p \in ListedFiles(r)' \cup {ManifestFile}
                 PROVE  p \in Elems(todo'[r])
      BY <1>2, <2>2 DEF Unreplaced
    <3> DEFINE first == <<Resources, ManifestFile>>
    <3>1. first \in Seq(Paths) /\ Elems(first) = {Resources, ManifestFile}
      BY DEF Elems, Paths
    <3>2. ts \in Seq(Paths)
      BY TablesAreLists, TablesArePaths
    <3>3. /\ todo'[r] = first \o ts
          /\ p \in {Resources, ManifestFile} \cup Elems(ts)
      BY <1>2, <2>1 DEF ListedFiles
    <3> HIDE DEF first
    <3> QED  BY <3>1, <3>2, <3>3, ElemsOfConcat
  <2>5. \A s \in Runs : RunInv(s)'
    BY <2>3, <2>4 DEF RunInv, LoopInv, OwnFiles, Unreplaced, Digests
  <2>6. ManifestInv'
    <3> SUFFICES ASSUME NEW m \in Runs, file[ManifestFile] = m
                 PROVE  Finished(m)' /\ Recorded(m)'
      BY <2>2 DEF ManifestInv
    <3>1. Finished(m) /\ Recorded(m) /\ m # r
      BY <1>1, <2>2 DEF ManifestInv, Finished, FinalPhases
    <3>2. Finished(m)'
      BY <1>2, <2>2, <3>1 DEF Finished
    <3>3. tables'[m] = tables[m]
      BY <1>2, <2>1, <3>1
    <3> QED  BY <2>2, <3>1, <3>2, <3>3 DEF Recorded, ListedFiles, seenVars
  <2> QED  BY <1>1, <2>5, <2>6 DEF PublishInv
<1>4. ASSUME NEW r \in Runs, Step(r) PROVE PublishInv'
  BY <1>1, <1>4, StepPublishInv
<1>5. ASSUME \A s \in Runs : \/ pc'[s] = pc[s] /\ RunInv(s)'
                             \/ pc'[s] = "aborted" /\ pc[s] \in LivePhases,
             UNCHANGED <<file, tables, cur, seenVars>>
      PROVE  PublishInv'
  <2>1. \A s \in Runs : RunInv(s)'
    BY <1>5 DEF RunInv, LoopInv, OwnFiles, Unreplaced, Digests, Past, Live,
                LivePhases
  <2>2. ManifestInv'
    BY <1>1, <1>5 DEF ManifestInv, Finished, FinalPhases, Recorded,
                      ListedFiles, seenVars
  <2> QED  BY <1>1, <2>1, <2>2 DEF PublishInv
<1>6. ASSUME NEW r \in Runs, Abort(r) PROVE PublishInv'
  <2>1. /\ pc[r] \in LivePhases /\ pc' = [pc EXCEPT ![r] = "aborted"]
        /\ UNCHANGED <<runVars, loopVars, file, seenVars>>
    BY <1>6 DEF Abort, Goto, dirVars, Live
  <2>2. ASSUME NEW s \in Runs, s # r PROVE pc'[s] = pc[s] /\ RunInv(s)'
    <3>1. pc'[s] = pc[s]
      BY <1>2, <2>1, <2>2
    <3> QED
      BY <1>1, <2>1, <3>1
         DEF RunInv, LoopInv, OwnFiles, Unreplaced, Digests, Past, Live,
             ListedFiles, runVars, loopVars, seenVars
  <2>3. pc'[r] = "aborted"
    BY <1>2, <2>1
  <2> QED  BY <1>5, <2>1, <2>2, <2>3 DEF runVars, loopVars
<1>7. CASE PowerLoss
  <2>1. /\ pc' = [s \in Runs |-> IF Live(s) THEN "aborted" ELSE pc[s]]
        /\ UNCHANGED <<runVars, loopVars, file, seenVars>>
    BY <1>7 DEF PowerLoss, dirVars
  <2>2. ASSUME NEW s \in Runs, ~Live(s) PROVE pc'[s] = pc[s] /\ RunInv(s)'
    <3>1. pc'[s] = pc[s] /\ ~Live(s)'
      BY <2>1, <2>2 DEF Live
    <3> QED
      BY <3>1 DEF RunInv, LoopInv, OwnFiles, Unreplaced, Digests, Past
  <2>3. \A s \in Runs : Live(s) => pc'[s] = "aborted" /\ pc[s] \in LivePhases
    BY <2>1 DEF Live
  <2> QED  BY <1>5, <2>1, <2>2, <2>3 DEF runVars, loopVars
<1>8. CASE UNCHANGED vars
  BY <1>1, <1>8
     DEF vars, runVars, loopVars, dirVars, dataVars, seenVars, PublishInv,
         RunInv, LoopInv, OwnFiles, Unreplaced, Digests, Past, Live,
         ListedFiles, ManifestInv, Finished, Recorded
<1> QED  BY <1>3, <1>4, <1>6, <1>7, <1>8 DEF Next

\* Before any run has started, the invariant holds.
LEMMA InitPublishInv == Init => PublishInv
<1> SUFFICES ASSUME Init PROVE PublishInv
  OBVIOUS
<1>1. AloneInv
  BY InitTypeInv, NoneIsNoRun
     DEF Init, AloneInv, OneLive, Live, LivePhases, OwnPartial,
         NoHalfWrittenFile, NoConflict
<1>2. ManifestInv
  BY NoneIsNoRun DEF Init, ManifestInv, Paths
<1>3. \A r \in Runs : RunInv(r)
  BY DEF Init, RunInv, LoopInv, OwnFiles, Unreplaced, Digests, Past, Live,
         LivePhases
<1> QED  BY <1>1, <1>2, <1>3 DEF PublishInv

\* Hence, when runs follow one another, the invariant always holds.
LEMMA PublishInvariant == ASSUME Exclusive PROVE Spec => []PublishInv
<1>1. Init => PublishInv
  BY InitPublishInv
<1>2. PublishInv /\ [Next]_vars => PublishInv'
  BY NextPublishInv
<1> QED  BY <1>1, <1>2, PTL DEF Spec

\* A file that matches its entry in the manifest is that run's own, and a
\* file that is the run's own matches.
LEMMA MatchIsOwn ==
  ASSUME AloneInv, NEW m \in Runs, Recorded(m), NEW p \in ListedFiles(m)
  PROVE  Matches(m, p) <=> file[p] = m
<1>1. p \in Paths /\ hash[m][p] = <<m, p, Full>> /\ stat[m][p] = Full
  <2>1. tables[m] \in Seq(SecondaryTables)
    BY DEF AloneInv, TypeInv, TypeOK
  <2> QED  BY <2>1 DEF Recorded, ListedFiles, Elems, Paths
<1>2. file[p] = m => len[m][p] = Full
  BY <1>1, NoneIsNoRun DEF AloneInv, NoHalfWrittenFile, Whole
<1> QED  BY <1>1, <1>2, NoneIsNoRun DEF Matches, Content

\* Listed(m) is Resources followed by the tables of the run.
LEMMA ListedIsList ==
  ASSUME TypeOK, NEW m \in Runs
  PROVE  /\ Listed(m) \in Seq(Paths)
         /\ Elems(Listed(m)) = ListedFiles(m)
<1>1. tables[m] \in Seq(Paths) /\ <<Resources>> \in Seq(Paths)
  BY TablesArePaths DEF TypeOK, Paths
<1>2. Elems(<<Resources>>) = {Resources}
  BY DEF Elems
<1>3. Elems(<<Resources>> \o tables[m]) = {Resources} \cup Elems(tables[m])
  <2>1. Elems(<<Resources>> \o tables[m])
          = Elems(<<Resources>>) \cup Elems(tables[m])
    BY <1>1, ElemsOfConcat
  <2> QED  BY <1>2, <2>1, Zenon
<1>4. <<Resources>> \o tables[m] \in Seq(Paths)
  BY <1>1, ConcatProperties
<1> QED  BY <1>3, <1>4, Zenon DEF Listed, ListedFiles

\* When runs follow one another, however each of them ends, the entries of
\* the manifest in place match exactly when every file it lists is of its run.
THEOREM ManifestTells ==
  ASSUME Exclusive PROVE Spec => []ManifestTellsSameRun
<1>1. PublishInv => ManifestTellsSameRun
  <2> SUFFICES ASSUME PublishInv, file[ManifestFile] # None
               PROVE  Vouched(file[ManifestFile]) <=> OneRun(file[ManifestFile])
    BY DEF ManifestTellsSameRun
  <2> DEFINE m == file[ManifestFile]
  <2>1. AloneInv /\ TypeOK /\ m \in Runs
    BY DEF PublishInv, AloneInv, TypeInv, TypeOK, Paths
  <2>2. Recorded(m)
    BY <2>1 DEF PublishInv, ManifestInv
  <2> HIDE DEF m
  <2>3. \A p \in ListedFiles(m) : Matches(m, p) <=> file[p] = m
    BY <2>1, <2>2, MatchIsOwn
  <2>4. \A i \in DOMAIN Listed(m) : Listed(m)[i] \in ListedFiles(m)
    BY <2>1, ListedIsList DEF Elems
  <2>5. Vouched(m) <=> OneRun(m)
    BY <2>3, <2>4 DEF Vouched, OneRun
  <2> QED  BY <2>5 DEF m
<1> QED  BY <1>1, PublishInvariant, PTL

-----------------------------------------------------------------------------
(* What holds of every step.                                                *)

\* A published name never disappears, whether or not runs overlap.
THEOREM NamesStay == Spec => NeverVanishes
<1>1. TypeOK /\ [Next]_vars => [\A p \in Paths : file[p] # None => file'[p] # None]_vars
  <2> SUFFICES ASSUME TypeOK, Next, NEW p \in Paths, file[p] # None
               PROVE  file'[p] # None
    OBVIOUS
  <2>1. ASSUME NEW r \in Runs, RenamePartial(r) PROVE file'[p] # None
    BY <2>1 DEF RenamePartial, TypeOK, dirVars
  <2>2. ASSUME NEW r \in Runs, Step(r), ~RenamePartial(r) PROVE file' = file
    BY <2>2 DEF Step, CheckAbsent, BeginResources, ProbePartial,
         UnlinkPartial, CreatePartial, WriteChunk, SyncPartial, StatFile,
         HashFile, NextTable, HashResources, BeginManifest, dirVars
  <2>3. ASSUME NEW r \in Runs, Start(r) \/ Abort(r) PROVE file' = file
    BY <2>3 DEF Start, Abort, dirVars
  <2>4. CASE PowerLoss
    BY <2>4 DEF PowerLoss, dirVars
  <2> QED  BY <2>1, <2>2, <2>3, <2>4 DEF Next
<1> QED  BY <1>1, TypeCorrect, PTL DEF Spec, NeverVanishes

-----------------------------------------------------------------------------
(* The refinement.  With every published file whole, the directory that     *)
(* RunPublication sees is `file` itself; a rename is a Publish, a Commit    *)
(* or, of a file the run has replaced before, no step at all.               *)

PhaseBar == [r \in Runs |-> IF pc[r] = "idle" THEN "idle"
                            ELSE IF Live(r) THEN "running" ELSE "ended"]
WantedBar == [r \in Runs |-> {tables[r][i] : i \in DOMAIN tables[r]}]
DirBar == [p \in Paths |-> IF file[p] = None THEN None
                           ELSE IF Whole(file[p], p) THEN file[p] ELSE "torn"]

\* The directory as RunPublication sees it holds no torn file.
LEMMA DirIsFile == /\ AloneInv => DirBar = file
                   /\ AloneInv' => DirBar' = file'
<1>1. AloneInv => DirBar = file
  BY DEF AloneInv, TypeInv, TypeOK, NoHalfWrittenFile, DirBar
<1>2. AloneInv' => DirBar' = file'
  BY DEF AloneInv, TypeInv, TypeOK, NoHalfWrittenFile, DirBar
<1> QED  BY <1>1, <1>2

\* A step of a run that changes no name in the directory is none, or its end.
LEMMA QuietStep ==
  ASSUME AloneInv, AloneInv', NEW r \in Runs, Live(r), pc'[r] # "idle",
         UNCHANGED <<file, runVars>>,
         \A s \in Runs \ {r} : pc'[s] = pc[s]
  PROVE  Abs!End(r) \/ UNCHANGED Abs!vars
<1>1. /\ DirBar' = DirBar /\ WantedBar' = WantedBar /\ overwrite' = overwrite
  BY DirIsFile DEF WantedBar, runVars
<1>2. pc[r] # "idle" /\ PhaseBar[r] = "running"
  BY DEF Live, LivePhases, PhaseBar
<1>3. \A s \in Runs \ {r} : PhaseBar'[s] = PhaseBar[s]
  BY DEF PhaseBar, Live
<1>4. CASE Live(r)'
  <2>1. PhaseBar' = PhaseBar
    BY <1>2, <1>3, <1>4 DEF PhaseBar
  <2> QED  BY <1>1, <2>1 DEF Abs!vars, PhaseBar, WantedBar, DirBar
<1>5. CASE ~Live(r)'
  <2>1. PhaseBar' = [PhaseBar EXCEPT ![r] = "ended"]
    BY <1>3, <1>5 DEF PhaseBar
  <2> QED  BY <1>1, <1>2, <2>1 DEF Abs!End, PhaseBar, WantedBar, DirBar
<1> QED  BY <1>4, <1>5

\* `rename` is how a run publishes: a listed file, then the manifest.
LEMMA RenamePublishes ==
  ASSUME PublishInv, PublishInv', NEW r \in Runs, RenamePartial(r)
  PROVE  Abs!Next \/ UNCHANGED Abs!vars
<1> USE NoneIsNoRun, PathsDistinct
<1>1. AloneInv /\ AloneInv' /\ TypeOK /\ RunInv(r)
  BY DEF PublishInv, AloneInv, TypeInv
<1>2. /\ pc[r] = "rename" /\ partial[cur[r]] = r /\ cur[r] \in Paths
      /\ pc \in [Runs -> {"idle"} \cup LivePhases \cup FinalPhases]
  BY <1>1 DEF RenamePartial, AloneInv, OwnPartial, TypeOK
<1>3. /\ file' = [file EXCEPT ![cur[r]] = r]
      /\ pc' = [pc EXCEPT ![r] = "stat"]
      /\ UNCHANGED runVars
  BY <1>2 DEF RenamePartial, Goto
<1>4. /\ DirBar' = [DirBar EXCEPT ![cur[r]] = r]
      /\ WantedBar' = WantedBar /\ overwrite' = overwrite
  BY <1>1, <1>3, DirIsFile DEF WantedBar, runVars
<1>5. PhaseBar' = PhaseBar /\ PhaseBar[r] = "running" /\ Past(r)
  BY <1>2, <1>3 DEF PhaseBar, Live, LivePhases, Past
<1>6. WantedBar[r] = Elems(tables[r])
  BY DEF WantedBar, Elems
<1>7. cur[r] \in {Resources} \cup WantedBar[r] \cup {ManifestFile}
  BY <1>1, <1>5, <1>6 DEF RunInv, LoopInv, ListedFiles
<1>8. overwrite[r] \/ DirBar[cur[r]] \in {None, r}
  BY <1>1, <1>2, <1>5, <1>6, <1>7, DirIsFile
     DEF RunInv, Unreplaced, ListedFiles, Past
<1>9. CASE DirBar[cur[r]] = r
  <2>1. DirBar' = DirBar
    BY <1>4, <1>9 DEF DirBar
  <2> QED  BY <1>4, <1>5, <2>1 DEF Abs!vars, PhaseBar, WantedBar, DirBar
<1>10. CASE overwrite[r] \/ DirBar[cur[r]] = None
  <2>1. CASE cur[r] # ManifestFile
    <3>1. PICK p \in Paths : p = cur[r]
      BY <1>2
    <3>2. Abs!Publish(r, p)
      BY <1>4, <1>5, <1>7, <1>10, <2>1, <3>1
         DEF Abs!Publish, PhaseBar, WantedBar, DirBar
    <3>3. p \in Abs!Paths
      BY DEF Abs!Paths, Paths
    <3> QED  BY <3>2, <3>3 DEF Abs!Next
  <2>2. CASE cur[r] = ManifestFile
    <3>1. \A p \in {Resources} \cup WantedBar[r] : DirBar[p] = r
      <4>1. \A p \in ListedFiles(r) : file[p] = r
        <5>1. todo[r] = << >> /\ ManifestFile \notin ListedFiles(r)
          <6>1. tables[r] \in Seq(SecondaryTables)
            BY <1>1 DEF TypeOK
          <6>2. Elems(tables[r]) \subseteq SecondaryTables
            BY <6>1 DEF Elems
          <6> QED  BY <1>1, <1>5, <2>2, <6>2 DEF RunInv, LoopInv, ListedFiles
        <5> QED
          BY <1>1, <1>5, <2>2, <5>1, ElemsOfLists DEF RunInv, OwnFiles
      <4> QED  BY <1>1, <1>6, <4>1, DirIsFile DEF ListedFiles
    <3>2. Abs!Commit(r)
      BY <1>4, <1>5, <1>10, <2>2, <3>1
         DEF Abs!Commit, PhaseBar, WantedBar, DirBar
    <3> QED  BY <3>2 DEF Abs!Next
  <2> QED  BY <2>1, <2>2
<1> QED  BY <1>8, <1>9, <1>10

\* Every step of the exporter is a step of RunPublication, or none.
LEMMA NextPublishes ==
  ASSUME Exclusive, PublishInv, PublishInv', [Next]_vars
  PROVE  Abs!Next \/ UNCHANGED Abs!vars
<1>1. /\ AloneInv /\ AloneInv'
      /\ pc \in [Runs -> {"idle"} \cup LivePhases \cup FinalPhases]
      /\ tables \in [Runs -> Seq(SecondaryTables)]
      /\ overwrite \in [Runs -> BOOLEAN]
  BY DEF PublishInv, AloneInv, TypeInv, TypeOK
<1>2. ASSUME NEW r \in Runs, Start(r) PROVE Abs!Begin(r)
  <2>1. PICK o \in OverwriteModes, ts \in TableLists :
          /\ overwrite' = [overwrite EXCEPT ![r] = o]
          /\ tables' = [tables EXCEPT ![r] = ts]
    BY <1>2 DEF Start
  <2>2. /\ pc[r] = "idle" /\ \A s \in Runs : ~Live(s)
        /\ pc' = [pc EXCEPT ![r] = "check"]
        /\ file' = file
    BY <1>2 DEF Start, Goto, dirVars
  <2>3. /\ PhaseBar[r] = "idle" /\ \A s \in Runs : PhaseBar[s] # "running"
        /\ PhaseBar' = [PhaseBar EXCEPT ![r] = "running"]
    BY <1>1, <2>2 DEF PhaseBar, Live, LivePhases
  <2>4. ts \in Seq(SecondaryTables) /\ o \in BOOLEAN
    BY TablesAreLists, FlagsBoolean
  <2>5. Elems(ts) \in SUBSET SecondaryTables
    BY <2>4 DEF Elems
  <2>6. WantedBar' = [WantedBar EXCEPT ![r] = Elems(ts)]
    BY <1>1, <2>1 DEF WantedBar, Elems
  <2>7. DirBar' = DirBar
    BY <1>1, <2>2, DirIsFile
  <2> QED
    BY <2>1, <2>3, <2>4, <2>5, <2>6, <2>7
       DEF Abs!Begin, PhaseBar, WantedBar, DirBar
<1>3. ASSUME NEW r \in Runs, Step(r), ~RenamePartial(r)
      PROVE  Abs!End(r) \/ UNCHANGED Abs!vars
  <2>1. UNCHANGED <<file, runVars>> /\ pc'[r] # "idle"
    BY <1>1, <1>3
       DEF Step, CheckAbsent, BeginResources, ProbePartial, UnlinkPartial,
           CreatePartial, WriteChunk, SyncPartial, StatFile, HashFile,
           NextTable, HashResources, BeginManifest, Goto, dirVars
  <2>2. Live(r) /\ \A s \in Runs \ {r} : pc'[s] = pc[s]
    BY <1>1, <1>3, StepIsAlone
  <2> QED  BY <1>1, <2>1, <2>2, QuietStep
<1>4. ASSUME NEW r \in Runs, Abort(r)
      PROVE  Abs!End(r) \/ UNCHANGED Abs!vars
  <2>1. /\ UNCHANGED <<file, runVars>> /\ Live(r) /\ pc'[r] # "idle"
        /\ \A s \in Runs \ {r} : pc'[s] = pc[s]
    BY <1>1, <1>4 DEF Abort, Goto, dirVars
  <2> QED  BY <1>1, <2>1, QuietStep
<1>5. CASE PowerLoss
  <2>1. /\ UNCHANGED <<file, runVars>>
        /\ pc' = [s \in Runs |-> IF Live(s) THEN "aborted" ELSE pc[s]]
    BY <1>5 DEF PowerLoss, dirVars
  <2>2. CASE \E r \in Runs : Live(r)
    <3>1. PICK r \in Runs : Live(r)
      BY <2>2
    <3>2. pc'[r] # "idle" /\ \A s \in Runs \ {r} : pc'[s] = pc[s]
      BY <1>1, <2>1, <3>1 DEF AloneInv, OneLive
    <3>3. Abs!End(r) \/ UNCHANGED Abs!vars
      BY <1>1, <2>1, <3>1, <3>2, QuietStep
    <3> QED  BY <3>3 DEF Abs!Next
  <2>3. CASE \A r \in Runs : ~Live(r)
    <3>1. pc' = pc
      BY <1>1, <2>1, <2>3
    <3>2. PhaseBar' = PhaseBar /\ WantedBar' = WantedBar /\ DirBar' = DirBar
      BY <1>1, <2>1, <3>1, DirIsFile DEF PhaseBar, WantedBar, Live, runVars
    <3> QED
      BY <2>1, <3>2 DEF Abs!vars, PhaseBar, WantedBar, DirBar, runVars
  <2> QED  BY <2>2, <2>3
<1>6. CASE UNCHANGED vars
  BY <1>6 DEF Abs!vars, vars, runVars, dirVars, dataVars, Live, Whole
<1> QED
  BY <1>2, <1>3, <1>4, <1>5, <1>6, RenamePublishes DEF Next, Abs!Next

\* When runs follow one another the exporter implements RunPublication: files
\* appear whole, only `overwrite` replaces one, the manifest comes last.
THEOREM ExporterPublishes ==
  ASSUME Exclusive PROVE Spec => PublishesRunByRun
<1>1. Init => Abs!Init
  BY DEF Init, Abs!Init, Abs!Paths, Paths
<1>2. PublishInv /\ PublishInv' /\ [Next]_vars => [Abs!Next]_(Abs!vars)
  BY NextPublishes
<1> QED
  BY <1>1, <1>2, PublishInvariant, PTL DEF Spec, PublishesRunByRun, Abs!Spec

-----------------------------------------------------------------------------
(* The verifier.                                                            *)

\* The verifier only looks: each of its steps leaves the directory alone.
LEMMA VerifyIsReader == ASSUME [VerifyNext]_allVars PROVE [Next]_vars
  BY DEF VerifyNext, ReadManifest, VerifyFile, Verdict, allVars

\* A run whose manifest has been read keeps what it recorded, and a path that
\* is not its own file never becomes its own again.
LEMMA FinishedStays ==
  ASSUME Exclusive, PublishInv, [Next]_vars, NEW m \in Runs,
         Finished(m), Recorded(m)
  PROVE  /\ Finished(m)' /\ Recorded(m)'
         /\ \A p \in Paths : file[p] # m => file'[p] # m
<1> USE NoneIsNoRun, PathsDistinct
<1>1. AloneInv /\ TypeOK
  BY DEF PublishInv, AloneInv, TypeInv
<1>2. /\ pc \in [Runs -> {"idle"} \cup LivePhases \cup FinalPhases]
      /\ tables \in [Runs -> Seq(SecondaryTables)]
      /\ cur \in [Runs -> Paths]
  BY <1>1 DEF TypeOK
<1>3. ListedFiles(m) \subseteq Paths \ {ManifestFile}
  <2>1. Elems(tables[m]) \subseteq SecondaryTables
    BY <1>2 DEF Elems
  <2> QED  BY <2>1 DEF ListedFiles, Paths
<1>4. ASSUME NEW r \in Runs, Start(r)
      PROVE  Finished(m)' /\ Recorded(m)' /\ file' = file
  <2>1. m # r /\ pc'[m] = pc[m] /\ UNCHANGED <<cur, file, seenVars>>
    BY <1>2, <1>4 DEF Start, Goto, Finished, FinalPhases, dirVars
  <2>2. tables'[m] = tables[m]
    BY <1>2, <1>4, <2>1 DEF Start
  <2> QED  BY <2>1, <2>2 DEF Finished, Recorded, ListedFiles, seenVars
<1>5. ASSUME NEW r \in Runs, Step(r)
      PROVE  /\ Finished(m)' /\ Recorded(m)'
             /\ \A p \in Paths : file[p] # m => file'[p] # m
  <2>1. Live(r) /\ \A s \in Runs \ {r} : pc'[s] = pc[s]
    BY <1>1, <1>5, StepIsAlone
  <2>2. CASE r = m
    <3>1. pc[m] \in {"stat", "hash"} /\ cur[m] = ManifestFile
      BY <2>1, <2>2 DEF Finished, Live, LivePhases, FinalPhases
    <3>2. StatFile(m) \/ HashFile(m)
      BY <1>5, <2>2, <3>1
         DEF Step, CheckAbsent, BeginResources, ProbePartial, UnlinkPartial,
             CreatePartial, WriteChunk, SyncPartial, RenamePartial, NextTable,
             HashResources, BeginManifest
    <3>3. UNCHANGED <<runVars, loopVars, file>> /\ pc'[m] \in {"hash", "done"}
      BY <1>2, <3>1, <3>2 DEF StatFile, HashFile, Goto, dirVars
    <3>4. Finished(m)'
      BY <3>1, <3>3 DEF Finished, FinalPhases, loopVars
    <3>5. \A p \in Paths \ {ManifestFile} :
            stat'[m][p] = stat[m][p] /\ hash'[m][p] = hash[m][p]
      <4>1. stat[m] = [p \in Paths |-> stat[m][p]]
            /\ hash[m] = [p \in Paths |-> hash[m][p]]
            /\ DOMAIN stat = Runs /\ DOMAIN hash = Runs
        BY <1>1 DEF TypeOK
      <4>2. CASE StatFile(m)
        <5>1. hash' = hash
          BY <4>2 DEF StatFile
        <5>2. \A p \in Paths \ {ManifestFile} : stat'[m][p] = stat[m][p]
          BY <3>1, <4>1, <4>2 DEF StatFile
        <5> QED  BY <5>1, <5>2
      <4>3. CASE HashFile(m)
        <5>1. stat' = stat
          BY <4>3 DEF HashFile
        <5>2. \A p \in Paths \ {ManifestFile} : hash'[m][p] = hash[m][p]
          BY <3>1, <4>1, <4>3 DEF HashFile
        <5> QED  BY <5>1, <5>2
      <4> QED  BY <3>2, <4>2, <4>3
    <3>6. Recorded(m)'
      BY <1>3, <3>3, <3>5 DEF Recorded, ListedFiles, runVars
    <3> QED  BY <3>3, <3>4, <3>6
  <2>3. CASE r # m
    <3>1. pc'[m] = pc[m] /\ cur'[m] = cur[m] /\ tables' = tables
      BY <1>2, <1>5, <2>1, <2>3
         DEF Step, CheckAbsent, BeginResources, ProbePartial, UnlinkPartial,
             CreatePartial, WriteChunk, SyncPartial, RenamePartial, StatFile,
             HashFile, NextTable, HashResources, BeginManifest, runVars,
             loopVars
    <3>2. stat'[m] = stat[m] /\ hash'[m] = hash[m]
      BY <1>1, <1>5, <2>3
         DEF Step, CheckAbsent, BeginResources, ProbePartial, UnlinkPartial,
             CreatePartial, WriteChunk, SyncPartial, RenamePartial, StatFile,
             HashFile, NextTable, HashResources, BeginManifest, seenVars,
             TypeOK
    <3>3. Finished(m)' /\ Recorded(m)'
      BY <3>1, <3>2 DEF Finished, Recorded, ListedFiles
    <3>4. CASE RenamePartial(r)
      <4>1. partial[cur[r]] = r
        BY <1>1, <3>4 DEF RenamePartial, AloneInv, OwnPartial
      <4>2. file' = [file EXCEPT ![cur[r]] = r]
        BY <3>4, <4>1 DEF RenamePartial
      <4>3. \A p \in Paths : file[p] # m => file'[p] # m
        BY <1>1, <2>3, <4>2 DEF TypeOK
      <4> QED  BY <3>3, <4>3
    <3>5. CASE ~RenamePartial(r)
      <4>1. file' = file
        BY <1>5, <3>5 DEF Step, CheckAbsent, BeginResources, ProbePartial,
             UnlinkPartial, CreatePartial, WriteChunk, SyncPartial, StatFile,
             HashFile, NextTable, HashResources, BeginManifest, dirVars
      <4> QED  BY <3>3, <4>1
    <3> QED  BY <3>4, <3>5
  <2> QED  BY <2>2, <2>3
<1>6. ASSUME pc'[m] \in {pc[m], "aborted"},
             UNCHANGED <<runVars, loopVars, file, seenVars>>
      PROVE  Finished(m)' /\ Recorded(m)' /\ file' = file
  BY <1>6 DEF Finished, FinalPhases, Recorded, ListedFiles, runVars, loopVars,
              seenVars
<1>7. ASSUME NEW r \in Runs, Abort(r)
      PROVE  Finished(m)' /\ Recorded(m)' /\ file' = file
  BY <1>2, <1>6, <1>7 DEF Abort, Goto, dirVars
<1>8. CASE PowerLoss
  BY <1>6, <1>8 DEF PowerLoss, dirVars
<1>9. CASE UNCHANGED vars
  BY <1>6, <1>9 DEF vars, dirVars
<1> QED  BY <1>4, <1>5, <1>7, <1>8, <1>9 DEF Next

\* While the files are read, a path that was not the run's own when the
\* manifest was read is still not, and has been counted or is yet to be read.
VerifyInv ==
  vpc = "reading" =>
    /\ vman \in Runs /\ Finished(vman) /\ Recorded(vman)
    /\ vtodo \in Seq(Paths) /\ Elems(vtodo) \subseteq ListedFiles(vman)
    /\ ~vsame => vbad \/ \E p \in Elems(vtodo) : file[p] # vman

\* Every step, of the verifier or of the runs, keeps the invariant.
LEMMA VerifyNextInv ==
  ASSUME Exclusive, PublishInv, VerifyInv, OkMeansOneRun,
         [VerifyNext]_allVars
  PROVE  VerifyInv' /\ OkMeansOneRun'
<1>1. AloneInv /\ TypeOK /\ ManifestInv
  BY DEF PublishInv, AloneInv, TypeInv
<1>2. CASE [Next]_vars /\ UNCHANGED verifyVars
  <2>1. OkMeansOneRun'
    BY <1>2 DEF OkMeansOneRun, verifyVars
  <2>2. ASSUME vpc = "reading" PROVE VerifyInv'
    <3>1. /\ vman \in Runs /\ Finished(vman) /\ Recorded(vman)
          /\ vtodo \in Seq(Paths) /\ Elems(vtodo) \subseteq ListedFiles(vman)
      BY <2>2 DEF VerifyInv
    <3>2. PICK m \in Runs : m = vman
      BY <3>1
    <3>3. /\ Finished(m)' /\ Recorded(m)'
          /\ \A p \in Paths : file[p] # m => file'[p] # m
      BY <1>2, <3>1, <3>2, FinishedStays DEF Finished, Recorded, ListedFiles
    <3>4. vman' = m /\ UNCHANGED <<vtodo, vbad, vsame, vpc>>
      BY <1>2, <3>2 DEF verifyVars
    <3>5. Finished(vman)' /\ Recorded(vman)'
      BY <3>3, <3>4 DEF Finished, Recorded, ListedFiles
    <3>6. tables'[m] = tables[m]
      <4>1. pc[m] # "idle"
        BY <3>1, <3>2 DEF Finished, FinalPhases
      <4>2. ASSUME NEW r \in Runs, Start(r) PROVE tables'[m] = tables[m]
        BY <1>1, <4>1, <4>2 DEF Start, TypeOK
      <4>3. ASSUME ~\E r \in Runs : Start(r) PROVE tables' = tables
        BY <1>2, <4>3
           DEF Next, Step, CheckAbsent, BeginResources, ProbePartial,
               UnlinkPartial, CreatePartial, WriteChunk, SyncPartial,
               RenamePartial, StatFile, HashFile, NextTable, HashResources,
               BeginManifest, Abort, PowerLoss, runVars, vars
      <4> QED  BY <4>2, <4>3
    <3>7. Elems(vtodo') \subseteq ListedFiles(vman)'
      BY <3>1, <3>2, <3>4, <3>6 DEF ListedFiles
    <3>8. Elems(vtodo) \subseteq Paths
      BY <3>1 DEF Elems
    <3>9. ~vsame => vbad \/ \E p \in Elems(vtodo) : file'[p] # m
      BY <2>2, <3>2, <3>3, <3>8 DEF VerifyInv
    <3> QED  BY <3>1, <3>2, <3>4, <3>5, <3>7, <3>9 DEF VerifyInv
  <2>3. vpc # "reading" => VerifyInv'
    BY <1>2 DEF VerifyInv, verifyVars
  <2> QED  BY <2>1, <2>2, <2>3
<1>3. CASE ReadManifest
  <2>1. OkMeansOneRun'
    BY <1>3 DEF ReadManifest, OkMeansOneRun
  <2>2. ASSUME vpc' = "reading" PROVE VerifyInv'
    <3>1. PICK m \in Runs : m = file[ManifestFile]
      <4>1. file[ManifestFile] # None
        BY <1>3, <2>2 DEF ReadManifest
      <4> QED  BY <1>1, <4>1 DEF TypeOK, Paths
    <3>2. /\ vman' = m /\ vtodo' = Listed(m) /\ vsame' = OneRun(m)
          /\ UNCHANGED vars
      BY <1>3, <2>2, <3>1 DEF ReadManifest
    <3>3. Finished(m) /\ Recorded(m)
      BY <1>1, <3>1 DEF ManifestInv
    <3>4. Listed(m) \in Seq(Paths) /\ Elems(Listed(m)) = ListedFiles(m)
      BY <1>1, ListedIsList
    <3>5. ~OneRun(m) => \E p \in Elems(Listed(m)) : file[p] # m
      BY DEF OneRun, Elems
    <3>6. /\ file' = file /\ tables' = tables /\ pc' = pc /\ cur' = cur
          /\ stat' = stat /\ hash' = hash
      BY <3>2 DEF vars, runVars, loopVars, dirVars, seenVars
    <3>7. /\ Finished(vman)' /\ Recorded(vman)'
          /\ ListedFiles(vman)' = ListedFiles(m)
      BY <3>2, <3>3, <3>6 DEF Finished, Recorded, ListedFiles
    <3> QED  BY <3>2, <3>4, <3>5, <3>6, <3>7 DEF VerifyInv
  <2>3. vpc' # "reading" => VerifyInv'
    BY DEF VerifyInv
  <2> QED  BY <2>1, <2>2, <2>3
<1>4. CASE VerifyFile
  <2>1. /\ vpc = "reading" /\ vtodo # << >>
        /\ vtodo' = Tail(vtodo)
        /\ vbad' = (vbad \/ ~Matches(vman, Head(vtodo)))
        /\ UNCHANGED <<vars, vpc, vman, vsame>>
    BY <1>4 DEF VerifyFile
  <2>2. /\ vman \in Runs /\ Finished(vman) /\ Recorded(vman)
        /\ vtodo \in Seq(Paths) /\ Elems(vtodo) \subseteq ListedFiles(vman)
    BY <2>1 DEF VerifyInv
  <2>3. Elems(vtodo) = {Head(vtodo)} \cup Elems(vtodo') /\ vtodo' \in Seq(Paths)
    BY <2>1, <2>2, ElemsOfLists, HeadTailProperties
  <2>4. Matches(vman, Head(vtodo)) => file[Head(vtodo)] = vman
    BY <1>1, <2>2, <2>3, MatchIsOwn
  <2>5. ~vsame' => vbad' \/ \E p \in Elems(vtodo') : file[p] # vman
    BY <2>1, <2>3, <2>4 DEF VerifyInv
  <2>6. /\ file' = file /\ tables' = tables /\ pc' = pc /\ cur' = cur
        /\ stat' = stat /\ hash' = hash
    BY <2>1 DEF vars, runVars, loopVars, dirVars, seenVars
  <2>7. /\ Finished(vman)' /\ Recorded(vman)'
        /\ ListedFiles(vman)' = ListedFiles(vman)
    BY <2>1, <2>2, <2>6 DEF Finished, Recorded, ListedFiles
  <2>8. VerifyInv'
    BY <2>1, <2>2, <2>3, <2>5, <2>6, <2>7 DEF VerifyInv
  <2> QED  BY <2>1, <2>8 DEF OkMeansOneRun
<1>5. CASE Verdict
  <2>1. vpc = "reading" /\ vtodo = << >> /\ UNCHANGED <<vbad, vsame>>
        /\ vpc' = IF vbad THEN "failed" ELSE "ok"
    BY <1>5 DEF Verdict
  <2>2. ~vsame => vbad
    BY <2>1, ElemsOfLists DEF VerifyInv
  <2> QED  BY <2>1, <2>2 DEF VerifyInv, OkMeansOneRun
<1> QED
  BY <1>2, <1>3, <1>4, <1>5 DEF VerifyNext, allVars

\* "ok - manifest verified" means that at the moment the manifest was read all
\* the files it lists were of its run, although they were read one by one
\* while later runs were replacing them or were cut short.
THEOREM VerdictIsSound == ASSUME Exclusive PROVE VerifySpec => []OkMeansOneRun
<1>1. VerifyInit => PublishInv /\ VerifyInv /\ OkMeansOneRun
  BY InitPublishInv DEF VerifyInit, VerifyInv, OkMeansOneRun
<1>2. PublishInv /\ VerifyInv /\ OkMeansOneRun /\ [VerifyNext]_allVars
        => (PublishInv /\ VerifyInv /\ OkMeansOneRun)'
  BY VerifyIsReader, NextPublishInv, VerifyNextInv
<1> QED  BY <1>1, <1>2, PTL DEF VerifySpec
===============================================================================
