------------------------------- MODULE Loader -------------------------------
(***************************************************************************)
(* Loading the directories discovery found (crates/core/src/loader): the   *)
(* modules first, then the components, each in path order, file by file.   *)
(* A file is examined (path, size) and read in two steps, and may change   *)
(* in between.  Nothing that is wrong with one file stops the others.      *)
(* What lowering makes of a parsed file is in Lowering; here a file that   *)
(* parses gives one block for each kind it declares.                       *)
(***************************************************************************)
EXTENDS Discovery, SequencesExt

VARIABLES
  queue,     \* directories still to load
  position,  \* the file of Head(queue) that comes next
  statted,   \* that file has been examined, not yet read
  raws,      \* directory -> its blocks, <<file, kind>> in file order
  sources,   \* SourceMap: the files whose text is cached
  loaded     \* directories in the order their ids were given

loaderVars == <<queue, position, statted, raws, sources, loaded>>

LoaderInit ==
  /\ queue = << >> /\ position = 1 /\ statted = FALSE
  /\ raws = [d \in tree.dirs |-> << >>]
  /\ sources = {}
  /\ loaded = << >>

\* In path order k - 1 directories come before the k-th.
InPathOrder(S) ==
  [k \in 1..Cardinality(S) |-> CHOOSE d \in S : Cardinality({o \in S : o < d}) = k - 1]
DirsOfKind(kind) == {d \in tree.dirs : kinds[d] = kind}

\* Discovery is over: what it found is what will be loaded.
StartLoading ==
  /\ phase = "classify" /\ todo = {}
  /\ phase' = "load"
  /\ queue' = InPathOrder(DirsOfKind("module")) \o InPathOrder(DirsOfKind("component"))
  /\ UNCHANGED <<tree, disk, changes, unseen, seenDirs, groups, totalFiles, diags, todo, kinds>>
  /\ UNCHANGED <<position, statted, raws, sources, loaded>>

CurrentFile == groups[Head(queue)][position]
Loading == phase = "load" /\ queue # << >> /\ position <= Len(groups[Head(queue)])

\* resolve_under_root: no link is followed, whatever the walk was told.
SafePath(f) == tree.type[f] # "link"

PassOver == position' = position + 1 /\ statted' = FALSE /\ UNCHANGED <<raws, sources>>

\* The path and the size of the next file, from its metadata.
StatFile ==
  /\ Loading /\ ~statted
  /\ LET f == CurrentFile IN
       CASE tree.ext[f] \notin HclExts -> PassOver /\ UNCHANGED diags
         [] tree.ext[f] \in HclExts /\ ~SafePath(f) -> PassOver /\ Put("TF1206", f)
         [] tree.ext[f] \in HclExts /\ SafePath(f) /\ ~disk[f].there -> PassOver /\ Put("TF1204", f)
         [] tree.ext[f] \in HclExts /\ SafePath(f) /\ disk[f].there /\ disk[f].size > MaxFileSize ->
              PassOver /\ Put("TF1201", f)
         [] OTHER -> statted' = TRUE /\ UNCHANGED <<position, raws, sources, diags>>
  /\ UNCHANGED <<tree, disk, changes, phase, unseen, seenDirs, groups, totalFiles, todo, kinds>>
  /\ UNCHANGED <<queue, loaded>>

\* file_ext_supports_block_kind
SupportsKind(ext, kind) ==
  CASE ext = "tf" -> kind \notin {"include", "generate", "dependency", "inputs"}
    [] ext = "tfvars" -> kind = "unknown"
    [] OTHER -> TRUE

\* Every block is kept, one of an unexpected kind with a remark.
KeepBlocks(f) ==
  LET found == SetToSeq(disk[f].declares)
      odd == {k \in disk[f].declares : ~SupportsKind(tree.ext[f], k)}
  IN  /\ raws' = [raws EXCEPT ![Head(queue)] = @ \o [k \in DOMAIN found |-> <<f, found[k]>>]]
      /\ diags' = diags \o [k \in 1..Cardinality(odd) |-> <<"TF1205", f>>]

\* Wrong: a file that cannot be read is left out without a word.
ReadError_Silent(f) == UNCHANGED <<phase, diags, raws, sources>>

\* Wrong: it ends the run.
ReadError_Fatal(f) == phase' = "failed" /\ UNCHANGED <<diags, raws, sources>>

\* The file is gone since it was examined.
ReadError(f) == Put("TF1204", f) /\ UNCHANGED <<phase, raws, sources>>

\* The rest of the loop's body: read (with no limit), check, cache, parse, lower.
ReadFile ==
  /\ Loading /\ statted
  /\ LET f == CurrentFile IN
       CASE ~disk[f].there -> ReadError(f)
         [] disk[f].there /\ ~disk[f].text -> Put("TF1202", f) /\ UNCHANGED <<phase, raws, sources>>
         [] OTHER ->
              /\ UNCHANGED phase
              /\ sources' = sources \cup {f}
              /\ IF disk[f].parses THEN KeepBlocks(f) ELSE Put("TF1203", f) /\ UNCHANGED raws
  /\ position' = position + 1 /\ statted' = FALSE
  /\ UNCHANGED <<tree, disk, changes, unseen, seenDirs, groups, totalFiles, todo, kinds>>
  /\ UNCHANGED <<queue, loaded>>

EndDir ==
  /\ phase = "load" /\ queue # << >> /\ position > Len(groups[Head(queue)])
  /\ queue' = Tail(queue) /\ position' = 1
  /\ loaded' = Append(loaded, Head(queue))
  /\ UNCHANGED discoveryVars
  /\ UNCHANGED <<statted, raws, sources>>

LoaderStep == StartLoading \/ StatFile \/ ReadFile \/ EndDir

=============================================================================
