------------------------------ MODULE Discovery ------------------------------
(***************************************************************************)
(* Finding the components and modules of a workspace                       *)
(* (crates/core/src/discovery): a walk of the tree groups its files by     *)
(* directory, then each directory is classified from what its files seem   *)
(* to declare.  The walk hands out entries in the order the file system    *)
(* returns them.  Files may change while the program runs: it reads them   *)
(* in the walk (metadata), to classify, and again to load.                 *)
(*                                                                         *)
(* A tree has the fields                                                   *)
(*   exists, dirs (but those inside of a walled one), walled (directories  *)
(*   that cannot be listed), depth (of a directory: 0 for the root),       *)
(*   environments (the directory of that name, or NoDir), globbed (those a *)
(*   module glob matches), entries, and for an entry: dir, type ("file",   *)
(*   "link" or "special"), ext, excluded (by a glob); follow (the option). *)
(* A directory is a number, in path order.  What a file holds may change:  *)
(*   disk[e] = [there, size, text (valid UTF-8), parses, declares]         *)
(***************************************************************************)
EXTENDS Integers, Sequences, FiniteSets

CONSTANTS
  Workspaces,      \* records of a tree and a disk
  MaxTotalFiles,   \* DiscoveryOptions.max_total_files
  MaxDepth,        \* max_depth
  MaxFileSize,     \* max_file_size_bytes, also the limit of the loader
  MaxChanges       \* bound: changes to files during a run

ASSUME LimitsAreNatural == {MaxTotalFiles, MaxDepth, MaxFileSize, MaxChanges} \subseteq Nat

NoDir == -1
Root == 0

\* What a file may declare; the backend is a block inside of terraform.
BlockKinds ==
  {"resource", "data", "module", "provider", "variable", "locals", "output", "terraform",
   "backend", "include", "generate", "dependency", "inputs", "unknown"}

FileState ==
  [there : BOOLEAN, size : Nat, text : BOOLEAN, parses : BOOLEAN, declares : SUBSET BlockKinds]

\* Finitely many directories and entries; the root, if there is one, can be
\* listed.  Every entry is there when the run begins.
WorkspaceShaped(w) ==
  /\ IsFiniteSet(w.tree.dirs) /\ Root \in w.tree.dirs /\ w.tree.dirs \subseteq Nat
  /\ w.tree.walled \subseteq w.tree.dirs \ {Root}
  /\ w.tree.depth \in [w.tree.dirs -> Nat] /\ w.tree.depth[Root] = 0
  /\ IsFiniteSet(w.tree.entries) /\ w.tree.entries \cap w.tree.dirs = {}
  /\ w.tree.dir \in [w.tree.entries -> w.tree.dirs]
  /\ w.tree.type \in [w.tree.entries -> {"file", "link", "special"}]
  /\ w.disk \in [w.tree.entries -> FileState]
  /\ \A e \in w.tree.entries : w.disk[e].there

ASSUME WorkspacesShaped == \A w \in Workspaces : WorkspaceShaped(w)

VARIABLES
  tree, disk,
  changes,    \* changes to files so far
  phase,
  unseen,     \* entries and directories the walk has still to hand out
  seenDirs,
  groups,     \* directory -> the files of it, in the order they were found
  totalFiles,
  diags,      \* <<code, subject>> in the order they were pushed
  todo,       \* directories still to classify
  kinds       \* directory -> its kind, "unknown" before it is classified

discoveryVars == <<tree, disk, changes, phase, unseen, seenDirs, groups, totalFiles, diags, todo, kinds>>

HclExts == {"tf", "hcl", "terragrunt", "tfvars"}

Put(code, subject) == diags' = Append(diags, <<code, subject>>)

DiscoveryInit ==
  /\ \E w \in Workspaces : tree = w.tree /\ disk = w.disk
  /\ changes = 0
  /\ phase = "root"
  /\ unseen = {}
  /\ seenDirs = {Root}
  /\ groups = [d \in tree.dirs |-> << >>]
  /\ totalFiles = 0
  /\ diags = << >>
  /\ todo = {}
  /\ kinds = [d \in tree.dirs |-> "unknown"]

-----------------------------------------------------------------------------
(* The user, meanwhile: a file is removed, or written with other contents,  *)
(* for better or for worse.                                                 *)

ChangeFile ==
  /\ changes < MaxChanges /\ phase \notin {"root", "done", "failed"}
  /\ \E f \in DOMAIN disk :
       \/ disk' = [disk EXCEPT ![f].there = FALSE]
       \/ disk' = [disk EXCEPT ![f].size = MaxFileSize + 1]
       \/ disk' = [disk EXCEPT ![f].parses = ~@]
       \/ disk' = [disk EXCEPT ![f].text = FALSE]
  /\ changes' = changes + 1
  /\ UNCHANGED <<tree, phase, unseen, seenDirs, groups, totalFiles, diags, todo, kinds>>

-----------------------------------------------------------------------------
(* The walk.                                                                *)

\* max_depth: a directory at the limit is handed out, what it holds is not.
Listed(d) == tree.depth[d] < MaxDepth
WalkedDirs == {d \in tree.dirs : tree.depth[d] <= MaxDepth}

\* canonicalize_root
OpenRoot ==
  /\ phase = "root"
  /\ IF tree.exists
       THEN /\ phase' = "walk"
            /\ unseen' = (WalkedDirs \ {Root}) \X {"dir"}
                         \cup {e \in tree.entries : Listed(tree.dir[e])} \X {"entry"}
       ELSE phase' = "failed" /\ UNCHANGED unseen
  /\ UNCHANGED <<tree, disk, changes, seenDirs, groups, totalFiles, diags, todo, kinds>>

\* A directory of the walk, or the error of listing it, which hides what it holds.
EnterDir(d) ==
  /\ IF d \in tree.walled /\ Listed(d)
       THEN /\ Put("TF1100", d)
            /\ unseen' = unseen \ ({<<d, "dir">>} \cup {<<e, "entry">> : e \in {e \in tree.entries : tree.dir[e] = d}})
       ELSE UNCHANGED diags /\ unseen' = unseen \ {<<d, "dir">>}
  /\ seenDirs' = seenDirs \cup {d}
  /\ UNCHANGED <<groups, totalFiles, phase>>

\* With the option, a link is an entry of the type it leads to.
TypeOf(e) == IF tree.type[e] = "link" /\ tree.follow THEN "file" ELSE tree.type[e]

Countable(e) == tree.ext[e] # "none"

\* A source file: counted, and the count past the limit ends the run.
TakeFile(e) ==
  /\ totalFiles' = totalFiles + 1
  /\ IF totalFiles' > MaxTotalFiles
       THEN phase' = "failed" /\ UNCHANGED <<seenDirs, groups>>
       ELSE /\ seenDirs' = seenDirs \cup {tree.dir[e]}
            /\ groups' = [groups EXCEPT ![tree.dir[e]] = Append(@, e)]
            /\ UNCHANGED phase
  /\ UNCHANGED diags

Skip == UNCHANGED <<seenDirs, groups, totalFiles, phase, diags>>
SkipWith(code, e) == Put(code, e) /\ UNCHANGED <<seenDirs, groups, totalFiles, phase>>

\* process_walk_entry
VisitEntry(e) ==
  /\ unseen' = unseen \ {<<e, "entry">>}
  /\ IF tree.excluded[e] THEN Skip
     ELSE CASE TypeOf(e) = "link" -> SkipWith("TF1110", e)
            [] TypeOf(e) = "special" -> Skip
            [] OTHER ->
                 IF ~disk[e].there THEN Skip \/ SkipWith("TF1102", e)   \* gone before or after it was listed
                 ELSE IF disk[e].size > MaxFileSize THEN SkipWith("TF1103", e)
                 ELSE IF ~Countable(e) THEN Skip
                 ELSE TakeFile(e)

\* The children of a directory come after it.
Reached(x) == x[2] = "entry" => <<tree.dir[x[1]], "dir">> \notin unseen

WalkStep ==
  /\ phase = "walk"
  /\ \E x \in unseen : /\ Reached(x)
                       /\ IF x[2] = "dir" THEN EnterDir(x[1]) ELSE VisitEntry(x[1])
  /\ UNCHANGED <<tree, disk, changes, todo, kinds>>

EndWalk ==
  /\ phase = "walk" /\ unseen = {}
  /\ phase' = "classify"
  /\ todo' = seenDirs
  /\ UNCHANGED <<tree, disk, changes, unseen, seenDirs, groups, totalFiles, diags, kinds>>

-----------------------------------------------------------------------------
(* Classification.                                                          *)

FilesOf(d) == {groups[d][k] : k \in 1..Len(groups[d])}

\* probe_file on what the file holds now; a file that cannot be read, or is no
\* text, declares nothing.
Probe(f) == IF disk[f].there /\ disk[f].text THEN disk[f].declares ELSE {}

\* Wrong: a file that declares something replaces what the ones before it did.
Signals_Last(d) ==
  LET hits == {k \in 1..Len(groups[d]) : tree.ext[groups[d][k]] \in HclExts /\ Probe(groups[d][k]) # {}}
  IN  IF hits = {} THEN {} ELSE Probe(groups[d][CHOOSE k \in hits : \A j \in hits : j <= k])

\* aggregate_signals
Signals(d) == UNION {Probe(f) : f \in {f \in FilesOf(d) : tree.ext[f] \in HclExts}}

HasTerragrunt(d) == \E f \in FilesOf(d) : tree.ext[f] = "terragrunt"

\* classify
IsComponent(d, signals) ==
  \/ HasTerragrunt(d) /\ "include" \in signals
  \/ {"backend", "terraform"} \subseteq signals
  \/ {"resource", "data"} \cap signals # {} /\ d \notin tree.globbed

VariablesOnly(d, signals) ==
  /\ "variable" \in signals /\ ~HasTerragrunt(d)
  /\ {"resource", "data", "backend"} \cap signals = {}

KindOf(d, signals) ==
  CASE d = tree.environments -> "environments"
    [] d # tree.environments /\ IsComponent(d, signals) -> "component"
    [] d # tree.environments /\ ~IsComponent(d, signals)
         /\ (d \in tree.globbed \/ VariablesOnly(d, signals)) -> "module"
    [] OTHER -> IF FilesOf(d) # {} /\ \A f \in FilesOf(d) : tree.ext[f] \notin HclExts
                  THEN "files" ELSE "other"

\* One directory of classify_dirs, in path order.
ClassifyDir ==
  /\ phase = "classify" /\ todo # {}
  /\ LET d == CHOOSE d \in todo : \A o \in todo : d <= o
         kind == KindOf(d, Signals(d))
     IN  /\ todo' = todo \ {d}
         /\ kinds' = [kinds EXCEPT ![d] = kind]
         /\ IF kind = "component" /\ d \in tree.globbed THEN Put("TF1120", d) ELSE UNCHANGED diags
  /\ UNCHANGED <<tree, disk, changes, phase, unseen, seenDirs, groups, totalFiles>>

-----------------------------------------------------------------------------
(* Properties.                                                              *)

\* What a tree that stays as it is should be found to hold, entry by entry.
Offered(e) == Listed(tree.dir[e]) /\ tree.dir[e] \notin tree.walled /\ ~tree.excluded[e]
Visible(e) == Offered(e) /\ TypeOf(e) = "file"
Eligible(e) == Visible(e) /\ disk[e].there /\ disk[e].size <= MaxFileSize /\ Countable(e)
EligibleFiles == {e \in tree.entries : Eligible(e)}

Expected(d) ==
  LET files == {e \in tree.entries : tree.dir[e] = d /\ Eligible(e)}
      signals == UNION {disk[f].declares : f \in {f \in files : tree.ext[f] \in HclExts /\ disk[f].text}}
      terragrunt == \E f \in files : tree.ext[f] = "terragrunt"
      applied == \/ terragrunt /\ "include" \in signals
                 \/ "backend" \in signals /\ "terraform" \in signals
                 \/ d \notin tree.globbed /\ ("resource" \in signals \/ "data" \in signals)
  IN  [files |-> files,
       module |-> /\ d # tree.environments /\ ~applied
                  /\ \/ d \in tree.globbed
                     \/ /\ "variable" \in signals /\ ~terragrunt
                        /\ \A s \in {"resource", "data", "backend"} : s \notin signals,
       component |-> d # tree.environments /\ applied]

\* ... and what should be said of it: directories that cannot be listed, links
\* that are not followed, files too large, components a module glob matches.
ExpectedDiags ==
  {<<"TF1100", d>> : d \in {d \in tree.walled : Listed(d)}}
    \cup {<<"TF1110", e>> : e \in {e \in tree.entries : Offered(e) /\ TypeOf(e) = "link"}}
    \cup {<<"TF1103", e>> : e \in {e \in tree.entries : Visible(e) /\ disk[e].size > MaxFileSize}}
    \cup {<<"TF1120", d>> : d \in {d \in WalkedDirs \cap tree.globbed : Expected(d).component}}

(* In whatever order the file system returns them, the entries of a tree    *)
(* that does not change give the same directories, the same set of files in *)
(* each, the same kinds and the same diagnostics, each once; the walk of a  *)
(* tree with more source files than the limit fails, that of any other ends.*)
(* The order of the files in a directory and that of the diagnostics are    *)
(* the file system's: nothing sorts them.                                   *)
DiscoveryOrderFree ==
  changes = 0 /\ tree.exists =>
    /\ totalFiles > MaxTotalFiles => Cardinality(EligibleFiles) > MaxTotalFiles
    /\ phase \notin {"root", "walk", "failed"} =>
         /\ seenDirs = WalkedDirs
         /\ totalFiles = Cardinality(EligibleFiles) /\ totalFiles <= MaxTotalFiles
         /\ \A d \in tree.dirs : FilesOf(d) = Expected(d).files
    /\ phase = "classify" /\ todo = {} =>
         /\ {diags[k] : k \in DOMAIN diags} = ExpectedDiags
         /\ \A i, j \in DOMAIN diags : diags[i] = diags[j] => i = j
    /\ phase \notin {"root", "walk", "classify", "failed"} =>
         \A d \in WalkedDirs : /\ kinds[d] = "component" <=> Expected(d).component
                               /\ kinds[d] = "module" <=> Expected(d).module

=============================================================================
