----------------------------- MODULE MCPipeline -----------------------------
(***************************************************************************)
(* Small workspaces for Pipeline.  Directory 0 is the root; directories    *)
(* are below ten and entries above, so that the subject of a diagnostic    *)
(* names one thing.  An entry is <<directory, type, ext, excluded, size,   *)
(* text, parses, declares>>.                                               *)
(***************************************************************************)
EXTENDS Pipeline

Good == 1

File(dir, ext, declares) == <<dir, "file", ext, FALSE, Good, TRUE, TRUE, declares>>
Link(dir, ext, declares) == <<dir, "link", ext, FALSE, Good, TRUE, TRUE, declares>>
Special(dir) == <<dir, "special", "tf", FALSE, Good, TRUE, TRUE, {}>>
Large(dir, declares) == <<dir, "file", "tf", FALSE, MaxFileSize + 1, TRUE, TRUE, declares>>
Binary(dir) == <<dir, "file", "tf", FALSE, Good, FALSE, FALSE, {"resource"}>>
Broken(dir, declares) == <<dir, "file", "tf", FALSE, Good, TRUE, FALSE, declares>>
Excluded(dir, declares) == <<dir, "file", "tf", TRUE, Good, TRUE, TRUE, declares>>

Options == [exists |-> TRUE, walled |-> {}, environments |-> NoDir, globbed |-> {},
            follow |-> FALSE, deep |-> {}, cyclic |-> {}, strict |-> FALSE, unresolved |-> FALSE]

\* The options, the directories and the entries, as the models' records; the
\* deep directories are inside of directory 1.
Workspace(options, dirs, list) ==
  LET ids == {10 + k : k \in DOMAIN list}
      At(e, field) == list[e - 10][field]
  IN  [tree |-> options @@ [dirs |-> dirs, entries |-> ids,
                            depth |-> [d \in dirs |-> IF d = Root THEN 0 ELSE IF d \in options.deep THEN 2 ELSE 1],
                            dir |-> [e \in ids |-> At(e, 1)], type |-> [e \in ids |-> At(e, 2)],
                            ext |-> [e \in ids |-> At(e, 3)], excluded |-> [e \in ids |-> At(e, 4)]],
       disk |-> [e \in ids |-> [there |-> TRUE, size |-> At(e, 5), text |-> At(e, 6),
                                parses |-> At(e, 7), declares |-> At(e, 8)]]]

\* A module and two components, one of them with a terragrunt.hcl.
Plain == Workspace([Options EXCEPT !.globbed = {1}, !.cyclic = {2}], 0..3,
  << File(1, "tf", {"resource", "variable"}), File(2, "tf", {"resource", "locals"}),
     File(2, "terragrunt", {"include"}), File(3, "tf", {"data"}) >>)

\* What makes a component is spread over its files; the others are variables
\* only, a file of an unexpected kind, and a directory of other files.
Spread == Workspace([Options EXCEPT !.environments = 3], 0..4,
  << File(1, "tf", {"backend", "include"}), File(1, "hcl", {"terraform"}), File(2, "tf", {"variable"}),
     File(3, "tfvars", {"unknown"}), File(4, "json", {}) >>)

\* Everything that is wrong with a file from the start.
Faulty(follow) == Workspace([Options EXCEPT !.walled = {2}, !.follow = follow, !.globbed = {1}, !.cyclic = {1}], 0..2,
  << Link(1, "tf", {"resource"}), File(1, "tf", {"backend", "terraform", "locals"}), Binary(1),
     Large(1, {"resource"}), File(2, "tf", {"resource"}) >>)

Odd == Workspace([Options EXCEPT !.globbed = {1}], 0..1,
  << Special(1), Broken(1, {"variable"}), Excluded(1, {"resource"}), File(0, "none", {}), File(1, "tfvars", {"variable"}) >>)

\* A module's file below the limit of the depth, and one directory there that
\* could not be listed.
Deep == Workspace([Options EXCEPT !.globbed = {2}, !.deep = {2, 3}, !.walled = {3}], 0..3,
  << File(1, "tf", {"resource"}), File(2, "tf", {"variable"}) >>)

Crowded == Workspace(Options, 0..1, [k \in 1..(MaxTotalFiles + 1) |-> File(k % 2, "tf", {"resource"})])
Strict == Workspace([Options EXCEPT !.strict = TRUE, !.unresolved = TRUE], 0..1,
  << File(1, "tf", {"resource"}), File(1, "terragrunt", {"include"}) >>)
Missing == Workspace([Options EXCEPT !.exists = FALSE], {0}, << >>)

MCWorkspaces == {Plain, Spread, Faulty(TRUE), Faulty(FALSE), Odd, Deep, Crowded, Strict, Missing}
MCDeepWorkspaces == {Deep}

=============================================================================
