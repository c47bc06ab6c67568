------------------------ MODULE TerragruntFunctions ------------------------
(***************************************************************************)
(* The functions a terragrunt.hcl may call beside the standard library     *)
(* (crates/core/src/terragrunt/funcs.rs), and the registry that has both.  *)
(* `read_terragrunt_config` has state of its own and is module ReadConfig; *)
(* here a call of it stays as it is written.                               *)
(*                                                                         *)
(* A path is a string with a token for each component; one that starts     *)
(* with Slash is absolute.  The context of a call has one more field, tg:  *)
(* << >> where only the standard library is registered, or one record      *)
(*   root, dir (the component's), active (`active_include`, or NoPath),    *)
(*   leads: for every absolute path that exists, its canonical path.       *)
(***************************************************************************)
EXTENDS HclFunctions

Slash == 40
Dot == <<41>>              \* .
DefaultName == <<42>>      \* terragrunt.hcl
NoPath == << >>

JoinPath(base, path) == IF path # << >> /\ path[1] = Slash THEN path ELSE base \o path
IsDescendant(path, root) == IsPrefix(root, path)

\* canonicalize_inside, following links: the path has to exist and to stay below
\* the root.
CanonicalizeInside(path, tg) ==
  LET joined == JoinPath(tg.root, path)
  IN  IF joined \in DOMAIN tg.leads /\ IsDescendant(tg.leads[joined], tg.root)
        THEN tg.leads[joined] ELSE NoPath

\* find_in_parents: from the directory up to the root of the workspace; a name that
\* leads out of it is passed over.
RECURSIVE Ascend(_, _, _)
Ascend(cursor, name, tg) ==
  LET found == CanonicalizeInside(JoinPath(cursor, name), tg)
  IN  IF found # NoPath THEN found
      ELSE IF ~IsDescendant(cursor, tg.root) \/ cursor = tg.root THEN NoPath
      ELSE Ascend(Front(cursor), name, tg)

FindInParents(start, name, tg) == Ascend(JoinPath(tg.root, start), name, tg)

\* The directory of the active include, or the component's.
ActiveDir(tg) == IF tg.active = NoPath THEN tg.dir ELSE Front(tg.active)

\* What is left of the path below the base; "." if nothing is, or if it is elsewhere.
RelativeTo(path, base) ==
  IF ~IsDescendant(path, base) \/ path = base THEN Dot ELSE SubSeq(path, Len(base) + 1, Len(path))

NoArguments(args, text) == IF args # << >> THEN Err("arity") ELSE StrVal(text)

\* find_in_parent_folders: a second argument that is a string is the fallback.
FindInParentFolders(args, tg) ==
  LET name == IF args = << >> THEN DefaultName ELSE args[1][2]
      found == FindInParents(tg.dir, name, tg)
  IN  IF args # << >> /\ ~Is("str", args[1]) THEN Err("type")
      ELSE IF found # NoPath THEN StrVal(found)
      ELSE IF Len(args) >= 2 /\ Is("str", args[2]) THEN args[2] ELSE Err("other")

FindInParentFoldersFrom(args, tg) ==
  LET name == IF Len(args) < 2 THEN DefaultName ELSE args[2][2]
      found == FindInParents(args[1][2], name, tg)
  IN  IF args = << >> THEN Err("arity")
      ELSE IF \E k \in 1..Min({Len(args), 2}) : ~Is("str", args[k]) THEN Err("type")
      ELSE IF found # NoPath THEN StrVal(found) ELSE Err("other")

\* TryFn: the arguments have values by then, so the first one is the answer.
TryFirst(args) == IF args = << >> THEN Err("arity") ELSE args[1]

-----------------------------------------------------------------------------

TerragruntNames ==
  {"get_terragrunt_dir", "get_repo_root", "get_parent_terragrunt_dir", "find_in_parent_folders",
   "find_in_parent_folders_from", "path_relative_to_include", "path_relative_from_include", "try"}

IsRegistered(name, cx) == name \in Registered \/ (cx.tg # << >> /\ name \in TerragruntNames)

CallRegistered(name, args, cx) ==
  LET tg == cx.tg[1]
  IN  CASE name = "get_terragrunt_dir" -> NoArguments(args, tg.dir)
        [] name = "get_repo_root" -> NoArguments(args, tg.root)
        [] name = "get_parent_terragrunt_dir" -> NoArguments(args, ActiveDir(tg))
        [] name = "path_relative_to_include" -> NoArguments(args, RelativeTo(tg.dir, ActiveDir(tg)))
        [] name = "path_relative_from_include" -> NoArguments(args, RelativeTo(ActiveDir(tg), tg.dir))
        [] name = "find_in_parent_folders" -> FindInParentFolders(args, tg)
        [] name = "find_in_parent_folders_from" -> FindInParentFoldersFrom(args, tg)
        [] name = "try" -> TryFirst(args)
        [] OTHER -> CallFunction(name, args, cx)
=============================================================================
