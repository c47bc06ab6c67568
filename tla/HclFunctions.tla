---------------------------- MODULE HclFunctions ----------------------------
(***************************************************************************)
(* The functions an expression can call: `FuncRegistry` (crates/core/src/  *)
(* eval/registry.rs) with the standard library (stdlib.rs), the functions  *)
(* of Terraform (tf_funcs.rs) and those on files (files.rs).  Left out are *)
(* sha256, sha512, formatdate and the json and base64 pairs: each turns    *)
(* one string into another and checks its size as `SizedStr` does.         *)
(*                                                                         *)
(* A call is given values and a context `cx`:                              *)
(*   cx.limits  [str, list, file, iterations]                              *)
(*   cx.env     [mode |-> "passthrough" | "strict" | "mock", allowed,      *)
(*               process |-> the environment: a map from names to tokens]  *)
(*   cx.disk    what a path leads to: [at |-> "inside" | "outside" |       *)
(*              "link", kind |-> "file" | "dir", size, utf8, parts, names] *)
(* A text file is a sequence of parts: <<"text", tokens>>, <<"ref", key>>  *)
(* for `${name}`, and <<"other">> for anything else in `${ }`.             *)
(***************************************************************************)
EXTENDS HclValues

Err(kind) == <<"err", kind>>
Failed(r) == r[1] = "err"

\* arg_str, and the arity check of the functions that take any value.
IsStrArg(args, i) == i <= Len(args) /\ Is("str", args[i])
BadArg(args, i) == IF i <= Len(args) THEN Err("type") ELSE Err("arity")

\* check_str_size and check_list_len.
\* Wrong: the size is not checked.
SizedStr_NoLimit(s, cx) == StrVal(s)

SizedStr(s, cx) == IF Len(s) > cx.limits.str THEN Err("limit") ELSE StrVal(s)

SizedList(items, cx) == IF Len(items) > cx.limits.list THEN Err("limit") ELSE ListVal(items)

-----------------------------------------------------------------------------
(* Strings.                                                                 *)

\* format: the verbs take the arguments in order; any other verb, a missing
\* argument and a %d of something that is no number fail.
RECURSIVE RenderFormat(_, _)
RenderFormat(s, args) ==
  LET then(text, rest, left) ==
        LET more == RenderFormat(rest, left)
        IN  IF Failed(more) THEN more ELSE StrVal(text \o more[2])
      verb == s[2]
      rest == SubSeq(s, 3, Len(s))
  IN  IF s = << >> THEN StrVal(<< >>)
      ELSE IF s[1] # Percent THEN then(<<s[1]>>, Tail(s), args)
      ELSE IF Len(s) = 1 THEN Err("other")
      ELSE IF verb = Percent THEN then(<<Percent>>, rest, args)
      ELSE IF verb \notin {Verb, DigitVerb} THEN Err("other")
      ELSE IF args = << >> THEN Err("arity")
      ELSE IF verb = Verb THEN then(ValueToDisplay(args[1]), rest, Tail(args))
      ELSE IF ~IsNumber(args[1]) THEN Err("type")
      ELSE then(<<Digits(IF IsNaN(args[1]) THEN 0
                         ELSE LET f == ToFloat(args[1])
                              IN  (IF f[2] < 0 THEN -1 ELSE 1) * (Abs(f[2]) \div f[3]))>>,
                rest, Tail(args))

Format(args, cx) ==
  IF ~IsStrArg(args, 1) THEN BadArg(args, 1)
  ELSE LET out == RenderFormat(args[1][2], Tail(args))
       IN  IF Failed(out) THEN out ELSE SizedStr(out[2], cx)

MapTokens(Op(_), args, cx) ==
  IF ~IsStrArg(args, 1) THEN BadArg(args, 1)
  ELSE SizedStr([k \in 1..Len(args[1][2]) |-> Op(args[1][2][k])], cx)

Lower(args, cx) == MapTokens(LAMBDA t : IF t \in 11..19 THEN t - 10 ELSE t, args, cx)
Upper(args, cx) == MapTokens(LAMBDA t : IF t \in 1..9 THEN t + 10 ELSE t, args, cx)

TrimOf(s, cutset) ==
  LET kept == {k \in 1..Len(s) : s[k] \notin cutset}
  IN  IF kept = {} THEN << >>
      ELSE SubSeq(s, CHOOSE k \in kept : \A i \in kept : k <= i,
                     CHOOSE k \in kept : \A i \in kept : k >= i)

Trim(args) ==
  IF ~IsStrArg(args, 1) THEN BadArg(args, 1)
  ELSE IF ~IsStrArg(args, 2) THEN BadArg(args, 2)
  ELSE StrVal(TrimOf(args[1][2], ToSet(args[2][2])))

Trimspace(args) ==
  IF ~IsStrArg(args, 1) THEN BadArg(args, 1) ELSE StrVal(TrimOf(args[1][2], {Blank}))

OccursAt(s, part, k) == SubSeq(s, k, k + Len(part) - 1) = part
HasPart(s, part) == \E k \in 1..(Len(s) - Len(part) + 1) : OccursAt(s, part, k)

RECURSIVE ReplaceParts(_, _, _)
ReplaceParts(s, from, to) ==
  IF from = << >>
    THEN to \o (IF s = << >> THEN << >> ELSE <<s[1]>> \o ReplaceParts(Tail(s), from, to))
  ELSE IF Len(s) < Len(from) THEN s
  ELSE IF OccursAt(s, from, 1)
         THEN to \o ReplaceParts(SubSeq(s, Len(from) + 1, Len(s)), from, to)
  ELSE <<s[1]>> \o ReplaceParts(Tail(s), from, to)

Replace(args, cx) ==
  IF \E i \in 1..3 : ~IsStrArg(args, i)
    THEN BadArg(args, CHOOSE i \in 1..3 : ~IsStrArg(args, i) /\ \A j \in 1..(i - 1) : IsStrArg(args, j))
  ELSE SizedStr(ReplaceParts(args[1][2], args[2][2], args[3][2]), cx)

Strcontains(args) ==
  IF ~IsStrArg(args, 1) THEN BadArg(args, 1)
  ELSE IF ~IsStrArg(args, 2) THEN BadArg(args, 2)
  ELSE BoolVal(HasPart(args[1][2], args[2][2]))

-----------------------------------------------------------------------------
(* Collections.                                                             *)

OfMap(args) == IF args = << >> THEN Err("arity") ELSE IF ~Is("map", args[1]) THEN Err("type") ELSE args[1]
OfList(args) == IF args = << >> THEN Err("arity") ELSE IF ~Is("list", args[1]) THEN Err("type") ELSE args[1]

Length(args) ==
  IF args = << >> THEN Err("arity")
  ELSE IF args[1][1] \in {"str", "list", "map"} THEN IntVal(Len(args[1][2])) ELSE Err("type")

KeysOf(args, cx) ==
  IF Failed(OfMap(args)) THEN OfMap(args)
  ELSE LET sorted == SortedByKey(args[1][2])
       IN  SizedList([k \in 1..Len(sorted) |-> StrVal(sorted[k][1])], cx)

ValuesOf(args, cx) ==
  IF Failed(OfMap(args)) THEN OfMap(args)
  ELSE LET sorted == SortedByKey(args[1][2])
       IN  SizedList([k \in 1..Len(sorted) |-> sorted[k][2]], cx)

Merge(args) ==
  IF \E i \in 1..Len(args) : ~Is("map", args[i]) THEN Err("type")
  ELSE MapVal(FoldLeft(LAMBDA acc, a : PutAll(acc, a[2]), << >>, args))

Concat(args, cx) ==
  IF \E i \in 1..Len(args) : ~Is("list", args[i]) THEN Err("type")
  ELSE SizedList(FoldLeft(LAMBDA acc, a : acc \o a[2], << >>, args), cx)

Compact(args) ==
  IF Failed(OfList(args)) THEN OfList(args)
  ELSE ListVal(SelectSeq(args[1][2], LAMBDA v : v # NullVal /\ v # StrVal(<< >>)))

\* A key that is not there gives the default, or null when there is none.
Lookup(args) ==
  IF Len(args) < 2 THEN Err("arity")
  ELSE IF ~(Is("map", args[1]) /\ Is("str", args[2])) THEN Err("type")
  ELSE IF Has(args[1][2], args[2][2]) THEN First(args[1][2], args[2][2])
  ELSE IF Len(args) > 2 THEN args[3] ELSE NullVal

ContainsFn(args) ==
  IF Len(args) < 2 THEN Err("arity")
  ELSE IF ~Is("list", args[1]) THEN Err("type")
  ELSE BoolVal(\E k \in 1..Len(args[1][2]) : args[1][2][k] = args[2] /\ ~IsNaN(args[2]))

RECURSIVE FlattenInto(_)
FlattenInto(items) ==
  FoldLeft(LAMBDA acc, v : acc \o (IF Is("list", v) THEN FlattenInto(v[2]) ELSE <<v>>), << >>, items)

Flatten(args, cx) ==
  IF Failed(OfList(args)) THEN OfList(args) ELSE SizedList(FlattenInto(args[1][2]), cx)

-----------------------------------------------------------------------------
(* Conversions.                                                             *)

Tostring(args, cx) ==
  IF args = << >> THEN Err("arity") ELSE SizedStr(ValueToDisplay(args[1]), cx)

\* A string that is the display of an integer is that integer.
Tonumber(args) ==
  IF args = << >> THEN Err("arity")
  ELSE IF IsNumber(args[1]) THEN args[1]
  ELSE IF ~Is("str", args[1]) THEN Err("type")
  ELSE IF \E n \in IntMin..IntMax : args[1][2] = <<Digits(n)>>
         THEN IntVal(CHOOSE n \in IntMin..IntMax : args[1][2] = <<Digits(n)>>)
  ELSE Err("other")

Tobool(args) ==
  IF args = << >> THEN Err("arity")
  ELSE IF Is("bool", args[1]) THEN args[1]
  ELSE IF ~Is("str", args[1]) THEN Err("type")
  ELSE IF args[1][2] = <<Word.true>> THEN BoolVal(TRUE)
  ELSE IF args[1][2] = <<Word.false>> THEN BoolVal(FALSE)
  ELSE Err("other")

Tolist(args) == OfList(args)

Toset(args) ==
  IF Failed(OfList(args)) THEN OfList(args)
  ELSE ListVal(FoldLeft(LAMBDA acc, v : IF v \in ToSet(acc) THEN acc ELSE Append(acc, v),
                        << >>, args[1][2]))

-----------------------------------------------------------------------------
(* The environment and the disk.                                            *)

\* get_env: only a name the mode allows is looked up; otherwise the default.
GetEnv(args, cx) ==
  LET default == IF Len(args) < 2 \/ args[2] = NullVal THEN << >> ELSE args[2][2]
      name == args[1][2]
      allowed == \/ cx.env.mode = "passthrough"
                 \/ cx.env.mode = "strict" /\ name \in cx.env.allowed
  IN  IF ~IsStrArg(args, 1) THEN BadArg(args, 1)
      ELSE IF Len(args) >= 2 /\ args[2][1] \notin {"null", "str"} THEN Err("type")
      ELSE IF allowed /\ name \in DOMAIN cx.env.process THEN StrVal(cx.env.process[name])
      ELSE StrVal(default)

\* timestamp never gives a value: the parse would not be repeatable.
Timestamp == Err("other")

\* canonicalize_inside with SymlinkPolicy::Reject: a path that leaves the root or
\* passes a symbolic link is refused, whether or not something is there.
Escapes(path, cx) == path \in DOMAIN cx.disk /\ cx.disk[path].at # "inside"

\* read_capped: the size is asked for before the file is read.
ReadCapped(path, cx) ==
  IF Escapes(path, cx) THEN Err("escape")
  ELSE IF path \notin DOMAIN cx.disk \/ cx.disk[path].kind # "file" THEN Err("other")
  ELSE IF cx.disk[path].size > cx.limits.file THEN Err("limit")
  ELSE IF ~cx.disk[path].utf8 THEN Err("other")
  ELSE <<"parts", cx.disk[path].parts>>

PartText(part) ==
  CASE part[1] = "text" -> part[2]
    [] part[1] = "ref" -> <<Open>> \o part[2] \o <<Close>>
    [] OTHER -> <<Open, Close>>

File(args, cx) ==
  IF ~IsStrArg(args, 1) THEN BadArg(args, 1)
  ELSE LET read == ReadCapped(args[1][2], cx)
       IN  IF Failed(read) THEN read
           ELSE StrVal(FoldLeft(LAMBDA acc, p : acc \o PartText(p), << >>, read[2]))

Fileexists(args, cx) ==
  IF ~IsStrArg(args, 1) THEN BadArg(args, 1)
  ELSE IF Escapes(args[1][2], cx) THEN Err("escape")
  ELSE BoolVal(args[1][2] \in DOMAIN cx.disk)

\* render_template: only `${name}` bound to a string is filled in.
RenderTemplate(parts, bound) ==
  IF \E k \in 1..Len(parts) : parts[k][1] = "other" THEN Err("other")
  ELSE IF \E k \in 1..Len(parts) : parts[k][1] = "ref" /\ ~Has(bound, parts[k][2]) THEN Err("other")
  ELSE IF \E k \in 1..Len(parts) :
            parts[k][1] = "ref" /\ ~Is("str", First(bound, parts[k][2])) THEN Err("type")
  ELSE StrVal(FoldLeft(LAMBDA acc, p : acc \o (IF p[1] = "text" THEN p[2] ELSE First(bound, p[2])[2]),
                       << >>, parts))

Templatefile(args, cx) ==
  IF ~IsStrArg(args, 1) THEN BadArg(args, 1)
  ELSE IF Len(args) < 2 THEN Err("arity")
  ELSE IF ~Is("map", args[2]) THEN Err("type")
  ELSE LET read == ReadCapped(args[1][2], cx)
           out == RenderTemplate(read[2], args[2][2])
       IN  IF Failed(read) THEN read
           ELSE IF Failed(out) THEN out ELSE SizedStr(out[2], cx)

\* fileset: the files below the directory that match, sorted.  A pattern is the
\* set of names it matches.
Fileset(args, cx) ==
  IF ~IsStrArg(args, 1) THEN BadArg(args, 1)
  ELSE IF ~IsStrArg(args, 2) THEN BadArg(args, 2)
  ELSE IF Escapes(args[1][2], cx) THEN Err("escape")
  ELSE IF args[1][2] \notin DOMAIN cx.disk \/ cx.disk[args[1][2]].kind # "dir" THEN Err("other")
  ELSE LET hits == {n \in cx.disk[args[1][2]].names : HasPart(n, args[2][2])}
           nth(k) == CHOOSE n \in hits : Cardinality({m \in hits : StrBelow(m, n)}) = k - 1
       IN  SizedList([k \in 1..Cardinality(hits) |-> StrVal(nth(k))], cx)

-----------------------------------------------------------------------------
(* The registry.                                                            *)

\* default_with_stdlib: the names a call is dispatched on.
Registered ==
  {"format", "lower", "upper", "trim", "trimspace", "replace", "length", "keys", "values",
   "merge", "concat", "compact", "lookup", "contains", "flatten", "tostring", "tonumber",
   "tobool", "tolist", "toset", "timestamp", "strcontains", "get_env", "file", "fileexists",
   "templatefile", "fileset"}

CallFunction(name, args, cx) ==
  CASE name = "format" -> Format(args, cx)      [] name = "lower" -> Lower(args, cx)
    [] name = "upper" -> Upper(args, cx)        [] name = "trim" -> Trim(args)
    [] name = "trimspace" -> Trimspace(args)    [] name = "replace" -> Replace(args, cx)
    [] name = "length" -> Length(args)          [] name = "keys" -> KeysOf(args, cx)
    [] name = "values" -> ValuesOf(args, cx)    [] name = "merge" -> Merge(args)
    [] name = "concat" -> Concat(args, cx)      [] name = "compact" -> Compact(args)
    [] name = "lookup" -> Lookup(args)          [] name = "contains" -> ContainsFn(args)
    [] name = "flatten" -> Flatten(args, cx)    [] name = "tostring" -> Tostring(args, cx)
    [] name = "tonumber" -> Tonumber(args)      [] name = "tobool" -> Tobool(args)
    [] name = "tolist" -> Tolist(args)          [] name = "toset" -> Toset(args)
    [] name = "timestamp" -> Timestamp          [] name = "strcontains" -> Strcontains(args)
    [] name = "get_env" -> GetEnv(args, cx)     [] name = "file" -> File(args, cx)
    [] name = "fileexists" -> Fileexists(args, cx)
    [] name = "templatefile" -> Templatefile(args, cx)
    [] name = "fileset" -> Fileset(args, cx)
=============================================================================
