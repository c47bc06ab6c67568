------------------------------ MODULE Lowering ------------------------------
(***************************************************************************)
(* From a parsed file to the blocks of a component: `lower_body`           *)
(* (crates/core/src/loader/lowering.rs) and `project_component`            *)
(* (projection/mod.rs).                                                    *)
(*                                                                         *)
(* What the parser gives is an expression of module Expressions, with      *)
(*   <<"number", p, q>>            a numeral that stands for p over q      *)
(*   <<"ident", name>>             <<"trav", root, steps>>                 *)
(*   <<"paren", inner>>            <<"text", s>>, <<"directive">>          *)
(* where a symbol, a number or a piece of a template is still source text. *)
(* The root of a traversal is "var", "local", ... or "name" where the      *)
(* first step is the root itself; a step is <<"attr", name>>, <<"index">>  *)
(* or <<"splat">>.  The body of a block has <<"attr", key, expression>>    *)
(* and <<"block", ident, labels, body>>.  Spans are left out.              *)
(***************************************************************************)
EXTENDS Expressions

\* Names with a meaning of their own.
Key == [count |-> <<50>>, for_each |-> <<51>>, provider |-> <<52>>, depends_on |-> <<53>>,
        source |-> <<54>>, providers |-> <<55>>, default |-> <<56>>, type |-> <<57>>,
        value |-> <<58>>, alias |-> <<59>>, region |-> <<60>>, profile |-> <<61>>,
        labels |-> <<62>>]
Bracketed == 70      \* the text of an index or of a full splat
Star == 71           \* .*
Mark == [truncated |-> <<72>>, directive |-> <<73>>]
TypeKeywords == {<<80>>, <<81>>}   \* string, number, ...

-----------------------------------------------------------------------------
(* Expressions.                                                             *)

\* lower_number: what does not fit in the signed type but in the unsigned one
\* becomes the largest value.
LowerNumber(p, q) ==
  IF q = 1 /\ p \in IntMin..IntMax THEN Lit(IntVal(p))
  ELSE IF q = 1 /\ p \in IntMax..(2 ^ Width - 1) THEN Lit(IntVal(IntMax))
  ELSE Lit(Ratio(p, q))

\* render_traversal: an index is text of the segment it follows.
RenderTraversal(steps) ==
  FoldLeft(LAMBDA acc, s :
             CASE s[1] = "attr" -> Append(acc, s[2])
               [] s[1] = "splat" -> Append(acc, <<Star>>)
               [] s[1] = "index" ->
                    IF acc = << >> THEN acc
                    ELSE [acc EXCEPT ![Len(acc)] = Append(@, Bracketed)],
           << >>, steps)

RootKinds == [var |-> "Var", local |-> "Local", data |-> "Data", module |-> "Module",
              path |-> "Path", each |-> "Iteration", count |-> "Iteration",
              terraform |-> "Terraform", dependency |-> "TerragruntDependency"]

\* symbol_kind_for: any other dotted name is taken for a resource, a name without
\* a dot for something else.
LowerTraversal(root, steps) ==
  LET segments == RenderTraversal(steps)
      kind == IF root \in DOMAIN RootKinds THEN RootKinds[root]
              ELSE IF Len(segments) > 1 THEN "Resource" ELSE "Other"
  IN  <<"sym", kind, segments[1], Tail(segments)>>

\* lower_array, lower_object and nested_attribute_map_to_expression build a value
\* at once where every part is one; collapse_template only from a single text.
LiteralArray(items) == IF AllLit(items) THEN Lit(ListVal(ValuesIn(items))) ELSE <<"arr", items>>

LiteralObject(pairs) ==
  IF \A k \in 1..Len(pairs) :
       IsLit(pairs[k][1]) /\ Is("str", pairs[k][1][2]) /\ IsLit(pairs[k][2])
    THEN Lit(MapVal([k \in 1..Len(pairs) |-> <<pairs[k][1][2][2], pairs[k][2][2]>>]))
  ELSE <<"obj", pairs>>

CollapseTemplate(parts) ==
  IF parts = << >> THEN Lit(StrVal(<< >>))
  ELSE IF Len(parts) = 1 /\ IsLit(parts[1]) /\ Is("str", parts[1][2]) THEN parts[1]
  ELSE <<"tmpl", parts>>

\* The parts of a template that are within the limit.
Kept(h, lim) == IF h[1] = "tmpl" /\ Len(h[2]) > lim.parts THEN SubSeq(h[2], 1, lim.parts) ELSE Kids(h)

\* Text, a directive and an object key that is a name are no deeper expression.
IsFlat(h) == h[1] \in {"text", "directive"}

RECURSIVE LowerExpression(_, _, _)
LowerExpression(h, depth, lim) ==
  LET part(p) == CASE p[1] = "text" -> Lit(StrVal(p[2]))
                   [] p[1] = "directive" -> Sym("Other", Mark.directive)
                   [] OTHER -> LowerExpression(p, depth + 1, lim)
      parts == [k \in 1..Len(Kept(h, lim)) |-> part(Kept(h, lim)[k])]
  IN  IF depth > lim.depth THEN Sym("Other", Mark.truncated)
      ELSE CASE h[1] = "lit" -> h
             [] h[1] = "number" -> LowerNumber(h[2], h[3])
             [] h[1] = "ident" -> Sym("Other", h[2])
             [] h[1] = "trav" -> LowerTraversal(h[2], h[3])
             [] h[1] = "paren" -> LowerExpression(h[2], depth + 1, lim)
             [] h[1] = "tmpl" -> CollapseTemplate(parts)
             [] h[1] = "arr" -> LiteralArray(parts)
             [] h[1] = "obj" -> LiteralObject(Rebuild(h, parts)[2])
             [] OTHER -> Rebuild(h, parts)

\* record_limit: how often the limits cut something out of an expression.
SumOf(ns) == FoldLeft(LAMBDA a, n : a + n, 0, ns)

\* Wrong: a template stops at the limit without a word.
TemplateCut_Silent(h, lim) == 0

TemplateCut(h, lim) == IF h[1] = "tmpl" /\ Len(h[2]) > lim.parts THEN 1 ELSE 0

\* The cuts in an expression at this depth.
RECURSIVE LimitHits(_, _, _)
LimitHits(h, depth, lim) ==
  LET below(p) == IF IsFlat(p) THEN 0 ELSE LimitHits(p, depth + 1, lim)
  IN  IF depth > lim.depth THEN 1
      ELSE IF h[1] \in {"number", "ident", "trav"} THEN 0
      ELSE IF h[1] = "paren" THEN below(h[2])
      ELSE TemplateCut(h, lim) + SumOf([k \in 1..Len(Kept(h, lim)) |-> below(Kept(h, lim)[k])])

-----------------------------------------------------------------------------
(* Blocks.                                                                  *)

\* A nested block with labels keeps them as an entry of their own.
NestedBlock(attrs, labels) ==
  LET own == [k \in 1..Len(attrs) |-> <<Lit(StrVal(attrs[k][1])), attrs[k][2]>>]
      named == <<<<Lit(StrVal(Key.labels)),
                   <<"arr", [k \in 1..Len(labels) |-> Lit(StrVal(labels[k]))]>>>>>>
  IN  IF labels = << >> THEN LiteralObject(own) ELSE <<"obj", named \o own>>

\* lower_block_body: a body too deep is left empty; blocks that repeat give
\* entries with the same key.
RECURSIVE LowerBlockBody(_, _, _)
LowerBlockBody(body, depth, lim) ==
  IF depth > lim.depth THEN << >>
  ELSE [k \in 1..Len(body) |->
          IF body[k][1] = "attr" THEN <<body[k][2], LowerExpression(body[k][3], depth + 1, lim)>>
          ELSE <<body[k][2], NestedBlock(LowerBlockBody(body[k][4], depth + 1, lim), body[k][3])>>]

RECURSIVE BodyHits(_, _, _)
BodyHits(body, depth, lim) ==
  IF depth > lim.depth THEN 1
  ELSE SumOf([k \in 1..Len(body) |->
                IF body[k][1] = "attr" THEN LimitHits(body[k][3], depth + 1, lim)
                ELSE BodyHits(body[k][4], depth + 1, lim)])

\* The blocks before position k of a file, itself included.
BlocksUpTo(file, k) == Len(SelectSeq(SubSeq(file, 1, k), LAMBDA s : s[1] = "block"))

Lowered(s, lim) ==
  IF s[1] = "attr"
    THEN [kind |-> "unknown", labels |-> <<s[2]>>,
          body |-> <<<<s[2], LowerExpression(s[3], 0, lim)>>>>]
  ELSE [kind |-> s[2], labels |-> s[3], body |-> LowerBlockBody(s[4], 0, lim)]

\* lower_body: the blocks of the file, in order, but for those past the limit.
LowerBody(file, lim) ==
  LET kept == SelectSeq([k \in 1..Len(file) |-> k],
                        LAMBDA k : file[k][1] = "attr" \/ BlocksUpTo(file, k) <= lim.blocks)
  IN  [i \in 1..Len(kept) |-> Lowered(file[kept[i]], lim)]

FileHits(file, lim) ==
  SumOf([k \in 1..Len(file) |->
           IF file[k][1] = "attr" THEN LimitHits(file[k][3], 0, lim)
           ELSE IF BlocksUpTo(file, k) > lim.blocks THEN 1 ELSE BodyHits(file[k][4], 0, lim)])

-----------------------------------------------------------------------------
(* Projection.                                                              *)

\* The last attribute of a name is the one that counts.
LastOf(body, key) ==
  IF ~Has(body, key) THEN Absent
  ELSE body[CHOOSE k \in 1..Len(body) :
              body[k][1] = key /\ \A i \in (k + 1)..Len(body) : body[i][1] # key][2]

Without(body, keys) == SelectSeq(body, LAMBDA entry : entry[1] \notin keys)

\* Address::new and is_provider_identifier, on names.
ValidName(name) == name # << >> /\ \A k \in 1..Len(name) : name[k] # Blank
LowerCase(name) == name # << >> /\ \A k \in 1..Len(name) : name[k] \in (1..9) \cup {Digits(0), Digits(1)}

AddressOf(e) == [kind |-> e[2], at |-> <<e[3]>> \o e[4]]
ValidAddress(a) == \A k \in 1..Len(a.at) : ValidName(a.at[k])

\* extract_provider_ref: `aws` or `aws.east`.
NoProvider == << >>
ProviderRef(e) ==
  IF /\ e # Absent /\ e[1] = "sym" /\ e[2] \in {"Other", "Resource"} /\ Len(e[4]) <= 1
     /\ LowerCase(e[3]) /\ \A k \in 1..Len(e[4]) : LowerCase(e[4][k])
    THEN <<e[3]>> \o e[4]
  ELSE NoProvider

\* extract_depends_on: references and strings are addresses; anything else is
\* dropped with a diagnostic.
DependsOn(e) ==
  LET items == IF e = Absent THEN << >>
               ELSE IF e[1] = "arr" THEN e[2]
               ELSE IF IsLit(e) /\ Is("list", e[2]) THEN [k \in 1..Len(e[2][2]) |-> Lit(e[2][2][k])]
               ELSE << >>
      static == SelectSeq(items, LAMBDA i : i[1] = "sym" \/ (IsLit(i) /\ Is("str", i[2])))
      address(i) == IF i[1] = "sym" THEN AddressOf(i) ELSE [kind |-> "Text", at |-> <<i[2][2]>>]
  IN  SelectSeq([k \in 1..Len(static) |-> address(static[k])], ValidAddress)

ProjectResource(block) ==
  [address |-> [kind |-> IF block.kind = "data" THEN "Data" ELSE "Resource", at |-> SubSeq(block.labels, 1, 2)],
   provider |-> ProviderRef(LastOf(block.body, Key.provider)),
   count |-> LastOf(block.body, Key.count),
   for_each |-> LastOf(block.body, Key.for_each),
   depends_on |-> DependsOn(LastOf(block.body, Key.depends_on)),
   attributes |-> Without(block.body, {Key.count, Key.for_each, Key.provider, Key.depends_on})]

ProjectProvider(block) ==
  LET alias == LastOf(block.body, Key.alias)
      static == alias # Absent /\ IsLit(alias) /\ Is("str", alias[2])
  IN  [name |-> block.labels[1],
       alias |-> IF static THEN alias[2][2] ELSE << >>,
       region |-> LastOf(block.body, Key.region),
       profile |-> LastOf(block.body, Key.profile),
       raw |-> IF static THEN Without(block.body, {Key.alias}) ELSE block.body]

\* extract_providers_map: only `name = provider` entries of an object that is not
\* a value.
ProvidersMap(e) ==
  IF e = Absent \/ e[1] # "obj" THEN << >>
  ELSE LET static == SelectSeq(e[2], LAMBDA p : /\ IsLit(p[1]) /\ Is("str", p[1][2])
                                                /\ ProviderRef(p[2]) # NoProvider)
       IN  [k \in 1..Len(static) |-> <<static[k][1][2][2], ProviderRef(static[k][2])>>]

ProjectModuleCall(block) ==
  LET source == LastOf(SelectSeq(block.body, LAMBDA b : IsLit(b[2]) /\ Is("str", b[2][2])), Key.source)
  IN  [name |-> block.labels[1],
       source |-> IF source = Absent THEN << >> ELSE source[2][2],
       providers |-> ProvidersMap(LastOf(block.body, Key.providers)),
       count |-> LastOf(block.body, Key.count),
       for_each |-> LastOf(block.body, Key.for_each),
       inputs |-> Without(block.body, {Key.source, Key.count, Key.for_each, Key.providers})]

\* normalize_variable_type: a type keyword is a bare name until then.
RECURSIVE NormalizeType(_)
NormalizeType(e) ==
  CASE e[1] = "sym" /\ e[2] = "Other" /\ e[3] \in TypeKeywords -> Lit(StrVal(e[3]))
    [] e[1] \in {"call", "arr"} -> Rebuild(e, [k \in 1..Len(Kids(e)) |-> NormalizeType(Kids(e)[k])])
    [] e[1] = "obj" ->
         <<"obj", [k \in 1..Len(e[2]) |-> <<e[2][k][1], NormalizeType(e[2][k][2])>>]>>
    [] OTHER -> e

ProjectVariable(block) ==
  LET type == LastOf(block.body, Key.type)
  IN  [name |-> block.labels[1], default |-> LastOf(block.body, Key.default),
       type |-> IF type = Absent THEN Absent ELSE NormalizeType(type)]

ProjectOutput(block) == [name |-> block.labels[1], value |-> LastOf(block.body, Key.value)]

\* A block that has not the labels its kind needs, or an output without a value,
\* is dropped.
OfKind(blocks, kinds, labels) ==
  SelectSeq(blocks, LAMBDA b :
    /\ b.kind \in kinds /\ Len(b.labels) >= labels
    /\ b.kind \in {"resource", "data", "module"} => \A k \in 1..labels : ValidName(b.labels[k])
    /\ b.kind = "output" => Has(b.body, Key.value))

Each(Op(_), blocks) == [k \in 1..Len(blocks) |-> Op(blocks[k])]

ProjectComponent(blocks) ==
  [variables |-> Each(ProjectVariable, OfKind(blocks, {"variable"}, 1)),
   locals |-> FoldLeft(LAMBDA acc, b : acc \o b.body, << >>, OfKind(blocks, {"locals"}, 0)),
   providers |-> Each(ProjectProvider, OfKind(blocks, {"provider"}, 1)),
   resources |-> Each(ProjectResource, OfKind(blocks, {"resource", "data"}, 2)),
   modules |-> Each(ProjectModuleCall, OfKind(blocks, {"module"}, 1)),
   outputs |-> Each(ProjectOutput, OfKind(blocks, {"output"}, 1))]
=============================================================================
