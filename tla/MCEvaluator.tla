---------------------------- MODULE MCEvaluator ----------------------------
(***************************************************************************)
(* Files for Evaluator: every operator on every pair of operands, every    *)
(* function on every short list of arguments, locals that refer to each    *)
(* other in every order, and structures that meet the loader's limits.     *)
(***************************************************************************)
EXTENDS Evaluator

\* Names of variables and locals; `n` is never bound.
A == <<1>>
B == <<2>>
C == <<3>>
N == <<4>>

Text(s) == <<"lit", StrVal(s)>>
Number(n) == <<"number", n, 1>>
Ref(root, name) == <<"trav", root, <<<<"attr", name>>>>>>
Field(root, name, field) == <<"trav", root, <<<<"attr", name>>, <<"attr", field>>>>>>
Attr(key, e) == <<"attr", key, e>>
Block(ident, labels, body) == <<"block", ident, labels, body>>
Variable(name, default) == Block("variable", <<name>>, <<Attr(Key.default, default)>>)

\* One resource with an attribute for each expression.
Resource(es) ==
  Block("resource", <<A, B>>, [k \in 1..Len(es) |-> Attr(<<100 + k>>, es[k])])

\* Files and directories: a text with a reference, one too large, one that is not
\* text, a link out of the root and a directory.
F == [text |-> <<5>>, large |-> <<6>>, binary |-> <<7>>, link |-> <<8>>, dir |-> <<9>>]
OnDisk(kind, where, size, utf8, parts) ==
  [at |-> where, kind |-> kind, size |-> size, utf8 |-> utf8, parts |-> parts, names |-> {<<2>>, <<1>>}]
Disk == (F.text :> OnDisk("file", "inside", 1, TRUE, <<<<"text", <<1>>>>, <<"ref", A>>>>))
          @@ (F.large :> OnDisk("file", "inside", 9, TRUE, << >>))
          @@ (F.binary :> OnDisk("file", "inside", 1, FALSE, << >>))
          @@ (F.link :> OnDisk("file", "link", 1, TRUE, << >>))
          @@ (F.dir :> OnDisk("dir", "inside", 0, TRUE, << >>))

Cx == [limits |-> [str |-> 3, list |-> 2, file |-> 4, iterations |-> 2],
       env |-> [mode |-> "strict", allowed |-> {A}, process |-> (A :> <<1, 1>>) @@ (B :> <<2>>)],
       disk |-> Disk, tg |-> << >>]

Wide == [blocks |-> 9, depth |-> 9, parts |-> 9]

Program(file, lim, repo, terragrunt, inputs) ==
  [file |-> file, lim |-> lim, repo |-> repo, terragrunt |-> terragrunt,
   workspace |-> StrVal(<<2>>), cx |-> Cx, inputs |-> inputs]

\* The component's directory, two levels below the root of the workspace.
Root == <<Slash, 45>>
Dir == Root \o <<46, 47>>

Unit(chain, locals, leads, texts) ==
  <<[chain |-> chain, locals |-> locals, lim |-> Wide, texts |-> texts,
     cx |-> [Cx EXCEPT !.tg = <<[root |-> Root, dir |-> Dir, leads |-> leads,
                                 active |-> IF Len(chain) > 1 THEN Root \o DefaultName ELSE NoPath]>>]]>>

-----------------------------------------------------------------------------

Ops == <<"Add", "Sub", "Mul", "Div", "Mod", "Eq", "Ne", "Lt", "Le", "Gt", "Ge", "And", "Or">>
Operands == {Number(1), Number(0), Number(IntMax), <<"number", 1, 2>>, Text(A), Lit(BoolVal(TRUE)),
             Ref("var", A), Ref("var", N), <<"un", "Neg", Number(1)>>,
             <<"bin", "Sub", <<"un", "Neg", Number(IntMax)>>, Number(1)>>}

OperatorPrograms ==
  {Program(<<Variable(A, Number(IntMax)), Resource([k \in 1..Len(Ops) |-> <<"bin", Ops[k], l, r>>])>>,
           Wide, << >>, << >>, <<<<N, Lit(IntVal(2))>>>>)
     : l \in Operands, r \in Operands}

FunctionNames ==
  <<"format", "lower", "upper", "trim", "trimspace", "replace", "length", "keys", "values",
    "merge", "concat", "compact", "lookup", "contains", "flatten", "tostring", "tonumber",
    "tobool", "tolist", "toset", "timestamp", "strcontains", "get_env", "file", "fileexists",
    "templatefile", "fileset", "unknown">>
Arguments == {Text(<<1, 11, Blank>>), Text(<<Percent, Verb>>), Text(A), Text(F.dir), Text(F.link),
              Text(F.text), Text(F.large), Text(F.binary), Number(1), Lit(NullVal), Lit(BoolVal(FALSE)),
              <<"arr", <<Number(1), Text(<< >>), Number(1)>>>>, <<"arr", <<<<"arr", <<Number(1)>>>>>>>>,
              <<"obj", <<<<<<"text", B>>, Text(A)>>, <<<<"text", A>>, Text(B)>>>>>>, Ref("var", N)}
Lists == {<< >>} \cup {<<a>> : a \in Arguments} \cup (Arguments \X Arguments)
           \cup {<<Text(<<1, 2, 1>>), Text(A), Text(<<2, 2>>)>>}

FunctionPrograms ==
  {Program(<<Resource([k \in 1..Len(FunctionNames) |-> <<"call", FunctionNames[k], args>>])>>,
           Wide, << >>, << >>, <<<<N, Lit(IntVal(2))>>>>) : args \in Lists}

\* Locals a, b and c in this order.
LocalExpressions ==
  {Number(1), Ref("local", B), Ref("local", C), Ref("var", A), Ref("var", N),
   <<"bin", "Add", Ref("local", A), Ref("local", C)>>, <<"tmpl", <<<<"text", A>>, Ref("local", B)>>>>,
   <<"cond", <<"bin", "Eq", Ref("local", C), Number(1)>>, Ref("local", B), Number(0)>>}
Uses == <<Ref("local", A), <<"bin", "Add", Ref("local", B), Ref("local", C)>>>>

LocalPrograms(units) ==
  {Program(<<Variable(A, Number(1)),
             Block("locals", << >>, <<Attr(A, a), Attr(B, b), Attr(C, c)>>), Resource(Uses)>>,
           Wide, repo, terragrunt, <<<<N, Lit(IntVal(2))>>>>)
     : a \in LocalExpressions, b \in LocalExpressions, c \in LocalExpressions,
       repo \in {<< >>, <<<<A, IntVal(2)>>>>}, terragrunt \in units}

\* Loops, conditions, templates, objects and nested blocks.
Over(e) == <<"for", <<A>>, e, <<"bin", "Add", <<"ident", A>>, Ref("var", B)>>, Absent, Absent>>
Structures ==
  <<Over(<<"arr", <<Number(1), Number(2)>>>>), Over(Ref("var", N)), Over(Ref("var", C)),
    <<"for", <<A, B>>, <<"obj", <<<<<<"text", B>>, Number(1)>>>>>>, <<"ident", B>>,
      <<"bin", "Eq", <<"ident", A>>, Text(B)>>, <<"ident", A>>>>,
    <<"for", <<A>>, <<"arr", <<Number(1)>>>>, Over(<<"arr", <<Number(2)>>>>), Absent, Absent>>,
    <<"cond", Ref("var", N), <<"cond", Lit(BoolVal(TRUE)), Ref("var", B), Number(0)>>, Ref("var", B)>>,
    <<"cond", <<"bin", "Eq", Ref("var", B), Number(1)>>,
      <<"cond", Lit(BoolVal(TRUE)), Ref("var", B), Number(0)>>, Ref("var", N)>>,
    <<"tmpl", <<<<"text", A>>, Ref("var", N), <<"text", B>>>>>>,
    <<"tmpl", <<<<"text", A>>, Ref("var", B), <<"directive">>>>>>,
    <<"paren", <<"paren", <<"un", "Not", Ref("var", N)>>>>>>,
    <<"obj", <<<<<<"text", B>>, Number(1)>>, <<<<"text", A>>, <<"bin", "Add", Ref("var", B), Number(1)>>>>>>>>,
    Field("var", N, B), Field("var", C, A), Ref("terraform", Workspace),
    <<"trav", "name", <<<<"attr", A>>, <<"attr", B>>, <<"index">>>>>>,
    <<"call", "length", <<Ref("var", N)>>>>, <<"tmpl", << >>>>>>

Nested == Block("resource", <<A, C>>,
  <<Attr(Key.count, Ref("var", N)),
    Attr(Key.provider, <<"trav", "name", <<<<"attr", A>>, <<"attr", B>>>>>>),
    Attr(Key.depends_on, <<"arr", <<<<"trav", "name", <<<<"attr", A>>, <<"attr", B>>>>>>>>>>),
    Block(B, << >>, <<Attr(A, Number(1)), Block(A, <<B>>, <<Attr(A, Ref("var", B))>>)>>),
    Block(B, << >>, <<Attr(A, <<"paren", <<"paren", Number(1)>>>>)>>)>>)

StructureFile ==
  <<Variable(B, Number(1)),
    Variable(C, <<"obj", <<<<<<"text", A>>, Number(1)>>>>>>),
    Block("provider", <<A>>, <<Attr(Key.alias, Text(B)), Attr(Key.region, Ref("var", N))>>),
    Resource(Structures), Nested,
    Block("module", <<A>>, <<Attr(Key.source, Text(A)), Attr(B, Ref("var", N)),
                            Attr(Key.providers, <<"obj", <<<<<<"text", A>>, <<"ident", B>>>>>>>>)>>),
    Block("output", <<A>>, <<Attr(Key.value, Ref("var", N))>>),
    Attr(A, Number(2 ^ Width - 1)), Block("resource", <<A>>, << >>)>>

CallInputs == {<< >>, <<<<N, Lit(BoolVal(TRUE))>>>>, <<<<N, Lit(ListVal(<<IntVal(1)>>))>>>>,
          <<<<N, Lit(MapVal(<<<<B, StrVal(A)>>>>))>>>>, <<<<N, Sym("Var", B)>>>>}

StructurePrograms ==
  {Program(StructureFile, [blocks |-> b, depth |-> d, parts |-> t], repo, << >>, inputs)
     : b \in {3, 9}, d \in 0..5, t \in {1, 2, 9}, repo \in {<< >>, <<<<B, IntVal(2)>>>>}, inputs \in CallInputs}

\* Terragrunt: the same name on three levels, of which some lead elsewhere; paths
\* written in every way; locals that need more passes than there are.
Wanted == <<48>>
Itself(path) == path :> path
Trees == {Itself(Root \o Wanted) @@ Itself(Front(Dir) \o Wanted),
          Itself(Root \o Wanted) @@ ((Front(Dir) \o Wanted) :> <<Slash, 44>> \o Wanted),
          Itself(Root \o Wanted) @@ ((Dir \o Wanted) :> Root \o Wanted),
          Itself(<<Slash>> \o Wanted)}
Find(args) == <<"call", "find_in_parent_folders", args>>
Paths == {Text(A), Text(Root), Number(1), Ref("local", A), Find(<<Text(Wanted)>>),
          Find(<<Text(Wanted), Text(B)>>)}
Merged == {<<<<A, Lit(StrVal(C))>>>>, <<<<A, Sym("Local", B)>>, <<B, Lit(StrVal(C))>>>>,
           <<<<A, Sym("Local", B)>>, <<B, Sym("Local", C)>>, <<C, Lit(StrVal(C))>>>>}

Dependency(name, path) ==
  Block("dependency", <<name>>, <<Attr(TgKey.config_path, path),
                                  Attr(TgKey.mock_outputs, <<"obj", <<<<<<"text", A>>, Ref("var", A)>>>>>>)>>)
\* An included file is in the chain twice: as the end of its own chain, and as an include.
Including(parents, own) == FlattenSeq(Each(LAMBDA p : <<p, p>>, parents)) \o <<own>>
DependencyChains ==
  {Including(<<<<Dependency(A, p)>>>>, <<Dependency(name, q)>>) : name \in {A, B}, p \in Paths, q \in Paths}
    \cup {Including(<<<<Dependency(A, p)>>, <<Dependency(B, p), Block("resource", <<A, B>>, << >>)>>>>,
                   <<Dependency(A, Ref("local", N)), Dependency(B, Text(C))>>) : p \in Paths}

\* Inputs, generated files and backends.
Inputs(entries) == Attr(TgKey.inputs, <<"obj", entries>>)
Backend(kind, region) ==
  Block("terraform", << >>, <<Block(TgKey.backend, <<kind>>, <<Attr(Key.region, region)>>)>>)
Generate(name, contents) ==
  Block("generate", <<name>>, <<Attr(TgKey.path, Text(A)), Attr(TgKey.if_exists, Ref("local", A)),
                                Attr(TgKey.contents, contents)>>)
Generated == <<"tmpl", <<<<"text", A>>, Ref("local", N), <<"text", B>>>>>>
Calls == <<<<"get_terragrunt_dir", << >>>>, <<"get_repo_root", << >>>>,
           <<"get_parent_terragrunt_dir", << >>>>,
           <<"path_relative_to_include", << >>>>, <<"path_relative_from_include", << >>>>,
           <<"path_relative_to_include", <<Text(A)>>>>, <<"find_in_parent_folders", << >>>>,
           <<"find_in_parent_folders_from", <<Text(<<46>>), Text(Wanted)>>>>,
           <<"find_in_parent_folders_from", <<Text(<<46>>)>>>>,
           <<"find_in_parent_folders_from", << >>>>, <<"find_in_parent_folders", <<Number(1)>>>>,
           <<"try", <<Ref("local", N), Number(1)>>>>, <<"try", <<Number(1)>>>>, <<"lower", <<Text(A)>>>>>>
Bodies == {<< >>, <<Inputs([k \in 1..Len(Calls) |->
                     <<<<"text", <<100 + k>>>>, <<"call", Calls[k][1], Calls[k][2]>>>>])>>,
           <<Backend(C, Ref("local", A))>>, <<Generate(TgKey.backend, Generated)>>,
           <<Generate(TgKey.backend, Text(C)), Generate(A, Ref("local", N))>>,
           <<Inputs(<<<<<<"text", A>>, Number(2)>>, <<<<"text", B>>, Ref("local", N)>>>>)>>,
           <<Inputs(<<<<<<"text", B>>, Ref("local", A)>>>>), Block("terraform", << >>, <<Attr(A, Number(1))>>)>>}
Texts == (A \o B) :> <<Backend(B, Text(A)), Attr(A, Number(1))>>

TerragruntUnits ==
  {Unit(chain, locals, leads, Texts) : chain \in DependencyChains, locals \in Merged, leads \in Trees}
    \cup {Unit(Including(<<parent>>, child), locals, leads, Texts)
             : parent \in Bodies, child \in Bodies, locals \in Merged,
               leads \in {<< >>, Itself(Root \o DefaultName) @@ Itself(Root \o Wanted)}}

TerragruntPrograms ==
  {Program(<<Variable(A, Number(1)), Variable(B, Ref("var", N)),
             Resource(<<Ref("var", A), Ref("var", B), Ref("local", A)>>)>>,
           Wide, <<<<C, IntVal(2)>>>>, terragrunt, << >>) : terragrunt \in TerragruntUnits}

\* The cascade gives a local of another name, or there is none.
OtherLocal == Unit(<<<< >>>>, <<<<N, Lit(IntVal(2))>>>>, << >>, << >>)
AllPrograms ==
  OperatorPrograms \cup FunctionPrograms \cup StructurePrograms \cup LocalPrograms({<< >>, OtherLocal})
    \cup TerragruntPrograms
=============================================================================
