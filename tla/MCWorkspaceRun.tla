--------------------------- MODULE MCWorkspaceRun ---------------------------
(* Small workspaces and profile files for module WorkspaceRun.              *)
EXTENDS WorkspaceRun

MCProfiles == 1..3

SectionWith(kind, region, source) ==
  [sso |-> IF kind = "sso" THEN "a1" ELSE None,
   role |-> CASE kind = "role" -> "a2" [] kind = "badRole" -> Bad [] OTHER -> None,
   region |-> region, source |-> source]

EmptySection == SectionWith("none", None, NoProfile)

FileOf(format, state, names, sections) ==
  [format |-> format, state |-> state, names |-> names, sections |-> sections]

\* Every way three profiles may refer to each other, with and without an account.
\* The third may be undefined; the second has a region where it has a role.
ChainSections ==
  {[p \in 1..3 |-> SectionWith(k[p], IF p = 2 THEN None ELSE IF p = 1 THEN r ELSE "r2", s[p])] :
     k \in [1..3 -> {"none", "sso", "badRole"}], s \in [1..3 -> 0..3], r \in {None, "r1"}}

ChainFiles == {FileOf("aws", "ok", names, f) : names \in {1..3, 1..2}, f \in ChainSections}

\* Files for the resolver: a map with two profiles of one account, and none.
Pair == [p \in 1..3 |-> IF p = 3 THEN EmptySection ELSE SectionWith("sso", "r1", NoProfile)]
ResolverFiles ==
  {FileOf("yaml", "ok", {1, 2}, Pair),
   FileOf("yaml", "ok", {2}, Pair),
   FileOf("yaml", "ok", {1, 3}, Pair),
   FileOf("yaml", "large", {1}, Pair),
   FileOf("aws", "unreadable", {1}, Pair),
   FileOf("none", "ok", {}, Pair)}

MCConfigFiles == ChainFiles \cup ResolverFiles

-----------------------------------------------------------------------------
Resource(name, kind, ref, attrs, deps) ==
  [addr |-> name, kind |-> kind, ref |-> ref, attrs |-> attrs, deps |-> deps,
   account |-> None, name |-> NoProfile, region |-> None]

Ref(local, alias) == <<[local |-> local, alias |-> alias]>>
Provider(local, alias, profile, role) ==
  [local |-> local, alias |-> alias, region |-> None, profile |-> profile, role |-> role]
Backend(profile, role) ==
  <<[profile |-> profile, role |-> role, region |-> "r2", account |-> None, stateRegion |-> None]>>
Terragrunt(deps, backend, account) ==
  <<[deps |-> deps, backend |-> backend, region |-> None, account |-> account]>>

Component(path, resources, modules, providers, terragrunt, backend) ==
  [path |-> path, resources |-> resources, modules |-> modules, providers |-> providers,
   variables |-> <<[name |-> "v", value |-> Sym("Var", "v")]>>,
   locals |-> <<[name |-> "l", value |-> Sym("Local", "l")]>>,
   outputs |-> <<[name |-> "o", value |-> <<"sym", "Module", "m", <<"out">>>>]>>,
   terragrunt |-> terragrunt, backend |-> backend]

BucketA == <<"bucket", "a">>
BucketB == <<"bucket", "b">>
RoleD == <<"data", "role", "d">>
InModuleA == <<"module", "m", "bucket", "a">>
InModule == <<"module", "m", "bucket", "b">>

Addresses == <<BucketA, BucketB, RoleD, <<"local", "l">>, <<"module", "m">>, <<"output", "o">>,
               <<"provider", "aws">>, <<"provider", "aws", "x">>, <<"provider", "gcp">>,
               <<"var", "v">>, InModuleA, InModule>>
Order == [a \in {Addresses[k] : k \in 1..Len(Addresses)} |-> CHOOSE k \in 1..Len(Addresses) : Addresses[k] = a]

To(head) == <<"sym", "Resource", head[1], <<head[2], "id">>>>

\* Attributes that name a bucket in each place an expression has.
Attributes ==
  {<< >>,
   <<<<"k", To(BucketB)>>, <<"k2", <<"tmpl", <<Lit(StrVal("t")), To(BucketB)>>>>>>>>,
   <<<<"k", <<"obj", <<<<Lit(StrVal("in")), <<"arr", <<To(BucketB)>>>>>>,
                      <<<<"sym", "Data", "role", <<"d">>>>, Lit(IntVal(1))>>>>>>>>>>,
   <<<<"k", <<"cond", Sym("Var", "v"), To(<<"bucket", "b[*]">>),
              <<"for", <<"i">>, To(BucketB), Sym("Other", "i"), Absent, <<"sym", "Module", "m", <<"o">>>>>>>>>>>>}

\* config_path: a component beside this one, below it, absolute in the workspace,
\* absolute outside it, refused, and the component itself twice.
Sibling == <<"..", "net">>
MCRoot == <<"/", "w">>
DependencyLists ==
  {<<Sibling, <<"/", "x">>, <<"a b">>>>,
   <<<<".", "sub">>, <<"/", "w", ".", "net">>>>,
   << << >>, <<".">>, Sibling>>}

Call == [addr |-> <<"module", "m">>, inputs |-> <<<<"in", To(BucketA)>>>>,
         source |-> <<"local", "./modules/m">>]

\* Two components with an address in common, the second through a module.
WorkspaceOf(attrs, ref, providers, tg, backend) ==
  [components |->
     <<Component(<<"app">>, <<Resource(BucketA, "resource", ref, attrs, <<BucketB>>),
                          Resource(RoleD, "data", << >>, << >>, << >>)>>,
                 << >>, providers, tg, << >>),
       Component(<<"net">>, <<Resource(BucketA, "resource", ref, attrs, << >>),
                          Resource(InModule, "resource", << >>, <<<<"k", To(BucketB)>>>>, << >>)>>,
                 <<Call>>, <<Provider("aws", None, 3, None)>>, << >>, backend)>>,
   walked |-> <<"modules/m">>, order |-> Order]

ProviderSets ==
  {<< >>,
   <<Provider("gcp", None, 1, None), Provider("aws", None, 2, None)>>,
   <<Provider("aws", None, 1, None), Provider("aws", "x", 3, None)>>,
   <<Provider("aws", None, 1, "a2"), Provider("gcp", None, 3, None)>>}

\* Every place of a reference with one way to resolve, and every way to resolve
\* with one place.
Referring ==
  {[ws |-> WorkspaceOf(attrs, << >>, <<Provider("aws", None, 1, None)>>,
                       Terragrunt(deps, << >>, None), << >>),
    file |-> FileOf("none", "ok", {}, Pair), strict |-> FALSE] :
     attrs \in Attributes, deps \in DependencyLists}

Resolving ==
  {[ws |-> WorkspaceOf(<< >>, ref, providers, tg, backend), file |-> f, strict |-> s] :
     ref \in {<< >>, Ref("aws", "x"), Ref("aws", None)},
     providers \in ProviderSets,
     tg \in {<< >>, Terragrunt(<<Sibling>>, << >>, "a1"), Terragrunt(<< >>, Backend(2, None), None)},
     backend \in {<< >>, Backend(3, "a2")},
     f \in ResolverFiles, s \in BOOLEAN}

\* The blocks of the first component alone decide whether a strict run fails.
OnlyFirstResolves == {[input EXCEPT !.ws.components[2].providers = << >>] : input \in Resolving}

Loads == {[ws |-> [components |-> << >>, walked |-> << >>, order |-> << >>], file |-> f,
           strict |-> FALSE] : f \in ChainFiles}

\* A module whose second resource refers to its first, called by a component: every
\* name the source refers to is declared.
WholeModule ==
  {[ws |-> [components |->
              <<Component(<<"net">>, <<Resource(InModuleA, "resource", << >>, << >>, << >>),
                                       Resource(InModule, "resource", << >>, <<<<"k", To(BucketA)>>>>, deps)>>,
                          <<[Call EXCEPT !.inputs = << >>]>>, << >>, << >>, << >>)>>,
            walked |-> <<"modules/m">>, order |-> Order],
    file |-> FileOf("none", "ok", {}, Pair), strict |-> FALSE] : deps \in {<< >>, <<BucketA>>}}

AllInputs == Loads \cup Referring \cup Resolving \cup OnlyFirstResolves
=============================================================================
