-------------------------- MODULE ProviderResolver --------------------------
(***************************************************************************)
(* Accounts and regions of the resources and of the state backends         *)
(* (crates/core/src/provider/resolver.rs), from the provider blocks of a   *)
(* component, the profile map and the locals that terragrunt cascades.     *)
(***************************************************************************)
EXTENDS ProfileMap, WorkspaceIR

CONSTANT DefaultRegion

ASSUME DefaultRegionIsOption == DefaultRegion \in Regions \cup {None}

VARIABLES
  strict,       \* the mode of the run
  unresolved,   \* profiles the map has no entry for
  missing,      \* <<component, alias>> of the references without a provider
  reports       \* the diagnostics of the resolver, once it has ended

resolverVars == <<strict, unresolved, missing, reports>>

ResolverInit ==
  /\ strict \in BOOLEAN
  /\ unresolved = {}
  /\ missing = {}
  /\ reports = << >>

NoBlock == << >>

FirstOf(seq, Test(_)) ==
  LET hits == {k \in 1..Len(seq) : Test(seq[k])}
  IN  IF hits = {} THEN NoBlock ELSE <<seq[CHOOSE k \in hits : \A j \in hits : k <= j]>>

\* Wrong: a reference to an alias nobody declares falls back to the default provider.
PickProvider_Fallback(providers, ref) ==
  LET named == IF IsSome(ref)
                 THEN FirstOf(providers, LAMBDA p : p.local = ref[1].local /\ p.alias = ref[1].alias)
                 ELSE NoBlock
  IN  IF named # NoBlock THEN named ELSE FirstOf(providers, LAMBDA p : p.alias = None)

\* pick_provider: without a reference, the default aws provider, else any default.
PickProvider(providers, ref) ==
  IF IsSome(ref)
    THEN FirstOf(providers, LAMBDA p : p.local = ref[1].local /\ p.alias = ref[1].alias)
  ELSE LET aws == FirstOf(providers, LAMBDA p : p.local = "aws" /\ p.alias = None)
       IN  IF aws # NoBlock THEN aws ELSE FirstOf(providers, LAMBDA p : p.alias = None)

InMap(profile) == entries[profile].account # None

\* lookup_name_by_account: the smallest profile with the account.
NameByAccount(account) ==
  LET hits == {p \in Profiles : InMap(p) /\ entries[p].account = account}
  IN  IF hits = {} THEN NoProfile ELSE CHOOSE p \in hits : \A q \in hits : p <= q

CascadeRegion(c) ==
  IF IsSome(c.terragrunt) /\ Present(c.terragrunt[1].region) THEN c.terragrunt[1].region
  ELSE DefaultRegion

CascadeAccount(c) ==
  IF IsSome(c.terragrunt) /\ Present(c.terragrunt[1].account) THEN c.terragrunt[1].account
  ELSE None

\* first_resolved_region
RegionOf(provider, c) ==
  IF provider # NoBlock /\ Present(provider[1].region) THEN provider[1].region
  ELSE CascadeRegion(c)

\* first_resolved_account: the role of the provider, its profile, the cascade.
AccountOf(provider, c) ==
  IF provider # NoBlock /\ Present(provider[1].role)
    THEN [account |-> provider[1].role, name |-> NameByAccount(provider[1].role)]
  ELSE IF provider # NoBlock /\ provider[1].profile # NoProfile /\ InMap(provider[1].profile)
    THEN [account |-> entries[provider[1].profile].account, name |-> provider[1].profile]
  ELSE IF CascadeAccount(c) # None
    THEN [account |-> CascadeAccount(c), name |-> NameByAccount(CascadeAccount(c))]
  ELSE [account |-> None, name |-> NoProfile]

\* The profiles that looking up an account fails to find.
UnresolvedBy(provider) ==
  IF provider = NoBlock \/ Present(provider[1].role) \/ provider[1].profile = NoProfile THEN {}
  ELSE {provider[1].profile} \ {p \in Profiles : InMap(p)}

ResolveResource(r, c) ==
  LET provider == PickProvider(c.providers, r.ref)
  IN  [r EXCEPT !.region = RegionOf(provider, c),
                !.account = AccountOf(provider, c).account,
                !.name = AccountOf(provider, c).name]

\* fill_state_backend: a profile without an entry is unresolved even where the
\* role names the account.
FillBackend(b) ==
  LET mapped == IF b.account = None /\ b.profile # NoProfile /\ InMap(b.profile)
                  THEN entries[b.profile].account ELSE b.account
  IN  [b EXCEPT !.account = IF mapped = None /\ Present(b.role) THEN b.role ELSE mapped,
                !.stateRegion = IF @ = None /\ Present(b.region) THEN b.region ELSE @]

\* Wrong: nobody hears of a profile that only a backend names.
BackendUnresolved_Silent(b) == {}

BackendUnresolved(b) ==
  IF b.account = None /\ b.profile # NoProfile /\ ~InMap(b.profile) THEN {b.profile} ELSE {}

FillOption(option) == [k \in 1..Len(option) |-> FillBackend(option[k])]
FillTerragrunt(t) == [t EXCEPT !.backend = FillOption(@)]

BackendsOf(c) ==
  Elements(c.backend) \cup (IF IsSome(c.terragrunt) THEN Elements(c.terragrunt[1].backend) ELSE {})

\* resolve_component
ResolvedComponent(c) ==
  [c EXCEPT !.resources = [k \in 1..Len(@) |-> ResolveResource(@[k], c)],
            !.backend = FillOption(@),
            !.terragrunt = [k \in 1..Len(@) |-> FillTerragrunt(@[k])]]

\* One TF1602 for an alias of a component, whatever the local names.
MissingAliases(c) ==
  {r.ref[1].alias : r \in {r \in Elements(c.resources) :
                             IsSome(r.ref) /\ PickProvider(c.providers, r.ref) = NoBlock}}

ResolveComponent ==
  /\ stage = "resolve" /\ load = "loaded" /\ at \in Components
  /\ LET c == ws.components[at]
     IN  /\ ws' = [ws EXCEPT !.components[at] = ResolvedComponent(c)]
         /\ unresolved' = unresolved
                            \cup (UNION {UnresolvedBy(PickProvider(c.providers, r.ref)) :
                                           r \in Elements(c.resources)})
                            \cup (UNION {BackendUnresolved(b) : b \in BackendsOf(c)})
         /\ missing' = missing \cup {<<at, alias>> : alias \in MissingAliases(c)}
  /\ at' = at + 1
  /\ UNCHANGED <<stage, strict, reports, profileVars>>

\* The end of resolve: one TF1601 for each profile, in their order, then the
\* failure of strict mode.
Ascending(set) ==
  [k \in 1..Cardinality(set) |->
     CHOOSE p \in set : Cardinality({q \in set : q < p}) = k - 1]

ReportUnresolved ==
  /\ stage = "resolve" /\ load = "loaded" /\ at \notin Components
  /\ reports' = [k \in 1..Cardinality(unresolved) |-> <<"TF1601", Ascending(unresolved)[k]>>]
  /\ IF strict /\ unresolved # {} THEN Advance("failed") ELSE Advance("rows")
  /\ UNCHANGED <<ws, strict, unresolved, missing, profileVars>>

\* A profile map that does not load ends the program before the pipeline runs.
NoProfileMap ==
  /\ stage = "edges" /\ at = 1 /\ load = "failed"
  /\ Advance("failed")
  /\ UNCHANGED <<ws, profileVars, resolverVars>>

-----------------------------------------------------------------------------
(* The resolver by itself.  The graph builder hands it a workspace in which *)
(* nothing is resolved; the stages before and after it leave alone what it  *)
(* reads and writes.                                                        *)

IsSequence(s) == s \in Seq(Elements(s))

NamesProfile(block) ==
  {"profile", "role"} \subseteq DOMAIN block /\ block.profile \in Profiles \cup {NoProfile}

BackendHandedOn(b) ==
  NamesProfile(b) /\ {"region", "account", "stateRegion"} \subseteq DOMAIN b /\ b.account = None

ComponentHandedOn(c) ==
  /\ {"resources", "providers", "terragrunt", "backend"} \subseteq DOMAIN c
  /\ IsSequence(c.resources) /\ IsSequence(c.providers)
  /\ IsSequence(c.terragrunt) /\ IsSequence(c.backend)
  /\ \A r \in Elements(c.resources) : {"ref", "account", "name", "region"} \subseteq DOMAIN r
  /\ \A p \in Elements(c.providers) : NamesProfile(p)
  /\ \A t \in Elements(c.terragrunt) : {"account", "backend"} \subseteq DOMAIN t /\ IsSequence(t.backend)
  /\ \A b \in BackendsOf(c) : BackendHandedOn(b)

HandedOn ==
  /\ "components" \in DOMAIN ws /\ IsSequence(ws.components)
  /\ \A c \in Elements(ws.components) : ComponentHandedOn(c)

\* The graph builder goes through the components and is done.
StageBefore ==
  /\ stage = "edges" /\ load = "loaded"
  /\ Advance("resolve") \/ (stage' = stage /\ at' \in Nat)
  /\ UNCHANGED <<ws, profileVars, resolverVars>>

\* The tables are written.
StagesAfter ==
  /\ stage \in {"rows", "tables"} /\ stage' \in {"rows", "tables", "done"}
  /\ UNCHANGED <<ws, profileVars, resolverVars>>

ResolverNext ==
  \/ ProfileMapNext /\ UNCHANGED <<ws, stage, at, resolverVars>>
  \/ StageBefore
  \/ ResolveComponent
  \/ ReportUnresolved
  \/ NoProfileMap
  \/ StagesAfter

\* What the theorems are about; a run of WorkspaceRun is one of its behaviours.
ResolverSpec ==
  /\ stage = "edges" /\ at = 1 /\ HandedOn /\ ProfileMapInit /\ ResolverInit
  /\ [][ResolverNext]_<<ws, stage, at, profileVars, resolverVars>>

-----------------------------------------------------------------------------
(* Properties.                                                              *)

Resolved == stage \notin {"edges", "resolve"} /\ load = "loaded"

(* I-PROV-4: the account of a resource that names a provider is that of     *)
(* the role or the profile of a block with just that name and alias, or     *)
(* the one cascaded to its component, never another provider's.             *)
AccountFromNamedProvider ==
  Resolved =>
    \A k \in Components : \A r \in Elements(ws.components[k].resources) :
      IsSome(r.ref) /\ r.account # None =>
        \/ r.account = CascadeAccount(ws.components[k])
        \/ \E p \in Elements(ws.components[k].providers) :
             /\ p.local = r.ref[1].local /\ p.alias = r.ref[1].alias
             /\ r.account \in {p.role} \cup {entries[q].account : q \in Profiles \cap {p.profile}}

\* A profile the workspace relies on for an account: the backend's, or that of a
\* provider some resource uses and which assumes no role.
Wanted ==
  UNION {{p.profile : p \in {p \in Elements(c.providers) :
                               /\ ~Present(p.role)
                               /\ \E r \in Elements(c.resources) :
                                    PickProvider(c.providers, r.ref) = <<p>>}}
           \cup {b.profile : b \in BackendsOf(c)} : c \in Elements(ws.components)}

(* I-PROV-2: a profile that some component relies on for an account and the *)
(* map does not have is reported, once in the workspace however many        *)
(* resources, backends and components name it.  No other is: a block that   *)
(* no resource uses, or one that assumes a role, is not looked up.  Strict  *)
(* mode fails exactly when one is reported.                                 *)
UnresolvedReported ==
  Resolved =>
    /\ {reports[k][2] : k \in 1..Len(reports)} =
         {p \in Wanted \ {NoProfile} : ~InMap(p)}
    /\ \A j, k \in 1..Len(reports) : reports[j] = reports[k] => j = k
    /\ stage = "failed" <=> strict /\ reports # << >>

=============================================================================
