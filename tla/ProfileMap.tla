----------------------------- MODULE ProfileMap -----------------------------
(***************************************************************************)
(* Loading the map from profile names to accounts                          *)
(* (crates/core/src/provider/profile_map.rs), from a YAML file or from an  *)
(* AWS configuration whose profiles name a source profile.                 *)
(*                                                                         *)
(* A profile name is a number, so that names have an order.  A field that  *)
(* is not there is None; one whose text its type refuses is Bad; any other *)
(* is the account or the region it stands for, in a role the account of    *)
(* the ARN.                                                                *)
(***************************************************************************)
EXTENDS Naturals, Sequences, FiniteSets

CONSTANTS
  Profiles,      \* profile names
  Accounts,
  Regions,
  MaxHops,       \* AWS_CONFIG_MAX_CHAIN_HOPS
  ConfigFiles    \* the files a run may be given

None == "none"
Bad == "bad"
NoProfile == 0

Section == [sso : Accounts \cup {None, Bad}, role : Accounts \cup {None, Bad},
            region : Regions \cup {None, Bad}, source : Profiles \cup {NoProfile}]

ConfigFile == [format : {"aws", "yaml", "none"}, state : {"ok", "large", "unreadable"},
               names : SUBSET Profiles, sections : [Profiles -> Section]]

ASSUME ProfilesArePositive == Profiles \subseteq Nat \ {0}
ASSUME MaxHopsIsNatural == MaxHops \in Nat
ASSUME ValuesAreNotMarks == {None, Bad} \cap (Accounts \cup Regions) = {}
ASSUME FilesAreConfigFiles == ConfigFiles \subseteq ConfigFile

VARIABLES
  file,      \* the file the run was given
  entries,   \* profile -> the entry made for it, NoEntry where there is none
  todo,      \* profiles of the file not looked at yet
  walk,      \* the chain being followed, Idle between two profiles
  load       \* "reading", "walking", "loaded" or "failed"

profileVars == <<file, entries, todo, walk, load>>

Present(v) == v \notin {None, Bad}

NoEntry == [account |-> None, region |-> None, role |-> None]
Idle == [name |-> NoProfile, cur |-> NoProfile, visited |-> {}, hops |-> 0,
         region |-> None, role |-> None, account |-> None]

ProfileMapInit ==
  /\ file \in ConfigFiles
  /\ entries = [p \in Profiles |-> NoEntry]
  /\ todo = {}
  /\ walk = Idle
  /\ load = "reading"

-----------------------------------------------------------------------------
(* The YAML file: one entry the types refuse refuses the file.              *)

YamlEntry(s) == [account |-> s.sso, region |-> s.region, role |-> s.role]
YamlEntryValid(s) == Present(s.sso) /\ s.region # Bad

\* load_yaml_profile_map, after read_capped.
LoadYaml ==
  /\ load = "reading" /\ file.format = "yaml" /\ file.state = "ok"
  /\ IF \A p \in file.names : YamlEntryValid(file.sections[p])
       THEN /\ entries' = [p \in Profiles |->
                             IF p \in file.names THEN YamlEntry(file.sections[p]) ELSE NoEntry]
            /\ load' = "loaded"
       ELSE load' = "failed" /\ UNCHANGED entries
  /\ UNCHANGED <<file, todo, walk>>

\* read_capped: no file, or one above the size limit.
RefuseFile ==
  /\ load = "reading" /\ file.format # "none" /\ file.state # "ok"
  /\ load' = "failed"
  /\ UNCHANGED <<file, entries, todo, walk>>

\* The empty map, where the run was given no file.
NoFile ==
  /\ load = "reading" /\ file.format = "none"
  /\ load' = "loaded"
  /\ UNCHANGED <<file, entries, todo, walk>>

-----------------------------------------------------------------------------
(* The AWS configuration.  The profiles are taken in the order of a hash    *)
(* map, which may be any.                                                   *)

\* load_aws_config, first pass: the sections by profile name.
LoadAwsConfig ==
  /\ load = "reading" /\ file.format = "aws" /\ file.state = "ok"
  /\ load' = "walking"
  /\ todo' = file.names
  /\ UNCHANGED <<file, entries, walk>>

StartProfile ==
  /\ load = "walking" /\ walk = Idle
  /\ \E p \in todo :
       /\ todo' = todo \ {p}
       /\ walk' = [Idle EXCEPT !.name = p, !.cur = p]
  /\ UNCHANGED <<file, entries, load>>

\* Wrong: a later profile of the chain overrides the region of an earlier one.
Absorb_LastRegion(w, s) ==
  [w EXCEPT !.region = IF Present(s.region) THEN s.region ELSE @,
            !.role = IF @ = None THEN s.role ELSE @,
            !.account = IF Present(s.sso) THEN s.sso
                        ELSE IF Present(s.role) THEN s.role ELSE None]

\* What the current profile of a chain adds: the first region and the first role
\* stay, whether or not they belong to the profile that names the account.
Absorb(w, s) ==
  [w EXCEPT !.region = IF @ = None /\ Present(s.region) THEN s.region ELSE @,
            !.role = IF @ = None THEN s.role ELSE @,
            !.account = IF Present(s.sso) THEN s.sso
                        ELSE IF Present(s.role) THEN s.role ELSE None]

\* The chain ends: the profile has an entry where an account was found.
EndProfile(w) ==
  /\ entries' = IF w.account = None THEN entries
                ELSE [entries EXCEPT ![w.name] =
                        [account |-> w.account, region |-> w.region, role |-> w.role]]
  /\ walk' = Idle
  /\ UNCHANGED load

ChainTooLong ==
  /\ load' = "failed"
  /\ UNCHANGED <<entries, walk>>

\* One round of the loop of resolve_aws_profile.
FollowChain ==
  LET seen == [walk EXCEPT !.visited = @ \cup {walk.cur}]
      s == file.sections[walk.cur]
      here == Absorb(seen, s)
  IN  /\ load = "walking" /\ walk # Idle
      /\ IF walk.cur \in walk.visited THEN ChainTooLong
         ELSE IF walk.cur \notin file.names THEN EndProfile(seen)
         ELSE IF here.account # None \/ s.source = NoProfile THEN EndProfile(here)
         ELSE IF walk.hops >= MaxHops THEN ChainTooLong
         ELSE /\ walk' = [here EXCEPT !.cur = s.source, !.hops = @ + 1]
              /\ UNCHANGED <<entries, load>>
      /\ UNCHANGED <<file, todo>>

EndLoad ==
  /\ load = "walking" /\ walk = Idle /\ todo = {}
  /\ load' = "loaded"
  /\ UNCHANGED <<file, entries, todo, walk>>

ProfileMapNext ==
  \/ LoadYaml
  \/ RefuseFile
  \/ NoFile
  \/ LoadAwsConfig
  \/ StartProfile
  \/ FollowChain
  \/ EndLoad

ProfileMapSpec == ProfileMapInit /\ [][ProfileMapNext]_profileVars

-----------------------------------------------------------------------------
(* Properties.                                                              *)

Entry == [account : Accounts \cup {None}, region : Regions \cup {None},
          role : Accounts \cup {None, Bad}]

ProfileMapTypeOK ==
  /\ file \in ConfigFile
  /\ entries \in [Profiles -> Entry]
  /\ todo \subseteq Profiles
  /\ walk \in [name : Profiles \cup {NoProfile}, cur : Profiles \cup {NoProfile},
               visited : SUBSET (Profiles \cup {NoProfile}), hops : 0..MaxHops,
               region : Regions \cup {None}, role : Accounts \cup {None, Bad},
               account : Accounts \cup {None}]
  /\ load \in {"reading", "walking", "loaded", "failed"}

\* The account a profile names by itself.
OwnAccount(p) ==
  LET s == file.sections[p] IN IF Present(s.sso) THEN s.sso ELSE IF Present(s.role) THEN s.role ELSE None

\* The profile n hops away from p.
HopsFrom(p) ==
  LET at[n \in 0..(MaxHops + 1)] ==
        IF n = 0 THEN p
        ELSE IF at[n - 1] \in file.names THEN file.sections[at[n - 1]].source ELSE NoProfile
  IN  at

\* Where the account of a profile is found: every hop before it names none.
FoundAt(p, n) ==
  /\ \A m \in 0..n : HopsFrom(p)[m] \in file.names
  /\ OwnAccount(HopsFrom(p)[n]) # None
  /\ \A m \in 0..(n - 1) : OwnAccount(HopsFrom(p)[m]) = None

\* A chain without an account is fine where it stops within the limit.
Stops(p) ==
  \/ \E n \in 1..(MaxHops + 1) : HopsFrom(p)[n] = NoProfile
  \/ \E n \in 0..MaxHops : HopsFrom(p)[n] \notin file.names

Resolvable(p) == Stops(p) \/ \E n \in 0..MaxHops : FoundAt(p, n)

RegionFound(p, n, region) ==
  LET regions == {m \in 0..n : Present(file.sections[HopsFrom(p)[m]].region)}
  IN  IF regions = {} THEN region = None
      ELSE \E m \in regions : /\ \A k \in regions : m <= k
                              /\ region = file.sections[HopsFrom(p)[m]].region

(* In whatever order the profiles of an AWS configuration are taken, the    *)
(* map gives each the account of the nearest profile of its chain that      *)
(* names one, with the nearest region, and the load fails exactly where     *)
(* some chain neither names an account nor stops within the limit.          *)
MapMatchesChains ==
  file.format = "aws" /\ file.state = "ok" =>
    /\ load = "failed" => \E p \in file.names : ~Resolvable(p)
    /\ load = "loaded" =>
         \A p \in Profiles :
           /\ p \in file.names => Resolvable(p)
           /\ entries[p].account # None <=> p \in file.names /\ \E n \in 0..MaxHops : FoundAt(p, n)
           /\ \A n \in 0..MaxHops :
                p \in file.names /\ FoundAt(p, n) =>
                  /\ entries[p].account = OwnAccount(HopsFrom(p)[n])
                  /\ RegionFound(p, n, entries[p].region)

=============================================================================
