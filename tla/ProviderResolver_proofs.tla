------------------------ MODULE ProviderResolver_proofs ------------------------
(***************************************************************************)
(* Proofs about ProfileMap and about ProviderResolver, which reads it, for *)
(* any profile file, any limit on a chain of source profiles and any       *)
(* workspace the graph builder may hand on.  However the profiles are      *)
(* ordered, the map holds what the chains say, and the load fails only     *)
(* where a chain is endless; accounts come from the provider a resource    *)
(* names, and the profiles nobody knows are reported, each once.           *)
(***************************************************************************)
EXTENDS ProviderResolver, WellFoundedInduction, FiniteSetTheorems, TLAPS

-----------------------------------------------------------------------------
(* Chains, of a file f that is given.                                       *)

NextOf(f, q) == IF q \in f.names THEN f.sections[q].source ELSE NoProfile
Own(f, q) ==
  LET s == f.sections[q] IN
  IF Present(s.sso) THEN s.sso ELSE IF Present(s.role) THEN s.role ELSE None

Chain(f, p) ==
  CHOOSE hop : hop = [n \in 0..(MaxHops + 1) |->
                       IF n = 0 THEN p
                       ELSE IF hop[n - 1] \in f.names THEN f.sections[hop[n - 1]].source
                       ELSE NoProfile]

\* A set of numbers that is not empty has a least one.
LEMMA LeastNumber ==
  ASSUME NEW T, T \subseteq Nat, T # {}
  PROVE  \E x \in T : \A y \in T : x <= y
<1>1. PICK x \in T : \A y \in T : ~ (<<y, x>> \in OpToRel(<, Nat))
  BY WFMin, NatLessThanWellFounded, Zenon
<1>2. \A y \in T : ~(y < x)
  BY <1>1 DEF OpToRel
<1> QED  BY <1>2

\* g holds the first k hops from p.
HopsUpTo(g, f, p, k) ==
  g = [n \in 0..k |-> IF n = 0 THEN p
                      ELSE IF g[n - 1] \in f.names THEN f.sections[g[n - 1]].source
                      ELSE NoProfile]

\* The first steps of a chain are a function.
LEMMA ChainStarts ==
  ASSUME NEW f, NEW p, NEW k \in Nat
  PROVE  \E g : HopsUpTo(g, f, p, k)
<1> DEFINE Is(g, m) == HopsUpTo(g, f, p, m)
           Stuck == {m \in Nat : ~\E g : Is(g, m)}
<1>1. Is([n \in 0..0 |-> p], 0)
  BY DEF HopsUpTo
<1>2. ASSUME NEW m \in Nat, NEW g, Is(g, m)
      PROVE  \E h : Is(h, m + 1)
  <2> DEFINE h == [n \in 0..(m + 1) |->
                     IF n \in 0..m THEN g[n]
                     ELSE IF g[m] \in f.names THEN f.sections[g[m]].source ELSE NoProfile]
  <2>1. \A n \in 0..(m + 1) : n \in 0..m \/ n = m + 1
    OBVIOUS
  <2>2. 0 \in 0..m /\ m + 1 \notin 0..m /\ m + 1 # 0 /\ (m + 1) - 1 = m /\ m \in 0..m
    OBVIOUS
  <2>3. \A n \in 0..m : n # 0 => n - 1 \in 0..m
    OBVIOUS
  <2>4. \A n \in 0..(m + 1) :
          h[n] = IF n = 0 THEN p
                 ELSE IF h[n - 1] \in f.names THEN f.sections[h[n - 1]].source ELSE NoProfile
    <3> SUFFICES ASSUME NEW n \in 0..(m + 1)
                 PROVE  h[n] = IF n = 0 THEN p
                               ELSE IF h[n - 1] \in f.names THEN f.sections[h[n - 1]].source
                               ELSE NoProfile
      OBVIOUS
    <3>1. CASE n \in 0..m
      <4>1. h[n] = g[n]
        BY <3>1
      <4>2. g[n] = IF n = 0 THEN p
                   ELSE IF g[n - 1] \in f.names THEN f.sections[g[n - 1]].source ELSE NoProfile
        BY <1>2, <3>1 DEF HopsUpTo
      <4>3. n # 0 => h[n - 1] = g[n - 1]
        <5>1. n # 0 => n - 1 \in 0..m /\ n - 1 \in 0..(m + 1)
          BY <3>1
        <5> QED  BY <5>1
      <4> QED  BY <4>1, <4>2, <4>3
    <3>2. CASE n = m + 1
      <4>1. h[n] = IF g[m] \in f.names THEN f.sections[g[m]].source ELSE NoProfile
        BY <2>2, <3>2
      <4>2. h[n - 1] = g[m] /\ n # 0
        <5>1. m \in 0..(m + 1)
          OBVIOUS
        <5> QED  BY <2>2, <3>2, <5>1
      <4> QED  BY <4>1, <4>2
    <3> QED  BY <2>1, <3>1, <3>2
  <2>5. h = [n \in 0..(m + 1) |-> h[n]]
    OBVIOUS
  <2> HIDE DEF h
  <2>6. Is(h, m + 1)
    BY <2>4, <2>5 DEF HopsUpTo
  <2> QED  BY <2>6
<1>3. Stuck = {}
  <2> SUFFICES ASSUME Stuck # {} PROVE FALSE
    OBVIOUS
  <2>1. Stuck \subseteq Nat
    OBVIOUS
  <2> HIDE DEF Stuck
  <2>2. PICK x \in Stuck : \A y \in Stuck : x <= y
    BY <2>1, LeastNumber
  <2> USE DEF Stuck
  <2>3. x \in Nat /\ x # 0
    BY <1>1, <2>2
  <2>4. PICK m \in Nat : x = m + 1 /\ ~(x <= m)
    <3>1. x - 1 \in Nat /\ x = (x - 1) + 1 /\ ~(x <= x - 1)
      BY <2>3
    <3> QED  BY <3>1
  <2> HIDE DEF Is
  <2>5. PICK g : Is(g, m)
    BY <2>2, <2>4
  <2>6. \E h : Is(h, m + 1)
    BY <1>2, <2>5
  <2> QED  BY <2>2, <2>4, <2>6
<1> QED  BY <1>3

\* What a chain is.
LEMMA ChainValues ==
  ASSUME NEW f, NEW p, NEW hop, hop = Chain(f, p)
  PROVE  /\ hop[0] = p
         /\ \A n \in 0..MaxHops : hop[n + 1] = NextOf(f, hop[n])
<1>1. MaxHops + 1 \in Nat
  BY MaxHopsIsNatural
<1>2. PICK k : k = MaxHops + 1
  OBVIOUS
<1>3. \E g : HopsUpTo(g, f, p, k)
  BY <1>1, <1>2, ChainStarts
<1>4. HopsUpTo(hop, f, p, MaxHops + 1)
  <2>1. \E g : HopsUpTo(g, f, p, MaxHops + 1)
    BY <1>2, <1>3
  <2>2. HopsUpTo(CHOOSE g : HopsUpTo(g, f, p, MaxHops + 1), f, p, MaxHops + 1)
    BY <2>1, Zenon
  <2>3. hop = CHOOSE g : HopsUpTo(g, f, p, MaxHops + 1)
    BY DEF Chain, HopsUpTo
  <2> QED  BY <2>2, <2>3
<1>5. hop[0] = p
  <2>1. 0 \in 0..(MaxHops + 1)
    BY <1>1
  <2> QED  BY <1>4, <2>1 DEF HopsUpTo
<1>6. ASSUME NEW n \in 0..MaxHops  PROVE hop[n + 1] = NextOf(f, hop[n])
  <2>1. n + 1 \in 0..(MaxHops + 1) /\ n + 1 # 0 /\ (n + 1) - 1 = n
    BY MaxHopsIsNatural
  <2> QED  BY <1>4, <2>1 DEF HopsUpTo, NextOf
<1> QED  BY <1>5, <1>6

\* It is the model's.
LEMMA ChainIsHops == ASSUME NEW p PROVE HopsFrom(p) = Chain(file, p)
  BY DEF HopsFrom, Chain
-----------------------------------------------------------------------------
(* What a chain says of its profile.                                        *)

Found(f, p, n) ==
  /\ \A m \in 0..n : Chain(f, p)[m] \in f.names
  /\ Own(f, Chain(f, p)[n]) # None
  /\ \A m \in 0..(n - 1) : Own(f, Chain(f, p)[m]) = None

Ends(f, p) ==
  \/ \E n \in 1..(MaxHops + 1) : Chain(f, p)[n] = NoProfile
  \/ \E n \in 0..MaxHops : Chain(f, p)[n] \notin f.names

Resolves(f, p) == Ends(f, p) \/ \E n \in 0..MaxHops : Found(f, p, n)

\* The profiles among the first hops to n that state a region.
Stating(f, p, n) == {m \in 0..n : Present(f.sections[Chain(f, p)[m]].region)}

\* The region nearest to p, up to n hops away.
Nearest(f, p, n, region) ==
  IF Stating(f, p, n) = {} THEN region = None
  ELSE \E m \in Stating(f, p, n) : /\ \A k \in Stating(f, p, n) : m <= k
                                   /\ region = f.sections[Chain(f, p)[m]].region

\* An entry that holds what the chain of p says.
Settled(f, p, entry) ==
  /\ Resolves(f, p)
  /\ entry.account # None <=> \E n \in 0..MaxHops : Found(f, p, n)
  /\ \A n \in 0..MaxHops :
       Found(f, p, n) => /\ entry.account = Own(f, Chain(f, p)[n])
                         /\ Nearest(f, p, n, entry.region)

\* The chain of p passes n profiles of the file, none of which names an account.
Passed(f, p, n) ==
  \A m \in 0..(n - 1) : /\ Chain(f, p)[m] \in f.names
                        /\ Own(f, Chain(f, p)[m]) = None
                        /\ f.sections[Chain(f, p)[m]].source # NoProfile

\* A walk in the middle of its chain.
Underway(f, w) ==
  /\ w.cur = Chain(f, w.name)[w.hops]
  /\ w.visited = {Chain(f, w.name)[m] : m \in 0..(w.hops - 1)}
  /\ Passed(f, w.name, w.hops)
  /\ Nearest(f, w.name, w.hops - 1, w.region)
  /\ w.account = None

-----------------------------------------------------------------------------
(* The inductive invariant.                                                 *)

Aws(f) == f.format = "aws" /\ f.state = "ok"

TodoInv ==
  /\ todo \subseteq file.names
  /\ load = "reading" => walk = Idle
  /\ load = "loaded" => todo = {} /\ walk = Idle
  /\ load = "failed" => \E p \in file.names : ~Resolves(file, p)

\* Profiles whose chain has not been followed to its end have no account yet.
OpenInv ==
  \A p \in Profiles :
    p \notin file.names \/ p \in todo \/ p = walk.name \/ load = "reading"
      => entries[p].account = None

SettledInv ==
  load # "reading" =>
    \A p \in file.names \ todo : p # walk.name => Settled(file, p, entries[p])

WalkInv == walk # Idle => walk.name \in file.names \ todo /\ Underway(file, walk)

ChainsInv == TodoInv /\ OpenInv /\ SettledInv /\ WalkInv

ProfileInv == ProfileMapTypeOK /\ (Aws(file) => ChainsInv)
-----------------------------------------------------------------------------
(* Lemmas about chains.                                                     *)

\* Profiles have positive numbers: none is NoProfile.
LEMMA NamesPositive ==
  ASSUME NEW f \in ConfigFile
  PROVE  f.names \subseteq Profiles /\ NoProfile \notin Profiles
  BY ProfilesArePositive DEF ConfigFile, NoProfile

\* Among the profiles a walk passed none names the account.
LEMMA PassedNotFound ==
  ASSUME NEW f, NEW p, NEW n \in Nat, Passed(f, p, n), NEW k \in Nat, Found(f, p, k)
  PROVE  n <= k
<1> SUFFICES ASSUME k < n PROVE FALSE
  OBVIOUS
<1>1. k \in 0..(n - 1)
  OBVIOUS
<1> QED  BY <1>1 DEF Passed, Found

\* The account is found in one place.
LEMMA FoundOnce ==
  ASSUME NEW f, NEW p, NEW n \in Nat, NEW k \in Nat, Found(f, p, n), Found(f, p, k)
  PROVE  k = n
<1>1. ASSUME NEW i \in Nat, NEW j \in Nat, Found(f, p, i), Found(f, p, j), i < j
      PROVE  FALSE
  <2>1. i \in 0..(j - 1)
    BY <1>1
  <2> QED  BY <1>1, <2>1 DEF Found
<1>2. ~(n < k) /\ ~(k < n)
  BY <1>1
<1> QED  BY <1>2

\* The region of one more profile.
LEMMA NearestStep ==
  ASSUME NEW f, NEW p, NEW n \in Nat, NEW r, Nearest(f, p, n - 1, r),
         NEW r2, NEW here, here = f.sections[Chain(f, p)[n]].region,
         r2 = IF r = None /\ Present(here) THEN here ELSE r
  PROVE  Nearest(f, p, n, r2)
<1> DEFINE T == Stating(f, p, n - 1)
           T2 == Stating(f, p, n)
<1>1. T \subseteq T2 /\ \A m \in T2 : m \in T \/ m = n
  <2>1. 0..(n - 1) \subseteq 0..n /\ \A m \in 0..n : m \in 0..(n - 1) \/ m = n
    OBVIOUS
  <2> QED  BY <2>1 DEF Stating
<1>2. n \in T2 <=> Present(here)
  BY DEF Stating
<1>3. \A m \in T : m \in Nat /\ m <= n /\ Present(f.sections[Chain(f, p)[m]].region)
  BY DEF Stating
<1>4. \A m : Present(m) => m # None
  BY DEF Present
<1>5. T = {} => r = None
  BY DEF Nearest
<1>6. T # {} => \E m \in T : /\ \A k \in T : m <= k
                             /\ r = f.sections[Chain(f, p)[m]].region
  BY DEF Nearest
<1> HIDE DEF T, T2
<1>7. CASE T # {}
  <2>1. PICK m \in T : (\A k \in T : m <= k) /\ r = f.sections[Chain(f, p)[m]].region
    BY <1>6, <1>7
  <2>2. r2 = r
    BY <1>3, <1>4, <2>1
  <2>3. m \in T2 /\ \A k \in T2 : m <= k
    BY <1>1, <1>3, <2>1
  <2> QED  BY <2>1, <2>2, <2>3 DEF Nearest, T2
<1>8. CASE T = {} /\ Present(here)
  <2>1. r2 = here /\ n \in T2 /\ \A k \in T2 : n <= k
    BY <1>1, <1>2, <1>5, <1>8
  <2> QED  BY <2>1 DEF Nearest, T2
<1>9. CASE T = {} /\ ~Present(here)
  <2>1. r2 = None /\ T2 = {}
    BY <1>1, <1>2, <1>5, <1>9
  <2> QED  BY <2>1 DEF Nearest, T2
<1> QED  BY <1>7, <1>8, <1>9

\* Before the first profile no region is found.
LEMMA NearestNone == ASSUME NEW f, NEW p PROVE Nearest(f, p, -1, None)
<1>1. 0..(-1) = {}
  OBVIOUS
<1> QED  BY <1>1 DEF Nearest, Stating

\* A chain that comes back to a profile stays among the profiles it passed.
LEMMA ChainTurns ==
  ASSUME NEW f, NEW p, NEW n \in 0..MaxHops, NEW j \in 0..(n - 1),
         Chain(f, p)[n] = Chain(f, p)[j]
  PROVE  \A m \in 0..(MaxHops + 1) : \E i \in 0..(n - 1) : Chain(f, p)[m] = Chain(f, p)[i]
<1> DEFINE hop == Chain(f, p)
           Away == {m \in 0..(MaxHops + 1) : \A i \in 0..(n - 1) : hop[m] # hop[i]}
<1> SUFFICES ASSUME Away # {} PROVE FALSE
  OBVIOUS
<1>1. Away \subseteq Nat /\ n \in Nat /\ MaxHops \in Nat
  BY MaxHopsIsNatural
<1>2. PICK x \in Away : \A y \in Away : x <= y
  <2> HIDE DEF Away
  <2> QED  BY <1>1, LeastNumber
<1>3. x \in 0..(MaxHops + 1) /\ x # n /\ ~(x \in 0..(n - 1))
  BY <1>2
<1>4. PICK m \in 0..MaxHops : x = m + 1
  <2>1. x - 1 \in 0..MaxHops /\ x = (x - 1) + 1
    BY <1>1, <1>3
  <2> QED  BY <2>1
<1>5. m \in 0..(MaxHops + 1) /\ m \notin Away
  BY <1>1, <1>2, <1>4
<1>6. PICK i \in 0..(n - 1) : hop[m] = hop[i]
  BY <1>5
<1>7. i \in 0..MaxHops /\ i + 1 \in 0..n
  BY <1>1, <1>6
<1>8. hop[m + 1] = NextOf(f, hop[m]) /\ hop[i + 1] = NextOf(f, hop[i])
  <2> HIDE DEF hop
  <2>1. hop = Chain(f, p)
    BY DEF hop
  <2> QED  BY <1>4, <1>7, <2>1, ChainValues
<1>9. hop[x] = hop[i + 1]
  BY <1>4, <1>6, <1>8
<1>10. PICK k \in 0..(n - 1) : hop[i + 1] = hop[k]
  <2>1. CASE i + 1 = n
    BY <2>1
  <2>2. CASE i + 1 # n
    <3>1. i + 1 \in 0..(n - 1)
      BY <1>1, <1>7, <2>2
    <3> QED  BY <3>1
  <2> QED  BY <2>1, <2>2
<1> QED  BY <1>2, <1>9, <1>10
-----------------------------------------------------------------------------
(* Where a chain leads, at each way a walk goes on.                         *)

\* The walk comes back to a profile it passed: the chain never ends.
LEMMA TurnsForever ==
  ASSUME NEW f \in ConfigFile, NEW p, NEW n \in 0..MaxHops, Passed(f, p, n),
         NEW j \in 0..(n - 1), Chain(f, p)[n] = Chain(f, p)[j]
  PROVE  ~Resolves(f, p)
<1>1. \A m \in 0..(MaxHops + 1) : \E i \in 0..(n - 1) : Chain(f, p)[m] = Chain(f, p)[i]
  BY ChainTurns
<1>2. \A m \in 0..(MaxHops + 1) : /\ Chain(f, p)[m] \in f.names
                                  /\ Own(f, Chain(f, p)[m]) = None
  BY <1>1 DEF Passed
<1>3. \A m \in 0..(MaxHops + 1) : Chain(f, p)[m] # NoProfile
  BY <1>2, NamesPositive
<1>4. 1..(MaxHops + 1) \subseteq 0..(MaxHops + 1) /\ 0..MaxHops \subseteq 0..(MaxHops + 1)
  BY MaxHopsIsNatural
<1> QED  BY <1>2, <1>3, <1>4 DEF Resolves, Ends, Found

\* The walk is as long as the limit lets it be, and the chain goes on.
LEMMA GoesOnTooLong ==
  ASSUME NEW f \in ConfigFile, NEW p, Passed(f, p, MaxHops + 1)
  PROVE  ~Resolves(f, p)
<1>1. \A m \in 0..MaxHops : /\ Chain(f, p)[m] \in f.names
                            /\ Own(f, Chain(f, p)[m]) = None
                            /\ f.sections[Chain(f, p)[m]].source # NoProfile
  <2>1. 0..((MaxHops + 1) - 1) = 0..MaxHops
    BY MaxHopsIsNatural
  <2> QED  BY <2>1 DEF Passed
<1>2. ASSUME NEW m \in 1..(MaxHops + 1)  PROVE Chain(f, p)[m] # NoProfile
  <2>1. PICK k \in 0..MaxHops : m = k + 1
    <3>1. m - 1 \in 0..MaxHops /\ m = (m - 1) + 1
      BY MaxHopsIsNatural
    <3> QED  BY <3>1
  <2>2. Chain(f, p)[k + 1] = NextOf(f, Chain(f, p)[k])
    BY ChainValues
  <2> QED  BY <1>1, <2>1, <2>2 DEF NextOf
<1> QED  BY <1>1, <1>2 DEF Resolves, Ends, Found

\* The chain leaves the file without an account.
LEMMA LeavesFile ==
  ASSUME NEW f, NEW p, NEW n \in 0..MaxHops, Passed(f, p, n),
         Chain(f, p)[n] \notin f.names, NEW e, e.account = None
  PROVE  Settled(f, p, e)
<1>1. Resolves(f, p)
  BY DEF Resolves, Ends
<1>2. ASSUME NEW k \in 0..MaxHops, Found(f, p, k)  PROVE FALSE
  <2>1. n <= k
    BY <1>2, PassedNotFound
  <2>2. n \in 0..k
    BY <2>1
  <2> QED  BY <1>2, <2>2 DEF Found
<1> QED  BY <1>1, <1>2 DEF Settled

\* A profile of the chain names the account.
LEMMA NamesAccount ==
  ASSUME NEW f, NEW p, NEW n \in 0..MaxHops, Passed(f, p, n),
         Chain(f, p)[n] \in f.names, Own(f, Chain(f, p)[n]) # None,
         NEW e, e.account = Own(f, Chain(f, p)[n]), Nearest(f, p, n, e.region)
  PROVE  Settled(f, p, e)
<1>1. Found(f, p, n)
  <2>1. \A m \in 0..n : m \in 0..(n - 1) \/ m = n
    OBVIOUS
  <2> QED  BY <2>1 DEF Found, Passed
<1>2. \A k \in 0..MaxHops : Found(f, p, k) => k = n
  <2>1. ASSUME NEW k \in 0..MaxHops, Found(f, p, k) PROVE k = n
    BY <1>1, <2>1, FoundOnce
  <2> QED  BY <2>1
<1> QED  BY <1>1, <1>2 DEF Settled, Resolves

\* The chain stops without an account.
LEMMA StopsWithout ==
  ASSUME NEW f \in ConfigFile, NEW p, NEW n \in 0..MaxHops, Passed(f, p, n),
         Chain(f, p)[n] \in f.names, Own(f, Chain(f, p)[n]) = None,
         f.sections[Chain(f, p)[n]].source = NoProfile, NEW e, e.account = None
  PROVE  Settled(f, p, e)
<1>1. Chain(f, p)[n + 1] = NoProfile
  <2>1. Chain(f, p)[n + 1] = NextOf(f, Chain(f, p)[n])
    BY ChainValues
  <2> QED  BY <2>1 DEF NextOf
<1>2. n + 1 \in 1..(MaxHops + 1)
  BY MaxHopsIsNatural
<1>3. Resolves(f, p)
  BY <1>1, <1>2 DEF Resolves, Ends
<1>4. ASSUME NEW k \in 0..MaxHops, Found(f, p, k)  PROVE FALSE
  <2>1. n <= k
    BY <1>4, PassedNotFound
  <2>2. k # n
    BY <1>4 DEF Found
  <2>3. n + 1 \in 0..k
    BY <2>1, <2>2
  <2>4. Chain(f, p)[n + 1] \in f.names
    BY <1>4, <2>3 DEF Found
  <2> QED  BY <1>1, <2>4, NamesPositive
<1> QED  BY <1>3, <1>4 DEF Settled

\* The chain goes on to the source profile.
LEMMA PassedStep ==
  ASSUME NEW f, NEW p, NEW n \in Nat, Passed(f, p, n),
         Chain(f, p)[n] \in f.names, Own(f, Chain(f, p)[n]) = None,
         f.sections[Chain(f, p)[n]].source # NoProfile
  PROVE  Passed(f, p, n + 1)
<1>1. \A m \in 0..((n + 1) - 1) : m \in 0..(n - 1) \/ m = n
  OBVIOUS
<1> QED  BY <1>1 DEF Passed

-----------------------------------------------------------------------------
(* Types.                                                                   *)

WalkShape ==
  [name : Profiles \cup {NoProfile}, cur : Profiles \cup {NoProfile},
   visited : SUBSET (Profiles \cup {NoProfile}), hops : 0..MaxHops,
   region : Regions \cup {None}, role : Accounts \cup {None, Bad},
   account : Accounts \cup {None}]

\* What a round of a walk takes from a section.
LEMMA AbsorbValues ==
  ASSUME NEW w \in WalkShape, NEW s \in Section, NEW h, h = Absorb(w, s)
  PROVE  /\ h \in WalkShape
         /\ h.name = w.name /\ h.cur = w.cur /\ h.visited = w.visited /\ h.hops = w.hops
         /\ h.region = IF w.region = None /\ Present(s.region) THEN s.region ELSE w.region
         /\ h.account = IF Present(s.sso) THEN s.sso
                        ELSE IF Present(s.role) THEN s.role ELSE None
<1> DEFINE r == IF w.region = None /\ Present(s.region) THEN s.region ELSE w.region
           q == IF w.role = None THEN s.role ELSE w.role
           a == IF Present(s.sso) THEN s.sso ELSE IF Present(s.role) THEN s.role ELSE None
<1>1. r \in Regions \cup {None} /\ q \in Accounts \cup {None, Bad} /\ a \in Accounts \cup {None}
  BY DEF WalkShape, Section, Present
<1>2. h = [name |-> w.name, cur |-> w.cur, visited |-> w.visited, hops |-> w.hops,
           region |-> r, role |-> q, account |-> a]
  BY DEF WalkShape, Absorb
<1> HIDE DEF r, q, a
<1>3. /\ h \in WalkShape
      /\ h.name = w.name /\ h.cur = w.cur /\ h.visited = w.visited /\ h.hops = w.hops
      /\ h.region = r /\ h.account = a
  BY <1>1, <1>2 DEF WalkShape
<1> QED  BY <1>3 DEF r, a
\* The round's walk before it takes anything: the current profile was visited.
Seen(w) == [w EXCEPT !.visited = @ \cup {w.cur}]

LEMMA SeenValues ==
  ASSUME NEW w \in WalkShape
  PROVE  /\ Seen(w) \in WalkShape
         /\ Seen(w).visited = w.visited \cup {w.cur}
         /\ Seen(w).name = w.name /\ Seen(w).cur = w.cur /\ Seen(w).hops = w.hops
         /\ Seen(w).region = w.region /\ Seen(w).account = w.account
  BY DEF Seen, WalkShape

\* The walk goes on to the profile q.
Onward(w, q) == [w EXCEPT !.cur = q, !.hops = @ + 1]

LEMMA OnwardValues ==
  ASSUME NEW w \in WalkShape, NEW q \in Profiles \cup {NoProfile}, w.hops < MaxHops
  PROVE  /\ Onward(w, q) \in WalkShape
         /\ Onward(w, q).cur = q /\ Onward(w, q).hops = w.hops + 1
         /\ Onward(w, q).name = w.name /\ Onward(w, q).visited = w.visited
         /\ Onward(w, q).region = w.region /\ Onward(w, q).account = w.account
<1>1. w.hops + 1 \in 0..MaxHops
  BY MaxHopsIsNatural DEF WalkShape
<1> QED  BY <1>1 DEF Onward, WalkShape

LEMMA IdleTyped == Idle \in WalkShape
  BY MaxHopsIsNatural DEF Idle, WalkShape

\* The walk that starts at the profile p.
Starting(p) == [Idle EXCEPT !.name = p, !.cur = p]

LEMMA StartValues ==
  ASSUME NEW p \in Profiles
  PROVE  /\ Starting(p) \in WalkShape
         /\ Starting(p).name = p /\ Starting(p).cur = p /\ Starting(p).hops = 0
         /\ Starting(p).visited = {} /\ Starting(p).region = None /\ Starting(p).account = None
<1>1. Starting(p) = [name |-> p, cur |-> p, visited |-> {}, hops |-> 0,
                     region |-> None, role |-> None, account |-> None]
  <2>1. [Idle EXCEPT !.name = p] = [name |-> p, cur |-> NoProfile, visited |-> {}, hops |-> 0,
                                   region |-> None, role |-> None, account |-> None]
    BY DEF Idle
  <2>2. Starting(p) = [[Idle EXCEPT !.name = p] EXCEPT !.cur = p]
    BY DEF Starting, Idle
  <2> QED  BY <2>1, <2>2
<1>2. 0 \in 0..MaxHops
  BY MaxHopsIsNatural
<1> QED  BY <1>1, <1>2 DEF WalkShape

\* The rounds of a walk, each with what it needs of the one before.
RoundTurned == walk.cur \in walk.visited /\ ChainTooLong
RoundLeft == walk.cur \notin walk.visited /\ walk.cur \notin file.names /\ EndProfile(Seen(walk))

Taken == Absorb(Seen(walk), file.sections[walk.cur])
RoundInFile == walk.cur \notin walk.visited /\ walk.cur \in file.names
Source == file.sections[walk.cur].source

RoundEnds == RoundInFile /\ (Taken.account # None \/ Source = NoProfile) /\ EndProfile(Taken)
RoundGoesOn == RoundInFile /\ Taken.account = None /\ Source # NoProfile
RoundLimit == RoundGoesOn /\ walk.hops >= MaxHops /\ ChainTooLong
RoundMoves ==
  /\ RoundGoesOn /\ ~(walk.hops >= MaxHops)
  /\ walk' = Onward(Taken, Source)
  /\ UNCHANGED <<entries, load>>

LEMMA Rounds ==
  ASSUME FollowChain
  PROVE  /\ load = "walking" /\ walk # Idle /\ UNCHANGED <<file, todo>>
         /\ RoundTurned \/ RoundLeft \/ RoundEnds \/ RoundLimit \/ RoundMoves
<1>1. load = "walking" /\ walk # Idle /\ UNCHANGED <<file, todo>>
  BY DEF FollowChain
<1>2. CASE walk.cur \in walk.visited
  BY <1>2 DEF FollowChain, RoundTurned
<1>3. CASE walk.cur \notin walk.visited /\ walk.cur \notin file.names
  BY <1>3 DEF FollowChain, RoundLeft, Seen
<1>4. CASE RoundInFile
  <2>1. CASE Taken.account # None \/ Source = NoProfile
    BY <1>4, <2>1 DEF FollowChain, RoundInFile, RoundEnds, Taken, Source, Seen
  <2>2. CASE RoundGoesOn
    <3>1. CASE walk.hops >= MaxHops
      BY <1>4, <2>2, <3>1
         DEF FollowChain, RoundInFile, RoundGoesOn, RoundLimit, Taken, Source, Seen
    <3>2. CASE ~(walk.hops >= MaxHops)
      BY <1>4, <2>2, <3>2
         DEF FollowChain, RoundInFile, RoundGoesOn, RoundMoves, Taken, Source, Seen, Onward
    <3> QED  BY <3>1, <3>2
  <2> QED  BY <1>4, <2>1, <2>2 DEF RoundGoesOn
<1> QED  BY <1>1, <1>2, <1>3, <1>4 DEF RoundInFile
\* An entry for the walk that ends, where it found an account.
EntryOf(w) == [account |-> w.account, region |-> w.region, role |-> w.role]

\* What ends a profile leaves: the entry of the walk's profile and no other.
LEMMA EndValues ==
  ASSUME NEW w \in WalkShape, w.name \in Profiles, entries \in [Profiles -> Entry],
         EndProfile(w), w.account = None => entries[w.name].account = None
  PROVE  /\ entries' \in [Profiles -> Entry] /\ walk' = Idle /\ load' = load
         /\ \A q \in Profiles : q # w.name => entries'[q] = entries[q]
         /\ entries'[w.name].account = w.account
         /\ w.account # None => entries'[w.name].region = w.region
<1>1. walk' = Idle /\ load' = load
  BY DEF EndProfile
<1>2. EntryOf(w) \in Entry /\ EntryOf(w).account = w.account /\ EntryOf(w).region = w.region
  BY DEF EntryOf, WalkShape, Entry
<1>3. CASE w.account = None
  BY <1>1, <1>3 DEF EndProfile
<1>4. CASE w.account # None
  <2>1. entries' = [entries EXCEPT ![w.name] = EntryOf(w)]
    BY <1>4 DEF EndProfile, EntryOf
  <2> QED  BY <1>1, <1>2, <2>1
<1> QED  BY <1>3, <1>4

\* The section of a profile of the file.
LEMMA SectionTyped ==
  ASSUME file \in ConfigFile, NEW q, q \in file.names
  PROVE  /\ q \in Profiles /\ file.sections[q] \in Section
         /\ file.sections[q].source \in Profiles \cup {NoProfile}
<1>1. file.names \subseteq Profiles /\ file.sections \in [Profiles -> Section]
  BY DEF ConfigFile
<1>2. q \in Profiles /\ file.sections[q] \in Section
  BY <1>1
<1> QED  BY <1>2 DEF Section

LEMMA TakenValues ==
  ASSUME file \in ConfigFile, walk \in WalkShape, RoundInFile
  PROVE  /\ Taken \in WalkShape
         /\ Taken.name = walk.name /\ Taken.hops = walk.hops
         /\ Taken.visited = walk.visited \cup {walk.cur}
         /\ Taken.region = LET here == file.sections[walk.cur].region IN
                           IF walk.region = None /\ Present(here) THEN here ELSE walk.region
         /\ Taken.account = Own(file, walk.cur)
         /\ Source \in Profiles \cup {NoProfile}
<1>1. file.sections[walk.cur] \in Section /\ Source \in Profiles \cup {NoProfile}
  BY SectionTyped DEF RoundInFile, Source
<1>2. PICK s \in Section : s = file.sections[walk.cur]
  BY <1>1
<1>3. PICK w \in WalkShape : w = Seen(walk)
  BY SeenValues
<1>4. Taken = Absorb(w, s)
  BY <1>2, <1>3 DEF Taken
<1>5. /\ Taken \in WalkShape
      /\ Taken.name = w.name /\ Taken.visited = w.visited /\ Taken.hops = w.hops
      /\ Taken.region = IF w.region = None /\ Present(s.region) THEN s.region ELSE w.region
      /\ Taken.account = IF Present(s.sso) THEN s.sso
                         ELSE IF Present(s.role) THEN s.role ELSE None
  BY <1>4, AbsorbValues
<1>6. /\ w.name = walk.name /\ w.hops = walk.hops /\ w.region = walk.region
      /\ w.visited = walk.visited \cup {walk.cur}
  BY <1>3, SeenValues
<1> QED  BY <1>1, <1>2, <1>5, <1>6 DEF Own

-----------------------------------------------------------------------------
(* Type correctness.                                                        *)

\* The type of the walk is the set WalkShape.
LEMMA TypeParts ==
  ProfileMapTypeOK <=> /\ file \in ConfigFile
                       /\ entries \in [Profiles -> Entry]
                       /\ todo \subseteq Profiles
                       /\ walk \in WalkShape
                       /\ load \in {"reading", "walking", "loaded", "failed"}
  BY DEF ProfileMapTypeOK, WalkShape

LEMMA TypeInit == ProfileMapInit => ProfileMapTypeOK
<1> SUFFICES ASSUME ProfileMapInit PROVE ProfileMapTypeOK
  OBVIOUS
<1>1. file \in ConfigFile /\ walk \in WalkShape
  BY FilesAreConfigFiles, IdleTyped DEF ProfileMapInit
<1>2. entries \in [Profiles -> Entry]
  BY DEF ProfileMapInit, NoEntry, Entry
<1> QED  BY <1>1, <1>2, TypeParts DEF ProfileMapInit

\* The types are kept by every step, from a state of the right types.
LEMMA RoundTyped ==
  ASSUME ProfileMapTypeOK, FollowChain
  PROVE  ProfileMapTypeOK'
<1>1. /\ file \in ConfigFile /\ entries \in [Profiles -> Entry] /\ todo \subseteq Profiles
      /\ walk \in WalkShape /\ load = "walking" /\ UNCHANGED <<file, todo>>
      /\ RoundTurned \/ RoundLeft \/ RoundEnds \/ RoundLimit \/ RoundMoves
  BY Rounds, TypeParts
<1>2. ASSUME NEW w \in WalkShape, EndProfile(w)
      PROVE  entries' \in [Profiles -> Entry] /\ walk' \in WalkShape /\ load' = load
  <2>1. walk' \in WalkShape /\ load' = load
    BY <1>2, IdleTyped DEF EndProfile
  <2>2. EntryOf(w) \in Entry
    BY DEF EntryOf, WalkShape, Entry
  <2>3. entries' = entries \/ entries' = [entries EXCEPT ![w.name] = EntryOf(w)]
    BY <1>2 DEF EndProfile, EntryOf
  <2> QED  BY <1>1, <2>1, <2>2, <2>3
<1>3. /\ entries' \in [Profiles -> Entry] /\ walk' \in WalkShape
      /\ load' \in {"reading", "walking", "loaded", "failed"}
  <2>1. CASE RoundTurned \/ RoundLimit
    BY <1>1, <2>1 DEF RoundTurned, RoundLimit, ChainTooLong
  <2>2. CASE RoundLeft
    BY <1>1, <1>2, <2>2, SeenValues DEF RoundLeft
  <2>3. CASE RoundEnds
    BY <1>1, <1>2, <2>3, TakenValues DEF RoundEnds
  <2>4. CASE RoundMoves
    <3>1. /\ RoundInFile /\ ~(walk.hops >= MaxHops) /\ UNCHANGED <<entries, load>>
          /\ walk' = Onward(Taken, Source)
      BY <2>4 DEF RoundMoves, RoundGoesOn
    <3>2. Taken \in WalkShape /\ Source \in Profiles \cup {NoProfile} /\ Taken.hops < MaxHops
      <4>1. Taken.hops = walk.hops /\ walk.hops \in 0..MaxHops
        BY <1>1, <3>1, TakenValues DEF WalkShape
      <4> QED  BY <1>1, <3>1, <4>1, TakenValues, MaxHopsIsNatural
    <3> QED  BY <1>1, <3>1, <3>2, OnwardValues
  <2> QED  BY <1>1, <2>1, <2>2, <2>3, <2>4
<1>4. file' \in ConfigFile /\ todo' \subseteq Profiles
  BY <1>1
<1> QED  BY <1>3, <1>4 DEF ProfileMapTypeOK, WalkShape

LEMMA TypeStep ==
  ASSUME ProfileMapTypeOK, [ProfileMapNext]_profileVars
  PROVE  ProfileMapTypeOK'
<1>1. CASE LoadYaml
  <2>1. /\ UNCHANGED <<file, todo, walk>> /\ load' \in {"loaded", "failed"}
        /\ \/ UNCHANGED entries
           \/ /\ \A p \in file.names : YamlEntryValid(file.sections[p])
              /\ entries' = [p \in Profiles |->
                               IF p \in file.names THEN YamlEntry(file.sections[p]) ELSE NoEntry]
    BY <1>1 DEF LoadYaml
  <2>2. NoEntry \in Entry
    BY DEF NoEntry, Entry
  <2>3. ASSUME NEW p \in file.names, YamlEntryValid(file.sections[p])
        PROVE  YamlEntry(file.sections[p]) \in Entry
    <3>1. file.sections[p] \in Section
      BY SectionTyped DEF ProfileMapTypeOK
    <3> QED  BY <2>3, <3>1 DEF YamlEntryValid, YamlEntry, Present, Section, Entry
  <2>4. entries' \in [Profiles -> Entry]
    BY <2>1, <2>2, <2>3 DEF ProfileMapTypeOK
  <2> QED  BY <2>1, <2>4 DEF ProfileMapTypeOK
<1>2. CASE RefuseFile \/ NoFile \/ EndLoad \/ UNCHANGED profileVars
  BY <1>2 DEF RefuseFile, NoFile, EndLoad, profileVars, ProfileMapTypeOK
<1>3. CASE LoadAwsConfig
  <2>1. file.names \subseteq Profiles
    BY DEF ProfileMapTypeOK, ConfigFile
  <2> QED  BY <1>3, <2>1 DEF LoadAwsConfig, ProfileMapTypeOK
<1>4. CASE StartProfile
  <2>1. PICK p \in todo : todo' = todo \ {p} /\ walk' = [Idle EXCEPT !.name = p, !.cur = p]
    BY <1>4 DEF StartProfile
  <2>2. p \in Profiles
    BY <2>1 DEF ProfileMapTypeOK
  <2>3. walk' \in WalkShape
    BY <2>1, <2>2, StartValues DEF Starting
  <2>4. todo' \subseteq Profiles /\ UNCHANGED <<file, entries, load>>
    BY <1>4, <2>1 DEF StartProfile, ProfileMapTypeOK
  <2> QED  BY <2>3, <2>4 DEF ProfileMapTypeOK, WalkShape
<1>5. CASE FollowChain
  BY <1>5, RoundTyped
<1> QED  BY <1>1, <1>2, <1>3, <1>4, <1>5 DEF ProfileMapNext
-----------------------------------------------------------------------------
(* The invariant is kept.                                                   *)

LEMMA InvInit == ProfileMapInit => ProfileInv
<1> SUFFICES ASSUME ProfileMapInit PROVE ProfileInv
  OBVIOUS
<1>1. ProfileMapTypeOK
  BY TypeInit
<1>2. load = "reading" /\ walk = Idle /\ todo = {} /\ \A p \in Profiles : entries[p].account = None
  BY DEF ProfileMapInit, NoEntry
<1> QED  BY <1>1, <1>2 DEF ProfileInv, ChainsInv, TodoInv, OpenInv, SettledInv, WalkInv

\* The first pass over the configuration.
LEMMA LoadInv ==
  ASSUME ProfileMapTypeOK, ChainsInv, LoadAwsConfig
  PROVE  ChainsInv'
<1>1. load = "reading" /\ load' = "walking" /\ todo' = file.names /\ UNCHANGED <<file, entries, walk>>
  BY DEF LoadAwsConfig
<1>2. walk = Idle /\ \A p \in Profiles : entries[p].account = None
  BY <1>1 DEF ChainsInv, TodoInv, OpenInv
<1>3. TodoInv' /\ OpenInv' /\ WalkInv'
  BY <1>1, <1>2 DEF TodoInv, OpenInv, WalkInv
<1>4. SettledInv'
  BY <1>1 DEF SettledInv
<1> QED  BY <1>3, <1>4 DEF ChainsInv

\* Another profile is taken up.
LEMMA StartInv ==
  ASSUME ProfileMapTypeOK, ChainsInv, StartProfile
  PROVE  ChainsInv'
<1>1. /\ load = "walking" /\ walk = Idle /\ UNCHANGED <<file, entries, load>>
      /\ todo \subseteq file.names /\ file \in ConfigFile /\ file.names \subseteq Profiles
  BY DEF StartProfile, ChainsInv, TodoInv, ProfileMapTypeOK, ConfigFile
<1>2. PICK p \in todo : todo' = todo \ {p} /\ walk' = Starting(p)
  BY DEF StartProfile, Starting
<1>3. p \in Profiles /\ p \in file.names /\ walk'.name = p
  BY <1>1, <1>2, StartValues
<1>4. TodoInv'
  BY <1>1, <1>2 DEF ChainsInv, TodoInv
<1>5. OpenInv'
  BY <1>1, <1>2, <1>3 DEF ChainsInv, OpenInv
<1>6. SettledInv'
  <2>1. Idle.name = NoProfile
    BY DEF Idle
  <2>2. ASSUME NEW q \in file.names \ todo', q # p
        PROVE  Settled(file, q, entries[q])
    <3>1. q \in file.names \ todo /\ q # walk.name
      BY <1>1, <1>2, <2>1, <2>2, NamesPositive
    <3> QED  BY <1>1, <3>1 DEF ChainsInv, SettledInv
  <2> QED  BY <1>1, <1>3, <2>2 DEF SettledInv
<1>7. WalkInv'
  <2>1. Chain(file, p)[0] = p
    BY ChainValues
  <2>2. 0..(0 - 1) = {} /\ 0 - 1 = -1
    OBVIOUS
  <2>3. Underway(file, Starting(p))
    BY <1>3, <2>1, <2>2, StartValues, NearestNone DEF Underway, Passed
  <2> QED  BY <1>1, <1>2, <1>3, <2>3 DEF WalkInv
<1> QED  BY <1>4, <1>5, <1>6, <1>7 DEF ChainsInv

\* A walk ends, and the profile it was for is settled.
LEMMA EndInv ==
  ASSUME ProfileMapTypeOK, ChainsInv, load = "walking", walk # Idle, UNCHANGED <<file, todo>>,
         NEW w \in WalkShape, w.name = walk.name, EndProfile(w),
         \A e : (e.account = w.account /\ (w.account # None => e.region = w.region))
                  => Settled(file, w.name, e)
  PROVE  ChainsInv'
<1>1. /\ walk.name \in file.names \ todo /\ walk.name \in Profiles
      /\ entries[walk.name].account = None /\ entries \in [Profiles -> Entry]
      /\ file \in ConfigFile /\ file.names \subseteq Profiles
  <2>1. walk.name \in file.names \ todo /\ file \in ConfigFile /\ entries \in [Profiles -> Entry]
    BY DEF ChainsInv, WalkInv, ProfileMapTypeOK
  <2>2. file.names \subseteq Profiles
    BY <2>1, NamesPositive
  <2> QED  BY <2>1, <2>2 DEF ChainsInv, OpenInv
<1>2. /\ walk' = Idle /\ load' = "walking"
      /\ \A q \in Profiles : q # walk.name => entries'[q] = entries[q]
      /\ entries'[walk.name].account = w.account
      /\ w.account # None => entries'[walk.name].region = w.region
  BY <1>1, EndValues
<1>3. Idle.name = NoProfile /\ NoProfile \notin Profiles
  BY <1>1, NamesPositive DEF Idle
<1>4. TodoInv'
  BY <1>1, <1>2 DEF ChainsInv, TodoInv
<1>5. OpenInv'
  BY <1>1, <1>2, <1>3 DEF ChainsInv, OpenInv
<1>6. SettledInv'
  <2>1. Settled(file, walk.name, entries'[walk.name])
    BY <1>2
  <2>2. ASSUME NEW q \in file.names \ todo, q # walk.name
        PROVE  Settled(file, q, entries'[q])
    <3>1. Settled(file, q, entries[q])
      BY <2>2 DEF ChainsInv, SettledInv
    <3> QED  BY <1>1, <1>2, <2>2, <3>1
  <2> QED  BY <2>1, <2>2 DEF SettledInv
<1>7. WalkInv'
  BY <1>2 DEF WalkInv
<1> QED  BY <1>4, <1>5, <1>6, <1>7 DEF ChainsInv

\* A walk gives up, and the file with it.
LEMMA FailInv ==
  ASSUME ProfileMapTypeOK, ChainsInv, load = "walking", walk # Idle, UNCHANGED <<file, todo>>,
         ChainTooLong, ~Resolves(file, walk.name)
  PROVE  ChainsInv'
<1>1. load' = "failed" /\ UNCHANGED <<entries, walk>> /\ walk.name \in file.names
  BY DEF ChainTooLong, ChainsInv, WalkInv
<1> QED  BY <1>1 DEF ChainsInv, TodoInv, OpenInv, SettledInv, WalkInv
\* One round of a walk.
LEMMA RoundInv ==
  ASSUME ProfileMapTypeOK, ChainsInv, FollowChain
  PROVE  ChainsInv'
<1> DEFINE n == walk.hops
           p == walk.name
<1>1. /\ file \in ConfigFile /\ walk \in WalkShape /\ n \in 0..MaxHops /\ n \in Nat
      /\ load = "walking" /\ walk # Idle /\ UNCHANGED <<file, todo>>
      /\ RoundTurned \/ RoundLeft \/ RoundEnds \/ RoundLimit \/ RoundMoves
  <2>1. walk \in WalkShape /\ file \in ConfigFile
    BY TypeParts
  <2>2. n \in 0..MaxHops
    BY <2>1 DEF WalkShape
  <2> QED  BY <2>1, <2>2, Rounds
<1>2. /\ walk.cur = Chain(file, p)[n] /\ Passed(file, p, n)
      /\ walk.visited = {Chain(file, p)[m] : m \in 0..(n - 1)}
      /\ Nearest(file, p, n - 1, walk.region) /\ walk.account = None
      /\ p \in file.names \ todo
  BY <1>1 DEF ChainsInv, WalkInv, Underway
<1> HIDE DEF n, p
<1>3. RoundInFile => /\ Taken \in WalkShape /\ Source \in Profiles \cup {NoProfile}
                     /\ Taken.name = p /\ Taken.hops = n
                     /\ Taken.visited = walk.visited \cup {walk.cur}
                     /\ Taken.account = Own(file, walk.cur)
                     /\ Nearest(file, p, n, Taken.region)
  <2> SUFFICES ASSUME RoundInFile
               PROVE  /\ Taken \in WalkShape /\ Source \in Profiles \cup {NoProfile}
                      /\ Taken.name = p /\ Taken.hops = n
                      /\ Taken.visited = walk.visited \cup {walk.cur}
                      /\ Taken.account = Own(file, walk.cur)
                      /\ Nearest(file, p, n, Taken.region)
    OBVIOUS
  <2>1. /\ Taken \in WalkShape /\ Source \in Profiles \cup {NoProfile}
        /\ Taken.name = p /\ Taken.hops = n
        /\ Taken.visited = walk.visited \cup {walk.cur}
        /\ Taken.account = Own(file, walk.cur)
    BY <1>1, TakenValues DEF n, p
  <2>2. PICK here : here = file.sections[walk.cur].region
    OBVIOUS
  <2>3. Taken.region = IF walk.region = None /\ Present(here) THEN here ELSE walk.region
    BY <1>1, <2>2, TakenValues
  <2>4. here = file.sections[Chain(file, p)[n]].region
    BY <1>2, <2>2
  <2>5. Nearest(file, p, n, Taken.region)
    BY <1>1, <1>2, <2>3, <2>4, NearestStep
  <2> QED  BY <2>1, <2>5
<1>4. CASE RoundTurned
  <2>1. PICK j \in 0..(n - 1) : Chain(file, p)[n] = Chain(file, p)[j]
    BY <1>2, <1>4 DEF RoundTurned
  <2>2. ~Resolves(file, p)
    BY <1>1, <1>2, <2>1, TurnsForever
  <2> QED  BY <1>1, <1>4, <2>2, FailInv DEF RoundTurned, p
<1>5. CASE RoundLeft
  <2>1. PICK w \in WalkShape : w = Seen(walk) /\ w.name = p /\ w.account = None
    BY <1>1, <1>2, SeenValues DEF p
  <2>2. Chain(file, p)[n] \notin file.names
    BY <1>2, <1>5 DEF RoundLeft
  <2>3. ASSUME NEW e, e.account = w.account, w.account # None => e.region = w.region
        PROVE  Settled(file, w.name, e)
    BY <1>1, <1>2, <2>1, <2>2, <2>3, LeavesFile
  <2>4. EndProfile(w)
    BY <1>5, <2>1 DEF RoundLeft
  <2> QED  BY <1>1, <2>1, <2>3, <2>4, EndInv DEF p
<1>6. CASE RoundEnds
  <2>1. RoundInFile /\ Chain(file, p)[n] \in file.names
    BY <1>2, <1>6 DEF RoundEnds, RoundInFile
  <2>2. PICK w \in WalkShape : /\ w = Taken /\ w.name = p
                               /\ w.account = Own(file, Chain(file, p)[n])
                               /\ Nearest(file, p, n, w.region)
    BY <1>2, <1>3, <2>1
  <2>3. w.account = None => file.sections[Chain(file, p)[n]].source = NoProfile
    BY <1>2, <1>6, <2>2 DEF RoundEnds, Source
  <2>4. ASSUME NEW e, e.account = w.account, w.account # None => e.region = w.region
        PROVE  Settled(file, w.name, e)
    <3>1. CASE w.account = None
      <4>1. e.account = None /\ Own(file, Chain(file, p)[n]) = None
        BY <2>2, <2>4, <3>1
      <4>2. Settled(file, p, e)
        BY <1>1, <1>2, <2>1, <2>3, <3>1, <4>1, StopsWithout
      <4> QED  BY <2>2, <4>2
    <3>2. CASE w.account # None
      <4>1. /\ e.account = Own(file, Chain(file, p)[n]) /\ Nearest(file, p, n, e.region)
            /\ Own(file, Chain(file, p)[n]) # None
        BY <2>2, <2>4, <3>2
      <4>2. Settled(file, p, e)
        BY <1>1, <1>2, <2>1, <4>1, NamesAccount
      <4> QED  BY <2>2, <4>2
    <3> QED  BY <3>1, <3>2
  <2>5. EndProfile(w)
    BY <1>6, <2>2 DEF RoundEnds
  <2> QED  BY <1>1, <2>2, <2>4, <2>5, EndInv DEF p
<1>7. RoundGoesOn => Passed(file, p, n + 1)
  <2> SUFFICES ASSUME RoundGoesOn PROVE Passed(file, p, n + 1)
    OBVIOUS
  <2>1. /\ Chain(file, p)[n] \in file.names /\ Own(file, Chain(file, p)[n]) = None
        /\ file.sections[Chain(file, p)[n]].source # NoProfile
    BY <1>2, <1>3 DEF RoundGoesOn, RoundInFile, Source
  <2> QED  BY <1>1, <1>2, <2>1, PassedStep
<1>8. CASE RoundLimit
  <2>1. n = MaxHops
    BY <1>1, <1>8, MaxHopsIsNatural DEF RoundLimit, n
  <2>2. ~Resolves(file, p)
    BY <1>1, <1>7, <1>8, <2>1, GoesOnTooLong DEF RoundLimit
  <2> QED  BY <1>1, <1>8, <2>2, FailInv DEF RoundLimit, p
<1>9. CASE RoundMoves
  <2>1. /\ RoundGoesOn /\ RoundInFile /\ walk' = Onward(Taken, Source)
        /\ UNCHANGED <<entries, load>> /\ n < MaxHops
    BY <1>1, <1>9, MaxHopsIsNatural DEF RoundMoves, RoundGoesOn, n
  <2>2. PICK w : w = walk'
    OBVIOUS
  <2>3. /\ w.cur = Source /\ w.hops = n + 1 /\ w.name = p
        /\ w.visited = walk.visited \cup {walk.cur}
        /\ w.region = Taken.region /\ w.account = Taken.account
    BY <1>3, <2>1, <2>2, OnwardValues
  <2>4. w.cur = Chain(file, p)[n + 1]
    <3>1. Chain(file, p)[n + 1] = NextOf(file, Chain(file, p)[n])
      BY <1>1, ChainValues
    <3> QED  BY <1>2, <2>1, <2>3, <3>1 DEF NextOf, RoundInFile, Source
  <2>5. w.visited = {Chain(file, p)[m] : m \in 0..((n + 1) - 1)}
    <3>1. \A m : m \in 0..((n + 1) - 1) <=> m \in 0..(n - 1) \/ m = n
      BY <1>1
    <3> QED  BY <1>2, <2>3, <3>1
  <2>6. w.account = None
    BY <2>1, <2>3 DEF RoundGoesOn
  <2>7. Nearest(file, p, (n + 1) - 1, w.region)
    <3>1. (n + 1) - 1 = n
      BY <1>1
    <3> QED  BY <1>3, <2>1, <2>3, <3>1
  <2>8. Underway(file, w)
    BY <1>7, <2>1, <2>3, <2>4, <2>5, <2>6, <2>7 DEF Underway
  <2>9. WalkInv'
    BY <1>1, <1>2, <2>2, <2>3, <2>8 DEF WalkInv
  <2>10. walk'.name = walk.name
    BY <2>2, <2>3 DEF p
  <2>11. TodoInv' /\ OpenInv' /\ SettledInv'
    BY <1>1, <2>1, <2>10 DEF ChainsInv, TodoInv, OpenInv, SettledInv
  <2> QED  BY <2>9, <2>11 DEF ChainsInv
<1> QED  BY <1>1, <1>4, <1>5, <1>6, <1>8, <1>9

\* Every step keeps the invariant.
LEMMA InvStep ==
  ASSUME ProfileInv, [ProfileMapNext]_profileVars
  PROVE  ProfileInv'
<1>1. ProfileMapTypeOK /\ ProfileMapTypeOK'
  BY TypeStep DEF ProfileInv
<1>2. ASSUME Aws(file)'  PROVE ChainsInv'
  <2>1. file' = file
    BY DEF ProfileMapNext, LoadYaml, RefuseFile, NoFile, LoadAwsConfig, StartProfile,
           FollowChain, EndLoad, profileVars
  <2>2. Aws(file) /\ ChainsInv
    BY <1>2, <2>1 DEF ProfileInv
  <2>3. CASE LoadYaml \/ RefuseFile \/ NoFile
    BY <2>2, <2>3 DEF Aws, LoadYaml, RefuseFile, NoFile
  <2>4. CASE LoadAwsConfig
    BY <1>1, <2>2, <2>4, LoadInv
  <2>5. CASE StartProfile
    BY <1>1, <2>2, <2>5, StartInv
  <2>6. CASE FollowChain
    BY <1>1, <2>2, <2>6, RoundInv
  <2>7. CASE EndLoad
    BY <2>2, <2>7 DEF EndLoad, ChainsInv, TodoInv, OpenInv, SettledInv, WalkInv
  <2>8. CASE UNCHANGED profileVars
    BY <2>2, <2>8 DEF profileVars, ChainsInv, TodoInv, OpenInv, SettledInv, WalkInv
  <2> QED  BY <2>3, <2>4, <2>5, <2>6, <2>7, <2>8 DEF ProfileMapNext
<1> QED  BY <1>1, <1>2 DEF ProfileInv

-----------------------------------------------------------------------------
(* What the map holds.                                                      *)

\* The operators of the properties are those of the chains.
LEMMA SameWords ==
  ASSUME NEW p
  PROVE  /\ \A q : OwnAccount(q) = Own(file, q)
         /\ \A n : FoundAt(p, n) <=> Found(file, p, n)
         /\ Resolvable(p) <=> Resolves(file, p)
         /\ \A n, r : RegionFound(p, n, r) <=> Nearest(file, p, n, r)
<1>1. PICK hop : hop = Chain(file, p)
  OBVIOUS
<1>2. HopsFrom(p) = hop
  BY <1>1, ChainIsHops
<1>3. \A q : OwnAccount(q) = Own(file, q)
  BY DEF OwnAccount, Own
<1>4. \A n : FoundAt(p, n) <=> Found(file, p, n)
  BY <1>1, <1>2, <1>3 DEF FoundAt, Found
<1>5. Resolvable(p) <=> Resolves(file, p)
  BY <1>1, <1>2, <1>4 DEF Resolvable, Resolves, Stops, Ends
<1>6. \A n, r : RegionFound(p, n, r) <=> Nearest(file, p, n, r)
  BY <1>1, <1>2 DEF RegionFound, Nearest, Stating
<1> QED  BY <1>3, <1>4, <1>5, <1>6

LEMMA InvMatches == ProfileInv => MapMatchesChains
<1> SUFFICES ASSUME ProfileInv, file.format = "aws", file.state = "ok"
             PROVE  /\ load = "failed" => \E p \in file.names : ~Resolvable(p)
                    /\ load = "loaded" => \A p \in Profiles :
                         /\ p \in file.names => Resolvable(p)
                         /\ entries[p].account # None
                              <=> p \in file.names /\ \E n \in 0..MaxHops : FoundAt(p, n)
                         /\ \A n \in 0..MaxHops :
                              p \in file.names /\ FoundAt(p, n) =>
                                /\ entries[p].account = OwnAccount(HopsFrom(p)[n])
                                /\ RegionFound(p, n, entries[p].region)
  BY DEF MapMatchesChains
<1>1. ChainsInv /\ file \in ConfigFile
  BY DEF ProfileInv, Aws, ProfileMapTypeOK
<1>2. load = "failed" => \E p \in file.names : ~Resolvable(p)
  BY <1>1, SameWords DEF ChainsInv, TodoInv
<1>3. ASSUME load = "loaded", NEW p \in Profiles
      PROVE  /\ p \in file.names => Resolvable(p)
             /\ entries[p].account # None
                  <=> p \in file.names /\ \E n \in 0..MaxHops : FoundAt(p, n)
             /\ \A n \in 0..MaxHops :
                  p \in file.names /\ FoundAt(p, n) =>
                    /\ entries[p].account = OwnAccount(HopsFrom(p)[n])
                    /\ RegionFound(p, n, entries[p].region)
  <2>1. todo = {} /\ walk.name = NoProfile /\ p # NoProfile
    BY <1>1, <1>3, NamesPositive DEF ChainsInv, TodoInv, Idle
  <2>2. p \in file.names => Settled(file, p, entries[p])
    BY <1>1, <1>3, <2>1 DEF ChainsInv, SettledInv
  <2>3. p \notin file.names => entries[p].account = None
    BY <1>1 DEF ChainsInv, OpenInv
  <2> QED  BY <2>2, <2>3, SameWords, ChainIsHops DEF Settled
<1> QED  BY <1>2, <1>3

(* For every configuration and every limit on the hops, in whatever order   *)
(* the profiles are taken: load_aws_config gives each profile the account   *)
(* of the nearest profile of its chain that names one, with the nearest     *)
(* region, no account where none does, and fails exactly where a chain      *)
(* turns back on itself or exceeds the limit.                               *)
THEOREM MapIsRight == ProfileMapSpec => []MapMatchesChains
<1>1. ProfileMapInit => ProfileInv
  BY InvInit
<1>2. ProfileInv /\ [ProfileMapNext]_profileVars => ProfileInv'
  BY InvStep
<1>3. ProfileInv => MapMatchesChains
  BY InvMatches
<1> QED  BY <1>1, <1>2, <1>3, PTL DEF ProfileMapSpec


-----------------------------------------------------------------------------
(* Providers that are picked.                                               *)

\* The first of a sequence that passes a test is one of the sequence that does.
LEMMA FirstHit ==
  ASSUME NEW n \in Nat, NEW hits, hits \subseteq 1..n, hits # {}
  PROVE  (CHOOSE k \in hits : \A j \in hits : k <= j) \in hits
<1>1. \E k \in hits : \A j \in hits : k <= j
  <2>1. hits \subseteq Nat
    OBVIOUS
  <2> QED  BY <2>1, LeastNumber
<1> QED  BY <1>1

LEMMA PickedNamed ==
  ASSUME NEW providers, IsSequence(providers), NEW ref, IsSome(ref),
         PickProvider(providers, ref) # NoBlock
  PROVE  \E p \in Elements(providers) :
           /\ PickProvider(providers, ref) = <<p>>
           /\ p.local = ref[1].local /\ p.alias = ref[1].alias
<1> DEFINE hits == {k \in 1..Len(providers) : providers[k].local = ref[1].local /\ providers[k].alias = ref[1].alias}
           first == CHOOSE k \in hits : \A j \in hits : k <= j
<1>1. PickProvider(providers, ref) = IF hits = {} THEN NoBlock ELSE <<providers[first]>>
  BY DEF PickProvider, FirstOf
<1>2. hits # {} /\ Len(providers) \in Nat
  BY <1>1 DEF IsSequence
<1>3. hits \subseteq 1..Len(providers)
  OBVIOUS
<1>4. first \in hits
  <2> HIDE DEF hits
  <2> QED  BY <1>2, <1>3, FirstHit
<1>5. providers[first] \in Elements(providers)
  BY <1>4 DEF Elements
<1> QED  BY <1>1, <1>2, <1>4, <1>5

LEMMA PickedAny ==
  ASSUME NEW providers, IsSequence(providers), NEW ref,
         PickProvider(providers, ref) # NoBlock
  PROVE  \E p \in Elements(providers) : PickProvider(providers, ref) = <<p>>
<1> DEFINE aws == {k \in 1..Len(providers) : providers[k].local = "aws" /\ providers[k].alias = None}
           any == {k \in 1..Len(providers) : providers[k].alias = None}
           first(hits) == CHOOSE k \in hits : \A j \in hits : k <= j
<1>1. CASE IsSome(ref)
  BY <1>1, PickedNamed
<1>2. CASE ~IsSome(ref)
  <2>1. PickProvider(providers, ref) =
          IF aws # {} THEN <<providers[first(aws)]>>
          ELSE IF any = {} THEN NoBlock ELSE <<providers[first(any)]>>
    <3>1. FirstOf(providers, LAMBDA p : p.local = "aws" /\ p.alias = None) =
            IF aws = {} THEN NoBlock ELSE <<providers[first(aws)]>>
      BY DEF FirstOf
    <3>2. FirstOf(providers, LAMBDA p : p.alias = None) =
            IF any = {} THEN NoBlock ELSE <<providers[first(any)]>>
      BY DEF FirstOf
    <3>3. <<providers[first(aws)]>> # NoBlock
      BY DEF NoBlock
    <3> HIDE DEF aws, any, first
    <3> QED  BY <1>2, <3>1, <3>2, <3>3 DEF PickProvider
  <2>2. /\ aws # {} => first(aws) \in 1..Len(providers)
        /\ any # {} => first(any) \in 1..Len(providers)
    <3>1. Len(providers) \in Nat /\ aws \subseteq 1..Len(providers) /\ any \subseteq 1..Len(providers)
      BY DEF IsSequence
    <3> HIDE DEF aws, any
    <3> QED  BY <3>1, FirstHit
  <2> HIDE DEF aws, any, first
  <2> QED  BY <2>1, <2>2 DEF Elements
<1> QED  BY <1>1, <1>2

-----------------------------------------------------------------------------
(* What resolving leaves of a component.                                    *)

BackendShaped(b) == NamesProfile(b) /\ {"region", "account", "stateRegion"} \subseteq DOMAIN b

ComponentShaped(c) ==
  /\ {"resources", "providers", "terragrunt", "backend"} \subseteq DOMAIN c
  /\ IsSequence(c.resources) /\ IsSequence(c.providers)
  /\ IsSequence(c.terragrunt) /\ IsSequence(c.backend)
  /\ \A r \in Elements(c.resources) : {"ref", "account", "name", "region"} \subseteq DOMAIN r
  /\ \A p \in Elements(c.providers) : NamesProfile(p)
  /\ \A t \in Elements(c.terragrunt) : {"account", "backend"} \subseteq DOMAIN t /\ IsSequence(t.backend)
  /\ \A b \in BackendsOf(c) : BackendShaped(b)

LEMMA HandedOnParts ==
  ASSUME NEW c
  PROVE  ComponentHandedOn(c) <=> ComponentShaped(c) /\ \A b \in BackendsOf(c) : b.account = None
  BY DEF ComponentHandedOn, ComponentShaped, BackendHandedOn, BackendShaped

\* Sequences made element by element.
LEMMA Mapped ==
  ASSUME NEW n \in Nat, NEW f, f = [k \in 1..n |-> f[k]]
  PROVE  IsSequence(f) /\ Len(f) = n /\ Elements(f) = {f[k] : k \in 1..n}
<1>1. f \in Seq({f[k] : k \in 1..n}) /\ Len(f) = n
  <2> DEFINE S == {f[k] : k \in 1..n}
  <2>1. f \in [1..n -> S]
    OBVIOUS
  <2> HIDE DEF S
  <2> QED  BY <2>1
<1> QED  BY <1>1 DEF IsSequence, Elements

\* What a backend has filled in.
LEMMA Filled ==
  ASSUME NEW b, BackendShaped(b)
  PROVE  BackendShaped(FillBackend(b)) /\ FillBackend(b).profile = b.profile
  BY DEF BackendShaped, NamesProfile, FillBackend

LEMMA OptionSequence ==
  ASSUME NEW o, IsSequence(o)
  PROVE  IsSequence(FillOption(o)) /\ Len(FillOption(o)) = Len(o)
<1>1. Len(o) \in Nat /\ FillOption(o) = [k \in 1..Len(o) |-> FillBackend(o[k])]
  BY DEF FillOption, IsSequence
<1>2. PICK f : f = FillOption(o)
  OBVIOUS
<1>3. f = [k \in 1..Len(o) |-> f[k]]
  BY <1>1, <1>2
<1> QED  BY <1>1, <1>2, <1>3, Mapped

LEMMA OptionFilled ==
  ASSUME NEW o, IsSequence(o), \A b \in Elements(o) : BackendShaped(b)
  PROVE  /\ IsSequence(FillOption(o))
         /\ \A b \in Elements(FillOption(o)) : BackendShaped(b)
         /\ {b.profile : b \in Elements(FillOption(o))} = {b.profile : b \in Elements(o)}
<1>1. Len(o) \in Nat /\ FillOption(o) = [k \in 1..Len(o) |-> FillBackend(o[k])]
  BY DEF FillOption, IsSequence
<1>2. PICK f : f = FillOption(o)
  OBVIOUS
<1>3. \A k \in 1..Len(o) : f[k] = FillBackend(o[k])
  BY <1>1, <1>2
<1>4. IsSequence(f) /\ Len(f) = Len(o) /\ Elements(f) = {f[k] : k \in 1..Len(o)}
  <2>1. f = [k \in 1..Len(o) |-> f[k]]
    BY <1>1, <1>2
  <2> QED  BY <1>1, <2>1, Mapped
<1>5. \A k \in 1..Len(o) : BackendShaped(f[k]) /\ f[k].profile = o[k].profile
  BY <1>3, Filled DEF Elements
<1> QED  BY <1>2, <1>4, <1>5 DEF Elements

LEMMA ResolvedFields ==
  ASSUME NEW c, ComponentShaped(c), NEW d, d = ResolvedComponent(c)
  PROVE  /\ DOMAIN d = DOMAIN c /\ d.providers = c.providers
         /\ d.resources = [k \in 1..Len(c.resources) |-> ResolveResource(c.resources[k], c)]
         /\ d.backend = FillOption(c.backend)
         /\ d.terragrunt = [k \in 1..Len(c.terragrunt) |-> FillTerragrunt(c.terragrunt[k])]
<1>1. {"resources", "providers", "terragrunt", "backend"} \subseteq DOMAIN c
  BY DEF ComponentShaped
<1>2. DOMAIN d = DOMAIN c /\ d.providers = c.providers
  BY <1>1 DEF ResolvedComponent
<1>3. d.resources = [k \in 1..Len(c.resources) |-> ResolveResource(c.resources[k], c)]
  BY <1>1 DEF ResolvedComponent
<1>4. d.backend = FillOption(c.backend)
  BY <1>1 DEF ResolvedComponent
<1>5. d.terragrunt = [k \in 1..Len(c.terragrunt) |-> FillTerragrunt(c.terragrunt[k])]
  BY <1>1 DEF ResolvedComponent
<1> QED  BY <1>2, <1>3, <1>4, <1>5

LEMMA ResolvedResource ==
  ASSUME NEW r, {"ref", "account", "name", "region"} \subseteq DOMAIN r, NEW c,
         NEW s, s = ResolveResource(r, c)
  PROVE  /\ {"ref", "account", "name", "region"} \subseteq DOMAIN s /\ s.ref = r.ref
         /\ s.account = AccountOf(PickProvider(c.providers, r.ref), c).account
<1> DEFINE reg == RegionOf(PickProvider(c.providers, r.ref), c)
           acc == AccountOf(PickProvider(c.providers, r.ref), c)
<1>1. s = [[[r EXCEPT !.region = reg] EXCEPT !.account = acc.account] EXCEPT !.name = acc.name]
  BY DEF ResolveResource
<1> HIDE DEF reg
<1> QED  BY <1>1

\* The profiles a component relies on.
RelyingOn(c) ==
  {p.profile : p \in {p \in Elements(c.providers) :
                         /\ ~Present(p.role)
                         /\ \E r \in Elements(c.resources) : PickProvider(c.providers, r.ref) = <<p>>}}
    \cup {b.profile : b \in BackendsOf(c)}

\* A component and what resolving makes of it: the same blocks, the same
\* references, and the account that the picked provider gives.
LEMMA ResolvedKeeps ==
  ASSUME NEW c, ComponentShaped(c), NEW d, d = ResolvedComponent(c)
  PROVE  /\ ComponentShaped(d) /\ d.providers = c.providers
         /\ CascadeAccount(d) = CascadeAccount(c)
         /\ RelyingOn(d) = RelyingOn(c)
         /\ \A s \in Elements(d.resources) :
              s.account = AccountOf(PickProvider(c.providers, s.ref), c).account
<1>1. /\ DOMAIN d = DOMAIN c /\ d.providers = c.providers
      /\ d.resources = [k \in 1..Len(c.resources) |-> ResolveResource(c.resources[k], c)]
      /\ d.backend = FillOption(c.backend)
      /\ d.terragrunt = [k \in 1..Len(c.terragrunt) |-> FillTerragrunt(c.terragrunt[k])]
  BY ResolvedFields
<1>2. /\ {"resources", "providers", "terragrunt", "backend"} \subseteq DOMAIN c
      /\ IsSequence(c.resources) /\ Len(c.resources) \in Nat
      /\ IsSequence(c.terragrunt) /\ Len(c.terragrunt) \in Nat
      /\ IsSequence(c.backend) /\ IsSequence(c.providers)
      /\ \A r \in Elements(c.resources) : {"ref", "account", "name", "region"} \subseteq DOMAIN r
      /\ \A p \in Elements(c.providers) : NamesProfile(p)
      /\ \A t \in Elements(c.terragrunt) : {"account", "backend"} \subseteq DOMAIN t /\ IsSequence(t.backend)
      /\ \A b \in BackendsOf(c) : BackendShaped(b)
  BY DEF ComponentShaped, IsSequence
<1>3. /\ IsSequence(d.resources) /\ Len(d.resources) = Len(c.resources)
      /\ Elements(d.resources) = {d.resources[k] : k \in 1..Len(c.resources)}
      /\ \A k \in 1..Len(c.resources) : d.resources[k] = ResolveResource(c.resources[k], c)
  <2>1. PICK f : f = d.resources
    OBVIOUS
  <2>2. f = [k \in 1..Len(c.resources) |-> f[k]] /\ \A k \in 1..Len(c.resources) : f[k] = ResolveResource(c.resources[k], c)
    BY <1>1, <2>1
  <2> QED  BY <1>2, <2>1, <2>2, Mapped
<1>4. \A k \in 1..Len(c.resources) :
        /\ {"ref", "account", "name", "region"} \subseteq DOMAIN d.resources[k]
        /\ d.resources[k].ref = c.resources[k].ref
        /\ d.resources[k].account = AccountOf(PickProvider(c.providers, c.resources[k].ref), c).account
  <2> TAKE k \in 1..Len(c.resources)
  <2>1. c.resources[k] \in Elements(c.resources)
    BY DEF Elements
  <2>2. PICK r : r = c.resources[k]
    OBVIOUS
  <2>3. d.resources[k] = ResolveResource(r, c) /\ {"ref", "account", "name", "region"} \subseteq DOMAIN r
    BY <1>2, <1>3, <2>1, <2>2
  <2>4. PICK s : s = d.resources[k]
    OBVIOUS
  <2>5. /\ {"ref", "account", "name", "region"} \subseteq DOMAIN s /\ s.ref = r.ref
        /\ s.account = AccountOf(PickProvider(c.providers, r.ref), c).account
    BY <2>3, <2>4, ResolvedResource
  <2> QED  BY <2>2, <2>4, <2>5
<1>5. /\ IsSequence(d.terragrunt) /\ Len(d.terragrunt) = Len(c.terragrunt)
      /\ Elements(d.terragrunt) = {d.terragrunt[k] : k \in 1..Len(c.terragrunt)}
      /\ \A k \in 1..Len(c.terragrunt) : d.terragrunt[k] = FillTerragrunt(c.terragrunt[k])
  <2>1. PICK f : f = d.terragrunt
    OBVIOUS
  <2>2. f = [k \in 1..Len(c.terragrunt) |-> f[k]] /\ \A k \in 1..Len(c.terragrunt) : f[k] = FillTerragrunt(c.terragrunt[k])
    BY <1>1, <2>1
  <2> QED  BY <1>2, <2>1, <2>2, Mapped
<1>6. \A k \in 1..Len(c.terragrunt) :
        /\ {"account", "backend"} \subseteq DOMAIN d.terragrunt[k]
        /\ d.terragrunt[k].account = c.terragrunt[k].account
        /\ d.terragrunt[k].backend = FillOption(c.terragrunt[k].backend)
  <2> TAKE k \in 1..Len(c.terragrunt)
  <2>1. c.terragrunt[k] \in Elements(c.terragrunt)
    BY DEF Elements
  <2> QED  BY <1>2, <1>5, <2>1 DEF FillTerragrunt
<1>7. CascadeAccount(d) = CascadeAccount(c) /\ (IsSome(d.terragrunt) <=> IsSome(c.terragrunt))
  <2>1. IsSome(d.terragrunt) <=> IsSome(c.terragrunt)
    BY <1>2, <1>5 DEF IsSome, IsSequence
  <2>2. IsSome(c.terragrunt) => 1 \in 1..Len(c.terragrunt)
    BY <1>2 DEF IsSome, IsSequence
  <2>3. IsSome(c.terragrunt) => d.terragrunt[1].account = c.terragrunt[1].account
    BY <1>6, <2>2
  <2> QED  BY <2>1, <2>3 DEF CascadeAccount
<1>8. /\ IsSequence(d.backend)
      /\ \A t \in Elements(d.terragrunt) : IsSequence(t.backend)
      /\ \A b \in BackendsOf(d) : BackendShaped(b)
      /\ {b.profile : b \in BackendsOf(d)} = {b.profile : b \in BackendsOf(c)}
  <2>1. /\ IsSequence(d.backend)
        /\ \A b \in Elements(d.backend) : BackendShaped(b)
        /\ {b.profile : b \in Elements(d.backend)} = {b.profile : b \in Elements(c.backend)}
    BY <1>1, <1>2, OptionFilled DEF BackendsOf
  <2>2. \A t \in Elements(d.terragrunt) : IsSequence(t.backend)
    <3>1. ASSUME NEW k \in 1..Len(c.terragrunt)  PROVE IsSequence(d.terragrunt[k].backend)
      <4>1. c.terragrunt[k] \in Elements(c.terragrunt)
        BY DEF Elements
      <4>2. IsSequence(c.terragrunt[k].backend)
        BY <1>2, <4>1
      <4> QED  BY <1>6, <4>2, OptionSequence
    <3> QED  BY <1>5, <3>1
  <2>3. CASE IsSome(c.terragrunt)
    <3>1. PICK o : o = c.terragrunt[1].backend
      OBVIOUS
    <3>2. 1 \in 1..Len(c.terragrunt) /\ c.terragrunt[1] \in Elements(c.terragrunt)
      BY <1>2, <2>3 DEF IsSome, IsSequence, Elements
    <3>3. IsSequence(o) /\ \A b \in Elements(o) : BackendShaped(b)
      BY <1>2, <2>3, <3>1, <3>2 DEF BackendsOf
    <3>4. /\ \A b \in Elements(FillOption(o)) : BackendShaped(b)
          /\ {b.profile : b \in Elements(FillOption(o))} = {b.profile : b \in Elements(o)}
      BY <3>3, OptionFilled
    <3>5. /\ BackendsOf(d) = Elements(d.backend) \cup Elements(FillOption(o))
          /\ BackendsOf(c) = Elements(c.backend) \cup Elements(o)
      BY <1>6, <1>7, <2>3, <3>1, <3>2 DEF BackendsOf
    <3> QED  BY <2>1, <2>2, <3>4, <3>5
  <2>4. CASE ~IsSome(c.terragrunt)
    <3>1. BackendsOf(d) = Elements(d.backend) /\ BackendsOf(c) = Elements(c.backend)
      BY <1>7, <2>4 DEF BackendsOf
    <3> QED  BY <2>1, <2>2, <3>1
  <2> QED  BY <2>3, <2>4
<1>9. RelyingOn(d) = RelyingOn(c)
  <2>1. ASSUME NEW p
        PROVE  (\E r \in Elements(d.resources) : PickProvider(c.providers, r.ref) = <<p>>)
                 <=> \E r \in Elements(c.resources) : PickProvider(c.providers, r.ref) = <<p>>
    BY <1>3, <1>4 DEF Elements
  <2> QED  BY <1>1, <1>8, <2>1 DEF RelyingOn
<1>10. ComponentShaped(d)
  <2>1. \A r \in Elements(d.resources) : {"ref", "account", "name", "region"} \subseteq DOMAIN r
    BY <1>3, <1>4
  <2>2. \A t \in Elements(d.terragrunt) : {"account", "backend"} \subseteq DOMAIN t
    BY <1>5, <1>6
  <2> QED  BY <1>1, <1>2, <1>3, <1>5, <1>8, <2>1, <2>2 DEF ComponentShaped
<1>11. \A s \in Elements(d.resources) :
         s.account = AccountOf(PickProvider(c.providers, s.ref), c).account
  BY <1>3, <1>4
<1> QED  BY <1>1, <1>7, <1>9, <1>10, <1>11
-----------------------------------------------------------------------------
(* What the properties say of one component.                                *)

AccountsNamed(c) ==
  \A r \in Elements(c.resources) :
    IsSome(r.ref) /\ r.account # None =>
      \/ r.account = CascadeAccount(c)
      \/ \E p \in Elements(c.providers) :
           /\ p.local = r.ref[1].local /\ p.alias = r.ref[1].alias
           /\ r.account \in {p.role} \cup {entries[q].account : q \in Profiles \cap {p.profile}}

\* The profiles a component relies on and the map does not have.
UnknownTo(c) == {p \in RelyingOn(c) \ {NoProfile} : ~InMap(p)}

LEMMA AccountFromPicked ==
  ASSUME NEW c, ComponentShaped(c), NEW provider,
         provider = NoBlock \/ \E p \in Elements(c.providers) : provider = <<p>>,
         NEW a, a = AccountOf(provider, c).account, a # None
  PROVE  \/ a = CascadeAccount(c)
         \/ \E p \in Elements(c.providers) :
              /\ provider = <<p>>
              /\ a \in {p.role} \cup {entries[q].account : q \in Profiles \cap {p.profile}}
<1>1. CASE provider = NoBlock
  BY <1>1 DEF AccountOf
<1>2. CASE provider # NoBlock
  <2>1. PICK p \in Elements(c.providers) : provider = <<p>>
    BY <1>2
  <2>2. provider[1] = p /\ p.profile \in Profiles \cup {NoProfile}
    BY <2>1 DEF ComponentShaped, NamesProfile
  <2>3. CASE a = p.role
    BY <2>1, <2>3
  <2>4. CASE p.profile # NoProfile /\ a = entries[p.profile].account
    BY <2>1, <2>2, <2>4
  <2>5. a = p.role \/ (p.profile # NoProfile /\ a = entries[p.profile].account) \/ a = CascadeAccount(c)
    BY <1>2, <2>2 DEF AccountOf
  <2> QED  BY <2>3, <2>4, <2>5
<1> QED  BY <1>1, <1>2

LEMMA ResolvedIsNamed ==
  ASSUME NEW c, ComponentShaped(c), NEW d, d = ResolvedComponent(c)
  PROVE  AccountsNamed(d)
<1>1. /\ d.providers = c.providers /\ CascadeAccount(d) = CascadeAccount(c)
      /\ \A s \in Elements(d.resources) :
           s.account = AccountOf(PickProvider(c.providers, s.ref), c).account
      /\ IsSequence(c.providers)
  BY ResolvedKeeps DEF ComponentShaped
<1>2. ASSUME NEW r \in Elements(d.resources), IsSome(r.ref), r.account # None
      PROVE  \/ r.account = CascadeAccount(c)
             \/ \E p \in Elements(c.providers) :
                  /\ p.local = r.ref[1].local /\ p.alias = r.ref[1].alias
                  /\ r.account \in {p.role} \cup {entries[q].account : q \in Profiles \cap {p.profile}}
  <2>1. PICK provider : provider = PickProvider(c.providers, r.ref)
    OBVIOUS
  <2>2. PICK a : a = r.account
    OBVIOUS
  <2>3. a = AccountOf(provider, c).account
    BY <1>1, <2>1, <2>2
  <2>4. provider # NoBlock => \E p \in Elements(c.providers) :
                                /\ provider = <<p>>
                                /\ p.local = r.ref[1].local /\ p.alias = r.ref[1].alias
    BY <1>1, <1>2, <2>1, PickedNamed
  <2>5. \/ a = CascadeAccount(c)
        \/ \E p \in Elements(c.providers) :
             /\ provider = <<p>>
             /\ a \in {p.role} \cup {entries[q].account : q \in Profiles \cap {p.profile}}
    BY <1>2, <2>2, <2>3, <2>4, AccountFromPicked
  <2>6. CASE a = CascadeAccount(c)
    BY <2>2, <2>6
  <2>7. CASE a # CascadeAccount(c)
    <3>1. PICK p \in Elements(c.providers) :
            /\ provider = <<p>>
            /\ a \in {p.role} \cup {entries[q].account : q \in Profiles \cap {p.profile}}
      BY <2>5, <2>7
    <3>2. <<p>> # NoBlock
      BY DEF NoBlock
    <3>3. PICK p2 \in Elements(c.providers) :
            provider = <<p2>> /\ p2.local = r.ref[1].local /\ p2.alias = r.ref[1].alias
      BY <2>4, <3>1, <3>2
    <3>4. p = p2
      BY <3>1, <3>3
    <3> QED  BY <2>2, <3>1, <3>3, <3>4
  <2> QED  BY <2>6, <2>7
<1> QED  BY <1>1, <1>2 DEF AccountsNamed

\* What resolve_component adds to the profiles it could not find.
Noted(c) ==
  (UNION {UnresolvedBy(PickProvider(c.providers, r.ref)) : r \in Elements(c.resources)})
    \cup (UNION {BackendUnresolved(b) : b \in BackendsOf(c)})

LEMMA NotedUnknown ==
  ASSUME NEW c, ComponentHandedOn(c)
  PROVE  Noted(c) = UnknownTo(c)
<1>1. ComponentShaped(c) /\ IsSequence(c.providers) /\ \A b \in BackendsOf(c) : b.account = None
  BY HandedOnParts DEF ComponentShaped
<1>2. ASSUME NEW provider, NEW q
      PROVE  (provider = NoBlock \/ \E p \in Elements(c.providers) : provider = <<p>>) =>
             (q \in UnresolvedBy(provider) <=>
              \E p \in Elements(c.providers) :
                provider = <<p>> /\ ~Present(p.role) /\ q = p.profile /\ q # NoProfile /\ ~InMap(q))
  <2>1. CASE provider = NoBlock
    <3>1. q \notin UnresolvedBy(provider)
      BY <2>1 DEF UnresolvedBy
    <3>2. \A p : provider # <<p>>
      BY <2>1 DEF NoBlock
    <3> QED  BY <3>1, <3>2
  <2>2. ASSUME NEW p \in Elements(c.providers), provider = <<p>>
        PROVE  q \in UnresolvedBy(provider) <=>
                 ~Present(p.role) /\ q = p.profile /\ q # NoProfile /\ ~InMap(q)
    <3>1. provider # NoBlock /\ provider[1] = p /\ p.profile \in Profiles \cup {NoProfile}
      BY <1>1, <2>2 DEF NoBlock, ComponentShaped, NamesProfile
    <3> QED  BY <3>1 DEF UnresolvedBy
  <2>3. \A p, p2 : provider = <<p>> /\ provider = <<p2>> => p = p2
    OBVIOUS
  <2> QED  BY <2>1, <2>2, <2>3
<1>3. ASSUME NEW q
      PROVE  q \in UNION {UnresolvedBy(PickProvider(c.providers, r.ref)) : r \in Elements(c.resources)} <=>
             \E p \in Elements(c.providers) :
               /\ ~Present(p.role) /\ q = p.profile /\ q # NoProfile /\ ~InMap(q)
               /\ \E r \in Elements(c.resources) : PickProvider(c.providers, r.ref) = <<p>>
  <2>1. \A r \in Elements(c.resources) :
          \/ PickProvider(c.providers, r.ref) = NoBlock
          \/ \E p \in Elements(c.providers) : PickProvider(c.providers, r.ref) = <<p>>
    BY <1>1, PickedAny
  <2>2. \A r \in Elements(c.resources) :
          q \in UnresolvedBy(PickProvider(c.providers, r.ref)) <=>
            \E p \in Elements(c.providers) :
              /\ PickProvider(c.providers, r.ref) = <<p>>
              /\ ~Present(p.role) /\ q = p.profile /\ q # NoProfile /\ ~InMap(q)
    BY <1>2, <2>1
  <2> QED  BY <2>2
<1>4. ASSUME NEW q
      PROVE  q \in UNION {BackendUnresolved(b) : b \in BackendsOf(c)} <=>
             \E b \in BackendsOf(c) : q = b.profile /\ q # NoProfile /\ ~InMap(q)
  <2>1. \A b \in BackendsOf(c) :
          q \in BackendUnresolved(b) <=> q = b.profile /\ q # NoProfile /\ ~InMap(q)
    BY <1>1 DEF BackendUnresolved
  <2> QED  BY <2>1
<1>5. ASSUME NEW q  PROVE q \in Noted(c) <=> q \in UnknownTo(c)
  <2>1. q \in RelyingOn(c) <=>
          \/ \E p \in Elements(c.providers) :
               /\ q = p.profile /\ ~Present(p.role)
               /\ \E r \in Elements(c.resources) : PickProvider(c.providers, r.ref) = <<p>>
          \/ \E b \in BackendsOf(c) : q = b.profile
    BY DEF RelyingOn
  <2>2. q \in UnknownTo(c) <=> q \in RelyingOn(c) /\ q # NoProfile /\ ~InMap(q)
    BY DEF UnknownTo
  <2>3. q \in Noted(c) <=>
          \/ q \in UNION {UnresolvedBy(PickProvider(c.providers, r.ref)) : r \in Elements(c.resources)}
          \/ q \in UNION {BackendUnresolved(b) : b \in BackendsOf(c)}
    BY DEF Noted
  <2>4. \A p : q = p.profile => (InMap(q) <=> InMap(p.profile))
    OBVIOUS
  <2> QED  BY <1>3, <1>4, <2>1, <2>2, <2>3
<1> QED  BY <1>5

-----------------------------------------------------------------------------
(* The order of the reports.                                                *)

Below(S, p) == {q \in S : q < p}

LEMMA RanksDiffer ==
  ASSUME NEW S, S \subseteq Nat, IsFiniteSet(S), NEW p \in S
  PROVE  /\ Cardinality(Below(S, p)) \in 0..(Cardinality(S) - 1)
         /\ \A q \in S : p # q => Cardinality(Below(S, p)) # Cardinality(Below(S, q))
<1>1. Cardinality(S) \in Nat
  BY FS_CardinalityType
<1>2. \A q \in S : IsFiniteSet(Below(S, q)) /\ Cardinality(Below(S, q)) \in Nat
  <2> TAKE q \in S
  <2>1. PICK B : B = Below(S, q) /\ B \in SUBSET S
    BY DEF Below
  <2>2. IsFiniteSet(B)
    BY <2>1, FS_Subset
  <2> QED  BY <2>1, <2>2, FS_CardinalityType
<1>3. Cardinality(Below(S, p)) <= Cardinality(S) - 1
  <2>1. IsFiniteSet(S \ {p}) /\ Cardinality(S \ {p}) = Cardinality(S) - 1
    BY FS_RemoveElement
  <2>2. Below(S, p) \in SUBSET (S \ {p})
    BY DEF Below
  <2>3. Cardinality(Below(S, p)) <= Cardinality(S \ {p})
    BY <2>1, <2>2, FS_Subset
  <2> QED  BY <2>1, <2>3
<1>4. ASSUME NEW a \in S, NEW b \in S, a < b
      PROVE  Cardinality(Below(S, a)) # Cardinality(Below(S, b))
  <2>1. Below(S, a) \in SUBSET Below(S, b) /\ a \in Below(S, b) /\ a \notin Below(S, a)
    <3>1. a \in Nat /\ b \in Nat /\ \A q \in S : q \in Nat
      OBVIOUS
    <3>2. \A q \in S : q < a => q < b
      BY <1>4, <3>1
    <3>3. a < b /\ ~(a < a)
      BY <1>4, <3>1
    <3> QED  BY <3>2, <3>3 DEF Below
  <2>2. Cardinality(Below(S, b)) = Cardinality(Below(S, a)) => Below(S, b) = Below(S, a)
    BY <1>2, <2>1, FS_Subset
  <2> QED  BY <2>1, <2>2
<1>5. \A q \in S : p # q => p < q \/ q < p
  OBVIOUS
<1> QED  BY <1>1, <1>2, <1>3, <1>4, <1>5

\* Ascending lists a finite set, each element once.
LEMMA AscendingLists ==
  ASSUME NEW S, S \subseteq Nat, IsFiniteSet(S)
  PROVE  /\ Cardinality(S) \in Nat
         /\ {Ascending(S)[k] : k \in 1..Cardinality(S)} = S
         /\ \A j, k \in 1..Cardinality(S) : Ascending(S)[j] = Ascending(S)[k] => j = k
<1> DEFINE n == Cardinality(S)
           T == 0..(n - 1)
           rank == [p \in S |-> Cardinality(Below(S, p))]
<1>1. n \in Nat
  BY FS_CardinalityType
<1>2. IsFiniteSet(T) /\ Cardinality(T) = n
  <2>1. 0 \in Int /\ n - 1 \in Int
    BY <1>1
  <2>2. IsFiniteSet(T) /\ Cardinality(T) = IF 0 > n - 1 THEN 0 ELSE (n - 1) - 0 + 1
    BY <2>1, FS_Interval
  <2> QED  BY <1>1, <2>2
<1>3. rank \in Injection(S, T)
  <2>1. rank \in [S -> T]
    BY RanksDiffer
  <2>2. \A p, q \in S : rank[p] = rank[q] => p = q
    BY RanksDiffer
  <2> HIDE DEF rank, T
  <2> QED  BY <2>1, <2>2 DEF Injection, IsInjective
<1>4. rank \in Surjection(S, T)
  <2> HIDE DEF rank, T
  <2> QED  BY <1>2, <1>3, FS_Injection
<1>5. \A i \in T : \E p \in S : Cardinality(Below(S, p)) = i
  <2>1. \A i \in T : \E p \in S : rank[p] = i
    <3> HIDE DEF rank, T
    <3> QED  BY <1>4 DEF Surjection
  <2> QED  BY <2>1
<1>6. ASSUME NEW k \in 1..n
      PROVE  Ascending(S)[k] \in S /\ Cardinality(Below(S, Ascending(S)[k])) = k - 1
  <2>1. k - 1 \in T
    BY <1>1
  <2>2. \E p \in S : Cardinality(Below(S, p)) = k - 1
    BY <1>5, <2>1
  <2>3. Ascending(S)[k] = CHOOSE p \in S : Cardinality(Below(S, p)) = k - 1
    BY DEF Ascending, Below
  <2>4. PICK i : i = k - 1
    OBVIOUS
  <2> HIDE DEF n, T, rank
  <2>5. LET p == CHOOSE p \in S : Cardinality(Below(S, p)) = i
        IN  p \in S /\ Cardinality(Below(S, p)) = i
    BY <2>2, <2>4, Zenon
  <2> QED  BY <2>3, <2>4, <2>5
<1>7. \A j, k \in 1..n : Ascending(S)[j] = Ascending(S)[k] => j = k
  BY <1>6
<1>8. ASSUME NEW p \in S  PROVE \E k \in 1..n : Ascending(S)[k] = p
  <2>1. PICK i \in T : Cardinality(Below(S, p)) = i
    BY RanksDiffer
  <2>2. i + 1 \in 1..n /\ (i + 1) - 1 = i
    BY <1>1
  <2>3. Ascending(S)[i + 1] \in S /\ Cardinality(Below(S, Ascending(S)[i + 1])) = i
    BY <1>6, <2>2
  <2>4. Ascending(S)[i + 1] = p
    BY <2>1, <2>3, RanksDiffer
  <2> QED  BY <2>2, <2>4
<1>9. {Ascending(S)[k] : k \in 1..n} = S
  <2>1. PICK f : \A k \in 1..n : f[k] = Ascending(S)[k]
    OBVIOUS
  <2> HIDE DEF n, T, rank
  <2>2. {f[k] : k \in 1..n} = S
    BY <1>6, <1>8, <2>1
  <2> QED  BY <2>1, <2>2
<1> QED  BY <1>1, <1>7, <1>9

\* The values at the places of a sequence, and what they unite to, are finite.
LEMMA ImageFinite ==
  ASSUME NEW n \in Nat, NEW f, f = [k \in 1..n |-> f[k]]
  PROVE  IsFiniteSet({f[k] : k \in 1..n})
<1> DEFINE T == {f[k] : k \in 1..n}
<1>1. f \in Surjection(1..n, T)
  <2>1. f \in [1..n -> T] /\ \A t \in T : \E k \in 1..n : f[k] = t
    OBVIOUS
  <2> HIDE DEF T
  <2> QED  BY <2>1 DEF Surjection
<1>2. IsFiniteSet(1..n)
  BY FS_Interval
<1> HIDE DEF T
<1> QED  BY <1>1, <1>2, FS_Surjection DEF T

\* What the elements of a sequence name is finite.
LEMMA NamedFinite ==
  ASSUME NEW s, IsSequence(s)
  PROVE  IsFiniteSet({e.profile : e \in Elements(s)})
<1>1. Len(s) \in Nat
  BY DEF IsSequence
<1>2. PICK n \in Nat : n = Len(s)
  BY <1>1
<1>3. PICK f : f = [k \in 1..n |-> s[k].profile]
  OBVIOUS
<1>4. \A k \in 1..n : f[k] = s[k].profile
  BY <1>3
<1>5. f = [k \in 1..n |-> f[k]]
  BY <1>3
<1>6. IsFiniteSet({f[k] : k \in 1..n})
  BY <1>5, ImageFinite
<1>7. {f[k] : k \in 1..n} = {e.profile : e \in Elements(s)}
  BY <1>2, <1>4 DEF Elements
<1> QED  BY <1>6, <1>7

LEMMA RelyingFinite ==
  ASSUME NEW c, ComponentShaped(c)
  PROVE  IsFiniteSet(RelyingOn(c)) /\ RelyingOn(c) \subseteq Profiles \cup {NoProfile}
<1>1. /\ IsSequence(c.providers) /\ IsSequence(c.backend)
      /\ IsSome(c.terragrunt) => IsSequence(c.terragrunt[1].backend)
      /\ \A p \in Elements(c.providers) : p.profile \in Profiles \cup {NoProfile}
      /\ \A b \in BackendsOf(c) : b.profile \in Profiles \cup {NoProfile}
  <2>1. IsSome(c.terragrunt) => c.terragrunt[1] \in Elements(c.terragrunt)
    BY DEF ComponentShaped, IsSome, IsSequence, Elements
  <2> QED  BY <2>1 DEF ComponentShaped, NamesProfile, BackendShaped
<1> DEFINE fromProviders == {p.profile : p \in Elements(c.providers)}
           fromBackend == {b.profile : b \in Elements(c.backend)}
           fromTerragrunt == IF IsSome(c.terragrunt)
                               THEN {b.profile : b \in Elements(c.terragrunt[1].backend)} ELSE {}
<1>2. IsFiniteSet(fromProviders) /\ IsFiniteSet(fromBackend) /\ IsFiniteSet(fromTerragrunt)
  BY <1>1, NamedFinite, FS_EmptySet
<1>3. RelyingOn(c) \subseteq fromProviders \cup (fromBackend \cup fromTerragrunt)
  BY DEF RelyingOn, BackendsOf
<1> HIDE DEF fromProviders, fromBackend, fromTerragrunt
<1>4. IsFiniteSet(fromBackend \cup fromTerragrunt)
  BY <1>2, FS_Union
<1>5. IsFiniteSet(fromProviders \cup (fromBackend \cup fromTerragrunt))
  BY <1>2, <1>4, FS_Union
<1>6. IsFiniteSet(RelyingOn(c))
  BY <1>3, <1>5, FS_Subset
<1>7. RelyingOn(c) \subseteq Profiles \cup {NoProfile}
  BY <1>1 DEF RelyingOn
<1> QED  BY <1>6, <1>7

-----------------------------------------------------------------------------
(* The inductive invariant.                                                 *)

\* A component the resolver has been through.
IsResolved(k) == stage # "edges" /\ (stage = "resolve" => k < at)

StagesInv ==
  /\ stage \in {"edges", "resolve", "rows", "tables", "done", "failed"}
  /\ stage = "resolve" => at \in Nat \ {0}
  /\ stage \notin {"edges", "failed"} => load = "loaded"
  /\ stage = "failed" => load \in {"loaded", "failed"}

ShapeInv ==
  /\ "components" \in DOMAIN ws /\ IsSequence(ws.components)
  /\ \A k \in Components : ComponentShaped(ws.components[k])

\* What the resolver has not come to is as it was handed on.
AheadInv == \A k \in Components : ~IsResolved(k) => ComponentHandedOn(ws.components[k])

NamedInv ==
  load = "loaded" => \A k \in Components : IsResolved(k) => AccountsNamed(ws.components[k])

\* The profiles not found are those that the resolved components rely on.
UnknownInv ==
  /\ stage = "edges" => unresolved = {}
  /\ load = "loaded" =>
       unresolved = UNION {UnknownTo(ws.components[k]) : k \in {k \in Components : IsResolved(k)}}

ReportsInv ==
  stage \notin {"edges", "resolve"} /\ load = "loaded" =>
    /\ reports = [k \in 1..Cardinality(unresolved) |-> <<"TF1601", Ascending(unresolved)[k]>>]
    /\ stage = "failed" <=> strict /\ unresolved # {}

ResolverInv == StagesInv /\ ShapeInv /\ AheadInv /\ NamedInv /\ UnknownInv /\ ReportsInv

ResolverStart == stage = "edges" /\ at = 1 /\ HandedOn /\ ProfileMapInit /\ ResolverInit

LEMMA ResolverStarts == ResolverStart => ResolverInv
<1> SUFFICES ASSUME ResolverStart PROVE ResolverInv
  OBVIOUS
<1>1. stage = "edges" /\ at = 1 /\ unresolved = {} /\ load = "reading" /\ HandedOn
  BY DEF ResolverStart, ProfileMapInit, ResolverInit
<1>2. \A k \in Components : ComponentHandedOn(ws.components[k])
  BY <1>1 DEF HandedOn, Components, Elements
<1>3. ShapeInv
  BY <1>1, <1>2, HandedOnParts DEF HandedOn, ShapeInv
<1> QED
  BY <1>1, <1>2, <1>3 DEF ResolverInv, StagesInv, AheadInv, NamedInv, UnknownInv, ReportsInv, IsResolved

\* The map is loaded before anything is resolved, and stays.
LEMMA LoadKeeps ==
  ASSUME ResolverInv, ProfileMapNext, UNCHANGED <<ws, stage, at, resolverVars>>
  PROVE  ResolverInv'
<1>1. load \in {"reading", "walking"} /\ stage = "edges"
  BY DEF ProfileMapNext, LoadYaml, RefuseFile, NoFile, LoadAwsConfig, StartProfile, FollowChain, EndLoad,
         ResolverInv, StagesInv
<1>2. unresolved = {} /\ UNCHANGED <<ws, stage, at, strict, unresolved, missing, reports>>
  BY <1>1 DEF ResolverInv, UnknownInv, resolverVars
<1>3. \A k : ~IsResolved(k) /\ ~IsResolved(k)'
  BY <1>1, <1>2 DEF IsResolved
<1>4. StagesInv' /\ ReportsInv'
  BY <1>1, <1>2 DEF StagesInv, ReportsInv
<1>5. ShapeInv' /\ AheadInv'
  BY <1>2, <1>3 DEF ResolverInv, ShapeInv, AheadInv, Components
<1>6. NamedInv' /\ UnknownInv'
  BY <1>1, <1>2, <1>3 DEF NamedInv, UnknownInv
<1> QED  BY <1>4, <1>5, <1>6 DEF ResolverInv

\* A step that moves on from components all of which it leaves alone.
LEMMA StageKeeps ==
  ASSUME ResolverInv, load = "loaded", UNCHANGED <<ws, profileVars, unresolved>>,
         StagesInv', ReportsInv', stage' = "edges" => unresolved = {},
         \A k \in Components : IsResolved(k)' <=> IsResolved(k)
  PROVE  ResolverInv'
<1>1. UNCHANGED <<ws, load, entries, unresolved>>
  BY DEF profileVars
<1>2. Components' = Components
  BY <1>1 DEF Components
<1>3. ShapeInv' /\ AheadInv'
  BY <1>1, <1>2 DEF ResolverInv, ShapeInv, AheadInv
<1>4. NamedInv'
  BY <1>1, <1>2 DEF ResolverInv, NamedInv, AccountsNamed
<1>5. UnknownInv'
  <2>1. \A k \in Components : UnknownTo(ws.components[k])' = UnknownTo(ws.components[k])
    BY <1>1 DEF UnknownTo, InMap
  <2> QED  BY <1>1, <1>2, <2>1 DEF ResolverInv, UnknownInv
<1> QED  BY <1>3, <1>4, <1>5 DEF ResolverInv

LEMMA BeforeKeeps == ASSUME ResolverInv, StageBefore PROVE ResolverInv'
<1>1. /\ stage = "edges" /\ load = "loaded" /\ unresolved = {}
      /\ UNCHANGED <<ws, profileVars, resolverVars, unresolved, load>>
  BY DEF StageBefore, ResolverInv, UnknownInv, resolverVars, profileVars
<1>2. \/ stage' = "resolve" /\ at' = 1
      \/ stage' = "edges"
  BY <1>1 DEF StageBefore, Advance
<1>3. \A k \in Components : IsResolved(k)' <=> IsResolved(k)
  <2>1. \A k \in Components : ~(k < 1)
    BY DEF Components, ResolverInv, ShapeInv, IsSequence
  <2> QED  BY <1>1, <1>2, <2>1 DEF IsResolved
<1>4. StagesInv' /\ ReportsInv'
  BY <1>1, <1>2 DEF StagesInv, ReportsInv
<1> QED  BY <1>1, <1>3, <1>4, StageKeeps

LEMMA AfterKeeps == ASSUME ResolverInv, StagesAfter PROVE ResolverInv'
<1>1. /\ stage \in {"rows", "tables"} /\ stage' \in {"rows", "tables", "done"} /\ load = "loaded"
      /\ UNCHANGED <<ws, profileVars, resolverVars, unresolved, load, strict, reports>>
  BY DEF StagesAfter, ResolverInv, StagesInv, resolverVars, profileVars
<1>2. \A k \in Components : IsResolved(k)' <=> IsResolved(k)
  BY <1>1 DEF IsResolved
<1>3. StagesInv' /\ ReportsInv'
  BY <1>1 DEF ResolverInv, StagesInv, ReportsInv
<1> QED  BY <1>1, <1>2, <1>3, StageKeeps

\* The resolver has been through all components when it reports.
LEMMA ReportKeeps == ASSUME ResolverInv, ReportUnresolved PROVE ResolverInv'
<1>1. /\ stage = "resolve" /\ load = "loaded" /\ at \in Nat \ {0} /\ at \notin Components
      /\ UNCHANGED <<ws, profileVars, unresolved, load, strict>>
      /\ reports' = [k \in 1..Cardinality(unresolved) |-> <<"TF1601", Ascending(unresolved)[k]>>]
      /\ stage' = IF strict /\ unresolved # {} THEN "failed" ELSE "rows"
  BY DEF ReportUnresolved, Advance, ResolverInv, StagesInv, profileVars
<1>2. \A k \in Components : IsResolved(k)' <=> IsResolved(k)
  <2>1. \A k \in Components : k < at
    BY <1>1 DEF Components, ResolverInv, ShapeInv, IsSequence
  <2> QED  BY <1>1, <2>1 DEF IsResolved
<1>3. StagesInv' /\ ReportsInv'
  BY <1>1 DEF StagesInv, ReportsInv
<1> QED  BY <1>1, <1>2, <1>3, StageKeeps

LEMMA NoMapKeeps == ASSUME ResolverInv, NoProfileMap PROVE ResolverInv'
<1>1. /\ stage = "edges" /\ load = "failed" /\ stage' = "failed"
      /\ UNCHANGED <<ws, load>>
  BY DEF NoProfileMap, Advance, profileVars
<1>2. StagesInv' /\ NamedInv' /\ UnknownInv' /\ ReportsInv'
  BY <1>1 DEF StagesInv, NamedInv, UnknownInv, ReportsInv
<1>3. ShapeInv' /\ AheadInv'
  BY <1>1 DEF ResolverInv, ShapeInv, AheadInv, Components, IsResolved
<1> QED  BY <1>2, <1>3 DEF ResolverInv

\* One component is resolved: it gets the accounts of the providers it names,
\* and the profiles it relies on in vain are noted.
LEMMA ResolveKeeps == ASSUME ResolverInv, ResolveComponent PROVE ResolverInv'
<1> DEFINE n == Len(ws.components)
           c == ws.components[at]
           d == ResolvedComponent(c)
<1>1. /\ stage = "resolve" /\ load = "loaded" /\ at \in 1..n /\ at' = at + 1
      /\ ws' = [ws EXCEPT !.components[at] = d]
      /\ unresolved' = unresolved \cup Noted(c)
      /\ UNCHANGED <<stage, load, entries, strict, reports>>
  BY DEF ResolveComponent, Noted, profileVars, Components
<1>2. /\ "components" \in DOMAIN ws /\ IsSequence(ws.components) /\ n \in Nat
      /\ \A k \in 1..n : ComponentShaped(ws.components[k])
  BY DEF ResolverInv, ShapeInv, Components, IsSequence
<1>3. PICK comps : comps = ws'.components
  OBVIOUS
<1>4. /\ comps = [k \in 1..n |-> comps[k]] /\ comps[at] = d
      /\ \A k \in 1..n : k # at => comps[k] = ws.components[k]
      /\ "components" \in DOMAIN ws'
  <2>1. comps = [ws.components EXCEPT ![at] = d] /\ "components" \in DOMAIN ws'
    BY <1>1, <1>2, <1>3
  <2>2. ws.components \in [1..n -> Elements(ws.components)]
    BY <1>2 DEF IsSequence
  <2> HIDE DEF d, n
  <2> QED  BY <1>1, <2>1, <2>2
<1>5. IsSequence(comps) /\ Len(comps) = n /\ Components' = 1..n
  BY <1>2, <1>3, <1>4, Mapped DEF Components
<1>6. /\ ComponentShaped(c) /\ ComponentHandedOn(c)
      /\ \A k \in 1..n : k > at => ComponentHandedOn(ws.components[k])
  <2>1. \A k \in 1..n : k >= at => ~IsResolved(k)
    BY <1>1, <1>2 DEF IsResolved
  <2> QED  BY <1>1, <1>2, <2>1 DEF ResolverInv, AheadInv, Components
<1>7. ComponentShaped(d) /\ RelyingOn(d) = RelyingOn(c) /\ AccountsNamed(d)
  BY <1>6, ResolvedKeeps, ResolvedIsNamed
<1>8. Noted(c) = UnknownTo(c) /\ UnknownTo(d) = UnknownTo(c)
  BY <1>6, <1>7, NotedUnknown DEF UnknownTo
<1> HIDE DEF n, c, d
<1>9. \A k \in 1..n : (IsResolved(k) <=> k < at) /\ (IsResolved(k)' <=> k < at \/ k = at)
  BY <1>1, <1>2 DEF IsResolved
<1>10. StagesInv' /\ ReportsInv'
  BY <1>1, <1>2 DEF StagesInv, ReportsInv
<1>11. ShapeInv'
  <2>1. \A k \in 1..n : ComponentShaped(comps[k])
    BY <1>2, <1>4, <1>7
  <2> QED  BY <1>3, <1>4, <1>5, <2>1 DEF ShapeInv
<1>12. AheadInv'
  <2>1. \A k \in 1..n : ~IsResolved(k)' => ComponentHandedOn(comps[k])
    BY <1>1, <1>2, <1>4, <1>6, <1>9
  <2> QED  BY <1>3, <1>5, <2>1 DEF AheadInv
<1>13. NamedInv'
  <2>1. \A k \in 1..n : k < at \/ k = at => AccountsNamed(comps[k])
    BY <1>1, <1>4, <1>7, <1>9 DEF ResolverInv, NamedInv, Components, n
  <2>2. \A k \in 1..n : IsResolved(k)' => AccountsNamed(ws.components[k])'
    BY <1>1, <1>3, <1>9, <2>1 DEF AccountsNamed
  <2> QED  BY <1>5, <2>2 DEF NamedInv
<1>14. UnknownInv'
  <2>1. unresolved = UNION {UnknownTo(ws.components[k]) : k \in {k \in 1..n : IsResolved(k)}}
    BY <1>1 DEF ResolverInv, UnknownInv, Components, n
  <2>2. \A k \in 1..n : k < at => UnknownTo(comps[k]) = UnknownTo(ws.components[k])
    BY <1>1, <1>2, <1>4
  <2>3. UnknownTo(comps[at]) = UnknownTo(c)
    BY <1>4, <1>8
  <2>4. ASSUME NEW q
        PROVE  q \in unresolved' <=> \E k \in 1..n : IsResolved(k)' /\ q \in UnknownTo(comps[k])
    <3>1. q \in unresolved <=> \E k \in 1..n : k < at /\ q \in UnknownTo(ws.components[k])
      BY <1>9, <2>1
    <3>2. q \in unresolved' <=> q \in unresolved \/ q \in UnknownTo(c)
      BY <1>1, <1>8
    <3> QED  BY <1>1, <1>9, <2>2, <2>3, <3>1, <3>2
  <2>5. \A k \in 1..n : UnknownTo(ws.components[k])' = UnknownTo(comps[k])
    BY <1>1, <1>3 DEF UnknownTo, InMap
  <2>6. unresolved' = UNION {UnknownTo(ws.components[k])' : k \in {k \in 1..n : IsResolved(k)'}}
    BY <2>4, <2>5
  <2> QED  BY <1>1, <1>5, <2>6 DEF UnknownInv
<1> QED  BY <1>10, <1>11, <1>12, <1>13, <1>14 DEF ResolverInv

LEMMA ResolverSteps ==
  ASSUME ResolverInv, [ResolverNext]_<<ws, stage, at, profileVars, resolverVars>>
  PROVE  ResolverInv'
<1>1. CASE ProfileMapNext /\ UNCHANGED <<ws, stage, at, resolverVars>>
  BY <1>1, LoadKeeps
<1>2. CASE UNCHANGED <<ws, stage, at, profileVars, resolverVars>>
  <2>1. UNCHANGED <<ws, stage, at, entries, load, strict, unresolved, reports>>
    BY <1>2 DEF profileVars, resolverVars
  <2>2. Components' = Components /\ \A k : IsResolved(k)' <=> IsResolved(k)
    BY <2>1 DEF Components, IsResolved
  <2>3. \A k \in Components : /\ UnknownTo(ws.components[k])' = UnknownTo(ws.components[k])
                             /\ AccountsNamed(ws.components[k])' <=> AccountsNamed(ws.components[k])
    BY <2>1 DEF UnknownTo, InMap, AccountsNamed
  <2>4. StagesInv' /\ ShapeInv' /\ AheadInv' /\ ReportsInv'
    BY <2>1, <2>2 DEF ResolverInv, StagesInv, ShapeInv, AheadInv, ReportsInv
  <2>5. NamedInv' /\ UnknownInv'
    BY <2>1, <2>2, <2>3 DEF ResolverInv, NamedInv, UnknownInv
  <2> QED  BY <2>4, <2>5 DEF ResolverInv
<1> QED
  BY <1>1, <1>2, BeforeKeeps, ResolveKeeps, ReportKeeps, NoMapKeeps, AfterKeeps DEF ResolverNext

-----------------------------------------------------------------------------
(* The theorems.                                                            *)

LEMMA ResolverAlways == ResolverSpec => []ResolverInv
<1>1. ResolverStart => ResolverInv
  BY ResolverStarts
<1>2. ResolverInv /\ [ResolverNext]_<<ws, stage, at, profileVars, resolverVars>> => ResolverInv'
  BY ResolverSteps
<1> QED  BY <1>1, <1>2, PTL DEF ResolverSpec, ResolverStart

LEMMA AllResolved ==
  ASSUME ResolverInv, Resolved
  PROVE  load = "loaded" /\ stage \notin {"edges", "resolve"} /\ \A k \in Components : IsResolved(k)
  BY DEF Resolved, IsResolved

(* For every profile file and every workspace handed on: once resolve has   *)
(* ended, a resource that names a provider has the account of the role or   *)
(* the profile of the block with that name and alias, or the one cascaded   *)
(* to its component, and never that of another provider.                    *)
THEOREM AccountsAsNamed == ResolverSpec => []AccountFromNamedProvider
<1>1. ResolverInv => AccountFromNamedProvider
  <2> SUFFICES ASSUME ResolverInv, Resolved, NEW k \in Components
               PROVE  AccountsNamed(ws.components[k])
    BY DEF AccountFromNamedProvider, AccountsNamed
  <2> QED  BY AllResolved DEF ResolverInv, NamedInv
<1> QED  BY <1>1, ResolverAlways, PTL

(* For every profile file, every workspace handed on and either mode: the   *)
(* profiles resolve reports are those some component relies on and the map  *)
(* does not have, each once, and strict mode fails exactly where there is   *)
(* one.                                                                     *)
THEOREM UnknownProfilesReported == ResolverSpec => []UnresolvedReported
<1>1. ResolverInv => UnresolvedReported
  <2> SUFFICES ASSUME ResolverInv, Resolved
               PROVE  /\ {reports[k][2] : k \in 1..Len(reports)} = {p \in Wanted \ {NoProfile} : ~InMap(p)}
                      /\ \A j, k \in 1..Len(reports) : reports[j] = reports[k] => j = k
                      /\ stage = "failed" <=> strict /\ reports # << >>
    BY DEF UnresolvedReported
  <2>1. /\ load = "loaded" /\ stage \notin {"edges", "resolve"} /\ \A k \in Components : IsResolved(k)
        /\ Components = 1..Len(ws.components) /\ Len(ws.components) \in Nat
        /\ \A k \in Components : ComponentShaped(ws.components[k])
    BY AllResolved DEF ResolverInv, ShapeInv, Components, IsSequence
  <2>2. unresolved = UNION {UnknownTo(ws.components[k]) : k \in Components}
    <3>1. {k \in Components : IsResolved(k)} = Components
      BY <2>1
    <3> QED  BY <2>1, <3>1 DEF ResolverInv, UnknownInv
  <2>3. unresolved = {p \in Wanted \ {NoProfile} : ~InMap(p)}
    <3>1. Wanted = UNION {RelyingOn(c) : c \in Elements(ws.components)}
      BY DEF Wanted, RelyingOn
    <3>2. ASSUME NEW q
          PROVE  q \in unresolved <=> q \in Wanted /\ q # NoProfile /\ ~InMap(q)
      <4>1. q \in unresolved <=> \E k \in Components : q \in UnknownTo(ws.components[k])
        BY <2>2
      <4>2. q \in Wanted <=> \E k \in Components : q \in RelyingOn(ws.components[k])
        BY <3>1 DEF Elements, Components
      <4> QED  BY <4>1, <4>2 DEF UnknownTo
    <3> QED  BY <3>2
  <2>4. unresolved \subseteq Nat /\ IsFiniteSet(unresolved)
    <3>1. PICK n \in Nat : n = Len(ws.components)
      BY <2>1
    <3>2. PICK f : f = [k \in 1..n |-> UnknownTo(ws.components[k])]
      OBVIOUS
    <3>3. f = [k \in 1..n |-> f[k]] /\ \A k \in 1..n : f[k] = UnknownTo(ws.components[k])
      BY <3>2
    <3>4. IsFiniteSet({f[k] : k \in 1..n})
      BY <3>3, ImageFinite
    <3>5. \A k \in 1..n : IsFiniteSet(f[k]) /\ f[k] \subseteq Profiles
      <4> TAKE k \in 1..n
      <4>1. PICK R : R = RelyingOn(ws.components[k])
        OBVIOUS
      <4>2. IsFiniteSet(R) /\ R \subseteq Profiles \cup {NoProfile}
        BY <2>1, <3>1, <4>1, RelyingFinite
      <4>3. f[k] \in SUBSET R /\ f[k] \subseteq Profiles
        BY <3>3, <4>1, <4>2 DEF UnknownTo
      <4> QED  BY <4>2, <4>3, FS_Subset
    <3>6. IsFiniteSet(UNION {f[k] : k \in 1..n})
      <4>1. \A T \in {f[k] : k \in 1..n} : IsFiniteSet(T)
        BY <3>5
      <4> QED  BY <3>4, <4>1, FS_UNION
    <3>7. unresolved = UNION {f[k] : k \in 1..n}
      BY <2>1, <2>2, <3>1, <3>3
    <3>8. unresolved \subseteq Profiles
      BY <3>5, <3>7
    <3> QED  BY <3>6, <3>7, <3>8, ProfilesArePositive
  <2>5. PICK m \in Nat : m = Cardinality(unresolved)
    BY <2>4, FS_CardinalityType
  <2>6. /\ reports = [k \in 1..m |-> <<"TF1601", Ascending(unresolved)[k]>>]
        /\ stage = "failed" <=> strict /\ unresolved # {}
    BY <2>1, <2>5 DEF ResolverInv, ReportsInv
  <2>7. /\ {Ascending(unresolved)[k] : k \in 1..m} = unresolved
        /\ \A j, k \in 1..m : Ascending(unresolved)[j] = Ascending(unresolved)[k] => j = k
    BY <2>4, <2>5, AscendingLists
  <2>8. Len(reports) = m /\ \A k \in 1..m : reports[k][2] = Ascending(unresolved)[k]
    <3>1. reports = [k \in 1..m |-> reports[k]] /\ \A k \in 1..m : reports[k] = <<"TF1601", Ascending(unresolved)[k]>>
      BY <2>6
    <3> QED  BY <3>1, Mapped
  <2>9. {reports[k][2] : k \in 1..Len(reports)} = unresolved
    BY <2>7, <2>8
  <2>10. \A j, k \in 1..Len(reports) : reports[j] = reports[k] => j = k
    BY <2>7, <2>8
  <2>11. reports # << >> <=> unresolved # {}
    <3>1. reports = << >> <=> m = 0
      <4>1. m = 0 => reports = << >>
        <5>1. m = 0 => 1..m = {}
          OBVIOUS
        <5> QED  BY <2>6, <5>1
      <4>2. reports = << >> => Len(reports) = 0
        OBVIOUS
      <4> QED  BY <2>8, <4>1, <4>2
    <3>2. m = 0 <=> unresolved = {}
      BY <2>4, <2>5, FS_EmptySet
    <3> QED  BY <3>1, <3>2
  <2> QED  BY <2>3, <2>6, <2>9, <2>10, <2>11
<1> QED  BY <1>1, ResolverAlways, PTL

================================================================================
