------------------------ MODULE ModuleExpansion_proofs ------------------------
(***************************************************************************)
(* Proofs about ModuleExpansion, for any modules that call one another in  *)
(* any way and any caps: the rows of a component have addresses of their   *)
(* own, nothing is dropped without a word, and inputs and provider         *)
(* references reach the resources through any number of calls.             *)
(***************************************************************************)
EXTENDS ModuleExpansion, SequenceTheorems, TLAPS

-----------------------------------------------------------------------------
(* The inductive invariant.  Its parts take the state as parameters.        *)

Dirs == Modules \cup {Component}
InstKeys == Nat \cup Keys \cup {NoKey}
OnceEach == [count |-> None, for_each |-> None]
Passes == Seq(Refs \cup {None})

FrameShape ==
  [dir : Dirs, path : Segments, insts : Seq(InstKeys), begun : BOOLEAN,
   next : Nat \ {0}, input : Exprs \cup {None}, map : Refs \cup {None},
   passes : Passes, xmeans : Exprs, means : Refs]
RowShape ==
  [path : Segments, dir : Dirs, res : Nat, key : InstKeys,
   count : Exprs \cup {None}, for_each : Exprs \cup {None}, value : Exprs,
   provider : Refs \cup {None}, passes : Passes, xmeans : Exprs, means : Refs]

\* A body that was chosen stays as it is.
Grows(b, b2) == \A d \in Dirs : b[d] # None => b2[d] = b[d]

\* No module called so far has a value of its own for the variable.
Unbound(b) == \A m \in Modules : b[m] # None => b[m].bound = None

\* What the default provider comes out as in a frame or a row with these calls
\* around it, and what it means there.
ComesOut(passes, out, means) ==
  Nearest(passes, out) /\ (~PassedOn(passes) => out = means)
Default(map) == IF map = None THEN Plain ELSE map

\* What a frame carries down is what the call means.
FrameGood(b, f) ==
  /\ f \in FrameShape /\ b[f.dir] \in BodyShape \ {None}
  /\ f.begun => f.insts # << >>
  /\ f.dir = Component => f.input = None /\ f.xmeans = Reduced(b[Component], VarX)
  /\ f.dir \in Modules /\ Unbound(b) =>
       f.xmeans = IF f.input = None THEN VarX ELSE f.input
  /\ ComesOut(f.passes, Default(f.map), f.means)

RowGood(b, r) ==
  /\ r \in RowShape /\ b[r.dir] \in BodyShape \ {None} /\ r.res \in 1..Len(b[r.dir].res)
  /\ b[r.dir].res[r.res].each = OnceEach => r.count = None /\ r.for_each = None
  /\ Unbound(b) => r.value = r.xmeans
  /\ b[r.dir].res[r.res].provider = Plain => ComesOut(r.passes, r.provider, r.means)

\* The call f of the frame g is the last one g came to, and each of its
\* instances was expanded or is still to come.
Link(b, ex, g, f) ==
  LET n == g.next - 1
      c == b[g.dir].calls[n]
      keys == CallKeys(b[g.dir], c)
  IN  /\ g.begun /\ n \in 1..Len(b[g.dir].calls)
      /\ f.dir = c.source /\ f.dir \in Modules
      /\ \E x \in InstKeys : f.path = At(g.path, n, x)
      /\ \A j \in 1..Len(keys) :
           \/ <<At(g.path, n, keys[j]), f.dir>> \in ex
           \/ \E m \in 1..Len(f.insts) : f.insts[m] = keys[j] /\ (f.begun => m > 1)

\* CallAnswered, and the call is one that a frame is at or has before it.
Answered(b, dg, ex, p, d, n) ==
  LET c == b[d].calls[n]
      keys == CallKeys(b[d], c)
  IN  \/ \E code \in {"TF1501", "TF1502", "TF1503", "TF1504"} : <<code, At(p, n, NoKey)>> \in dg
      \/ c.source = "external"
      \/ \A i \in 1..Len(keys) : <<At(p, n, keys[i]), c.source>> \in ex
Working(fs, p, d, n) ==
  \E i \in 1..Len(fs) :
    /\ fs[i].begun /\ fs[i].path = p /\ fs[i].dir = d
    /\ n >= fs[i].next \/ (n = fs[i].next - 1 /\ i < Len(fs))

\* A resource of an instance has a row, or a diagnostic says why it has not.
HasRow(b, dg, rs, e, k) ==
  b[e[2]].res[k].each = OnceEach =>
    \/ <<"TF1507", e[1]>> \in dg
    \/ \E r \in rs : r.path = e[1] /\ r.dir = e[2] /\ r.res = k

ShapeInv ==
  /\ body \in [Dirs -> BodyShape \cup {None}]
  /\ body[Component] # None
  /\ phase \in {"flatten", "expand", "dedup", "done"}
  /\ frames \in Seq(FrameShape)
  /\ flat \in Seq(RowShape) /\ combined \in Seq(RowShape) /\ rows \in Seq(RowShape)
  /\ turn \in Nat \ {0}
  /\ phase = "flatten" => /\ frames # << >> /\ turn = 1
                          /\ frames[1].dir = Component /\ frames[1].path = << >>
                          /\ frames[1].begun
  /\ phase # "flatten" => frames = << >>
  /\ phase \in {"dedup", "done"} => flat = << >>
  /\ \A e \in expanded : e = <<e[1], e[2]>> /\ e[2] \in Modules /\ body[e[2]] # None

FramesInv == \A i \in 1..Len(frames) : FrameGood(body, frames[i])
LinkInv == \A i \in 1..(Len(frames) - 1) : Link(body, expanded, frames[i], frames[i + 1])
RowsInv == \A r \in AllRows : RowGood(body, r)
CallsInv ==
  \A e \in expanded \cup {<<<< >>, Component>>} : \A n \in 1..Len(body[e[2]].calls) :
    Answered(body, diags, expanded, e[1], e[2], n) \/ Working(frames, e[1], e[2], n)
DropInv ==
  \A e \in expanded : \A k \in 1..Len(body[e[2]].res) : HasRow(body, diags, AllRows, e, k)
TurnInv ==
  flat # << >> /\ turn > 1 /\ Current.count = None /\ Current.for_each = None =>
    \E i \in 1..Len(combined) :
      /\ combined[i].path = Current.path /\ combined[i].dir = Current.dir
      /\ combined[i].res = Current.res

ExpansionInv ==
  /\ ShapeInv /\ FramesInv /\ LinkInv /\ RowsInv /\ CallsInv /\ DropInv /\ TurnInv
  /\ AddressesUnique

-----------------------------------------------------------------------------
(* What stays true when a module's body is chosen, and what else grows.     *)

\* A body that is chosen only makes the condition harder to meet.
LEMMA UnboundShrinks ==
  ASSUME NEW b, NEW b2, Grows(b, b2)
  PROVE  Unbound(b2) => Unbound(b)
  BY DEF Grows, Unbound, Dirs

\* Frames and rows stay good.
LEMMA GoodStays ==
  ASSUME NEW b, NEW b2, Grows(b, b2),
         Component \in Dirs, b[Component] # None
  PROVE  /\ \A f : FrameGood(b, f) => FrameGood(b2, f)
         /\ \A r : RowGood(b, r) => RowGood(b2, r)
<1>1. Unbound(b2) => Unbound(b)
  BY UnboundShrinks
<1>2. ASSUME NEW f, FrameGood(b, f)  PROVE FrameGood(b2, f)
  <2>1. f.dir \in Dirs /\ b2[f.dir] = b[f.dir] /\ b2[Component] = b[Component]
    BY <1>2 DEF FrameGood, FrameShape, Grows
  <2> QED  BY <1>1, <1>2, <2>1 DEF FrameGood
<1>3. ASSUME NEW r, RowGood(b, r)  PROVE RowGood(b2, r)
  <2>1. r.dir \in Dirs /\ b2[r.dir] = b[r.dir]
    BY <1>3 DEF RowGood, RowShape, Grows
  <2> QED  BY <1>1, <1>3, <2>1 DEF RowGood
<1> QED  BY <1>2, <1>3

\* None is no body.
LEMMA NoneIsNoBody == ASSUME NEW d \in Dirs, NEW b \in Bodies[d]
                      PROVE  b \in BodyShape /\ b # None
  BY BodiesShaped DEF Dirs

\* Answers stay.
LEMMA AnsweredStays ==
  ASSUME NEW b, NEW b2, NEW dg, NEW dg2, NEW ex, NEW ex2, NEW p, NEW d, NEW n,
         b2[d] = b[d], dg \subseteq dg2, ex \subseteq ex2,
         Answered(b, dg, ex, p, d, n)
  PROVE  Answered(b2, dg2, ex2, p, d, n)
  BY DEF Answered

\* A call and its caller stay linked.
LEMMA LinkStays ==
  ASSUME NEW b, NEW b2, NEW ex, NEW ex2, NEW g, NEW f,
         b2[g.dir] = b[g.dir], ex \subseteq ex2, Link(b, ex, g, f)
  PROVE  Link(b2, ex2, g, f)
  BY DEF Link

\* Only what the call's frame is at counts for the frame above it.
LEMMA LinkLooksAt ==
  ASSUME NEW b, NEW ex, NEW g, NEW f, NEW f2, Link(b, ex, g, f),
         f2.dir = f.dir, f2.path = f.path, f2.insts = f.insts, f2.begun = f.begun
  PROVE  Link(b, ex, g, f2)
  BY DEF Link

\* The index segments are keys of an address.
LEMMA InstancesShape ==
  ASSUME NEW count \in Exprs \cup {None}, NEW for_each \in Exprs \cup {None}
  PROVE  /\ Instances(count, for_each) \in Seq(InstKeys)
         /\ count = None /\ for_each = None => Instances(count, for_each) = <<NoKey>>
<1>1. <<NoKey>> \in Seq(InstKeys)
  BY DEF InstKeys
<1>2. count = None => count \notin Int
  BY NamesDistinct DEF Exprs, Values
<1>3. for_each = None => for_each \notin Lists
  BY NamesDistinct DEF Exprs, Values
<1>4. CASE OverCap(count, for_each)
  <2>1. Instances(count, for_each) = <<NoKey>>
    BY <1>2, <1>4 DEF Instances
  <2> QED  BY <1>1, <2>1
<1>5. CASE count \in Int /\ ~OverCap(count, for_each)
  <2>1. Instances(count, for_each) = [i \in 1..count |-> i - 1]
    BY <1>2, <1>5 DEF Instances
  <2>2. CASE count \in Nat
    <3>1. \A i \in 1..count : i - 1 \in InstKeys
      BY <2>2 DEF InstKeys
    <3>2. [i \in 1..count |-> i - 1] \in [1..count -> InstKeys]
      BY <3>1
    <3> QED  BY <1>2, <1>5, <2>1, <2>2, <3>2
  <2>3. CASE count \notin Nat
    <3>1. 1..count = 1..0
      BY <1>5, <2>3
    <3>2. [i \in 1..count |-> i - 1] \in [1..0 -> InstKeys]
      BY <3>1
    <3>3. 0 \in Nat
      OBVIOUS
    <3> QED  BY <1>2, <1>5, <2>1, <3>2, <3>3
  <2> QED  BY <2>2, <2>3
<1>6. CASE count = None /\ for_each \in Lists /\ ~OverCap(count, for_each)
  <2>1. Items[for_each].keys \in Seq(Keys)
    BY <1>6, ListsShaped DEF ListShape
  <2>2. Items[for_each].keys \in Seq(InstKeys)
    BY <2>1 DEF InstKeys
  <2>3. Instances(count, for_each) = Items[for_each].keys
    BY <1>2, <1>6 DEF Instances
  <2> QED  BY <1>3, <1>6, <2>2, <2>3
<1>7. CASE /\ ~OverCap(count, for_each) /\ count \notin Int
           /\ ~(count = None /\ for_each \in Lists)
  <2>1. Instances(count, for_each) = <<NoKey>>
    BY <1>7 DEF Instances
  <2> QED  BY <1>1, <2>1
<1> QED  BY <1>4, <1>5, <1>6, <1>7

\* One call more around the default provider.
LEMMA PassesAppended ==
  ASSUME NEW p \in Passes, NEW x \in Refs \cup {None}, NEW map \in Refs \cup {None},
         NEW means, ComesOut(p, Default(map), means)
  PROVE  /\ Append(p, x) \in Passes
         /\ ComesOut(Append(p, x), Default(EffectiveProvider(map, x)),
                     IF x \in {None, Plain} THEN means ELSE x)
<1>1. PICK n, out, q : n = Len(p) /\ out = Default(map) /\ q = Append(p, x)
  OBVIOUS
<1>2. n \in Nat /\ out \in Refs
  BY <1>1, NamesDistinct DEF Passes, Default, Refs
<1>3. /\ q \in Passes /\ Len(q) = n + 1 /\ q[n + 1] = x
      /\ \A i \in 1..n : q[i] = p[i]
  BY <1>1, AppendProperties DEF Passes
<1>4. \A i \in 1..(n + 1) : i \in 1..n \/ i = n + 1
  BY <1>2
<1>5. Nearest(p, out) /\ (~PassedOn(p) => out = means)
  BY <1>1 DEF ComesOut
<1>6. PassedOn(p) => PassedOn(q)
  <2> SUFFICES ASSUME NEW i \in 1..n, NEW j \in 1..n,
                      i < j, p[i] \in Aliases, p[j] = Plain
               PROVE  PassedOn(q)
    BY <1>1 DEF PassedOn
  <2>1. i \in 1..Len(q) /\ j \in 1..Len(q)
    BY <1>2, <1>3
  <2> QED  BY <1>3, <2>1 DEF PassedOn
<1>7. CASE x = None
  <2>1. Default(EffectiveProvider(map, x)) = out
    BY <1>1, <1>7 DEF EffectiveProvider
  <2>2. Nearest(q, out)
    <3>1. CASE out = Plain /\ \A i \in 1..n : p[i] = None
      BY <1>3, <1>4, <1>7, <3>1 DEF Nearest
    <3>2. ASSUME NEW i \in 1..n, p[i] = out, out # None,
                 \A j \in (i + 1)..n : p[j] = None
          PROVE  Nearest(q, out)
      <4>1. i \in 1..Len(q) /\ q[i] = out
        BY <1>2, <1>3, <3>2
      <4>2. ASSUME NEW j \in (i + 1)..(n + 1) PROVE q[j] = None
        <5>1. CASE j = n + 1
          BY <1>3, <1>7, <5>1
        <5>2. CASE j # n + 1
          <6>1. j \in (i + 1)..n /\ j \in 1..n
            BY <1>2, <5>2
          <6> QED  BY <1>3, <3>2, <6>1
        <5> QED  BY <5>1, <5>2
      <4> QED  BY <1>3, <3>2, <4>1, <4>2 DEF Nearest
    <3> QED  BY <1>1, <1>5, <3>1, <3>2 DEF Nearest
  <2> QED  BY <1>1, <1>3, <1>5, <1>6, <1>7, <2>1, <2>2 DEF ComesOut
<1>8. CASE x # None
  <2>1. Default(EffectiveProvider(map, x)) = x
    BY <1>8 DEF EffectiveProvider, Default
  <2>2. Nearest(q, x)
    <3>1. n + 1 \in 1..Len(q) /\ \A j \in ((n + 1) + 1)..Len(q) : FALSE
      BY <1>2, <1>3
    <3> QED  BY <1>3, <1>8, <3>1 DEF Nearest
  <2>3. ASSUME x = Plain, ~PassedOn(q) PROVE means = Plain
    <3>1. \A i \in 1..n : p[i] \notin Aliases
      <4>1. ASSUME NEW i \in 1..n, p[i] \in Aliases PROVE PassedOn(q)
        <5>1. i \in 1..Len(q) /\ n + 1 \in 1..Len(q) /\ i < n + 1
          BY <1>2, <1>3
        <5> QED  BY <1>3, <2>3, <4>1, <5>1 DEF PassedOn
      <4> QED  BY <2>3, <4>1
    <3>2. out = Plain
      BY <1>1, <1>2, <1>5, <3>1 DEF Nearest, Refs
    <3> QED  BY <1>5, <1>6, <2>3, <3>2
  <2> QED  BY <1>1, <1>3, <1>8, <2>1, <2>2, <2>3 DEF ComesOut
<1> QED  BY <1>7, <1>8

-----------------------------------------------------------------------------
(* Rows and frames that are made.                                           *)

\* The parts of a body.
LEMMA BodyParts ==
  ASSUME NEW bd \in BodyShape
  PROVE  /\ bd.bound \in Values \cup {None}
         /\ \A k \in 1..Len(bd.res) :
              /\ bd.res[k].provider \in Refs \cup {None}
              /\ bd.res[k].each.count \in Exprs \cup {None}
              /\ bd.res[k].each.for_each \in Exprs \cup {None}
         /\ \A n \in 1..Len(bd.calls) :
              /\ bd.calls[n].source \in Modules \cup BadSources
              /\ bd.calls[n].arg \in Exprs \cup {None}
              /\ bd.calls[n].provider \in Refs \cup {None}
              /\ bd.calls[n].each.count \in Exprs \cup {None}
              /\ bd.calls[n].each.for_each \in Exprs \cup {None}
         /\ Len(bd.res) \in Nat /\ Len(bd.calls) \in Nat
<1>1. /\ bd.bound \in Values \cup {None} /\ bd.res \in Seq(Resource) /\ bd.calls \in Seq(Call)
  BY DEF BodyShape
<1>2. Len(bd.res) \in Nat /\ Len(bd.calls) \in Nat
  BY <1>1
<1>3. ASSUME NEW k \in 1..Len(bd.res)
      PROVE  /\ bd.res[k].provider \in Refs \cup {None}
             /\ bd.res[k].each.count \in Exprs \cup {None}
             /\ bd.res[k].each.for_each \in Exprs \cup {None}
  <2>1. bd.res[k] \in Resource
    BY <1>1, ElementOfSeq
  <2>2. bd.res[k].provider \in Refs \cup {None} /\ bd.res[k].each \in Each
    BY <2>1 DEF Resource
  <2> QED  BY <2>2 DEF Each
<1>4. ASSUME NEW n \in 1..Len(bd.calls)
      PROVE  /\ bd.calls[n].source \in Modules \cup BadSources
             /\ bd.calls[n].arg \in Exprs \cup {None}
             /\ bd.calls[n].provider \in Refs \cup {None}
             /\ bd.calls[n].each.count \in Exprs \cup {None}
             /\ bd.calls[n].each.for_each \in Exprs \cup {None}
  <2>1. bd.calls[n] \in Call
    BY <1>1, ElementOfSeq
  <2>2. /\ bd.calls[n].source \in Modules \cup BadSources
        /\ bd.calls[n].arg \in Exprs \cup {None}
        /\ bd.calls[n].provider \in Refs \cup {None} /\ bd.calls[n].each \in Each
    BY <2>1 DEF Call
  <2> QED  BY <2>2 DEF Each
<1> QED  BY <1>1, <1>2, <1>3, <1>4

\* The expressions of a body, reduced and substituted.
LEMMA ExprShape ==
  ASSUME NEW bd \in BodyShape, NEW e \in Exprs, NEW input \in Exprs \cup {None}
  PROVE  /\ Reduced(bd, e) \in Exprs
         /\ Substitute(Reduced(bd, e), input) \in Exprs
         /\ input = None => Substitute(Reduced(bd, e), input) = Reduced(bd, e)
         /\ e # VarX => Substitute(Reduced(bd, e), input) = e
         /\ bd.bound = None => Reduced(bd, e) = e
  BY BodyParts, NamesDistinct DEF Reduced, Substitute, Exprs

\* A row made below a good frame is good.
LEMMA RowMade ==
  ASSUME NEW f, FrameGood(body, f), NEW p \in Segments,
         NEW k \in 1..Len(body[f.dir].res)
  PROVE  LET r == Row(p, f, k)
         IN  RowGood(body, r) /\ r.path = p /\ r.dir = f.dir /\ r.res = k
<1> DEFINE bd == body[f.dir]
           res == bd.res[k]
           r == Row(p, f, k)
           Rewritten(e) == Substitute(ReducedOr(bd, e), f.input)
           prov == RewriteProvider(res.provider, f.map)
<1>1. bd \in BodyShape /\ bd # None /\ f.dir \in Dirs
  BY DEF FrameGood, FrameShape
<1>2. /\ f.input \in Exprs \cup {None} /\ f.map \in Refs \cup {None}
      /\ f.passes \in Passes /\ f.xmeans \in Exprs /\ f.means \in Refs
  BY DEF FrameGood, FrameShape
<1>3. /\ res.provider \in Refs \cup {None} /\ res.each.count \in Exprs \cup {None}
      /\ res.each.for_each \in Exprs \cup {None} /\ bd.bound \in Values \cup {None}
  BY <1>1, BodyParts
<1>4. k \in Nat
  BY <1>1, BodyParts
<1>5. /\ \A e \in Exprs : Rewritten(e) \in Exprs
      /\ Rewritten(None) = None
  <2>1. \A e \in Exprs : e # None
    BY NamesDistinct
  <2>2. \A e \in Exprs : Rewritten(e) = Substitute(Reduced(bd, e), f.input)
    BY <2>1 DEF ReducedOr
  <2>3. Rewritten(None) = None
    BY NamesDistinct DEF ReducedOr, Substitute, Exprs
  <2> QED  BY <1>1, <1>2, <2>2, <2>3, ExprShape
<1>6. /\ Rewritten(res.each.count) \in Exprs \cup {None}
      /\ Rewritten(res.each.for_each) \in Exprs \cup {None}
      /\ Rewritten(VarX) \in Exprs /\ prov \in Refs \cup {None}
  <2>1. VarX \in Exprs
    BY DEF Exprs
  <2>2. prov \in Refs \cup {None}
    BY <1>2, <1>3 DEF RewriteProvider
  <2> QED  BY <1>3, <1>5, <2>1, <2>2
<1>7. Unbound(body) => Rewritten(VarX) = f.xmeans
  <2>1. VarX \in Exprs /\ VarX # None
    BY NamesDistinct DEF Exprs
  <2>2. Rewritten(VarX) = Substitute(Reduced(bd, VarX), f.input)
    BY <2>1 DEF ReducedOr
  <2>3. CASE f.dir \in Modules
    <3>1. Unbound(body) => bd.bound = None
      BY <1>1, <2>3 DEF Unbound
    <3>2. Unbound(body) => Reduced(bd, VarX) = VarX
      BY <1>1, <1>2, <2>1, <3>1, ExprShape
    <3>3. Unbound(body) => f.xmeans = IF f.input = None THEN VarX ELSE f.input
      BY <2>3 DEF FrameGood
    <3> QED  BY <2>2, <3>2, <3>3 DEF Substitute
  <2>4. CASE f.dir = Component
    <3>1. f.input = None /\ f.xmeans = Reduced(bd, VarX)
      BY <2>4 DEF FrameGood
    <3> QED  BY <2>2, <3>1 DEF Substitute
  <2> QED  BY <1>1, <2>3, <2>4 DEF Dirs
<1>8. res.provider = Plain => ComesOut(f.passes, prov, f.means)
  <2>1. res.provider = Plain => prov = Default(f.map)
    BY NamesDistinct DEF RewriteProvider, Default, Refs
  <2> QED  BY <2>1 DEF FrameGood
<1> DEFINE cnt == Rewritten(res.each.count)
           fe == Rewritten(res.each.for_each)
           val == Rewritten(VarX)
<1>9. r = [path |-> p, dir |-> f.dir, res |-> k, key |-> NoKey, count |-> cnt,
           for_each |-> fe, value |-> val, provider |-> prov, passes |-> f.passes,
           xmeans |-> f.xmeans, means |-> f.means]
  BY DEF Row
<1>10. res.each = OnceEach => cnt = None /\ fe = None
  BY <1>5 DEF OnceEach
<1> HIDE DEF cnt, fe, val, prov, r, Rewritten
<1>11. cnt \in Exprs \cup {None} /\ fe \in Exprs \cup {None} /\ val \in Exprs
  BY <1>6 DEF cnt, fe, val
<1>12. Unbound(body) => val = f.xmeans
  BY <1>7 DEF val
<1>13. /\ r \in RowShape /\ r.path = p /\ r.dir = f.dir /\ r.res = k /\ r.count = cnt
       /\ r.for_each = fe /\ r.value = val /\ r.provider = prov /\ r.passes = f.passes
       /\ r.xmeans = f.xmeans /\ r.means = f.means
  BY <1>1, <1>2, <1>4, <1>6, <1>9, <1>11 DEF RowShape, InstKeys
<1>14. RowGood(body, r)
  BY <1>1, <1>8, <1>10, <1>12, <1>13 DEF RowGood
<1> QED  BY <1>13, <1>14 DEF r

\* An instance of a good row is good.
LEMMA RowInstance ==
  ASSUME NEW r, RowGood(body, r), NEW k \in InstKeys
  PROVE  LET r2 == [r EXCEPT !.key = k]
         IN  /\ RowGood(body, r2) /\ r2 \in RowShape /\ r2.path = r.path
             /\ r2.dir = r.dir /\ r2.res = r.res
<1> DEFINE r2 == [r EXCEPT !.key = k]
<1>1. r \in RowShape
  BY DEF RowGood
<1>2. /\ r2 \in RowShape /\ r2.path = r.path /\ r2.dir = r.dir /\ r2.res = r.res
      /\ r2.count = r.count /\ r2.for_each = r.for_each /\ r2.value = r.value
      /\ r2.provider = r.provider /\ r2.passes = r.passes
      /\ r2.xmeans = r.xmeans /\ r2.means = r.means
  BY <1>1 DEF RowShape
<1> HIDE DEF r2
<1>3. RowGood(body, r2)
  BY <1>2 DEF RowGood
<1> QED  BY <1>2, <1>3 DEF r2

-----------------------------------------------------------------------------
(* What most steps leave alone.                                             *)

\* The rows are not touched.
LEMMA RowsKept ==
  ASSUME ExpansionInv, Grows(body, body'), diags \subseteq diags',
         UNCHANGED <<flat, turn, combined, rows, expanded>>
  PROVE  RowsInv' /\ DropInv' /\ TurnInv' /\ AddressesUnique'
<1>1. ShapeInv /\ RowsInv /\ DropInv /\ TurnInv /\ AddressesUnique
  BY DEF ExpansionInv
<1>2. AllRows' = AllRows
  BY DEF AllRows
<1>3. RowsInv'
  BY <1>1, <1>2, GoodStays DEF RowsInv, ShapeInv, Dirs
<1>4. DropInv'
  <2> SUFFICES ASSUME NEW e \in expanded, NEW k \in 1..Len(body'[e[2]].res)
               PROVE  HasRow(body', diags', AllRows, e, k)
    BY <1>2 DEF DropInv
  <2>1. body'[e[2]] = body[e[2]]
    BY <1>1 DEF ShapeInv, Grows, Dirs
  <2>2. HasRow(body, diags, AllRows, e, k)
    BY <1>1, <2>1 DEF DropInv
  <2> QED  BY <2>1, <2>2 DEF HasRow
<1>5. TurnInv'
  BY <1>1 DEF TurnInv, Current
<1>6. AddressesUnique'
  BY <1>1 DEF AddressesUnique, Address
<1> QED  BY <1>3, <1>4, <1>5, <1>6

\* No instance is new, and what a frame was at is answered or still at work.
LEMMA CallsKept ==
  ASSUME ExpansionInv, Grows(body, body'), diags \subseteq diags', expanded' = expanded,
         \A p, d, n : Working(frames, p, d, n) /\ n \in 1..Len(body[d].calls) =>
           Answered(body', diags', expanded, p, d, n) \/ Working(frames', p, d, n)
  PROVE  CallsInv'
<1>1. ShapeInv /\ CallsInv
  BY DEF ExpansionInv
<1> SUFFICES ASSUME NEW e \in expanded \cup {<<<< >>, Component>>},
                    NEW n \in 1..Len(body'[e[2]].calls)
             PROVE  \/ Answered(body', diags', expanded, e[1], e[2], n)
                    \/ Working(frames', e[1], e[2], n)
  BY DEF CallsInv
<1>2. body'[e[2]] = body[e[2]]
  BY <1>1 DEF ShapeInv, Grows, Dirs
<1>3. \/ Answered(body, diags, expanded, e[1], e[2], n)
      \/ Working(frames, e[1], e[2], n)
  BY <1>1, <1>2 DEF CallsInv
<1>4. CASE Answered(body, diags, expanded, e[1], e[2], n)
  BY <1>2, <1>4, AnsweredStays
<1>5. CASE Working(frames, e[1], e[2], n)
  BY <1>2, <1>5
<1> QED  BY <1>3, <1>4, <1>5

-----------------------------------------------------------------------------
(* A frame at a call.                                                       *)

\* The call the innermost frame is at.
LEMMA CallFacts ==
  ASSUME ExpansionInv, AtCall
  PROVE  /\ phase = "flatten" /\ frames # << >>
         /\ Len(frames) \in Nat \ {0} /\ Len(frames) \in 1..Len(frames)
         /\ Top \in FrameShape /\ Top.begun /\ FrameGood(body, Top)
         /\ body[Top.dir] \in BodyShape
         /\ Top.next \in 1..Len(body[Top.dir].calls)
         /\ Site = At(Top.path, Top.next, NoKey)
<1>1. phase = "flatten" /\ Top.begun /\ Top.next <= Len(body[Top.dir].calls)
  BY DEF AtCall
<1>2. frames # << >> /\ frames \in Seq(FrameShape)
  BY <1>1 DEF ExpansionInv, ShapeInv
<1>3. Len(frames) \in Nat \ {0}
  BY <1>2, EmptySeq
<1>4. Len(frames) \in 1..Len(frames)
  BY <1>3
<1>5. Top \in FrameShape /\ FrameGood(body, Top)
  BY <1>2, <1>4, ElementOfSeq DEF Top, ExpansionInv, FramesInv
<1>6. body[Top.dir] \in BodyShape
  BY <1>5 DEF FrameGood
<1>7. Top.next \in 1..Len(body[Top.dir].calls)
  <2>1. Len(body[Top.dir].calls) \in Nat
    BY <1>6, BodyParts
  <2>2. Top.next \in Nat \ {0}
    BY <1>5 DEF FrameShape
  <2> QED  BY <1>1, <2>1, <2>2
<1>8. Site = At(Top.path, Top.next, NoKey)
  BY DEF Site, At
<1> QED  BY <1>1, <1>2, <1>3, <1>4, <1>5, <1>6, <1>7, <1>8

\* A frame goes on to its next call.
LEMMA FrameAdvanced ==
  ASSUME NEW f \in FrameShape
  PROVE  LET f2 == [f EXCEPT !.next = @ + 1]
         IN  /\ f2 \in FrameShape /\ f2.next = f.next + 1
             /\ f2.dir = f.dir /\ f2.path = f.path /\ f2.insts = f.insts
             /\ f2.begun = f.begun
             /\ \A b : FrameGood(b, f) => FrameGood(b, f2)
<1> DEFINE f2 == [f EXCEPT !.next = @ + 1]
<1>1. f.next + 1 \in Nat \ {0}
  BY DEF FrameShape
<1>2. /\ f2 \in FrameShape /\ f2.next = f.next + 1 /\ f2.dir = f.dir /\ f2.path = f.path
      /\ f2.insts = f.insts /\ f2.begun = f.begun /\ f2.input = f.input
      /\ f2.map = f.map /\ f2.passes = f.passes
      /\ f2.xmeans = f.xmeans /\ f2.means = f.means
  BY <1>1 DEF FrameShape
<1> HIDE DEF f2
<1>3. \A b : FrameGood(b, f) => FrameGood(b, f2)
  BY <1>2 DEF FrameGood
<1> QED  BY <1>2, <1>3 DEF f2

\* The innermost frame goes on; the others stay as they are.
LEMMA AdvanceFacts ==
  ASSUME ExpansionInv, AtCall, NEW n, n = Len(frames), NEW fs, fs = Advance
  PROVE  /\ fs \in Seq(FrameShape) /\ Len(fs) = n
         /\ \A i \in 1..n : i # n => fs[i] = frames[i]
         /\ \A i \in 1..n : FrameGood(body, fs[i])
         /\ fs[n].next = Top.next + 1 /\ fs[n].dir = Top.dir /\ fs[n].path = Top.path
         /\ fs[n].insts = Top.insts /\ fs[n].begun = Top.begun
<1>1. /\ n \in 1..n /\ Top \in FrameShape /\ FrameGood(body, Top)
  BY CallFacts
<1>2. frames \in Seq(FrameShape)
  BY DEF ExpansionInv, ShapeInv
<1> DEFINE f2 == [Top EXCEPT !.next = @ + 1]
<1>3. /\ f2 \in FrameShape /\ f2.next = Top.next + 1
      /\ f2.dir = Top.dir /\ f2.path = Top.path /\ f2.insts = Top.insts
      /\ f2.begun = Top.begun /\ FrameGood(body, f2)
  BY <1>1, FrameAdvanced
<1>4. fs = [frames EXCEPT ![n] = f2]
  BY DEF Advance, Top
<1> HIDE DEF f2
<1>5. /\ fs \in Seq(FrameShape) /\ Len(fs) = n
      /\ \A i \in 1..n : fs[i] = IF i = n THEN f2 ELSE frames[i]
  BY <1>1, <1>2, <1>3, <1>4, ExceptSeq
<1>6. \A i \in 1..n : FrameGood(body, fs[i])
  BY <1>3, <1>5 DEF ExpansionInv, FramesInv
<1> QED  BY <1>1, <1>3, <1>5, <1>6

\* A call is passed over and answered.
LEMMA SkipStep ==
  ASSUME ExpansionInv, AtCall, frames' = Advance, diags \subseteq diags',
         Answered(body, diags', expanded, Top.path, Top.dir, Top.next),
         UNCHANGED <<body, phase, flat, turn, combined, rows, expanded>>
  PROVE  ExpansionInv'
<1>1. ShapeInv /\ LinkInv
  BY DEF ExpansionInv
<1>2. PICK n : n = Len(frames)
  OBVIOUS
<1>3. /\ phase = "flatten" /\ frames # << >> /\ n \in Nat \ {0} /\ n \in 1..n
      /\ Top \in FrameShape /\ Top.begun
  BY <1>2, CallFacts
<1>4. /\ frames' \in Seq(FrameShape) /\ Len(frames') = n
      /\ \A i \in 1..n : i # n => frames'[i] = frames[i]
      /\ \A i \in 1..n : FrameGood(body, frames'[i])
      /\ frames'[n].next = Top.next + 1 /\ frames'[n].dir = Top.dir
      /\ frames'[n].path = Top.path
      /\ frames'[n].insts = Top.insts /\ frames'[n].begun = Top.begun
  BY <1>2, AdvanceFacts
<1>5. Grows(body, body')
  BY DEF Grows
<1>6. RowsInv' /\ DropInv' /\ TurnInv' /\ AddressesUnique'
  BY <1>5, RowsKept
<1>7. ShapeInv'
  <2>1. frames' # << >>
    BY <1>3, <1>4, EmptySeq
  <2>2. frames'[1].dir = Component /\ frames'[1].path = << >> /\ frames'[1].begun
    <3>1. frames[1].dir = Component /\ frames[1].path = << >> /\ frames[1].begun
      BY <1>1, <1>3 DEF ShapeInv
    <3>2. 1 \in 1..n
      BY <1>3
    <3> QED  BY <1>2, <1>4, <3>1, <3>2 DEF Top
  <2> QED  BY <1>1, <1>3, <1>4, <2>1, <2>2 DEF ShapeInv
<1>8. FramesInv'
  BY <1>4 DEF FramesInv
<1>9. LinkInv'
  <2> SUFFICES ASSUME NEW i \in 1..(n - 1)
               PROVE  Link(body, expanded, frames'[i], frames'[i + 1])
    BY <1>4 DEF LinkInv
  <2>1. i \in 1..n /\ i # n /\ i + 1 \in 1..n
    BY <1>3
  <2>2. Link(body, expanded, frames[i], frames[i + 1])
    BY <1>1, <1>2 DEF LinkInv
  <2>3. CASE i + 1 = n
    BY <1>2, <1>4, <2>1, <2>2, <2>3, LinkLooksAt DEF Top
  <2>4. CASE i + 1 # n
    BY <1>4, <2>1, <2>2, <2>4
  <2> QED  BY <2>3, <2>4
<1>10. CallsInv'
  <2> SUFFICES ASSUME NEW p, NEW d, NEW m \in 1..Len(body[d].calls), Working(frames, p, d, m)
               PROVE  \/ Answered(body, diags', expanded, p, d, m)
                      \/ Working(frames', p, d, m)
    BY <1>5, CallsKept
  <2>1. PICK i \in 1..n :
          /\ frames[i].begun /\ frames[i].path = p /\ frames[i].dir = d
          /\ m >= frames[i].next \/ (m = frames[i].next - 1 /\ i < n)
    BY <1>2 DEF Working
  <2>2. CASE i # n
    BY <1>4, <2>1, <2>2 DEF Working
  <2>3. CASE i = n
    <3>1. frames[i] = Top /\ m >= Top.next
      BY <1>2, <1>3, <2>1, <2>3 DEF Top
    <3>2. CASE m = Top.next
      BY <2>1, <3>1, <3>2
    <3>3. CASE m # Top.next
      <4>1. Top.next \in Nat /\ m \in Int
        BY <1>3 DEF FrameShape
      <4>2. m >= frames'[n].next
        BY <1>4, <3>1, <3>3, <4>1
      <4> QED  BY <1>3, <1>4, <2>1, <3>1, <4>2 DEF Working
    <3> QED  BY <3>2, <3>3
  <2> QED  BY <2>2, <2>3
<1> QED  BY <1>6, <1>7, <1>8, <1>9, <1>10 DEF ExpansionInv

\* The calls that are not expanded: too deep, of a source that is no local
\* module, or of a module that is on the chain already.
LEMMA SkipSteps ==
  ASSUME ExpansionInv, SkipTooDeep \/ SkipBadSource \/ SkipCycle
  PROVE  ExpansionInv'
<1> DEFINE c == ThisCall
<1>1. AtCall /\ frames' = Advance
      /\ UNCHANGED <<body, phase, flat, turn, combined, rows, expanded>>
  BY DEF SkipTooDeep, SkipBadSource, SkipCycle
<1>2. Site = At(Top.path, Top.next, NoKey) /\ body[Top.dir].calls[Top.next] = ThisCall
  BY <1>1, CallFacts DEF ThisCall
<1>3. diags \subseteq diags'
  BY DEF SkipTooDeep, SkipBadSource, SkipCycle, Report
<1>4. \/ ThisCall.source = "external"
      \/ \E code \in {"TF1501", "TF1502", "TF1503", "TF1504"} : <<code, Site>> \in diags'
  <2>1. CASE SkipTooDeep
    BY <2>1 DEF SkipTooDeep, Report
  <2>2. CASE SkipCycle
    BY <2>2 DEF SkipCycle, Report
  <2>3. CASE SkipBadSource
    <3>1. /\ ThisCall.source \in BadSources
          /\ diags' = diags \cup {<<x, Site>> : x \in {SkipCode[ThisCall.source]} \ {"none"}}
      BY <2>3 DEF SkipBadSource, Report
    <3>2. CASE ThisCall.source = "escapes"
      <4>1. "TF1502" \in {SkipCode[ThisCall.source]} \ {"none"}
        BY <3>2 DEF SkipCode
      <4> QED  BY <3>1, <4>1
    <3>3. CASE ThisCall.source = "unregistered"
      <4>1. "TF1503" \in {SkipCode[ThisCall.source]} \ {"none"}
        BY <3>3 DEF SkipCode
      <4> QED  BY <3>1, <4>1
    <3> QED  BY <3>1, <3>2, <3>3 DEF BadSources
  <2> QED  BY <2>1, <2>2, <2>3
<1>5. Answered(body, diags', expanded, Top.path, Top.dir, Top.next)
  BY <1>2, <1>4 DEF Answered
<1> QED  BY <1>1, <1>3, <1>5, SkipStep

\* The frame top makes the call c of a module, which has a body by then.
Makes(b, b2, top, c) ==
  /\ Grows(b, b2) /\ FrameGood(b, top)
  /\ \E n \in 1..Len(b[top.dir].calls) : c = b[top.dir].calls[n]
  /\ c.source \in Modules /\ b2[c.source] \in BodyShape \ {None}

\* The frame of a call that is made.
LEMMA CallFrameGood ==
  ASSUME NEW b, NEW b2, NEW top, NEW c, NEW path \in Segments, Makes(b, b2, top, c)
  PROVE  LET f == CallFrame(top, b[top.dir], b2[c.source], c, path)
         IN  /\ FrameGood(b2, f) /\ f.dir = c.source /\ f.path = path /\ ~f.begun
             /\ f.insts = CallKeys(b[top.dir], c)
<1> DEFINE bd == b[top.dir]
           d == c.source
           map == EffectiveProvider(top.map, c.provider)
           input == IF c.arg = None THEN None
                    ELSE Substitute(Reduced(bd, c.arg), top.input)
           xmeans == CASE c.arg = VarX -> top.xmeans
                       [] c.arg = None -> IF b2[d].bound # None THEN b2[d].bound ELSE VarX
                       [] OTHER -> c.arg
           means == IF c.provider \in {None, Plain} THEN top.means ELSE c.provider
           passes == Append(top.passes, c.provider)
           f == CallFrame(top, bd, b2[d], c, path)
<1>0. PICK n \in 1..Len(b[top.dir].calls) : c = b[top.dir].calls[n]
  BY DEF Makes
<1> /\ Grows(b, b2) /\ FrameGood(b, top) /\ c.source \in Modules
    /\ b2[c.source] \in BodyShape \ {None}
  BY DEF Makes
<1>1. /\ bd \in BodyShape /\ bd # None /\ top \in FrameShape
  BY DEF FrameGood
<1>2. /\ top.input \in Exprs \cup {None} /\ top.map \in Refs \cup {None}
      /\ top.xmeans \in Exprs /\ top.means \in Refs /\ top.dir \in Dirs
  BY <1>1 DEF FrameShape
<1>3. /\ c.arg \in Exprs \cup {None} /\ c.provider \in Refs \cup {None}
      /\ c.each.count \in Exprs \cup {None} /\ c.each.for_each \in Exprs \cup {None}
      /\ bd.bound \in Values \cup {None}
  BY <1>0, <1>1, BodyParts
<1>4. b2[d].bound \in Values \cup {None}
  BY BodyParts
<1>5. CallKeys(bd, c) \in Seq(InstKeys)
  <2>1. \A e \in Exprs \cup {None} : ReducedOr(bd, e) \in Exprs \cup {None}
    BY <1>1, <1>2, ExprShape DEF ReducedOr
  <2>2. CallCount(bd, c) \in Exprs \cup {None} /\ CallForEach(bd, c) \in Exprs \cup {None}
    BY <1>3, <2>1 DEF CallCount, CallForEach
  <2> QED  BY <2>2, InstancesShape DEF CallKeys
<1>6. input \in Exprs \cup {None} /\ map \in Refs \cup {None} /\ means \in Refs
  <2>1. input \in Exprs \cup {None}
    BY <1>1, <1>2, <1>3, ExprShape
  <2> QED  BY <1>2, <1>3, <2>1 DEF EffectiveProvider
<1>7. /\ c.arg = VarX => xmeans = top.xmeans
      /\ c.arg = None => xmeans = IF b2[d].bound # None THEN b2[d].bound ELSE VarX
      /\ c.arg # VarX /\ c.arg # None => xmeans = c.arg
  BY NamesDistinct DEF Exprs
<1> HIDE DEF xmeans
<1>8. xmeans \in Exprs
  BY <1>2, <1>3, <1>4, <1>7 DEF Exprs
<1>9. f = [dir |-> d, path |-> path, insts |-> CallKeys(bd, c), begun |-> FALSE,
           next |-> 1, input |-> input, map |-> map, passes |-> passes,
           xmeans |-> xmeans, means |-> means]
  BY DEF CallFrame, xmeans
<1>10. Unbound(b2) => Unbound(b)
  BY UnboundShrinks
<1>11. Unbound(b2) => xmeans = IF input = None THEN VarX ELSE input
  <2> SUFFICES ASSUME Unbound(b2) PROVE xmeans = IF input = None THEN VarX ELSE input
    OBVIOUS
  <2>1. Unbound(b) /\ b2[d].bound = None
    BY <1>10 DEF Unbound
  <2>2. CASE c.arg = None
    BY <1>7, <2>1, <2>2
  <2>3. CASE c.arg \in Values
    <3>1. c.arg \in Exprs /\ c.arg # VarX /\ c.arg # None
      BY <2>3, NamesDistinct DEF Exprs
    <3>2. input = c.arg
      BY <1>1, <1>2, <3>1, ExprShape
    <3> QED  BY <1>7, <3>1, <3>2
  <2>4. CASE c.arg = VarX
    <3>1. VarX \in Exprs /\ VarX # None
      BY NamesDistinct DEF Exprs
    <3>2. input = Substitute(Reduced(bd, VarX), top.input) /\ xmeans = top.xmeans
      BY <1>7, <2>4, <3>1
    <3>3. CASE top.dir = Component
      <4>1. top.input = None /\ top.xmeans = Reduced(bd, VarX)
        BY <3>3 DEF FrameGood
      <4>2. input = Reduced(bd, VarX)
        BY <3>2, <4>1 DEF Substitute
      <4>3. input # None
        <5>1. Reduced(bd, VarX) \in Exprs
          BY <1>1, <1>2, <3>1, ExprShape
        <5> QED  BY <4>2, <5>1, NamesDistinct DEF Exprs
      <4> QED  BY <3>2, <4>1, <4>2, <4>3
    <3>4. CASE top.dir \in Modules
      <4>1. bd.bound = None /\ top.xmeans = IF top.input = None THEN VarX ELSE top.input
        BY <1>1, <2>1, <3>4, Zenon DEF FrameGood, Unbound
      <4>2. Reduced(bd, VarX) = VarX
        BY <4>1 DEF Reduced
      <4>3. input = IF top.input = None THEN VarX ELSE top.input
        BY <3>2, <4>2 DEF Substitute
      <4> QED  BY <3>1, <3>2, <4>1, <4>3
    <3> QED  BY <1>2, <3>3, <3>4 DEF Dirs
  <2> QED  BY <1>3, <2>2, <2>3, <2>4 DEF Exprs
<1>12. passes \in Passes /\ ComesOut(passes, Default(map), means)
  <2>1. top.passes \in Passes /\ ComesOut(top.passes, Default(top.map), top.means)
    BY <1>1 DEF FrameGood, FrameShape
  <2> QED  BY <1>2, <1>3, <2>1, PassesAppended
<1> HIDE DEF f, map, input, means, passes
<1>13. /\ f \in FrameShape /\ f.dir = d /\ f.path = path /\ ~f.begun
       /\ f.insts = CallKeys(bd, c) /\ f.input = input /\ f.map = map
       /\ f.passes = passes /\ f.xmeans = xmeans /\ f.means = means
  BY <1>5, <1>6, <1>8, <1>9, <1>12 DEF FrameShape, Dirs
<1>14. d # Component
  BY NamesDistinct
<1>15. FrameGood(b2, f)
  BY <1>11, <1>12, <1>13, <1>14 DEF FrameGood
<1> QED  BY <1>13, <1>15 DEF f, map

\* A call is made.
LEMMA EnterCallStep == ASSUME ExpansionInv, EnterCall PROVE ExpansionInv'
<1>1. ShapeInv /\ FramesInv /\ LinkInv
  BY DEF ExpansionInv
<1>2. PICK n, top, c, k : n = Len(frames) /\ top = Top /\ c = ThisCall /\ k = Top.next
  OBVIOUS
<1>3. AtCall /\ c.source \in Modules
  BY <1>2 DEF EnterCall
<1>4. /\ phase = "flatten" /\ frames # << >> /\ n \in Nat \ {0} /\ n \in 1..n
      /\ top \in FrameShape /\ top.begun /\ FrameGood(body, top)
      /\ body[top.dir] \in BodyShape /\ k \in 1..Len(body[top.dir].calls)
      /\ c = body[top.dir].calls[k] /\ k = top.next
      /\ Site = At(top.path, k, NoKey)
  BY <1>2, <1>3, CallFacts DEF ThisCall
<1>5. PICK fs : fs = Advance
  OBVIOUS
<1>6. /\ fs \in Seq(FrameShape) /\ Len(fs) = n
      /\ \A i \in 1..n : i # n => fs[i] = frames[i]
      /\ \A i \in 1..n : FrameGood(body, fs[i])
      /\ fs[n].next = k + 1 /\ fs[n].dir = top.dir /\ fs[n].path = top.path
      /\ fs[n].insts = top.insts /\ fs[n].begun = top.begun
  BY <1>2, <1>3, <1>5, AdvanceFacts
<1>7. /\ Grows(body, body') /\ body' \in [Dirs -> BodyShape \cup {None}]
      /\ body'[c.source] \in BodyShape \ {None} /\ body'[Component] # None
  <2>1. c.source \in Dirs
    BY <1>3 DEF Dirs
  <2>2. PICK new \in IF body[c.source] = None THEN Bodies[c.source] ELSE {body[c.source]} :
          body' = [body EXCEPT ![c.source] = new]
    BY <1>2 DEF EnterCall
  <2>3. new \in BodyShape \ {None} /\ (body[c.source] # None => new = body[c.source])
    BY <1>1, <2>1, <2>2, NoneIsNoBody DEF ShapeInv
  <2> QED  BY <1>1, <2>1, <2>2, <2>3 DEF ShapeInv, Grows, Dirs
<1>8. Site \in Segments
  <2>1. top.path \in Segments /\ <<k, NoKey>> \in Nat \X (Nat \cup Keys \cup {NoKey})
    BY <1>4 DEF FrameShape
  <2> QED  BY <1>2, <2>1 DEF Site, Segments
<1>9. PICK f :
        /\ frames' = Append(fs, f)
        /\ FrameGood(body', f) /\ f.dir = c.source /\ f.path = Site /\ ~f.begun
        /\ f.insts = CallKeys(body[top.dir], c)
  <2>1. frames' = Append(fs, CallFrame(top, body[top.dir], body'[c.source], c, Site))
    BY <1>1, <1>2, <1>3, <1>5 DEF EnterCall, ShapeInv, Dirs
  <2>2. PICK p, b, b2 : p = Site /\ b = body /\ b2 = body'
    OBVIOUS
  <2>3. LET g == CallFrame(top, b[top.dir], b2[c.source], c, p)
        IN  /\ FrameGood(b2, g) /\ g.dir = c.source /\ g.path = p /\ ~g.begun
            /\ g.insts = CallKeys(b[top.dir], c)
    <3>1. Makes(b, b2, top, c) /\ p \in Segments
      BY <1>3, <1>4, <1>7, <1>8, <2>2 DEF Makes
    <3> QED  BY <3>1, CallFrameGood
  <2> QED  BY <2>1, <2>2, <2>3
<1>10. /\ frames' \in Seq(FrameShape) /\ Len(frames') = n + 1
       /\ \A i \in 1..n : frames'[i] = fs[i]
       /\ frames'[n + 1] = f
  <2>1. f \in FrameShape
    BY <1>9 DEF FrameGood
  <2> QED  BY <1>6, <1>9, <2>1, AppendProperties
<1>11. \A i \in 1..(n + 1) : i \in 1..n \/ i = n + 1
  BY <1>4
<1>12. diags \subseteq diags' /\ UNCHANGED <<phase, flat, turn, combined, rows, expanded>>
  BY DEF EnterCall, Report
<1>13. RowsInv' /\ DropInv' /\ TurnInv' /\ AddressesUnique'
  BY <1>7, <1>12, RowsKept
<1>14. ShapeInv'
  <2>1. frames' # << >> /\ 1 \in 1..n
    BY <1>4, <1>10, EmptySeq
  <2>2. frames'[1].dir = Component /\ frames'[1].path = << >> /\ frames'[1].begun
    <3>1. frames[1].dir = Component /\ frames[1].path = << >> /\ frames[1].begun
      BY <1>1, <1>4 DEF ShapeInv
    <3> QED  BY <1>2, <1>6, <1>10, <2>1, <3>1 DEF Top
  <2>3. \A e \in expanded : e = <<e[1], e[2]>> /\ e[2] \in Modules /\ body'[e[2]] # None
    BY <1>1, <1>7 DEF ShapeInv, Grows, Dirs
  <2> QED  BY <1>1, <1>4, <1>7, <1>10, <1>12, <2>1, <2>2, <2>3 DEF ShapeInv
<1>15. FramesInv'
  <2>1. \A i \in 1..n : FrameGood(body', fs[i])
    BY <1>1, <1>6, <1>7, GoodStays DEF ShapeInv, Dirs
  <2> QED  BY <1>9, <1>10, <1>11, <2>1 DEF FramesInv
<1>16. LinkInv'
  <2> SUFFICES ASSUME NEW i \in 1..n
               PROVE  Link(body', expanded, frames'[i], frames'[i + 1])
    <3>1. (n + 1) - 1 = n
      BY <1>4
    <3> QED  BY <1>10, <1>12, <3>1 DEF LinkInv
  <2>1. CASE i # n
    <3>1. i \in 1..(n - 1) /\ i + 1 \in 1..n
      BY <1>4, <2>1
    <3>2. Link(body, expanded, frames[i], frames[i + 1])
      BY <1>1, <1>2, <3>1 DEF LinkInv
    <3>3. Link(body, expanded, frames[i], fs[i + 1])
      <4>1. CASE i + 1 = n
        BY <1>2, <1>6, <3>2, <4>1, LinkLooksAt DEF Top
      <4>2. CASE i + 1 # n
        BY <1>6, <3>1, <3>2, <4>2
      <4> QED  BY <4>1, <4>2
    <3>4. body'[frames[i].dir] = body[frames[i].dir]
      BY <1>1, <1>2, <1>7 DEF FramesInv, FrameGood, FrameShape, Grows
    <3>5. Link(body', expanded, frames[i], fs[i + 1])
      BY <3>3, <3>4, LinkStays
    <3> QED  BY <1>6, <1>10, <2>1, <3>1, <3>5
  <2>2. CASE i = n
    <3>1. frames'[i] = fs[n] /\ frames'[i + 1] = f
      BY <1>4, <1>10, <2>2
    <3>2. fs[n].next - 1 = k
      BY <1>4, <1>6
    <3>3. body'[top.dir] = body[top.dir]
      BY <1>4, <1>7 DEF FrameGood, FrameShape, Grows
    <3>4. f.path = At(fs[n].path, k, NoKey) /\ NoKey \in InstKeys
      BY <1>4, <1>6, <1>9 DEF InstKeys
    <3>5. Link(body', expanded, fs[n], f)
      BY <1>3, <1>4, <1>6, <1>9, <3>2, <3>3, <3>4 DEF Link
    <3> QED  BY <3>1, <3>5
  <2> QED  BY <2>1, <2>2
<1>17. CallsInv'
  <2> SUFFICES ASSUME NEW p, NEW d, NEW m \in 1..Len(body[d].calls), Working(frames, p, d, m)
               PROVE  Working(frames', p, d, m)
    BY <1>7, <1>12, CallsKept
  <2>1. PICK i \in 1..n :
          /\ frames[i].begun /\ frames[i].path = p /\ frames[i].dir = d
          /\ m >= frames[i].next \/ (m = frames[i].next - 1 /\ i < n)
    BY <1>2 DEF Working
  <2>2. i \in 1..(n + 1) /\ i < n + 1
    BY <1>4
  <2>3. CASE i # n
    BY <1>4, <1>6, <1>10, <2>1, <2>2, <2>3 DEF Working
  <2>4. CASE i = n
    <3>1. frames[i] = top /\ m >= k
      BY <1>2, <1>4, <2>1, <2>4 DEF Top
    <3>2. k \in Nat /\ m \in Int
      BY <1>4
    <3>3. m >= k + 1 \/ m = (k + 1) - 1
      BY <3>1, <3>2
    <3> QED  BY <1>6, <1>10, <2>1, <2>2, <2>4, <3>1, <3>3 DEF Working
  <2> QED  BY <2>3, <2>4
<1> QED  BY <1>13, <1>14, <1>15, <1>16, <1>17 DEF ExpansionInv

-----------------------------------------------------------------------------
(* The instances of a call.                                                 *)

\* Another index in the last segment of a path.
LEMMA Reindexed ==
  ASSUME NEW s \in Segments, NEW q \in Nat, NEW x \in InstKeys, NEW h \in InstKeys,
         NEW p, p = At(s, q, x)
  PROVE  /\ Indexed(p, h) = At(s, q, h)
         /\ At(s, q, h) \in Segments
<1> DEFINE Seg == Nat \X InstKeys
           n == Len(s) + 1
           t == At(s, q, h)
           u == [p EXCEPT ![Len(p)] = <<q, h>>]
<1>1. s \in Seq(Seg) /\ <<q, x>> \in Seg /\ <<q, h>> \in Seg /\ Len(s) \in Nat
  BY DEF Segments, InstKeys
<1> HIDE DEF Seg
<1>2. /\ p \in Seq(Seg) /\ Len(p) = n /\ p[n] = <<q, x>>
      /\ \A i \in 1..Len(s) : p[i] = s[i]
  BY <1>1, AppendProperties DEF At
<1>3. /\ t \in Seq(Seg) /\ Len(t) = n /\ t[n] = <<q, h>>
      /\ \A i \in 1..Len(s) : t[i] = s[i]
  BY <1>1, AppendProperties DEF At
<1> HIDE DEF t
<1>4. n \in 1..n /\ \A i \in 1..n : i \in 1..Len(s) \/ i = n
  BY <1>1
<1>5. /\ u \in Seq(Seg) /\ Len(u) = n
      /\ \A i \in 1..n : u[i] = IF i = n THEN <<q, h>> ELSE p[i]
  BY <1>1, <1>2, <1>4, ExceptSeq
<1>6. Indexed(p, h) = u
  <2>1. [p[n] EXCEPT ![2] = h] = <<q, h>>
    BY <1>2
  <2> QED  BY <1>2, <2>1 DEF Indexed
<1> HIDE DEF u
<1>7. \A i \in 1..n : u[i] = t[i]
  BY <1>2, <1>3, <1>4, <1>5
<1>8. u = t
  BY <1>3, <1>5, <1>7, SeqEqual
<1>9. t \in Segments
  BY <1>3 DEF Segments, Seg, InstKeys
<1> QED  BY <1>6, <1>8, <1>9 DEF t

\* The innermost frame, of a call, and the frame that made it.
LEMMA InnerFacts ==
  ASSUME ExpansionInv, phase = "flatten", Len(frames) # 1, NEW n, n = Len(frames)
  PROVE  /\ n \in Nat \ {0, 1} /\ n \in 1..n /\ n - 1 \in 1..n /\ n - 1 \in 1..(n - 1)
         /\ n - 1 # n /\ (n - 1) + 1 = n
         /\ frames[n] = Top /\ FrameGood(body, Top) /\ FrameGood(body, frames[n - 1])
         /\ Link(body, expanded, frames[n - 1], Top)
         /\ Top.dir \in Modules
<1>1. frames \in Seq(FrameShape) /\ frames # << >>
  BY DEF ExpansionInv, ShapeInv
<1>2. n \in Nat \ {0, 1}
  BY <1>1, EmptySeq
<1>3. /\ n \in 1..n /\ n - 1 \in 1..n /\ n - 1 \in 1..(n - 1) /\ n - 1 # n
      /\ (n - 1) + 1 = n
  BY <1>2
<1>4. frames[n] = Top
  BY DEF Top
<1>5. FrameGood(body, Top) /\ FrameGood(body, frames[n - 1])
  BY <1>3, <1>4 DEF ExpansionInv, FramesInv
<1>6. Link(body, expanded, frames[n - 1], Top)
  BY <1>3, <1>4 DEF ExpansionInv, LinkInv
<1>7. Top.dir \in Modules
  BY <1>6 DEF Link
<1> QED  BY <1>2, <1>3, <1>4, <1>5, <1>6, <1>7

\* The frames fs have the good frame f2 for the innermost one.
Replaces(f2, fs, ex) ==
  /\ FrameGood(body, f2)
  /\ fs = [frames EXCEPT ![Len(frames)] = f2]
  /\ expanded \subseteq ex
  /\ Link(body, ex, frames[Len(frames) - 1], f2)

\* The innermost frame is replaced.
LEMMA TopReplaced ==
  ASSUME ExpansionInv, phase = "flatten", Len(frames) # 1, NEW n, n = Len(frames),
         NEW f2, NEW fs, NEW ex, Replaces(f2, fs, ex)
  PROVE  /\ fs \in Seq(FrameShape) /\ Len(fs) = n /\ fs # << >>
         /\ \A i \in 1..n : fs[i] = IF i = n THEN f2 ELSE frames[i]
         /\ fs[1].dir = Component /\ fs[1].path = << >> /\ fs[1].begun
         /\ \A i \in 1..n : FrameGood(body, fs[i])
         /\ \A i \in 1..(n - 1) : Link(body, ex, fs[i], fs[i + 1])
<1> /\ FrameGood(body, f2) /\ fs = [frames EXCEPT ![n] = f2]
    /\ expanded \subseteq ex /\ Link(body, ex, frames[n - 1], f2)
  BY DEF Replaces
<1>1. n \in Nat \ {0, 1} /\ n \in 1..n
  BY InnerFacts
<1>2. f2 \in FrameShape
  BY DEF FrameGood
<1>3. frames \in Seq(FrameShape)
  BY DEF ExpansionInv, ShapeInv
<1>4. /\ fs \in Seq(FrameShape) /\ Len(fs) = n
      /\ \A i \in 1..n : fs[i] = IF i = n THEN f2 ELSE frames[i]
  BY <1>1, <1>2, <1>3, ExceptSeq
<1>5. fs # << >> /\ 1 \in 1..n /\ 1 # n
  BY <1>1, <1>4, EmptySeq
<1>6. fs[1].dir = Component /\ fs[1].path = << >> /\ fs[1].begun
  BY <1>4, <1>5 DEF ExpansionInv, ShapeInv
<1>7. \A i \in 1..n : FrameGood(body, fs[i])
  BY <1>4 DEF ExpansionInv, FramesInv
<1>8. ASSUME NEW i \in 1..(n - 1)  PROVE Link(body, ex, fs[i], fs[i + 1])
  <2>1. i \in 1..n /\ i # n /\ i + 1 \in 1..n
    BY <1>1
  <2>2. CASE i + 1 = n
    <3>1. i = n - 1
      BY <1>1, <2>2
    <3> QED  BY <1>4, <2>1, <2>2, <3>1
  <2>3. CASE i + 1 # n
    <3>1. Link(body, expanded, frames[i], frames[i + 1])
      BY DEF ExpansionInv, LinkInv
    <3>2. Link(body, ex, frames[i], frames[i + 1])
      BY <3>1, LinkStays
    <3> QED  BY <1>4, <2>1, <2>3, <3>2
  <2> QED  BY <2>2, <2>3
<1> QED  BY <1>4, <1>5, <1>6, <1>7, <1>8

\* A frame at work in an instance.
LEMMA FrameBegun ==
  ASSUME NEW f \in FrameShape, NEW site \in Segments
  PROVE  LET f2 == Begun(f, site)
         IN  /\ f2 \in FrameShape /\ f2.dir = f.dir /\ f2.path = site /\ f2.begun
             /\ f2.next = 1 /\ f2.insts = f.insts /\ f2.input = f.input
             /\ f2.map = f.map /\ f2.passes = f.passes
             /\ f2.xmeans = f.xmeans /\ f2.means = f.means
<1>1. PICK f1 : f1 = [f EXCEPT !.begun = TRUE]
  OBVIOUS
<1>2. PICK f2 : f2 = [f1 EXCEPT !.next = 1]
  OBVIOUS
<1>3. f1 \in FrameShape
  BY <1>1 DEF FrameShape
<1>4. f2 \in FrameShape
  <2>1. 1 \in Nat \ {0}
    OBVIOUS
  <2> QED  BY <1>2, <1>3, <2>1 DEF FrameShape
<1>5. Begun(f, site) \in FrameShape
  <2>1. [f2 EXCEPT !.path = site] \in FrameShape
    BY <1>4 DEF FrameShape
  <2> QED  BY <1>1, <1>2, <2>1 DEF Begun
<1>6. LET g == Begun(f, site)
      IN  /\ g.dir = f.dir /\ g.path = site /\ g.begun /\ g.next = 1
          /\ g.insts = f.insts /\ g.input = f.input /\ g.map = f.map /\ g.passes = f.passes
          /\ g.xmeans = f.xmeans /\ g.means = f.means
  BY DEF Begun, FrameShape
<1> QED  BY <1>5, <1>6

\* An instance begins: its path, and the frame at work in it.
LEMMA InstanceFrame ==
  ASSUME ExpansionInv, phase = "flatten", Len(frames) # 1, ~Top.begun, Top.insts # << >>,
         NEW g, g = frames[Len(frames) - 1],
         NEW site, site = Indexed(Top.path, Head(Top.insts)),
         NEW f2, f2 = Begun(Top, site)
  PROVE  /\ site \in Segments /\ FrameGood(body, f2) /\ f2.dir = Top.dir
         /\ f2.path = site /\ f2.begun /\ f2.next = 1
         /\ Link(body, expanded \cup {<<site, Top.dir>>}, g, f2)
<1>1. PICK f, h : f = Top /\ h = Head(Top.insts)
  OBVIOUS
<1>2. /\ FrameGood(body, f) /\ FrameGood(body, g) /\ Link(body, expanded, g, f)
  BY <1>1, InnerFacts
<1>3. f \in FrameShape /\ g \in FrameShape
  BY <1>2 DEF FrameGood
<1>4. /\ f.insts \in Seq(InstKeys) /\ f.path \in Segments /\ g.path \in Segments
      /\ g.next \in Nat \ {0}
  BY <1>3 DEF FrameShape
<1>5. h \in InstKeys /\ h = f.insts[1]
  BY <1>1, <1>4, HeadTailProperties
<1> DEFINE q == g.next - 1
           c == body[g.dir].calls[q]
           keys == CallKeys(body[g.dir], c)
           ex == expanded \cup {<<site, f.dir>>}
<1>6. q \in Nat
  BY <1>4
<1> HIDE DEF q
<1>7. PICK x \in InstKeys : f.path = At(g.path, q, x)
  BY <1>2 DEF Link, q
<1>8. site = At(g.path, q, h) /\ site \in Segments
  BY <1>1, <1>4, <1>5, <1>6, <1>7, Reindexed
<1>9. /\ f2 \in FrameShape /\ f2.dir = f.dir /\ f2.path = site /\ f2.begun /\ f2.next = 1
      /\ f2.insts = f.insts /\ f2.input = f.input /\ f2.map = f.map
      /\ f2.passes = f.passes /\ f2.xmeans = f.xmeans /\ f2.means = f.means
  BY <1>1, <1>3, <1>8, FrameBegun
<1>10. FrameGood(body, f2)
  BY <1>1, <1>2, <1>9 DEF FrameGood
<1>11. Link(body, ex, g, f2)
  <2>1. /\ g.begun /\ q \in 1..Len(body[g.dir].calls)
        /\ f2.dir = c.source /\ f2.dir \in Modules
    BY <1>2, <1>9 DEF Link, q
  <2>2. ASSUME NEW j \in 1..Len(keys)
        PROVE  \/ <<At(g.path, q, keys[j]), f2.dir>> \in ex
               \/ \E m \in 1..Len(f2.insts) : f2.insts[m] = keys[j] /\ (f2.begun => m > 1)
    <3>1. \/ <<At(g.path, q, keys[j]), f.dir>> \in expanded
          \/ \E m \in 1..Len(f.insts) : f.insts[m] = keys[j]
      BY <1>2 DEF Link, q
    <3>2. CASE <<At(g.path, q, keys[j]), f.dir>> \in expanded
      BY <1>9, <3>2
    <3>3. ASSUME NEW m \in 1..Len(f.insts), f.insts[m] = keys[j]
          PROVE  \/ <<At(g.path, q, keys[j]), f2.dir>> \in ex
                 \/ \E i \in 1..Len(f2.insts) : f2.insts[i] = keys[j] /\ (f2.begun => i > 1)
      <4>1. CASE m = 1
        BY <1>5, <1>8, <1>9, <3>3, <4>1
      <4>2. CASE m # 1
        <5>1. m > 1
          BY <1>4, <4>2
        <5> QED  BY <1>9, <3>3, <5>1
      <4> QED  BY <4>1, <4>2
    <3> QED  BY <3>1, <3>2, <3>3
  <2>3. \E y \in InstKeys : f2.path = At(g.path, q, y)
    BY <1>5, <1>8, <1>9
  <2> QED  BY <2>1, <2>2, <2>3 DEF Link, q
<1> QED  BY <1>1, <1>8, <1>9, <1>10, <1>11

\* Rows are added to the flattened ones.
LEMMA RowsAdded ==
  ASSUME NEW new \in Seq(RowShape), flat \in Seq(RowShape), flat' = flat \o new,
         UNCHANGED <<combined, rows>>
  PROVE  /\ flat' \in Seq(RowShape)
         /\ AllRows' = AllRows \cup {new[i] : i \in 1..Len(new)}
<1>1. /\ flat' \in Seq(RowShape) /\ Len(flat') = Len(flat) + Len(new)
      /\ \A i \in 1..(Len(flat) + Len(new)) :
           flat'[i] = IF i <= Len(flat) THEN flat[i] ELSE new[i - Len(flat)]
  BY ConcatProperties
<1>2. Len(flat) \in Nat /\ Len(new) \in Nat
  OBVIOUS
<1>3. \A i \in 1..Len(flat') : \/ i \in 1..Len(flat) /\ flat'[i] = flat[i]
                               \/ i - Len(flat) \in 1..Len(new) /\ flat'[i] = new[i - Len(flat)]
  BY <1>1, <1>2
<1>4. \A i \in 1..Len(flat) : i \in 1..Len(flat') /\ flat'[i] = flat[i]
  BY <1>1, <1>2
<1>5. ASSUME NEW i \in 1..Len(new)
      PROVE  i + Len(flat) \in 1..Len(flat') /\ flat'[i + Len(flat)] = new[i]
  <2> DEFINE j == i + Len(flat)
  <2>1. j \in 1..Len(flat') /\ ~(j <= Len(flat)) /\ j - Len(flat) = i
    BY <1>1, <1>2
  <2> QED  BY <1>1, <1>2, <2>1
<1> DEFINE A == {flat'[i] : i \in 1..Len(flat')}
           B == {flat[i] : i \in 1..Len(flat)}
           C == {new[i] : i \in 1..Len(new)}
<1>6. A \subseteq B \cup C
  BY <1>3
<1>7. B \subseteq A
  BY <1>4
<1>8. C \subseteq A
  BY <1>5
<1> HIDE DEF A, B, C
<1>9. A = B \cup C
  BY <1>6, <1>7, <1>8
<1> QED  BY <1>1, <1>9 DEF AllRows, A, B, C

\* The rows of an instance.
LEMMA InstanceRows ==
  ASSUME ExpansionInv, NEW f, FrameGood(body, f), NEW site \in Segments,
         NEW m, m \in {0, Len(body[f.dir].res)}, NEW new,
         new = [k \in 1..m |-> Row(site, f, k)]
  PROVE  /\ new \in Seq(RowShape) /\ Len(new) = m
         /\ \A k \in 1..m : /\ RowGood(body, new[k]) /\ new[k].path = site
                            /\ new[k].dir = f.dir /\ new[k].res = k
<1>1. m \in Nat
  BY BodyParts DEF FrameGood
<1>2. \A k \in 1..m : k \in 1..Len(body[f.dir].res)
  <2>1. \A k \in 1..0 : FALSE
    OBVIOUS
  <2> QED  BY <2>1
<1>3. \A k \in 1..m : /\ RowGood(body, new[k]) /\ new[k].path = site
                      /\ new[k].dir = f.dir /\ new[k].res = k
  <2> SUFFICES ASSUME NEW k \in 1..m
               PROVE  /\ RowGood(body, new[k]) /\ new[k].path = site
                      /\ new[k].dir = f.dir /\ new[k].res = k
    OBVIOUS
  <2>1. PICK r : r = Row(site, f, k)
    OBVIOUS
  <2>2. RowGood(body, r) /\ r.path = site /\ r.dir = f.dir /\ r.res = k
    BY <1>2, <2>1, RowMade
  <2>3. new[k] = r
    BY <2>1
  <2> QED  BY <2>2, <2>3
<1>4. \A k \in 1..m : new[k] \in RowShape
  BY <1>3 DEF RowGood
<1>5. new \in [1..m -> RowShape]
  BY <1>4
<1>6. new \in Seq(RowShape) /\ Len(new) = m
  BY <1>1, <1>5
<1> QED  BY <1>3, <1>6

\* An instance of a call begins.
LEMMA BeginInstanceStep == ASSUME ExpansionInv, BeginInstance PROVE ExpansionInv'
<1>1. ShapeInv /\ CallsInv /\ RowsInv /\ DropInv /\ AddressesUnique
  BY DEF ExpansionInv
<1>2. PICK n, f, site, f2, m :
        /\ n = Len(frames) /\ f = Top /\ site = Indexed(f.path, Head(f.insts))
        /\ f2 = Begun(f, site)
        /\ m = IF Valid(site) THEN Len(body[f.dir].res) ELSE 0
  OBVIOUS
<1>3. /\ phase = "flatten" /\ ~f.begun /\ f.insts # << >>
      /\ frames' = [frames EXCEPT ![n] = f2]
      /\ expanded' = expanded \cup {<<site, f.dir>>}
      /\ flat' = flat \o [k \in 1..m |-> Row(site, f, k)]
      /\ diags' = IF Valid(site) \/ Len(body[f.dir].res) = 0 THEN diags
                  ELSE diags \cup {<<"TF1507", site>>}
      /\ UNCHANGED <<body, phase, turn, combined, rows>>
  BY <1>2 DEF BeginInstance
<1>4. Len(frames) # 1
  <2>1. frames[1].begun
    BY <1>1, <1>3 DEF ShapeInv
  <2> QED  BY <1>2, <1>3, <2>1 DEF Top
<1>5. /\ n \in Nat \ {0, 1} /\ n \in 1..n /\ frames[n] = f
      /\ FrameGood(body, f) /\ f.dir \in Modules
  BY <1>2, <1>3, <1>4, InnerFacts
<1>6. /\ site \in Segments /\ FrameGood(body, f2) /\ f2.dir = f.dir
      /\ f2.path = site /\ f2.begun /\ f2.next = 1
      /\ Link(body, expanded', frames[n - 1], f2)
  BY <1>2, <1>3, <1>4, InstanceFrame
<1>7. /\ frames' \in Seq(FrameShape) /\ Len(frames') = n /\ frames' # << >>
      /\ \A i \in 1..n : frames'[i] = IF i = n THEN f2 ELSE frames[i]
      /\ frames'[1].dir = Component /\ frames'[1].path = << >> /\ frames'[1].begun
      /\ \A i \in 1..n : FrameGood(body, frames'[i])
      /\ \A i \in 1..(n - 1) : Link(body, expanded', frames'[i], frames'[i + 1])
  <2>1. PICK fs, ex : fs = frames' /\ ex = expanded'
    OBVIOUS
  <2>2. Replaces(f2, fs, ex)
    BY <1>2, <1>3, <1>6, <2>1 DEF Replaces
  <2>3. /\ fs \in Seq(FrameShape) /\ Len(fs) = n /\ fs # << >>
        /\ \A i \in 1..n : fs[i] = IF i = n THEN f2 ELSE frames[i]
        /\ fs[1].dir = Component /\ fs[1].path = << >> /\ fs[1].begun
        /\ \A i \in 1..n : FrameGood(body, fs[i])
        /\ \A i \in 1..(n - 1) : Link(body, ex, fs[i], fs[i + 1])
    <3>1. phase = "flatten" /\ Len(frames) # 1 /\ n = Len(frames)
      BY <1>2, <1>3, <1>4
    <3> QED  BY <2>2, <3>1, TopReplaced
  <2> QED  BY <2>1, <2>3
<1>8. PICK new : new = [k \in 1..m |-> Row(site, f, k)]
  OBVIOUS
<1>9. /\ new \in Seq(RowShape) /\ Len(new) = m
      /\ \A k \in 1..m : /\ RowGood(body, new[k]) /\ new[k].path = site
                         /\ new[k].dir = f.dir /\ new[k].res = k
  <2>1. FrameGood(body, f) /\ site \in Segments
    BY <1>5, <1>6
  <2>2. m \in {0, Len(body[f.dir].res)}
    BY <1>2
  <2> QED  BY <1>8, <2>1, <2>2, InstanceRows
<1>10. /\ flat' \in Seq(RowShape)
       /\ AllRows' = AllRows \cup {new[k] : k \in 1..m}
  BY <1>1, <1>3, <1>8, <1>9, RowsAdded DEF ShapeInv
<1>11. body[f.dir] # None
  BY <1>5 DEF FrameGood
<1>12. ShapeInv'
  <2>1. \A e \in expanded' : e = <<e[1], e[2]>> /\ e[2] \in Modules /\ body[e[2]] # None
    BY <1>1, <1>3, <1>5, <1>11 DEF ShapeInv
  <2> QED  BY <1>1, <1>3, <1>7, <1>10, <2>1 DEF ShapeInv
<1>13. FramesInv' /\ LinkInv'
  BY <1>3, <1>7 DEF FramesInv, LinkInv
<1>14. RowsInv'
  BY <1>1, <1>3, <1>9, <1>10 DEF RowsInv
<1>15. CallsInv'
  <2> SUFFICES ASSUME NEW e \in expanded' \cup {<<<< >>, Component>>},
                      NEW k \in 1..Len(body[e[2]].calls)
               PROVE  \/ Answered(body, diags', expanded', e[1], e[2], k)
                      \/ Working(frames', e[1], e[2], k)
    BY <1>3 DEF CallsInv
  <2>1. CASE e \in expanded \cup {<<<< >>, Component>>}
    <3>1. \/ Answered(body, diags, expanded, e[1], e[2], k)
          \/ Working(frames, e[1], e[2], k)
      BY <1>1, <2>1 DEF CallsInv
    <3>2. CASE Answered(body, diags, expanded, e[1], e[2], k)
      <4>1. diags \subseteq diags' /\ expanded \subseteq expanded'
        BY <1>3
      <4> QED  BY <3>2, <4>1, AnsweredStays
    <3>3. CASE Working(frames, e[1], e[2], k)
      <4>1. PICK i \in 1..n :
              /\ frames[i].begun /\ frames[i].path = e[1] /\ frames[i].dir = e[2]
              /\ k >= frames[i].next \/ (k = frames[i].next - 1 /\ i < n)
        BY <1>2, <3>3 DEF Working
      <4>2. i # n
        BY <1>3, <1>5, <4>1
      <4>3. frames'[i] = frames[i]
        BY <1>7, <4>2
      <4> QED  BY <1>7, <4>1, <4>3 DEF Working
    <3> QED  BY <3>1, <3>2, <3>3
  <2>2. CASE e = <<site, f.dir>>
    <3>1. k >= f2.next
      BY <1>6
    <3>2. frames'[n] = f2
      BY <1>5, <1>7
    <3> QED  BY <1>5, <1>6, <1>7, <2>2, <3>1, <3>2 DEF Working
  <2> QED  BY <1>3, <2>1, <2>2
<1>16. DropInv'
  <2> SUFFICES ASSUME NEW e \in expanded', NEW k \in 1..Len(body[e[2]].res)
               PROVE  HasRow(body, diags', AllRows', e, k)
    BY <1>3 DEF DropInv
  <2>1. CASE e \in expanded
    <3>1. HasRow(body, diags, AllRows, e, k)
      BY <1>1, <2>1 DEF DropInv
    <3>2. diags \subseteq diags' /\ AllRows \subseteq AllRows'
      BY <1>3, <1>10
    <3> QED  BY <3>1, <3>2 DEF HasRow
  <2>2. CASE e = <<site, f.dir>>
    <3>1. CASE Valid(site)
      <4>1. new[k] \in AllRows' /\ new[k].path = site /\ new[k].dir = f.dir /\ new[k].res = k
        BY <1>2, <1>9, <1>10, <2>2, <3>1
      <4> QED  BY <2>2, <4>1 DEF HasRow
    <3>2. CASE ~Valid(site)
      <4>1. Len(body[f.dir].res) # 0
        BY <2>2
      <4> QED  BY <1>3, <2>2, <3>2, <4>1 DEF HasRow
    <3> QED  BY <3>1, <3>2
  <2> QED  BY <1>3, <2>1, <2>2
<1>17. TurnInv'
  <2>1. ~(turn' > 1)
    BY <1>1, <1>3 DEF ShapeInv
  <2> QED  BY <2>1 DEF TurnInv
<1>18. AddressesUnique'
  BY <1>1, <1>3 DEF AddressesUnique, Address
<1> QED  BY <1>12, <1>13, <1>14, <1>15, <1>16, <1>17, <1>18 DEF ExpansionInv

\* A frame at the end of an instance.
LEMMA FrameEnded ==
  ASSUME NEW f \in FrameShape, f.insts # << >>
  PROVE  LET f2 == Ended(f)
         IN  /\ f2 \in FrameShape /\ f2.dir = f.dir /\ f2.path = f.path /\ ~f2.begun
             /\ f2.next = f.next /\ f2.insts = Tail(f.insts) /\ f2.input = f.input
             /\ f2.map = f.map /\ f2.passes = f.passes
             /\ f2.xmeans = f.xmeans /\ f2.means = f.means
<1>1. PICK f1, t : f1 = [f EXCEPT !.begun = FALSE] /\ t = Tail(f.insts)
  OBVIOUS
<1>2. f1 \in FrameShape /\ f1.insts = f.insts
  BY <1>1 DEF FrameShape
<1>3. t \in Seq(InstKeys)
  <2>1. f.insts \in Seq(InstKeys)
    BY DEF FrameShape
  <2> QED  BY <1>1, <2>1, HeadTailProperties
<1>4. [f1 EXCEPT !.insts = t] \in FrameShape
  BY <1>2, <1>3 DEF FrameShape
<1>5. Ended(f) = [f1 EXCEPT !.insts = t]
  BY <1>1, <1>2 DEF Ended
<1>6. LET g == [f1 EXCEPT !.insts = t]
      IN  /\ g.dir = f.dir /\ g.path = f.path /\ ~g.begun /\ g.next = f.next
          /\ g.insts = t /\ g.input = f.input /\ g.map = f.map /\ g.passes = f.passes
          /\ g.xmeans = f.xmeans /\ g.means = f.means
  BY <1>1 DEF FrameShape
<1> QED  BY <1>1, <1>4, <1>5, <1>6

\* The frame's turn ends: what was to come after this instance still is.
LEMMA EndedLink ==
  ASSUME NEW g, NEW f, FrameGood(body, f), f.begun, Link(body, expanded, g, f),
         NEW f2, f2 = Ended(f)
  PROVE  FrameGood(body, f2) /\ Link(body, expanded, g, f2)
<1>1. f \in FrameShape /\ f.insts # << >>
  BY DEF FrameGood
<1>2. /\ f2 \in FrameShape /\ f2.dir = f.dir /\ f2.path = f.path /\ ~f2.begun
      /\ f2.next = f.next /\ f2.insts = Tail(f.insts) /\ f2.input = f.input
      /\ f2.map = f.map /\ f2.passes = f.passes
      /\ f2.xmeans = f.xmeans /\ f2.means = f.means
  BY <1>1, FrameEnded
<1>3. FrameGood(body, f2)
  BY <1>2 DEF FrameGood
<1>4. f.insts \in Seq(InstKeys)
  BY <1>1 DEF FrameShape
<1>5. /\ Len(f2.insts) = Len(f.insts) - 1 /\ Len(f.insts) \in Nat
      /\ \A i \in 1..Len(f2.insts) : f2.insts[i] = f.insts[i + 1]
  BY <1>1, <1>2, <1>4, HeadTailProperties
<1>6. ASSUME NEW m \in 1..Len(f.insts), m > 1
      PROVE  m - 1 \in 1..Len(f2.insts) /\ f2.insts[m - 1] = f.insts[m]
  <2>1. m - 1 \in 1..Len(f2.insts) /\ (m - 1) + 1 = m
    BY <1>5, <1>6
  <2> QED  BY <1>5, <2>1
<1>7. Link(body, expanded, g, f2)
  <2> DEFINE q == g.next - 1
             c == body[g.dir].calls[q]
             keys == CallKeys(body[g.dir], c)
  <2>1. /\ g.begun /\ q \in 1..Len(body[g.dir].calls)
        /\ f2.dir = c.source /\ f2.dir \in Modules
        /\ \E x \in InstKeys : f2.path = At(g.path, q, x)
    BY <1>2 DEF Link
  <2>2. ASSUME NEW j \in 1..Len(keys)
        PROVE  \/ <<At(g.path, q, keys[j]), f2.dir>> \in expanded
               \/ \E m \in 1..Len(f2.insts) : f2.insts[m] = keys[j]
    <3>1. \/ <<At(g.path, q, keys[j]), f.dir>> \in expanded
          \/ \E m \in 1..Len(f.insts) : f.insts[m] = keys[j] /\ m > 1
      BY DEF Link
    <3> QED  BY <1>2, <1>6, <3>1
  <2> QED  BY <1>2, <2>1, <2>2 DEF Link
<1> QED  BY <1>3, <1>7

\* An instance of a call ends.
LEMMA EndInstanceStep == ASSUME ExpansionInv, EndInstance PROVE ExpansionInv'
<1>1. ShapeInv
  BY DEF ExpansionInv
<1>2. PICK n, f, f2, fs, ex :
        n = Len(frames) /\ f = Top /\ f2 = Ended(f) /\ fs = frames' /\ ex = expanded
  OBVIOUS
<1>3. /\ phase = "flatten" /\ n > 1 /\ f.begun /\ f.next > Len(body[f.dir].calls)
      /\ fs = [frames EXCEPT ![n] = f2] /\ Len(frames) # 1
      /\ UNCHANGED <<body, phase, flat, turn, combined, rows, diags, expanded>>
  BY <1>2 DEF EndInstance
<1>4. /\ n \in Nat \ {0, 1} /\ n \in 1..n /\ frames[n] = f /\ FrameGood(body, f)
      /\ Link(body, expanded, frames[n - 1], f)
  BY <1>2, <1>3, InnerFacts
<1>5. FrameGood(body, f2) /\ Link(body, expanded, frames[n - 1], f2)
  BY <1>2, <1>3, <1>4, EndedLink
<1>6. Replaces(f2, fs, ex)
  BY <1>2, <1>3, <1>5 DEF Replaces
<1>7. /\ fs \in Seq(FrameShape) /\ Len(fs) = n /\ fs # << >>
      /\ \A i \in 1..n : fs[i] = IF i = n THEN f2 ELSE frames[i]
      /\ fs[1].dir = Component /\ fs[1].path = << >> /\ fs[1].begun
      /\ \A i \in 1..n : FrameGood(body, fs[i])
      /\ \A i \in 1..(n - 1) : Link(body, ex, fs[i], fs[i + 1])
  <2>1. phase = "flatten" /\ Len(frames) # 1 /\ n = Len(frames)
    BY <1>2, <1>3
  <2> QED  BY <1>6, <2>1, TopReplaced
<1>8. Grows(body, body')
  BY <1>3 DEF Grows
<1>9. RowsInv' /\ DropInv' /\ TurnInv' /\ AddressesUnique'
  BY <1>3, <1>8, RowsKept
<1>10. ShapeInv'
  BY <1>1, <1>2, <1>3, <1>7 DEF ShapeInv
<1>11. FramesInv' /\ LinkInv'
  BY <1>2, <1>3, <1>7 DEF FramesInv, LinkInv
<1>12. CallsInv'
  <2> SUFFICES ASSUME NEW p, NEW d, NEW m \in 1..Len(body[d].calls), Working(frames, p, d, m)
               PROVE  Working(frames', p, d, m)
    BY <1>3, <1>8, CallsKept
  <2>1. PICK i \in 1..n :
          /\ frames[i].begun /\ frames[i].path = p /\ frames[i].dir = d
          /\ m >= frames[i].next \/ (m = frames[i].next - 1 /\ i < n)
    BY <1>2 DEF Working
  <2>2. CASE i # n
    BY <1>2, <1>7, <2>1, <2>2 DEF Working
  <2>3. CASE i = n
    <3>1. m >= f.next /\ d = f.dir /\ m <= Len(body[f.dir].calls)
      BY <1>4, <2>1, <2>3
    <3>2. f.next \in Nat /\ Len(body[f.dir].calls) \in Nat
      BY <1>4, BodyParts DEF FrameGood, FrameShape
    <3> QED  BY <1>3, <3>1, <3>2
  <2> QED  BY <2>2, <2>3
<1> QED  BY <1>9, <1>10, <1>11, <1>12 DEF ExpansionInv

\* A call has run through its instances: all of them were expanded.
LEMMA EndCallStep == ASSUME ExpansionInv, EndCall PROVE ExpansionInv'
<1>1. ShapeInv /\ FramesInv /\ LinkInv
  BY DEF ExpansionInv
<1>2. PICK n, f, g, fs :
        n = Len(frames) /\ f = Top /\ g = frames[n - 1] /\ fs = frames'
  OBVIOUS
<1>3. /\ phase = "flatten" /\ n > 1 /\ ~f.begun /\ f.insts = << >>
      /\ fs = SubSeq(frames, 1, n - 1) /\ Len(frames) # 1
      /\ UNCHANGED <<body, phase, flat, turn, combined, rows, diags, expanded>>
  BY <1>2 DEF EndCall
<1>4. /\ n \in Nat \ {0, 1} /\ n \in 1..n /\ frames[n] = f
      /\ Link(body, expanded, g, f)
  BY <1>2, <1>3, InnerFacts
<1>5. PICK k : k = n - 1
  OBVIOUS
<1>6. /\ k \in Nat \ {0} /\ k \in 1..k /\ n = k + 1 /\ 1 \in 1..k
      /\ \A i \in 1..n : i \in 1..k \/ i = n
      /\ \A i \in 1..k : i \in 1..n /\ i # n /\ 1 + i - 1 = i
      /\ k - 1 + 1 = k
      /\ \A i \in 1..(k - 1) : i \in 1..k /\ i + 1 \in 1..k /\ i \in 1..(n - 1)
  BY <1>4, <1>5
<1>7. fs \in Seq(FrameShape) /\ Len(fs) = k /\ \A i \in 1..k : fs[i] = frames[i]
  <2>1. \A i \in 1..k : frames[i] \in FrameShape
    BY <1>1, <1>2, <1>6, ElementOfSeq DEF ShapeInv
  <2>2. /\ SubSeq(frames, 1, k) \in Seq(FrameShape)
        /\ Len(SubSeq(frames, 1, k)) = IF 1 <= k THEN k - 1 + 1 ELSE 0
        /\ \A i \in 1..(k - 1 + 1) : SubSeq(frames, 1, k)[i] = frames[1 + i - 1]
    BY <1>6, <2>1, SubSeqProperties
  <2> QED  BY <1>3, <1>5, <1>6, <2>2
<1>8. Grows(body, body')
  BY <1>3 DEF Grows
<1>9. RowsInv' /\ DropInv' /\ TurnInv' /\ AddressesUnique'
  BY <1>3, <1>8, RowsKept
<1>10. ShapeInv'
  <2>1. fs # << >>
    BY <1>6, <1>7, EmptySeq
  <2> QED  BY <1>1, <1>2, <1>3, <1>6, <1>7, <2>1 DEF ShapeInv
<1>11. FramesInv' /\ LinkInv'
  <2>1. \A i \in 1..k : FrameGood(body, fs[i])
    BY <1>1, <1>2, <1>6, <1>7 DEF FramesInv
  <2>2. \A i \in 1..(k - 1) : Link(body, expanded, fs[i], fs[i + 1])
    BY <1>1, <1>2, <1>6, <1>7 DEF LinkInv
  <2> QED  BY <1>2, <1>3, <1>7, <2>1, <2>2 DEF FramesInv, LinkInv
<1>12. CallsInv'
  <2> SUFFICES ASSUME NEW p, NEW d, NEW m \in 1..Len(body[d].calls), Working(frames, p, d, m)
               PROVE  Answered(body, diags, expanded, p, d, m) \/ Working(fs, p, d, m)
    BY <1>2, <1>3, <1>8, CallsKept
  <2>1. PICK i \in 1..n :
          /\ frames[i].begun /\ frames[i].path = p /\ frames[i].dir = d
          /\ m >= frames[i].next \/ (m = frames[i].next - 1 /\ i < n)
    BY <1>2 DEF Working
  <2>2. i \in 1..k
    BY <1>3, <1>4, <1>6, <2>1
  <2>3. CASE m >= frames[i].next \/ i # k
    <3>1. i < k \/ m >= frames[i].next
      BY <1>6, <2>2, <2>3
    <3> QED  BY <1>7, <2>1, <2>2, <3>1 DEF Working
  <2>4. CASE m = frames[i].next - 1 /\ i = k
    <3>1. g.path = p /\ g.dir = d /\ m = g.next - 1
      BY <1>2, <1>5, <2>1, <2>4
    <3>2. \A j \in 1..Len(f.insts) : FALSE
      BY <1>3
    <3> DEFINE c == body[d].calls[m]
               keys == CallKeys(body[d], c)
    <3>3. \A j \in 1..Len(keys) : <<At(p, m, keys[j]), c.source>> \in expanded
      BY <1>4, <3>1, <3>2 DEF Link
    <3> QED  BY <3>3 DEF Answered
  <2> QED  BY <2>1, <2>3, <2>4
<1> QED  BY <1>9, <1>10, <1>11, <1>12 DEF ExpansionInv

\* flatten_modules returns: every call was answered.
LEMMA EndFlattenStep == ASSUME ExpansionInv, EndFlatten PROVE ExpansionInv'
<1>1. ShapeInv /\ FramesInv
  BY DEF ExpansionInv
<1>2. /\ phase = "flatten" /\ Len(frames) = 1 /\ Top.next > Len(body[Component].calls)
      /\ phase' = "expand" /\ frames' = << >>
      /\ UNCHANGED <<body, flat, turn, combined, rows, diags, expanded>>
  BY DEF EndFlatten
<1>3. Len(frames') = 0 /\ frames' \in Seq(FrameShape) /\ \A i \in 1..0 : FALSE
  BY <1>2, EmptySeq
<1>4. Grows(body, body')
  BY <1>2 DEF Grows
<1>5. RowsInv' /\ DropInv' /\ TurnInv' /\ AddressesUnique'
  BY <1>2, <1>4, RowsKept
<1>6. ShapeInv'
  BY <1>1, <1>2, <1>3 DEF ShapeInv
<1>7. FramesInv' /\ LinkInv'
  <2>1. \A i \in 1..(0 - 1) : FALSE
    OBVIOUS
  <2> QED  BY <1>3, <2>1 DEF FramesInv, LinkInv
<1>8. CallsInv'
  <2> SUFFICES ASSUME NEW p, NEW d, NEW m \in 1..Len(body[d].calls), Working(frames, p, d, m)
               PROVE  FALSE
    BY <1>2, <1>4, CallsKept
  <2>1. PICK i \in 1..1 :
          /\ frames[i].begun /\ frames[i].path = p /\ frames[i].dir = d
          /\ m >= frames[i].next \/ (m = frames[i].next - 1 /\ i < 1)
    BY <1>2 DEF Working
  <2>2. i = 1 /\ frames[1] = Top /\ Top.dir = Component
    BY <1>1, <1>2 DEF Top, ShapeInv
  <2>3. m >= Top.next /\ m <= Len(body[Component].calls) /\ m \in Int
    BY <2>1, <2>2
  <2>4. FrameGood(body, Top)
    BY <1>1, <1>2, <2>2 DEF FramesInv
  <2>5. Top.next \in Nat /\ Len(body[Component].calls) \in Nat
    BY <2>2, <2>4, BodyParts DEF FrameGood, FrameShape
  <2> QED  BY <1>2, <2>3, <2>5
<1> QED  BY <1>5, <1>6, <1>7, <1>8 DEF ExpansionInv

-----------------------------------------------------------------------------
(* The builder's two loops.                                                 *)

\* After the flattening no frame is at work and no instance is added.
LEMMA BuilderKeeps ==
  ASSUME ExpansionInv, phase # "flatten", diags \subseteq diags',
         UNCHANGED <<body, frames, expanded>>
  PROVE  FramesInv' /\ LinkInv' /\ CallsInv'
<1>1. FramesInv /\ LinkInv
  BY DEF ExpansionInv
<1>2. FramesInv' /\ LinkInv'
  BY <1>1 DEF FramesInv, LinkInv
<1>3. Grows(body, body')
  BY DEF Grows
<1>4. CallsInv'
  BY <1>3, CallsKept
<1> QED  BY <1>2, <1>4

\* Rows that are kept, and a diagnostic more, keep what was not dropped.
LEMMA DropKept ==
  ASSUME DropInv, AllRows \subseteq AllRows', diags \subseteq diags',
         UNCHANGED <<body, expanded>>
  PROVE  DropInv'
<1> SUFFICES ASSUME NEW e \in expanded, NEW k \in 1..Len(body[e[2]].res)
             PROVE  HasRow(body, diags', AllRows', e, k)
  BY DEF DropInv
<1>1. HasRow(body, diags, AllRows, e, k)
  BY DEF DropInv
<1> QED  BY <1>1 DEF HasRow

\* The resource that is expanded, and its instances.
LEMMA CurrentFacts ==
  ASSUME ExpansionInv, flat # << >>
  PROVE  /\ Current \in AllRows /\ RowGood(body, Current)
         /\ CurrentKeys \in Seq(InstKeys) /\ Len(CurrentKeys) \in Nat
         /\ Current.count = None /\ Current.for_each = None => CurrentKeys = <<NoKey>>
<1>1. flat \in Seq(RowShape) /\ RowsInv
  BY DEF ExpansionInv, ShapeInv
<1>2. Current = flat[1] /\ 1 \in 1..Len(flat)
  BY <1>1, EmptySeq DEF Current
<1>3. Current \in AllRows
  BY <1>2 DEF AllRows
<1>4. RowGood(body, Current)
  BY <1>1, <1>3 DEF RowsInv
<1>5. Current.count \in Exprs \cup {None} /\ Current.for_each \in Exprs \cup {None}
  BY <1>4 DEF RowGood, RowShape
<1>6. /\ CurrentKeys \in Seq(InstKeys)
      /\ Current.count = None /\ Current.for_each = None => CurrentKeys = <<NoKey>>
  BY <1>5, InstancesShape DEF CurrentKeys
<1> QED  BY <1>3, <1>4, <1>6

\* One instance of a resource.
LEMMA ExpandInstanceStep == ASSUME ExpansionInv, ExpandInstance PROVE ExpansionInv'
<1>1. ShapeInv /\ RowsInv /\ DropInv /\ TurnInv /\ AddressesUnique
  BY DEF ExpansionInv
<1>2. PICK k, cur, r : k = CurrentKeys[turn] /\ cur = Current /\ r = [cur EXCEPT !.key = k]
  OBVIOUS
<1>3. /\ phase = "expand" /\ flat # << >> /\ turn <= Len(CurrentKeys)
      /\ combined' = IF k \in BadKeys THEN combined ELSE Append(combined, r)
      /\ diags \subseteq diags' /\ turn' = turn + 1
      /\ UNCHANGED <<body, phase, frames, flat, rows, expanded>>
  BY <1>2 DEF ExpandInstance
<1>4. /\ RowGood(body, cur) /\ CurrentKeys \in Seq(InstKeys) /\ Len(CurrentKeys) \in Nat
      /\ Current.count = None /\ Current.for_each = None => CurrentKeys = <<NoKey>>
  BY <1>2, <1>3, CurrentFacts
<1>5. turn \in Nat \ {0} /\ turn \in 1..Len(CurrentKeys)
  BY <1>1, <1>3, <1>4 DEF ShapeInv
<1>6. k \in InstKeys
  BY <1>2, <1>4, <1>5, ElementOfSeq
<1>7. /\ RowGood(body, r) /\ r \in RowShape /\ r.path = cur.path
      /\ r.dir = cur.dir /\ r.res = cur.res
  BY <1>2, <1>4, <1>6, RowInstance
<1>8. PICK cs, n : cs = combined' /\ n = Len(combined)
  OBVIOUS
<1>9. combined \in Seq(RowShape) /\ n \in Nat
  BY <1>1, <1>8 DEF ShapeInv
<1>10. k \notin BadKeys =>
         /\ cs \in Seq(RowShape) /\ Len(cs) = n + 1 /\ cs[n + 1] = r
         /\ \A i \in 1..n : cs[i] = combined[i]
  BY <1>3, <1>7, <1>8, <1>9, AppendProperties
<1>11. /\ cs \in Seq(RowShape)
       /\ \A i \in 1..n : i \in 1..Len(cs) /\ cs[i] = combined[i]
       /\ \A i \in 1..Len(cs) : (i \in 1..n /\ cs[i] = combined[i]) \/ cs[i] = r
  <2>1. CASE k \in BadKeys
    BY <1>3, <1>8, <1>9, <2>1
  <2>2. CASE k \notin BadKeys
    <3>1. \A i \in 1..(n + 1) : i \in 1..n \/ i = n + 1
      BY <1>9
    <3>2. \A i \in 1..n : i \in 1..(n + 1)
      BY <1>9
    <3> QED  BY <1>10, <2>2, <3>1, <3>2
  <2> QED  BY <2>1, <2>2
<1>12. AllRows \subseteq AllRows' /\ AllRows' \subseteq AllRows \cup {r}
  <2>1. AllRows' = {flat[i] : i \in 1..Len(flat)} \cup {cs[i] : i \in 1..Len(cs)}
                     \cup {rows[i] : i \in 1..Len(rows)}
    BY <1>3, <1>8 DEF AllRows
  <2>2. AllRows = {flat[i] : i \in 1..Len(flat)} \cup {combined[i] : i \in 1..n}
                     \cup {rows[i] : i \in 1..Len(rows)}
    BY <1>8 DEF AllRows
  <2>3. {combined[i] : i \in 1..n} \subseteq {cs[i] : i \in 1..Len(cs)}
    BY <1>11
  <2>4. {cs[i] : i \in 1..Len(cs)} \subseteq {combined[i] : i \in 1..n} \cup {r}
    BY <1>11
  <2> QED  BY <2>1, <2>2, <2>3, <2>4, Zenon
<1>13. ShapeInv'
  BY <1>1, <1>3, <1>5, <1>8, <1>11 DEF ShapeInv
<1>14. FramesInv' /\ LinkInv' /\ CallsInv'
  BY <1>3, BuilderKeeps
<1>15. RowsInv'
  BY <1>1, <1>3, <1>7, <1>12 DEF RowsInv
<1>16. DropInv'
  BY <1>1, <1>3, <1>12, DropKept
<1>17. TurnInv'
  <2> SUFFICES ASSUME cur.count = None, cur.for_each = None
               PROVE  \E i \in 1..Len(cs) :
                        /\ cs[i].path = cur.path /\ cs[i].dir = cur.dir
                        /\ cs[i].res = cur.res
    BY <1>2, <1>3, <1>8 DEF TurnInv, Current
  <2>1. CurrentKeys = <<NoKey>>
    BY <1>2, <1>4
  <2>2. turn = 1 /\ k = NoKey
    BY <1>2, <1>5, <2>1
  <2>3. k \notin BadKeys
    BY <2>2, NamesDistinct
  <2>4. n + 1 \in 1..Len(cs)
    BY <1>9, <1>10, <2>3
  <2> QED  BY <1>7, <1>10, <2>3, <2>4
<1>18. AddressesUnique'
  BY <1>1, <1>3 DEF AddressesUnique, Address
<1> QED  BY <1>13, <1>14, <1>15, <1>16, <1>17, <1>18 DEF ExpansionInv

\* A sequence without its first element.
Elements(s) == {s[i] : i \in 1..Len(s)}
LEMMA TailKeeps ==
  ASSUME NEW s \in Seq(RowShape), s # << >>, NEW t, t = Tail(s)
  PROVE  /\ t \in Seq(RowShape) /\ Head(s) \in Elements(s)
         /\ Elements(t) \subseteq Elements(s)
         /\ Elements(s) \subseteq {Head(s)} \cup Elements(t)
<1>1. /\ t \in Seq(RowShape) /\ Len(t) = Len(s) - 1 /\ Len(s) \in Nat \ {0}
      /\ \A i \in 1..Len(t) : t[i] = s[i + 1]
  BY HeadTailProperties, EmptySeq
<1>2. Head(s) = s[1] /\ 1 \in 1..Len(s)
  BY <1>1
<1>3. \A i \in 1..Len(t) : i + 1 \in 1..Len(s) /\ t[i] = s[i + 1]
  BY <1>1
<1>4. ASSUME NEW i \in 1..Len(s), i # 1  PROVE i - 1 \in 1..Len(t) /\ s[i] = t[i - 1]
  <2>1. i - 1 \in 1..Len(t) /\ (i - 1) + 1 = i
    BY <1>1, <1>4
  <2> QED  BY <1>1, <2>1
<1>5. {t[i] : i \in 1..Len(t)} \subseteq {s[i] : i \in 1..Len(s)}
  BY <1>3
<1>6. {s[i] : i \in 1..Len(s)} \subseteq {Head(s)} \cup {t[i] : i \in 1..Len(t)}
  BY <1>2, <1>4
<1> QED  BY <1>1, <1>2, <1>5, <1>6 DEF Elements

\* The next resource's turn.
LEMMA EndResourceStep == ASSUME ExpansionInv, EndResource PROVE ExpansionInv'
<1>1. ShapeInv /\ RowsInv /\ DropInv /\ TurnInv /\ AddressesUnique
  BY DEF ExpansionInv
<1>2. /\ phase = "expand" /\ flat # << >> /\ turn > Len(CurrentKeys)
      /\ flat' = Tail(flat) /\ turn' = 1 /\ diags \subseteq diags'
      /\ UNCHANGED <<body, phase, frames, combined, rows, diags, expanded>>
  BY DEF EndResource
<1>3. PICK fl, cur : fl = flat' /\ cur = Current
  OBVIOUS
<1>4. flat \in Seq(RowShape)
  BY <1>1 DEF ShapeInv
<1>5. /\ fl \in Seq(RowShape)
      /\ {fl[i] : i \in 1..Len(fl)} \subseteq {flat[i] : i \in 1..Len(flat)}
      /\ {flat[i] : i \in 1..Len(flat)} \subseteq {cur} \cup {fl[i] : i \in 1..Len(fl)}
  <2>1. flat # << >> /\ fl = Tail(flat) /\ cur = Head(flat)
    BY <1>2, <1>3 DEF Current
  <2>2. /\ fl \in Seq(RowShape) /\ Elements(fl) \subseteq Elements(flat)
        /\ Elements(flat) \subseteq {cur} \cup Elements(fl)
    BY <1>4, <2>1, TailKeeps
  <2> QED  BY <2>2, Zenon DEF Elements
<1>6. AllRows' \subseteq AllRows /\ AllRows \subseteq {cur} \cup AllRows'
  <2>1. AllRows' = {fl[i] : i \in 1..Len(fl)} \cup {combined[i] : i \in 1..Len(combined)}
                     \cup {rows[i] : i \in 1..Len(rows)}
    BY <1>2, <1>3 DEF AllRows
  <2> QED  BY <1>5, <2>1, Zenon DEF AllRows
<1>7. ShapeInv'
  BY <1>1, <1>2, <1>3, <1>5 DEF ShapeInv
<1>8. FramesInv' /\ LinkInv' /\ CallsInv'
  BY <1>2, BuilderKeeps
<1>9. RowsInv'
  BY <1>1, <1>2, <1>6 DEF RowsInv
<1>10. DropInv'
  <2> SUFFICES ASSUME NEW e \in expanded, NEW k \in 1..Len(body[e[2]].res),
                      body[e[2]].res[k].each = OnceEach, <<"TF1507", e[1]>> \notin diags
               PROVE  \E r \in AllRows' : r.path = e[1] /\ r.dir = e[2] /\ r.res = k
    BY <1>2 DEF DropInv, HasRow
  <2>1. PICK r \in AllRows : r.path = e[1] /\ r.dir = e[2] /\ r.res = k
    BY <1>1 DEF DropInv, HasRow
  <2>2. CASE r \in AllRows'
    BY <2>1, <2>2
  <2>3. CASE r = cur
    <3>1. cur.count = None /\ cur.for_each = None
      <4>1. RowGood(body, cur)
        BY <1>2, <1>3, CurrentFacts
      <4> QED  BY <2>1, <2>3, <4>1 DEF RowGood
    <3>2. CurrentKeys = <<NoKey>>
      BY <1>2, <1>3, <3>1, CurrentFacts
    <3>3. turn > 1
      BY <1>2, <3>2
    <3>4. PICK i \in 1..Len(combined) :
            /\ combined[i].path = cur.path /\ combined[i].dir = cur.dir
            /\ combined[i].res = cur.res
      BY <1>1, <1>2, <1>3, <3>1, <3>3 DEF TurnInv
    <3>5. combined[i] \in AllRows'
      BY <1>2 DEF AllRows
    <3> QED  BY <2>1, <2>3, <3>4, <3>5
  <2> QED  BY <1>6, <2>2, <2>3
<1>11. TurnInv'
  BY <1>2 DEF TurnInv
<1>12. AddressesUnique'
  BY <1>1, <1>2 DEF AddressesUnique, Address
<1> QED  BY <1>7, <1>8, <1>9, <1>10, <1>11, <1>12 DEF ExpansionInv

\* The loops begin and end.
LEMMA PhaseSteps == ASSUME ExpansionInv, StartDedup \/ Finish PROVE ExpansionInv'
<1>1. ShapeInv
  BY DEF ExpansionInv
<1>2. /\ phase \in {"expand", "dedup"} /\ phase' \in {"dedup", "done"} /\ flat = << >>
      /\ diags \subseteq diags'
      /\ UNCHANGED <<body, frames, flat, turn, combined, rows, diags, expanded>>
  BY <1>1 DEF StartDedup, Finish, ShapeInv
<1>3. Grows(body, body')
  BY <1>2 DEF Grows
<1>4. ShapeInv'
  BY <1>1, <1>2 DEF ShapeInv
<1>5. FramesInv' /\ LinkInv' /\ CallsInv'
  BY <1>2, BuilderKeeps
<1>6. RowsInv' /\ DropInv' /\ TurnInv' /\ AddressesUnique'
  BY <1>2, <1>3, RowsKept
<1> QED  BY <1>4, <1>5, <1>6 DEF ExpansionInv

\* A row stays, or an earlier one has its address.
LEMMA DedupRowStep == ASSUME ExpansionInv, DedupRow PROVE ExpansionInv'
<1>1. ShapeInv /\ RowsInv /\ DropInv /\ AddressesUnique
  BY DEF ExpansionInv
<1>2. PICK r, cs, rs, n : r = Head(combined) /\ cs = combined' /\ rs = rows' /\ n = Len(rows)
  OBVIOUS
<1>3. /\ phase = "dedup" /\ combined # << >> /\ cs = Tail(combined)
      /\ rs = IF Taken(Address(r)) THEN rows ELSE Append(rows, r)
      /\ diags \subseteq diags'
      /\ UNCHANGED <<body, phase, frames, flat, turn, expanded>>
  BY <1>2 DEF DedupRow
<1>4. flat = << >> /\ combined \in Seq(RowShape) /\ rows \in Seq(RowShape) /\ n \in Nat
  BY <1>1, <1>2, <1>3 DEF ShapeInv
<1>5. /\ cs \in Seq(RowShape) /\ Head(combined) \in {combined[i] : i \in 1..Len(combined)}
      /\ {cs[i] : i \in 1..Len(cs)} \subseteq {combined[i] : i \in 1..Len(combined)}
      /\ {combined[i] : i \in 1..Len(combined)}
           \subseteq {Head(combined)} \cup {cs[i] : i \in 1..Len(cs)}
  <2>1. /\ cs \in Seq(RowShape) /\ Head(combined) \in Elements(combined)
        /\ Elements(cs) \subseteq Elements(combined)
        /\ Elements(combined) \subseteq {Head(combined)} \cup Elements(cs)
    BY <1>3, <1>4, TailKeeps
  <2> QED  BY <2>1, Zenon DEF Elements
<1>6. r \in AllRows
  BY <1>2, <1>5 DEF AllRows
<1>7. RowGood(body, r) /\ r \in RowShape
  BY <1>1, <1>6 DEF RowsInv, RowGood
<1>8. ~Taken(Address(r)) =>
        /\ rs \in Seq(RowShape) /\ Len(rs) = n + 1 /\ rs[n + 1] = r
        /\ \A i \in 1..n : rs[i] = rows[i]
  BY <1>2, <1>3, <1>4, <1>7, AppendProperties
<1>9. /\ rs \in Seq(RowShape)
      /\ \A i \in 1..n : i \in 1..Len(rs) /\ rs[i] = rows[i]
      /\ \A i \in 1..Len(rs) : \/ i \in 1..n /\ rs[i] = rows[i]
                               \/ i = n + 1 /\ rs[i] = r /\ ~Taken(Address(r))
  <2>1. CASE Taken(Address(r))
    BY <1>2, <1>3, <1>4, <2>1
  <2>2. CASE ~Taken(Address(r))
    <3>1. \A i \in 1..(n + 1) : i \in 1..n \/ i = n + 1
      BY <1>4
    <3>2. \A i \in 1..n : i \in 1..(n + 1)
      BY <1>4
    <3> QED  BY <1>8, <2>2, <3>1, <3>2
  <2> QED  BY <2>1, <2>2
<1>10. AllRows' \subseteq AllRows /\ AllRows \subseteq {r} \cup AllRows'
  <2>1. AllRows' = {flat[i] : i \in 1..Len(flat)} \cup {cs[i] : i \in 1..Len(cs)}
                     \cup {rs[i] : i \in 1..Len(rs)}
    BY <1>2, <1>3 DEF AllRows
  <2>2. AllRows = {flat[i] : i \in 1..Len(flat)}
                     \cup {combined[i] : i \in 1..Len(combined)} \cup {rows[i] : i \in 1..n}
    BY <1>2 DEF AllRows
  <2>3. {rows[i] : i \in 1..n} \subseteq {rs[i] : i \in 1..Len(rs)}
    BY <1>9
  <2>4. {rs[i] : i \in 1..Len(rs)} \subseteq {rows[i] : i \in 1..n} \cup {r}
    BY <1>9
  <2>5. AllRows' \subseteq AllRows
    BY <1>5, <1>6, <2>1, <2>2, <2>4, Zenon
  <2>6. {combined[i] : i \in 1..Len(combined)} \subseteq {r} \cup {cs[i] : i \in 1..Len(cs)}
    BY <1>2, <1>5, Zenon
  <2>7. AllRows \subseteq {r} \cup AllRows'
    BY <2>1, <2>2, <2>3, <2>6, Zenon
  <2> QED  BY <2>5, <2>7
<1>11. ShapeInv'
  BY <1>1, <1>2, <1>3, <1>5, <1>9 DEF ShapeInv
<1>12. FramesInv' /\ LinkInv' /\ CallsInv'
  BY <1>3, BuilderKeeps
<1>13. RowsInv'
  BY <1>1, <1>3, <1>10 DEF RowsInv
<1>14. DropInv'
  <2> SUFFICES ASSUME NEW e \in expanded, NEW k \in 1..Len(body[e[2]].res),
                      body[e[2]].res[k].each = OnceEach, <<"TF1507", e[1]>> \notin diags
               PROVE  \E x \in AllRows' : x.path = e[1] /\ x.dir = e[2] /\ x.res = k
    BY <1>3 DEF DropInv, HasRow
  <2>1. PICK x \in AllRows : x.path = e[1] /\ x.dir = e[2] /\ x.res = k
    BY <1>1 DEF DropInv, HasRow
  <2>2. CASE x \in AllRows'
    BY <2>1, <2>2
  <2>3. CASE x = r /\ Taken(Address(r))
    <3>1. PICK i \in 1..n : Address(rows[i]) = Address(r)
      BY <1>2, <2>3 DEF Taken
    <3>2. rows[i].path = r.path /\ rows[i].dir = r.dir /\ rows[i].res = r.res
      BY <3>1 DEF Address
    <3>3. rows[i] \in AllRows'
      BY <1>2, <1>9 DEF AllRows
    <3> QED  BY <2>1, <2>3, <3>2, <3>3
  <2>4. CASE x = r /\ ~Taken(Address(r))
    <3>1. n + 1 \in 1..Len(rs) /\ rs[n + 1] = r
      BY <1>4, <1>8, <2>4
    <3>2. r \in AllRows'
      BY <1>2, <3>1 DEF AllRows
    <3> QED  BY <2>1, <2>4, <3>2
  <2> QED  BY <1>10, <2>2, <2>3, <2>4
<1>15. TurnInv'
  BY <1>3, <1>4 DEF TurnInv
<1>16. AddressesUnique'
  <2> SUFFICES ASSUME NEW i \in 1..Len(rs), NEW j \in 1..Len(rs),
                      Address(rs[i]) = Address(rs[j])
               PROVE  i = j
    BY <1>2 DEF AddressesUnique, Address
  <2>1. CASE i \in 1..n /\ j \in 1..n
    BY <1>1, <1>2, <1>9, <2>1 DEF AddressesUnique
  <2>2. \A a \in 1..n : ~Taken(Address(r)) => Address(rows[a]) # Address(r)
    BY <1>2 DEF Taken
  <2> QED  BY <1>9, <2>1, <2>2
<1> QED  BY <1>11, <1>12, <1>13, <1>14, <1>15, <1>16 DEF ExpansionInv

-----------------------------------------------------------------------------
(* The invariant holds throughout, and what follows from it.                *)

\* The frame of the component is good.
LEMMA ComponentFrameGood ==
  ASSUME body \in [Dirs -> BodyShape \cup {None}], body[Component] # None,
         NEW f, f = ComponentFrame
  PROVE  /\ FrameGood(body, f) /\ f.dir = Component /\ f.path = << >> /\ f.begun
         /\ f.next = 1
<1>1. body[Component] \in BodyShape
  BY DEF Dirs
<1>2. PICK x : x = Reduced(body[Component], VarX)
  OBVIOUS
<1>3. x \in Exprs
  <2>1. VarX \in Exprs /\ None \in Exprs \cup {None}
    BY DEF Exprs
  <2> QED  BY <1>1, <1>2, <2>1, ExprShape
<1>4. << >> \in Segments /\ <<NoKey>> \in Seq(InstKeys) /\ <<NoKey>> # << >>
  BY EmptySeq DEF Segments, InstKeys
<1>5. f = [dir |-> Component, path |-> << >>, insts |-> <<NoKey>>, begun |-> TRUE,
           next |-> 1, input |-> None, map |-> None, passes |-> << >>,
           xmeans |-> x, means |-> Plain]
  BY <1>2 DEF ComponentFrame
<1>6. << >> \in Passes /\ Plain \in Refs
  BY EmptySeq DEF Passes, Refs
<1>7. /\ f \in FrameShape /\ f.dir = Component /\ f.path = << >> /\ f.begun
      /\ f.next = 1 /\ f.input = None /\ f.map = None /\ f.insts = <<NoKey>>
      /\ f.passes = << >> /\ f.xmeans = x /\ f.means = Plain
  BY <1>3, <1>4, <1>5, <1>6 DEF FrameShape, Dirs
<1>8. ComesOut(<< >>, Default(None), Plain)
  <2>1. \A i \in 1..Len(<< >>) : FALSE
    OBVIOUS
  <2> QED  BY <2>1 DEF ComesOut, Nearest, Default
<1>9. FrameGood(body, f)
  BY <1>1, <1>2, <1>4, <1>7, <1>8, NamesDistinct DEF FrameGood
<1> QED  BY <1>7, <1>9

\* It holds of the component before any call of it is made.
LEMMA InitExpansionInv == ASSUME Init PROVE ExpansionInv
<1>1. PICK b \in Bodies[Component] :
        body = [d \in Modules \cup {Component} |-> IF d = Component THEN b ELSE None]
  BY DEF Init
<1>2. b \in BodyShape /\ b # None
  BY NoneIsNoBody DEF Dirs
<1>3. body \in [Dirs -> BodyShape \cup {None}] /\ body[Component] = b
  BY <1>1, <1>2 DEF Dirs
<1>4. /\ phase = "flatten" /\ frames = <<ComponentFrame>> /\ turn = 1
      /\ combined = << >> /\ rows = << >> /\ expanded = {}
      /\ flat = [k \in 1..Len(body[Component].res) |->
                   Row(<< >>, ComponentFrame, k)]
  BY DEF Init
<1>5. PICK f : f = ComponentFrame
  OBVIOUS
<1>6. /\ FrameGood(body, f) /\ f.dir = Component /\ f.path = << >> /\ f.begun
      /\ f.next = 1
  BY <1>2, <1>3, <1>5, ComponentFrameGood
<1>7. f \in FrameShape
  BY <1>6 DEF FrameGood
<1>8. frames = <<f>> /\ frames \in Seq(FrameShape) /\ Len(frames) = 1 /\ frames[1] = f
  BY <1>4, <1>5, <1>7
<1>9. PICK m : m = Len(body[Component].res)
  OBVIOUS
<1>10. m \in Nat
  BY <1>2, <1>3, <1>9, BodyParts
<1>11. << >> \in Segments
  BY EmptySeq DEF Segments
<1>12. \A k \in 1..m : RowGood(body, flat[k])
  <2> SUFFICES ASSUME NEW k \in 1..m PROVE RowGood(body, flat[k])
    OBVIOUS
  <2>1. PICK r, p : r = Row(p, f, k) /\ p = << >>
    OBVIOUS
  <2>2. RowGood(body, r)
    BY <1>6, <1>9, <1>11, <2>1, RowMade
  <2>3. flat[k] = r
    BY <1>4, <1>5, <1>9, <2>1
  <2> QED  BY <2>2, <2>3
<1>13. flat \in Seq(RowShape) /\ Len(flat) = m
  <2>1. \A k \in 1..m : flat[k] \in RowShape
    BY <1>12 DEF RowGood
  <2>2. flat \in [1..m -> RowShape]
    BY <1>4, <1>9, <2>1
  <2> QED  BY <1>10, <2>2
<1>14. ShapeInv
  <2>1. frames # << >> /\ << >> \in Seq(RowShape)
    BY <1>8, EmptySeq
  <2> QED  BY <1>2, <1>3, <1>4, <1>6, <1>8, <1>13, <2>1 DEF ShapeInv
<1>15. FramesInv /\ LinkInv
  <2>1. \A i \in 1..(1 - 1) : FALSE
    OBVIOUS
  <2> QED  BY <1>6, <1>8, <2>1 DEF FramesInv, LinkInv
<1>16. \A i \in 1..Len(<< >>) : FALSE
  OBVIOUS
<1>17. RowsInv /\ TurnInv /\ AddressesUnique
  <2>1. \A r \in AllRows : \E k \in 1..m : r = flat[k]
    BY <1>4, <1>13, <1>16 DEF AllRows
  <2>2. RowsInv
    BY <1>12, <2>1 DEF RowsInv
  <2>3. TurnInv
    BY <1>4 DEF TurnInv
  <2>4. AddressesUnique
    BY <1>4, <1>16 DEF AddressesUnique
  <2> QED  BY <2>2, <2>3, <2>4
<1>18. CallsInv
  <2> SUFFICES ASSUME NEW n \in 1..Len(body[Component].calls)
               PROVE  Working(frames, << >>, Component, n)
    BY <1>4 DEF CallsInv
  <2>1. 1 \in 1..Len(frames) /\ n >= f.next
    BY <1>6, <1>8
  <2> QED  BY <1>6, <1>8, <2>1 DEF Working
<1>19. DropInv
  BY <1>4 DEF DropInv
<1> QED  BY <1>14, <1>15, <1>17, <1>18, <1>19 DEF ExpansionInv

\* Every step keeps it.
LEMMA NextExpansionInv == ASSUME ExpansionInv, [Next]_vars PROVE ExpansionInv'
<1>1. CASE UNCHANGED vars
  <2>1. /\ UNCHANGED <<body, phase, frames, flat, turn, combined, rows, expanded>>
        /\ diags' = diags
    BY <1>1 DEF vars
  <2>2. Grows(body, body') /\ diags \subseteq diags'
    BY <2>1 DEF Grows
  <2>3. RowsInv' /\ DropInv' /\ TurnInv' /\ AddressesUnique'
    BY <2>1, <2>2, RowsKept
  <2>4. CallsInv'
    BY <2>1, <2>2, CallsKept
  <2>5. ShapeInv' /\ FramesInv' /\ LinkInv'
    BY <2>1 DEF ExpansionInv, ShapeInv, FramesInv, LinkInv
  <2> QED  BY <2>3, <2>4, <2>5 DEF ExpansionInv
<1>2. CASE SkipTooDeep \/ SkipBadSource \/ SkipCycle
  BY <1>2, SkipSteps
<1>3. CASE EnterCall
  BY <1>3, EnterCallStep
<1>4. CASE BeginInstance
  BY <1>4, BeginInstanceStep
<1>5. CASE EndInstance
  BY <1>5, EndInstanceStep
<1>6. CASE EndCall
  BY <1>6, EndCallStep
<1>7. CASE EndFlatten
  BY <1>7, EndFlattenStep
<1>8. CASE ExpandInstance
  BY <1>8, ExpandInstanceStep
<1>9. CASE EndResource
  BY <1>9, EndResourceStep
<1>10. CASE StartDedup \/ Finish
  BY <1>10, PhaseSteps
<1>11. CASE DedupRow
  BY <1>11, DedupRowStep
<1> QED
  BY <1>1, <1>2, <1>3, <1>4, <1>5, <1>6, <1>7, <1>8, <1>9, <1>10, <1>11
  DEF Next, BuildStep, Terminated

\* The build keeps it from the first step to the last.
LEMMA ExpansionInvariant == Spec => []ExpansionInv
<1>1. Init => ExpansionInv
  BY InitExpansionInv
<1>2. ExpansionInv /\ [Next]_vars => ExpansionInv'
  BY NextExpansionInv
<1> QED  BY <1>1, <1>2, PTL DEF Spec

\* The rows a component ends up with have addresses of their own, whatever
\* for_each keys come to one address and however often a module is called:
\* the builder keeps the first row of an address.
THEOREM RowsHaveTheirOwnAddress == Spec => []AddressesUnique
<1>1. ExpansionInv => AddressesUnique
  BY DEF ExpansionInv
<1> QED  BY <1>1, ExpansionInvariant, PTL

\* Every instance of every call is expanded, and every resource of every
\* instance has a row, or a diagnostic at that place says why not: through
\* cycles of modules, calls too deep, sources that do not resolve, caps and
\* keys that make no address.
THEOREM NoCallIsDropped == Spec => []NothingDropped
<1>1. ASSUME ExpansionInv PROVE NothingDropped
  <2>1. ShapeInv /\ CallsInv /\ DropInv
    BY <1>1 DEF ExpansionInv
  <2>2. ASSUME phase # "flatten", NEW e \in expanded \cup {<<<< >>, Component>>},
               NEW n \in 1..Len(body[e[2]].calls)
        PROVE  CallAnswered(e[1], e[2], n)
    <3>1. frames = << >>
      BY <2>1, <2>2 DEF ShapeInv
    <3>2. \A i \in 1..Len(frames) : FALSE
      BY <3>1
    <3>3. ~Working(frames, e[1], e[2], n)
      BY <3>2 DEF Working
    <3>4. Answered(body, diags, expanded, e[1], e[2], n)
      BY <2>1, <3>3 DEF CallsInv
    <3> QED  BY <3>4 DEF Answered, CallAnswered, Skipped
  <2>3. ASSUME NEW e \in expanded, NEW k \in 1..Len(body[e[2]].res),
               body[e[2]].res[k].each = [count |-> None, for_each |-> None]
        PROVE  \/ <<"TF1507", e[1]>> \in diags
               \/ \E r \in AllRows : r.path = e[1] /\ r.res = k
    <3>1. HasRow(body, diags, AllRows, e, k)
      BY <2>1 DEF DropInv
    <3> QED  BY <2>3, <3>1 DEF HasRow, OnceEach
  <2> QED  BY <2>2, <2>3 DEF NothingDropped
<1> QED  BY <1>1, ExpansionInvariant, PTL

\* A module that has no value of its own for a variable sees the one its
\* caller passed, through any number of calls of such modules.
THEOREM InputsReach == Spec => []InputsReachUnboundModules
<1>1. ASSUME ExpansionInv PROVE InputsReachUnboundModules
  <2>1. (\A m \in Seen : body[m].bound = None) => Unbound(body)
    BY DEF Seen, Unbound
  <2>2. \A r \in AllRows : Unbound(body) => r.value = r.xmeans
    BY <1>1 DEF ExpansionInv, RowsInv, RowGood
  <2> QED  BY <2>1, <2>2 DEF InputsReachUnboundModules
<1> QED  BY <1>1, ExpansionInvariant, PTL

\* An explicit reference to the default provider in a module comes out as the
\* innermost providers entry of the calls around it, which is the component's
\* provider that it means unless a call below one that was passed an alias
\* writes the default provider down again.
THEOREM RefsAreRewritten == Spec => []ExplicitRefsRewritten
<1>1. ASSUME ExpansionInv PROVE ExplicitRefsRewritten
  <2>1. \A r \in AllRows :
          body[r.dir].res[r.res].provider = Plain => ComesOut(r.passes, r.provider, r.means)
    BY <1>1 DEF ExpansionInv, RowsInv, RowGood
  <2> QED  BY <2>1 DEF ExplicitRefsRewritten, ComesOut
<1> QED  BY <1>1, ExpansionInvariant, PTL

=============================================================================
