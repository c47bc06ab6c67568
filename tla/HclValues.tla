----------------------------- MODULE HclValues -----------------------------
(***************************************************************************)
(* The values of an evaluation: `Value` (crates/core/src/ir/value.rs) and  *)
(* the operators and renderings of eval/reduce.rs on them.                 *)
(*                                                                         *)
(* A value is a tuple that starts with the name of its variant.  A string  *)
(* is a sequence of tokens; a token is a number, so that strings have an   *)
(* order.  An integer has Width bits, as i64 has 64.  A float is the exact *)
(* ratio it stands for (rounding is left out); 0 over 0 is NaN.            *)
(***************************************************************************)
EXTENDS Integers, Sequences, FiniteSets, SequencesExt

CONSTANT Width

ASSUME WidthIsPositive == Width \in Nat \ {0}

IntMin == -(2 ^ (Width - 1))
IntMax == 2 ^ (Width - 1) - 1

NullVal == <<"null">>
BoolVal(b) == <<"bool", b>>
IntVal(n) == <<"int", n>>
StrVal(s) == <<"str", s>>
ListVal(items) == <<"list", items>>
MapVal(entries) == <<"map", entries>>   \* entries: a sequence of <<key, value>>

Is(tag, v) == v[1] = tag

\* No value: the operation leaves the expression as it is.
Nothing == <<"nothing">>

\* The panic of an arithmetic operation the standard library refuses.
Panic == <<"panic">>

Abs(n) == IF n < 0 THEN -n ELSE n
Divides(d, n) == n % d = 0
Ratio(p, q) ==
  LET sign == IF q < 0 THEN -1 ELSE 1
      common == CHOOSE d \in 1..(Abs(p) + Abs(q)) :
                  /\ Divides(d, p) /\ Divides(d, q)
                  /\ \A e \in (d + 1)..(Abs(p) + Abs(q)) : ~(Divides(e, p) /\ Divides(e, q))
  IN  IF q = 0 THEN <<"num", 0, 0>>
      ELSE <<"num", (sign * p) \div common, (sign * q) \div common>>

IsNumber(v) == Is("int", v) \/ Is("num", v)
ToFloat(v) == IF Is("int", v) THEN <<"num", v[2], 1>> ELSE v
IsNaN(v) == Is("num", v) /\ v[3] = 0

-----------------------------------------------------------------------------
(* Operators.                                                               *)

\* checked_add and its like: no value where the result does not fit.
Checked(n) == IF n \in IntMin..IntMax THEN IntVal(n) ELSE Nothing

FloatOp(op, a, b) ==
  CASE op = "Add" -> Ratio(a[2] * b[3] + b[2] * a[3], a[3] * b[3])
    [] op = "Sub" -> Ratio(a[2] * b[3] - b[2] * a[3], a[3] * b[3])
    [] op = "Mul" -> Ratio(a[2] * b[2], a[3] * b[3])
    [] op = "Div" -> IF b[2] = 0 /\ b[3] # 0 THEN Nothing
                     ELSE IF b[3] = 0 THEN Ratio(0, 0) ELSE Ratio(a[2] * b[3], a[3] * b[2])
    [] op = "Mod" -> IF b[2] = 0 \/ a[3] = 0 THEN Ratio(0, 0)
                     ELSE LET by == Abs(b[2]) * a[3]
                          IN  Ratio((a[2] * b[3]) % by, a[3] * b[3])

IntOp(op, a, b) ==
  CASE op = "Add" -> Checked(a + b)
    [] op = "Sub" -> Checked(a - b)
    [] op = "Mul" -> Checked(a * b)

\* Integer division truncates; the one quotient that does not fit goes on as a
\* float.
Quotient(a, b) == (IF a * b < 0 THEN -1 ELSE 1) * (Abs(a) \div Abs(b))

Divide(l, r) ==
  IF Is("int", l) /\ Is("int", r)
    THEN IF r[2] = 0 THEN Nothing
         ELSE IF Quotient(l[2], r[2]) \in IntMin..IntMax THEN IntVal(Quotient(l[2], r[2]))
         ELSE FloatOp("Div", ToFloat(l), ToFloat(r))
  ELSE IF IsNumber(l) /\ IsNumber(r) THEN FloatOp("Div", ToFloat(l), ToFloat(r))
  ELSE Nothing

\* rem_euclid panics on the one remainder whose division overflows.
Remainder(l, r) ==
  IF Is("int", l) /\ Is("int", r)
    THEN IF r[2] = 0 THEN Nothing
         ELSE IF l[2] = IntMin /\ r[2] = -1 THEN Panic
         ELSE IntVal(l[2] % Abs(r[2]))
  ELSE IF IsNumber(l) /\ IsNumber(r) THEN FloatOp("Mod", ToFloat(l), ToFloat(r))
  ELSE Nothing

Arithmetic(op, l, r) ==
  CASE op = "Add" /\ Is("str", l) /\ Is("str", r) -> StrVal(l[2] \o r[2])
    [] Is("int", l) /\ Is("int", r) -> IntOp(op, l[2], r[2])
    [] ~(IsNumber(l) /\ IsNumber(r)) -> Nothing
    [] OTHER -> FloatOp(op, ToFloat(l), ToFloat(r))

\* values_equal: an integer equals the float of the same value.
Equal(l, r) ==
  IF {l[1], r[1]} = {"int", "num"} THEN ToFloat(l) = ToFloat(r)
  ELSE l = r /\ ~IsNaN(l)

StrBelow(s, t) ==
  \/ \E k \in 1..Len(s) : /\ k <= Len(t) /\ s[k] < t[k]
                          /\ \A i \in 1..(k - 1) : s[i] = t[i]
  \/ Len(s) < Len(t) /\ \A i \in 1..Len(s) : s[i] = t[i]

Below(l, r) ==
  IF Is("str", l) THEN StrBelow(l[2], r[2])
  ELSE ToFloat(l)[2] * ToFloat(r)[3] < ToFloat(r)[2] * ToFloat(l)[3]

Comparable(l, r) ==
  \/ Is("str", l) /\ Is("str", r)
  \/ IsNumber(l) /\ IsNumber(r) /\ ~IsNaN(l) /\ ~IsNaN(r)

Compare(op, l, r) ==
  IF ~Comparable(l, r) THEN Nothing
  ELSE BoolVal(CASE op = "Lt" -> Below(l, r)
              [] op = "Le" -> ~Below(r, l)
              [] op = "Gt" -> Below(r, l)
              [] op = "Ge" -> ~Below(l, r))

Logic(op, l, r) ==
  IF ~(Is("bool", l) /\ Is("bool", r)) THEN Nothing
  ELSE BoolVal(IF op = "And" THEN l[2] /\ r[2] ELSE l[2] \/ r[2])

EvalBinary(op, l, r) ==
  CASE op \in {"Add", "Sub", "Mul"} -> Arithmetic(op, l, r)
    [] op = "Div" -> Divide(l, r)
    [] op = "Mod" -> Remainder(l, r)
    [] op = "Eq" -> BoolVal(Equal(l, r))
    [] op = "Ne" -> BoolVal(~Equal(l, r))
    [] op \in {"Lt", "Le", "Gt", "Ge"} -> Compare(op, l, r)
    [] op \in {"And", "Or"} -> Logic(op, l, r)

EvalUnary(op, v) ==
  CASE op = "Neg" /\ Is("int", v) -> Checked(-v[2])
    [] op = "Neg" /\ Is("num", v) -> <<"num", -v[2], v[3]>>
    [] op = "Not" /\ Is("bool", v) -> BoolVal(~v[2])
    [] OTHER -> Nothing

-----------------------------------------------------------------------------
(* Maps: insertion-ordered pairs; a key may occur more than once.           *)

\* `find`: the first entry with the key.
Has(entries, key) == \E k \in 1..Len(entries) : entries[k][1] = key
First(entries, key) ==
  entries[CHOOSE k \in 1..Len(entries) :
            entries[k][1] = key /\ \A i \in 1..(k - 1) : entries[i][1] # key][2]

\* override_or_push: the first entry is overwritten, a new key goes to the end.
Put(entries, key, value) ==
  IF ~Has(entries, key) THEN Append(entries, <<key, value>>)
  ELSE LET k == CHOOSE k \in 1..Len(entries) :
                  entries[k][1] = key /\ \A i \in 1..(k - 1) : entries[i][1] # key
       IN  [entries EXCEPT ![k] = <<key, value>>]

PutAll(entries, more) == FoldLeft(LAMBDA acc, e : Put(acc, e[1], e[2]), entries, more)

\* The order of the keys of an object; entries with equal keys stay in place.
SortedByKey(entries) ==
  LET before(i, j) == StrBelow(entries[i][1], entries[j][1])
                        \/ (entries[i][1] = entries[j][1] /\ i < j)
      rank(i) == 1 + Cardinality({j \in 1..Len(entries) : before(j, i)})
  IN  [k \in 1..Len(entries) |-> entries[CHOOSE i \in 1..Len(entries) : rank(i) = k]]

\* descend_attributes: `.a.b` on nested maps, or nothing.
RECURSIVE Descend(_, _)
Descend(v, path) ==
  IF path = << >> THEN v
  ELSE IF Is("map", v) /\ Has(v[2], Head(path)) THEN Descend(First(v[2], Head(path)), Tail(path))
  ELSE Nothing

-----------------------------------------------------------------------------
(* Strings.                                                                 *)

\* Tokens.  1..9 are letters, 11..19 the same in upper case.
Blank == 20
Percent == 21
Verb == 22            \* the s or v of %s, %v
DigitVerb == 23       \* the d of %d
Open == 24            \* ${
Close == 25           \* }
Punctuation == [open |-> 30, close |-> 31, comma |-> 32, brace |-> 33, unbrace |-> 34, is |-> 35]
Word == [null |-> 36, true |-> 37, false |-> 38]
Digits(n) == 1000 + n
FractionDigits(p, q) == 2000 + 100 * p + q

Between(first, parts, last) ==
  <<first>> \o FoldLeft(LAMBDA acc, k : acc \o (IF k = 1 THEN << >> ELSE <<Punctuation.comma>>)
                                          \o parts[k],
                        << >>, [k \in 1..Len(parts) |-> k]) \o <<last>>

\* What a value becomes inside a template (render_value_as_str) and in format and
\* tostring (value_to_display); the two differ in what they make of null.
RECURSIVE Display(_, _)
Display(v, null) ==
  CASE Is("null", v) -> null
    [] Is("bool", v) -> <<IF v[2] THEN Word.true ELSE Word.false>>
    [] Is("int", v) -> <<Digits(v[2])>>
    [] Is("num", v) -> <<FractionDigits(v[2], v[3])>>
    [] Is("str", v) -> v[2]
    [] Is("list", v) ->
         Between(Punctuation.open, [k \in 1..Len(v[2]) |-> Display(v[2][k], null)],
                 Punctuation.close)
    [] Is("map", v) ->
         Between(Punctuation.brace,
                 [k \in 1..Len(v[2]) |->
                    v[2][k][1] \o <<Punctuation.is>> \o Display(v[2][k][2], null)],
                 Punctuation.unbrace)

RenderAsStr(v) == Display(v, << >>)
ValueToDisplay(v) == Display(v, <<Word.null>>)
=============================================================================
