------------------------------ MODULE Numbers ------------------------------
(***************************************************************************)
(* Arithmetic and comparison of compiler/src/runtime.rs: checked i64       *)
(* arithmetic, f64 arithmetic with rounding, and the mixed comparison that *)
(* must not round.  i64 has Bits bits; an f64 has Precision significant    *)
(* bits and no bit below 1/Q, the way f64 has 53 and a least subnormal.    *)
(*                                                                         *)
(* A float is <<kind, n>>: a finite one is n/Q.  A value is [t, v].        *)
(*                                                                         *)
(* An operator named Mutant... is a wrong version of the one after it,     *)
(* which a property must tell from it; the specification uses none.        *)
(***************************************************************************)
EXTENDS Integers, Sequences, FiniteSets

CONSTANTS
  Bits,        \* width of i64
  Precision,   \* significant bits of f64
  Q,           \* least positive float is 1/Q
  MaxFloat,    \* numerator of the greatest finite float
  Exponents    \* bound: the last bit kept of a result weighs at most 2 ^ Exponents

ASSUME NumbersAssumption ==
  /\ Bits \in Nat \ {0, 1}
  /\ Precision \in Nat \ {0}
  /\ Q \in Nat \ {0}
  /\ MaxFloat \in Nat
  /\ Exponents \in Nat

\* 2 ^ e, as far as it is needed; a recursion, since the provers know nothing of ^.
Power[e \in 0 .. Bits + Precision + Exponents] == IF e = 0 THEN 1 ELSE 2 * Power[e - 1]

Limit == Power[Bits - 1]     \* I64_UPPER_EXCLUSIVE_AS_F64
Weights == {Power[e] : e \in 0 .. Exponents}     \* of the last bit of a float

\* As for i64 and f64: the unit of the floats is a power of two and the floats reach beyond
\* the Ints.  The bound leaves room for the exact product of two floats.
ASSUME FloatAssumption ==
  /\ Q \in Weights
  /\ Limit * Q <= MaxFloat
  /\ MaxFloat * MaxFloat < Power[Exponents] * Power[Precision]

Ints == (- Limit) .. (Limit - 1)

Abs(x) == IF x < 0 THEN - x ELSE x
Sign(x) == IF x < 0 THEN -1 ELSE 1
\* x \div y truncated toward zero, for y # 0: checked_div, and f64::trunc for y = Q.
Truncated(x, y) == Sign(x) * Sign(y) * (Abs(x) \div Abs(y))

NaN == <<"nan", 0>>
NegativeZero == <<"nzero", 0>>
Infinity(sign) == <<"inf", sign>>
Finite(n) == <<"fin", n>>

\* The representable numerators: those rounding leaves alone.
Scale(x, y) ==   \* the weight of the last bit kept of x/y
  CHOOSE w \in Weights :
    /\ Abs(x) < y * w * Power[Precision]
    /\ w = 1 \/ Abs(x) >= y * (w \div 2) * Power[Precision]
\* x/y units of 1/Q to the nearest float, ties to even; the sign of a zero is x's.
Rounded(x, y) ==
  LET w == Scale(x, y)
      low == Abs(x) \div (y * w)
      rest == 2 * (Abs(x) % (y * w))
      up == rest > y * w \/ (rest = y * w /\ low % 2 = 1)
      n == (IF up THEN low + 1 ELSE low) * w
  IN  IF n > MaxFloat THEN Infinity(Sign(x)) ELSE Finite(Sign(x) * n)
Floats ==
  {NaN, NegativeZero, Infinity(1), Infinity(-1)}
    \cup {Finite(n) : n \in {m \in (- MaxFloat) .. MaxFloat : Rounded(m, 1) = Finite(m)}}

IsZero(f) == f \in {Finite(0), NegativeZero}              \* is_zero_float
Numerator(f) == IF f[1] = "nzero" THEN 0 ELSE f[2]
AsFloat(i) == Rounded(i * Q, 1)                           \* i as f64
Negative(f) == f[1] = "nzero" \/ f[2] < 0
Signed(f, negative) == IF f = Finite(0) /\ negative THEN NegativeZero ELSE f

\* IEEE comparison: -1, 0, 1, or 2 for unordered (partial_cmp).
CompareFloat(a, b) ==
  LET Rank(f) == IF f[1] = "inf" THEN f[2] * (MaxFloat + 1) ELSE Numerator(f) IN
  IF NaN \in {a, b} THEN 2
  ELSE IF Rank(a) < Rank(b) THEN -1 ELSE IF Rank(a) > Rank(b) THEN 1 ELSE 0
CompareInt(a, b) == IF a < b THEN -1 ELSE IF a > b THEN 1 ELSE 0

MutantCompareRounded(i, f) == CompareFloat(AsFloat(i), f)
\* compare_i64_f64: the comparison of an Int with a Float, without rounding the Int.
CompareIntFloat(i, f) ==
  IF f = NaN THEN 2
  ELSE IF CompareFloat(f, Finite(Limit * Q)) >= 0 THEN -1
  ELSE IF CompareFloat(f, Finite(- Limit * Q)) < 0 THEN 1
  ELSE LET whole == Truncated(Numerator(f), Q) IN
       IF i # whole THEN CompareInt(i, whole)
       ELSE - CompareFloat(f, AsFloat(whole))
-----------------------------------------------------------------------------
AnInt(i) == [t |-> "Int", v |-> i]
AFloat(f) == [t |-> "Float", v |-> f]
ABool(b) == [t |-> "Bool", v |-> b]
AString(s) == [t |-> "String", v |-> s]                        \* a sequence of tokens
ASequence(model, targets) == [t |-> "Sequence", v |-> targets, model |-> model]
\* Errors: one the program may mean, and one only a missing check leaves possible.
Failure(why) == [t |-> "Failure", v |-> why]
Stuck(why) == [t |-> "Stuck", v |-> why]
IsError(x) == x.t \in {"Failure", "Stuck"}
IsNumber(x) == x.t \in {"Int", "Float"}

Arithmetic == {"+", "-", "*", "/"}
Orderings == {"<", "<=", ">", ">="}

\* numeric_cmp
Compare(a, b) ==
  CASE a.t = "Int" /\ b.t = "Int" -> CompareInt(a.v, b.v)
    [] a.t = "Float" /\ b.t = "Float" -> CompareFloat(a.v, b.v)
    [] a.t = "Int" /\ b.t = "Float" -> CompareIntFloat(a.v, b.v)
    [] OTHER -> LET c == CompareIntFloat(b.v, a.v) IN IF c = 2 THEN 2 ELSE - c

MutantApplyIntUnchecked(op, a, b) ==     \* the least Int divided by -1
  IF op # "/" /\ (CASE op = "+" -> a + b [] op = "-" -> a - b [] OTHER -> a * b) \notin Ints
  THEN Failure("overflow")
  ELSE CASE op = "+" -> AnInt(a + b) [] op = "-" -> AnInt(a - b) [] op = "*" -> AnInt(a * b)
         [] OTHER -> IF b = 0 THEN Failure("division by zero") ELSE AnInt(Truncated(a, b))
\* apply_int_binary
ApplyInt(op, a, b) ==
  LET r == CASE op = "+" -> a + b
             [] op = "-" -> a - b
             [] op = "*" -> a * b
             [] OTHER -> Truncated(a, b)
  IN  IF op = "/" /\ b = 0 THEN Failure("division by zero")
      ELSE IF r \in Ints THEN AnInt(r) ELSE Failure("overflow")

\* The IEEE operations on finite operands, then on the special ones.
FiniteResult(op, a, b) ==
  LET x == Numerator(a)
      y == Numerator(b)
      negative == Negative(a) # Negative(b)
  IN  CASE op = "+" -> IF x + y = 0 THEN Signed(Finite(0), Negative(a) /\ Negative(b))
                       ELSE Rounded(x + y, 1)
        [] op = "-" -> IF x = y THEN Signed(Finite(0), Negative(a) /\ ~ Negative(b))
                       ELSE Rounded(x - y, 1)
        [] op = "*" -> Signed(Rounded(x * y, Q), negative)
        [] OTHER -> Signed(Rounded(x * Q * Sign(y), Abs(y)), negative)
SpecialResult(op, a, b) ==
  LET flipped == IF b[1] = "inf" THEN Infinity(- b[2]) ELSE b
      sign == IF Negative(a) # Negative(b) THEN -1 ELSE 1
      Sum(x, y) == IF x[1] = "inf" /\ y[1] = "inf" /\ x # y THEN NaN
                   ELSE IF x[1] = "inf" THEN x ELSE y
  IN  IF NaN \in {a, b} THEN NaN
      ELSE CASE op = "+" -> Sum(a, b)
             [] op = "-" -> Sum(a, flipped)
             [] op = "*" -> IF IsZero(a) \/ IsZero(b) THEN NaN ELSE Infinity(sign)
             [] OTHER -> IF a[1] # "inf" THEN Signed(Finite(0), sign = -1)
                         ELSE IF b[1] = "inf" THEN NaN ELSE Infinity(sign)
IsFinite(f) == f[1] \in {"fin", "nzero"}
FloatResult(op, a, b) ==
  IF op = "/" /\ IsZero(b)
  THEN IF IsZero(a) \/ a = NaN THEN NaN
       ELSE Infinity(IF Negative(a) # Negative(b) THEN -1 ELSE 1)
  ELSE IF IsFinite(a) /\ IsFinite(b) THEN FiniteResult(op, a, b) ELSE SpecialResult(op, a, b)

\* apply_float_binary
ApplyFloat(op, a, b) ==
  IF op = "/" /\ IsZero(b) THEN Failure("division by zero") ELSE AFloat(FloatResult(op, a, b))

\* apply_arithmetic
ApplyArithmetic(op, a, b) ==
  CASE op = "+" /\ a.t = "String" /\ b.t = "String" -> AString(a.v \o b.v)
    [] a.t = "Int" /\ b.t = "Int" -> ApplyInt(op, a.v, b.v)
    [] a.t = "Int" /\ b.t = "Float" -> ApplyFloat(op, AsFloat(a.v), b.v)
    [] a.t = "Float" /\ b.t = "Int" -> ApplyFloat(op, a.v, AsFloat(b.v))
    [] a.t = "Float" /\ b.t = "Float" -> ApplyFloat(op, a.v, b.v)
    [] OTHER -> Stuck("operator not defined")
\* apply_equality
ApplyEquality(op, a, b) ==
  IF IsNumber(a) /\ IsNumber(b) THEN ABool((Compare(a, b) = 0) = (op = "=="))
  ELSE IF a.t = b.t /\ a.t \in {"Bool", "String", "Sequence"} THEN ABool((a = b) = (op = "=="))
  ELSE Stuck("operator not defined")
\* apply_ordering: false when unordered.
ApplyOrdering(op, a, b) ==
  IF ~ (IsNumber(a) /\ IsNumber(b)) THEN Stuck("operator not defined")
  ELSE LET c == Compare(a, b) IN
       ABool(c # 2 /\ CASE op = "<" -> c = -1
                       [] op = "<=" -> c # 1
                       [] op = ">" -> c = 1
                       [] OTHER -> c # -1)

\* apply_binary; `contains ignoring case` is left out, strings being tokens.
ApplyBinary(op, a, b) ==
  IF op \in Arithmetic THEN ApplyArithmetic(op, a, b)
  ELSE IF op \in Orderings THEN ApplyOrdering(op, a, b)
  ELSE IF op \in {"==", "!="} THEN ApplyEquality(op, a, b)
  ELSE IF op = "contains" /\ a.t = "String" /\ b.t = "String"
  THEN ABool(\E i \in 1 .. Len(a.v) + 1 : i + Len(b.v) - 1 <= Len(a.v)
                                       /\ SubSeq(a.v, i, i + Len(b.v) - 1) = b.v)
  ELSE IF a.t # "String" \/ b.t # "Sequence" THEN Stuck("operator not defined")
  ELSE LET places == {i \in DOMAIN b.v : b.v[i] = a.v}
           next == (CHOOSE i \in places : TRUE) + (IF op = "next in" THEN 1 ELSE -1)
       IN  IF op = "is in" THEN ABool(places # {})
           ELSE IF op \notin {"next in", "previous in"} THEN Stuck("operator not defined")
           ELSE IF a.v = <<>> \/ Cardinality(places) # 1 THEN Failure("anchor")
           ELSE IF next \in DOMAIN b.v THEN AString(b.v[next]) ELSE Failure("boundary")

\* float_semantically_equal and state_equivalent: whether a commit may keep the caches.
MutantSameFloatIEEE(a, b) == CompareFloat(a, b) = 0
SameFloat(a, b) == (IsZero(a) /\ IsZero(b)) \/ a = b
Equivalent(a, b) ==
  /\ a.t = b.t
  /\ IF a.t = "Float" THEN SameFloat(a.v, b.v) ELSE a = b

\* coerce_value
Coerced(x, type) ==
  IF IsError(x) THEN x
  ELSE IF x.t = "Int" /\ type.t = "Float" THEN AFloat(AsFloat(x.v))
  ELSE IF x.t = type.t /\ (x.t = "Sequence" => x.model = type.model) THEN x
  ELSE Stuck("cannot store")
=============================================================================
