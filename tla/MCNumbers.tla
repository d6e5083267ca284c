----------------------------- MODULE MCNumbers -----------------------------
\* Pairs of operands of every numeric type, with what makes the operators agree.
EXTENDS Numbers
VARIABLES left, right

Operands == {AnInt(i) : i \in Ints} \cup {AFloat(f) : f \in Floats}
Init == left \in Operands /\ right = left
Next == right' \in Operands /\ UNCHANGED left
vars == <<left, right>>
Spec == Init /\ [][Next]_vars

Apply(op, a, b) ==
  IF op \in Arithmetic THEN ApplyArithmetic(op, a, b)
  ELSE IF op \in Orderings THEN ApplyOrdering(op, a, b) ELSE ApplyEquality(op, a, b)
Operators == Arithmetic \cup Orderings \cup {"==", "!="}

\* The exact place of an operand on the line, in units of 1/Q.
Place(x) == IF x.t = "Int" THEN x.v * Q
            ELSE IF x.v[1] = "inf" THEN x.v[2] * (MaxFloat + Limit * Q) ELSE Numerator(x.v)
\* Comparison of numbers is comparison of the exact values, an Int with a Float too
\* (compare_i64_f64): neither side is rounded to meet the other.
ComparisonExact ==
  IF AFloat(NaN) \in {left, right} THEN Compare(left, right) = 2
  ELSE Compare(left, right) = CompareInt(Place(left), Place(right))
\* The cell keeps its caches exactly when no operator, alone or against any third
\* operand, could tell the new value from the old (float_semantically_equal in commit).
Alike(a, b) == IF IsError(a) THEN a = b ELSE ~ IsError(b) /\ Equivalent(a, b)
Indistinguishable ==
  left.t = right.t =>
    (Equivalent(left, right) <=>
       \A op \in Operators :
         /\ Alike(Apply(op, left, left), Apply(op, right, right))
         /\ \A third \in Operands : /\ Alike(Apply(op, left, third), Apply(op, right, third))
                                    /\ Alike(Apply(op, third, left), Apply(op, third, right)))
\* An operator on two numbers ends with a value of its type or a failure the program
\* can mean, and every Float it answers is representable.
Closed ==
  \A op \in Operators : LET r == Apply(op, left, right) IN
    CASE r.t = "Int" -> r.v \in Ints /\ left.t = "Int" /\ right.t = "Int"
      [] r.t = "Float" -> r.v \in Floats /\ "Float" \in {left.t, right.t}
      [] r.t = "Bool" -> op \notin Arithmetic
      [] OTHER -> r.t = "Failure" /\ op \in Arithmetic
=============================================================================
