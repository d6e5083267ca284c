--------------------------- MODULE NumbersProofs ---------------------------
(***************************************************************************)
(* Proofs about Numbers: that the comparison of an Int with a Float is     *)
(* that of the exact numbers, for every width of Int and every format of   *)
(* Float, and that no operator tells apart what a commit takes for the     *)
(* same.  What rounding does is needed in one place only: the whole part   *)
(* of a float is a float.                                                  *)
(***************************************************************************)
EXTENDS MCNumbers, InductionFacts

-----------------------------------------------------------------------------
(* Division and weights.                                                   *)

\* Euclidean division.
LEMMA Division ==
  ASSUME NEW a \in Nat, NEW q \in Nat \ {0}
  PROVE  /\ a \div q \in Nat /\ a % q \in 0 .. q - 1
         /\ a = q * (a \div q) + (a % q)
         /\ q * (a \div q) <= a /\ a < q * (a \div q) + q
OBVIOUS

\* A multiple is divided without a rest.
LEMMA ExactDivision ==
  ASSUME NEW a \in Nat, NEW q \in Nat \ {0}
  PROVE  (a * q) \div q = a /\ (a * q) % q = 0
OBVIOUS

\* A positive factor keeps the order.
LEMMA Products ==
  ASSUME NEW a \in Int, NEW b \in Int, NEW q \in Nat \ {0}
  PROVE  /\ a * q \in Int /\ b * q \in Int
         /\ a < b <=> a * q < b * q
         /\ a = b <=> a * q = b * q
OBVIOUS

\* The powers of two are defined as far as they are used.
LEMMA PowersAre ==
  LET n == Bits + Precision + Exponents IN
  /\ \A e \in 0 .. n : Power[e] \in Nat \ {0}
  /\ Power[0] = 1
  /\ \A e \in 1 .. n : Power[e] = 2 * Power[e - 1]
<1> DEFINE n == Bits + Precision + Exponents
           X == Nat \ {0}
           G == [i \in 1 .. n |-> [x \in X |-> 2 * x]]
           Rec(f) == f = [e \in 0 .. n |-> IF e = 0 THEN 1 ELSE 2 * f[e - 1]]
<1>1. n \in Nat
  BY NumbersAssumption
<1> HIDE DEF n
<1>2. 1 \in X /\ G \in [1 .. n -> [X -> X]]
  OBVIOUS
<1>3. PICK g : Recursion(g, n, X, 1, G)
  <2> HIDE DEF X, G
  <2> QED BY <1>1, <1>2, RecursionUpTo
<1>4. g \in [0 .. n -> X] /\ g[0] = 1 /\ \A e \in 1 .. n : g[e] = 2 * g[e - 1]
  <2>1. \A e \in 1 .. n : e - 1 \in 0 .. n
    BY <1>1
  <2> QED BY <1>3, <2>1 DEF Recursion
<1>5. Rec(g)
  BY <1>4
<1> HIDE DEF Rec
<1>6. Rec(Power)
  <2>1. Power = CHOOSE f : Rec(f)
    BY DEF Power, Rec, n
  <2> QED BY <1>5, <2>1
<1>7. /\ Power[0] = 1
      /\ \A e \in 1 .. n : Power[e] = 2 * Power[e - 1]
      /\ UpTo(Power, n)
  BY <1>1, <1>6 DEF Rec, UpTo
<1>8. Power = g
  <2>1. \A i \in 1 .. n : Power[i - 1] \in X => Power[i] = G[i][Power[i - 1]]
    BY <1>7
  <2> QED BY <1>3, <1>7, <2>1 DEF Recursion
<1> QED BY <1>4, <1>8 DEF n

\* A power of two is a multiple of every lesser one.
LEMMA PowersDivide ==
  ASSUME NEW d \in Nat, NEW e \in Nat, d <= e, e <= Bits + Precision + Exponents
  PROVE  /\ \E j \in Nat \ {0} : Power[e] = j * Power[d]
         /\ Power[d] <= Power[e]
         /\ d < e => Power[d] < Power[e]
<1> DEFINE n == Bits + Precision + Exponents
           T == {k \in 0 .. e - d : \E j \in Nat \ {0} : Power[d + k] = j * Power[d]}
<1>1. /\ n \in Nat
      /\ \A i \in 0 .. n : Power[i] \in Nat \ {0}
      /\ \A i \in 1 .. n : Power[i] = 2 * Power[i - 1]
  BY PowersAre, NumbersAssumption
<1> HIDE DEF n
<1>2. 0 \in T
  <2>1. d + 0 = d /\ Power[d] = 1 * Power[d]
    BY <1>1 DEF n
  <2> QED BY <2>1
<1>3. ASSUME NEW k \in 0 .. (e - d) - 1, k \in T
      PROVE  k + 1 \in T
  <2>1. PICK j \in Nat \ {0} : Power[d + k] = j * Power[d]
    BY <1>3
  <2>2. d + (k + 1) \in 1 .. n /\ (d + (k + 1)) - 1 = d + k /\ d \in 0 .. n
    BY <1>1 DEF n
  <2>3. Power[d + (k + 1)] = 2 * (j * Power[d])
    BY <1>1, <2>1, <2>2
  <2>4. Power[d + (k + 1)] = (2 * j) * Power[d] /\ 2 * j \in Nat \ {0}
    BY <1>1, <2>2, <2>3
  <2> QED BY <2>4
<1>4. \A k \in 0 .. e - d : \E j \in Nat \ {0} : Power[d + k] = j * Power[d]
  <2> HIDE DEF T
  <2>1. e - d \in Nat
    OBVIOUS
  <2>2. 0 .. e - d \subseteq T
    BY <1>2, <1>3, <2>1, InductionUpTo
  <2> QED BY <2>2 DEF T
<1>5. \A k \in 0 .. e - d : Power[d] <= Power[d + k] /\ Power[d + k] \in Nat
  <2> SUFFICES ASSUME NEW k \in 0 .. e - d
               PROVE  Power[d] <= Power[d + k] /\ Power[d + k] \in Nat
    OBVIOUS
  <2>1. PICK j \in Nat \ {0} : Power[d + k] = j * Power[d]
    BY <1>4
  <2>2. d \in 0 .. n /\ d + k \in 0 .. n
    BY <1>1 DEF n
  <2>3. Power[d] \in Nat /\ Power[d + k] \in Nat
    BY <1>1, <2>2
  <2>4. Power[d] <= j * Power[d]
    BY <2>3
  <2> QED BY <2>1, <2>3, <2>4
<1>6. e - d \in 0 .. e - d /\ d + (e - d) = e
  OBVIOUS
<1>7. ASSUME d < e PROVE Power[d] < Power[e]
  <2>1. (e - 1) - d \in 0 .. e - d /\ d + ((e - 1) - d) = e - 1 /\ e \in 1 .. n /\ e - 1 \in 0 .. n
    BY <1>1, <1>7 DEF n
  <2>2. Power[d] <= Power[e - 1] /\ Power[e - 1] \in Nat \ {0} /\ Power[e] = 2 * Power[e - 1]
    BY <1>1, <1>5, <2>1
  <2>3. d \in 0 .. n
    BY <1>1 DEF n
  <2> QED BY <1>1, <2>2, <2>3
<1> QED BY <1>4, <1>5, <1>6, <1>7

\* The weights are positive, the half of one above 1 is a weight, and a lesser weight is no
\* more than that half and divides the greater.
LEMMA WeightsChain ==
  /\ \A v \in Weights : /\ v \in Nat \ {0}
                        /\ v # 1 => /\ v \div 2 \in Weights /\ v \div 2 < v
                                    /\ v = 2 * (v \div 2)
                        /\ v <= Power[Exponents]
  /\ \A v, w \in Weights : /\ v < w => v <= w \div 2
                           /\ v <= w => \E j \in Nat \ {0} : w = j * v
  /\ Power[Exponents] \in Weights
<1> DEFINE n == Bits + Precision + Exponents
<1>1. /\ n \in Nat /\ Exponents \in Nat /\ Exponents <= n
      /\ Power[0] = 1
      /\ \A i \in 0 .. n : Power[i] \in Nat \ {0}
      /\ \A i \in 1 .. n : Power[i] = 2 * Power[i - 1]
  BY PowersAre, NumbersAssumption
<1> HIDE DEF n
<1>2. ASSUME NEW v \in Weights
      PROVE  /\ v \in Nat \ {0}
             /\ v # 1 => /\ v \div 2 \in Weights /\ v \div 2 < v
                         /\ v = 2 * (v \div 2)
             /\ v <= Power[Exponents]
  <2>1. PICK d \in 0 .. Exponents : v = Power[d]
    BY DEF Weights
  <2>2. v \in Nat \ {0}
    BY <1>1, <2>1
  <2>3. ASSUME v # 1
        PROVE  /\ v \div 2 \in Weights /\ v \div 2 < v
               /\ v = 2 * (v \div 2)
    <3>1. d \in 1 .. n /\ d - 1 \in 0 .. Exponents
      BY <1>1, <2>1, <2>3
    <3>2. v = 2 * Power[d - 1] /\ Power[d - 1] \in Nat \ {0}
      BY <1>1, <2>1, <3>1
    <3>3. v \div 2 = Power[d - 1]
      BY <3>2
    <3> QED BY <3>1, <3>2, <3>3 DEF Weights
  <2>4. v <= Power[Exponents]
    BY <1>1, <2>1, PowersDivide DEF n
  <2> QED BY <2>2, <2>3, <2>4
<1>3. ASSUME NEW v \in Weights, NEW w \in Weights
      PROVE  /\ v < w => v <= w \div 2
             /\ v <= w => \E j \in Nat \ {0} : w = j * v
  <2>1. PICK d \in 0 .. Exponents : v = Power[d]
    BY DEF Weights
  <2>2. PICK e \in 0 .. Exponents : w = Power[e]
    BY DEF Weights
  <2>3. v \in Nat /\ w \in Nat
    BY <1>2
  <2>4. ASSUME v <= w PROVE d <= e
    <3> SUFFICES ASSUME e < d PROVE FALSE
      BY <1>1
    <3>1. Power[e] < Power[d]
      BY <1>1, PowersDivide DEF n
    <3> QED BY <2>1, <2>2, <2>3, <2>4, <3>1
  <2>5. ASSUME v < w PROVE v <= w \div 2
    <3>1. d < e
      BY <1>1, <2>1, <2>2, <2>3, <2>4, <2>5
    <3>2. e \in 1 .. n /\ e - 1 \in 0 .. n /\ d <= e - 1
      BY <1>1, <3>1
    <3>3. Power[d] <= Power[e - 1]
      BY <1>1, <3>2, PowersDivide DEF n
    <3>4. w = 2 * Power[e - 1] /\ Power[e - 1] \in Nat
      BY <1>1, <2>2, <3>2
    <3> QED BY <2>1, <2>3, <3>3, <3>4
  <2>6. ASSUME v <= w PROVE \E j \in Nat \ {0} : w = j * v
    <3>1. d \in Nat /\ e \in Nat /\ d <= e /\ e <= Bits + Precision + Exponents
      BY <1>1, <2>4, <2>6 DEF n
    <3>2. \E j \in Nat \ {0} : Power[e] = j * Power[d]
      BY <3>1, PowersDivide
    <3> QED BY <2>1, <2>2, <3>2
  <2> QED BY <2>5, <2>6
<1>4. Power[Exponents] \in Weights
  BY <1>1 DEF Weights
<1> QED BY <1>2, <1>3, <1>4

\* The sizes of the types: what the assumptions come to.
LEMMA Sizes ==
  /\ Q \in Nat \ {0} /\ Q \in Weights /\ MaxFloat \in Nat
  /\ Limit \in Nat /\ Limit >= 2 /\ Limit * Q \in Nat \ {0} /\ Limit * Q <= MaxFloat
  /\ Power[Precision] \in Nat \ {0}
  /\ \E h \in Nat \ {0} : Power[Precision] = 2 * h
  /\ Power[Exponents] \in Nat \ {0}
  /\ MaxFloat * MaxFloat < Power[Exponents] * Power[Precision]
  /\ MaxFloat + MaxFloat < Power[Exponents] * Power[Precision]
<1> DEFINE n == Bits + Precision + Exponents
<1>1. /\ Bits - 1 \in 1 .. n /\ Bits - 2 \in 0 .. n
      /\ Precision \in 1 .. n /\ Precision - 1 \in 0 .. n /\ Exponents \in 0 .. n
      /\ Q \in Nat \ {0} /\ MaxFloat \in Nat
      /\ (Bits - 1) - 1 = Bits - 2
  BY NumbersAssumption
<1>2. /\ \A i \in 0 .. n : Power[i] \in Nat \ {0}
      /\ \A i \in 1 .. n : Power[i] = 2 * Power[i - 1]
  BY PowersAre
<1> HIDE DEF n
<1>3. Limit \in Nat /\ Limit >= 2
  <2>1. Power[Bits - 1] = 2 * Power[Bits - 2] /\ Power[Bits - 2] \in Nat \ {0}
    BY <1>1, <1>2
  <2> QED BY <2>1 DEF Limit
<1>4. Power[Precision] = 2 * Power[Precision - 1] /\ Power[Precision - 1] \in Nat \ {0}
  BY <1>1, <1>2
<1>5. Limit * Q \in Nat \ {0} /\ Limit * Q >= 2
  BY <1>1, <1>3
<1>6. MaxFloat >= 2
  BY <1>1, <1>5, FloatAssumption
<1>7. MaxFloat + MaxFloat <= MaxFloat * MaxFloat
  BY <1>1, <1>6
<1>8. Power[Exponents] * Power[Precision] \in Nat /\ MaxFloat * MaxFloat \in Nat
  BY <1>1, <1>2
<1> QED BY <1>1, <1>2, <1>3, <1>4, <1>5, <1>7, <1>8, FloatAssumption

-----------------------------------------------------------------------------
(* Rounding.                                                               *)

\* The least weight that reaches beyond x/y is its scale.
LEMMA ScaleExists ==
  ASSUME NEW x \in Int, NEW y \in Nat \ {0},
         Abs(x) < y * (Power[Exponents] * Power[Precision])
  PROVE  /\ Scale(x, y) \in Weights
         /\ Abs(x) < y * Scale(x, y) * Power[Precision]
         /\ Scale(x, y) = 1 \/ Abs(x) >= y * (Scale(x, y) \div 2) * Power[Precision]
<1> DEFINE P == Power[Precision]
           T == {w \in Weights : Abs(x) < y * w * P}
<1>1. P \in Nat \ {0} /\ Power[Exponents] \in Nat \ {0} /\ Abs(x) \in Nat
  BY Sizes DEF Abs
<1>2. T \in SUBSET Nat /\ T # {}
  <2>1. Power[Exponents] \in Weights /\ Weights \subseteq Nat
    BY WeightsChain
  <2>2. y * (Power[Exponents] * P) = y * Power[Exponents] * P
    BY <1>1
  <2>3. Power[Exponents] \in T /\ T \subseteq Weights
    BY <2>1, <2>2
  <2> HIDE DEF T
  <2> QED BY <2>1, <2>3
<1>3. PICK w \in T : \A v \in T : w <= v
  <2> HIDE DEF T
  <2>1. \E w \in T : \A v \in T : w <= v
    BY <1>2, LeastNumber
  <2> QED BY <2>1
<1>4. w = 1 \/ Abs(x) >= y * (w \div 2) * P
  <2> SUFFICES ASSUME w # 1, ~ (Abs(x) >= y * (w \div 2) * P) PROVE FALSE
    OBVIOUS
  <2>1. w \div 2 \in Weights /\ w \div 2 < w /\ w \in Nat
    BY WeightsChain
  <2>2. w \div 2 \in Nat
    BY <2>1, WeightsChain
  <2> HIDE DEF P
  <2>3. y * (w \div 2) * P \in Nat
    BY <1>1, <2>2
  <2>4. w \div 2 \in T
    BY <1>1, <2>1, <2>3
  <2> QED BY <1>3, <2>1, <2>2, <2>4
<1> QED BY <1>3, <1>4 DEF Scale

\* w is the weight of the last bit kept of x.
IsScale(x, w) ==
  /\ w \in Weights
  /\ Abs(x) < w * Power[Precision]
  /\ w = 1 \/ Abs(x) >= (w \div 2) * Power[Precision]

\* The scale of a whole number of units.
LEMMA ScaleOfUnits ==
  ASSUME NEW x \in Int, Abs(x) <= MaxFloat + MaxFloat
  PROVE  IsScale(x, Scale(x, 1))
<1>1. Abs(x) < 1 * (Power[Exponents] * Power[Precision])
  BY Sizes DEF Abs
<1>2. /\ Scale(x, 1) \in Weights
      /\ Abs(x) < 1 * Scale(x, 1) * Power[Precision]
      /\ Scale(x, 1) = 1 \/ Abs(x) >= 1 * (Scale(x, 1) \div 2) * Power[Precision]
  BY <1>1, ScaleExists
<1>3. \A v \in Weights : 1 * v = v /\ 1 * (v \div 2) = v \div 2
  BY WeightsChain
<1> QED BY <1>2, <1>3 DEF IsScale

\* The numerators of floats are within the reach of the weights.
LEMMA FloatInReach ==
  ASSUME NEW n \in (- MaxFloat) .. MaxFloat
  PROVE  /\ n \in Int /\ Abs(n) \in Nat /\ Abs(n) <= MaxFloat
         /\ IsScale(n, Scale(n, 1))
<1>1. MaxFloat \in Nat
  BY Sizes
<1>2. n \in Int /\ Abs(n) \in Nat /\ Abs(n) <= MaxFloat /\ Abs(n) <= MaxFloat + MaxFloat
  BY <1>1 DEF Abs
<1> QED BY <1>2, ScaleOfUnits

\* A float is a multiple of its last bit.
LEMMA FloatIsMultiple ==
  ASSUME NEW n \in (- MaxFloat) .. MaxFloat, Rounded(n, 1) = Finite(n)
  PROVE  \E k \in Nat : Abs(n) = k * Scale(n, 1)
<1>1. n \in Int /\ IsScale(n, Scale(n, 1)) /\ Abs(n) \in Nat
  BY FloatInReach
<1> DEFINE w == Scale(n, 1)
           low == Abs(n) \div (1 * w)
           rest == 2 * (Abs(n) % (1 * w))
           up == rest > 1 * w \/ (rest = 1 * w /\ low % 2 = 1)
           k == IF up THEN low + 1 ELSE low
<1>2. w \in Nat \ {0}
  BY <1>1, WeightsChain DEF IsScale
<1>3. Rounded(n, 1) = IF k * w > MaxFloat THEN Infinity(Sign(n)) ELSE Finite(Sign(n) * (k * w))
  BY DEF Rounded
<1>4. k \in Nat
  <2> HIDE DEF w
  <2>1. 1 * w = w
    BY <1>2
  <2>2. low \in Nat
    BY <1>1, <1>2, <2>1, Division
  <2> QED BY <2>2
<1> HIDE DEF w, k
<1>5. n = Sign(n) * (k * w)
  BY <1>3 DEF Finite, Infinity
<1>6. k * w \in Nat
  BY <1>2, <1>4
<1>7. Abs(n) = k * w
  BY <1>1, <1>5, <1>6 DEF Sign, Abs
<1> QED BY <1>4, <1>7 DEF w

\* A multiple of the last bit is a float.
LEMMA MultipleIsFloat ==
  ASSUME NEW n \in (- MaxFloat) .. MaxFloat,
         NEW k \in Nat, Abs(n) = k * Scale(n, 1)
  PROVE  Rounded(n, 1) = Finite(n)
<1>1. n \in Int /\ IsScale(n, Scale(n, 1)) /\ Abs(n) \in Nat /\ Abs(n) <= MaxFloat
  BY FloatInReach
<1> DEFINE w == Scale(n, 1)
           low == Abs(n) \div (1 * w)
           rest == 2 * (Abs(n) % (1 * w))
           up == rest > 1 * w \/ (rest = 1 * w /\ low % 2 = 1)
           r == (IF up THEN low + 1 ELSE low) * w
<1>2. w \in Nat \ {0} /\ Abs(n) = k * w
  BY <1>1, WeightsChain DEF IsScale
<1>3. Rounded(n, 1) = IF r > MaxFloat THEN Infinity(Sign(n)) ELSE Finite(Sign(n) * r)
  BY DEF Rounded
<1> HIDE DEF w
<1>4. 1 * w = w /\ low = k /\ Abs(n) % (1 * w) = 0
  BY <1>2, ExactDivision
<1>5. rest = 0 /\ ~ up
  BY <1>2, <1>4
<1>6. r = Abs(n)
  BY <1>2, <1>4, <1>5
<1> HIDE DEF r
<1>7. Sign(n) * r = n /\ ~ (r > MaxFloat)
  BY <1>1, <1>6, Sizes DEF Sign, Abs
<1> QED BY <1>3, <1>7

\* The whole part of n units, in units, lies between 0 and n, less than 1 from n.
LEMMA WholePart ==
  ASSUME NEW n \in Int
  PROVE  /\ Truncated(n, Q) \in Int
         /\ Truncated(n, Q) * Q \in Int
         /\ Abs(Truncated(n, Q) * Q) = (Abs(n) \div Q) * Q
         /\ n >= 0 => 0 <= Truncated(n, Q) * Q /\ Truncated(n, Q) * Q <= n
                      /\ n < Truncated(n, Q) * Q + Q
         /\ n < 0 => Truncated(n, Q) * Q <= 0 /\ Truncated(n, Q) * Q >= n
                     /\ n > Truncated(n, Q) * Q - Q
<1>1. Q \in Nat \ {0} /\ Abs(n) \in Nat /\ Abs(Q) = Q /\ Sign(Q) = 1
  BY Sizes DEF Abs, Sign
<1> DEFINE d == Abs(n) \div Q
<1>2. /\ d \in Nat
      /\ Q * d <= Abs(n) /\ Abs(n) < Q * d + Q
  BY <1>1, Division
<1>3. Truncated(n, Q) = Sign(n) * 1 * d
  BY <1>1 DEF Truncated
<1> HIDE DEF d
<1>4. d * Q = Q * d /\ d * Q \in Nat
  BY <1>1, <1>2
<1>5. CASE n >= 0
  <2>1. Truncated(n, Q) = d /\ Abs(n) = n
    BY <1>2, <1>3, <1>5 DEF Sign, Abs
  <2>2. Abs(d * Q) = d * Q
    BY <1>4 DEF Abs
  <2> QED BY <1>1, <1>2, <1>4, <1>5, <2>1, <2>2 DEF d
<1>6. CASE n < 0
  <2>1. Truncated(n, Q) = - d /\ Abs(n) = - n
    BY <1>2, <1>3, <1>6 DEF Sign, Abs
  <2>2. (- d) * Q = - (d * Q)
    BY <1>1, <1>2
  <2>3. Abs((- d) * Q) = d * Q
    BY <1>4, <2>2 DEF Abs
  <2> QED BY <1>1, <1>2, <1>4, <1>6, <2>1, <2>2, <2>3 DEF d
<1> QED BY <1>5, <1>6

\* The whole part of a float is a float: the bits that truncation clears are the last.
LEMMA WholeIsFloat ==
  ASSUME NEW n \in (- MaxFloat) .. MaxFloat, Rounded(n, 1) = Finite(n)
  PROVE  AsFloat(Truncated(n, Q)) = Finite(Truncated(n, Q) * Q)
<1> DEFINE m == Truncated(n, Q) * Q
           d == Abs(n) \div Q
           w == Scale(n, 1)
           v == Scale(m, 1)
           P == Power[Precision]
<1>1. n \in Int /\ IsScale(n, w) /\ Abs(n) \in Nat /\ Abs(n) <= MaxFloat
  BY FloatInReach
<1>2. PICK k \in Nat : Abs(n) = k * w
  BY FloatIsMultiple
<1>3. Q \in Nat \ {0} /\ Q \in Weights /\ P \in Nat \ {0} /\ MaxFloat \in Nat
  BY Sizes
<1>4. /\ d \in Nat /\ m \in Int /\ Abs(m) = d * Q /\ Abs(m) <= Abs(n)
  <2>1. \A a \in Nat, q \in Nat \ {0} :
          a \div q \in Nat /\ q * (a \div q) <= a /\ q * (a \div q) = (a \div q) * q
    BY Division
  <2>2. d \in Nat /\ Q * d <= Abs(n) /\ Q * d = d * Q
    BY <1>1, <1>3, <2>1
  <2> QED BY <1>1, <2>2, WholePart
<1> HIDE DEF m, d
<1>5. m \in (- MaxFloat) .. MaxFloat
  BY <1>1, <1>3, <1>4 DEF Abs
<1>6. IsScale(m, v) /\ Abs(m) \in Nat
  BY <1>5, FloatInReach
<1> HIDE DEF w, v, P
<1>7. /\ w \in Weights /\ v \in Weights /\ w \in Nat \ {0} /\ v \in Nat \ {0}
      /\ Abs(n) < w * P
      /\ v = 1 \/ Abs(m) >= (v \div 2) * P
  BY <1>1, <1>6, WeightsChain DEF IsScale, P
<1>8. v <= w
  <2> SUFFICES ASSUME w < v PROVE FALSE
    BY <1>7
  <2>1. v # 1 /\ w <= v \div 2 /\ v \div 2 \in Nat
    BY <1>7, WeightsChain
  <2>2. w * P <= (v \div 2) * P
    BY <1>3, <1>7, <2>1
  <2>3. w * P \in Nat /\ (v \div 2) * P \in Nat
    BY <1>3, <1>7, <2>1
  <2> QED BY <1>1, <1>4, <1>6, <1>7, <2>1, <2>2, <2>3
<1>9. \E j \in Nat : Abs(m) = j * v
  <2>1. PICK i \in Nat \ {0} : w = i * v
    BY <1>7, <1>8, WeightsChain
  <2>2. CASE Q <= w
    <3>1. PICK j \in Nat \ {0} : w = j * Q
      BY <1>3, <1>7, <2>2, WeightsChain
    <3>2. Abs(n) = (k * j) * Q /\ k * j \in Nat
      BY <1>2, <1>3, <3>1
    <3>3. d = k * j
      BY <1>3, <3>2, ExactDivision DEF d
    <3>4. Abs(m) = k * (i * v)
      BY <1>2, <1>4, <2>1, <3>2, <3>3
    <3>5. Abs(m) = (k * i) * v /\ k * i \in Nat
      BY <1>7, <2>1, <3>4
    <3> QED BY <3>5
  <2>3. CASE w <= Q
    <3>1. PICK j \in Nat \ {0} : Q = j * w
      BY <1>3, <1>7, <2>3, WeightsChain
    <3>2. Abs(m) = d * (j * (i * v))
      BY <1>4, <2>1, <3>1
    <3>3. Abs(m) = (d * (j * i)) * v /\ d * (j * i) \in Nat
      <4>1. d * (j * (i * v)) = (d * (j * i)) * v
        BY <1>4, <1>7, <2>1, <3>1
      <4>2. j * i \in Nat
        BY <2>1, <3>1
      <4> QED BY <1>4, <3>2, <4>1, <4>2
    <3> QED BY <3>3
  <2> QED BY <1>3, <1>7, <2>2, <2>3
<1>10. Rounded(m, 1) = Finite(m)
  BY <1>5, <1>9, MultipleIsFloat DEF v
<1> QED BY <1>10 DEF AsFloat, m


-----------------------------------------------------------------------------
(* Comparison.                                                             *)

\* The place of a float among the floats, by which CompareFloat compares.
Rank(f) == IF f[1] = "inf" THEN f[2] * (MaxFloat + 1) ELSE Numerator(f)

\* The bounds of Int.
LEMMA IntBounds ==
  \A i \in Ints : i \in Int /\ - Limit <= i /\ i < Limit
BY Sizes DEF Ints

\* A float is a NaN, a zero, an infinity or a multiple of the unit that rounding leaves alone.
LEMMA FloatsAre ==
  ASSUME NEW f \in Floats
  PROVE  \/ f = NaN \/ f = NegativeZero \/ f = Infinity(1) \/ f = Infinity(-1)
         \/ \E n \in (- MaxFloat) .. MaxFloat : f = Finite(n) /\ Rounded(n, 1) = Finite(n)
BY DEF Floats

\* A float other than NaN stands where its rank says, among the floats and on the line.
LEMMA FloatPlaces ==
  ASSUME NEW f \in Floats \ {NaN}
  PROVE  \/ /\ f[1] = "inf" /\ f[2] = 1
            /\ Rank(f) = MaxFloat + 1
            /\ Place(AFloat(f)) = MaxFloat + Limit * Q
         \/ /\ f[1] = "inf" /\ f[2] = -1
            /\ Rank(f) = - (MaxFloat + 1)
            /\ Place(AFloat(f)) = - (MaxFloat + Limit * Q)
         \/ /\ f[1] # "inf"
            /\ Rank(f) = Numerator(f) /\ Place(AFloat(f)) = Numerator(f)
            /\ Numerator(f) \in (- MaxFloat) .. MaxFloat
            /\ Rounded(Numerator(f), 1) = Finite(Numerator(f))
<1>1. MaxFloat \in Nat /\ Limit * Q \in Nat
  BY Sizes, IntBounds
<1>2. CASE f = Infinity(1)
  BY <1>1, <1>2 DEF Infinity, Rank, Place, AFloat
<1>3. CASE f = Infinity(-1)
  BY <1>1, <1>3 DEF Infinity, Rank, Place, AFloat
<1>4. CASE f = NegativeZero
  <2>1. 0 \in (- MaxFloat) .. MaxFloat /\ Abs(0) = 0 * Scale(0, 1)
    <3>1. 0 \in (- MaxFloat) .. MaxFloat
      BY <1>1
    <3>2. Scale(0, 1) \in Nat
      BY <3>1, FloatInReach, WeightsChain DEF IsScale
    <3> QED BY <3>1, <3>2 DEF Abs
  <2>2. Rounded(0, 1) = Finite(0)
    BY <2>1, MultipleIsFloat
  <2> QED BY <1>4, <2>1, <2>2 DEF NegativeZero, Rank, Place, AFloat, Numerator
<1>5. ASSUME NEW n \in (- MaxFloat) .. MaxFloat, f = Finite(n), Rounded(n, 1) = Finite(n)
      PROVE  /\ f[1] # "inf"
             /\ Rank(f) = Numerator(f) /\ Place(AFloat(f)) = Numerator(f)
             /\ Numerator(f) \in (- MaxFloat) .. MaxFloat
             /\ Rounded(Numerator(f), 1) = Finite(Numerator(f))
  <2>1. f[1] = "fin" /\ f[2] = n
    BY <1>5 DEF Finite
  <2>2. Numerator(f) = n
    BY <2>1 DEF Numerator
  <2> QED BY <1>5, <2>1, <2>2 DEF Rank, Place, AFloat
<1> QED BY <1>2, <1>3, <1>4, <1>5, FloatsAre

\* Floats other than NaN compare by their ranks.
LEMMA CompareByRank ==
  ASSUME NEW f, NEW g, f # NaN, g # NaN
  PROVE  CompareFloat(f, g) = CompareInt(Rank(f), Rank(g))
BY DEF CompareFloat, CompareInt, Rank

\* A finite numerator has itself for a rank.
LEMMA RankOfFinite ==
  ASSUME NEW n
  PROVE  Finite(n) # NaN /\ Rank(Finite(n)) = n
BY DEF Finite, NaN, Rank, Numerator

\* compare_i64_f64 compares the exact numbers.
LEMMA MixedExact ==
  ASSUME NEW i \in Ints, NEW f \in Floats \ {NaN}
  PROVE  CompareIntFloat(i, f) = CompareInt(i * Q, Place(AFloat(f)))
<1> DEFINE L == Limit * Q
           r == Rank(f)
           n == Numerator(f)
           T == Truncated(n, Q)
<1>1. /\ Q \in Nat \ {0} /\ MaxFloat \in Nat /\ L \in Nat \ {0} /\ L <= MaxFloat
      /\ i \in Int /\ i * Q \in Int /\ - L <= i * Q /\ i * Q < L
  <2>1. Q \in Nat \ {0} /\ Limit \in Nat \ {0} /\ i \in Int /\ - Limit <= i /\ i < Limit
    BY Sizes, IntBounds
  <2>2. i * Q < Limit * Q /\ ~ (i * Q < (- Limit) * Q)
    BY <2>1, Products
  <2>3. (- Limit) * Q = - (Limit * Q)
    BY <2>1
  <2> QED BY <2>1, <2>2, <2>3, Sizes, IntBounds
<1>2. /\ CompareFloat(f, Finite(Limit * Q)) = CompareInt(r, L)
      /\ CompareFloat(f, Finite(- Limit * Q)) = CompareInt(r, - Limit * Q)
  BY CompareByRank, RankOfFinite
<1>3. - Limit * Q = - L
  BY Sizes, IntBounds
<1>4. CompareIntFloat(i, f) =
        IF CompareInt(r, L) >= 0 THEN -1
        ELSE IF CompareInt(r, - L) < 0 THEN 1
        ELSE IF i # T THEN CompareInt(i, T) ELSE - CompareFloat(f, AsFloat(T))
  BY <1>2, <1>3 DEF CompareIntFloat
<1>5. CASE f[1] = "inf"
  <2>1. \/ r = MaxFloat + 1 /\ Place(AFloat(f)) = MaxFloat + L
        \/ r = - (MaxFloat + 1) /\ Place(AFloat(f)) = - (MaxFloat + L)
    BY <1>5, FloatPlaces
  <2> HIDE DEF L, r, T, n
  <2>2. CASE r = MaxFloat + 1 /\ Place(AFloat(f)) = MaxFloat + L
    <3>1. CompareInt(r, L) = 1 /\ CompareInt(i * Q, MaxFloat + L) = -1
      BY <1>1, <2>2 DEF CompareInt
    <3> QED BY <1>4, <2>2, <3>1
  <2>3. CASE r = - (MaxFloat + 1) /\ Place(AFloat(f)) = - (MaxFloat + L)
    <3>1. /\ CompareInt(r, L) = -1 /\ CompareInt(r, - L) = -1
          /\ CompareInt(i * Q, - (MaxFloat + L)) = 1
      BY <1>1, <2>3 DEF CompareInt
    <3> QED BY <1>4, <2>3, <3>1
  <2> QED BY <2>1, <2>2, <2>3
<1>6. CASE f[1] # "inf"
  <2>1. /\ r = n /\ Place(AFloat(f)) = n
        /\ n \in (- MaxFloat) .. MaxFloat
        /\ Rounded(n, 1) = Finite(n)
    BY <1>6, FloatPlaces
  <2>2. n \in Int
    BY <1>1, <2>1
  <2> HIDE DEF n
  <2>3. /\ T \in Int /\ T * Q \in Int
        /\ n >= 0 => T * Q <= n /\ n < T * Q + Q /\ 0 <= T * Q
        /\ n < 0 => T * Q >= n /\ n > T * Q - Q /\ T * Q <= 0
    BY <2>2, WholePart
  <2>4. AsFloat(T) = Finite(T * Q)
    BY <2>1, WholeIsFloat
  <2>5. CompareFloat(f, AsFloat(T)) = CompareInt(n, T * Q)
    BY <2>1, <2>4, CompareByRank, RankOfFinite
  <2> HIDE DEF L, r, T
  <2>6. CASE n >= L
    <3>1. CompareInt(n, L) >= 0 /\ CompareInt(i * Q, n) = -1
      BY <1>1, <2>2, <2>6 DEF CompareInt
    <3> QED BY <1>4, <2>1, <3>1
  <2>7. CASE n < - L
    <3>1. ~ (CompareInt(n, L) >= 0) /\ CompareInt(n, - L) < 0 /\ CompareInt(i * Q, n) = 1
      BY <1>1, <2>2, <2>7 DEF CompareInt
    <3> QED BY <1>4, <2>1, <3>1
  <2>8. CASE - L <= n /\ n < L
    <3>1. ~ (CompareInt(n, L) >= 0) /\ ~ (CompareInt(n, - L) < 0)
      BY <1>1, <2>2, <2>8 DEF CompareInt
    <3>2. CompareIntFloat(i, f) = IF i # T THEN CompareInt(i, T) ELSE - CompareInt(n, T * Q)
      BY <1>4, <2>1, <2>5, <3>1
    <3>3. CASE i < T
      <4>1. i + 1 <= T /\ (i + 1) * Q <= T * Q /\ (i + 1) * Q = i * Q + Q
        <5>1. i + 1 \in Int /\ i + 1 <= T
          BY <1>1, <2>3, <3>3
        <5>2. ~ (T * Q < (i + 1) * Q)
          BY <1>1, <2>3, <5>1, Products
        <5>3. (i + 1) * Q = i * Q + Q
          BY <1>1
        <5> QED BY <1>1, <2>3, <5>1, <5>2, <5>3
      <4>2. i * Q < n
        BY <1>1, <2>2, <2>3, <4>1
      <4> QED BY <1>1, <2>1, <2>2, <2>3, <3>2, <3>3, <4>2 DEF CompareInt
    <3>4. CASE T < i
      <4>1. T + 1 <= i /\ (T + 1) * Q <= i * Q /\ (T + 1) * Q = T * Q + Q
        <5>1. T + 1 \in Int /\ T + 1 <= i
          BY <1>1, <2>3, <3>4
        <5>2. ~ (i * Q < (T + 1) * Q)
          BY <1>1, <2>3, <5>1, Products
        <5>3. (T + 1) * Q = T * Q + Q
          BY <1>1, <2>3
        <5> QED BY <1>1, <2>3, <5>1, <5>2, <5>3
      <4>2. i * Q > n
        BY <1>1, <2>2, <2>3, <4>1
      <4> QED BY <1>1, <2>1, <2>2, <2>3, <3>2, <3>4, <4>2 DEF CompareInt
    <3>5. CASE i = T
      <4>1. - CompareInt(n, T * Q) = CompareInt(T * Q, n)
        BY <2>2, <2>3 DEF CompareInt
      <4> QED BY <2>1, <3>2, <3>5, <4>1
    <3> QED BY <1>1, <2>3, <3>3, <3>4, <3>5
  <2> QED BY <1>1, <2>2, <2>6, <2>7, <2>8
<1> QED BY <1>5, <1>6

\* An operand is an Int or a Float, as its t says.
LEMMA OperandsAre ==
  ASSUME NEW x \in Operands
  PROVE  \/ x.t = "Int" /\ x.v \in Ints /\ x = AnInt(x.v)
         \/ x.t = "Float" /\ x.v \in Floats /\ x = AFloat(x.v)
BY DEF Operands, AnInt, AFloat

\* Compare is CompareInt of the places, for operands none of which is NaN.
LEMMA CompareByPlace ==
  ASSUME NEW a \in Operands, NEW b \in Operands, a # AFloat(NaN), b # AFloat(NaN)
  PROVE  Compare(a, b) = CompareInt(Place(a), Place(b))
<1>1. /\ \A x \in Operands : x.t = "Int" =>
            /\ Place(x) = x.v * Q /\ x.v \in Ints /\ x.v \in Int /\ x.v * Q \in Int
      /\ \A x \in Operands \ {AFloat(NaN)} : x.t = "Float" =>
            /\ Place(x) = Place(AFloat(x.v)) /\ x.v \in Floats \ {NaN}
      /\ Q \in Nat \ {0}
  BY OperandsAre, Sizes, IntBounds DEF Place
<1>2. CASE a.t = "Int" /\ b.t = "Int"
  <2>1. Compare(a, b) = CompareInt(a.v, b.v)
    BY <1>2 DEF Compare
  <2>2. CompareInt(a.v, b.v) = CompareInt(a.v * Q, b.v * Q)
    BY <1>1, <1>2, Products DEF CompareInt
  <2> QED BY <1>1, <1>2, <2>1, <2>2
<1>3. CASE a.t = "Float" /\ b.t = "Float"
  <2>1. Compare(a, b) = CompareInt(Rank(a.v), Rank(b.v))
    BY <1>1, <1>3, CompareByRank DEF Compare
  <2>2. CompareInt(Rank(a.v), Rank(b.v)) = CompareInt(Place(AFloat(a.v)), Place(AFloat(b.v)))
    <3>1. a.v \in Floats \ {NaN} /\ b.v \in Floats \ {NaN}
      BY <1>1, <1>3
    <3> DEFINE f == a.v
               g == b.v
    <3> HIDE DEF f, g
    <3>2. CompareInt(Rank(f), Rank(g)) = CompareInt(Place(AFloat(f)), Place(AFloat(g)))
      BY <3>1, FloatPlaces, Sizes, IntBounds DEF CompareInt, f, g
    <3> QED BY <3>2 DEF f, g
  <2> QED BY <1>1, <1>3, <2>1, <2>2
<1>4. CASE a.t = "Int" /\ b.t = "Float"
  <2>1. Compare(a, b) = CompareIntFloat(a.v, b.v)
    BY <1>4 DEF Compare
  <2> QED BY <1>1, <1>4, <2>1, MixedExact
<1>5. CASE a.t = "Float" /\ b.t = "Int"
  <2>1. CompareIntFloat(b.v, a.v) = CompareInt(Place(b), Place(a))
    BY <1>1, <1>5, MixedExact
  <2>2. Place(a) \in Int /\ Place(b) \in Int
    BY <1>1, <1>5, FloatPlaces, Sizes, IntBounds
  <2>3. /\ CompareInt(Place(b), Place(a)) # 2
        /\ - CompareInt(Place(b), Place(a)) = CompareInt(Place(a), Place(b))
    BY <2>2 DEF CompareInt
  <2>4. Compare(a, b) = LET c == CompareIntFloat(b.v, a.v) IN IF c = 2 THEN 2 ELSE - c
    BY <1>5 DEF Compare
  <2> QED BY <2>1, <2>3, <2>4
<1> QED BY <1>2, <1>3, <1>4, <1>5, OperandsAre

\* Nothing compares with NaN.
LEMMA CompareNaN ==
  ASSUME NEW a \in Operands, NEW b \in Operands, AFloat(NaN) \in {a, b}
  PROVE  Compare(a, b) = 2
<1>1. AFloat(NaN).t = "Float" /\ AFloat(NaN).v = NaN
  BY DEF AFloat
<1> QED BY <1>1, OperandsAre DEF Compare, CompareFloat, CompareIntFloat

\* What the operators are given in a state.
Given == left \in Operands /\ right \in Operands

\* The operands of every state are operands.
LEMMA OperandsStay ==
  Spec => []Given
<1>1. Init => Given
  BY DEF Init, Given
<1>2. Given /\ [Next]_vars => Given'
  BY DEF Next, vars, Given
<1> QED BY <1>1, <1>2, PTL DEF Spec

\* Two numbers compare as the exact values do, whatever the widths of Int and of Float: an Int
\* meets a Float without being rounded (compare_i64_f64), and NaN is above and below nothing.
THEOREM ComparesExactly == Spec => []ComparisonExact
<1>1. Given => ComparisonExact
  BY CompareByPlace, CompareNaN DEF ComparisonExact, Given
<1> QED BY <1>1, OperandsStay, PTL


-----------------------------------------------------------------------------
(* What a commit takes for the same.                                       *)

\* What float_semantically_equal leaves alike: everything but the sign of a zero.
LEMMA SameFloats ==
  ASSUME NEW f, NEW g, SameFloat(f, g)
  PROVE  /\ IsZero(f) <=> IsZero(g)
         /\ f = NaN <=> g = NaN
         /\ f[1] = "inf" <=> g[1] = "inf"
         /\ IsFinite(f) <=> IsFinite(g)
         /\ Numerator(f) = Numerator(g) /\ Rank(f) = Rank(g)
         /\ ~ IsZero(f) \/ f[1] = "inf" => f = g
<1>1. CASE f = g
  BY <1>1
<1>2. CASE f \in {Finite(0), NegativeZero} /\ g \in {Finite(0), NegativeZero}
  <2>1. \A z \in {Finite(0), NegativeZero} :
          /\ IsZero(z) /\ z # NaN /\ z[1] # "inf" /\ IsFinite(z)
          /\ Numerator(z) = 0 /\ Rank(z) = 0
    BY DEF Finite, NegativeZero, IsZero, NaN, IsFinite, Numerator, Rank
  <2> QED BY <1>2, <2>1
<1> QED BY <1>1, <1>2 DEF SameFloat, IsZero

\* A sign given to a result shows in a zero only.
LEMMA SignedSame ==
  ASSUME NEW f, NEW b, NEW c
  PROVE  /\ SameFloat(Signed(f, b), Signed(f, c))
         /\ f = Finite(0) => IsZero(Signed(f, b))
BY DEF SameFloat, Signed, IsZero

\* Floats that are the same have the same comparisons.
LEMMA ComparisonRespects ==
  ASSUME NEW f, NEW f1, NEW g, NEW g1, NEW i, SameFloat(f, f1), SameFloat(g, g1)
  PROVE  /\ CompareFloat(f, g) = CompareFloat(f1, g1)
         /\ CompareIntFloat(i, f) = CompareIntFloat(i, f1)
<1>1. /\ f = NaN <=> f1 = NaN
      /\ g = NaN <=> g1 = NaN
      /\ Rank(f) = Rank(f1) /\ Rank(g) = Rank(g1) /\ Numerator(f) = Numerator(f1)
  BY SameFloats
<1>2. \A x, y : CompareFloat(x, y) = IF NaN \in {x, y} THEN 2 ELSE CompareInt(Rank(x), Rank(y))
  BY DEF CompareFloat, CompareInt, Rank
<1>3. CompareFloat(f, g) = CompareFloat(f1, g1)
  BY <1>1, <1>2
<1>4. \A x : CompareFloat(f, x) = CompareFloat(f1, x)
  BY <1>1, <1>2
<1>5. CompareIntFloat(i, f) = CompareIntFloat(i, f1)
  BY <1>1, <1>4 DEF CompareIntFloat
<1> QED BY <1>3, <1>5

\* The IEEE operations on floats that are the same give floats that are the same, where the
\* divisor is not zero.
LEMMA FloatRespects ==
  ASSUME NEW op \in Arithmetic, NEW f, NEW f1, NEW g, NEW g1,
         SameFloat(f, f1), SameFloat(g, g1), ~ (op = "/" /\ IsZero(g))
  PROVE  SameFloat(FloatResult(op, f, g), FloatResult(op, f1, g1))
<1>1. /\ IsZero(f) <=> IsZero(f1)
      /\ IsZero(g) <=> IsZero(g1)
      /\ f = NaN <=> f1 = NaN
      /\ g = NaN <=> g1 = NaN
      /\ f[1] = "inf" <=> f1[1] = "inf"
      /\ g[1] = "inf" <=> g1[1] = "inf"
      /\ IsFinite(f) <=> IsFinite(f1)
      /\ IsFinite(g) <=> IsFinite(g1)
      /\ Numerator(f) = Numerator(f1) /\ Numerator(g) = Numerator(g1)
      /\ ~ IsZero(f) \/ f[1] = "inf" => f = f1
      /\ ~ IsZero(g) \/ g[1] = "inf" => g = g1
  BY SameFloats
<1>2. \A x : SameFloat(x, x)
  BY DEF SameFloat
<1>3. SameFloat(FiniteResult(op, f, g), FiniteResult(op, f1, g1))
  <2> DEFINE x == Numerator(f)
             y == Numerator(g)
  <2>1. Numerator(f1) = x /\ Numerator(g1) = y
    BY <1>1
  <2>2. CASE op = "+"
    <3>1. CASE x + y = 0
      BY <2>1, <2>2, <3>1, SignedSame DEF FiniteResult
    <3>2. CASE x + y # 0
      BY <1>2, <2>1, <2>2, <3>2 DEF FiniteResult
    <3> QED BY <3>1, <3>2
  <2>3. CASE op = "-"
    <3>1. CASE x = y
      BY <2>1, <2>3, <3>1, SignedSame DEF FiniteResult
    <3>2. CASE x # y
      BY <1>2, <2>1, <2>3, <3>2 DEF FiniteResult
    <3> QED BY <3>1, <3>2
  <2>4. CASE op = "*"
    BY <2>1, <2>4, SignedSame DEF FiniteResult
  <2>5. CASE op = "/"
    BY <2>1, <2>5, SignedSame DEF FiniteResult
  <2> QED BY <2>2, <2>3, <2>4, <2>5 DEF Arithmetic
<1>4. SameFloat(SpecialResult(op, f, g), SpecialResult(op, f1, g1))
  <2>1. CASE NaN \in {f, g}
    BY <1>1, <1>2, <2>1 DEF SpecialResult
  <2>2. CASE NaN \notin {f, g} /\ op = "+"
    BY <1>1, <1>2, <2>2 DEF SpecialResult
  <2>3. CASE NaN \notin {f, g} /\ op = "-"
    <3>1. CASE g[1] = "inf"
      BY <1>1, <1>2, <2>3, <3>1 DEF SpecialResult
    <3>2. CASE g[1] # "inf"
      BY <1>1, <1>2, <2>3, <3>2 DEF SpecialResult
    <3> QED BY <3>1, <3>2
  <2>4. CASE NaN \notin {f, g} /\ op = "*"
    BY <1>1, <1>2, <2>4 DEF SpecialResult
  <2>5. CASE NaN \notin {f, g} /\ op = "/"
    <3>1. CASE f[1] # "inf"
      BY <1>1, <2>5, <3>1, SignedSame DEF SpecialResult
    <3>2. CASE f[1] = "inf" /\ g[1] = "inf"
      BY <1>1, <1>2, <2>5, <3>2 DEF SpecialResult
    <3>3. CASE f[1] = "inf" /\ g[1] # "inf" /\ g = g1
      BY <1>1, <1>2, <2>5, <3>3 DEF SpecialResult
    <3> QED BY <1>1, <2>5, <3>1, <3>2, <3>3
  <2> QED BY <2>1, <2>2, <2>3, <2>4, <2>5 DEF Arithmetic
<1> QED BY <1>1, <1>3, <1>4 DEF FloatResult


\* Two answers alike: Alike of a value with itself, and of floats that are the same.
LEMMA AlikeFloats ==
  /\ \A x : Alike(x, x)
  /\ \A f, g : SameFloat(f, g) => Alike(AFloat(f), AFloat(g))
<1>1. \A x : Equivalent(x, x)
  BY DEF Equivalent, SameFloat
<1>2. \A f : ~ IsError(AFloat(f)) /\ AFloat(f).t = "Float" /\ AFloat(f).v = f
  BY DEF AFloat, IsError
<1> QED BY <1>1, <1>2 DEF Alike, Equivalent

\* apply_float_binary on floats that are the same.
LEMMA ApplyFloatRespects ==
  ASSUME NEW op \in Arithmetic, NEW f, NEW f1, NEW g, NEW g1, SameFloat(f, f1), SameFloat(g, g1)
  PROVE  Alike(ApplyFloat(op, f, g), ApplyFloat(op, f1, g1))
<1>1. IsZero(g) <=> IsZero(g1)
  BY SameFloats
<1>2. CASE op = "/" /\ IsZero(g)
  BY <1>1, <1>2, AlikeFloats DEF ApplyFloat
<1>3. CASE ~ (op = "/" /\ IsZero(g))
  <2>1. SameFloat(FloatResult(op, f, g), FloatResult(op, f1, g1))
    BY <1>3, FloatRespects
  <2> QED BY <1>1, <1>3, <2>1, AlikeFloats DEF ApplyFloat
<1> QED BY <1>2, <1>3

\* An operator answers alike on operands that state_equivalent takes for the same.
LEMMA ApplyRespects ==
  ASSUME NEW op \in Operators,
         NEW a \in Operands, NEW a1 \in Operands, NEW b \in Operands, NEW b1 \in Operands,
         Equivalent(a, a1), Equivalent(b, b1)
  PROVE  Alike(Apply(op, a, b), Apply(op, a1, b1))
<1>1. /\ a.t \in {"Int", "Float"} /\ b.t \in {"Int", "Float"}
      /\ a1.t = a.t /\ b1.t = b.t
      /\ a.t = "Int" => a1 = a
      /\ b.t = "Int" => b1 = b
      /\ a.t = "Float" => SameFloat(a.v, a1.v)
      /\ b.t = "Float" => SameFloat(b.v, b1.v)
  BY OperandsAre DEF Equivalent
<1>2. \A f : SameFloat(f, f)
  BY DEF SameFloat
<1>3. Compare(a, b) = Compare(a1, b1)
  <2>1. CASE a.t = "Int" /\ b.t = "Int"
    BY <1>1, <2>1 DEF Compare
  <2>2. CASE a.t = "Float" /\ b.t = "Float"
    <3>1. Compare(a, b) = CompareFloat(a.v, b.v) /\ Compare(a1, b1) = CompareFloat(a1.v, b1.v)
      BY <1>1, <2>2 DEF Compare
    <3> QED BY <1>1, <2>2, <3>1, ComparisonRespects
  <2>3. CASE a.t = "Int" /\ b.t = "Float"
    <3>1. /\ Compare(a, b) = CompareIntFloat(a.v, b.v)
          /\ Compare(a1, b1) = CompareIntFloat(a.v, b1.v)
      BY <1>1, <2>3 DEF Compare
    <3> QED BY <1>1, <2>3, <3>1, ComparisonRespects
  <2>4. CASE a.t = "Float" /\ b.t = "Int"
    <3>1. CompareIntFloat(b.v, a.v) = CompareIntFloat(b.v, a1.v)
      BY <1>1, <2>4, ComparisonRespects
    <3> QED BY <1>1, <2>4, <3>1 DEF Compare
  <2> QED BY <1>1, <2>1, <2>2, <2>3, <2>4
<1>4. CASE op \in Arithmetic
  <2>1. Apply(op, a, b) = ApplyArithmetic(op, a, b) /\ Apply(op, a1, b1) = ApplyArithmetic(op, a1, b1)
    BY <1>4 DEF Apply
  <2>2. CASE a.t = "Int" /\ b.t = "Int"
    BY <1>1, <2>1, <2>2, AlikeFloats
  <2>3. CASE a.t = "Float" /\ b.t = "Float"
    <3>1. /\ ApplyArithmetic(op, a, b) = ApplyFloat(op, a.v, b.v)
          /\ ApplyArithmetic(op, a1, b1) = ApplyFloat(op, a1.v, b1.v)
      BY <1>1, <2>3 DEF ApplyArithmetic
    <3> QED BY <1>1, <1>4, <2>1, <2>3, <3>1, ApplyFloatRespects
  <2>4. CASE a.t = "Int" /\ b.t = "Float"
    <3>1. /\ ApplyArithmetic(op, a, b) = ApplyFloat(op, AsFloat(a.v), b.v)
          /\ ApplyArithmetic(op, a1, b1) = ApplyFloat(op, AsFloat(a.v), b1.v)
      BY <1>1, <2>4 DEF ApplyArithmetic
    <3> QED BY <1>1, <1>2, <1>4, <2>1, <2>4, <3>1, ApplyFloatRespects
  <2>5. CASE a.t = "Float" /\ b.t = "Int"
    <3>1. /\ ApplyArithmetic(op, a, b) = ApplyFloat(op, a.v, AsFloat(b.v))
          /\ ApplyArithmetic(op, a1, b1) = ApplyFloat(op, a1.v, AsFloat(b.v))
      BY <1>1, <2>5 DEF ApplyArithmetic
    <3> QED BY <1>1, <1>2, <1>4, <2>1, <2>5, <3>1, ApplyFloatRespects
  <2> QED BY <1>1, <2>2, <2>3, <2>4, <2>5
<1>5. CASE op \notin Arithmetic
  <2>1. Apply(op, a, b) = Apply(op, a1, b1)
    BY <1>1, <1>3, <1>5 DEF Apply, ApplyOrdering, ApplyEquality, IsNumber
  <2> QED BY <2>1, AlikeFloats
<1> QED BY <1>4, <1>5

\* Operands that stand at one place and are both Ints or both Floats are the same.
LEMMA PlacesTell ==
  ASSUME NEW a \in Operands, NEW b \in Operands, a.t = b.t,
         a # AFloat(NaN), b # AFloat(NaN), Place(a) = Place(b)
  PROVE  Equivalent(a, b)
<1>1. CASE a.t = "Int"
  <2>1. /\ a = AnInt(a.v) /\ b = AnInt(b.v) /\ a.v \in Int /\ b.v \in Int
        /\ a.v * Q = b.v * Q /\ Q \in Nat \ {0}
    BY <1>1, OperandsAre, Sizes, IntBounds DEF Place
  <2>2. a.v = b.v
    BY <2>1, Products
  <2> QED BY <1>1, <2>1, <2>2 DEF Equivalent
<1>2. CASE a.t = "Float"
  <2>1. /\ a = AFloat(a.v) /\ b = AFloat(b.v)
        /\ a.v \in Floats \ {NaN} /\ b.v \in Floats \ {NaN}
        /\ b.t = "Float"
    BY <1>2, OperandsAre
  <2> DEFINE f == a.v
             g == b.v
  <2>2. Place(AFloat(f)) = Place(AFloat(g))
    BY <2>1
  <2>3. f \in Floats \ {NaN} /\ g \in Floats \ {NaN}
    BY <2>1
  <2> HIDE DEF f, g
  <2>4. MaxFloat \in Nat /\ Limit * Q \in Nat \ {0}
    BY Sizes, IntBounds
  <2>5. \/ f[1] = "inf" /\ g[1] = "inf" /\ f[2] = g[2]
        \/ f[1] # "inf" /\ g[1] # "inf" /\ Numerator(f) = Numerator(g)
    BY <2>2, <2>3, <2>4, FloatPlaces
  <2>6. \A h \in Floats \ {NaN} :
          \/ h[1] = "inf" /\ h = Infinity(h[2])
          \/ h = NegativeZero /\ Numerator(h) = 0 /\ h[1] = "nzero"
          \/ h[1] = "fin" /\ h = Finite(Numerator(h))
    BY FloatsAre DEF Infinity, Finite, NegativeZero, Numerator
  <2>7. SameFloat(f, g)
    BY <2>3, <2>5, <2>6 DEF SameFloat, IsZero
  <2> QED BY <1>2, <2>1, <2>7 DEF Equivalent, f, g
<1> QED BY <1>1, <1>2, OperandsAre

\* A comparison and what it answers.
LEMMA Answers ==
  ASSUME NEW a \in Operands, NEW b \in Operands
  PROVE  /\ Apply("<=", a, b) = ABool(Compare(a, b) # 2 /\ Compare(a, b) # 1)
         /\ Apply("==", a, b) = ABool(Compare(a, b) = 0)
         /\ a # AFloat(NaN) => Compare(a, a) = 0
<1>1. IsNumber(a) /\ IsNumber(b)
  BY OperandsAre DEF IsNumber
<1>2. Apply("<=", a, b) = ABool(Compare(a, b) # 2 /\ Compare(a, b) # 1)
  BY <1>1 DEF Apply, Arithmetic, Orderings, ApplyOrdering
<1>3. Apply("==", a, b) = ABool((Compare(a, b) = 0) = TRUE)
  BY <1>1 DEF Apply, Arithmetic, Orderings, ApplyEquality
<1>4. ((Compare(a, b) = 0) = TRUE) = (Compare(a, b) = 0)
  OBVIOUS
<1>5. ASSUME a # AFloat(NaN) PROVE Compare(a, a) = 0
  <2>1. Compare(a, a) = CompareInt(Place(a), Place(a))
    BY <1>5, CompareByPlace
  <2>2. Place(a) \in Int
    <3>1. CASE a.t = "Int"
      BY <3>1, OperandsAre, Sizes, IntBounds DEF Place
    <3>2. CASE a.t = "Float"
      BY <1>5, <3>2, OperandsAre, FloatPlaces, Sizes, IntBounds
    <3> QED BY <3>1, <3>2, OperandsAre
  <2> QED BY <2>1, <2>2 DEF CompareInt
<1> QED BY <1>2, <1>3, <1>4, <1>5

\* The truths are told apart.
LEMMA TruthsDiffer ==
  ~ Alike(ABool(TRUE), ABool(FALSE)) /\ ~ Alike(ABool(FALSE), ABool(TRUE))
<1>1. \A b \in BOOLEAN : ABool(b).t = "Bool" /\ ABool(b).v = b
  BY DEF ABool
<1>2. ABool(TRUE) # ABool(FALSE)
  BY <1>1
<1> QED BY <1>1, <1>2 DEF Alike, IsError, Equivalent

\* a and b answer alike to every operator, alone and with every other operand.
Untold(a, b) ==
  \A op \in Operators :
    /\ Alike(Apply(op, a, a), Apply(op, b, b))
    /\ \A third \in Operands : /\ Alike(Apply(op, a, third), Apply(op, b, third))
                               /\ Alike(Apply(op, third, a), Apply(op, third, b))

\* Operands that are not the same are told apart: a NaN by <= with itself, any other by ==.
LEMMA UntoldSame ==
  ASSUME NEW a \in Operands, NEW b \in Operands, a.t = b.t, Untold(a, b)
  PROVE  Equivalent(a, b)
<1>1. "<=" \in Operators /\ "==" \in Operators
  BY DEF Operators, Orderings
<1>2. Alike(Apply("<=", a, a), Apply("<=", b, b)) /\ Alike(Apply("==", a, a), Apply("==", b, a))
  BY <1>1 DEF Untold
<1>3. a = AFloat(NaN) <=> b = AFloat(NaN)
  <2>1. \A x \in Operands : Apply("<=", x, x) = ABool(x # AFloat(NaN))
    <3> SUFFICES ASSUME NEW x \in Operands PROVE Apply("<=", x, x) = ABool(x # AFloat(NaN))
      OBVIOUS
    <3>1. CASE x = AFloat(NaN)
      <4>1. Compare(x, x) = 2
        BY <3>1, CompareNaN
      <4> QED BY <3>1, <4>1, Answers
    <3>2. CASE x # AFloat(NaN)
      <4>1. Compare(x, x) = 0
        BY <3>2, Answers
      <4> QED BY <3>2, <4>1, Answers
    <3> QED BY <3>1, <3>2
  <2> QED BY <1>2, <2>1, TruthsDiffer
<1>4. CASE a = AFloat(NaN)
  <2>1. a = b
    BY <1>3, <1>4
  <2> QED BY <2>1 DEF Equivalent, SameFloat
<1>5. CASE a # AFloat(NaN)
  <2>1. Apply("==", a, a) = ABool(TRUE)
    <3>1. Compare(a, a) = 0
      BY <1>5, Answers
    <3> QED BY <3>1, Answers
  <2>2. Compare(b, a) = 0
    <3>1. CASE Compare(b, a) # 0
      <4>1. Apply("==", b, a) = ABool(FALSE)
        BY <3>1, Answers
      <4> QED BY <1>2, <2>1, <4>1, TruthsDiffer
    <3> QED BY <3>1
  <2>3. CompareInt(Place(b), Place(a)) = 0
    BY <1>3, <1>5, <2>2, CompareByPlace
  <2>4. \A x \in Operands \ {AFloat(NaN)} : Place(x) \in Int
    BY OperandsAre, FloatPlaces, Sizes, IntBounds DEF Place
  <2>5. Place(a) = Place(b)
    BY <1>3, <1>5, <2>3, <2>4 DEF CompareInt
  <2> QED BY <1>3, <1>5, <2>5, PlacesTell
<1> QED BY <1>4, <1>5

\* A commit keeps the caches of a cell exactly when no operator could tell the new value from
\* the old (float_semantically_equal): the two zeros are the same, and so is a NaN with itself,
\* which == denies.
THEOREM SamenessExact == Spec => []Indistinguishable
<1>1. ASSUME NEW a \in Operands, NEW b \in Operands, Equivalent(a, b)
      PROVE  Untold(a, b)
  <2>1. \A x : Equivalent(x, x)
    BY DEF Equivalent, SameFloat
  <2> QED BY <1>1, <2>1, ApplyRespects DEF Untold
<1>2. Given => Indistinguishable
  <2> SUFFICES ASSUME Given, left.t = right.t
               PROVE  Equivalent(left, right) <=> Untold(left, right)
    BY DEF Indistinguishable, Untold
  <2> QED BY <1>1, UntoldSame DEF Given
<1> QED BY <1>2, OperandsStay, PTL


-----------------------------------------------------------------------------
(* What the operators answer.                                              *)

\* As many units of any weight as the significant bits can count are a float.
LEMMA CountIsFloat ==
  ASSUME NEW n \in (- MaxFloat) .. MaxFloat, NEW w \in Weights,
         NEW k \in Nat, k <= Power[Precision], Abs(n) = k * w
  PROVE  Rounded(n, 1) = Finite(n)
<1> DEFINE v == Scale(n, 1)
           P == Power[Precision]
<1>1. IsScale(n, v) /\ Abs(n) \in Nat
  BY FloatInReach
<1> HIDE DEF v
<1>2. /\ v \in Weights /\ v \in Nat \ {0} /\ w \in Nat \ {0}
      /\ v = 1 \/ Abs(n) >= (v \div 2) * P
      /\ v # 1 => v = 2 * (v \div 2) /\ v \div 2 \in Nat \ {0}
  <2>1. v \in Weights /\ (v = 1 \/ Abs(n) >= (v \div 2) * P)
    BY <1>1 DEF IsScale
  <2> QED BY <2>1, WeightsChain
<1>3. PICK h \in Nat \ {0} : P = 2 * h
  BY Sizes
<1> HIDE DEF P
<1>4. \E j \in Nat : Abs(n) = j * v
  <2>1. CASE v <= w
    <3>1. PICK j \in Nat \ {0} : w = j * v
      BY <1>2, <2>1, WeightsChain
    <3>2. Abs(n) = (k * j) * v /\ k * j \in Nat
      BY <1>2, <3>1
    <3> QED BY <3>2
  <2>2. CASE w < v
    <3>1. v # 1 /\ w <= v \div 2
      BY <1>2, <2>2, WeightsChain
    <3> DEFINE u == v \div 2
    <3>2. v = 2 * u /\ u \in Nat \ {0} /\ u * P <= k * w /\ w <= u
      BY <1>2, <3>1
    <3> HIDE DEF u
    <3>3. k * w <= P * w /\ P * w <= P * u /\ P * u = u * P
      BY <1>2, <1>3, <3>2 DEF P
    <3>4. k * w = P * u
      BY <1>2, <1>3, <3>2, <3>3
    <3>5. k * w = h * v
      BY <1>2, <1>3, <3>2, <3>4
    <3> QED BY <3>5
  <2> QED BY <1>2, <2>1, <2>2
<1> QED BY <1>4, MultipleIsFloat DEF v

\* What rounding answers is a float, as far as the weights reach.
LEMMA RoundedIsFloat ==
  ASSUME NEW x \in Int, NEW y \in Nat \ {0},
         Abs(x) < y * (Power[Exponents] * Power[Precision])
  PROVE  Rounded(x, y) \in Floats
<1> DEFINE w == Scale(x, y)
           low == Abs(x) \div (y * w)
           rest == 2 * (Abs(x) % (y * w))
           up == rest > y * w \/ (rest = y * w /\ low % 2 = 1)
           k == IF up THEN low + 1 ELSE low
           P == Power[Precision]
<1>1. w \in Weights /\ Abs(x) < y * w * P
  BY ScaleExists
<1>2. Rounded(x, y) = IF k * w > MaxFloat THEN Infinity(Sign(x)) ELSE Finite(Sign(x) * (k * w))
  BY DEF Rounded
<1>3. w \in Nat \ {0} /\ Abs(x) \in Nat /\ P \in Nat \ {0} /\ MaxFloat \in Nat
  <2>1. w \in Nat \ {0}
    BY <1>1, WeightsChain
  <2> QED BY <2>1, Sizes DEF Abs
<1> HIDE DEF w, P
<1>4. y * w \in Nat \ {0}
  BY <1>3
<1>5. low \in Nat /\ (y * w) * low <= Abs(x)
  <2>1. \A a \in Nat, q \in Nat \ {0} : a \div q \in Nat /\ q * (a \div q) <= a
    BY Division
  <2> QED BY <1>3, <1>4, <2>1
<1> HIDE DEF low
<1>6. low < P
  <2> SUFFICES ASSUME P <= low PROVE FALSE
    BY <1>3, <1>5
  <2> DEFINE u == y * w
  <2>1. u \in Nat \ {0} /\ Abs(x) < u * P /\ u * low <= Abs(x)
    BY <1>1, <1>4, <1>5
  <2> HIDE DEF u
  <2>2. u * P <= u * low
    BY <1>3, <1>5, <2>1
  <2> QED BY <1>3, <1>5, <2>1, <2>2
<1>7. k \in Nat /\ k <= P
  BY <1>3, <1>5, <1>6
<1> HIDE DEF k
<1> DEFINE m == Sign(x) * (k * w)
<1>8. k * w \in Nat /\ Sign(x) \in {1, -1}
  BY <1>3, <1>7 DEF Sign
<1>9. CASE k * w > MaxFloat
  BY <1>2, <1>8, <1>9 DEF Floats
<1>10. CASE ~ (k * w > MaxFloat)
  <2>1. m \in (- MaxFloat) .. MaxFloat /\ Abs(m) = k * w
    BY <1>3, <1>8, <1>10 DEF Abs
  <2> HIDE DEF m
  <2>2. Rounded(m, 1) = Finite(m)
    BY <1>1, <1>7, <2>1, CountIsFloat DEF P
  <2>3. Finite(m) \in Floats
    BY <2>1, <2>2 DEF Floats
  <2> QED BY <1>2, <1>10, <2>3 DEF m
<1> QED BY <1>9, <1>10

\* The floats the operators name themselves.
LEMMA SpecialFloats ==
  /\ NaN \in Floats /\ NegativeZero \in Floats /\ Finite(0) \in Floats
  /\ \A s \in {1, -1} : Infinity(s) \in Floats
  /\ \A f \in Floats : \A b : Signed(f, b) \in Floats
<1>1. Abs(0) < 1 * (Power[Exponents] * Power[Precision])
  BY Sizes DEF Abs
<1>2. Rounded(0, 1) = Finite(0)
  <2>1. 0 \in (- MaxFloat) .. MaxFloat /\ Abs(0) = 0
    BY Sizes DEF Abs
  <2>2. PICK v : v = Scale(0, 1)
    OBVIOUS
  <2>3. v \in Nat
    BY <2>1, <2>2, FloatInReach, WeightsChain DEF IsScale
  <2>4. Abs(0) = 0 * Scale(0, 1)
    BY <2>1, <2>2, <2>3
  <2> QED BY <2>1, <2>4, MultipleIsFloat
<1>3. Finite(0) \in Floats
  BY <1>2, Sizes DEF Floats
<1> QED BY <1>3 DEF Floats, Signed

\* An Int as a float.
LEMMA IntIsFloat ==
  ASSUME NEW i \in Ints
  PROVE  AsFloat(i) \in Floats
<1>1. /\ i \in Int /\ - Limit <= i /\ i < Limit /\ Q \in Nat \ {0}
      /\ Limit \in Nat /\ Limit * Q <= MaxFloat /\ MaxFloat \in Nat
  BY IntBounds, Sizes
<1>2. i * Q \in Int /\ i * Q <= Limit * Q /\ (- Limit) * Q <= i * Q /\ (- Limit) * Q = - (Limit * Q)
  BY <1>1
<1>3. Abs(i * Q) <= MaxFloat
  BY <1>1, <1>2 DEF Abs
<1>4. Abs(i * Q) < 1 * (Power[Exponents] * Power[Precision])
  BY <1>1, <1>2, <1>3, Sizes DEF Abs
<1>5. Rounded(i * Q, 1) \in Floats
  BY <1>2, <1>4, RoundedIsFloat
<1> QED BY <1>5 DEF AsFloat

\* The exact results are within the reach of the weights.
LEMMA ResultsInReach ==
  ASSUME NEW x \in (- MaxFloat) .. MaxFloat, NEW y \in (- MaxFloat) .. MaxFloat
  PROVE  /\ Rounded(x + y, 1) \in Floats
         /\ Rounded(x - y, 1) \in Floats
         /\ Rounded(x * y, Q) \in Floats
         /\ y # 0 => Rounded(x * Q * Sign(y), Abs(y)) \in Floats
<1> DEFINE R == Power[Exponents] * Power[Precision]
           M == MaxFloat
<1>1. /\ M \in Nat /\ R \in Nat /\ M * M < R /\ M + M < R /\ Q \in Nat \ {0}
      /\ x \in Int /\ y \in Int /\ Q <= M
  <2>1. Q <= Limit * Q
    BY Sizes
  <2> QED BY <2>1, Sizes
<1> HIDE DEF R, M
<1>2. Abs(x) \in 0 .. M /\ Abs(y) \in 0 .. M
  BY <1>1 DEF Abs, M
<1>3. Rounded(x + y, 1) \in Floats /\ Rounded(x - y, 1) \in Floats
  <2>1. Abs(x + y) < 1 * R /\ Abs(x - y) < 1 * R
    BY <1>1 DEF Abs, M
  <2> QED BY <1>1, <2>1, RoundedIsFloat DEF R
<1>4. Rounded(x * y, Q) \in Floats
  <2>1. Abs(x * y) = Abs(x) * Abs(y)
    BY <1>1 DEF Abs
  <2>2. Abs(x) * Abs(y) <= M * M
    BY <1>1, <1>2
  <2>3. R <= Q * R
    BY <1>1
  <2>4. x * y \in Int /\ Abs(x * y) < Q * R
    BY <1>1, <1>2, <2>1, <2>2, <2>3
  <2> QED BY <1>1, <2>4, RoundedIsFloat DEF R
<1>5. ASSUME y # 0 PROVE Rounded(x * Q * Sign(y), Abs(y)) \in Floats
  <2>1. Abs(y) \in Nat \ {0} /\ Sign(y) \in {1, -1}
    BY <1>1, <1>5 DEF Abs, Sign
  <2>2. x * Q * Sign(y) \in Int /\ Abs(x * Q * Sign(y)) = Abs(x) * Q
    <3>1. x * Q \in Int /\ Abs(x * Q) = Abs(x) * Q
      BY <1>1 DEF Abs
    <3>2. x * Q * Sign(y) = x * Q \/ x * Q * Sign(y) = - (x * Q)
      BY <2>1, <3>1
    <3>3. Abs(- (x * Q)) = Abs(x * Q)
      BY <3>1 DEF Abs
    <3> QED BY <3>1, <3>2, <3>3
  <2>3. Abs(x) * Q <= M * M
    BY <1>1, <1>2
  <2>4. R <= Abs(y) * R
    BY <1>1, <2>1
  <2>5. Abs(x * Q * Sign(y)) < Abs(y) * R
    BY <1>1, <1>2, <2>1, <2>2, <2>3, <2>4
  <2> QED BY <2>1, <2>2, <2>5, RoundedIsFloat DEF R
<1> QED BY <1>3, <1>4, <1>5

\* The IEEE operations answer floats.
LEMMA FloatResultIsFloat ==
  ASSUME NEW op \in Arithmetic, NEW f \in Floats, NEW g \in Floats, ~ (op = "/" /\ IsZero(g))
  PROVE  FloatResult(op, f, g) \in Floats
<1>1. ASSUME IsFinite(f), IsFinite(g)
      PROVE  FiniteResult(op, f, g) \in Floats
  <2> DEFINE x == Numerator(f)
             y == Numerator(g)
  <2>1. \A h \in Floats : IsFinite(h) => /\ Numerator(h) \in (- MaxFloat) .. MaxFloat
                                         /\ Numerator(h) = 0 => IsZero(h)
    <3> SUFFICES ASSUME NEW h \in Floats, IsFinite(h)
                 PROVE  /\ Numerator(h) \in (- MaxFloat) .. MaxFloat
                        /\ Numerator(h) = 0 => IsZero(h)
      OBVIOUS
    <3>1. h # NaN /\ h[1] # "inf"
      BY DEF IsFinite, NaN
    <3>2. Numerator(h) \in (- MaxFloat) .. MaxFloat
      BY <3>1, FloatPlaces
    <3>3. h = NegativeZero \/ h = Finite(Numerator(h))
      BY <3>1, FloatsAre DEF Infinity, Finite, Numerator
    <3> QED BY <3>2, <3>3 DEF IsZero
  <2>2. x \in (- MaxFloat) .. MaxFloat /\ y \in (- MaxFloat) .. MaxFloat /\ (op = "/" => y # 0)
    BY <1>1, <2>1
  <2>3. /\ Rounded(x + y, 1) \in Floats
        /\ Rounded(x - y, 1) \in Floats
        /\ Rounded(x * y, Q) \in Floats
        /\ op = "/" => Rounded(x * Q * Sign(y), Abs(y)) \in Floats
    <3> HIDE DEF x, y
    <3> QED BY <2>2, ResultsInReach
  <2>4. CASE op = "+"
    BY <2>3, <2>4, SpecialFloats DEF FiniteResult
  <2>5. CASE op = "-"
    BY <2>3, <2>5, SpecialFloats DEF FiniteResult
  <2>6. CASE op = "*"
    BY <2>3, <2>6, SpecialFloats DEF FiniteResult
  <2>7. CASE op = "/"
    BY <2>3, <2>7, SpecialFloats DEF FiniteResult
  <2> QED BY <2>4, <2>5, <2>6, <2>7 DEF Arithmetic
<1>2. SpecialResult(op, f, g) \in Floats
  <2>1. \A h \in Floats : h[1] = "inf" => Infinity(- h[2]) \in Floats
    <3> SUFFICES ASSUME NEW h \in Floats, h[1] = "inf" PROVE Infinity(- h[2]) \in Floats
      OBVIOUS
    <3>1. h # NaN
      BY DEF NaN
    <3>2. h[2] \in {1, -1}
      BY <3>1, FloatPlaces
    <3> QED BY <3>2, SpecialFloats
  <2>2. CASE NaN \in {f, g}
    BY <2>2, SpecialFloats DEF SpecialResult
  <2>3. CASE NaN \notin {f, g} /\ op = "+"
    BY <2>3, SpecialFloats DEF SpecialResult
  <2>4. CASE NaN \notin {f, g} /\ op = "-"
    BY <2>1, <2>4, SpecialFloats DEF SpecialResult
  <2>5. CASE NaN \notin {f, g} /\ op = "*"
    BY <2>5, SpecialFloats DEF SpecialResult
  <2>6. CASE NaN \notin {f, g} /\ op = "/"
    BY <2>6, SpecialFloats DEF SpecialResult
  <2> QED BY <2>2, <2>3, <2>4, <2>5, <2>6 DEF Arithmetic
<1> QED BY <1>1, <1>2 DEF FloatResult

\* apply_float_binary answers a float or fails.
LEMMA ApplyFloatCloses ==
  ASSUME NEW op \in Arithmetic, NEW f \in Floats, NEW g \in Floats
  PROVE  \/ ApplyFloat(op, f, g).t = "Failure"
         \/ ApplyFloat(op, f, g).t = "Float" /\ ApplyFloat(op, f, g).v \in Floats
<1>1. CASE op = "/" /\ IsZero(g)
  BY <1>1 DEF ApplyFloat, Failure
<1>2. CASE ~ (op = "/" /\ IsZero(g))
  BY <1>2, FloatResultIsFloat DEF ApplyFloat, AFloat
<1> QED BY <1>1, <1>2

\* An operator on two numbers ends with a value of its type that can be represented, or with a
\* failure that the program can mean: a checked Int never wraps around, a rounded Float is one
\* of the format, and no combination of types is left without an answer (apply_arithmetic,
\* apply_ordering, apply_equality).
THEOREM OperatorsClosed == Spec => []Closed
<1>1. ASSUME NEW a \in Operands, NEW b \in Operands, NEW op \in Operators
      PROVE  LET r == Apply(op, a, b) IN
             \/ r.t = "Int" /\ r.v \in Ints /\ a.t = "Int" /\ b.t = "Int"
             \/ r.t = "Float" /\ r.v \in Floats /\ "Float" \in {a.t, b.t}
             \/ r.t = "Bool" /\ op \notin Arithmetic
             \/ r.t = "Failure" /\ op \in Arithmetic
  <2>1. /\ (a.t = "Int" /\ a.v \in Ints) \/ (a.t = "Float" /\ a.v \in Floats)
        /\ (b.t = "Int" /\ b.v \in Ints) \/ (b.t = "Float" /\ b.v \in Floats)
    BY OperandsAre
  <2>2. CASE op \notin Arithmetic
    <3>1. Apply(op, a, b).t = "Bool"
      BY <2>1, <2>2 DEF Apply, ApplyOrdering, ApplyEquality, IsNumber, ABool
    <3> QED BY <2>2, <3>1
  <2>3. CASE op \in Arithmetic /\ a.t = "Int" /\ b.t = "Int"
    <3>1. Apply(op, a, b) = ApplyInt(op, a.v, b.v)
      BY <2>3 DEF Apply, ApplyArithmetic
    <3>2. \/ ApplyInt(op, a.v, b.v).t = "Failure"
          \/ ApplyInt(op, a.v, b.v).t = "Int" /\ ApplyInt(op, a.v, b.v).v \in Ints
      BY DEF ApplyInt, Failure, AnInt
    <3> QED BY <2>3, <3>1, <3>2
  <2>4. CASE op \in Arithmetic /\ "Float" \in {a.t, b.t}
    <3>1. \E f, g \in Floats : Apply(op, a, b) = ApplyFloat(op, f, g)
      <4>1. CASE a.t = "Float" /\ b.t = "Float"
        BY <2>1, <2>4, <4>1 DEF Apply, ApplyArithmetic
      <4>2. CASE a.t = "Int" /\ b.t = "Float"
        <5>1. Apply(op, a, b) = ApplyFloat(op, AsFloat(a.v), b.v) /\ AsFloat(a.v) \in Floats
          BY <2>1, <2>4, <4>2, IntIsFloat DEF Apply, ApplyArithmetic
        <5> QED BY <2>1, <4>2, <5>1
      <4>3. CASE a.t = "Float" /\ b.t = "Int"
        <5>1. Apply(op, a, b) = ApplyFloat(op, a.v, AsFloat(b.v)) /\ AsFloat(b.v) \in Floats
          BY <2>1, <2>4, <4>3, IntIsFloat DEF Apply, ApplyArithmetic
        <5> QED BY <2>1, <4>3, <5>1
      <4> QED BY <2>1, <2>4, <4>1, <4>2, <4>3
    <3> QED BY <2>4, <3>1, ApplyFloatCloses
  <2> QED BY <2>1, <2>2, <2>3, <2>4
<1>2. Given => Closed
  BY <1>1 DEF Given, Closed
<1> QED BY <1>2, OperandsStay, PTL
=============================================================================
