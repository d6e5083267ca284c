--------------------------- MODULE InductionFacts ---------------------------
(***************************************************************************)
(* Induction on the natural numbers, stated for sets.  The induction       *)
(* theorems of the library take a predicate as a parameter; these are the  *)
(* forms that the proofs about recursive functions use.                    *)
(***************************************************************************)
EXTENDS Integers, WellFoundedInduction, TLAPS

\* A set of natural numbers that is not empty has a least element.
LEMMA LeastNumber ==
  ASSUME NEW T \in SUBSET Nat, T # {}
  PROVE  \E n \in T : \A m \in T : n <= m
<1> DEFINE R == {ss \in Nat \X Nat : ss[1] < ss[2]}
<1>1. OpToRel(<, Nat) = R
  BY DEF OpToRel
<1>2. IsWellFoundedOn(R, Nat)
  BY <1>1, NatLessThanWellFounded
<1> HIDE DEF R
<1>3. PICK n \in T : \A m \in T : ~(<<m, n>> \in R)
  BY <1>2, WFMin
<1>4. \A m \in T : ~(m < n)
  BY <1>3 DEF R
<1> QED BY <1>4

\* Induction up to n, for membership in a set.
LEMMA InductionUpTo ==
  ASSUME NEW n \in Nat, NEW T, 0 \in T, \A m \in 0 .. n - 1 : m \in T => m + 1 \in T
  PROVE  0 .. n \subseteq T
<1> SUFFICES ASSUME (0 .. n) \ T # {} PROVE FALSE
  OBVIOUS
<1>1. PICK k \in (0 .. n) \ T : \A m \in (0 .. n) \ T : k <= m
  <2> DEFINE U == (0 .. n) \ T
  <2>1. U \in SUBSET Nat /\ U # {}
    OBVIOUS
  <2> HIDE DEF U
  <2>2. \E k \in U : \A m \in U : k <= m
    BY <2>1, LeastNumber
  <2> QED BY <2>2 DEF U
<1>2. k # 0 /\ k - 1 \in 0 .. n - 1
  BY <1>1
<1>3. k - 1 \in T
  BY <1>1, <1>2
<1>4. (k - 1) + 1 \in T
  BY <1>2, <1>3
<1> QED BY <1>1, <1>4

\* f is a function on 0 .. n.
UpTo(f, n) == f = [i \in 0 .. n |-> f[i]]

\* g is the function on 0 .. n that starts with b and takes the steps G, within X: no
\* other function does.
Recursion(g, n, X, b, G) ==
  /\ g \in [0 .. n -> X]
  /\ g[0] = b
  /\ \A i \in 1 .. n : g[i] = G[i][g[i - 1]]
  /\ \A f : /\ UpTo(f, n) /\ f[0] = b
            /\ \A i \in 1 .. n : f[i - 1] \in X => f[i] = G[i][f[i - 1]]
           => f = g

\* A function defined by recursion on 0 .. n, by a step that stays in X, exists.
LEMMA RecursionUpTo ==
  ASSUME NEW n \in Nat, NEW X, NEW b \in X, NEW G \in [1 .. n -> [X -> X]]
  PROVE  \E g : Recursion(g, n, X, b, G)
<1> DEFINE Rec(g, m) == /\ g \in [0 .. m -> X] /\ g[0] = b
                        /\ \A i \in 1 .. m : g[i] = G[i][g[i - 1]]
           T == {m \in 0 .. n : \E g : Rec(g, m)}
<1>1. 0 \in T
  <2> DEFINE g == [i \in 0 .. 0 |-> b]
  <2>1. Rec(g, 0)
    OBVIOUS
  <2> HIDE DEF g, Rec
  <2> QED BY <2>1
<1>2. ASSUME NEW m \in 0 .. n - 1, m \in T
      PROVE  m + 1 \in T
  <2>1. PICK g : Rec(g, m)
    BY <1>2
  <2> DEFINE h == [i \in 0 .. m + 1 |-> IF i = m + 1 THEN G[m + 1][g[m]] ELSE g[i]]
  <2>2. h \in [0 .. m + 1 -> X] /\ h[0] = b
    BY <2>1
  <2>3. ASSUME NEW i \in 1 .. m + 1
        PROVE  h[i] = G[i][h[i - 1]]
    <3>1. i - 1 \in 0 .. m /\ h[i - 1] = g[i - 1]
      OBVIOUS
    <3>2. CASE i = m + 1
      BY <3>1, <3>2
    <3>3. CASE i # m + 1
      <4>1. i \in 1 .. m /\ h[i] = g[i]
        BY <3>3
      <4> QED BY <2>1, <3>1, <4>1
    <3> QED BY <3>2, <3>3
  <2> HIDE DEF h
  <2>4. Rec(h, m + 1)
    BY <2>2, <2>3
  <2> HIDE DEF Rec
  <2> QED BY <1>2, <2>4
<1>3. n \in T
  <2> HIDE DEF T
  <2>1. 0 .. n \subseteq T
    BY <1>1, <1>2, InductionUpTo
  <2> QED BY <2>1
<1>4. PICK g : Rec(g, n)
  BY <1>3
<1>5. ASSUME NEW f, UpTo(f, n), f[0] = b,
             \A i \in 1 .. n : f[i - 1] \in X => f[i] = G[i][f[i - 1]]
      PROVE  f = g
  <2> DEFINE S == {i \in 0 .. n : f[i] = g[i]}
  <2>1. 0 \in S
    BY <1>4, <1>5
  <2>2. ASSUME NEW m \in 0 .. n - 1, m \in S
        PROVE  m + 1 \in S
    <3>1. f[m] = g[m] /\ g[m] \in X /\ m + 1 \in 1 .. n /\ (m + 1) - 1 = m
      BY <1>4, <2>2
    <3>2. f[m + 1] = G[m + 1][f[m]] /\ g[m + 1] = G[m + 1][g[m]]
      BY <1>4, <1>5, <3>1
    <3> QED BY <3>1, <3>2
  <2> HIDE DEF S
  <2>3. 0 .. n \subseteq S
    BY <2>1, <2>2, InductionUpTo
  <2>4. \A i \in 0 .. n : f[i] = g[i]
    BY <2>3 DEF S
  <2>5. g = [i \in 0 .. n |-> g[i]]
    BY <1>4
  <2> QED BY <1>5, <2>4, <2>5 DEF UpTo
<1> QED BY <1>4, <1>5 DEF Recursion
=============================================================================
