----------------------- MODULE OrderedStructureProofs -----------------------
(***************************************************************************)
(* Proofs about OrderedStructure.  A view is described by the enumeration  *)
(* of the positions it shows: two increasing enumerations of one set are   *)
(* equal, so that what eval_filter retains, what the greedy walk of        *)
(* map_selection_to_backing finds, and what is left of either after a row  *)
(* was moved or removed are compared position by position.                 *)
(***************************************************************************)
EXTENDS OrderedStructure, InductionFacts, FiniteSetTheorems

-----------------------------------------------------------------------------
(* Enumerations.                                                           *)

\* e lists the numbers of R in increasing order.
Enumerates(e, R) ==
  /\ e \in Seq(R)
  /\ \A j \in 1 .. Len(e) : \A i \in 1 .. j - 1 : e[i] < e[j]
  /\ \A x \in R : \E i \in 1 .. Len(e) : e[i] = x

\* The enumeration of a set that lies below the rest of a larger one begins the
\* enumeration of the larger.
LEMMA EnumerationPrefix ==
  ASSUME NEW A \in SUBSET Int, NEW B \in SUBSET Int, NEW e, NEW r,
         Enumerates(e, A), Enumerates(r, B), A \subseteq B,
         \A a \in A, b \in B \ A : a < b
  PROVE  Len(e) <= Len(r) /\ \A k \in 1 .. Len(e) : e[k] = r[k]
<1>1. Len(e) \in Nat /\ Len(r) \in Nat
  BY DEF Enumerates
<1>2. \A k \in 1 .. Len(e) : e[k] \in A
  BY DEF Enumerates
<1>3. \A k \in 1 .. Len(r) : r[k] \in B
  BY DEF Enumerates
<1> DEFINE Wrong == {k \in 1 .. Len(e) : ~(k <= Len(r) /\ e[k] = r[k])}
<1>4. Wrong = {}
  <2> SUFFICES ASSUME Wrong # {} PROVE FALSE
    OBVIOUS
  <2>1. Wrong \in SUBSET Nat
    BY <1>1
  <2> HIDE DEF Wrong
  <2>2. PICK k \in Wrong : \A m \in Wrong : k <= m
    BY <2>1, LeastNumber
  <2>3. k \in 1 .. Len(e) /\ ~(k <= Len(r) /\ e[k] = r[k])
    BY <2>2 DEF Wrong
  <2>4. ASSUME NEW j \in 1 .. k - 1 PROVE j <= Len(r) /\ e[j] = r[j]
    <3>1. j \in 1 .. Len(e) /\ j \notin Wrong
      BY <1>1, <2>1, <2>2, <2>3
    <3> QED BY <3>1 DEF Wrong
  <2>5. PICK l \in 1 .. Len(r) : r[l] = e[k]
    BY <1>2, <2>3 DEF Enumerates
  <2>6. ~(l < k)
    <3> SUFFICES ASSUME l < k PROVE FALSE
      OBVIOUS
    <3>1. l \in 1 .. k - 1
      BY <1>1, <2>3
    <3>2. e[l] = r[l]
      BY <2>4, <3>1
    <3>3. e[l] < e[k]
      BY <2>3, <3>1 DEF Enumerates
    <3>4. e[k] \in Int
      BY <1>2, <2>3
    <3> QED BY <2>5, <3>2, <3>3, <3>4
  <2>7. l # k
    BY <2>3, <2>5
  <2>8. k \in 1 .. l - 1 /\ k \in 1 .. Len(r)
    BY <1>1, <2>3, <2>6, <2>7
  <2>9. r[k] < e[k]
    BY <2>5, <2>8 DEF Enumerates
  <2>10. r[k] \in A
    <3>1. r[k] \in B /\ e[k] \in A
      BY <1>2, <1>3, <2>3, <2>8
    <3>2. r[k] \in Int /\ e[k] \in Int
      BY <3>1
    <3> QED BY <2>9, <3>1, <3>2
  <2>11. PICK j \in 1 .. Len(e) : e[j] = r[k]
    BY <2>10 DEF Enumerates
  <2>12. j < k
    <3> SUFFICES ASSUME ~(j < k) PROVE FALSE
      OBVIOUS
    <3>1. j # k
      BY <2>3, <2>8, <2>11
    <3>2. k \in 1 .. j - 1
      BY <1>1, <2>3, <3>1
    <3>3. e[k] < e[j]
      BY <3>2 DEF Enumerates
    <3>4. e[k] \in Int /\ e[j] \in Int
      BY <1>2, <2>3
    <3> QED BY <2>9, <2>11, <3>3, <3>4
  <2>13. j \in 1 .. k - 1
    BY <1>1, <2>3, <2>12
  <2>14. r[j] < r[k]
    BY <2>8, <2>13 DEF Enumerates
  <2>15. r[j] = r[k]
    BY <2>4, <2>11, <2>13
  <2>16. r[k] \in Int
    BY <2>10
  <2> QED BY <2>14, <2>15, <2>16
<1>5. \A k \in 1 .. Len(e) : k <= Len(r) /\ e[k] = r[k]
  BY <1>4
<1>6. Len(e) <= Len(r)
  <2>1. CASE Len(e) = 0
    BY <1>1, <2>1
  <2>2. CASE Len(e) # 0
    <3>1. Len(e) \in 1 .. Len(e)
      BY <1>1, <2>2
    <3> QED BY <1>5, <3>1
  <2> QED BY <2>1, <2>2
<1> QED BY <1>5, <1>6

\* A set has one enumeration.
LEMMA EnumerationUnique ==
  ASSUME NEW A \in SUBSET Int, NEW e, NEW r, Enumerates(e, A), Enumerates(r, A)
  PROVE  e = r
<1>1. Len(e) <= Len(r) /\ \A k \in 1 .. Len(e) : e[k] = r[k]
  BY EnumerationPrefix
<1>2. Len(r) <= Len(e)
  BY EnumerationPrefix
<1>3. e \in Seq(A) /\ r \in Seq(A)
  BY DEF Enumerates
<1>4. Len(e) = Len(r)
  BY <1>1, <1>2, <1>3
<1> QED BY <1>1, <1>3, <1>4

\* A number beyond the set goes to the end of its enumeration.
LEMMA EnumerationGrows ==
  ASSUME NEW A \in SUBSET Int, NEW e, Enumerates(e, A), NEW x \in Int, \A a \in A : a < x
  PROVE  Enumerates(Append(e, x), A \cup {x})
<1> DEFINE g == Append(e, x)
<1>1. e \in Seq(A) /\ Len(e) \in Nat /\ \A k \in 1 .. Len(e) : e[k] \in A
  BY DEF Enumerates
<1>2. g \in Seq(A \cup {x}) /\ Len(g) = Len(e) + 1 /\ g[Len(e) + 1] = x
      /\ \A k \in 1 .. Len(e) : g[k] = e[k]
  <2>1. e \in Seq(A \cup {x})
    BY <1>1
  <2> QED BY <1>1, <2>1
<1> HIDE DEF g
<1>3. ASSUME NEW j \in 1 .. Len(g), NEW i \in 1 .. j - 1
      PROVE  g[i] < g[j]
  <2>1. i \in 1 .. Len(e) /\ g[i] = e[i]
    BY <1>1, <1>2
  <2>2. CASE j = Len(e) + 1
    BY <1>1, <1>2, <2>1, <2>2
  <2>3. CASE j # Len(e) + 1
    <3>1. j \in 1 .. Len(e)
      BY <1>1, <1>2, <2>3
    <3> QED BY <1>2, <2>1, <3>1 DEF Enumerates
  <2> QED BY <2>2, <2>3
<1>4. ASSUME NEW y \in A \cup {x}
      PROVE  \E i \in 1 .. Len(g) : g[i] = y
  <2>1. CASE y = x
    <3>1. Len(e) + 1 \in 1 .. Len(g)
      BY <1>1, <1>2
    <3> QED BY <1>2, <2>1, <3>1
  <2>2. CASE y # x
    <3>1. PICK i \in 1 .. Len(e) : e[i] = y
      BY <1>4, <2>2 DEF Enumerates
    <3>2. i \in 1 .. Len(g)
      BY <1>1, <1>2
    <3> QED BY <1>2, <3>1, <3>2
  <2> QED BY <2>1, <2>2
<1>5. Enumerates(g, A \cup {x})
  BY <1>2, <1>3, <1>4 DEF Enumerates
<1> QED BY <1>5 DEF g

\* The k-th number of an enumeration is the one with k numbers up to it.
LEMMA EnumerationCounts ==
  ASSUME NEW A \in SUBSET Int, NEW r, Enumerates(r, A), NEW k \in 1 .. Len(r)
  PROVE  /\ r[k] \in A
         /\ Cardinality({x \in A : x <= r[k]}) = k
         /\ \A y \in A : Cardinality({x \in A : x <= y}) = k => y = r[k]
<1>1. r \in Seq(A) /\ Len(r) \in Nat /\ \A j \in 1 .. Len(r) : r[j] \in A /\ r[j] \in Int
  <2>1. r \in Seq(A)
    BY DEF Enumerates
  <2>2. \A j \in 1 .. Len(r) : r[j] \in A
    BY <2>1
  <2>3. \A x \in A : x \in Int
    OBVIOUS
  <2>4. \A j \in 1 .. Len(r) : r[j] \in Int
    BY <2>2, <2>3
  <2> QED BY <2>1, <2>2, <2>4
<1>2. ASSUME NEW j \in 1 .. Len(r)
      PROVE  Cardinality({x \in A : x <= r[j]}) = j
  <2> DEFINE D == {x \in A : x <= r[j]}
             f == [i \in 1 .. j |-> r[i]]
  <2>1. f \in [1 .. j -> D]
    <3>1. ASSUME NEW i \in 1 .. j PROVE r[i] \in A /\ r[i] <= r[j]
      <4>1. i \in 1 .. Len(r)
        BY <1>1
      <4>2. r[i] \in A /\ r[i] \in Int /\ r[j] \in Int
        BY <1>1, <4>1
      <4>3. CASE i = j
        BY <4>2, <4>3
      <4>4. CASE i # j
        <5>1. i \in 1 .. j - 1
          BY <1>1, <4>4
        <5>2. r[i] < r[j]
          BY <5>1 DEF Enumerates
        <5> QED BY <4>2, <5>2
      <4> QED BY <4>3, <4>4
    <3> QED BY <3>1
  <2>2. ASSUME NEW a \in 1 .. j, NEW b \in 1 .. j, a # b PROVE f[a] # f[b]
    <3>1. a \in 1 .. Len(r) /\ b \in 1 .. Len(r)
      BY <1>1
    <3>2. r[a] \in Int /\ r[b] \in Int
      BY <1>1, <3>1
    <3>3. a \in 1 .. b - 1 \/ b \in 1 .. a - 1
      BY <2>2
    <3>4. r[a] < r[b] \/ r[b] < r[a]
      BY <3>1, <3>3 DEF Enumerates
    <3> QED BY <3>2, <3>4
  <2>3. ASSUME NEW x \in D PROVE \E a \in 1 .. j : f[a] = x
    <3>1. PICK a \in 1 .. Len(r) : r[a] = x
      BY DEF Enumerates
    <3>2. a <= j
      <4> SUFFICES ASSUME ~(a <= j) PROVE FALSE
        OBVIOUS
      <4>1. j \in 1 .. a - 1
        BY <1>1
      <4>2. r[j] < r[a]
        BY <4>1 DEF Enumerates
      <4>3. r[a] \in Int /\ r[j] \in Int /\ r[a] <= r[j]
        BY <1>1, <3>1
      <4> QED BY <4>2, <4>3
    <3>3. a \in 1 .. j
      BY <1>1, <3>2
    <3> QED BY <3>1, <3>3
  <2>4. f \in Bijection(1 .. j, D)
    BY <2>1, <2>2, <2>3 DEF Bijection, Injection, Surjection, IsInjective
  <2>5. ExistsBijection(1 .. j, D)
    BY <2>4 DEF ExistsBijection
  <2> HIDE DEF D
  <2>6. IsFiniteSet(1 .. j) /\ Cardinality(1 .. j) = j
    BY <1>1, FS_Interval
  <2>7. Cardinality(D) = j
    BY <2>5, <2>6, FS_Bijection
  <2> QED BY <2>7 DEF D
<1>3. ASSUME NEW y \in A, Cardinality({x \in A : x <= y}) = k
      PROVE  y = r[k]
  <2>1. PICK j \in 1 .. Len(r) : r[j] = y
    BY DEF Enumerates
  <2>2. Cardinality({x \in A : x <= y}) = j
    BY <1>2, <2>1
  <2> QED BY <1>3, <2>1, <2>2
<1> QED BY <1>1, <1>2, <1>3

-----------------------------------------------------------------------------
(* What a filter retains, and the walk that finds it in the membership.    *)

\* The positions of s that name an identity of T.
RowsIn(s, T) == {i \in 1 .. Len(s) : s[i] \in T}

\* g[i] is what eval_filter has retained of s after i passes of its loop.
Filters(g, S, s, T) ==
  /\ g \in [0 .. Len(s) -> Seq(S)]
  /\ g[0] = <<>>
  /\ \A i \in 1 .. Len(s) : g[i] = IF s[i] \in T THEN Append(g[i - 1], s[i]) ELSE g[i - 1]
  /\ Retained(s, T) = g[Len(s)]

\* The loop of eval_filter, pass by pass.
LEMMA RetainedSteps ==
  ASSUME NEW S, NEW s \in Seq(S), NEW T
  PROVE  \E g : Filters(g, S, s, T)
<1> DEFINE G == [n \in 1 .. Len(s) |->
                   [x \in Seq(S) |-> IF s[n] \in T THEN Append(x, s[n]) ELSE x]]
           Rec(g) == g = [n \in 0 .. Len(s) |->
                            IF n = 0 THEN <<>>
                            ELSE IF s[n] \in T THEN Append(g[n - 1], s[n]) ELSE g[n - 1]]
<1>1. Len(s) \in Nat /\ \A n \in 1 .. Len(s) : s[n] \in S
  OBVIOUS
<1>2. G \in [1 .. Len(s) -> [Seq(S) -> Seq(S)]]
  BY <1>1
<1>3. \A n \in 1 .. Len(s) : \A x \in Seq(S) :
        G[n][x] = IF s[n] \in T THEN Append(x, s[n]) ELSE x
  OBVIOUS
<1> HIDE DEF G
<1>4. PICK g : Recursion(g, Len(s), Seq(S), <<>>, G)
  <2>1. <<>> \in Seq(S)
    OBVIOUS
  <2> QED BY <1>1, <1>2, <2>1, RecursionUpTo
<1>5. g \in [0 .. Len(s) -> Seq(S)] /\ g[0] = <<>>
  BY <1>4 DEF Recursion
<1>6. \A n \in 1 .. Len(s) :
        g[n] = IF s[n] \in T THEN Append(g[n - 1], s[n]) ELSE g[n - 1]
  <2> TAKE n \in 1 .. Len(s)
  <2>1. n - 1 \in 0 .. Len(s)
    BY <1>1
  <2> QED BY <1>3, <1>4, <1>5, <2>1 DEF Recursion
<1>7. Rec(g)
  <2>1. ASSUME NEW n \in 0 .. Len(s)
        PROVE  g[n] = IF n = 0 THEN <<>>
                      ELSE IF s[n] \in T THEN Append(g[n - 1], s[n]) ELSE g[n - 1]
    <3>1. n = 0 \/ n \in 1 .. Len(s)
      BY <1>1
    <3> QED BY <1>5, <1>6, <3>1
  <2>2. g = [n \in 0 .. Len(s) |-> g[n]]
    BY <1>5
  <2> QED BY <2>1, <2>2
<1>8. ASSUME NEW h, Rec(h) PROVE h = g
  <2>1. UpTo(h, Len(s)) /\ h[0] = <<>>
    BY <1>1, <1>8 DEF UpTo
  <2>2. ASSUME NEW n \in 1 .. Len(s), h[n - 1] \in Seq(S) PROVE h[n] = G[n][h[n - 1]]
    <3>1. n \in 0 .. Len(s) /\ n # 0
      BY <1>1
    <3>2. h[n] = IF s[n] \in T THEN Append(h[n - 1], s[n]) ELSE h[n - 1]
      BY <1>8, <3>1
    <3> HIDE DEF Rec
    <3> QED BY <1>3, <2>2, <3>2
  <2> HIDE DEF Rec
  <2> QED BY <1>4, <2>1, <2>2 DEF Recursion
<1>9. Retained(s, T) = (CHOOSE h : Rec(h))[Len(s)]
  BY DEF Retained
<1>10. Rec(CHOOSE h : Rec(h))
  BY <1>7
<1> HIDE DEF Rec
<1>11. Retained(s, T) = g[Len(s)]
  BY <1>8, <1>9, <1>10
<1> QED BY <1>5, <1>6, <1>11 DEF Filters

\* g[i] are the positions map_selection_to_backing has found after i passes of its loop.
Walks(g, s, v) ==
  /\ g \in [0 .. Len(s) -> Seq(Nat)]
  /\ g[0] = <<>>
  /\ \A i \in 1 .. Len(s) :
       g[i] = IF Len(g[i - 1]) < Len(v) /\ s[i] = v[Len(g[i - 1]) + 1]
              THEN Append(g[i - 1], i) ELSE g[i - 1]
  /\ Mapped(s, v) = g[Len(s)]

\* The walk of map_selection_to_backing, pass by pass.
LEMMA MappedSteps ==
  ASSUME NEW S, NEW s \in Seq(S), NEW v \in Seq(S)
  PROVE  \E g : Walks(g, s, v)
<1> DEFINE Walked(x, n) == IF Len(x) < Len(v) /\ s[n] = v[Len(x) + 1] THEN Append(x, n) ELSE x
           G == [n \in 1 .. Len(s) |-> [x \in Seq(Nat) |-> Walked(x, n)]]
           Rec(g) == g = [n \in 0 .. Len(s) |-> IF n = 0 THEN <<>> ELSE Walked(g[n - 1], n)]
<1>1. Len(s) \in Nat
  OBVIOUS
<1>2. G \in [1 .. Len(s) -> [Seq(Nat) -> Seq(Nat)]]
  <2>1. ASSUME NEW n \in 1 .. Len(s), NEW x \in Seq(Nat) PROVE Walked(x, n) \in Seq(Nat)
    BY <1>1
  <2> QED BY <2>1
<1>3. \A n \in 1 .. Len(s) : \A x \in Seq(Nat) : G[n][x] = Walked(x, n)
  OBVIOUS
<1> HIDE DEF G
<1>4. PICK g : Recursion(g, Len(s), Seq(Nat), <<>>, G)
  <2>1. <<>> \in Seq(Nat)
    OBVIOUS
  <2> HIDE DEF Walked
  <2> QED BY <1>1, <1>2, <2>1, RecursionUpTo
<1>5. g \in [0 .. Len(s) -> Seq(Nat)] /\ g[0] = <<>>
  BY <1>4 DEF Recursion
<1>6. \A n \in 1 .. Len(s) : g[n] = Walked(g[n - 1], n)
  <2> TAKE n \in 1 .. Len(s)
  <2>1. n - 1 \in 0 .. Len(s)
    BY <1>1
  <2> HIDE DEF Walked
  <2> QED BY <1>3, <1>4, <1>5, <2>1 DEF Recursion
<1>7. Rec(g)
  <2> HIDE DEF Walked
  <2>1. ASSUME NEW n \in 0 .. Len(s)
        PROVE  g[n] = IF n = 0 THEN <<>> ELSE Walked(g[n - 1], n)
    <3>1. n = 0 \/ n \in 1 .. Len(s)
      BY <1>1
    <3> QED BY <1>5, <1>6, <3>1
  <2>2. g = [n \in 0 .. Len(s) |-> g[n]]
    BY <1>5
  <2> QED BY <2>1, <2>2
<1>8. ASSUME NEW h, Rec(h) PROVE h = g
  <2> HIDE DEF Walked
  <2>1. UpTo(h, Len(s)) /\ h[0] = <<>>
    BY <1>1, <1>8 DEF UpTo
  <2>2. ASSUME NEW n \in 1 .. Len(s), h[n - 1] \in Seq(Nat) PROVE h[n] = G[n][h[n - 1]]
    <3>1. n \in 0 .. Len(s) /\ n # 0
      BY <1>1
    <3>2. h[n] = Walked(h[n - 1], n)
      BY <1>8, <3>1
    <3> HIDE DEF Rec
    <3> QED BY <1>3, <2>2, <3>2
  <2> HIDE DEF Rec
  <2> QED BY <1>4, <2>1, <2>2 DEF Recursion
<1>9. Mapped(s, v) = (CHOOSE h : Rec(h))[Len(s)]
  BY DEF Mapped
<1>10. Rec(CHOOSE h : Rec(h))
  BY <1>7
<1>11. Mapped(s, v) = g[Len(s)]
  <2> HIDE DEF Rec
  <2> QED BY <1>8, <1>9, <1>10
<1>12. \A n \in 1 .. Len(s) :
         g[n] = IF Len(g[n - 1]) < Len(v) /\ s[n] = v[Len(g[n - 1]) + 1]
                THEN Append(g[n - 1], n) ELSE g[n - 1]
  BY <1>6
<1> QED BY <1>5, <1>11, <1>12 DEF Walks

\* Those among the first m.
RowsUpTo(s, T, m) == {i \in 1 .. m : s[i] \in T}

\* How they grow.
LEMMA RowsGrow ==
  ASSUME NEW s, NEW T, NEW m \in Nat
  PROVE  /\ RowsUpTo(s, T, m + 1) = IF s[m + 1] \in T THEN RowsUpTo(s, T, m) \cup {m + 1}
                                    ELSE RowsUpTo(s, T, m)
         /\ RowsUpTo(s, T, m) \in SUBSET Int
         /\ \A a \in RowsUpTo(s, T, m) : a < m + 1
<1>1. 1 .. m + 1 = (1 .. m) \cup {m + 1}
  OBVIOUS
<1> QED BY <1>1 DEF RowsUpTo

\* r are the positions that v retains of s.
Shows(r, s, T, v) ==
  Enumerates(r, RowsIn(s, T)) /\ v = [k \in 1 .. Len(r) |-> s[r[k]]]

\* A view is the membership read at the positions that it shows, in their order.
LEMMA RetainedEnumerated ==
  ASSUME NEW S, NEW s \in Seq(S), NEW T
  PROVE  \E r : Shows(r, s, T, Retained(s, T))
<1>0. PICK g : Filters(g, S, s, T)
  BY RetainedSteps
<1>1. /\ g \in [0 .. Len(s) -> Seq(S)]
      /\ g[0] = <<>>
      /\ \A i \in 1 .. Len(s) :
           g[i] = IF s[i] \in T THEN Append(g[i - 1], s[i]) ELSE g[i - 1]
      /\ Retained(s, T) = g[Len(s)]
  BY <1>0 DEF Filters
<1> DEFINE Done(m) == \E r : /\ Enumerates(r, RowsUpTo(s, T, m))
                             /\ g[m] = [k \in 1 .. Len(r) |-> s[r[k]]]
           D == {m \in 0 .. Len(s) : Done(m)}
<1>2. Len(s) \in Nat
  OBVIOUS
<1>3. 0 \in D
  <2>1. Enumerates(<<>>, RowsUpTo(s, T, 0))
    BY DEF Enumerates, RowsUpTo
  <2>2. g[0] = [k \in 1 .. Len(<<>>) |-> s[<<>>[k]]]
    BY <1>1
  <2> QED BY <1>2, <2>1, <2>2
<1>4. ASSUME NEW m \in 0 .. Len(s) - 1, m \in D
      PROVE  m + 1 \in D
  <2>1. PICK r : Enumerates(r, RowsUpTo(s, T, m)) /\ g[m] = [k \in 1 .. Len(r) |-> s[r[k]]]
    BY <1>4
  <2>2. m \in Nat /\ m + 1 \in 1 .. Len(s) /\ m + 1 \in 0 .. Len(s) /\ (m + 1) - 1 = m
    BY <1>2
  <2>3. CASE s[m + 1] \in T
    <3> DEFINE q == Append(r, m + 1)
    <3>1. r \in Seq(Nat) /\ Len(r) \in Nat
      <4>1. RowsUpTo(s, T, m) \subseteq Nat
        BY DEF RowsUpTo
      <4> QED BY <2>1, <4>1 DEF Enumerates
    <3>2. q \in Seq(Nat) /\ Len(q) = Len(r) + 1 /\ q[Len(r) + 1] = m + 1
          /\ \A k \in 1 .. Len(r) : q[k] = r[k]
      BY <2>2, <3>1
    <3>3. Enumerates(q, RowsUpTo(s, T, m + 1))
      <4> DEFINE A == RowsUpTo(s, T, m)
      <4>1. A \in SUBSET Int /\ (\A a \in A : a < m + 1) /\ m + 1 \in Int
        BY <2>2 DEF RowsUpTo
      <4>2. RowsUpTo(s, T, m + 1) = A \cup {m + 1}
        BY <2>2, <2>3, RowsGrow
      <4>3. Enumerates(r, A)
        BY <2>1
      <4> HIDE DEF A
      <4>4. Enumerates(Append(r, m + 1), A \cup {m + 1})
        BY <4>1, <4>3, EnumerationGrows
      <4> QED BY <4>2, <4>4
    <3> HIDE DEF q
    <3>4. g[m + 1] = Append(g[m], s[m + 1])
      BY <1>1, <2>2, <2>3
    <3>5. g[m] \in Seq(S) /\ s[m + 1] \in S
      BY <1>1, <2>2, SMTT(30)
    <3>6. Len(g[m]) = Len(r) /\ \A k \in 1 .. Len(r) : g[m][k] = s[r[k]]
      BY <2>1, <3>1
    <3>7. g[m + 1] \in Seq(S) /\ Len(g[m + 1]) = Len(r) + 1
      BY <3>4, <3>5, <3>6
    <3>8. ASSUME NEW k \in 1 .. Len(q) PROVE g[m + 1][k] = s[q[k]]
      <4>1. CASE k = Len(r) + 1
        BY <3>2, <3>4, <3>5, <3>6, <4>1
      <4>2. CASE k # Len(r) + 1
        <5>1. k \in 1 .. Len(r)
          BY <3>1, <3>2, <4>2
        <5>2. g[m + 1][k] = g[m][k]
          BY <3>4, <3>5, <3>6, <5>1
        <5> QED BY <3>2, <3>6, <5>1, <5>2
      <4> QED BY <4>1, <4>2
    <3>9. g[m + 1] = [k \in 1 .. Len(q) |-> g[m + 1][k]]
      BY <3>2, <3>7
    <3>10. g[m + 1] = [k \in 1 .. Len(q) |-> s[q[k]]]
      BY <3>8, <3>9
    <3>11. Done(m + 1)
      BY <3>3, <3>10
    <3> HIDE DEF Done
    <3> QED BY <2>2, <3>11
  <2>4. CASE s[m + 1] \notin T
    <3>1. g[m + 1] = g[m] /\ RowsUpTo(s, T, m + 1) = RowsUpTo(s, T, m)
      BY <1>1, <2>2, <2>4, RowsGrow
    <3>2. Done(m + 1)
      BY <2>1, <3>1
    <3> HIDE DEF Done
    <3> QED BY <2>2, <3>2
  <2> QED BY <2>3, <2>4
<1>5. Len(s) \in D
  <2> HIDE DEF D
  <2>1. 0 .. Len(s) \subseteq D
    BY <1>2, <1>3, <1>4, InductionUpTo
  <2> QED BY <1>2, <2>1
<1>6. RowsUpTo(s, T, Len(s)) = RowsIn(s, T)
  BY DEF RowsUpTo, RowsIn
<1> QED BY <1>1, <1>5, <1>6 DEF Shows

\* What the positions of a view are.
LEMMA ShownRows ==
  ASSUME NEW S, NEW s \in Seq(S), NEW T, NEW r, NEW v, Shows(r, s, T, v)
  PROVE  /\ r \in Seq(Nat) /\ v \in Seq(S)
         /\ Len(r) \in Nat /\ Len(v) = Len(r)
         /\ \A k \in 1 .. Len(r) :
              r[k] \in 1 .. Len(s) /\ s[r[k]] \in T /\ v[k] = s[r[k]]
         /\ \A j \in 1 .. Len(r) : \A i \in 1 .. j - 1 : r[i] < r[j]
         /\ \A x \in 1 .. Len(s) : s[x] \in T => \E k \in 1 .. Len(r) : r[k] = x
<1>1. r \in Seq(RowsIn(s, T)) /\ RowsIn(s, T) \subseteq Nat
  BY DEF Shows, Enumerates, RowsIn
<1>2. r \in Seq(Nat) /\ Len(r) \in Nat
  BY <1>1
<1>3. \A k \in 1 .. Len(r) : r[k] \in RowsIn(s, T)
  BY <1>1
<1>4. \A k \in 1 .. Len(r) : r[k] \in 1 .. Len(s) /\ s[r[k]] \in T
  BY <1>3 DEF RowsIn
<1>5. v = [k \in 1 .. Len(r) |-> s[r[k]]]
  BY DEF Shows
<1>6. \A k \in 1 .. Len(r) : s[r[k]] \in S
  BY <1>4
<1>7. v \in Seq(S) /\ Len(v) = Len(r)
  BY <1>2, <1>5, <1>6
<1>8. \A j \in 1 .. Len(r) : \A i \in 1 .. j - 1 : r[i] < r[j]
  BY DEF Shows, Enumerates
<1>9. \A x \in 1 .. Len(s) : s[x] \in T => \E k \in 1 .. Len(r) : r[k] = x
  BY DEF Shows, Enumerates, RowsIn
<1> QED BY <1>2, <1>4, <1>5, <1>7, <1>8, <1>9

\* The walk finds the positions of a view, whatever lies between.
LEMMA MappedEnumerates ==
  ASSUME NEW S, NEW s \in Seq(S), NEW T, NEW r, NEW v, Shows(r, s, T, v)
  PROVE  Mapped(s, v) = r
<1>1. /\ r \in Seq(Nat) /\ v \in Seq(S)
      /\ Len(r) \in Nat /\ Len(v) = Len(r)
      /\ \A k \in 1 .. Len(r) : r[k] \in 1 .. Len(s) /\ s[r[k]] \in T /\ v[k] = s[r[k]]
  BY ShownRows
<1>0. PICK g : Walks(g, s, v)
  BY <1>1, MappedSteps
<1>2. /\ g \in [0 .. Len(s) -> Seq(Nat)]
      /\ g[0] = <<>>
      /\ \A i \in 1 .. Len(s) :
           g[i] = IF Len(g[i - 1]) < Len(v) /\ s[i] = v[Len(g[i - 1]) + 1]
                  THEN Append(g[i - 1], i) ELSE g[i - 1]
      /\ Mapped(s, v) = g[Len(s)]
  BY <1>0 DEF Walks
<1> DEFINE D == {m \in 0 .. Len(s) : Enumerates(g[m], RowsUpTo(s, T, m))}
<1>3. Len(s) \in Nat /\ RowsUpTo(s, T, Len(s)) = RowsIn(s, T) /\ RowsIn(s, T) \in SUBSET Int
  BY DEF RowsUpTo, RowsIn
<1>4. Enumerates(r, RowsIn(s, T))
  BY DEF Shows
<1>5. 0 \in D
  <2>1. Enumerates(<<>>, RowsUpTo(s, T, 0))
    BY DEF Enumerates, RowsUpTo
  <2> QED BY <1>2, <1>3, <2>1
<1>6. ASSUME NEW m \in 0 .. Len(s) - 1, m \in D
      PROVE  m + 1 \in D
  <2>1. m \in Nat /\ m + 1 \in 1 .. Len(s) /\ m + 1 \in 0 .. Len(s) /\ (m + 1) - 1 = m
    BY <1>3
  <2> DEFINE e == g[m]
  <2>2. Enumerates(e, RowsUpTo(s, T, m))
    BY <1>6
  <2>3. e \in Seq(Nat) /\ Len(e) \in Nat
    BY <1>2, <2>1
  <2>4. g[m + 1] = IF Len(e) < Len(v) /\ s[m + 1] = v[Len(e) + 1]
                   THEN Append(e, m + 1) ELSE e
    BY <1>2, <2>1
  <2> HIDE DEF e
  <2>5. CASE s[m + 1] \in T
    <3> DEFINE q == Append(e, m + 1)
    <3>1. Enumerates(q, RowsUpTo(s, T, m + 1))
      <4> DEFINE A == RowsUpTo(s, T, m)
      <4>1. A \in SUBSET Int /\ (\A a \in A : a < m + 1) /\ m + 1 \in Int
        BY <2>1 DEF RowsUpTo
      <4>2. RowsUpTo(s, T, m + 1) = A \cup {m + 1}
        BY <2>1, <2>5, RowsGrow
      <4>3. Enumerates(e, A)
        BY <2>2
      <4> HIDE DEF A
      <4>4. Enumerates(Append(e, m + 1), A \cup {m + 1})
        BY <4>1, <4>3, EnumerationGrows
      <4> QED BY <4>2, <4>4
    <3>2. Len(q) = Len(e) + 1 /\ q[Len(e) + 1] = m + 1
      BY <2>1, <2>3
    <3> HIDE DEF q
    <3>3. Len(q) <= Len(r) /\ \A k \in 1 .. Len(q) : q[k] = r[k]
      <4> DEFINE A == RowsUpTo(s, T, m + 1)
                 B == RowsIn(s, T)
      <4>1. A \in SUBSET Int /\ A \subseteq B /\ \A a \in A, b \in B \ A : a < b
        BY <1>3, <2>1 DEF RowsUpTo, RowsIn
      <4> HIDE DEF A, B
      <4>2. B \in SUBSET Int /\ Enumerates(r, B) /\ Enumerates(q, A)
        BY <1>3, <1>4, <3>1 DEF A, B
      <4> QED BY <4>1, <4>2, EnumerationPrefix
    <3>4. Len(e) + 1 \in 1 .. Len(q)
      BY <2>3, <3>2
    <3>5. r[Len(e) + 1] = m + 1 /\ Len(e) + 1 \in 1 .. Len(r)
      BY <1>1, <2>3, <3>2, <3>3, <3>4
    <3>6. Len(e) < Len(v) /\ v[Len(e) + 1] = s[m + 1]
      BY <1>1, <2>3, <3>5
    <3>7. g[m + 1] = q
      BY <2>4, <3>6 DEF q
    <3> QED BY <2>1, <3>1, <3>7
  <2>6. CASE s[m + 1] \notin T
    <3>1. ~(Len(e) < Len(v) /\ s[m + 1] = v[Len(e) + 1])
      <4> SUFFICES ASSUME Len(e) < Len(v), s[m + 1] = v[Len(e) + 1] PROVE FALSE
        OBVIOUS
      <4>1. Len(e) + 1 \in 1 .. Len(r)
        BY <1>1, <2>3
      <4>2. v[Len(e) + 1] \in T
        BY <1>1, <4>1
      <4> QED BY <2>6, <4>2
    <3>2. g[m + 1] = e /\ RowsUpTo(s, T, m + 1) = RowsUpTo(s, T, m)
      BY <2>1, <2>4, <2>6, <3>1, RowsGrow
    <3> QED BY <2>1, <2>2, <3>2
  <2> QED BY <2>5, <2>6
<1>7. Len(s) \in D
  <2> HIDE DEF D
  <2>1. 0 .. Len(s) \subseteq D
    BY <1>3, <1>5, <1>6, InductionUpTo
  <2> QED BY <1>3, <2>1
<1>8. Enumerates(g[Len(s)], RowsIn(s, T))
  BY <1>3, <1>7
<1> QED BY <1>2, <1>3, <1>4, <1>8, EnumerationUnique

-----------------------------------------------------------------------------
(* Views of two memberships.                                               *)

\* f takes the positions that T shows of s to those that U shows of z, in their order.
Carries(f, s, T, z, U) ==
  /\ \A i \in RowsIn(s, T) : f[i] \in RowsIn(z, U) /\ z[f[i]] = s[i]
  /\ \A i, j \in RowsIn(s, T) : i < j => f[i] < f[j]
  /\ \A x \in RowsIn(z, U) : \E i \in RowsIn(s, T) : f[i] = x

\* Then the two views are the same.
LEMMA RetainedCarried ==
  ASSUME NEW S, NEW s \in Seq(S), NEW z \in Seq(S), NEW T, NEW U, NEW f,
         Carries(f, s, T, z, U)
  PROVE  Retained(z, U) = Retained(s, T)
<1>1. PICK r : Shows(r, s, T, Retained(s, T))
  BY RetainedEnumerated
<1>2. PICK q : Shows(q, z, U, Retained(z, U))
  BY RetainedEnumerated
<1> DEFINE c == [k \in 1 .. Len(r) |-> f[r[k]]]
<1>3. /\ Len(r) \in Nat
      /\ \A k \in 1 .. Len(r) : r[k] \in RowsIn(s, T)
      /\ \A j \in 1 .. Len(r) : \A i \in 1 .. j - 1 : r[i] < r[j]
      /\ \A x \in RowsIn(s, T) : \E k \in 1 .. Len(r) : r[k] = x
  BY <1>1, ShownRows DEF RowsIn
<1>4. c \in Seq(RowsIn(z, U)) /\ Len(c) = Len(r)
  BY <1>3 DEF Carries
<1>5. ASSUME NEW j \in 1 .. Len(c), NEW i \in 1 .. j - 1 PROVE c[i] < c[j]
  <2>1. i \in 1 .. Len(r) /\ j \in 1 .. Len(r) /\ r[i] < r[j]
    BY <1>3, <1>4
  <2>2. f[r[i]] < f[r[j]]
    BY <1>3, <2>1 DEF Carries
  <2> QED BY <2>1, <2>2
<1>6. ASSUME NEW x \in RowsIn(z, U) PROVE \E k \in 1 .. Len(c) : c[k] = x
  <2>1. PICK i \in RowsIn(s, T) : f[i] = x
    BY DEF Carries
  <2>2. PICK k \in 1 .. Len(r) : r[k] = i
    BY <1>3
  <2> QED BY <1>4, <2>1, <2>2
<1>7. Enumerates(c, RowsIn(z, U))
  BY <1>4, <1>5, <1>6 DEF Enumerates
<1>8. q = c
  <2>1. RowsIn(z, U) \in SUBSET Int
    BY DEF RowsIn
  <2>2. Enumerates(q, RowsIn(z, U))
    BY <1>2 DEF Shows
  <2> HIDE DEF c
  <2> QED BY <1>7, <2>1, <2>2, EnumerationUnique
<1>9. Retained(z, U) = [k \in 1 .. Len(r) |-> z[c[k]]]
  <2> HIDE DEF c
  <2> QED BY <1>2, <1>4, <1>8 DEF Shows
<1>10. \A k \in 1 .. Len(r) : z[c[k]] = s[r[k]]
  BY <1>3 DEF Carries
<1>11. Retained(s, T) = [k \in 1 .. Len(r) |-> s[r[k]]]
  BY <1>1 DEF Shows
<1> HIDE DEF c
<1> QED BY <1>9, <1>10, <1>11

\* y comes right after x somewhere in v.
Adjacent(v, x, y) == \E k \in 1 .. Len(v) - 1 : v[k] = x /\ v[k + 1] = y

\* Rows that stand beside each other do so in every view that shows both.
LEMMA RetainedAdjacent ==
  ASSUME NEW S, NEW s \in Seq(S), NEW T, NEW i \in 1 .. Len(s) - 1, s[i] \in T, s[i + 1] \in T
  PROVE  Adjacent(Retained(s, T), s[i], s[i + 1])
<1> DEFINE v == Retained(s, T)
<1>1. PICK r : Shows(r, s, T, v)
  BY RetainedEnumerated
<1> HIDE DEF v
<1>2. /\ Len(r) \in Nat /\ Len(v) = Len(r)
      /\ \A k \in 1 .. Len(r) : r[k] \in 1 .. Len(s) /\ v[k] = s[r[k]]
      /\ \A j \in 1 .. Len(r) : \A k \in 1 .. j - 1 : r[k] < r[j]
      /\ \A x \in 1 .. Len(s) : s[x] \in T => \E k \in 1 .. Len(r) : r[k] = x
  BY <1>1, ShownRows
<1>3. Len(s) \in Nat /\ i \in 1 .. Len(s) /\ i + 1 \in 1 .. Len(s)
  OBVIOUS
<1>4. PICK k \in 1 .. Len(r) : r[k] = i
  BY <1>2, <1>3
<1>5. PICK l \in 1 .. Len(r) : r[l] = i + 1
  BY <1>2, <1>3
<1>6. k < l
  <2> SUFFICES ASSUME ~(k < l) PROVE FALSE
    OBVIOUS
  <2>1. k # l
    BY <1>3, <1>4, <1>5
  <2>2. l \in 1 .. k - 1
    BY <1>2, <2>1
  <2>3. r[l] < r[k]
    BY <1>2, <2>2
  <2> QED BY <1>3, <1>4, <1>5, <2>3
<1>7. l = k + 1
  <2> SUFFICES ASSUME l # k + 1 PROVE FALSE
    OBVIOUS
  <2>1. k + 1 \in 1 .. l - 1 /\ k \in 1 .. (k + 1) - 1 /\ k + 1 \in 1 .. Len(r)
    BY <1>2, <1>6
  <2>2. r[k + 1] < r[l] /\ r[k] < r[k + 1] /\ r[k + 1] \in Int
    BY <1>2, <2>1
  <2> QED BY <1>3, <1>4, <1>5, <2>2
<1>8. k \in 1 .. Len(v) - 1 /\ v[k] = s[i] /\ v[k + 1] = s[i + 1]
  BY <1>2, <1>4, <1>5, <1>6, <1>7
<1> QED BY <1>8 DEF v, Adjacent

\* The whole membership is a view of itself.
LEMMA RetainedAll ==
  ASSUME NEW S, NEW s \in Seq(S)
  PROVE  Retained(s, S) = s
<1> DEFINE e == [k \in 1 .. Len(s) |-> k]
<1>1. Len(s) \in Nat /\ RowsIn(s, S) = 1 .. Len(s)
  BY DEF RowsIn
<1>2. e \in Seq(1 .. Len(s)) /\ Len(e) = Len(s)
  BY <1>1
<1>3. Enumerates(e, RowsIn(s, S))
  BY <1>1, <1>2 DEF Enumerates
<1>4. PICK r : Shows(r, s, S, Retained(s, S))
  BY RetainedEnumerated
<1>5. r = e
  <2> HIDE DEF e
  <2>1. RowsIn(s, S) \in SUBSET Int
    BY <1>1
  <2> QED BY <1>3, <1>4, <2>1, EnumerationUnique DEF Shows
<1>6. Retained(s, S) = [k \in 1 .. Len(s) |-> s[k]]
  <2>1. Retained(s, S) = [k \in 1 .. Len(e) |-> s[e[k]]]
    <3> HIDE DEF e
    <3> QED BY <1>4, <1>5 DEF Shows
  <2> QED BY <1>2, <2>1
<1>7. s = [k \in 1 .. Len(s) |-> s[k]]
  OBVIOUS
<1> QED BY <1>6, <1>7

\* x has at most one row in s.
Once(x, s) == \A i, j \in 1 .. Len(s) : s[i] = x /\ s[j] = x => i = j

\* An identity with one row in the membership has at most one in a view, and the other
\* way round if the view shows it.
LEMMA RetainedOnce ==
  ASSUME NEW S, NEW s \in Seq(S), NEW T, NEW x
  PROVE  /\ Once(x, s) => Once(x, Retained(s, T))
         /\ x \in T /\ Once(x, Retained(s, T)) => Once(x, s)
<1> DEFINE v == Retained(s, T)
<1>1. PICK r : Shows(r, s, T, v)
  BY RetainedEnumerated
<1> HIDE DEF v
<1>2. /\ Len(r) \in Nat /\ Len(v) = Len(r)
      /\ \A k \in 1 .. Len(r) : r[k] \in 1 .. Len(s) /\ v[k] = s[r[k]]
      /\ \A j \in 1 .. Len(r) : \A k \in 1 .. j - 1 : r[k] < r[j]
      /\ \A y \in 1 .. Len(s) : s[y] \in T => \E k \in 1 .. Len(r) : r[k] = y
  BY <1>1, ShownRows
<1>3. ASSUME Once(x, s), NEW k \in 1 .. Len(v), NEW l \in 1 .. Len(v), v[k] = x, v[l] = x
      PROVE  k = l
  <2>1. r[k] \in 1 .. Len(s) /\ r[l] \in 1 .. Len(s) /\ s[r[k]] = x /\ s[r[l]] = x
    BY <1>2, <1>3
  <2>2. r[k] = r[l]
    BY <1>3, <2>1 DEF Once
  <2>3. k = l \/ k \in 1 .. l - 1 \/ l \in 1 .. k - 1
    BY <1>2
  <2>4. k = l \/ r[k] < r[l] \/ r[l] < r[k]
    BY <1>2, <2>3
  <2>5. r[k] \in Int
    BY <2>1
  <2> QED BY <2>2, <2>4, <2>5
<1>4. ASSUME x \in T, Once(x, v), NEW i \in 1 .. Len(s), NEW j \in 1 .. Len(s), s[i] = x, s[j] = x
      PROVE  i = j
  <2>1. PICK k \in 1 .. Len(r) : r[k] = i
    BY <1>2, <1>4
  <2>2. PICK l \in 1 .. Len(r) : r[l] = j
    BY <1>2, <1>4
  <2>3. v[k] = x /\ v[l] = x /\ k \in 1 .. Len(v) /\ l \in 1 .. Len(v)
    BY <1>2, <1>4, <2>1, <2>2
  <2>4. k = l
    BY <1>4, <2>3 DEF Once
  <2> QED BY <2>1, <2>2, <2>4
<1>5. Once(x, s) => Once(x, v)
  BY <1>3 DEF Once
<1>6. x \in T /\ Once(x, v) => Once(x, s)
  BY <1>4 DEF Once
<1> QED BY <1>5, <1>6 DEF v
-----------------------------------------------------------------------------
(* Rows put in and taken out.                                              *)

\* Two sequences end to end.
LEMMA Concatenation ==
  ASSUME NEW S, NEW a \in Seq(S), NEW b \in Seq(S)
  PROVE  a \o b \in Seq(S) /\ Len(a \o b) = Len(a) + Len(b)
OBVIOUS

\* The rows after one is removed.
LEMMA RemovedRow ==
  ASSUME NEW S, NEW s \in Seq(S), NEW i \in 1 .. Len(s)
  PROVE  /\ RemoveAt(s, i) \in Seq(S)
         /\ Len(RemoveAt(s, i)) = Len(s) - 1
         /\ \A k \in 1 .. Len(s) - 1 : RemoveAt(s, i)[k] = IF k < i THEN s[k] ELSE s[k + 1]
<1> DEFINE a == SubSeq(s, 1, i - 1)
           b == SubSeq(s, i + 1, Len(s))
<1>1. Len(s) \in Nat
  OBVIOUS
<1>2. a \in Seq(S) /\ Len(a) = i - 1 /\ \A k \in 1 .. i - 1 : a[k] = s[k]
  BY <1>1
<1>3. b \in Seq(S) /\ Len(b) = Len(s) - i /\ \A k \in 1 .. Len(s) - i : b[k] = s[i + k]
  BY <1>1
<1>4. RemoveAt(s, i) = a \o b
  BY DEF RemoveAt
<1> HIDE DEF a, b
<1>5. a \o b \in Seq(S) /\ Len(a \o b) = Len(s) - 1
  <2>1. a \o b \in Seq(S) /\ Len(a \o b) = Len(a) + Len(b)
    BY <1>2, <1>3, Concatenation
  <2> QED BY <1>1, <1>2, <1>3, <2>1
<1>6. ASSUME NEW k \in 1 .. Len(s) - 1
      PROVE  (a \o b)[k] = IF k < i THEN s[k] ELSE s[k + 1]
  <2>1. CASE k < i
    BY <1>1, <1>2, <1>3, <2>1
  <2>2. CASE ~(k < i)
    <3>1. (a \o b)[k] = b[k - (i - 1)]
      BY <1>1, <1>2, <1>3, <2>2
    <3>2. k - (i - 1) \in 1 .. Len(s) - i /\ i + (k - (i - 1)) = k + 1
      BY <1>1, <2>2
    <3> QED BY <1>3, <2>2, <3>1, <3>2
  <2> QED BY <2>1, <2>2
<1> QED BY <1>4, <1>5, <1>6

\* z is s with x put in before row i.
Inserted(z, s, i, x) ==
  /\ Len(z) = Len(s) + 1
  /\ z[i] = x
  /\ \A k \in 1 .. Len(s) : z[IF k < i THEN k ELSE k + 1] = s[k]

\* The rows after one is inserted.
LEMMA InsertedRow ==
  ASSUME NEW S, NEW s \in Seq(S), NEW i \in 1 .. Len(s) + 1, NEW x \in S
  PROVE  InsertAt(s, i, x) \in Seq(S) /\ Inserted(InsertAt(s, i, x), s, i, x)
<1> DEFINE a == SubSeq(s, 1, i - 1)
           c == a \o <<x>>
           b == SubSeq(s, i, Len(s))
<1>1. Len(s) \in Nat
  OBVIOUS
<1>2. a \in Seq(S) /\ Len(a) = i - 1 /\ \A k \in 1 .. i - 1 : a[k] = s[k]
  BY <1>1
<1>3. b \in Seq(S) /\ Len(b) = Len(s) - i + 1
      /\ \A k \in 1 .. Len(s) - i + 1 : b[k] = s[i - 1 + k]
  BY <1>1
<1> HIDE DEF a, b
<1>4. c \in Seq(S) /\ Len(c) = i /\ c[i] = x /\ \A k \in 1 .. i - 1 : c[k] = s[k]
  BY <1>2
<1>5. InsertAt(s, i, x) = c \o b
  BY DEF InsertAt, a, b
<1> HIDE DEF c
<1>6. c \o b \in Seq(S) /\ Len(c \o b) = Len(s) + 1
  BY <1>1, <1>3, <1>4
<1>7. (c \o b)[i] = x
  BY <1>1, <1>3, <1>4
<1>8. ASSUME NEW k \in 1 .. Len(s)
      PROVE  (c \o b)[IF k < i THEN k ELSE k + 1] = s[k]
  <2>1. CASE k < i
    BY <1>1, <1>3, <1>4, <2>1
  <2>2. CASE ~(k < i)
    <3>1. (c \o b)[k + 1] = b[(k + 1) - i]
      BY <1>1, <1>3, <1>4, <2>2
    <3>2. (k + 1) - i \in 1 .. Len(s) - i + 1 /\ i - 1 + ((k + 1) - i) = k
      BY <1>1, <2>2
    <3> QED BY <1>3, <2>2, <3>1, <3>2
  <2> QED BY <2>1, <2>2
<1> QED BY <1>5, <1>6, <1>7, <1>8 DEF Inserted

\* Where a moved row is put back, among the rows that are left.
Destination(from, to, placement) ==
  LET anchor == IF from < to THEN to - 1 ELSE to
  IN  IF placement = "before" THEN anchor ELSE anchor + 1

\* Where row i is after the row `from` has left and was put back at d.
Shift(i, from, d) ==
  LET rest == IF i > from THEN i - 1 ELSE i
  IN  IF rest < d THEN rest ELSE rest + 1

\* The rows that do not move keep their order, and fill the places beside d.
Shifted(n, from, d) ==
  /\ \A i \in (1 .. n) \ {from} : Shift(i, from, d) \in (1 .. n) \ {d}
  /\ \A i, j \in (1 .. n) \ {from} : i < j => Shift(i, from, d) < Shift(j, from, d)
  /\ \A x \in (1 .. n) \ {d} : \E i \in (1 .. n) \ {from} : Shift(i, from, d) = x

\* A move shifts the others so.
LEMMA Shifts ==
  ASSUME NEW n \in Nat, NEW from \in 1 .. n, NEW d \in 1 .. n
  PROVE  Shifted(n, from, d)
<1>1. \A i \in (1 .. n) \ {from} : Shift(i, from, d) \in (1 .. n) \ {d}
  BY DEF Shift
<1>2. \A i, j \in (1 .. n) \ {from} : i < j => Shift(i, from, d) < Shift(j, from, d)
  BY DEF Shift
<1>3. ASSUME NEW x \in (1 .. n) \ {d}
      PROVE  \E i \in (1 .. n) \ {from} : Shift(i, from, d) = x
  <2> DEFINE y == IF x < d THEN x ELSE x - 1
             i == IF y < from THEN y ELSE y + 1
  <2>1. i \in (1 .. n) \ {from} /\ Shift(i, from, d) = x
    BY DEF Shift
  <2> QED BY <2>1
<1> QED BY <1>1, <1>2, <1>3 DEF Shifted

\* The destination is a row, and the anchor ends beside it.
LEMMA Destinations ==
  ASSUME NEW n \in Nat, NEW from \in 1 .. n, NEW to \in 1 .. n, from # to,
         NEW placement \in {"before", "after"}
  PROVE  /\ Destination(from, to, placement) \in 1 .. n
         /\ Shift(to, from, Destination(from, to, placement))
              = IF placement = "before" THEN Destination(from, to, placement) + 1
                ELSE Destination(from, to, placement) - 1
BY DEF Destination, Shift

\* The rows after move_unique_relative.
LEMMA PlacedRows ==
  ASSUME NEW S, NEW s \in Seq(S), NEW from \in 1 .. Len(s), NEW to \in 1 .. Len(s), from # to,
         NEW placement \in {"before", "after"}, NEW z, z = Placed(s, from, to, placement),
         NEW d, d = Destination(from, to, placement)
  PROVE  /\ z \in Seq(S) /\ Len(z) = Len(s)
         /\ z[d] = s[from]
         /\ \A i \in (1 .. Len(s)) \ {from} : z[Shift(i, from, d)] = s[i]
<1> DEFINE rest == RemoveAt(s, from)
<1>1. Len(s) \in Nat /\ s[from] \in S
  OBVIOUS
<1>2. /\ rest \in Seq(S) /\ Len(rest) = Len(s) - 1
      /\ \A k \in 1 .. Len(s) - 1 : rest[k] = IF k < from THEN s[k] ELSE s[k + 1]
  BY RemovedRow
<1>3. d \in 1 .. Len(s)
  BY <1>1, Destinations
<1>4. z = InsertAt(rest, d, s[from])
  BY DEF Placed, Destination
<1> HIDE DEF rest
<1>5. d \in 1 .. Len(rest) + 1
  BY <1>1, <1>2, <1>3
<1>6. /\ z \in Seq(S) /\ Len(z) = Len(rest) + 1
      /\ z[d] = s[from]
      /\ \A k \in 1 .. Len(rest) : z[IF k < d THEN k ELSE k + 1] = rest[k]
  <2>1. z \in Seq(S) /\ Inserted(z, rest, d, s[from])
    BY <1>1, <1>2, <1>4, <1>5, InsertedRow
  <2> QED BY <2>1 DEF Inserted
<1>7. ASSUME NEW i \in (1 .. Len(s)) \ {from}
      PROVE  z[Shift(i, from, d)] = s[i]
  <2> DEFINE k == IF i > from THEN i - 1 ELSE i
  <2>1. k \in 1 .. Len(s) - 1
    BY <1>1
  <2>2. rest[k] = s[i]
    BY <1>1, <1>2, <2>1
  <2>3. Shift(i, from, d) = IF k < d THEN k ELSE k + 1
    BY DEF Shift
  <2> HIDE DEF k
  <2>4. z[IF k < d THEN k ELSE k + 1] = rest[k]
    BY <1>2, <1>6, <2>1
  <2> QED BY <2>2, <2>3, <2>4
<1>8. Len(z) = Len(s)
  BY <1>1, <1>2, <1>6
<1> QED BY <1>6, <1>7, <1>8

\* What a move does to the membership.
LEMMA MovedRows ==
  ASSUME NEW s \in Seq(Identities), NEW from \in 1 .. Len(s), NEW to \in 1 .. Len(s),
         NEW m, NEW a, s[from] = m, s[to] = a, m # a, Once(m, s), Once(a, s),
         NEW placement \in {"before", "after"}, NEW z, z = Placed(s, from, to, placement)
  PROVE  /\ z \in Seq(Identities) /\ Len(z) = Len(s)
         /\ Others(z, m) = Others(s, m)
         /\ Beside(z, m, a, placement)
         /\ Once(m, z) /\ Once(a, z)
<1>1. PICK d : d = Destination(from, to, placement)
  OBVIOUS
<1>2. from # to /\ Len(s) \in Nat
  OBVIOUS
<1>3. /\ z \in Seq(Identities) /\ Len(z) = Len(s)
      /\ z[d] = m
      /\ \A i \in (1 .. Len(s)) \ {from} : z[Shift(i, from, d)] = s[i]
  BY <1>1, <1>2, PlacedRows
<1>4. d \in 1 .. Len(s)
      /\ Shift(to, from, d) = IF placement = "before" THEN d + 1 ELSE d - 1
  BY <1>1, <1>2, Destinations
<1>5. /\ \A i \in (1 .. Len(s)) \ {from} : Shift(i, from, d) \in (1 .. Len(s)) \ {d}
      /\ \A i, j \in (1 .. Len(s)) \ {from} : i < j => Shift(i, from, d) < Shift(j, from, d)
      /\ \A x \in (1 .. Len(s)) \ {d} : \E i \in (1 .. Len(s)) \ {from} : Shift(i, from, d) = x
  <2>1. Shifted(Len(s), from, d)
    BY <1>2, <1>4, Shifts
  <2> QED BY <2>1 DEF Shifted
<1>6. \A i \in (1 .. Len(s)) \ {from} : s[i] # m
  BY DEF Once
<1>7. \A x \in (1 .. Len(s)) \ {d} : z[x] # m
  <2> TAKE x \in (1 .. Len(s)) \ {d}
  <2>1. PICK i \in (1 .. Len(s)) \ {from} : Shift(i, from, d) = x
    BY <1>5
  <2> QED BY <1>3, <1>6, <2>1
<1>8. Once(m, z)
  BY <1>3, <1>7 DEF Once
<1>9. to \in (1 .. Len(s)) \ {from} /\ z[Shift(to, from, d)] = a
  BY <1>2, <1>3
<1>10. Once(a, z)
  <2>1. ASSUME NEW x \in 1 .. Len(s), z[x] = a PROVE x = Shift(to, from, d)
    <3>1. x # d
      BY <1>3, <2>1
    <3>2. PICK i \in (1 .. Len(s)) \ {from} : Shift(i, from, d) = x
      BY <1>5, <3>1
    <3>3. s[i] = a
      BY <1>3, <2>1, <3>2
    <3>4. i = to
      BY <3>3 DEF Once
    <3> QED BY <3>2, <3>4
  <2> QED BY <1>3, <2>1 DEF Once
<1>11. Beside(z, m, a, placement)
  <2>1. Shift(to, from, d) \in 1 .. Len(s)
    BY <1>5, <1>9
  <2>2. CASE placement = "before"
    <3>1. d \in 1 .. Len(z) - 1 /\ z[d + 1] = a
      BY <1>2, <1>3, <1>4, <1>9, <2>1, <2>2
    <3> QED BY <1>3, <2>2, <3>1 DEF Beside
  <2>3. CASE placement = "after"
    <3>1. d - 1 \in 1 .. Len(z) - 1 /\ z[d - 1] = a /\ (d - 1) + 1 = d
      BY <1>2, <1>3, <1>4, <1>9, <2>1, <2>3
    <3> QED BY <1>3, <2>3, <3>1 DEF Beside
  <2> QED BY <2>2, <2>3
<1>12. Others(z, m) = Others(s, m)
  <2> DEFINE f == [i \in 1 .. Len(s) |-> Shift(i, from, d)]
             T == Identities \ {m}
  <2>1. RowsIn(s, T) = (1 .. Len(s)) \ {from}
    BY <1>2, <1>6 DEF RowsIn
  <2>2. RowsIn(z, T) = (1 .. Len(s)) \ {d}
    BY <1>2, <1>3, <1>7 DEF RowsIn
  <2>3. \A i \in (1 .. Len(s)) \ {from} : f[i] = Shift(i, from, d)
    OBVIOUS
  <2> HIDE DEF f, T
  <2>4. Carries(f, s, T, z, T)
    <3>1. ASSUME NEW i \in RowsIn(s, T) PROVE f[i] \in RowsIn(z, T) /\ z[f[i]] = s[i]
      <4>1. f[i] \in (1 .. Len(s)) \ {d}
        BY <1>5, <2>1, <2>3
      <4> QED BY <1>3, <2>1, <2>2, <2>3, <4>1
    <3>2. ASSUME NEW i \in RowsIn(s, T), NEW j \in RowsIn(s, T), i < j PROVE f[i] < f[j]
      BY <1>5, <2>1, <2>3, <3>2
    <3>3. ASSUME NEW x \in RowsIn(z, T) PROVE \E i \in RowsIn(s, T) : f[i] = x
      <4>1. PICK i \in (1 .. Len(s)) \ {from} : Shift(i, from, d) = x
        BY <1>5, <2>2
      <4> QED BY <2>1, <2>3, <4>1
    <3> QED BY <3>1, <3>2, <3>3 DEF Carries
  <2>5. Retained(z, T) = Retained(s, T)
    BY <1>3, <2>4, RetainedCarried
  <2> QED BY <2>5 DEF Others, T
<1> QED BY <1>3, <1>8, <1>10, <1>11, <1>12

-----------------------------------------------------------------------------
(* Occurrences and neighbours.                                             *)

\* resolve_unique_occurrence.
LEMMA UniqueRow ==
  ASSUME NEW S, NEW s \in Seq(S), NEW x
  PROVE  /\ \A i \in UniqueOccurrence(x, s) : i \in 1 .. Len(s) /\ s[i] = x /\ Once(x, s)
         /\ \A i \in 1 .. Len(s) : s[i] = x /\ Once(x, s) => UniqueOccurrence(x, s) = {i}
<1>1. DOMAIN s = 1 .. Len(s)
  OBVIOUS
<1>2. ASSUME NEW i \in UniqueOccurrence(x, s)
      PROVE  i \in 1 .. Len(s) /\ s[i] = x /\ Once(x, s)
  BY <1>1 DEF UniqueOccurrence, Occurrences, Once
<1>3. ASSUME NEW i \in 1 .. Len(s), s[i] = x, Once(x, s)
      PROVE  UniqueOccurrence(x, s) = {i}
  BY <1>1, <1>3 DEF UniqueOccurrence, Occurrences, Once
<1> QED BY <1>2, <1>3

\* Rows beside each other are each other's neighbours.
LEMMA NeighborsBeside ==
  ASSUME NEW S, NEW s \in Seq(S), NEW x, NEW y, Once(x, s), Once(y, s),
         NEW placement \in {"before", "after"}, Beside(s, x, y, placement)
  PROVE  /\ Neighbors(x, s, IF placement = "before" THEN "next" ELSE "previous") = {y}
         /\ Neighbors(y, s, IF placement = "before" THEN "previous" ELSE "next") = {x}
<1>1. Len(s) \in Nat
  OBVIOUS
<1>2. ASSUME NEW i \in 1 .. Len(s) - 1
      PROVE  /\ Once(s[i], s) => Neighbors(s[i], s, "next") = {s[i + 1]}
             /\ Once(s[i + 1], s) => Neighbors(s[i + 1], s, "previous") = {s[i]}
  <2>1. i \in 1 .. Len(s) /\ i + 1 \in 1 .. Len(s) /\ (i + 1) - 1 = i /\ i < Len(s) /\ i + 1 > 1
    BY <1>1
  <2>2. ASSUME Once(s[i], s) PROVE Neighbors(s[i], s, "next") = {s[i + 1]}
    <3>1. UniqueOccurrence(s[i], s) = {i}
      BY <2>1, <2>2, UniqueRow
    <3> QED BY <2>1, <3>1 DEF Neighbors
  <2>3. ASSUME Once(s[i + 1], s) PROVE Neighbors(s[i + 1], s, "previous") = {s[i]}
    <3>1. UniqueOccurrence(s[i + 1], s) = {i + 1}
      BY <2>1, <2>3, UniqueRow
    <3> QED BY <2>1, <3>1 DEF Neighbors
  <2> QED BY <2>2, <2>3
<1>3. PICK i \in 1 .. Len(s) - 1 :
        IF placement = "before" THEN s[i] = x /\ s[i + 1] = y ELSE s[i] = y /\ s[i + 1] = x
  BY DEF Beside
<1> QED BY <1>2, <1>3

\* Rows beside each other stay so in a view that shows both.
LEMMA RetainedBeside ==
  ASSUME NEW S, NEW s \in Seq(S), NEW T, NEW x \in T, NEW y \in T,
         NEW placement \in {"before", "after"}, Beside(s, x, y, placement)
  PROVE  Beside(Retained(s, T), x, y, placement)
<1>1. PICK i \in 1 .. Len(s) - 1 :
        IF placement = "before" THEN s[i] = x /\ s[i + 1] = y ELSE s[i] = y /\ s[i + 1] = x
  BY DEF Beside
<1>2. s[i] \in T /\ s[i + 1] \in T
  BY <1>1
<1>3. Adjacent(Retained(s, T), s[i], s[i + 1])
  BY <1>2, RetainedAdjacent
<1> QED BY <1>1, <1>3 DEF Beside, Adjacent
-----------------------------------------------------------------------------
(* Sorting.                                                                *)

\* L orders R strictly and totally.
Orders(L, R) ==
  /\ \A x, y \in R : <<x, y>> \in L => <<y, x>> \notin L
  /\ \A x, y, z \in R : <<x, y>> \in L /\ <<y, z>> \in L => <<x, z>> \in L
  /\ \A x, y \in R : x # y => <<x, y>> \in L \/ <<y, x>> \in L

\* A finite set can be sorted.
LEMMA SortedSequence ==
  ASSUME NEW R, IsFiniteSet(R), NEW L, Orders(L, R)
  PROVE  \E q \in SetToSeqs(R) : \A i, j \in DOMAIN q : i < j => <<q[i], q[j]>> \in L
<1> DEFINE n == Cardinality(R)
           Below(x) == {y \in R : <<y, x>> \in L}
           f == [x \in R |-> Cardinality(Below(x)) + 1]
<1>1. n \in Nat
  BY FS_CardinalityType
<1>2. ASSUME NEW x \in R
      PROVE  /\ IsFiniteSet(Below(x)) /\ Cardinality(Below(x)) \in Nat
             /\ Cardinality(Below(x)) < n
  <2>1. x \notin Below(x)
    BY DEF Orders
  <2>2. Below(x) \in SUBSET (R \ {x})
    BY <2>1
  <2>3. IsFiniteSet(R \ {x}) /\ Cardinality(R \ {x}) = n - 1
    BY FS_RemoveElement
  <2> HIDE DEF Below, n
  <2>4. IsFiniteSet(Below(x)) /\ Cardinality(Below(x)) <= Cardinality(R \ {x})
    BY <2>2, <2>3, FS_Subset
  <2>5. Cardinality(Below(x)) \in Nat
    BY <2>4, FS_CardinalityType
  <2> QED BY <1>1, <2>3, <2>4, <2>5
<1>3. ASSUME NEW x \in R, NEW y \in R, <<x, y>> \in L
      PROVE  f[x] < f[y]
  <2>1. x \notin Below(x)
    BY DEF Orders
  <2>2. Below(x) \cup {x} \in SUBSET Below(y)
    BY <1>3 DEF Orders
  <2>3. f[x] = Cardinality(Below(x)) + 1 /\ f[y] = Cardinality(Below(y)) + 1
    OBVIOUS
  <2> HIDE DEF Below, f
  <2>4. Cardinality(Below(x) \cup {x}) = Cardinality(Below(x)) + 1
    BY <1>2, <2>1, FS_AddElement
  <2>5. Cardinality(Below(x) \cup {x}) <= Cardinality(Below(y))
    BY <1>2, <2>2, FS_Subset
  <2>6. Cardinality(Below(x)) \in Nat /\ Cardinality(Below(y)) \in Nat
    BY <1>2
  <2> QED BY <2>3, <2>4, <2>5, <2>6
<1>4. f \in [R -> 1 .. n]
  <2>1. ASSUME NEW x \in R PROVE Cardinality(Below(x)) + 1 \in 1 .. n
    <3> HIDE DEF Below, n
    <3> QED BY <1>1, <1>2
  <2> QED BY <2>1
<1> HIDE DEF f
<1>5. ASSUME NEW x \in R, NEW y \in R, f[x] = f[y]
      PROVE  x = y
  <2>1. f[x] \in Int /\ f[y] \in Int
    BY <1>1, <1>4
  <2>2. x = y \/ f[x] < f[y] \/ f[y] < f[x]
    BY <1>3 DEF Orders
  <2> QED BY <1>5, <2>1, <2>2
<1>6. f \in Injection(R, 1 .. n)
  BY <1>4, <1>5 DEF Injection, IsInjective
<1>7. f \in Surjection(R, 1 .. n)
  <2>1. IsFiniteSet(1 .. n) /\ Cardinality(1 .. n) = n
    BY <1>1, FS_Interval
  <2> QED BY <1>6, <2>1, FS_Injection
<1>8. \A k \in 1 .. n : \E x \in R : f[x] = k
  BY <1>7 DEF Surjection
<1> DEFINE q == [k \in 1 .. n |-> CHOOSE x \in R : f[x] = k]
<1>9. \A k \in 1 .. n : q[k] \in R /\ f[q[k]] = k
  BY <1>8
<1>10. q \in [1 .. n -> R] /\ DOMAIN q = 1 .. n
  BY <1>9
<1> HIDE DEF q
<1>11. \A i, j \in 1 .. n : i # j => q[i] # q[j]
  BY <1>9
<1>12. q \in SetToSeqs(R)
  BY <1>10, <1>11 DEF SetToSeqs
<1>13. ASSUME NEW i \in 1 .. n, NEW j \in 1 .. n, i < j
       PROVE  <<q[i], q[j]>> \in L
  <2>1. q[i] \in R /\ q[j] \in R /\ q[i] # q[j]
    BY <1>9, <1>13
  <2>2. ~(<<q[j], q[i]>> \in L)
    <3> SUFFICES ASSUME <<q[j], q[i]>> \in L PROVE FALSE
      OBVIOUS
    <3>1. f[q[j]] < f[q[i]]
      BY <1>3, <2>1
    <3> QED BY <1>9, <1>13, <3>1
  <2> QED BY <2>1, <2>2 DEF Orders
<1> QED BY <1>10, <1>12, <1>13

\* Every sequence of a finite set has all of it.
LEMMA SequenceOnto ==
  ASSUME NEW R, IsFiniteSet(R), NEW q \in SetToSeqs(R)
  PROVE  /\ Cardinality(R) \in Nat
         /\ q \in [1 .. Cardinality(R) -> R]
         /\ \A i, j \in 1 .. Cardinality(R) : q[i] = q[j] => i = j
         /\ \A x \in R : \E k \in 1 .. Cardinality(R) : q[k] = x
<1> DEFINE n == Cardinality(R)
<1>1. n \in Nat
  BY FS_CardinalityType
<1>2. q \in [1 .. n -> R] /\ \A i, j \in 1 .. n : i # j => q[i] # q[j]
  BY DEF SetToSeqs
<1>3. q \in Injection(1 .. n, R)
  BY <1>2 DEF Injection, IsInjective
<1>4. IsFiniteSet(1 .. n) /\ Cardinality(1 .. n) = n
  BY <1>1, FS_Interval
<1>5. q \in Surjection(1 .. n, R)
  BY <1>3, <1>4, FS_Injection
<1>6. \A x \in R : \E k \in 1 .. n : q[k] = x
  BY <1>5 DEF Surjection
<1> QED BY <1>1, <1>2, <1>6

-----------------------------------------------------------------------------
(* The views of a state.                                                   *)

\* The positions of the membership that are shown.
Rows == RowsIn(members, shown)

\* They are finitely many.
LEMMA RowsTyped ==
  ASSUME TypeOK
  PROVE  /\ IsFiniteSet(Rows)
         /\ Rows = {i \in DOMAIN members : members[i] \in shown}
         /\ \A i \in Rows : i \in 1 .. Len(members) /\ members[i] \in shown
                           /\ members[i] \in Identities
<1>1. DOMAIN members = 1 .. Len(members) /\ Len(members) \in Nat
      /\ \A i \in 1 .. Len(members) : members[i] \in Identities
  BY DEF TypeOK
<1>2. Rows \in SUBSET (1 .. Len(members))
  BY DEF Rows, RowsIn
<1>3. IsFiniteSet(1 .. Len(members))
  BY <1>1, FS_Interval
<1>4. IsFiniteSet(Rows)
  BY <1>2, <1>3, FS_Subset
<1> QED BY <1>1, <1>4 DEF Rows, RowsIn

\* An ordered view reads the membership at the shown positions, sorted.
Sorted(q, direction) ==
  /\ q \in SetToSeqs(Rows)
  /\ \A i, j \in DOMAIN q : i < j => Precedes(direction, q[i], q[j])
  /\ OrderedView(direction) = [k \in DOMAIN q |-> members[q[k]]]

\* eval_filter with `order by` has such an order.
LEMMA OrderedRows ==
  ASSUME TypeOK, StructureAssumption, NEW direction \in Directions
  PROVE  \E q : Sorted(q, direction)
<1> DEFINE L == {p \in Rows \X Rows : Precedes(direction, p[1], p[2])}
<1>2. /\ Rows = {i \in DOMAIN members : members[i] \in shown}
      /\ \A i \in Rows : i \in Int /\ members[i] \in Identities
  BY RowsTyped
<1>3. IsFiniteSet(Rows)
  BY RowsTyped
<1>4. \A i \in Rows : key[members[i]] \in Int
  BY <1>2 DEF TypeOK, StructureAssumption
<1>5. \A x, y \in Rows : <<x, y>> \in L <=> Precedes(direction, x, y)
  OBVIOUS
<1>6. Orders(L, Rows)
  <2> HIDE DEF L
  <2>1. \A x, y \in Rows : Precedes(direction, x, y) => ~Precedes(direction, y, x)
    BY <1>2, <1>4 DEF Precedes
  <2>2. \A x, y, z \in Rows :
          Precedes(direction, x, y) /\ Precedes(direction, y, z) => Precedes(direction, x, z)
    BY <1>2, <1>4 DEF Precedes
  <2>3. \A x, y \in Rows : x # y => Precedes(direction, x, y) \/ Precedes(direction, y, x)
    BY <1>2, <1>4 DEF Precedes
  <2> QED BY <1>5, <2>1, <2>2, <2>3 DEF Orders
<1> DEFINE Good(q) == /\ q \in SetToSeqs(Rows)
                      /\ \A i, j \in DOMAIN q : i < j => Precedes(direction, q[i], q[j])
<1>7. \E q : Good(q)
  <2> HIDE DEF L
  <2>1. PICK q \in SetToSeqs(Rows) : \A i, j \in DOMAIN q : i < j => <<q[i], q[j]>> \in L
    BY <1>3, <1>6, SortedSequence
  <2>2. \A i \in DOMAIN q : q[i] \in Rows
    BY DEF SetToSeqs
  <2> QED BY <1>5, <2>1, <2>2
<1> DEFINE c == CHOOSE q \in SetToSeqs(Rows) :
                  \A i, j \in DOMAIN q : i < j => Precedes(direction, q[i], q[j])
<1>8. Good(c)
  BY <1>7
<1>9. OrderedView(direction) = [k \in DOMAIN c |-> members[c[k]]]
  BY <1>2 DEF OrderedView
<1> HIDE DEF c
<1>10. Sorted(c, direction)
  BY <1>8, <1>9 DEF Sorted
<1> QED BY <1>10

\* What the sorted positions are.
LEMMA SortedRows ==
  ASSUME TypeOK, StructureAssumption, NEW direction \in Directions, NEW q, Sorted(q, direction)
  PROVE  \E n \in Nat :
           /\ q \in [1 .. n -> Rows]
           /\ \A i, j \in 1 .. n : q[i] = q[j] => i = j
           /\ \A x \in Rows : \E k \in 1 .. n : q[k] = x
           /\ \A i, j \in 1 .. n : i < j => Precedes(direction, q[i], q[j])
           /\ OrderedView(direction) \in Seq(Identities)
           /\ Len(OrderedView(direction)) = n
           /\ \A k \in 1 .. n : OrderedView(direction)[k] = members[q[k]]
<1>2. \A i \in Rows : members[i] \in Identities
  BY RowsTyped
<1>3. IsFiniteSet(Rows)
  BY RowsTyped
<1>4. PICK n \in Nat : n = Cardinality(Rows)
  BY <1>3, FS_CardinalityType
<1>5. /\ q \in [1 .. n -> Rows]
      /\ \A i, j \in 1 .. n : q[i] = q[j] => i = j
      /\ \A x \in Rows : \E k \in 1 .. n : q[k] = x
  BY <1>3, <1>4, SequenceOnto, SMTT(30) DEF Sorted
<1>6. \A i, j \in 1 .. n : i < j => Precedes(direction, q[i], q[j])
  BY <1>5 DEF Sorted
<1>7. OrderedView(direction) = [k \in 1 .. n |-> members[q[k]]]
  BY <1>5 DEF Sorted
<1>8. \A k \in 1 .. n : members[q[k]] \in Identities
  BY <1>2, <1>5
<1>9. OrderedView(direction) \in Seq(Identities) /\ Len(OrderedView(direction)) = n
      /\ \A k \in 1 .. n : OrderedView(direction)[k] = members[q[k]]
  BY <1>7, <1>8
<1> QED BY <1>5, <1>6, <1>9

\* Every structure lists identities.
LEMMA StructureTyped ==
  ASSUME TypeOK, StructureAssumption, NEW via \in Structures
  PROVE  Structure(via) \in Seq(Identities)
<1>1. View \in Seq(Identities)
  <2>1. PICK r : Shows(r, members, shown, Retained(members, shown))
    BY RetainedEnumerated DEF TypeOK
  <2> QED BY <2>1, ShownRows DEF View, TypeOK
<1>2. \A direction \in Directions : OrderedView(direction) \in Seq(Identities)
  BY OrderedRows, SortedRows
<1>3. via = "members" \/ via = "view" \/ via \in Directions
  BY DEF Structures, Backings
<1> QED BY <1>1, <1>2, <1>3 DEF Structure, Directions, TypeOK

\* The rows that a selector names are rows.
LEMMA RowsNamedTyped ==
  ASSUME NEW S, NEW s \in Seq(S), NEW selector
  PROVE  \A i \in RowsNamed(selector, s) :
           i \in 1 .. Len(s) /\ (selector[1] # "index" => s[i] = selector[2] /\ Once(selector[2], s))
<1>1. DOMAIN s = 1 .. Len(s)
  OBVIOUS
<1> QED BY <1>1, UniqueRow DEF RowsNamed

\* The walk through the membership finds the rows of the view.
LEMMA ViewRows ==
  ASSUME TypeOK
  PROVE  Shows(Mapped(members, View), members, shown, View)
<1>1. PICK r : Shows(r, members, shown, View)
  BY RetainedEnumerated DEF TypeOK, View
<1>2. Mapped(members, View) = r
  BY <1>1, MappedEnumerates DEF TypeOK
<1> QED BY <1>1, <1>2

\* r are the positions that a selection of the membership shows.
LEMMA SelectionRows ==
  ASSUME TypeOK, NEW via \in Backings
  PROVE  \E T : /\ Structure(via) = Retained(members, T)
                /\ Shows(Mapped(members, Structure(via)), members, T, Structure(via))
<1>1. CASE via = "members"
  <2>1. Structure(via) = Retained(members, Identities)
    <3>1. Structure(via) = members
      BY <1>1 DEF Structure, Directions
    <3> QED BY <3>1, RetainedAll DEF TypeOK
  <2>2. PICK r : Shows(r, members, Identities, Structure(via))
    BY <2>1, RetainedEnumerated DEF TypeOK
  <2>3. Mapped(members, Structure(via)) = r
    BY <2>2, MappedEnumerates DEF TypeOK
  <2> QED BY <2>1, <2>2, <2>3
<1>2. CASE via = "view"
  <2>1. Structure(via) = View
    BY <1>2 DEF Structure, Directions
  <2> QED BY <2>1, ViewRows DEF View
<1> QED BY <1>1, <1>2 DEF Backings

-----------------------------------------------------------------------------
(* A move.                                                                 *)

\* from and to are the rows a move concerns, which are the only ones of their identities.
Concerns(from, to, m, a, placement) ==
  /\ from \in 1 .. Len(members) /\ to \in 1 .. Len(members)
  /\ members[from] = m /\ members[to] = a
  /\ Once(m, members) /\ Once(a, members)
  /\ members' = IF from = to THEN members ELSE Placed(members, from, to, placement)

\* A move through a view is a move of rows of the membership.
LEMMA MoveRows ==
  ASSUME TypeOK, NEW via \in Backings, NEW m, NEW a, NEW placement,
         Move(via, m, a, placement)
  PROVE  \E from, to : Concerns(from, to, m, a, placement)
<1> DEFINE v == Structure(via)
           r == Mapped(members, v)
<1>1. PICK T : v = Retained(members, T) /\ Shows(r, members, T, v)
  BY SelectionRows
<1>2. PICK i \in UniqueOccurrence(m, v), j \in UniqueOccurrence(a, v) :
        members' = IF i = j THEN members ELSE Placed(members, r[i], r[j], placement)
  BY DEF Move
<1> HIDE DEF r, v
<1>3. /\ v \in Seq(Identities)
      /\ Len(r) \in Nat /\ Len(v) = Len(r)
      /\ \A k \in 1 .. Len(r) : r[k] \in 1 .. Len(members) /\ members[r[k]] \in T
                             /\ v[k] = members[r[k]]
      /\ \A l \in 1 .. Len(r) : \A k \in 1 .. l - 1 : r[k] < r[l]
  <2>1. Shows(r, members, T, v) /\ members \in Seq(Identities)
    BY <1>1 DEF TypeOK
  <2>2. /\ r \in Seq(Nat) /\ v \in Seq(Identities)
        /\ Len(r) \in Nat /\ Len(v) = Len(r)
        /\ \A k \in 1 .. Len(r) :
             r[k] \in 1 .. Len(members) /\ members[r[k]] \in T /\ v[k] = members[r[k]]
        /\ \A l \in 1 .. Len(r) : \A k \in 1 .. l - 1 : r[k] < r[l]
        /\ \A x \in 1 .. Len(members) : members[x] \in T => \E k \in 1 .. Len(r) : r[k] = x
    BY <2>1, ShownRows
  <2> QED BY <2>2
<1>4. i \in 1 .. Len(v) /\ v[i] = m /\ Once(m, v) /\ j \in 1 .. Len(v) /\ v[j] = a /\ Once(a, v)
  BY <1>2, <1>3, UniqueRow
<1>5. r[i] \in 1 .. Len(members) /\ members[r[i]] = m /\ m \in T
  BY <1>3, <1>4
<1>6. r[j] \in 1 .. Len(members) /\ members[r[j]] = a /\ a \in T
  BY <1>3, <1>4
<1>7. Once(m, members) /\ Once(a, members)
  BY <1>1, <1>4, <1>5, <1>6, RetainedOnce DEF TypeOK
<1>8. i = j <=> r[i] = r[j]
  <2>1. i = j \/ i \in 1 .. j - 1 \/ j \in 1 .. i - 1
    BY <1>3, <1>4
  <2>2. i = j \/ r[i] < r[j] \/ r[j] < r[i]
    BY <1>3, <1>4, <2>1
  <2>3. r[i] \in Int /\ r[j] \in Int
    BY <1>5, <1>6
  <2> QED BY <2>2, <2>3
<1>9. Concerns(r[i], r[j], m, a, placement)
  BY <1>2, <1>5, <1>6, <1>7, <1>8 DEF Concerns
<1> QED BY <1>9

\* Its effect, whatever view it is written through.
LEMMA MoveEffect ==
  ASSUME TypeOK, NEW via \in Backings, NEW m, NEW a, NEW placement \in {"before", "after"},
         Move(via, m, a, placement)
  PROVE  /\ members' \in Seq(Identities) /\ Len(members') = Len(members)
         /\ m = a => members' = members
         /\ m # a => /\ Others(members', m) = Others(members, m)
                     /\ Beside(members', m, a, placement)
                     /\ Once(m, members') /\ Once(a, members')
<1>1. PICK from, to : Concerns(from, to, m, a, placement)
  BY MoveRows
<1>2. /\ from \in 1 .. Len(members) /\ to \in 1 .. Len(members)
      /\ members[from] = m /\ members[to] = a
      /\ Once(m, members) /\ Once(a, members)
      /\ members' = IF from = to THEN members ELSE Placed(members, from, to, placement)
  BY <1>1 DEF Concerns
<1>3. m = a <=> from = to
  BY <1>2 DEF Once
<1>4. members \in Seq(Identities)
  BY DEF TypeOK
<1>5. CASE m = a
  BY <1>2, <1>3, <1>4, <1>5
<1>6. CASE m # a
  <2>1. members' = Placed(members, from, to, placement)
    BY <1>2, <1>3, <1>6
  <2>2. /\ members' \in Seq(Identities) /\ Len(members') = Len(members)
        /\ Others(members', m) = Others(members, m)
        /\ Beside(members', m, a, placement)
        /\ Once(m, members') /\ Once(a, members')
    BY <1>2, <1>4, <1>6, <2>1, MovedRows
  <2> QED BY <1>6, <2>2
<1> QED BY <1>5, <1>6
-----------------------------------------------------------------------------
(* Type correctness.                                                       *)

\* A row is taken out: remove of a membership or of a view.
LEMMA RemovalTyped ==
  ASSUME TypeOK, NEW i \in 1 .. Len(members), members' = RemoveAt(members, i)
  PROVE  members' \in Seq(Identities) /\ Len(members') <= MaxLength
<1>1. members' \in Seq(Identities) /\ Len(members') = Len(members) - 1
  BY RemovedRow DEF TypeOK
<1>2. Len(members) \in Nat /\ Len(members) <= MaxLength
  BY DEF TypeOK
<1>3. Len(members) - 1 <= MaxLength
  BY <1>2, StructureAssumption DEF StructureAssumption
<1> QED BY <1>1, <1>3

\* The neighbours of a row are rows.
LEMMA NeighborsTyped ==
  ASSUME NEW S, NEW s \in Seq(S), NEW x, NEW direction \in {"next", "previous"}
  PROVE  Neighbors(x, s, direction) \subseteq S
<1>1. Len(s) \in Nat /\ \A i \in 1 .. Len(s) : s[i] \in S
  OBVIOUS
<1>2. \A i \in UniqueOccurrence(x, s) : i \in 1 .. Len(s)
  BY UniqueRow
<1> QED BY <1>1, <1>2 DEF Neighbors

\* The state has its type after every statement.
LEMMA TypeStep == TypeOK /\ [Next]_vars => TypeOK'
<1> SUFFICES ASSUME TypeOK, [Next]_vars PROVE TypeOK'
  OBVIOUS
<1> USE StructureAssumption
<1>1. ASSUME NEW x \in Identities, Insert(x) PROVE TypeOK'
  <2>1. members' \in Seq(Identities) /\ Len(members') <= MaxLength
    <3>1. members \in Seq(Identities) /\ Len(members) < MaxLength /\ members' = Append(members, x)
      BY <1>1 DEF Insert, TypeOK
    <3>2. members' \in Seq(Identities) /\ Len(members') = Len(members) + 1
      BY <3>1
    <3> QED BY <3>1, <3>2 DEF StructureAssumption
  <2> QED BY <1>1, <2>1 DEF Insert, TypeOK
<1>2. ASSUME NEW s \in Selectors, RemoveMember(s) PROVE TypeOK'
  <2>1. PICK i \in RowsNamed(s, members) : members' = RemoveAt(members, i)
    BY <1>2 DEF RemoveMember
  <2>2. i \in 1 .. Len(members)
    BY <2>1, RowsNamedTyped DEF TypeOK
  <2>3. members' \in Seq(Identities) /\ Len(members') <= MaxLength
    BY <2>1, <2>2, RemovalTyped
  <2> QED BY <1>2, <2>3 DEF RemoveMember, TypeOK
<1>3. ASSUME NEW s \in Selectors, RemoveShown(s) PROVE TypeOK'
  <2> DEFINE r == Mapped(members, View)
  <2>1. PICK i : i \in DOMAIN r /\ members' = RemoveAt(members, r[i])
    BY <1>3 DEF RemoveShown
  <2>2. Shows(r, members, shown, View)
    BY ViewRows
  <2> HIDE DEF r
  <2>3. r \in Seq(Nat) /\ \A k \in 1 .. Len(r) : r[k] \in 1 .. Len(members)
    BY <2>2, ShownRows DEF TypeOK
  <2>4. r[i] \in 1 .. Len(members)
    BY <2>1, <2>3
  <2>5. members' \in Seq(Identities) /\ Len(members') <= MaxLength
    BY <2>1, <2>4, RemovalTyped
  <2> QED BY <1>3, <2>5 DEF RemoveShown, TypeOK
<1>4. ASSUME NEW via \in Backings, NEW m \in Identities, NEW a \in Identities,
             NEW p \in {"before", "after"}, Move(via, m, a, p)
      PROVE  TypeOK'
  <2>1. members' \in Seq(Identities) /\ Len(members') = Len(members)
    BY <1>4, MoveEffect
  <2> QED BY <1>4, <2>1 DEF Move, TypeOK
<1>5. ASSUME NEW via \in Structures, NEW d \in {"next", "previous"}, Navigate(via, d)
      PROVE  TypeOK'
  <2>1. selected' \in Neighbors(selected, Structure(via), d)
    BY <1>5 DEF Navigate
  <2>2. selected' \in Identities
    BY <2>1, StructureTyped, NeighborsTyped
  <2> QED BY <1>5, <2>2 DEF Navigate, TypeOK
<1>6. ASSUME NEW via \in Structures, NEW i \in Indices, i + 1 \in DOMAIN Structure(via)
      PROVE  Structure(via)[i + 1] \in Identities
  <2> DEFINE v == Structure(via)
  <2>1. v \in Seq(Identities)
    BY StructureTyped
  <2> HIDE DEF v
  <2>2. i + 1 \in DOMAIN v => v[i + 1] \in Identities
    BY <2>1
  <2> QED BY <1>6, <2>2 DEF v
<1>7. ASSUME NEW via \in Structures, NEW i \in Indices, Select(via, i) PROVE TypeOK'
  BY <1>6, <1>7 DEF Select, TypeOK
<1>8. ASSUME NEW via \in Structures, NEW i \in Indices, NEW k \in Keys, WriteKey(via, i, k)
      PROVE  TypeOK'
  <2>1. key' \in [Identities -> Keys]
    BY <1>8 DEF WriteKey, TypeOK
  <2> QED BY <1>8, <2>1 DEF WriteKey, TypeOK
<1>9. ASSUME NEW via \in Structures, NEW i \in Indices, NEW show \in BOOLEAN,
             WriteShown(via, i, show)
      PROVE  TypeOK'
  <2>1. Structure(via)[i + 1] \in Identities
    BY <1>6, <1>9 DEF WriteShown
  <2>2. shown' \subseteq Identities
    BY <1>9, <2>1 DEF WriteShown, TypeOK
  <2> QED BY <1>9, <2>2 DEF WriteShown, TypeOK
<1>10. CASE UNCHANGED vars
  BY <1>10 DEF vars, TypeOK
<1> QED BY <1>1, <1>2, <1>3, <1>4, <1>5, <1>7, <1>8, <1>9, <1>10 DEF Next

\* The state always has its type: in particular the rows that map_selection_to_backing
\* finds are rows, and what an ordered view lists are identities.
THEOREM TypeCorrect == Spec => []TypeOK
<1>1. Init => TypeOK
  BY StructureAssumption DEF Init, TypeOK, StructureAssumption
<1> QED BY <1>1, TypeStep, PTL DEF Spec

-----------------------------------------------------------------------------
(* The view and the membership.                                            *)

\* The k-th shown position is the one with k shown positions up to it.
LEMMA ShownRowIs ==
  ASSUME TypeOK, NEW r, Shows(r, members, shown, View), NEW k \in 1 .. Len(r)
  PROVE  ShownRow(k) = r[k]
<1>1. DOMAIN members = 1 .. Len(members) /\ Len(members) \in Nat
  BY DEF TypeOK
<1>2. Rows \in SUBSET Int /\ Enumerates(r, Rows)
  BY DEF Rows, RowsIn, Shows
<1>3. /\ r[k] \in Rows
      /\ Cardinality({x \in Rows : x <= r[k]}) = k
      /\ \A y \in Rows : Cardinality({x \in Rows : x <= y}) = k => y = r[k]
  BY <1>2, EnumerationCounts
<1>4. \A i \in DOMAIN members : {j \in 1 .. i : members[j] \in shown} = {x \in Rows : x <= i}
  BY <1>1 DEF Rows, RowsIn
<1>5. \A i \in DOMAIN members : members[i] \in shown <=> i \in Rows
  BY <1>1 DEF Rows, RowsIn
<1>6. r[k] \in DOMAIN members
  BY <1>1, <1>3 DEF Rows, RowsIn
<1> DEFINE Good(i) == /\ members[i] \in shown
                      /\ Cardinality({j \in 1 .. i : members[j] \in shown}) = k
<1>7. Good(r[k])
  BY <1>3, <1>4, <1>5, <1>6
<1>8. \A i \in DOMAIN members : Good(i) => i = r[k]
  BY <1>3, <1>4, <1>5
<1>9. ShownRow(k) = CHOOSE i \in DOMAIN members : Good(i)
  BY DEF ShownRow
<1> HIDE DEF Good
<1> QED BY <1>6, <1>7, <1>8, <1>9

\* In a state of its type, the walk finds exactly the shown rows.
LEMMA ViewMapped == TypeOK => ViewMaps
<1> SUFFICES ASSUME TypeOK PROVE ViewMaps
  OBVIOUS
<1> DEFINE r == Mapped(members, View)
<1>1. Shows(r, members, shown, View)
  BY ViewRows
<1>2. \A k \in 1 .. Len(r) : r[k] = ShownRow(k)
  BY <1>1, ShownRowIs
<1>3. Len(View) = Len(r) /\ DOMAIN View = 1 .. Len(r)
  BY <1>1, ShownRows DEF TypeOK
<1> QED BY <1>2, <1>3 DEF ViewMaps

\* The greedy walk of map_selection_to_backing finds the position of every row of a view,
\* for every membership with any duplicates and any hidden rows.
THEOREM ViewsMap == Spec => []ViewMaps
BY TypeCorrect, ViewMapped, PTL

\* Removing the only row of an identity leaves none.
LEMMA RemovedOnce ==
  ASSUME NEW S, NEW s \in Seq(S), NEW i \in 1 .. Len(s), Once(s[i], s)
  PROVE  s[i] \notin ToSet(RemoveAt(s, i))
<1> DEFINE z == RemoveAt(s, i)
<1>1. /\ z \in Seq(S) /\ Len(z) = Len(s) - 1 /\ Len(s) \in Nat
      /\ \A k \in 1 .. Len(s) - 1 : z[k] = IF k < i THEN s[k] ELSE s[k + 1]
  BY RemovedRow
<1> HIDE DEF z
<1>2. \A k \in 1 .. Len(z) : z[k] # s[i]
  <2> TAKE k \in 1 .. Len(z)
  <2>1. k \in 1 .. Len(s) /\ k + 1 \in 1 .. Len(s) /\ k \in 1 .. Len(s) - 1
    BY <1>1
  <2>2. CASE k < i
    BY <1>1, <2>1, <2>2 DEF Once
  <2>3. CASE ~(k < i)
    <3>1. k + 1 # i
      BY <2>1, <2>3
    <3> QED BY <1>1, <2>1, <2>3, <3>1 DEF Once
  <2> QED BY <2>2, <2>3
<1>3. DOMAIN z = 1 .. Len(z)
  BY <1>1
<1> QED BY <1>2, <1>3 DEF ToSet, z

\* One removal is exact.
LEMMA RemovalExact ==
  ASSUME TypeOK, NEW s \in Selectors
  PROVE  /\ RemoveShown(s) =>
              \E k \in RowsNamed(s, View) : members' = RemoveAt(members, ShownRow(k))
         /\ (RemoveShown(s) \/ RemoveMember(s)) /\ s[1] = "designation" =>
              s[2] \notin ToSet(members')
<1> DEFINE r == Mapped(members, View)
<1>1. Shows(r, members, shown, View)
  BY ViewRows
<1>2. /\ r \in Seq(Nat) /\ View \in Seq(Identities) /\ Len(View) = Len(r)
      /\ \A k \in 1 .. Len(r) : r[k] \in 1 .. Len(members) /\ members[r[k]] \in shown
                             /\ View[k] = members[r[k]]
  BY <1>1, ShownRows DEF TypeOK
<1>3. ASSUME RemoveShown(s)
      PROVE  /\ \E k \in RowsNamed(s, View) : members' = RemoveAt(members, ShownRow(k))
             /\ s[1] = "designation" => s[2] \notin ToSet(members')
  <2>1. PICK i \in RowsNamed(s, View) : i \in DOMAIN r /\ members' = RemoveAt(members, r[i])
    BY <1>3 DEF RemoveShown
  <2>2. i \in 1 .. Len(View) /\ (s[1] # "index" => View[i] = s[2] /\ Once(s[2], View))
    BY <1>2, RowsNamedTyped
  <2> HIDE DEF r
  <2>3. i \in 1 .. Len(r) /\ r[i] \in 1 .. Len(members)
    BY <1>2, <2>2
  <2>4. ShownRow(i) = r[i]
    BY <1>1, <2>3, ShownRowIs
  <2>5. ASSUME s[1] = "designation" PROVE s[2] \notin ToSet(members')
    <3>1. View[i] = s[2] /\ Once(s[2], View)
      BY <2>2, <2>5
    <3>2. members[r[i]] = s[2] /\ s[2] \in shown
      BY <1>2, <2>3, <3>1
    <3>3. Once(s[2], members)
      BY <3>1, <3>2, RetainedOnce DEF TypeOK, View
    <3> QED BY <2>1, <2>3, <3>2, <3>3, RemovedOnce DEF TypeOK
  <2> QED BY <2>1, <2>4, <2>5
<1>4. ASSUME RemoveMember(s), s[1] = "designation"
      PROVE  s[2] \notin ToSet(members')
  <2>1. PICK i \in RowsNamed(s, members) : members' = RemoveAt(members, i)
    BY <1>4 DEF RemoveMember
  <2>2. i \in 1 .. Len(members) /\ members[i] = s[2] /\ Once(s[2], members)
    BY <1>4, <2>1, RowsNamedTyped DEF TypeOK
  <2> QED BY <2>1, <2>2, RemovedOnce DEF TypeOK
<1> QED BY <1>3, <1>4

\* remove, from a membership or through a view, takes the row that was named and no other.
THEOREM RemovalsExact == Spec => RemoveExact
<1>1. TypeOK /\ [Next]_vars =>
        [\A s \in Selectors :
           /\ RemoveShown(s) =>
                \E k \in RowsNamed(s, View) : members' = RemoveAt(members, ShownRow(k))
           /\ (RemoveShown(s) \/ RemoveMember(s)) /\ s[1] = "designation" =>
                s[2] \notin ToSet(members')]_vars
  BY RemovalExact
<1> QED BY <1>1, TypeCorrect, PTL DEF Spec, RemoveExact

-----------------------------------------------------------------------------
(* Moves and navigation.                                                   *)

\* One move is exact, in the membership and in the view.
LEMMA MoveKeepsOthers ==
  ASSUME TypeOK, NEW via \in Backings, NEW m \in Identities, NEW a \in Identities,
         NEW p \in {"before", "after"}, Move(via, m, a, p)
  PROVE  IF m = a THEN members' = members
         ELSE /\ Others(members', m) = Others(members, m)
              /\ Len(members') = Len(members)
              /\ Beside(members', m, a, p)
              /\ {m, a} \subseteq shown => Beside(View', m, a, p)
<1>1. /\ members' \in Seq(Identities) /\ Len(members') = Len(members)
      /\ m = a => members' = members
      /\ m # a => /\ Others(members', m) = Others(members, m)
                  /\ Beside(members', m, a, p)
  BY MoveEffect
<1>2. shown' = shown /\ View' = Retained(members', shown')
  BY DEF Move, View
<1>3. ASSUME m # a, {m, a} \subseteq shown PROVE Beside(View', m, a, p)
  <2>1. m \in shown' /\ a \in shown' /\ Beside(members', m, a, p)
    BY <1>1, <1>2, <1>3
  <2> QED BY <1>1, <1>2, <2>1, RetainedBeside
<1> QED BY <1>1, <1>3

\* move keeps the relative order of all other rows, hidden ones included, and puts the
\* moved row beside its anchor, through the membership or through the view.
THEOREM MovesExact == Spec => MoveExact
<1>1. TypeOK /\ [Next]_vars =>
        [\A via \in Backings, m, a \in Identities, p \in {"before", "after"} :
           Move(via, m, a, p) =>
             IF m = a THEN members' = members
             ELSE /\ Others(members', m) = Others(members, m)
                  /\ Len(members') = Len(members)
                  /\ Beside(members', m, a, p)
                  /\ {m, a} \subseteq shown => Beside(View', m, a, p)]_vars
  BY MoveKeepsOthers
<1> QED BY <1>1, TypeCorrect, PTL DEF Spec, MoveExact

\* The members of a view are the shown members.
LEMMA RetainedMembers ==
  ASSUME NEW S, NEW s \in Seq(S), NEW T, NEW x \in ToSet(Retained(s, T))
  PROVE  x \in T
<1>1. PICK r : Shows(r, s, T, Retained(s, T))
  BY RetainedEnumerated
<1> DEFINE v == Retained(s, T)
<1>2. v \in Seq(S) /\ Len(v) = Len(r) /\ \A k \in 1 .. Len(r) : v[k] \in T
  BY <1>1, ShownRows
<1> HIDE DEF v
<1>3. \A k \in DOMAIN v : v[k] \in T
  BY <1>2
<1> QED BY <1>3 DEF ToSet, v

\* Navigation after one move.
LEMMA NavigationAfterMove ==
  ASSUME TypeOK, NEW via \in Backings, NEW m \in Identities, NEW a \in Identities,
         NEW p \in {"before", "after"}, Move(via, m, a, p), m # a,
         NEW s \in {members', View'}, {m, a} \subseteq ToSet(s)
  PROVE  /\ Neighbors(m, s, IF p = "before" THEN "next" ELSE "previous") = {a}
         /\ Neighbors(a, s, IF p = "before" THEN "previous" ELSE "next") = {m}
<1>1. /\ members' \in Seq(Identities) /\ Beside(members', m, a, p)
      /\ Once(m, members') /\ Once(a, members')
  BY MoveEffect
<1>2. CASE s = members'
  BY <1>1, <1>2, NeighborsBeside
<1>3. CASE s = View'
  <2> DEFINE T == shown'
  <2>1. s = Retained(members', T)
    BY <1>3 DEF View
  <2>2. PICK r : Shows(r, members', T, Retained(members', T))
    BY <1>1, RetainedEnumerated
  <2>3. s \in Seq(Identities)
    BY <1>1, <2>1, <2>2, ShownRows
  <2> HIDE DEF T
  <2>4. m \in T /\ a \in T
    BY <1>1, <2>1, RetainedMembers
  <2>5. Beside(s, m, a, p)
    BY <1>1, <2>1, <2>4, RetainedBeside
  <2>6. Once(m, s) /\ Once(a, s)
    BY <1>1, <2>1, RetainedOnce
  <2> QED BY <2>3, <2>5, <2>6, NeighborsBeside
<1> QED BY <1>2, <1>3

\* Where a move has put a row, `next` and `previous` find it.
THEOREM NavigationFollows == Spec => NavigationFollowsMoves
<1>1. TypeOK /\ [Next]_vars =>
        [\A via \in Backings, m, a \in Identities, p \in {"before", "after"} :
           Move(via, m, a, p) /\ m # a =>
             \A s \in {members', View'} :
               {m, a} \subseteq ToSet(s) =>
                 /\ Neighbors(m, s, IF p = "before" THEN "next" ELSE "previous") = {a}
                 /\ Neighbors(a, s, IF p = "before" THEN "previous" ELSE "next") = {m}]_vars
  BY NavigationAfterMove
<1> QED BY <1>1, TypeCorrect, PTL DEF Spec, NavigationFollowsMoves
-----------------------------------------------------------------------------
(* Ordered views.                                                          *)

\* Rows of equal keys stand in an ordered view as they do in the filtered one.
LEMMA SortedStable ==
  ASSUME TypeOK, StructureAssumption, NEW direction \in Directions, NEW k \in Keys,
         NEW T, \A x \in Identities : x \in T <=> key[x] = k
  PROVE  Retained(OrderedView(direction), T) = Retained(View, T)
<1> DEFINE o == OrderedView(direction)
<1>1. PICK q : Sorted(q, direction)
  BY OrderedRows
<1>2. PICK n \in Nat :
           /\ q \in [1 .. n -> Rows]
           /\ \A i, j \in 1 .. n : q[i] = q[j] => i = j
           /\ \A x \in Rows : \E l \in 1 .. n : q[l] = x
           /\ \A i, j \in 1 .. n : i < j => Precedes(direction, q[i], q[j])
           /\ o \in Seq(Identities) /\ Len(o) = n
           /\ \A l \in 1 .. n : o[l] = members[q[l]]
  BY <1>1, SortedRows, SMTT(30)
<1> HIDE DEF o
<1>3. PICK r : Shows(r, members, shown, View)
  BY ViewRows
<1>4. /\ View \in Seq(Identities) /\ Len(r) \in Nat /\ Len(View) = Len(r)
      /\ \A l \in 1 .. Len(r) : r[l] \in Rows /\ View[l] = members[r[l]]
      /\ \A j \in 1 .. Len(r) : \A i \in 1 .. j - 1 : r[i] < r[j]
      /\ \A x \in Rows : \E l \in 1 .. Len(r) : r[l] = x
  <2>1. members \in Seq(Identities)
    BY DEF TypeOK
  <2>2. /\ r \in Seq(Nat) /\ View \in Seq(Identities) /\ Len(r) \in Nat /\ Len(View) = Len(r)
        /\ \A l \in 1 .. Len(r) :
             r[l] \in 1 .. Len(members) /\ members[r[l]] \in shown /\ View[l] = members[r[l]]
        /\ \A j \in 1 .. Len(r) : \A i \in 1 .. j - 1 : r[i] < r[j]
        /\ \A x \in 1 .. Len(members) : members[x] \in shown => \E l \in 1 .. Len(r) : r[l] = x
    BY <1>3, <2>1, ShownRows, SMTT(30)
  <2>3. \A x : x \in Rows <=> x \in 1 .. Len(members) /\ members[x] \in shown
    BY DEF Rows, RowsIn
  <2> QED BY <2>2, <2>3
<1> DEFINE f == [i \in 1 .. Len(r) |-> CHOOSE l \in 1 .. n : q[l] = r[i]]
<1>5. \A i \in 1 .. Len(r) : f[i] \in 1 .. n /\ q[f[i]] = r[i]
  BY <1>2, <1>4
<1> HIDE DEF f
<1>6. \A x \in Rows : x \in Int /\ key[members[x]] \in Int
  <2>1. \A x \in Rows : x \in 1 .. Len(members) /\ members[x] \in Identities
    BY RowsTyped
  <2>2. \A x \in Identities : key[x] \in Int
    BY DEF TypeOK, StructureAssumption
  <2> QED BY <2>1, <2>2
<1>7. /\ \A i \in RowsIn(View, T) : i \in 1 .. Len(r) /\ key[members[r[i]]] = k
      /\ \A i \in 1 .. Len(r) : View[i] \in T => i \in RowsIn(View, T)
  BY <1>4 DEF RowsIn
<1>8. \A l \in 1 .. n : l \in RowsIn(o, T) <=> o[l] \in T
  BY <1>2 DEF RowsIn
<1>9. ASSUME NEW i \in RowsIn(View, T) PROVE f[i] \in RowsIn(o, T) /\ o[f[i]] = View[i]
  <2>1. i \in 1 .. Len(r) /\ View[i] \in T
    BY <1>7 DEF RowsIn
  <2>2. f[i] \in 1 .. n /\ o[f[i]] = View[i]
    <3>1. f[i] \in 1 .. n /\ q[f[i]] = r[i]
      BY <1>5, <2>1
    <3>2. o[f[i]] = members[q[f[i]]]
      BY <1>2, <3>1
    <3>3. View[i] = members[r[i]]
      BY <1>4, <2>1
    <3> QED BY <3>1, <3>2, <3>3
  <2> QED BY <1>8, <2>1, <2>2
<1>10. ASSUME NEW i \in RowsIn(View, T), NEW j \in RowsIn(View, T), i < j PROVE f[i] < f[j]
  <2>1. i \in 1 .. Len(r) /\ j \in 1 .. Len(r)
        /\ key[members[r[i]]] = k /\ key[members[r[j]]] = k
    BY <1>7
  <2>2. r[i] < r[j]
    BY <1>4, <1>10, <2>1
  <2>3. f[i] \in 1 .. n /\ f[j] \in 1 .. n /\ q[f[i]] = r[i] /\ q[f[j]] = r[j]
    BY <1>5, <2>1
  <2>4. r[i] \in Rows /\ r[j] \in Rows
    BY <1>4, <2>1
  <2>5. r[i] \in Int /\ r[j] \in Int /\ k \in Int
    BY <1>6, <2>1, <2>4
  <2>6. f[i] # f[j]
    BY <2>2, <2>3, <2>5
  <2>7. ~(f[j] < f[i])
    <3> SUFFICES ASSUME f[j] < f[i] PROVE FALSE
      OBVIOUS
    <3>1. Precedes(direction, r[j], r[i])
      BY <1>2, <2>3
    <3> QED BY <2>1, <2>2, <2>5, <3>1 DEF Precedes
  <2> QED BY <1>2, <2>3, <2>6, <2>7
<1>11. ASSUME NEW x \in RowsIn(o, T) PROVE \E i \in RowsIn(View, T) : f[i] = x
  <2>1. x \in 1 .. n /\ o[x] \in T
    BY <1>2 DEF RowsIn
  <2>2. q[x] \in Rows
    BY <1>2, <2>1
  <2>3. PICK i \in 1 .. Len(r) : r[i] = q[x]
    BY <1>4, <2>2
  <2>4. View[i] = o[x]
    BY <1>2, <1>4, <2>1, <2>3
  <2>5. f[i] = x
    BY <1>2, <1>5, <2>1, <2>3
  <2> QED BY <1>7, <2>1, <2>4, <2>5
<1>12. Carries(f, View, T, o, T)
  BY <1>9, <1>10, <1>11 DEF Carries
<1>13. Retained(o, T) = Retained(View, T)
  BY <1>2, <1>4, <1>12, RetainedCarried
<1> QED BY <1>13 DEF o

\* In a state of its type, the ordered views are ordered.
LEMMA OrderedExactly == TypeOK /\ StructureAssumption => OrderExact
<1> SUFFICES ASSUME TypeOK, StructureAssumption, NEW direction \in Directions
    PROVE  LET rows == OrderedView(direction) IN
           /\ \A k \in Keys :
                LET T == {x \in Identities : key[x] = k} IN Retained(rows, T) = Retained(View, T)
           /\ \A i, j \in DOMAIN rows :
                i < j => IF direction = "descending" THEN key[rows[i]] >= key[rows[j]]
                         ELSE key[rows[i]] <= key[rows[j]]
  BY DEF OrderExact
<1> DEFINE o == OrderedView(direction)
<1>1. \A k \in Keys :
        LET T == {x \in Identities : key[x] = k} IN Retained(o, T) = Retained(View, T)
  <2> TAKE k \in Keys
  <2> DEFINE T == {x \in Identities : key[x] = k}
  <2>1. \A x \in Identities : x \in T <=> key[x] = k
    OBVIOUS
  <2> HIDE DEF T
  <2>2. Retained(o, T) = Retained(View, T)
    BY <2>1, SortedStable
  <2> QED BY <2>2 DEF T
<1>2. PICK q : Sorted(q, direction)
  BY OrderedRows
<1>3. PICK n \in Nat :
           /\ q \in [1 .. n -> Rows]
           /\ \A i, j \in 1 .. n : i < j => Precedes(direction, q[i], q[j])
           /\ o \in Seq(Identities) /\ Len(o) = n
           /\ \A l \in 1 .. n : o[l] = members[q[l]]
  BY <1>2, SortedRows
<1> HIDE DEF o
<1>4. \A x \in Rows : key[members[x]] \in Int
  BY RowsTyped DEF TypeOK, StructureAssumption
<1>5. ASSUME NEW i \in DOMAIN o, NEW j \in DOMAIN o, i < j
      PROVE  IF direction = "descending" THEN key[o[i]] >= key[o[j]] ELSE key[o[i]] <= key[o[j]]
  <2>1. i \in 1 .. n /\ j \in 1 .. n
    BY <1>3
  <2>2. q[i] \in Rows /\ q[j] \in Rows /\ o[i] = members[q[i]] /\ o[j] = members[q[j]]
    BY <1>3, <2>1
  <2>3. Precedes(direction, q[i], q[j])
    BY <1>3, <1>5, <2>1
  <2>4. key[o[i]] \in Int /\ key[o[j]] \in Int
    BY <1>4, <2>2
  <2> QED BY <2>2, <2>3, <2>4 DEF Precedes
<1> QED BY <1>1, <1>5 DEF o

\* `order by` sorts by key in the declared direction and leaves rows of equal keys as the
\* membership has them.
THEOREM OrdersExact == Spec => []OrderExact
BY TypeCorrect, OrderedExactly, StructureAssumption, PTL
=============================================================================
