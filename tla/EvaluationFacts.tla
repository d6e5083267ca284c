--------------------------- MODULE EvaluationFacts ---------------------------
(***************************************************************************)
(* Facts about evaluation by definition (Steps, Outcome and Footprint of   *)
(* DerivedCache), for every well-typed program: they concern no state.     *)
(***************************************************************************)
EXTENDS DerivedCache, InductionFacts, FiniteSetTheorems, TLAPS

-----------------------------------------------------------------------------
(* Types.                                                                  *)

Members == AppDerived \cup ElementDerived
Contents == Int \cup Rows \cup Identities \cup {None}

\* The values of a cell, by its member.
TypeOf(c) ==
  IF c[2] \in RowMembers THEN Rows
  ELSE IF c[2] = "selected" THEN Identities \cup {None} ELSE Int

\* What cells may look like to an evaluation.
Sights ==
  {s \in [Cells -> Contents \cup {Failed}] : \A c \in Cells : s[c] \in TypeOf(c) \cup {Failed}}

\* An evaluation that has read values of the types it asks for, and no more of them than
\* its operation takes.
Frames == [cell : AllDerived, read : Seq(Contents)]
Typed(f) ==
  /\ f \in Frames
  /\ Formula(f).op \in {"add", "if"} =>
       Len(f.read) <= 2 /\ \A i \in 1 .. Len(f.read) : f.read[i] \in Int
  /\ Formula(f).op = "follow" =>
       /\ Len(f.read) <= 2
       /\ Len(f.read) >= 2 => f.read[2] \in Int
  /\ Formula(f).op \in {"sum", "filter"} /\ f.read # <<>> =>
       /\ f.read[1] \in Rows /\ Len(f.read) <= Len(f.read[1]) + 1
       /\ \A i \in 2 .. Len(f.read) : f.read[i] \in Int

\* A name stands for one kind of member.
LEMMA Kinds ==
  /\ \A m \in IntMembers : m \notin RowMembers /\ m # "selected"
  /\ \A m \in RowMembers : m # "selected"
  /\ \A c \in AllDerived : c \in Cells /\ c \notin AllStored /\ c[2] \in Members
  /\ \A c \in AllDerived : TypeOf(c) = IF Expression[c[2]].op = "filter" THEN Rows ELSE Int
BY ProgramAssumption, ValueAssumption
   DEF IntMembers, RowMembers, AllStored, AllDerived, Cells, TypeOf, Members

\* Rows are sequences of identities.
LEMMA RowsShape ==
  \A s \in Rows : s \in Seq(Identities) /\ Len(s) \in 0 .. MaxLength
<1> SUFFICES ASSUME NEW s \in Rows PROVE s \in Seq(Identities) /\ Len(s) \in 0 .. MaxLength
  OBVIOUS
<1>1. PICK m \in 0 .. MaxLength : s \in [1 .. m -> Identities]
  BY DEF Rows, BoundedSeq, SeqOf
<1>2. m \in Nat
  BY <1>1, ValueAssumption
<1> QED BY <1>1, <1>2

\* Short sequences of identities are rows.
LEMMA RowsBounded ==
  \A s \in Seq(Identities) : Len(s) <= MaxLength => s \in Rows
<1> SUFFICES ASSUME NEW s \in Seq(Identities), Len(s) <= MaxLength PROVE s \in Rows
  OBVIOUS
<1>1. Len(s) \in 0 .. MaxLength /\ s \in [1 .. Len(s) -> Identities]
  BY ValueAssumption
<1> QED BY <1>1 DEF Rows, BoundedSeq, SeqOf

\* None and Failed are no value of a derived cell.
LEMMA NoValue ==
  /\ \A v \in Int \cup Rows : v # None /\ v # Failed /\ v \in Contents
  /\ Failed \notin Contents
  /\ \A d \in AllDerived : TypeOf(d) \subseteq Int \cup Rows
  /\ \A c : Failed \notin TypeOf(c)
BY ValueAssumption, Kinds DEF Contents, TypeOf

\* An evaluation asks for one cell at a time.
LEMMA AsksOne == \A f : \A c, e \in Asks(f) : c = e
BY DEF Asks, Wanted

\* What a well-typed expression is made of.
LEMMA Expressions ==
  ASSUME NEW f, f.cell \in AllDerived
  PROVE  LET e == Formula(f) IN
         /\ e.op \in {"add", "if", "follow", "sum", "filter"}
         /\ e.op \in {"add", "if"} => e.args[1] \in IntMembers /\ e.args[2] \in IntMembers
         /\ e.op = "if" => e.args[3] \in IntMembers
         /\ e.op = "follow" => e.args[1] = "selected" /\ e.member \in IntMembers
         /\ e.op \in {"sum", "filter"} => e.args[1] \in RowMembers /\ e.member \in IntMembers
<1>1. f.cell[2] \in AppDerived \cup ElementDerived
  BY Kinds DEF Members
<1> QED BY <1>1, ProgramAssumption DEF Formula

\* What a read asks for, by the operation.
LEMMA WantedShape ==
  ASSUME NEW f, f \in Frames, NEW w \in Wanted(f)
  PROVE  LET e == Formula(f)
             n == Len(f.read)
         IN  /\ e.op \in {"add", "if"} => n <= 1 /\ w.member \in IntMembers
             /\ e.op = "follow" => n <= 1 /\ (n = 1 => w.member \in IntMembers)
             /\ e.op \in {"sum", "filter"} =>
                  /\ n = 0 => w.member \in RowMembers
                  /\ n # 0 => n <= Len(f.read[1]) /\ w.member \in IntMembers
<1>1. Len(f.read) \in Nat /\ f.cell \in AllDerived
  BY DEF Frames
<1> DEFINE e == Formula(f)
<1>2. /\ e.op \in {"add", "if", "follow", "sum", "filter"}
      /\ e.op \in {"add", "if"} => e.args[1] \in IntMembers /\ e.args[2] \in IntMembers
      /\ e.op = "if" => e.args[3] \in IntMembers
      /\ e.op = "follow" => e.args[1] = "selected" /\ e.member \in IntMembers
      /\ e.op \in {"sum", "filter"} => e.args[1] \in RowMembers /\ e.member \in IntMembers
  BY <1>1, Expressions
<1> HIDE DEF e
<1>3. CASE Len(f.read) = 0
  <2>1. w.member = e.args[1]
    BY <1>3 DEF Wanted, e
  <2> QED BY <1>2, <1>3, <2>1 DEF e
<1>4. CASE Len(f.read) # 0 /\ e.op \in {"add", "if"}
  <2>1. Len(f.read) = 1 /\ (w.member = e.args[2] \/ (e.op = "if" /\ w.member = e.args[3]))
    BY <1>4 DEF Wanted, e
  <2> QED BY <1>2, <1>4, <2>1 DEF e
<1>5. CASE Len(f.read) # 0 /\ e.op = "follow"
  <2>1. Len(f.read) = 1 /\ w.member = e.member
    BY <1>5 DEF Wanted, e
  <2> QED BY <1>2, <1>5, <2>1 DEF e
<1>6. CASE Len(f.read) # 0 /\ e.op \in {"sum", "filter"}
  <2>1. Len(f.read) <= Len(f.read[1]) /\ w.member = e.member
    BY <1>6 DEF Wanted, e
  <2> QED BY <1>2, <1>6, <2>1 DEF e
<1> QED BY <1>2, <1>3, <1>4, <1>5, <1>6 DEF e

\* What an evaluation has read stays typed when it reads what it asks for.
LEMMA ReadTyped ==
  ASSUME NEW f, Typed(f), NEW c \in Asks(f), c \in Cells, NEW v \in TypeOf(c),
         NEW g, g = [cell |-> f.cell, read |-> Append(f.read, v)]
  PROVE  Typed(g)
<1> DEFINE e == Formula(f)
           n == Len(f.read)
<1>1. f \in Frames /\ n \in Nat /\ f.cell \in AllDerived
  BY DEF Typed, Frames
<1>2. v \in Contents
  BY DEF TypeOf, Contents
<1>3. /\ g \in Frames /\ Formula(g) = e /\ Len(g.read) = n + 1 /\ g.read[n + 1] = v
      /\ \A i \in 1 .. n : g.read[i] = f.read[i]
      /\ g.read # <<>>
  BY <1>1, <1>2 DEF Frames, Formula
<1>4. PICK w \in Wanted(f) : c = <<w.root, w.member>>
  BY DEF Asks
<1>5. CASE e.op \in {"add", "if"}
  <2>1. w.member \in IntMembers /\ n <= 1
    BY <1>1, <1>5, WantedShape
  <2>2. v \in Int
    BY <1>4, <2>1, Kinds DEF TypeOf
  <2>3. \A i \in 1 .. n : f.read[i] \in Int
    BY <1>5 DEF Typed
  <2>4. \A i \in 1 .. n + 1 : g.read[i] \in Int
    BY <1>1, <1>3, <2>2, <2>3
  <2> HIDE DEF e
  <2> QED BY <1>1, <1>3, <1>5, <2>1, <2>4 DEF Typed
<1>6. CASE e.op = "follow"
  <2>1. n <= 1 /\ (n = 1 => w.member \in IntMembers)
    BY <1>1, <1>6, WantedShape
  <2>2. n = 1 => v \in Int
    BY <1>4, <2>1, Kinds DEF TypeOf
  <2>3. n = 1 => g.read[2] = v
    BY <1>1, <1>2 DEF Frames
  <2>4. \A k \in Nat : k <= 1 => k + 1 <= 2 /\ (k + 1 >= 2 => k = 1)
    OBVIOUS
  <2>5. n + 1 <= 2 /\ (n + 1 >= 2 => n = 1)
    BY <1>1, <2>1, <2>4
  <2>6. Len(g.read) <= 2 /\ (Len(g.read) >= 2 => g.read[2] \in Int)
    BY <1>3, <2>2, <2>3, <2>5
  <2> HIDE DEF e
  <2> QED BY <1>3, <1>6, <2>6 DEF Typed
<1>7. CASE e.op \in {"sum", "filter"}
  <2>1. CASE n = 0
    <3>1. w.member \in RowMembers
      BY <1>1, <1>7, <2>1, WantedShape
    <3>2. v \in Rows /\ Len(v) >= 0
      BY <1>4, <3>1, RowsShape DEF TypeOf
    <3> HIDE DEF e
    <3> QED BY <1>1, <1>3, <1>7, <2>1, <3>2 DEF Typed
  <2>2. CASE n # 0
    <3>1. w.member \in IntMembers /\ n <= Len(f.read[1])
      BY <1>1, <1>7, <2>2, WantedShape
    <3>2. v \in Int
      BY <1>4, <3>1, Kinds DEF TypeOf
    <3>3. f.read[1] \in Rows /\ \A i \in 2 .. n : f.read[i] \in Int
      BY <1>1, <1>7, <2>2 DEF Typed
    <3>4. g.read[1] = f.read[1] /\ \A i \in 2 .. n + 1 : g.read[i] \in Int
      BY <1>1, <1>3, <2>2, <3>2, <3>3
    <3>5. n + 1 <= Len(f.read[1]) + 1
      BY <1>1, <3>1, <3>3, RowsShape
    <3> HIDE DEF e
    <3> QED BY <1>3, <1>7, <3>3, <3>4, <3>5 DEF Typed
  <2> QED BY <2>1, <2>2
<1> QED BY <1>1, <1>5, <1>6, <1>7, Expressions

-----------------------------------------------------------------------------
(* What an evaluation has read, and the cells it asked for.                *)

\* f when it had made m reads.
Past(f, m) == [cell |-> f.cell, read |-> [i \in 1 .. m |-> f.read[i]]]

\* f can go on in the sight s.
Answerable(f, s) == ~Overflows(f) /\ \E c \in Asks(f) : c \in Cells /\ s[c] # Failed

\* Everything that f has read is what its cell gets to read in the sight s.
Justified(f, s) ==
  \A m \in 0 .. Len(f.read) - 1 :
    /\ ~Overflows(Past(f, m))
    /\ \E c \in Asks(Past(f, m)) : c \in Cells /\ s[c] # Failed /\ f.read[m + 1] = s[c]

\* The cells that f has read.
AskedBy(f) == UNION {Asks(Past(f, m)) : m \in 0 .. Len(f.read) - 1}

\* A typed evaluation makes at most MaxReads reads, and then asks for nothing.
LEMMA ReadsBounded ==
  ASSUME NEW f, Typed(f)
  PROVE  /\ f.read \in Seq(Contents) /\ f.cell \in AllDerived
         /\ Len(f.read) \in 0 .. MaxReads
         /\ Len(f.read) = MaxReads => Asks(f) = {}
<1>1. PICK n \in Nat : n = Len(f.read)
  BY DEF Typed, Frames
<1>2. f \in Frames /\ f.read \in Seq(Contents) /\ f.cell \in AllDerived
  BY DEF Typed, Frames
<1>3. Formula(f).op \in {"add", "if", "follow", "sum", "filter"}
  BY <1>2, Expressions
<1>4. MaxLength \in Nat
  BY ValueAssumption
<1>5. n <= MaxLength + 2
  <2>1. CASE Formula(f).op \in {"add", "if", "follow"}
    BY <1>1, <1>4, <2>1 DEF Typed
  <2>2. CASE Formula(f).op \in {"sum", "filter"} /\ f.read # <<>>
    <3>1. f.read[1] \in Rows /\ n <= Len(f.read[1]) + 1
      BY <1>1, <2>2 DEF Typed
    <3>2. PICK k \in 0 .. MaxLength : k = Len(f.read[1])
      BY <3>1, RowsShape
    <3> QED BY <1>1, <1>4, <3>1, <3>2
  <2>3. CASE f.read = <<>>
    BY <1>1, <1>4, <2>3
  <2> QED BY <1>3, <2>1, <2>2, <2>3
<1>6. ASSUME NEW w \in Wanted(f)
      PROVE  n # MaxLength + 2
  <2>1. CASE Formula(f).op \in {"add", "if", "follow"}
    <3>1. n <= 1
      BY <1>1, <1>2, <2>1, WantedShape
    <3> QED BY <1>1, <1>4, <3>1
  <2>2. CASE Formula(f).op \in {"sum", "filter"} /\ n # 0
    <3>1. f.read[1] \in Rows /\ n <= Len(f.read[1])
      BY <1>1, <1>2, <2>2, WantedShape DEF Typed
    <3>2. PICK k \in 0 .. MaxLength : k = Len(f.read[1])
      BY <3>1, RowsShape
    <3> QED BY <1>1, <1>4, <3>1, <3>2
  <2>3. CASE n = 0
    BY <1>4, <2>3
  <2> QED BY <1>3, <2>1, <2>2, <2>3
<1>7. n = MaxLength + 2 => Asks(f) = {}
  BY <1>6 DEF Asks
<1> QED BY <1>1, <1>2, <1>4, <1>5, <1>7 DEF MaxReads

\* The past of an evaluation does not change when it reads on.
LEMMA PastKept ==
  ASSUME NEW f, f.read \in Seq(Contents), NEW v, NEW g, g = [cell |-> f.cell, read |-> Append(f.read, v)]
  PROVE  /\ Len(g.read) = Len(f.read) + 1 /\ g.read[Len(f.read) + 1] = v /\ g.cell = f.cell
         /\ \A m \in 0 .. Len(f.read) : Past(g, m) = Past(f, m)
         /\ \A m \in 1 .. Len(f.read) : g.read[m] = f.read[m]
<1>1. PICK n \in Nat : n = Len(f.read)
  OBVIOUS
<1>2. Len(g.read) = n + 1 /\ g.read[n + 1] = v /\ g.cell = f.cell
  BY <1>1
<1>3. \A m \in 1 .. n : g.read[m] = f.read[m]
  BY <1>1
<1>4. ASSUME NEW m \in 0 .. n PROVE Past(g, m) = Past(f, m)
  <2>1. \A i \in 1 .. m : g.read[i] = f.read[i]
    BY <1>1, <1>3
  <2> QED BY <1>2, <2>1 DEF Past
<1> QED BY <1>1, <1>2, <1>3, <1>4

\* After all its reads, an evaluation is what it is.
LEMMA PastWhole ==
  ASSUME NEW f, f \in Frames
  PROVE  Past(f, Len(f.read)) = f
<1>1. f.read = [i \in 1 .. Len(f.read) |-> f.read[i]] /\ f = [cell |-> f.cell, read |-> f.read]
  BY DEF Frames
<1> QED BY <1>1 DEF Past

\* What Advanced does: a read of the one cell asked for, or nothing.
LEMMA AdvancedReads ==
  ASSUME NEW f, NEW s
  PROVE  /\ ~Answerable(f, s) => Advanced(f, s) = f
         /\ Answerable(f, s) =>
              \E c \in Asks(f) :
                /\ c \in Cells /\ s[c] # Failed /\ Asks(f) = {c}
                /\ Advanced(f, s) = [cell |-> f.cell, read |-> Append(f.read, s[c])]
<1>1. ~Answerable(f, s) => Advanced(f, s) = f
  BY DEF Answerable, Advanced
<1>2. ASSUME Answerable(f, s)
      PROVE  \E c \in Asks(f) :
               /\ c \in Cells /\ s[c] # Failed /\ Asks(f) = {c}
               /\ Advanced(f, s) = [cell |-> f.cell, read |-> Append(f.read, s[c])]
  <2>1. PICK c \in Asks(f) : c \in Cells /\ s[c] # Failed
    BY <1>2 DEF Answerable
  <2>2. Asks(f) = {c}
    BY AsksOne
  <2>3. (CHOOSE x \in Asks(f) : TRUE) = c
    BY <2>2
  <2>4. Advanced(f, s) = [cell |-> f.cell, read |-> Append(f.read, s[c])]
    BY <1>2, <2>3 DEF Advanced, Answerable
  <2> QED BY <2>1, <2>2, <2>4
<1> QED BY <1>1, <1>2

\* A read of what f asks for is justified by the sight it comes from.
LEMMA JustifiedRead ==
  ASSUME NEW f, f \in Frames, NEW s, Justified(f, s), ~Overflows(f),
         NEW c \in Asks(f), c \in Cells, s[c] # Failed,
         NEW g, g = [cell |-> f.cell, read |-> Append(f.read, s[c])]
  PROVE  Justified(g, s) /\ AskedBy(g) = AskedBy(f) \cup Asks(f)
<1>1. PICK n \in Nat : n = Len(f.read)
  BY DEF Frames
<1>2. f.read \in Seq(Contents)
  BY DEF Frames
<1>3. /\ Len(g.read) = n + 1 /\ g.read[n + 1] = s[c]
      /\ \A m \in 0 .. n : Past(g, m) = Past(f, m)
      /\ \A m \in 1 .. n : g.read[m] = f.read[m]
  BY <1>1, <1>2, PastKept
<1>4. Past(g, n) = f
  BY <1>1, <1>3, PastWhole, SMTT(30)
<1>5. ASSUME NEW m \in 0 .. n
      PROVE  /\ ~Overflows(Past(g, m))
             /\ \E x \in Asks(Past(g, m)) : x \in Cells /\ s[x] # Failed /\ g.read[m + 1] = s[x]
  <2>1. CASE m = n
    BY <1>3, <1>4, <2>1
  <2>2. CASE m # n
    <3>1. m \in 0 .. n - 1 /\ m + 1 \in 1 .. n
      BY <2>2
    <3> QED BY <1>1, <1>3, <3>1 DEF Justified
  <2> QED BY <2>1, <2>2
<1>6. 0 .. Len(g.read) - 1 = 0 .. n
  BY <1>3
<1>7. Justified(g, s)
  BY <1>5, <1>6 DEF Justified
<1>8. AskedBy(g) = UNION {Asks(Past(g, m)) : m \in 0 .. n}
  BY <1>6 DEF AskedBy
<1>9. AskedBy(f) = UNION {Asks(Past(f, m)) : m \in 0 .. n - 1}
  BY <1>1 DEF AskedBy
<1>10. AskedBy(g) = AskedBy(f) \cup Asks(f)
  <2>1. ASSUME NEW x \in AskedBy(g) PROVE x \in AskedBy(f) \cup Asks(f)
    <3>1. PICK m \in 0 .. n : x \in Asks(Past(g, m))
      BY <1>8
    <3>2. m = n \/ m \in 0 .. n - 1
      OBVIOUS
    <3> QED BY <1>3, <1>4, <1>9, <3>1, <3>2
  <2>2. ASSUME NEW x \in AskedBy(f) PROVE x \in AskedBy(g)
    <3>1. PICK m \in 0 .. n - 1 : x \in Asks(Past(f, m))
      BY <1>9
    <3>2. m \in 0 .. n
      OBVIOUS
    <3> QED BY <1>3, <1>8, <3>1, <3>2
  <2>3. Asks(f) \subseteq AskedBy(g)
    <3>1. n \in 0 .. n
      OBVIOUS
    <3> QED BY <1>4, <1>8, <3>1
  <2> QED BY <2>1, <2>2, <2>3
<1> QED BY <1>7, <1>10

\* A sight that agrees on the cells that f has read justifies it as well.
LEMMA JustifiedElsewhere ==
  ASSUME NEW f, NEW s, NEW t, Justified(f, s), \A c \in AskedBy(f) : c \in Cells => t[c] = s[c]
  PROVE  Justified(f, t)
<1> SUFFICES ASSUME NEW m \in 0 .. Len(f.read) - 1
             PROVE  /\ ~Overflows(Past(f, m))
                    /\ \E c \in Asks(Past(f, m)) : c \in Cells /\ t[c] # Failed /\ f.read[m + 1] = t[c]
  BY DEF Justified
<1>1. PICK c \in Asks(Past(f, m)) : c \in Cells /\ s[c] # Failed /\ f.read[m + 1] = s[c]
  BY DEF Justified
<1>2. c \in AskedBy(f)
  BY DEF AskedBy
<1> QED BY <1>1, <1>2 DEF Justified

\* What f has read was there to be read.
LEMMA AskedSeen ==
  ASSUME NEW f, NEW s, Justified(f, s), NEW c \in AskedBy(f)
  PROVE  c \in Cells /\ s[c] # Failed
<1>1. PICK m \in 0 .. Len(f.read) - 1 : c \in Asks(Past(f, m))
  BY DEF AskedBy
<1>2. PICK x \in Asks(Past(f, m)) : x \in Cells /\ s[x] # Failed
  BY DEF Justified
<1>3. x = c
  BY <1>1, AsksOne
<1> QED BY <1>2, <1>3

-----------------------------------------------------------------------------
(* The evaluation of a cell in a sight.                                    *)

TypedOf(d) == {f \in Frames : Typed(f) /\ f.cell = d}

\* A typed evaluation advances to a typed one of the same cell.
LEMMA AdvancedTyped ==
  ASSUME NEW d, NEW s \in Sights, NEW f \in TypedOf(d)
  PROVE  Advanced(f, s) \in TypedOf(d)
<1>1. CASE ~Answerable(f, s)
  BY <1>1, AdvancedReads
<1>2. CASE Answerable(f, s)
  <2>1. PICK c \in Asks(f) :
          /\ c \in Cells /\ s[c] # Failed
          /\ Advanced(f, s) = [cell |-> f.cell, read |-> Append(f.read, s[c])]
    BY <1>2, AdvancedReads
  <2>2. s[c] \in TypeOf(c)
    BY <2>1 DEF Sights
  <2>3. Typed(f) /\ f.cell = d
    BY DEF TypedOf
  <2>4. Typed(Advanced(f, s))
    BY <2>1, <2>2, <2>3, ReadTyped
  <2>5. Advanced(f, s) \in Frames
    BY <2>4 DEF Typed
  <2> QED BY <2>1, <2>3, <2>4, <2>5 DEF TypedOf
<1> QED BY <1>1, <1>2

\* Steps is the function that its recursion describes.
LEMMA StepsDefined ==
  ASSUME NEW d \in AllDerived, NEW s \in Sights
  PROVE  /\ Steps(d, s) \in [0 .. MaxReads -> TypedOf(d)]
         /\ Steps(d, s)[0] = [cell |-> d, read |-> <<>>]
         /\ \A n \in 1 .. MaxReads : Steps(d, s)[n] = Advanced(Steps(d, s)[n - 1], s)
<1> DEFINE b == [cell |-> d, read |-> <<>>]
           G == [n \in 1 .. MaxReads |-> [f \in TypedOf(d) |-> Advanced(f, s)]]
           Rec(g) == g = [n \in 0 .. MaxReads |-> IF n = 0 THEN b ELSE Advanced(g[n - 1], s)]
<1>1. MaxReads \in Nat
  BY ValueAssumption DEF MaxReads
<1>2. b \in TypedOf(d)
  <2>1. b \in Frames /\ Len(b.read) = 0 /\ b.read = <<>>
    BY DEF Frames
  <2> QED BY <2>1 DEF TypedOf, Typed
<1>3. G \in [1 .. MaxReads -> [TypedOf(d) -> TypedOf(d)]]
  BY AdvancedTyped
<1>4. \A n \in 1 .. MaxReads : \A f \in TypedOf(d) : G[n][f] = Advanced(f, s)
  OBVIOUS
<1> HIDE DEF G, b
<1>5. PICK g : Recursion(g, MaxReads, TypedOf(d), b, G)
  BY <1>1, <1>2, <1>3, RecursionUpTo
<1>5a. g \in [0 .. MaxReads -> TypedOf(d)] /\ g[0] = b
  BY <1>5 DEF Recursion
<1>6. \A n \in 1 .. MaxReads : g[n] = Advanced(g[n - 1], s)
  <2> TAKE n \in 1 .. MaxReads
  <2>1. n - 1 \in 0 .. MaxReads
    BY <1>1
  <2> QED BY <1>4, <1>5, <1>5a, <2>1 DEF Recursion
<1>7. Rec(g)
  <2>1. ASSUME NEW n \in 0 .. MaxReads PROVE g[n] = IF n = 0 THEN b ELSE Advanced(g[n - 1], s)
    <3>1. n = 0 \/ n \in 1 .. MaxReads
      BY <1>1
    <3> QED BY <1>5a, <1>6, <3>1
  <2>2. g = [n \in 0 .. MaxReads |-> g[n]]
    BY <1>5a
  <2> QED BY <2>1, <2>2
<1>8. Steps(d, s) = CHOOSE h : Rec(h)
  BY DEF Steps, b
<1>9. ASSUME NEW h, Rec(h) PROVE h = g
  <2>1. UpTo(h, MaxReads) /\ h[0] = b
    BY <1>1, <1>9 DEF UpTo
  <2>2. \A n \in 1 .. MaxReads : h[n - 1] \in TypedOf(d) => h[n] = G[n][h[n - 1]]
    BY <1>1, <1>4, <1>9
  <2> HIDE DEF Rec
  <2> QED BY <1>5, <2>1, <2>2 DEF Recursion
<1>10. Rec(Steps(d, s))
  BY <1>7, <1>8
<1> HIDE DEF Rec
<1>11. Steps(d, s) = g
  BY <1>9, <1>10
<1> QED BY <1>5a, <1>6, <1>11 DEF b

\* How far an evaluation has come after n steps.
LEMMA StepsJustified ==
  ASSUME NEW d \in AllDerived, NEW s \in Sights
  PROVE  \A n \in 0 .. MaxReads :
           LET f == Steps(d, s)[n] IN
           /\ f \in TypedOf(d) /\ Justified(f, s)
           /\ Len(f.read) = n \/ ~Answerable(f, s)
           /\ UNION {Asks(Steps(d, s)[m]) : m \in 0 .. n} = AskedBy(f) \cup Asks(f)
<1> DEFINE g == Steps(d, s)
           Known(n) == UNION {Asks(g[m]) : m \in 0 .. n}
           Inv(n) == /\ Justified(g[n], s)
                     /\ Len(g[n].read) = n \/ ~Answerable(g[n], s)
                     /\ Known(n) = AskedBy(g[n]) \cup Asks(g[n])
           T == {n \in 0 .. MaxReads : Inv(n)}
<1>1. MaxReads \in Nat
  BY ValueAssumption DEF MaxReads
<1>2. /\ \A n \in 0 .. MaxReads : g[n] \in TypedOf(d)
      /\ g[0] = [cell |-> d, read |-> <<>>]
      /\ \A n \in 1 .. MaxReads : g[n] = Advanced(g[n - 1], s)
  BY StepsDefined
<1> HIDE DEF g
<1>3. 0 \in T
  <2>1. Len(g[0].read) = 0
    BY <1>2
  <2>2. Justified(g[0], s) /\ AskedBy(g[0]) = {}
    BY <2>1 DEF Justified, AskedBy
  <2>3. Known(0) = Asks(g[0])
    OBVIOUS
  <2> QED BY <1>1, <2>1, <2>2, <2>3
<1>4. ASSUME NEW n \in 0 .. MaxReads - 1, n \in T
      PROVE  n + 1 \in T
  <2>1. n + 1 \in 1 .. MaxReads /\ n \in 0 .. MaxReads /\ (n + 1) - 1 = n /\ n + 1 \in 0 .. MaxReads
    BY <1>1
  <2>2. g[n + 1] = Advanced(g[n], s) /\ Inv(n) /\ g[n] \in TypedOf(d)
    BY <1>2, <1>4, <2>1
  <2>3. Known(n + 1) = Known(n) \cup Asks(g[n + 1])
    <3>1. \A m : m \in 0 .. n + 1 <=> m \in 0 .. n \/ m = n + 1
      OBVIOUS
    <3> QED BY <3>1
  <2> HIDE DEF Known
  <2>4. CASE ~Answerable(g[n], s)
    <3>1. g[n + 1] = g[n]
      BY <2>2, <2>4, AdvancedReads
    <3> QED BY <2>1, <2>2, <2>3, <2>4, <3>1
  <2>5. CASE Answerable(g[n], s)
    <3>1. PICK c \in Asks(g[n]) :
            /\ c \in Cells /\ s[c] # Failed
            /\ g[n + 1] = [cell |-> g[n].cell, read |-> Append(g[n].read, s[c])]
      BY <2>2, <2>5, AdvancedReads, ZenonT(30)
    <3>2. g[n] \in Frames /\ g[n].read \in Seq(Contents)
      BY <2>2 DEF TypedOf, Frames
    <3>3. ~Overflows(g[n])
      BY <2>5 DEF Answerable
    <3>4. Justified(g[n + 1], s) /\ AskedBy(g[n + 1]) = AskedBy(g[n]) \cup Asks(g[n])
      BY <2>2, <3>1, <3>2, <3>3, JustifiedRead, SMTT(30)
    <3>5. Len(g[n + 1].read) = Len(g[n].read) + 1
      BY <3>1, <3>2, PastKept
    <3>6. Len(g[n + 1].read) = n + 1
      BY <2>2, <2>5, <3>5
    <3> QED BY <2>1, <2>2, <2>3, <3>4, <3>6
  <2> QED BY <2>4, <2>5
<1>5. 0 .. MaxReads \subseteq T
  <2> HIDE DEF T
  <2> QED BY <1>1, <1>3, <1>4, InductionUpTo
<1>6. \A n \in 0 .. MaxReads : Inv(n)
  BY <1>5
<1> HIDE DEF T
<1> QED BY <1>2, <1>6 DEF g

\* The last step of an evaluation gives its outcome and its footprint.
LEMMA LastStep ==
  ASSUME NEW d \in AllDerived, NEW s \in Sights, NEW f, f = Steps(d, s)[MaxReads]
  PROVE  /\ Typed(f) /\ f.cell = d /\ Justified(f, s) /\ ~Answerable(f, s)
         /\ Footprint(d, s) = AskedBy(f) \cup Asks(f)
         /\ Outcome(d, s) = IF Overflows(f) \/ Wanted(f) # {} THEN Failed ELSE Result(f)
<1>1. MaxReads \in 0 .. MaxReads
  BY ValueAssumption DEF MaxReads
<1>2. /\ f \in TypedOf(d) /\ Justified(f, s)
      /\ Len(f.read) = MaxReads \/ ~Answerable(f, s)
      /\ UNION {Asks(Steps(d, s)[m]) : m \in 0 .. MaxReads} = AskedBy(f) \cup Asks(f)
  BY <1>1, StepsJustified
<1>3. Typed(f) /\ f.cell = d
  BY <1>2 DEF TypedOf
<1>4. ~Answerable(f, s)
  BY <1>2, <1>3, ReadsBounded DEF Answerable
<1>5. Outcome(d, s) = IF Overflows(f) \/ Wanted(f) # {} THEN Failed ELSE Result(f)
  BY DEF Outcome
<1> QED BY <1>2, <1>3, <1>4, <1>5 DEF Footprint

\* An evaluation that cannot go on is the last step of its cell.
LEMMA Determined ==
  ASSUME NEW f, Typed(f), NEW s \in Sights, Justified(f, s), ~Answerable(f, s)
  PROVE  Steps(f.cell, s)[MaxReads] = f
<1>1. /\ f \in Frames /\ f.read \in Seq(Contents) /\ f.cell \in AllDerived
      /\ Len(f.read) \in 0 .. MaxReads
  BY ReadsBounded DEF Typed
<1>2. PICK k \in 0 .. MaxReads : k = Len(f.read)
  BY <1>1
<1> DEFINE g == Steps(f.cell, s)
           Reached(n) == IF n <= k THEN n ELSE k
           T == {n \in 0 .. MaxReads : g[n] = Past(f, Reached(n))}
<1>3. /\ g[0] = [cell |-> f.cell, read |-> <<>>]
      /\ \A n \in 1 .. MaxReads : g[n] = Advanced(g[n - 1], s)
  BY <1>1, StepsDefined
<1> HIDE DEF g
<1>4. MaxReads \in Nat
  BY ValueAssumption DEF MaxReads
<1>5. 0 \in T
  <2>1. Past(f, 0) = [cell |-> f.cell, read |-> <<>>]
    BY DEF Past
  <2> QED BY <1>2, <1>3, <1>4, <2>1
<1>6. ASSUME NEW n \in 0 .. MaxReads - 1, n \in T
      PROVE  n + 1 \in T
  <2>1. /\ n + 1 \in 1 .. MaxReads /\ n \in 0 .. MaxReads
        /\ (n + 1) - 1 = n /\ n + 1 \in 0 .. MaxReads
    BY <1>4
  <2>2. g[n + 1] = Advanced(Past(f, Reached(n)), s)
    BY <1>3, <1>6, <2>1
  <2>3. CASE n < k
    <3>1. n \in 0 .. k - 1 /\ Reached(n) = n /\ Reached(n + 1) = n + 1
      BY <1>2, <2>3
    <3>2. PICK c \in Asks(Past(f, n)) :
            ~Overflows(Past(f, n)) /\ c \in Cells /\ s[c] # Failed /\ f.read[n + 1] = s[c]
      BY <1>2, <3>1 DEF Justified
    <3>3. Answerable(Past(f, n), s)
      BY <3>2 DEF Answerable
    <3>4. Advanced(Past(f, n), s)
            = [cell |-> Past(f, n).cell, read |-> Append(Past(f, n).read, f.read[n + 1])]
      BY <3>2, <3>3, AdvancedReads
    <3>5. /\ Past(f, n).cell = f.cell
          /\ Append(Past(f, n).read, f.read[n + 1]) = [i \in 1 .. n + 1 |-> f.read[i]]
      <4>1. Past(f, n).read = [i \in 1 .. n |-> f.read[i]]
        BY DEF Past
      <4>2. \A i \in 1 .. n : f.read[i] \in Contents
        BY <1>1, <1>2, <3>1
      <4>3. Past(f, n).read \in Seq(Contents) /\ Len(Past(f, n).read) = n
        BY <4>1, <4>2
      <4> DEFINE q == Past(f, n).read
      <4> HIDE DEF q
      <4>4. q = [i \in 1 .. n |-> f.read[i]] /\ Len(q) = n /\ q \in Seq(Contents)
        BY <4>1, <4>3 DEF q
      <4>5. Append(q, f.read[n + 1]) = [i \in 1 .. n + 1 |-> f.read[i]]
        BY <4>4
      <4> QED BY <4>5 DEF q, Past
    <3>6. Advanced(Past(f, n), s) = Past(f, n + 1)
      BY <3>4, <3>5 DEF Past
    <3> QED BY <2>1, <2>2, <3>1, <3>6
  <2>4. CASE ~(n < k)
    <3>1. Reached(n) = k /\ Reached(n + 1) = k
      BY <1>2, <2>4
    <3>2. Past(f, k) = f
      BY <1>1, <1>2, PastWhole
    <3>3. Advanced(f, s) = f
      BY AdvancedReads
    <3> QED BY <2>1, <2>2, <3>1, <3>2, <3>3
  <2> QED BY <2>3, <2>4
<1>7. MaxReads \in T
  <2> HIDE DEF T
  <2>1. 0 .. MaxReads \subseteq T
    BY <1>4, <1>5, <1>6, InductionUpTo
  <2> QED BY <1>4, <2>1
<1>8. Reached(MaxReads) = k
  BY <1>2, <1>4
<1>9. Past(f, k) = f
  BY <1>1, <1>2, PastWhole
<1> QED BY <1>7, <1>8, <1>9 DEF g

\* The outcome that an evaluation has when it cannot go on.
LEMMA OutcomeOf ==
  ASSUME NEW f, Typed(f), NEW s \in Sights, Justified(f, s), ~Answerable(f, s)
  PROVE  /\ Footprint(f.cell, s) = AskedBy(f) \cup Asks(f)
         /\ Outcome(f.cell, s) = IF Overflows(f) \/ Wanted(f) # {} THEN Failed ELSE Result(f)
BY Determined, LastStep, ReadsBounded, ZenonT(30)

-----------------------------------------------------------------------------
(* What an evaluation returns has the type of its cell.                    *)

\* The sum of Ints is one.
LEMMA SumTyped ==
  ASSUME NEW s \in Seq(Int)
  PROVE  Sum(s) \in Int
<1> DEFINE G == [n \in 1 .. Len(s) |-> [x \in Int |-> x + s[n]]]
           Rec(g) == g = [n \in 0 .. Len(s) |-> IF n = 0 THEN 0 ELSE g[n - 1] + s[n]]
<1>1. Len(s) \in Nat /\ \A n \in 1 .. Len(s) : s[n] \in Int
  OBVIOUS
<1>2. G \in [1 .. Len(s) -> [Int -> Int]]
  BY <1>1
<1>3. \A n \in 1 .. Len(s) : \A x \in Int : G[n][x] = x + s[n]
  OBVIOUS
<1> HIDE DEF G
<1>4. PICK g : Recursion(g, Len(s), Int, 0, G)
  <2>1. 0 \in Int
    OBVIOUS
  <2> QED BY <1>1, <1>2, <2>1, RecursionUpTo
<1>5. g \in [0 .. Len(s) -> Int] /\ g[0] = 0
  BY <1>4 DEF Recursion
<1>6. \A n \in 1 .. Len(s) : n - 1 \in 0 .. Len(s) /\ g[n] = g[n - 1] + s[n]
  <2> TAKE n \in 1 .. Len(s)
  <2>1. n - 1 \in 0 .. Len(s)
    BY <1>1
  <2> QED BY <1>3, <1>4, <1>5, <2>1 DEF Recursion
<1>7. Rec(g)
  <2>1. ASSUME NEW n \in 0 .. Len(s) PROVE g[n] = IF n = 0 THEN 0 ELSE g[n - 1] + s[n]
    <3>1. n = 0 \/ n \in 1 .. Len(s)
      BY <1>1
    <3> QED BY <1>5, <1>6, <3>1
  <2>2. g = [n \in 0 .. Len(s) |-> g[n]]
    BY <1>5
  <2> QED BY <2>1, <2>2
<1>8. ASSUME NEW h, Rec(h) PROVE h = g
  <2>1. UpTo(h, Len(s)) /\ h[0] = 0
    BY <1>1, <1>8 DEF UpTo
  <2>2. ASSUME NEW n \in 1 .. Len(s), h[n - 1] \in Int PROVE h[n] = G[n][h[n - 1]]
    <3>1. n \in 0 .. Len(s) /\ n # 0
      BY <1>1
    <3>2. G[n][h[n - 1]] = h[n - 1] + s[n]
      BY <1>3, <2>2
    <3> QED BY <1>8, <3>1, <3>2
  <2> HIDE DEF Rec
  <2> QED BY <1>4, <2>1, <2>2 DEF Recursion
<1>9. Sum(s) = (CHOOSE h : Rec(h))[Len(s)]
  BY DEF Sum
<1>10. Rec(CHOOSE h : Rec(h))
  BY <1>7
<1> HIDE DEF Rec
<1> QED BY <1>1, <1>5, <1>8, <1>9, <1>10

\* What At takes of s, after each position.
Takes(S, s, P, g) ==
  /\ g \in [0 .. Len(s) -> Seq(S)] /\ g[0] = <<>> /\ At(s, P) = g[Len(s)]
  /\ \A n \in 1 .. Len(s) : g[n] = IF n \in P THEN Append(g[n - 1], s[n]) ELSE g[n - 1]

\* At is the function that its recursion describes.
LEMMA AtDefined ==
  ASSUME NEW S, NEW s \in Seq(S), NEW P
  PROVE  \E g : Takes(S, s, P, g)
<1> DEFINE G == [n \in 1 .. Len(s) |-> [x \in Seq(S) |-> IF n \in P THEN Append(x, s[n]) ELSE x]]
           Rec(g) == g = [n \in 0 .. Len(s) |->
                            IF n = 0 THEN <<>>
                            ELSE IF n \in P THEN Append(g[n - 1], s[n]) ELSE g[n - 1]]
<1>1. Len(s) \in Nat /\ \A n \in 1 .. Len(s) : s[n] \in S
  OBVIOUS
<1>2. G \in [1 .. Len(s) -> [Seq(S) -> Seq(S)]]
  BY <1>1
<1>3. \A n \in 1 .. Len(s) : \A x \in Seq(S) : G[n][x] = IF n \in P THEN Append(x, s[n]) ELSE x
  OBVIOUS
<1> HIDE DEF G
<1>4. PICK g : Recursion(g, Len(s), Seq(S), <<>>, G)
  <2>1. <<>> \in Seq(S)
    OBVIOUS
  <2> QED BY <1>1, <1>2, <2>1, RecursionUpTo
<1>5. g \in [0 .. Len(s) -> Seq(S)] /\ g[0] = <<>>
  BY <1>4 DEF Recursion
<1>6. \A n \in 1 .. Len(s) :
        n - 1 \in 0 .. Len(s) /\ g[n] = IF n \in P THEN Append(g[n - 1], s[n]) ELSE g[n - 1]
  <2> TAKE n \in 1 .. Len(s)
  <2>1. n - 1 \in 0 .. Len(s)
    BY <1>1
  <2> QED BY <1>3, <1>4, <1>5, <2>1 DEF Recursion
<1>7. Rec(g)
  <2>1. ASSUME NEW n \in 0 .. Len(s)
        PROVE  g[n] = IF n = 0 THEN <<>>
                      ELSE IF n \in P THEN Append(g[n - 1], s[n]) ELSE g[n - 1]
    <3>1. n = 0 \/ n \in 1 .. Len(s)
      BY <1>1
    <3> QED BY <1>5, <1>6, <3>1
  <2>2. g = [n \in 0 .. Len(s) |-> g[n]]
    BY <1>5
  <2> QED BY <2>1, <2>2
<1>8. ASSUME NEW h, Rec(h) PROVE h = g
  <2>1. UpTo(h, Len(s)) /\ h[0] = <<>>
    BY <1>1, <1>8 DEF UpTo
  <2>2. ASSUME NEW n \in 1 .. Len(s), h[n - 1] \in Seq(S) PROVE h[n] = G[n][h[n - 1]]
    <3>1. n \in 0 .. Len(s) /\ n # 0
      BY <1>1
    <3>2. G[n][h[n - 1]] = IF n \in P THEN Append(h[n - 1], s[n]) ELSE h[n - 1]
      BY <1>3, <2>2
    <3> QED BY <1>8, <3>1, <3>2
  <2> HIDE DEF Rec
  <2> QED BY <1>4, <2>1, <2>2 DEF Recursion
<1>9. At(s, P) = (CHOOSE h : Rec(h))[Len(s)]
  BY DEF At
<1>10. Rec(CHOOSE h : Rec(h))
  BY <1>7
<1>11. At(s, P) = g[Len(s)]
  <2> HIDE DEF Rec
  <2> QED BY <1>8, <1>9, <1>10
<1> QED BY <1>5, <1>6, <1>11 DEF Takes

\* At takes a part of a sequence.
LEMMA AtTyped ==
  ASSUME NEW S, NEW s \in Seq(S), NEW P
  PROVE  At(s, P) \in Seq(S) /\ Len(At(s, P)) <= Len(s)
<1>1. Len(s) \in Nat /\ \A n \in 1 .. Len(s) : s[n] \in S
  OBVIOUS
<1>2. PICK g : Takes(S, s, P, g)
  BY AtDefined
<1>3. /\ g \in [0 .. Len(s) -> Seq(S)] /\ g[0] = <<>> /\ At(s, P) = g[Len(s)]
      /\ \A n \in 1 .. Len(s) : g[n] = IF n \in P THEN Append(g[n - 1], s[n]) ELSE g[n - 1]
  BY <1>2 DEF Takes
<1> DEFINE T == {n \in 0 .. Len(s) : Len(g[n]) <= n}
<1>4. 0 \in T
  BY <1>1, <1>3
<1>5. ASSUME NEW n \in 0 .. Len(s) - 1, n \in T PROVE n + 1 \in T
  <2>1. n + 1 \in 1 .. Len(s) /\ (n + 1) - 1 = n /\ n \in 0 .. Len(s) /\ n + 1 \in 0 .. Len(s)
    BY <1>1
  <2>2. g[n + 1] = IF n + 1 \in P THEN Append(g[n], s[n + 1]) ELSE g[n]
    BY <1>3, <2>1
  <2>3. PICK k \in Nat : k = Len(g[n])
    BY <1>3, <2>1
  <2>4. k <= n
    BY <1>5, <2>3
  <2>5. PICK j \in Nat : j = Len(g[n + 1]) /\ (j = k \/ j = k + 1)
    BY <1>3, <2>1, <2>2, <2>3
  <2>6. j <= n + 1
    BY <2>4, <2>5
  <2> QED BY <2>1, <2>5, <2>6
<1>6. Len(s) \in T
  <2> HIDE DEF T
  <2>1. 0 .. Len(s) \subseteq T
    BY <1>1, <1>4, <1>5, InductionUpTo
  <2> QED BY <1>1, <2>1
<1> QED BY <1>1, <1>3, <1>6

\* At takes all of it at all positions.
LEMMA AtWhole ==
  ASSUME NEW S, NEW s \in Seq(S), NEW P, \A i \in 1 .. Len(s) : i \in P
  PROVE  At(s, P) = s
<1>1. Len(s) \in Nat /\ \A n \in 1 .. Len(s) : s[n] \in S
  OBVIOUS
<1>2. PICK g : Takes(S, s, P, g)
  BY AtDefined
<1>3. /\ g \in [0 .. Len(s) -> Seq(S)] /\ g[0] = <<>> /\ At(s, P) = g[Len(s)]
      /\ \A n \in 1 .. Len(s) : g[n] = Append(g[n - 1], s[n])
  BY <1>2 DEF Takes
<1> DEFINE T == {n \in 0 .. Len(s) : Len(g[n]) = n /\ \A i \in 1 .. n : g[n][i] = s[i]}
<1>4. 0 \in T
  BY <1>1, <1>3
<1>5. ASSUME NEW n \in 0 .. Len(s) - 1, n \in T PROVE n + 1 \in T
  <2>1. n + 1 \in 1 .. Len(s) /\ (n + 1) - 1 = n /\ n \in 0 .. Len(s) /\ n + 1 \in 0 .. Len(s)
    BY <1>1
  <2>2. g[n + 1] = Append(g[n], s[n + 1]) /\ g[n] \in Seq(S)
    BY <1>3, <2>1
  <2>3. Len(g[n]) = n /\ \A i \in 1 .. n : g[n][i] = s[i]
    BY <1>5
  <2>4. Len(g[n + 1]) = n + 1 /\ g[n + 1][n + 1] = s[n + 1] /\ \A i \in 1 .. n : g[n + 1][i] = s[i]
    BY <1>1, <2>1, <2>2, <2>3
  <2>5. \A i \in 1 .. n + 1 : i = n + 1 \/ i \in 1 .. n
    BY <2>1
  <2> QED BY <2>1, <2>4, <2>5
<1>6. Len(s) \in T
  <2> HIDE DEF T
  <2>1. 0 .. Len(s) \subseteq T
    BY <1>1, <1>4, <1>5, InductionUpTo
  <2> QED BY <1>1, <2>1
<1>7. PICK r \in Seq(S) : r = At(s, P) /\ Len(r) = Len(s) /\ \A i \in 1 .. Len(s) : r[i] = s[i]
  BY <1>1, <1>3, <1>6
<1> QED BY <1>7

\* When nothing more is wanted, the operation has what it takes.
LEMMA AllRead ==
  ASSUME NEW f, Typed(f), Wanted(f) = {}
  PROVE  /\ Len(f.read) # 0
         /\ Formula(f).op \in {"add", "if", "follow"} => Len(f.read) = 2
<1>1. PICK n \in Nat : n = Len(f.read)
  BY DEF Typed, Frames
<1> DEFINE e == Formula(f)
<1> HIDE DEF e
<1>2. n # 0
  BY <1>1 DEF Wanted
<1>3. e.op = "add" => n # 1
  BY <1>1 DEF Wanted, e
<1>4. e.op = "if" => n # 1
  BY <1>1 DEF Wanted, e
<1>5. e.op = "follow" => n # 1
  BY <1>1 DEF Wanted, e
<1>6. e.op \in {"add", "if", "follow"} => n <= 2
  BY <1>1 DEF Typed, e
<1>7. \A k \in Nat : k # 0 /\ k # 1 /\ k <= 2 => k = 2
  OBVIOUS
<1>8. e.op \in {"add", "if", "follow"} => n = 2
  BY <1>2, <1>3, <1>4, <1>5, <1>6, <1>7
<1> QED BY <1>1, <1>2, <1>8 DEF e

\* The result of an evaluation has the type of its cell.
LEMMA ResultTyped ==
  ASSUME NEW f, Typed(f), Wanted(f) = {}
  PROVE  Result(f) \in TypeOf(f.cell)
<1>1. /\ f \in Frames /\ f.read \in Seq(Contents) /\ f.cell \in AllDerived
      /\ Formula(f).op \in {"add", "if", "follow", "sum", "filter"}
      /\ TypeOf(f.cell) = IF Formula(f).op = "filter" THEN Rows ELSE Int
      /\ Len(f.read) # 0
  BY Expressions, Kinds, AllRead DEF Typed, Frames, Formula
<1>2. PICK n \in Nat : n = Len(f.read)
  BY <1>1
<1>3. CASE Formula(f).op = "add"
  <2>1. \A i \in 1 .. n : f.read[i] \in Int
    BY <1>2, <1>3 DEF Typed
  <2>2. f.read \in Seq(Int)
    BY <1>1, <1>2, <2>1
  <2>3. Result(f) = Sum(f.read)
    BY <1>3 DEF Result
  <2> QED BY <1>1, <1>3, <2>2, <2>3, SumTyped
<1>4. CASE Formula(f).op \in {"if", "follow"}
  <2>1. Len(f.read) = 2 /\ Result(f) = f.read[2]
    BY <1>4, AllRead DEF Result
  <2>2. f.read[2] \in Int
    BY <1>4, <2>1 DEF Typed
  <2> QED BY <1>1, <1>4, <2>1, <2>2
<1>5. CASE Formula(f).op = "sum"
  <2>1. \A i \in 2 .. n : f.read[i] \in Int
    BY <1>1, <1>2, <1>5 DEF Typed
  <2>2. Tail(f.read) \in Seq(Int)
    <3>1. f.read # <<>> /\ n - 1 \in Nat
      BY <1>1, <1>2
    <3>2. Tail(f.read) \in Seq(Contents) /\ Len(Tail(f.read)) = n - 1
      BY <1>1, <1>2, <3>1
    <3>3. \A i \in 1 .. n - 1 : Tail(f.read)[i] = f.read[i + 1] /\ i + 1 \in 2 .. n
      BY <1>1, <1>2, <3>1
    <3>4. \A i \in 1 .. n - 1 : Tail(f.read)[i] \in Int
      BY <2>1, <3>3
    <3>5. ASSUME NEW q \in Seq(Contents), NEW m \in Nat, Len(q) = m, \A i \in 1 .. m : q[i] \in Int
          PROVE  q \in Seq(Int)
      BY <3>5
    <3> QED BY <3>1, <3>2, <3>4, <3>5
  <2>3. Result(f) = Sum(Tail(f.read))
    BY <1>5 DEF Result
  <2> QED BY <1>1, <1>5, <2>2, <2>3, SumTyped
<1>6. CASE Formula(f).op = "filter"
  <2>1. f.read[1] \in Rows
    BY <1>1, <1>6 DEF Typed
  <2>2. f.read[1] \in Seq(Identities) /\ Len(f.read[1]) \in 0 .. MaxLength
    BY <2>1, RowsShape
  <2>3. Result(f) = Kept(f)
    BY <1>6 DEF Result
  <2>4. Kept(f) \in Seq(Identities) /\ Len(Kept(f)) <= Len(f.read[1])
    BY <2>2, AtTyped DEF Kept
  <2>5. Len(Kept(f)) <= MaxLength
    <3>1. PICK k \in Nat : k = Len(Kept(f))
      BY <2>4
    <3>2. PICK j \in 0 .. MaxLength : j = Len(f.read[1])
      BY <2>2
    <3> QED BY <2>4, <3>1, <3>2, ValueAssumption
  <2>6. Kept(f) \in Rows
    BY <2>4, <2>5, RowsBounded
  <2> QED BY <1>1, <1>6, <2>3, <2>6
<1> QED BY <1>1, <1>3, <1>4, <1>5, <1>6

-----------------------------------------------------------------------------
(* Outcomes.                                                               *)

\* An outcome has the type of its cell, and everything it rests on was to be seen.
LEMMA OutcomeTyped ==
  ASSUME NEW d \in AllDerived, NEW s \in Sights
  PROVE  /\ Outcome(d, s) \in TypeOf(d) \cup {Failed}
         /\ Outcome(d, s) # Failed => \A c \in Footprint(d, s) : c \in Cells /\ s[c] # Failed
<1>1. PICK f : f = Steps(d, s)[MaxReads]
  OBVIOUS
<1>2. /\ Typed(f) /\ f.cell = d /\ Justified(f, s)
      /\ Footprint(d, s) = AskedBy(f) \cup Asks(f)
      /\ Outcome(d, s) = IF Overflows(f) \/ Wanted(f) # {} THEN Failed ELSE Result(f)
  BY <1>1, LastStep
<1>3. Outcome(d, s) \in TypeOf(d) \cup {Failed}
  BY <1>2, ResultTyped
<1>4. ASSUME Outcome(d, s) # Failed, NEW c \in Footprint(d, s)
      PROVE  c \in Cells /\ s[c] # Failed
  <2>1. Wanted(f) = {}
    BY <1>2, <1>4
  <2>2. c \in AskedBy(f)
    BY <1>2, <1>4, <2>1 DEF Asks
  <2> QED BY <1>2, <2>2, AskedSeen
<1> QED BY <1>3, <1>4

\* An outcome depends on nothing but its footprint.
LEMMA OutcomeElsewhere ==
  ASSUME NEW d \in AllDerived, NEW s \in Sights, NEW t \in Sights, Outcome(d, s) # Failed,
         \A c \in Footprint(d, s) : t[c] = s[c]
  PROVE  Outcome(d, t) = Outcome(d, s) /\ Footprint(d, t) = Footprint(d, s)
<1>1. PICK f : f = Steps(d, s)[MaxReads]
  OBVIOUS
<1>2. /\ Typed(f) /\ f.cell = d /\ Justified(f, s)
      /\ Footprint(d, s) = AskedBy(f) \cup Asks(f)
      /\ Outcome(d, s) = IF Overflows(f) \/ Wanted(f) # {} THEN Failed ELSE Result(f)
  BY <1>1, LastStep
<1>3. Wanted(f) = {}
  BY <1>2
<1>4. Justified(f, t)
  BY <1>2, JustifiedElsewhere
<1>5. ~Answerable(f, t)
  BY <1>3 DEF Answerable, Asks
<1>6. /\ Footprint(d, t) = AskedBy(f) \cup Asks(f)
      /\ Outcome(d, t) = IF Overflows(f) \/ Wanted(f) # {} THEN Failed ELSE Result(f)
  BY <1>2, <1>4, <1>5, OutcomeOf
<1> QED BY <1>2, <1>6

-----------------------------------------------------------------------------
(* The values that follow from a store, level by level.                    *)

\* What Store may be.
Stores ==
  {s \in [Cells -> Contents \cup {Failed}] :
     /\ \A c \in AllStored : s[c] \in TypeOf(c) \cup {Failed}
     /\ \A c \in AllDerived : s[c] \in {None, Failed}}

\* What s shows, t shows as well.
Below(s, t) == \A c \in Cells : s[c] # Failed => t[c] = s[c]

\* Values of every type are contents; a cell is stored or derived.
LEMMA TypeValues ==
  /\ \A c : TypeOf(c) \subseteq Contents
  /\ \A c \in Cells : c \in AllStored <=> c \notin AllDerived
BY Kinds DEF TypeOf, Contents, Cells

\* Recomputation shows values of the right types.
LEMMA RecomputedTyped ==
  ASSUME NEW store \in Stores, NEW s \in Sights
  PROVE  Recomputed(store, s) \in Sights
<1> DEFINE r == Recomputed(store, s)
<1>1. r = [c \in Cells |-> IF store[c] = Failed \/ c \in AllStored THEN store[c] ELSE Outcome(c, s)]
  BY DEF Recomputed
<1>2. ASSUME NEW c \in Cells PROVE r[c] \in TypeOf(c) \cup {Failed}
  <2>1. CASE store[c] = Failed \/ c \in AllStored
    BY <1>1, <2>1 DEF Stores
  <2>2. CASE ~(store[c] = Failed \/ c \in AllStored)
    BY <1>1, <2>2, TypeValues, OutcomeTyped
  <2> QED BY <2>1, <2>2
<1>3. r \in [Cells -> Contents \cup {Failed}]
  <2>1. \A c \in Cells : r[c] \in Contents \cup {Failed}
    BY <1>2, TypeValues
  <2>2. r = [c \in Cells |-> r[c]]
    BY <1>1
  <2> HIDE DEF r
  <2> QED BY <2>1, <2>2
<1> HIDE DEF r
<1>4. r \in Sights
  BY <1>2, <1>3 DEF Sights
<1> QED BY <1>4 DEF r

\* A sight that shows more recomputes to one that shows more.
LEMMA RecomputedMonotone ==
  ASSUME NEW store \in Stores, NEW s \in Sights, NEW t \in Sights, Below(s, t)
  PROVE  Below(Recomputed(store, s), Recomputed(store, t))
<1> SUFFICES ASSUME NEW c \in Cells, Recomputed(store, s)[c] # Failed
             PROVE  Recomputed(store, t)[c] = Recomputed(store, s)[c]
  BY DEF Below
<1>1. CASE store[c] = Failed \/ c \in AllStored
  BY <1>1 DEF Recomputed
<1>2. CASE ~(store[c] = Failed \/ c \in AllStored)
  <2>1. /\ Recomputed(store, s)[c] = Outcome(c, s) /\ Recomputed(store, t)[c] = Outcome(c, t)
        /\ c \in AllDerived
    BY <1>2, TypeValues DEF Recomputed
  <2>2. \A x \in Footprint(c, s) : t[x] = s[x]
    BY <2>1, OutcomeTyped DEF Below
  <2> QED BY <2>1, <2>2, OutcomeElsewhere
<1> QED BY <1>1, <1>2

\* There are finitely many derived cells.
LEMMA DerivedFinite ==
  IsFiniteSet(AllDerived) /\ Cardinality(AllDerived) \in Nat /\ Depth \in Nat
<1>1. IsFiniteSet({App}) /\ IsFiniteSet(Identities) /\ IsFiniteSet(AppDerived) /\ IsFiniteSet(ElementDerived)
  BY FS_Singleton, ValueAssumption
<1>2. IsFiniteSet({App} \X AppDerived) /\ IsFiniteSet(Identities \X ElementDerived)
  BY <1>1, FS_Product
<1>3. IsFiniteSet(AllDerived)
  BY <1>2, FS_Union DEF AllDerived
<1> QED BY <1>3, FS_CardinalityType DEF Depth

\* Levels is the function that its recursion describes.
LEMMA LevelsDefined ==
  ASSUME NEW store \in Stores
  PROVE  /\ Levels(store) \in [0 .. Depth -> Sights]
         /\ Levels(store)[0] = [c \in Cells |-> Failed]
         /\ \A n \in 1 .. Depth : Levels(store)[n] = Recomputed(store, Levels(store)[n - 1])
<1> DEFINE b == [c \in Cells |-> Failed]
           G == [n \in 1 .. Depth |-> [s \in Sights |-> Recomputed(store, s)]]
           Rec(g) == g = [n \in 0 .. Depth |-> IF n = 0 THEN b ELSE Recomputed(store, g[n - 1])]
<1>1. Depth \in Nat
  BY DerivedFinite
<1>2. b \in Sights
  BY DEF Sights
<1>3. G \in [1 .. Depth -> [Sights -> Sights]]
  BY RecomputedTyped
<1>4. \A n \in 1 .. Depth : \A s \in Sights : G[n][s] = Recomputed(store, s)
  OBVIOUS
<1> HIDE DEF G, b
<1>5. PICK g : Recursion(g, Depth, Sights, b, G)
  BY <1>1, <1>2, <1>3, RecursionUpTo
<1>6. g \in [0 .. Depth -> Sights] /\ g[0] = b
  BY <1>5 DEF Recursion
<1>7. \A n \in 1 .. Depth : g[n] = Recomputed(store, g[n - 1])
  <2> TAKE n \in 1 .. Depth
  <2>1. n - 1 \in 0 .. Depth
    BY <1>1
  <2> QED BY <1>4, <1>5, <1>6, <2>1 DEF Recursion
<1>8. Rec(g)
  <2>1. ASSUME NEW n \in 0 .. Depth PROVE g[n] = IF n = 0 THEN b ELSE Recomputed(store, g[n - 1])
    <3>1. n = 0 \/ n \in 1 .. Depth
      BY <1>1
    <3> QED BY <1>6, <1>7, <3>1
  <2>2. g = [n \in 0 .. Depth |-> g[n]]
    BY <1>6
  <2> QED BY <2>1, <2>2
<1>9. Levels(store) = CHOOSE h : Rec(h)
  BY DEF Levels, b
<1>10. ASSUME NEW h, Rec(h) PROVE h = g
  <2>1. UpTo(h, Depth) /\ h[0] = b
    BY <1>1, <1>10 DEF UpTo
  <2>2. ASSUME NEW n \in 1 .. Depth, h[n - 1] \in Sights PROVE h[n] = G[n][h[n - 1]]
    <3>1. n \in 0 .. Depth /\ n # 0
      BY <1>1
    <3>2. G[n][h[n - 1]] = Recomputed(store, h[n - 1])
      BY <1>4, <2>2
    <3> QED BY <1>10, <3>1, <3>2
  <2> HIDE DEF Rec
  <2> QED BY <1>5, <2>1, <2>2 DEF Recursion
<1>11. Rec(Levels(store))
  BY <1>8, <1>9
<1> HIDE DEF Rec
<1>12. Levels(store) = g
  BY <1>10, <1>11
<1> QED BY <1>6, <1>7, <1>12 DEF b

\* Each level shows what the one below it shows.
LEMMA LevelsAscend ==
  ASSUME NEW store \in Stores
  PROVE  \A n \in 0 .. Depth : Below(Levels(store)[n], Recomputed(store, Levels(store)[n]))
<1> DEFINE L == Levels(store)
           T == {n \in 0 .. Depth : Below(L[n], Recomputed(store, L[n]))}
<1>1. /\ L \in [0 .. Depth -> Sights] /\ L[0] = [c \in Cells |-> Failed]
      /\ \A n \in 1 .. Depth : L[n] = Recomputed(store, L[n - 1])
      /\ Depth \in Nat
  BY LevelsDefined, DerivedFinite
<1> HIDE DEF L
<1>2. 0 \in T
  BY <1>1 DEF Below
<1>3. ASSUME NEW n \in 0 .. Depth - 1, n \in T PROVE n + 1 \in T
  <2>1. n + 1 \in 1 .. Depth /\ n \in 0 .. Depth /\ (n + 1) - 1 = n /\ n + 1 \in 0 .. Depth
    BY <1>1
  <2>2. L[n + 1] = Recomputed(store, L[n]) /\ Below(L[n], L[n + 1])
    BY <1>1, <1>3, <2>1
  <2>3. Below(Recomputed(store, L[n]), Recomputed(store, L[n + 1]))
    BY <1>1, <2>1, <2>2, RecomputedMonotone
  <2> QED BY <2>1, <2>2, <2>3
<1>4. 0 .. Depth \subseteq T
  <2> HIDE DEF T
  <2> QED BY <1>1, <1>2, <1>3, InductionUpTo
<1> QED BY <1>4 DEF L

\* A sight that already shows everything recomputed from it shows every level.
LEMMA LevelsLeast ==
  ASSUME NEW store \in Stores, NEW t \in Sights, Below(Recomputed(store, t), t)
  PROVE  \A n \in 0 .. Depth : Below(Levels(store)[n], t)
<1> DEFINE L == Levels(store)
           T == {n \in 0 .. Depth : Below(L[n], t)}
<1>1. /\ L \in [0 .. Depth -> Sights] /\ L[0] = [c \in Cells |-> Failed]
      /\ \A n \in 1 .. Depth : L[n] = Recomputed(store, L[n - 1])
      /\ Depth \in Nat
  BY LevelsDefined, DerivedFinite
<1> HIDE DEF L
<1>2. 0 \in T
  BY <1>1 DEF Below
<1>3. ASSUME NEW n \in 0 .. Depth - 1, n \in T PROVE n + 1 \in T
  <2>1. n + 1 \in 1 .. Depth /\ n \in 0 .. Depth /\ (n + 1) - 1 = n /\ n + 1 \in 0 .. Depth
    BY <1>1
  <2>2. L[n + 1] = Recomputed(store, L[n])
    BY <1>1, <2>1
  <2>3. Below(Recomputed(store, L[n]), Recomputed(store, t))
    BY <1>1, <1>3, <2>1, RecomputedMonotone
  <2>4. Below(L[n + 1], t)
    BY <2>2, <2>3 DEF Below
  <2> QED BY <2>1, <2>4
<1>4. 0 .. Depth \subseteq T
  <2> HIDE DEF T
  <2> QED BY <1>1, <1>2, <1>3, InductionUpTo
<1> QED BY <1>4 DEF L

\* The last level is a fixed point: each level before it shows one more derived cell or
\* is one, and there are no more of them than derived cells.
LEMMA LevelsSettle ==
  ASSUME NEW store \in Stores, NEW m, m = Levels(store)[Depth]
  PROVE  m \in Sights /\ Recomputed(store, m) = m
<1> DEFINE L == Levels(store)
           R(s) == Recomputed(store, s)
           E(n) == {d \in AllDerived : R(L[n])[d] # Failed}
           T == {n \in 0 .. Depth : R(L[n]) = L[n] \/ Cardinality(E(n)) >= n}
<1>1. /\ L \in [0 .. Depth -> Sights]
      /\ \A n \in 1 .. Depth : L[n] = R(L[n - 1])
      /\ \A n \in 0 .. Depth : Below(L[n], R(L[n]))
      /\ Depth \in Nat
  BY LevelsDefined, DerivedFinite, LevelsAscend
<1> HIDE DEF L
<1>2. \A n : IsFiniteSet(E(n)) /\ Cardinality(E(n)) \in Nat /\ Cardinality(E(n)) <= Cardinality(AllDerived)
  <2> TAKE n
  <2>1. E(n) \subseteq AllDerived
    OBVIOUS
  <2> HIDE DEF E
  <2> QED BY <2>1, DerivedFinite, FS_Subset, FS_CardinalityType
<1>3. 0 \in T
  <2> HIDE DEF E
  <2>1. \A x \in Nat : x >= 0
    OBVIOUS
  <2> QED BY <1>1, <1>2, <2>1
<1>4. ASSUME NEW n \in 0 .. Depth - 1, n \in T PROVE n + 1 \in T
  <2>1. n + 1 \in 1 .. Depth /\ n \in 0 .. Depth /\ (n + 1) - 1 = n /\ n + 1 \in 0 .. Depth
    BY <1>1
  <2>2. L[n + 1] = R(L[n]) /\ Below(L[n + 1], R(L[n + 1]))
    BY <1>1, <2>1
  <2> SUFFICES ASSUME R(L[n + 1]) # L[n + 1]
               PROVE  Cardinality(E(n + 1)) >= n + 1
    BY <2>1
  <2>3. Cardinality(E(n)) >= n
    BY <1>4, <2>2
  <2>4. PICK c \in Cells : R(L[n + 1])[c] # L[n + 1][c]
    <3>1. R(L[n + 1]) \in [Cells -> Contents \cup {Failed}] /\ L[n + 1] \in [Cells -> Contents \cup {Failed}]
      BY <1>1, <2>1, RecomputedTyped DEF Sights
    <3> HIDE DEF R
    <3> QED BY <3>1
  <2>5. L[n + 1][c] = Failed /\ R(L[n + 1])[c] # Failed
    BY <2>2, <2>4 DEF Below
  <2>6. c \in AllDerived
    <3>1. c \in AllStored => R(L[n + 1])[c] = store[c] /\ R(L[n])[c] = store[c]
      BY <2>4 DEF Recomputed
    <3> QED BY <2>2, <2>4, <3>1, TypeValues
  <2>7. c \notin E(n) /\ E(n) \cup {c} \subseteq E(n + 1)
    <3>1. c \notin E(n) /\ c \in E(n + 1)
      BY <2>2, <2>5, <2>6
    <3>2. \A d \in AllDerived : L[n + 1][d] # Failed => R(L[n + 1])[d] # Failed
      BY <2>2, Kinds DEF Below
    <3>3. E(n) \subseteq E(n + 1)
      BY <2>2, <3>2
    <3> QED BY <3>1, <3>3
  <2> HIDE DEF E
  <2>8. Cardinality(E(n) \cup {c}) = Cardinality(E(n)) + 1 /\ IsFiniteSet(E(n) \cup {c})
    BY <1>2, <2>7, FS_AddElement
  <2>9. Cardinality(E(n) \cup {c}) <= Cardinality(E(n + 1))
    BY <1>2, <2>7, FS_Subset
  <2>10. ASSUME NEW x \in Nat, NEW y \in Nat, NEW z, z = x + 1, z <= y, x >= n PROVE y >= n + 1
    BY <2>10
  <2> QED BY <1>2, <2>3, <2>8, <2>9, <2>10
<1>5. Depth \in T
  <2> HIDE DEF T
  <2>1. 0 .. Depth \subseteq T
    BY <1>1, <1>3, <1>4, InductionUpTo
  <2> QED BY <1>1, <2>1
<1>6. ~(Cardinality(E(Depth)) >= Depth)
  <2> HIDE DEF E
  <2>1. ASSUME NEW x \in Nat, NEW y \in Nat, x <= y PROVE ~(x >= y + 1)
    BY <2>1
  <2> QED BY <1>2, <2>1, DerivedFinite DEF Depth
<1>7. R(L[Depth]) = L[Depth] /\ L[Depth] \in Sights
  BY <1>1, <1>5, <1>6
<1> QED BY <1>7 DEF L
=============================================================================
