-------------------------- MODULE DerivedCacheProofs --------------------------
(***************************************************************************)
(* Proofs about DerivedCache, for every well-typed program, any identities *)
(* and any bounds: the shape of the caches and the absence of a cell under *)
(* its own evaluation; and, for a program without capture, that caches and *)
(* answers have the values that their definitions give, that no evaluation *)
(* runs for ever, and that the kernel is one that has no caches.           *)
(***************************************************************************)
EXTENDS CacheFacts

-----------------------------------------------------------------------------
(* The shape of the state.                                                 *)

IsMap(f, S) == f = [x \in S |-> f[x]]
IsRow(s) == \E S : s \in Seq(S)

Populations ==
  /\ used \in SUBSET Identities /\ live \in SUBSET used /\ created \in SUBSET used
  /\ deleted \in SUBSET live /\ live \cap created = {}
  /\ active \in BOOLEAN
Stored ==
  /\ IsMap(states, AllStored) /\ IsMap(writes, DOMAIN writes)
  /\ DOMAIN writes \subseteq AllStored /\ \A c \in DOMAIN writes : Exists(c)
Cached ==
  /\ IsMap(cached, AllDerived) /\ \A d \in AllDerived : cached[d] # None => d[1] \in {App} \cup live
  /\ IsMap(staged, AllDerived) /\ \A d \in AllDerived : staged[d] # None => Exists(d)
  /\ graph \in Edges /\ stagedGraph \in Edges
Outside == ~active => writes = <<>> /\ created = {} /\ deleted = {} /\ staged = Unset /\ stagedGraph = NoEdges

\* The evaluations of the stack: each of another cell, and of one that exists.
Stacked ==
  /\ IsRow(stack)
  /\ \A i \in 1 .. Len(stack) :
       /\ stack[i] = [cell |-> stack[i].cell, read |-> stack[i].read]
       /\ stack[i].cell \in AllDerived /\ Exists(stack[i].cell)
  /\ CyclesCaught

Fits == Populations /\ Stored /\ Cached /\ Outside /\ Stacked

\* A graph without edges is one.
LEMMA NoEdgesTyped == NoEdges \in Edges
BY DEF NoEdges, Edges

\* The program starts in the shape.
LEMMA InitFits == Init => Fits
<1> SUFFICES ASSUME Init PROVE Fits
  OBVIOUS
<1>1. Populations
  BY DEF Init, Populations
<1>2. Stored
  BY DEF Init, Stored, IsMap
<1>3. Cached
  BY NoEdgesTyped DEF Init, Cached, IsMap, Unset
<1>4. Outside
  BY DEF Init, Outside
<1>5. Stacked
  <2>1. stack = <<>> /\ stack \in Seq({})
    BY DEF Init
  <2>2. IsRow(stack)
    BY <2>1 DEF IsRow
  <2>3. Len(stack) = 0
    BY <2>1
  <2> QED BY <2>2, <2>3 DEF Stacked, CyclesCaught
<1> QED BY <1>1, <1>2, <1>3, <1>4, <1>5 DEF Fits

\* The shape is what TypeOK says, and more.
LEMMA FitsTypeOK == Fits => TypeOK /\ CyclesCaught
<1> SUFFICES ASSUME Fits PROVE TypeOK /\ CyclesCaught
  OBVIOUS
<1>1. DOMAIN states = AllStored
  BY DEF Fits, Stored, IsMap
<1>2. CacheFits(cached, {App} \cup live) /\ CacheFits(staged, {App} \cup LiveNow)
  BY DEF Fits, Cached, CacheFits, Exists
<1>3. GraphFits(graph) /\ GraphFits(stagedGraph)
  BY DEF Fits, Cached, GraphFits, Edges
<1> QED BY <1>1, <1>2, <1>3 DEF Fits, TypeOK, Populations, Stored, Outside, Stacked

\* The cells that exist stay as long as no identity comes or goes.
LEMMA ExistsKept ==
  ASSUME UNCHANGED <<live, created, deleted>>
  PROVE  \A c : Exists(c)' <=> Exists(c)
BY DEF Exists, LiveNow

\* SetGraph keeps the edges of both layers edges.
LEMMA SetGraphTyped ==
  ASSUME NEW h \in Edges, graph \in Edges, stagedGraph \in Edges, SetGraph(h)
  PROVE  graph' \in Edges /\ stagedGraph' \in Edges
BY DEF SetGraph

\* The top of the stack evaluates a derived cell that exists.
LEMMA TopFits ==
  ASSUME Stacked, stack # <<>>
  PROVE  /\ Len(stack) \in Nat /\ Len(stack) \in 1 .. Len(stack) /\ Top = stack[Len(stack)]
         /\ Top.cell \in AllDerived /\ Exists(Top.cell)
<1>1. PICK S : stack \in Seq(S)
  BY DEF Stacked, IsRow
<1>2. Len(stack) \in Nat /\ Len(stack) \in 1 .. Len(stack)
  BY <1>1
<1> QED BY <1>2 DEF Top, Stacked

\* The stack after another read on top of it.
LEMMA ReadsStack ==
  ASSUME Stacked, stack # <<>>, NEW v, Reads(v)
  PROVE  /\ IsRow(stack') /\ Len(stack') = Len(stack)
         /\ \A i \in 1 .. Len(stack) : stack'[i] = IF i = Len(stack) THEN Given(stack[i], v) ELSE stack[i]
<1>1. PICK S : stack \in Seq(S)
  BY DEF Stacked, IsRow
<1>2. PICK n \in Nat : n = Len(stack) /\ n \in 1 .. n
  BY <1>1
<1>3. stack' = [stack EXCEPT ![n] = Given(stack[n], v)]
  <2>1. PICK c, r : stack[n] = [cell |-> c, read |-> r]
    BY <1>2 DEF Stacked
  <2>2. [stack[n] EXCEPT !.read = Append(stack[n].read, v)] = [cell |-> c, read |-> Append(r, v)]
    BY <2>1, SMTT(30)
  <2>3. Given(stack[n], v) = [cell |-> c, read |-> Append(r, v)]
    BY <2>1 DEF Given
  <2>4. stack' = [stack EXCEPT ![n].read = Append(@, v)]
    BY <1>2 DEF Reads
  <2>5. stack' = [stack EXCEPT ![n] = [stack[n] EXCEPT !.read = Append(stack[n].read, v)]]
    BY <2>4
  <2> QED BY <2>2, <2>3, <2>5
<1>4. PICK f : f = Given(stack[n], v)
  OBVIOUS
<1>5. stack' \in Seq(S \cup {f}) /\ Len(stack') = n /\ \A i \in 1 .. n : stack'[i] = IF i = n THEN f ELSE stack[i]
  BY <1>1, <1>2, <1>3, <1>4
<1>6. IsRow(stack')
  BY <1>5 DEF IsRow
<1> QED BY <1>2, <1>4, <1>5, <1>6

\* A read leaves the cells of the stack as they are.
LEMMA ReadsFits ==
  ASSUME Stacked, stack # <<>>, NEW v, Reads(v), UNCHANGED <<live, created, deleted>>
  PROVE  Stacked'
<1>1. PICK n \in Nat : n = Len(stack)
  BY TopFits
<1>2. /\ IsRow(stack') /\ Len(stack') = n
      /\ \A i \in 1 .. n : stack'[i] = IF i = n THEN Given(stack[i], v) ELSE stack[i]
  BY <1>1, ReadsStack
<1>3. ASSUME NEW i \in 1 .. n
      PROVE  /\ stack'[i] = [cell |-> stack'[i].cell, read |-> stack'[i].read]
             /\ stack'[i].cell = stack[i].cell
             /\ stack[i].cell \in AllDerived /\ Exists(stack[i].cell)
             /\ (Exists(stack[i].cell))'
  <2>1. stack[i] = [cell |-> stack[i].cell, read |-> stack[i].read]
    BY <1>1 DEF Stacked
  <2>2. stack[i].cell \in AllDerived /\ Exists(stack[i].cell)
    BY <1>1 DEF Stacked
  <2>3. stack'[i].cell = stack[i].cell
    BY <1>2 DEF Given
  <2>4. stack'[i] = [cell |-> stack'[i].cell, read |-> stack'[i].read]
    BY <1>2, <2>1 DEF Given
  <2> QED BY <2>2, <2>3, <2>4 DEF Exists, LiveNow
<1>4. \A i, j \in 1 .. n : stack'[i].cell = stack'[j].cell => i = j
  BY <1>1, <1>3 DEF Stacked, CyclesCaught
<1> QED BY <1>2, <1>3, <1>4 DEF Stacked, CyclesCaught

\* The stack after another cell is pushed.
LEMMA EntersStack ==
  ASSUME Stacked, NEW d, stack' = Append(stack, [cell |-> d, read |-> <<>>])
  PROVE  /\ Len(stack) \in Nat /\ IsRow(stack') /\ Len(stack') = Len(stack) + 1
         /\ \A i \in 1 .. Len(stack) : stack'[i] = stack[i]
         /\ stack'[Len(stack) + 1] = [cell |-> d, read |-> <<>>]
<1>1. PICK S : stack \in Seq(S)
  BY DEF Stacked, IsRow
<1>2. PICK n \in Nat : n = Len(stack)
  BY <1>1
<1>3. PICK f : f = [cell |-> d, read |-> <<>>]
  OBVIOUS
<1>4. /\ stack' \in Seq(S \cup {f}) /\ Len(stack') = n + 1 /\ stack'[n + 1] = f
      /\ \A i \in 1 .. n : stack'[i] = stack[i]
  BY <1>1, <1>2, <1>3
<1> QED BY <1>2, <1>3, <1>4 DEF IsRow

\* A pushed cell exists, and is not on the stack already.
LEMMA EntersFits ==
  ASSUME Stacked, NEW d \in AllDerived, Exists(d), ~Cyclic(d), UNCHANGED <<live, created, deleted>>,
         stack' = Append(stack, [cell |-> d, read |-> <<>>])
  PROVE  Stacked'
<1>1. PICK n \in Nat : n = Len(stack)
  BY EntersStack
<1>2. /\ IsRow(stack') /\ Len(stack') = n + 1 /\ stack'[n + 1] = [cell |-> d, read |-> <<>>]
      /\ \A i \in 1 .. n : stack'[i] = stack[i]
  BY <1>1, EntersStack
<1>3. ASSUME NEW i \in 1 .. n + 1
      PROVE  /\ stack'[i] = [cell |-> stack'[i].cell, read |-> stack'[i].read]
             /\ stack'[i].cell \in AllDerived /\ (Exists(stack[i].cell))'
  <2>1. CASE i = n + 1
    BY <1>2, <2>1 DEF Exists, LiveNow
  <2>2. CASE i # n + 1
    <3>1. i \in 1 .. n
      BY <2>2
    <3>2. stack'[i] = stack[i]
      BY <1>2, <3>1
    <3> QED BY <1>1, <3>1, <3>2 DEF Stacked, Exists, LiveNow
  <2> QED BY <2>1, <2>2
<1>4. ASSUME NEW i \in 1 .. n + 1, NEW j \in 1 .. n + 1, stack'[i].cell = stack'[j].cell
      PROVE  i = j
  <2>1. \A m \in 1 .. n + 1 : m = n + 1 \/ m \in 1 .. n
    OBVIOUS
  <2>2. \A m \in 1 .. n : stack'[m].cell # d /\ stack'[m].cell = stack[m].cell
    BY <1>1, <1>2 DEF Cyclic
  <2>3. \A m, l \in 1 .. n : stack[m].cell = stack[l].cell => m = l
    BY <1>1 DEF Stacked, CyclesCaught
  <2> QED BY <1>2, <1>4, <2>1, <2>2, <2>3
<1> QED BY <1>2, <1>3, <1>4 DEF Stacked, CyclesCaught

\* An evaluation with another read.
LEMMA Longer ==
  ASSUME NEW c, NEW r, NEW v, NEW g, NEW h,
         g = [cell |-> c, read |-> r], h = [g EXCEPT !.read = Append(g.read, v)]
  PROVE  h = [cell |-> c, read |-> Append(r, v)]
OBVIOUS

\* The stack without its top.
LEMMA FrontShape ==
  ASSUME NEW S, NEW s \in Seq(S), s # <<>>
  PROVE  /\ Front(s) \in Seq(S) /\ Len(Front(s)) = Len(s) - 1
         /\ \A i \in 1 .. Len(s) - 1 : Front(s)[i] = s[i]
         /\ Front(s) = <<>> <=> Len(s) - 1 = 0
<1>1. PICK n \in Nat : n = Len(s) /\ n # 0
  OBVIOUS
<1>2. Front(s) = SubSeq(s, 1, n - 1)
  BY <1>1 DEF Front
<1>3. PICK q : q = SubSeq(s, 1, n - 1)
  OBVIOUS
<1>4. q \in Seq(S) /\ Len(q) = n - 1 /\ \A i \in 1 .. n - 1 : q[i] = s[i]
  BY <1>1, <1>3
<1>5. q = <<>> <=> n - 1 = 0
  BY <1>1, <1>4
<1> QED BY <1>1, <1>2, <1>3, <1>4, <1>5

\* The stack after its top has handed its value down.
Hands(v) ==
  IF Front(stack) = <<>> THEN stack' = <<>>
  ELSE stack' = [Front(stack) EXCEPT ![Len(Front(stack))].read = Append(@, v)]

\* What is left of the stack, its new top with one more read.
LEMMA PopsStack ==
  ASSUME Stacked, stack # <<>>, NEW v, Hands(v)
  PROVE  /\ IsRow(stack') /\ Len(stack') = Len(stack) - 1
         /\ \A i \in 1 .. Len(stack) - 1 :
              stack'[i] = IF i = Len(stack) - 1 THEN Given(stack[i], v) ELSE stack[i]
<1>1. PICK S : stack \in Seq(S)
  BY DEF Stacked, IsRow
<1>2. PICK n \in Nat : n = Len(stack) /\ n \in 1 .. n
  BY <1>1
<1>3. PICK m \in Nat : m = n - 1
  BY <1>2
<1>4. PICK rest \in Seq(S) :
        /\ rest = Front(stack) /\ Len(rest) = m
        /\ \A i \in 1 .. m : rest[i] = stack[i]
        /\ rest = <<>> <=> m = 0
  BY <1>1, <1>2, <1>3, FrontShape
<1>5. CASE m = 0
  <2>1. stack' = <<>>
    BY <1>4, <1>5 DEF Hands
  <2>2. stack' \in Seq({}) /\ Len(stack') = 0
    BY <2>1
  <2>3. IsRow(stack')
    BY <2>2 DEF IsRow
  <2>4. 1 .. m = {}
    BY <1>5
  <2> QED BY <1>2, <1>3, <1>5, <2>2, <2>3, <2>4
<1>6. CASE m # 0
  <2>1. m \in 1 .. m /\ m \in 1 .. n
    BY <1>2, <1>3, <1>6
  <2>2. PICK c, r : stack[m] = [cell |-> c, read |-> r]
    BY <1>2, <2>1 DEF Stacked
  <2>3. PICK g : g = rest[m]
    OBVIOUS
  <2>4. PICK h : h = [g EXCEPT !.read = Append(g.read, v)]
    OBVIOUS
  <2>4a. stack' = [rest EXCEPT ![m] = h]
    <3>1. stack' = [rest EXCEPT ![m].read = Append(@, v)]
      BY <1>4, <1>6 DEF Hands
    <3> QED BY <2>3, <2>4, <3>1
  <2>5. h = [cell |-> c, read |-> Append(r, v)]
    <3>1. g = [cell |-> c, read |-> r]
      BY <1>4, <2>1, <2>2, <2>3
    <3> QED BY <2>4, <3>1, Longer
  <2>6. Given(stack[m], v) = [cell |-> c, read |-> Append(r, v)]
    BY <2>2 DEF Given
  <2>7. PICK f : f = Given(stack[m], v)
    OBVIOUS
  <2>8. stack' = [rest EXCEPT ![m] = f]
    BY <2>4a, <2>5, <2>6, <2>7
  <2>9. /\ stack' \in Seq(S \cup {f}) /\ Len(stack') = m
        /\ \A i \in 1 .. m : stack'[i] = IF i = m THEN f ELSE rest[i]
    BY <1>4, <2>1, <2>8
  <2>10. \A i \in 1 .. m : stack'[i] = IF i = m THEN Given(stack[i], v) ELSE stack[i]
    BY <1>4, <2>7, <2>9
  <2>11. IsRow(stack')
    BY <2>9 DEF IsRow
  <2> QED BY <1>2, <1>3, <2>9, <2>10, <2>11
<1> QED BY <1>5, <1>6

\* The cells below the top stay.
LEMMA PopsFits ==
  ASSUME Stacked, stack # <<>>, NEW v, Hands(v), UNCHANGED <<live, created, deleted>>
  PROVE  Stacked'
<1>1. PICK n \in Nat : n = Len(stack)
  BY TopFits
<1>2. n # 0
  BY <1>1, TopFits
<1>3. PICK m \in Nat : m = n - 1
  BY <1>2
<1>4. /\ IsRow(stack') /\ Len(stack') = m
      /\ \A i \in 1 .. m : stack'[i] = IF i = m THEN Given(stack[i], v) ELSE stack[i]
  BY <1>1, <1>3, PopsStack
<1>5. ASSUME NEW i \in 1 .. m
      PROVE  /\ stack'[i] = [cell |-> stack'[i].cell, read |-> stack'[i].read]
             /\ stack'[i].cell = stack[i].cell /\ i \in 1 .. n
             /\ stack[i].cell \in AllDerived
             /\ (Exists(stack[i].cell))'
  <2>1. i \in 1 .. n
    BY <1>3
  <2>2. stack[i] = [cell |-> stack[i].cell, read |-> stack[i].read]
    BY <1>1, <2>1 DEF Stacked
  <2>3. stack[i].cell \in AllDerived /\ Exists(stack[i].cell)
    BY <1>1, <2>1 DEF Stacked
  <2>4. stack'[i].cell = stack[i].cell
    BY <1>4 DEF Given
  <2>5. stack'[i] = [cell |-> stack'[i].cell, read |-> stack'[i].read]
    BY <1>4, <2>2 DEF Given
  <2> QED BY <2>1, <2>3, <2>4, <2>5 DEF Exists, LiveNow
<1>6. \A i, j \in 1 .. m : stack'[i].cell = stack'[j].cell => i = j
  <2>1. \A i, j \in 1 .. n : stack[i].cell = stack[j].cell => i = j
    BY <1>1 DEF Stacked, CyclesCaught
  <2> QED BY <1>5, <2>1
<1> QED BY <1>4, <1>5, <1>6 DEF Stacked, CyclesCaught

\* An empty stack fits.
LEMMA EmptyFits ==
  ASSUME stack' = <<>>
  PROVE  Stacked'
<1>1. stack' \in Seq({}) /\ Len(stack') = 0
  OBVIOUS
<1>2. IsRow(stack')
  BY <1>1 DEF IsRow
<1> QED BY <1>1, <1>2 DEF Stacked, CyclesCaught

-----------------------------------------------------------------------------
(* Every step keeps the shape.                                             *)

\* Steps of an evaluation.
LEMMA AskFits ==
  ASSUME Fits, NEW d \in AllDerived, Ask(d)
  PROVE  Fits'
<1>1. Populations' /\ Stored' /\ Outside
  BY DEF Fits, Ask, Evaluating, Populations, Stored, Exists, LiveNow
<1>2. graph' \in Edges /\ stagedGraph' \in Edges
  <2>1. Unlinked(Graph, d) \in Edges
    BY UnlinkedEdges DEF Fits, Cached, Graph
  <2> QED BY <2>1, SetGraphTyped DEF Fits, Cached, Ask, Enter
<1>3. Cached'
  BY <1>2 DEF Fits, Cached, Ask, Evaluating, Exists, LiveNow
<1>4. Outside'
  BY DEF Fits, Outside, Ask, Evaluating, Enter, SetGraph
<1>5. Stacked'
  <2>1. CASE UNCHANGED stack
    BY <2>1, EmptyFits DEF Ask
  <2>2. CASE Enter(d, Graph)
    <3>1. ~Cyclic(d)
      BY DEF Ask, Cyclic
    <3> QED BY <2>2, <3>1, EntersFits DEF Fits, Ask, Evaluating, Enter
  <2> QED BY <2>1, <2>2 DEF Ask
<1> QED BY <1>1, <1>3, <1>4, <1>5 DEF Fits

\* ReadName: one edge more and one read more.
LEMMA ReadNameFits ==
  ASSUME Fits, ReadName
  PROVE  Fits'
<1>1. Populations' /\ Stored'
  BY DEF Fits, ReadName, Evaluating, Populations, Stored, Exists, LiveNow
<1>2. Top.cell \in AllDerived /\ Stacked /\ stack # <<>>
  BY TopFits DEF Fits, ReadName
<1>3. graph \in Edges /\ stagedGraph \in Edges /\ Graph \in Edges
  BY DEF Fits, Cached, Graph
<1>4. /\ \E v : Reads(v)
      /\ \/ UNCHANGED <<graph, stagedGraph>>
         \/ \E c \in Cells : Exists(c) /\ SetGraph(Linked(Graph, Top.cell, c))
  BY DEF ReadName
<1>5. graph' \in Edges /\ stagedGraph' \in Edges
  <2>1. CASE UNCHANGED <<graph, stagedGraph>>
    BY <1>3, <2>1
  <2>2. CASE \E c \in Cells : Exists(c) /\ SetGraph(Linked(Graph, Top.cell, c))
    <3>1. PICK c \in Cells : SetGraph(Linked(Graph, Top.cell, c))
      BY <2>2
    <3>2. Linked(Graph, Top.cell, c) \in Edges
      BY <1>2, <1>3, LinkedEdges
    <3> QED BY <1>3, <3>1, <3>2, SetGraphTyped
  <2> QED BY <1>4, <2>1, <2>2
<1>6. Cached'
  BY <1>5 DEF Fits, Cached, ReadName, Evaluating, Exists, LiveNow
<1>7. Outside'
  BY <1>4 DEF Fits, Outside, ReadName, Evaluating, SetGraph
<1>8. Stacked'
  BY <1>2, <1>4, ReadsFits DEF ReadName, Evaluating
<1> QED BY <1>1, <1>6, <1>7, <1>8 DEF Fits

\* EnterDerived: the cell that was asked for is pushed.
LEMMA EnterDerivedFits ==
  ASSUME Fits, EnterDerived
  PROVE  Fits'
<1>1. Populations' /\ Stored'
  BY DEF Fits, EnterDerived, Evaluating, Populations, Stored, Exists, LiveNow
<1>2. Top.cell \in AllDerived /\ Stacked /\ stack # <<>>
  BY TopFits DEF Fits, EnterDerived
<1>3. graph \in Edges /\ stagedGraph \in Edges /\ Graph \in Edges
  BY DEF Fits, Cached, Graph
<1>4. PICK c : c \in AllDerived /\ Exists(c) /\ ~Cyclic(c) /\ Enter(c, Linked(Graph, Top.cell, c))
  BY DEF EnterDerived
<1>5. graph' \in Edges /\ stagedGraph' \in Edges
  <2>1. Linked(Graph, Top.cell, c) \in Edges
    BY <1>2, <1>3, <1>4, Kinds, LinkedEdges
  <2>2. Unlinked(Linked(Graph, Top.cell, c), c) \in Edges
    BY <1>4, <2>1, UnlinkedEdges
  <2> QED BY <1>3, <1>4, <2>2, SetGraphTyped DEF Enter
<1>6. Cached'
  BY <1>5 DEF Fits, Cached, EnterDerived, Evaluating, Exists, LiveNow
<1>7. Outside'
  BY <1>4 DEF Fits, Outside, EnterDerived, Evaluating, Enter, SetGraph
<1>8. Stacked'
  BY <1>2, <1>4, EntersFits DEF EnterDerived, Evaluating, Enter
<1> QED BY <1>1, <1>6, <1>7, <1>8 DEF Fits

\* What Finish does: the value of the top evaluation is cached and handed down.
LEMMA Finishes ==
  ASSUME Stacked, Finish
  PROVE  /\ Hands(Result(Top)) /\ Top.cell \in AllDerived /\ Exists(Top.cell)
         /\ stack # <<>> /\ ~Overflows(Top) /\ Wanted(Top) = {}
         /\ IF active
            THEN staged' = [staged EXCEPT ![Top.cell] = Result(Top)] /\ UNCHANGED cached
            ELSE cached' = [cached EXCEPT ![Top.cell] = Result(Top)] /\ UNCHANGED staged
         /\ \/ answer' = answer
            \/ answer' = <<Top.cell, Result(Top)>> /\ stack' = <<>>
  BY TopFits DEF Finish, Hands, Front

\* Finish: the cell of the top exists, so its value may be cached.
LEMMA FinishFits ==
  ASSUME Fits, Finish
  PROVE  Fits'
<1>1. Populations' /\ Stored'
  BY DEF Fits, Finish, Evaluating, Populations, Stored, Exists, LiveNow
<1>2. /\ Hands(Result(Top)) /\ Top.cell \in AllDerived /\ Exists(Top.cell) /\ stack # <<>>
      /\ IF active
         THEN staged' = [staged EXCEPT ![Top.cell] = Result(Top)] /\ UNCHANGED cached
         ELSE cached' = [cached EXCEPT ![Top.cell] = Result(Top)] /\ UNCHANGED staged
  BY Finishes DEF Fits
<1>3. Cached'
  <2>1. PICK d, v : d = Top.cell /\ v = Result(Top)
    OBVIOUS
  <2>2. ~active => live = LiveNow
    BY DEF Fits, Outside, LiveNow
  <2>3. graph' \in Edges /\ stagedGraph' \in Edges /\ UNCHANGED <<live, created, deleted>>
    BY DEF Fits, Cached, Finish, Evaluating
  <2>4. /\ IsMap(cached', AllDerived)
        /\ \A e \in AllDerived : cached'[e] # None => e[1] \in {App} \cup live
    BY <1>2, <2>1, <2>2 DEF Fits, Cached, IsMap, Exists
  <2>5. /\ IsMap(staged', AllDerived)
        /\ \A e \in AllDerived : staged'[e] # None => Exists(e)
    BY <1>2, <2>1 DEF Fits, Cached, IsMap
  <2> QED BY <2>3, <2>4, <2>5 DEF Cached, Exists, LiveNow
<1>4. Outside'
  BY <1>2 DEF Fits, Outside, Finish, Evaluating
<1>5. Stacked'
  BY <1>2, PopsFits DEF Fits, Finish, Evaluating
<1> QED BY <1>1, <1>3, <1>4, <1>5 DEF Fits

\* A dropped transaction leaves the committed world as it was.
LEMMA DroppedFits ==
  ASSUME Fits, Dropped, UNCHANGED <<committed, used>>, stack' = <<>>
  PROVE  Fits'
<1>1. Populations'
  BY DEF Fits, Dropped, committed, Populations
<1>2. Stored'
  BY DEF Fits, Dropped, committed, Stored, IsMap
<1>3. Cached'
  BY NoEdgesTyped DEF Fits, Dropped, committed, Cached, IsMap, Unset
<1>4. Outside' /\ Stacked'
  BY EmptyFits DEF Dropped, Outside
<1> QED BY <1>1, <1>2, <1>3, <1>4 DEF Fits

\* FailEvaluation: the stack is emptied, and the transaction dropped.
LEMMA FailEvaluationFits ==
  ASSUME Fits, FailEvaluation
  PROVE  Fits'
<1>1. CASE active
  BY <1>1, DroppedFits DEF FailEvaluation
<1>2. CASE ~active
  <2>1. UNCHANGED <<committed, used, active, overlay>> /\ stack' = <<>>
    BY <1>2 DEF FailEvaluation
  <2>2. Populations' /\ Stored' /\ Cached' /\ Outside'
    BY <2>1 DEF Fits, committed, overlay, Populations, Stored, Cached, Outside, Exists, LiveNow
  <2> QED BY <2>1, <2>2, EmptyFits DEF Fits
<1> QED BY <1>1, <1>2

-----------------------------------------------------------------------------
(* Steps of the transaction.                                               *)

\* RunAction: an empty transaction is opened.
LEMMA RunActionFits ==
  ASSUME Fits, RunAction
  PROVE  Fits'
<1>1. UNCHANGED <<committed, used, overlay, stack>> /\ active' = TRUE
  BY DEF RunAction, Quiet
<1> QED BY <1>1 DEF Fits, committed, overlay, Populations, Stored, Cached, Outside, Stacked, CyclesCaught, Exists, LiveNow

\* Fail: the transaction is dropped.
LEMMA FailFits ==
  ASSUME Fits, Fail
  PROVE  Fits'
BY DroppedFits DEF Fail, Idle, Quiet

\* Invalidation takes values and gives none.
LEMMA InvalidatedTyped ==
  ASSUME NEW C, Cached
  PROVE  /\ IsMap(Invalidated(C), AllDerived)
         /\ \A d \in AllDerived : Invalidated(C)[d] = None \/ Invalidated(C)[d] = staged[d]
BY DEF IsMap, Invalidated

\* Write: a cell that exists is staged.
LEMMA WriteFits ==
  ASSUME Fits, NEW c \in AllStored, NEW v, Write(c, v)
  PROVE  Fits'
<1>1. UNCHANGED <<states, live, cached, graph, used, stack, active, created, deleted, stagedGraph>>
  BY DEF Write, Quiet, committed
<1>2. Populations' /\ Outside' /\ Stacked'
  BY <1>1 DEF Fits, Populations, Outside, Stacked, CyclesCaught, Exists, LiveNow, Write
<1>3. Stored'
  <2>1. writes' = [n \in {c} \cup DOMAIN writes |-> IF n = c THEN v ELSE writes[n]] /\ Exists(c)
    BY DEF Write
  <2>2. \A x \in DOMAIN writes' : Exists(x)
    BY <2>1 DEF Fits, Stored
  <2>3. DOMAIN writes' \subseteq AllStored /\ IsMap(writes', DOMAIN writes')
    BY <2>1 DEF Fits, Stored, IsMap
  <2> QED BY <1>1, <2>2, <2>3 DEF Fits, Stored, Exists, LiveNow
<1>4. Cached'
  <2>1. staged' = Invalidated({c})
    BY DEF Write
  <2>2. IsMap(staged', AllDerived) /\ \A d \in AllDerived : staged'[d] # None => Exists(d)
    BY <2>1, InvalidatedTyped DEF Fits, Cached
  <2> QED BY <1>1, <2>2 DEF Fits, Cached, Exists, LiveNow
<1> QED BY <1>2, <1>3, <1>4 DEF Fits

\* Create: the identity is new, so no cell ceases to exist.
LEMMA CreateFits ==
  ASSUME Fits, NEW x \in Identities, Create(x)
  PROVE  Fits'
<1>1. /\ UNCHANGED <<states, live, cached, graph, active, writes, deleted, staged, stagedGraph, stack>>
      /\ used' = used \cup {x} /\ created' = created \cup {x} /\ x \notin used /\ active
  BY DEF Create, committed
<1>2. Populations' /\ Outside'
  BY <1>1 DEF Fits, Populations, Outside
<1>3. \A c : Exists(c) => (Exists(c))'
  BY <1>1 DEF Fits, Populations, Exists, LiveNow
<1>4. Stored' /\ Cached' /\ Stacked'
  BY <1>1, <1>3 DEF Fits, Stored, Cached, Stacked, CyclesCaught
<1> QED BY <1>2, <1>4 DEF Fits

\* Destroy: no cell of the identity stays staged or cached.
LEMMA DestroyFits ==
  ASSUME Fits, NEW x \in Identities, Destroy(x)
  PROVE  Fits'
<1>1. /\ UNCHANGED <<states, live, cached, graph, used, stack, active, created>>
      /\ deleted' = deleted \cup {x} /\ x \in live \ deleted /\ active /\ stack = <<>>
  BY DEF Destroy, Quiet, committed, Idle
<1>2. Populations' /\ Outside' /\ Stacked'
  BY <1>1, EmptyFits DEF Fits, Populations, Outside
<1>3. \A c : Exists(c) /\ c[1] # x => (Exists(c))'
  BY <1>1 DEF Exists, LiveNow
<1> DEFINE own == CellsOf({x})
           naming == {c \in {App} \X AppLinks :
                        IF c[2] = "members" THEN x \in ToSet(Read(c)) ELSE Read(c) = x}
           kept == DOMAIN writes \ own
<1>4. Stored'
  <2>1. DOMAIN writes' = naming \cup kept /\ IsMap(writes', DOMAIN writes')
    BY DEF Destroy, IsMap
  <2>2. \A c \in naming : c \in AllStored /\ c[1] = App
    BY DEF AllStored
  <2>3. \A c \in naming : (Exists(c))'
    BY <2>2 DEF Exists
  <2>4. \A c \in kept : c \in AllStored /\ Exists(c) /\ c[1] # x
    BY DEF Fits, Stored, CellsOf, Cells
  <2> HIDE DEF naming, kept
  <2> QED BY <1>1, <1>3, <2>1, <2>2, <2>3, <2>4 DEF Fits, Stored
<1>5. Cached'
  <2>1. /\ IsMap(staged', AllDerived)
        /\ \A d \in AllDerived : staged'[d] = IF d \in own THEN None ELSE Invalidated(naming \cup own)[d]
    BY DEF Destroy, IsMap
  <2>2. \A d \in AllDerived : staged'[d] # None => Exists(d) /\ d[1] # x
    <3> HIDE DEF naming
    <3> QED BY <2>1, InvalidatedTyped DEF Fits, Cached, CellsOf, Cells
  <2>3. stagedGraph' \in Edges
    <3>1. /\ stagedGraph' = [deps |-> stagedGraph'.deps, watchers |-> stagedGraph'.watchers]
          /\ stagedGraph'.deps = [d \in AllDerived |-> IF d \in own THEN {} ELSE stagedGraph.deps[d]]
          /\ stagedGraph'.watchers = [c \in Cells |-> stagedGraph.watchers[c] \ {d \in own : d \in AllDerived /\ c \in stagedGraph.deps[d]}]
      BY DEF Destroy
    <3>2. stagedGraph.deps \in [AllDerived -> SUBSET Cells] /\ stagedGraph.watchers \in [Cells -> SUBSET AllDerived]
      BY DEF Fits, Cached, Edges
    <3> HIDE DEF own
    <3>3. stagedGraph'.deps \in [AllDerived -> SUBSET Cells] /\ stagedGraph'.watchers \in [Cells -> SUBSET AllDerived]
      BY <3>1, <3>2
    <3> QED BY <3>1, <3>3 DEF Edges
  <2> QED BY <1>1, <1>3, <2>1, <2>2, <2>3 DEF Fits, Cached
<1> QED BY <1>2, <1>4, <1>5 DEF Fits

\* Commit: no cell of a deleted identity stays cached.
LEMMA CommitFits ==
  ASSUME Fits, Commit
  PROVE  Fits'
<1>1. /\ live' = (live \cup created) \ deleted /\ created' = {} /\ deleted' = {} /\ used' = used
      /\ writes' = <<>> /\ staged' = Unset /\ stagedGraph' = NoEdges /\ active' = FALSE
      /\ stack = <<>> /\ stack' = stack
  BY DEF Commit, Dropped, Idle
<1>2. Populations' /\ Outside' /\ Stacked'
  BY <1>1, EmptyFits DEF Fits, Populations, Outside
<1>3. Stored'
  <2>1. IsMap(states', AllStored)
    BY DEF Commit, IsMap
  <2> QED BY <1>1, <2>1 DEF Stored, IsMap
<1> DEFINE gone == CellsOf(deleted)
<1>4. /\ IsMap(cached', AllDerived)
      /\ \A d \in AllDerived : cached'[d] # None => cached'[d] = cached[d] /\ d \notin gone
  BY DEF Commit, IsMap
<1>5. \A d \in AllDerived : cached'[d] # None => d[1] \in {App} \cup live'
  BY <1>1, <1>4 DEF Fits, Cached, CellsOf, Cells
<1>6. graph' \in Edges
  <2>1. /\ graph' = [deps |-> graph'.deps, watchers |-> graph'.watchers]
        /\ graph'.deps = [d \in AllDerived |-> IF d \in gone THEN {} ELSE graph.deps[d]]
        /\ graph'.watchers = [c \in Cells |->
                        IF c \in gone THEN {}
                        ELSE {w \in graph.watchers[c] : w \in gone => c \notin graph.deps[w]}]
    BY DEF Commit
  <2>2. graph.deps \in [AllDerived -> SUBSET Cells] /\ graph.watchers \in [Cells -> SUBSET AllDerived]
    BY DEF Fits, Cached, Edges
  <2> HIDE DEF gone
  <2>3. graph'.deps \in [AllDerived -> SUBSET Cells] /\ graph'.watchers \in [Cells -> SUBSET AllDerived]
    BY <2>1, <2>2
  <2> QED BY <2>1, <2>3 DEF Edges
<1>7. IsMap(staged', AllDerived) /\ stagedGraph' \in Edges /\ \A d \in AllDerived : staged'[d] = None
  BY <1>1, NoEdgesTyped DEF Unset, IsMap
<1>8. Cached'
  BY <1>4, <1>5, <1>6, <1>7 DEF Cached
<1> QED BY <1>2, <1>3, <1>8 DEF Fits

-----------------------------------------------------------------------------
(* The theorems that hold for every program.                               *)

\* Every step keeps the shape.
LEMMA FitsKept == Fits /\ [Next]_vars => Fits'
<1> SUFFICES ASSUME Fits, [Next]_vars PROVE Fits'
  OBVIOUS
<1>1. CASE EvaluationStep
  BY <1>1, ReadNameFits, EnterDerivedFits, FinishFits, FailEvaluationFits DEF EvaluationStep
<1>2. CASE RunAction \/ Fail \/ Commit
  BY <1>2, RunActionFits, FailFits, CommitFits
<1>3. CASE \E d \in AllDerived : Ask(d)
  BY <1>3, AskFits
<1>4. CASE \E c \in AllStored : \E v \in Values(c) : Write(c, v)
  BY <1>4, WriteFits
<1>5. CASE \E x \in Identities : Create(x) \/ Destroy(x)
  BY <1>5, CreateFits, DestroyFits
<1>6. CASE UNCHANGED vars
  BY <1>6 DEF Fits, vars, committed, overlay, Populations, Stored, Cached, Outside, Stacked, CyclesCaught, Exists, LiveNow
<1> QED BY <1>1, <1>2, <1>3, <1>4, <1>5, <1>6 DEF Next

\* The shape of the caches and of the transaction holds in every reachable state.
THEOREM TypeCorrect == Spec => []TypeOK
<1>1. Fits => TypeOK
  BY FitsTypeOK
<1> QED BY InitFits, FitsKept, <1>1, PTL DEF Spec

\* However the cells of a program read each other, no cell is evaluated inside its own
\* evaluation: the cycle check of eval_derived suffices, and its recursion is bounded.
THEOREM NoCycle == Spec => []CyclesCaught
<1>1. Fits => CyclesCaught
  BY FitsTypeOK
<1> QED BY InitFits, FitsKept, <1>1, PTL DEF Spec


-----------------------------------------------------------------------------
(* Caches and answers, for a program without capture.                      *)

Cache == IF active THEN staged ELSE cached

\* Every stored value has the type of its cell.
Typing ==
  /\ \A c \in AllStored : states[c] \in TypeOf(c)
  /\ \A c \in DOMAIN writes : writes[c] \in TypeOf(c)

\* What the reader sees is a layer with the evaluations of the stack under way on it; the
\* committed world is a layer at all times, also while a transaction hides it.
Layered ==
  /\ Layer(CommittedStore, cached, graph)
  /\ Layer(Store, Cache, Graph)
  /\ Running(Store, Cache, Graph, stack)
Answered ==
  /\ stack # <<>> => answer = <<>>
  /\ AnswerCorrect

Consistent == Fits /\ Typing /\ Layered /\ Answered

\* What a stored cell holds has its type.
LEMMA ReadWellTyped ==
  ASSUME Fits, Typing, NEW c \in AllStored
  PROVE  Read(c) \in TypeOf(c) /\ Read(c) \in Contents /\ Read(c) # Failed
<1>1. Read(c) \in TypeOf(c)
  BY DEF Typing, Read
<1> QED BY <1>1, TypeValues, NoValue

\* Both stores are stores, and outside a transaction they are one.
LEMMA StoresTyped ==
  (Fits /\ Typing) =>
    /\ Store \in Stores /\ CommittedStore \in Stores
    /\ ~active => Store = CommittedStore
<1> SUFFICES ASSUME Fits, Typing
             PROVE  /\ Store \in Stores /\ CommittedStore \in Stores
                    /\ ~active => Store = CommittedStore
  OBVIOUS
<1>1. \A c \in AllStored : c \notin AllDerived
  BY Kinds
<1>2. None \in Contents
  BY DEF Contents
<1>3. Store \in Stores
  <2>1. \A c \in Cells : Store[c] = IF ~Exists(c) THEN Failed ELSE IF c \in AllStored THEN Read(c) ELSE None
    BY DEF Store
  <2>2. \A c \in Cells : Store[c] \in Contents \cup {Failed}
    BY <1>2, <2>1, ReadWellTyped
  <2>3. Store \in [Cells -> Contents \cup {Failed}]
    BY <2>2 DEF Store
  <2>4. \A c \in AllStored : Store[c] \in TypeOf(c) \cup {Failed}
    BY <2>1, ReadWellTyped DEF Cells
  <2>5. \A c \in AllDerived : Store[c] \in {None, Failed}
    BY <1>1, <2>1 DEF Cells
  <2> QED BY <2>3, <2>4, <2>5 DEF Stores
<1>4. CommittedStore \in Stores
  <2>1. \A c \in Cells : CommittedStore[c] =
          IF c[1] \notin {App} \cup live THEN Failed ELSE IF c \in AllStored THEN states[c] ELSE None
    BY DEF CommittedStore
  <2>2. \A c \in AllStored : states[c] \in TypeOf(c) /\ states[c] \in Contents
    BY TypeValues DEF Typing
  <2>3. \A c \in Cells : CommittedStore[c] \in Contents \cup {Failed}
    BY <1>2, <2>1, <2>2
  <2>4. CommittedStore \in [Cells -> Contents \cup {Failed}]
    BY <2>3 DEF CommittedStore
  <2>5. \A c \in AllStored : CommittedStore[c] \in TypeOf(c) \cup {Failed}
    BY <2>1, <2>2 DEF Cells
  <2>6. \A c \in AllDerived : CommittedStore[c] \in {None, Failed}
    BY <1>1, <2>1 DEF Cells
  <2> QED BY <2>4, <2>5, <2>6 DEF Stores
<1>5. ASSUME ~active PROVE Store = CommittedStore
  <2>1. writes = <<>> /\ LiveNow = live
    BY <1>5 DEF Fits, Outside, LiveNow
  <2>2. \A c : Exists(c) <=> c[1] \in {App} \cup live
    BY <2>1 DEF Exists
  <2>3. \A c : Read(c) = states[c]
    BY <2>1 DEF Read
  <2> QED BY <2>2, <2>3 DEF Store, CommittedStore
<1> QED BY <1>3, <1>4, <1>5

\* The stores change only with what they are made of.
LEMMA StoreKept ==
  ASSUME UNCHANGED <<states, live, writes, created, deleted>>
  PROVE  Store' = Store /\ CommittedStore' = CommittedStore
<1>1. \A c : (Exists(c))' <=> Exists(c)
  BY DEF Exists, LiveNow
<1>2. \A c : (Read(c))' = Read(c)
  BY DEF Read
<1> QED BY <1>1, <1>2 DEF Store, CommittedStore

\* What an existing cell shows to an evaluation.
LEMMA Shows ==
  ASSUME Consistent, NEW c \in Cells
  PROVE  /\ Exists(c) <=> Store[c] # Failed
         /\ c \in AllDerived => Valid(c) = Cache[c]
         /\ Exists(c) => Seen(Store, Cache)[c] =
              IF c \in AllStored THEN Read(c) ELSE IF Cache[c] = None THEN Failed ELSE Cache[c]
         /\ c \in AllStored => Read(c) # Failed
         /\ Cache \in Caches /\ Store \in Stores /\ Graph \in Edges
<1>1. None # Failed
  BY ValueAssumption
<1>2. Cache \in Caches /\ Store \in Stores /\ Graph \in Edges
  BY DEF Consistent, Layered, Layer
<1>3. c \in AllStored => Read(c) # Failed
  BY ReadWellTyped DEF Consistent
<1>4. Store[c] = IF ~Exists(c) THEN Failed ELSE IF c \in AllStored THEN Read(c) ELSE None
  BY DEF Store
<1>5. c \in AllDerived => Valid(c) = Cache[c]
  BY DEF Valid, Cache
<1>6. Seen(Store, Cache)[c] =
        IF Store[c] = Failed \/ c \in AllStored THEN Store[c] ELSE IF Cache[c] = None THEN Failed ELSE Cache[c]
  BY DEF Seen
<1> QED BY <1>1, <1>2, <1>3, <1>4, <1>5, <1>6

\* The names that are looked up as they stand: an element's own ones, and arguments of its
\* expression.
LEMMA RawNames ==
  ASSUME NEW f, NEW w \in Wanted(f), w.raw
  PROVE  LET e == Formula(f) IN
         /\ f.cell[1] # App
         /\ \/ w.member = e.args[1]
            \/ w.member = e.args[2] /\ e.op \in {"add", "if"}
            \/ w.member = e.args[3] /\ e.op = "if"
<1> DEFINE e == Formula(f)
           n == Len(f.read)
           own(i) == [root |-> f.cell[1], member |-> e.args[i], raw |-> f.cell[1] # App]
           of(x) == [root |-> x, member |-> e.member, raw |-> FALSE]
<1>1. \/ w = own(1)
      \/ w = own(2) /\ e.op = "add"
      \/ (w = own(2) \/ w = own(3)) /\ e.op = "if"
      \/ \E x : w = of(x)
  <2>1. CASE n = 0
    BY <2>1 DEF Wanted
  <2>2. CASE e.op = "add" /\ n = 1
    BY <2>2 DEF Wanted
  <2>3. CASE e.op = "if" /\ n = 1
    BY <2>3 DEF Wanted
  <2>4. CASE n # 0 /\ e.op = "follow"
    BY <2>4 DEF Wanted
  <2>5. CASE n # 0 /\ e.op \notin {"add", "if", "follow"}
    BY <2>5 DEF Wanted
  <2>6. CASE n # 0 /\ n # 1 /\ e.op \in {"add", "if"}
    BY <2>6 DEF Wanted
  <2> QED BY <2>1, <2>2, <2>3, <2>4, <2>5, <2>6
<1>2. \A x : w # of(x)
  OBVIOUS
<1>3. ASSUME NEW i, w = own(i) PROVE w.member = e.args[i] /\ f.cell[1] # App
  <2>1. w.raw = (f.cell[1] # App) /\ w.member = e.args[i]
    BY <1>3
  <2>2. (f.cell[1] # App) = TRUE
    BY <2>1, Zenon
  <2> QED BY <2>1, <2>2
<1> HIDE DEF own, of
<1> QED BY <1>1, <1>2, <1>3

\* Without capture, every name stands for a cell.
LEMMA NeverCaptures ==
  ASSUME NoCapture, Stacked, stack # <<>>, NEW w \in Wanted(Top)
  PROVE  ~Captures(w) /\ ~Shadows(w)
<1> SUFFICES ASSUME Captures(w) \/ Shadows(w) PROVE FALSE
  OBVIOUS
<1>1. PICK i \in 1 .. Len(stack) :
        /\ w.raw
        /\ \/ Formula(stack[i]).op = "sum" /\ Formula(stack[i]).accumulator = w.member
           \/ Formula(stack[i]).op \in {"sum", "filter"} /\ Formula(stack[i]).element = w.member
  BY DEF Captures, Innermost, Reducing, Shadows, Traversing
<1>2. stack[i].cell \in AllDerived /\ stack[i].cell[2] \in Members
  BY Kinds DEF Stacked
<1>3. PICK f : f = Top
  OBVIOUS
<1>4. PICK m, e : m = f.cell[2] /\ e = Expression[m] /\ e = Formula(f)
  BY DEF Formula
<1>5. f.cell \in AllDerived /\ w \in Wanted(f)
  BY <1>3, TopFits
<1>6. /\ f.cell[1] # App
      /\ \/ w.member = e.args[1]
         \/ w.member = e.args[2] /\ e.op \in {"add", "if"}
         \/ w.member = e.args[3] /\ e.op = "if"
  <2>1. w.raw
    BY <1>1
  <2> QED BY <1>4, <1>5, <2>1, RawNames
<1>7. m \in ElementDerived
  BY <1>4, <1>5, <1>6 DEF AllDerived
<1>8. \/ e.op = "add" /\ e.args \in IntMembers \X IntMembers
      \/ e.op = "if" /\ e.args \in IntMembers \X IntMembers \X IntMembers
      \/ e.op = "follow" /\ e.args = <<"selected">> /\ e.member \in IntMembers
      \/ e.op \in {"sum", "filter"} /\ (\E s \in RowMembers : e.args = <<s>>) /\ e.member \in IntMembers
  BY <1>4, <1>7, ProgramAssumption
<1>9. /\ 1 \in DOMAIN e.args
      /\ e.op \in {"add", "if"} => 2 \in DOMAIN e.args
      /\ e.op = "if" => 3 \in DOMAIN e.args
  BY <1>8
<1>10. \E j \in DOMAIN e.args : e.args[j] = w.member
  BY <1>6, <1>9
<1> QED BY <1>1, <1>2, <1>4, <1>7, <1>10 DEF NoCapture, Formula, Members


-----------------------------------------------------------------------------
(* Steps of an evaluation keep caches and answers consistent.              *)

\* An evaluation changes neither store, and only one of the layers.
LEMMA Proceeds ==
  ASSUME Consistent, Fits', UNCHANGED Evaluating,
         active => UNCHANGED <<cached, graph>>,
         Layer(Store, Cache', Graph'), Running(Store, Cache', Graph', stack'),
         stack' # <<>> => answer' = <<>>,
         answer' # <<>> => answer'[2] = Levels(Store)[Depth][answer'[1]]
  PROVE  Consistent'
<1>1. UNCHANGED <<states, live, writes, created, deleted, active>>
  BY DEF Evaluating
<1>2. Store' = Store /\ CommittedStore' = CommittedStore
  BY <1>1, StoreKept
<1>3. Typing'
  BY <1>1 DEF Consistent, Typing
<1>4. Layer(CommittedStore, cached', graph')
  <2>1. CASE active
    BY <2>1 DEF Consistent, Layered
  <2>2. CASE ~active
    <3>1. Store = CommittedStore
      BY <2>2, StoresTyped DEF Consistent
    <3>2. Cache' = cached' /\ Graph' = graph'
      BY <1>1, <2>2 DEF Cache, Graph
    <3> QED BY <3>1, <3>2
  <2> QED BY <2>1, <2>2
<1>5. Layered'
  BY <1>2, <1>4 DEF Layered
<1>6. Answered'
  BY <1>2 DEF Answered, AnswerCorrect, Meaning
<1> QED BY <1>3, <1>5, <1>6 DEF Consistent

\* The stack consists of evaluations, after every step as well.
LEMMA StackFrames ==
  ASSUME NEW k, IsRow(k), NEW n, n = Len(k), \A i \in 1 .. n : k[i] \in Frames
  PROVE  k \in Seq(Frames)
BY DEF IsRow

\* Ask answers from a valid cache, or begins an evaluation.
LEMMA AskConsistent ==
  ASSUME Consistent, Fits', NEW d \in AllDerived, Ask(d)
  PROVE  Consistent'
<1>1. stack = <<>> /\ Exists(d) /\ UNCHANGED Evaluating /\ UNCHANGED <<cached, staged>>
  BY DEF Ask
<1>2. Cache' = Cache /\ d \in Cells
  BY <1>1, Kinds DEF Evaluating, Cache
<1>3. /\ Store[d] # Failed /\ Valid(d) = Cache[d] /\ Cache \in Caches /\ Store \in Stores
      /\ Cache[d] # None => Seen(Store, Cache)[d] = Cache[d]
  BY <1>1, <1>2, Shows, Kinds
<1>4. Layer(Store, Cache, Graph) /\ Running(Store, Cache, Graph, stack)
  BY DEF Consistent, Layered
<1>5. CASE Valid(d) # None
  <2>1. answer' = <<d, Cache[d]>> /\ Graph' = Graph /\ stack' = stack /\ stack' = <<>>
    BY <1>1, <1>3, <1>5 DEF Ask, Graph, Evaluating
  <2>2. Cache[d] # Failed
    BY <1>3, SeenTyped
  <2>3. Levels(Store)[Depth][d] = Cache[d]
    BY <1>2, <1>3, <1>4, <1>5, <2>2, LayerCoherent DEF Below
  <2> QED BY <1>1, <1>2, <1>4, <2>1, <2>3, Proceeds DEF Ask
<1>6. CASE Valid(d) = None
  <2>1. /\ answer' = <<>> /\ stack' = Append(stack, [cell |-> d, read |-> <<>>])
        /\ SetGraph(Unlinked(Graph, d))
    BY <1>6 DEF Ask, Enter
  <2>2. Graph' = Unlinked(Graph, d) /\ (active => UNCHANGED graph)
    BY <1>1, <2>1 DEF SetGraph, Graph, Evaluating
  <2>3. /\ Len(stack) = 0 /\ IsRow(stack') /\ Len(stack') = 1 /\ stack'[1] = [cell |-> d, read |-> <<>>]
    BY <1>1, <2>1, EntersStack DEF Consistent, Fits
  <2>4. stack' \in Seq(Frames)
    <3>1. [cell |-> d, read |-> <<>>] \in Frames
      BY DEF Frames
    <3>2. \A i \in 1 .. 1 : i = 1
      OBVIOUS
    <3>3. \A i \in 1 .. 1 : stack'[i] \in Frames
      BY <2>3, <3>1, <3>2
    <3> QED BY <2>3, <3>3, StackFrames
  <2>5. Layer(Store, Cache, Graph') /\ Running(Store, Cache, Graph', stack')
    <3>1. \A i \in 1 .. Len(stack) : stack[i].cell # d /\ stack'[i] = stack[i]
      BY <2>3
    <3>2. Graph' = Unlinked(IF stack = <<>> THEN Graph ELSE Linked(Graph, stack[Len(stack)].cell, d), d)
      BY <1>1, <2>2
    <3>3. Len(stack') = Len(stack) + 1 /\ stack'[Len(stack) + 1] = [cell |-> d, read |-> <<>>]
      BY <2>3
    <3>4. /\ Cache[d] = None /\ Store[d] # Failed
          /\ stack # <<>> => Asks(stack[Len(stack)]) = {d} /\ ~Overflows(stack[Len(stack)])
      BY <1>1, <1>3, <1>6
    <3> QED BY <1>4, <2>4, <3>1, <3>2, <3>3, <3>4, Pushed
  <2> QED BY <1>1, <1>2, <2>1, <2>2, <2>5, Proceeds
<1> QED BY <1>5, <1>6

\* What the top evaluation asks for.
LEMMA TopAsks ==
  ASSUME NoCapture, Consistent, stack # <<>>, NEW w \in Wanted(Top)
  PROVE  /\ ~Captures(w) /\ ~Shadows(w)
         /\ Asks(Top) = {<<w.root, w.member>>} /\ <<w.root, w.member>> \in Asks(Top)
<1>1. ~Captures(w) /\ ~Shadows(w)
  BY NeverCaptures DEF Consistent, Fits
<1>2. <<w.root, w.member>> \in Asks(Top)
  BY DEF Asks
<1> QED BY <1>1, <1>2, AsksOne

\* ReadName reads what the sight shows, and records the edge.
LEMMA ReadNameConsistent ==
  ASSUME NoCapture, Consistent, Fits', ReadName
  PROVE  Consistent'
<1>1. stack # <<>> /\ ~Overflows(Top) /\ UNCHANGED Evaluating /\ UNCHANGED <<cached, staged, answer>>
  BY DEF ReadName
<1>2. PICK w \in Wanted(Top) :
        LET c == <<w.root, w.member>> IN
        ~Captures(w) =>
          /\ c \in Cells /\ Exists(c)
          /\ c \in AllDerived => Valid(c) # None
          /\ SetGraph(Linked(Graph, Top.cell, c))
          /\ Reads(IF c \in AllStored THEN Read(c) ELSE Valid(c))
  BY DEF ReadName
<1>3. PICK c : c = <<w.root, w.member>>
  OBVIOUS
<1>4. /\ c \in Asks(Top) /\ c \in Cells /\ Exists(c)
      /\ c \in AllDerived => Valid(c) # None
      /\ SetGraph(Linked(Graph, Top.cell, c))
      /\ Reads(IF c \in AllStored THEN Read(c) ELSE Valid(c))
  BY <1>1, <1>2, <1>3, TopAsks
<1>5. PICK v : v = Seen(Store, Cache)[c]
  OBVIOUS
<1>6. v = (IF c \in AllStored THEN Read(c) ELSE Valid(c)) /\ v # Failed
  <2>1. c \notin AllStored => c \in AllDerived
    BY <1>4 DEF Cells
  <2>2. c \in AllDerived => Cache[c] # Failed
    BY <1>4, Shows, SeenTyped
  <2> QED BY <1>4, <1>5, <2>1, <2>2, Shows
<1>7. /\ Graph' = Linked(Graph, Top.cell, c) /\ Cache' = Cache
      /\ active => UNCHANGED <<cached, graph>>
  BY <1>1, <1>4 DEF SetGraph, Graph, Cache, Evaluating
<1>8. Layer(Store, Cache, Graph) /\ Running(Store, Cache, Graph, stack) /\ Top = stack[Len(stack)]
  BY DEF Consistent, Layered, Top
<1>9. Reads(v) /\ Stacked
  BY <1>4, <1>6 DEF Consistent, Fits
<1>10. PICK n \in Nat : n = Len(stack) /\ n \in 1 .. n
  BY <1>1, <1>9, TopFits
<1>11. /\ IsRow(stack') /\ Len(stack') = n
       /\ \A i \in 1 .. n : stack'[i] = IF i = n THEN Given(stack[i], v) ELSE stack[i]
  BY <1>1, <1>9, <1>10, ReadsStack
<1>12. stack' \in Seq(Frames)
  <2>1. \A i \in 1 .. n : stack[i] \in Frames
    BY <1>8, <1>10 DEF Running, Evaluates, Typed
  <2>2. v \in Contents
    <3>1. Seen(Store, Cache) \in Sights
      BY <1>4, Shows, SeenTyped
    <3> QED BY <1>4, <1>5, <1>6, <3>1 DEF Sights
  <2>3. \A f \in Frames : Given(f, v) \in Frames
    BY <2>2 DEF Given, Frames
  <2>4. \A i \in 1 .. n : stack'[i] \in Frames
    BY <1>11, <2>1, <2>3
  <2> QED BY <1>11, <2>4, StackFrames
<1>13. Layer(Store, Cache, Graph') /\ Running(Store, Cache, Graph', stack')
  <2>1. \A i \in 1 .. n - 1 : i \in 1 .. n /\ i # n
    OBVIOUS
  <2>2. \A i \in 1 .. Len(stack) - 1 : stack'[i] = stack[i]
    BY <1>10, <1>11, <2>1
  <2>3. stack'[Len(stack)] = Given(Top, Seen(Store, Cache)[c]) /\ Len(stack') = Len(stack)
    BY <1>5, <1>8, <1>10, <1>11
  <2> QED BY <1>1, <1>4, <1>5, <1>6, <1>7, <1>8, <1>12, <2>2, <2>3, ReadOn, ZenonT(30)
<1>14. answer' = <<>>
  BY <1>1 DEF Consistent, Answered
<1> QED BY <1>1, <1>7, <1>13, <1>14, Proceeds


\* EnterDerived begins the evaluation that the top waits for.
LEMMA EnterDerivedConsistent ==
  ASSUME NoCapture, Consistent, Fits', EnterDerived
  PROVE  Consistent'
<1>1. stack # <<>> /\ ~Overflows(Top) /\ UNCHANGED Evaluating /\ UNCHANGED <<cached, staged, answer>>
  BY DEF EnterDerived
<1>2. PICK w \in Wanted(Top) :
        LET c == <<w.root, w.member>> IN
        /\ c \in AllDerived /\ Exists(c)
        /\ Valid(c) = None /\ ~Cyclic(c)
        /\ Enter(c, Linked(Graph, Top.cell, c))
  BY DEF EnterDerived
<1>3. PICK d : d = <<w.root, w.member>>
  OBVIOUS
<1>4. /\ Asks(Top) = {d} /\ d \in AllDerived /\ Exists(d) /\ Valid(d) = None /\ ~Cyclic(d)
      /\ Enter(d, Linked(Graph, Top.cell, d))
  BY <1>1, <1>2, <1>3, TopAsks
<1>5. Store[d] # Failed /\ Cache[d] = None
  BY <1>4, Shows, Kinds
<1>6. /\ Graph' = Unlinked(Linked(Graph, Top.cell, d), d) /\ Cache' = Cache
      /\ active => UNCHANGED <<cached, graph>>
  BY <1>1, <1>4 DEF Enter, SetGraph, Graph, Cache, Evaluating
<1>7. Layer(Store, Cache, Graph) /\ Running(Store, Cache, Graph, stack) /\ Top = stack[Len(stack)]
  BY DEF Consistent, Layered, Top
<1>8. PICK n \in Nat : n = Len(stack)
  BY <1>1, TopFits DEF Consistent, Fits
<1>9. /\ IsRow(stack') /\ Len(stack') = n + 1 /\ stack'[n + 1] = [cell |-> d, read |-> <<>>]
      /\ \A i \in 1 .. n : stack'[i] = stack[i]
  BY <1>4, <1>8, EntersStack DEF Consistent, Fits, Enter
<1>10. stack' \in Seq(Frames)
  <2>1. \A i \in 1 .. n : stack[i] \in Frames
    BY <1>7, <1>8 DEF Running, Evaluates, Typed
  <2>2. [cell |-> d, read |-> <<>>] \in Frames
    BY <1>4 DEF Frames
  <2>3. \A i \in 1 .. n + 1 : i = n + 1 \/ i \in 1 .. n
    OBVIOUS
  <2>4. \A i \in 1 .. n + 1 : stack'[i] \in Frames
    BY <1>9, <2>1, <2>2, <2>3
  <2> QED BY <1>9, <2>4, StackFrames
<1>11. Layer(Store, Cache, Graph') /\ Running(Store, Cache, Graph', stack')
  <2>1. \A i \in 1 .. Len(stack) : stack[i].cell # d /\ stack'[i] = stack[i]
    BY <1>4, <1>8, <1>9 DEF Cyclic
  <2>2. Graph' = Unlinked(IF stack = <<>> THEN Graph ELSE Linked(Graph, stack[Len(stack)].cell, d), d)
    BY <1>1, <1>6, <1>7
  <2>3. Len(stack') = Len(stack) + 1 /\ stack'[Len(stack) + 1] = [cell |-> d, read |-> <<>>]
    BY <1>8, <1>9
  <2>4. Asks(stack[Len(stack)]) = {d} /\ ~Overflows(stack[Len(stack)])
    BY <1>1, <1>4, <1>7
  <2> QED BY <1>4, <1>5, <1>7, <1>10, <2>1, <2>2, <2>3, <2>4, Pushed
<1>12. answer' = <<>>
  BY <1>1 DEF Consistent, Answered
<1> QED BY <1>1, <1>6, <1>11, <1>12, Proceeds

\* Finish caches the outcome of the cell, and answers with it.
LEMMA FinishConsistent ==
  ASSUME Consistent, Fits', Finish
  PROVE  Consistent'
<1>1. UNCHANGED Evaluating /\ UNCHANGED <<graph, stagedGraph>>
  BY DEF Finish
<1>2. PICK f, v : f = Top /\ v = Result(Top)
  OBVIOUS
<1>3. /\ Hands(v) /\ f.cell \in AllDerived
      /\ stack # <<>> /\ ~Overflows(f) /\ Wanted(f) = {}
      /\ IF active
         THEN staged' = [staged EXCEPT ![f.cell] = v] /\ UNCHANGED cached
         ELSE cached' = [cached EXCEPT ![f.cell] = v] /\ UNCHANGED staged
      /\ \/ answer' = answer
         \/ answer' = <<f.cell, v>> /\ stack' = <<>>
  BY <1>2, Finishes DEF Consistent, Fits
<1>4. Layer(Store, Cache, Graph) /\ Running(Store, Cache, Graph, stack) /\ f = stack[Len(stack)] /\ v = Result(f)
  BY <1>2 DEF Consistent, Layered, Top
<1>5. v \in TypeOf(f.cell) /\ v \in Contents
  BY <1>3, <1>4, TopFinished
<1>6. /\ Cache' = [Cache EXCEPT ![f.cell] = v] /\ Graph' = Graph
      /\ active => UNCHANGED <<cached, graph>>
  BY <1>1, <1>3 DEF Cache, Graph, Evaluating
<1>7. Cache' \in Caches /\ Cache'[f.cell] = v /\ \A e \in AllDerived : e # f.cell => Cache'[e] = Cache[e]
  <2>1. Cache \in [AllDerived -> Contents] /\ \A d \in AllDerived : Cache[d] \in TypeOf(d) \cup {None}
    BY <1>4 DEF Layer, Caches
  <2>2. /\ Cache' \in [AllDerived -> Contents] /\ Cache'[f.cell] = v
        /\ \A e \in AllDerived : e # f.cell => Cache'[e] = Cache[e]
    BY <1>3, <1>5, <1>6, <2>1
  <2> QED BY <1>5, <2>1, <2>2 DEF Caches
<1>8. PICK n \in Nat : n = Len(stack) /\ n \in 1 .. n
  BY <1>3, TopFits DEF Consistent, Fits
<1>9. PICK m \in Nat : m = n - 1 /\ \A i \in 1 .. m : i \in 1 .. n
  BY <1>8
<1>10. /\ IsRow(stack') /\ Len(stack') = m
       /\ \A i \in 1 .. m : stack'[i] = IF i = m THEN Given(stack[i], v) ELSE stack[i]
  BY <1>3, <1>8, <1>9, PopsStack DEF Consistent, Fits
<1>11. stack' \in Seq(Frames)
  <2>1. \A i \in 1 .. m : stack[i] \in Frames
    BY <1>4, <1>8, <1>9 DEF Running, Evaluates, Typed
  <2>2. \A g \in Frames : Given(g, v) \in Frames
    BY <1>5 DEF Given, Frames
  <2>3. \A i \in 1 .. m : stack'[i] \in Frames
    BY <1>10, <2>1, <2>2
  <2> QED BY <1>10, <2>3, StackFrames
<1>12. /\ Layer(Store, Cache', Graph) /\ Running(Store, Cache', Graph, stack')
       /\ Levels(Store)[Depth][f.cell] = v
  <2>1. Len(stack') = Len(stack) - 1
    BY <1>8, <1>9, <1>10
  <2>2. \A i \in 1 .. Len(stack) - 1 :
          stack'[i] = IF i = Len(stack) - 1 THEN Given(stack[i], Result(f)) ELSE stack[i]
    BY <1>4, <1>8, <1>9, <1>10
  <2>3. Cache'[f.cell] = Result(f)
    BY <1>4, <1>7
  <2> QED BY <1>3, <1>4, <1>7, <1>11, <2>1, <2>2, <2>3, Popped
<1>13. answer = <<>>
  BY <1>3 DEF Consistent, Answered
<1>14. /\ stack' # <<>> => answer' = <<>>
       /\ answer' # <<>> => answer'[2] = Levels(Store)[Depth][answer'[1]]
  BY <1>3, <1>12, <1>13
<1> QED BY <1>1, <1>6, <1>12, <1>14, Proceeds

\* A layer without cached values, as a transaction starts with.
LEMMA LayerEmpty ==
  ASSUME NEW store \in Stores
  PROVE  Layer(store, Unset, NoEdges)
<1>1. Unset \in Caches
  BY DEF Unset, Caches, Contents
<1>2. \A d \in AllDerived : Unset[d] = None
  BY DEF Unset
<1>3. Exact(store, Unset, NoEdges)
  BY <1>2 DEF Exact
<1>4. Grounded(Unset, NoEdges)
  BY <1>2 DEF Grounded
<1> QED BY <1>1, <1>3, <1>4, NoEdgesTyped DEF Layer

\* Without an evaluation nothing is under way.
LEMMA RunningNone ==
  ASSUME NEW store, NEW cache, NEW g, NEW k, k = <<>>
  PROVE  Running(store, cache, g, k)
<1>1. k \in Seq(Frames) /\ Len(k) = 0
  OBVIOUS
<1> QED BY <1>1 DEF Running

\* A dropped transaction leaves the committed layer as the only one.
LEMMA DroppedConsistent ==
  ASSUME Consistent, Fits', Dropped, UNCHANGED <<committed, used>>, stack' = <<>>, answer' = <<>>
  PROVE  Consistent'
<1>1. UNCHANGED <<states, live, cached, graph>> /\ writes' = <<>> /\ active' = FALSE
  BY DEF Dropped, committed
<1>2. Typing'
  BY <1>1 DEF Consistent, Typing
<1>3. CommittedStore' = CommittedStore
  BY <1>1 DEF CommittedStore
<1>4. (Store \in Stores /\ CommittedStore \in Stores /\ (~active => Store = CommittedStore))'
  BY <1>2, StoresTyped, PTL
<1>5. Store' = CommittedStore /\ Cache' = cached /\ Graph' = graph
  BY <1>1, <1>3, <1>4 DEF Cache, Graph
<1>6. Layered'
  BY <1>1, <1>3, <1>5, RunningNone DEF Consistent, Layered
<1> QED BY <1>2, <1>6 DEF Consistent, Answered, AnswerCorrect

\* The cell at the bottom of a stack that cannot go on has no meaning.
LEMMA FailureMeant ==
  ASSUME NoCapture, Consistent, FailEvaluation
  PROVE  MeaningOf(Store)[stack[1].cell] = Failed
<1>1. stack # <<>>
  BY DEF FailEvaluation
<1>2. Layer(Store, Cache, Graph) /\ Running(Store, Cache, Graph, stack) /\ Top = stack[Len(stack)]
  BY DEF Consistent, Layered, Top
<1>3. PICK f : f = Top
  OBVIOUS
<1>4. Stuck(f, Store, stack)
  <2>1. CASE ~Overflows(Top)
    <3>1. PICK w \in Wanted(Top) :
            LET c == <<w.root, w.member>> IN
            Shadows(w) \/ c \notin Cells \/ ~Exists(c) \/ Cyclic(c)
      BY <2>1 DEF FailEvaluation
    <3>2. PICK c : c = <<w.root, w.member>>
      OBVIOUS
    <3>3. c \in Asks(Top) /\ (c \notin Cells \/ ~Exists(c) \/ Cyclic(c))
      BY <1>1, <3>1, <3>2, TopAsks
    <3> QED BY <1>3, <3>3, Shows DEF Cyclic, Stuck
  <2> QED BY <1>3, <2>1 DEF Stuck
<1>5. f = stack[Len(stack)] /\ 1 \in 1 .. Len(stack)
  BY <1>1, <1>3, TopFits DEF Consistent, Fits
<1>6. \A i \in 1 .. Len(stack) : Levels(Store)[Depth][stack[i].cell] = Failed
  BY <1>1, <1>2, <1>4, <1>5, StuckFails
<1> QED BY <1>5, <1>6 DEF MeaningOf

\* FailEvaluation answers a failure where the definition has none but a failure.
LEMMA FailEvaluationConsistent ==
  ASSUME NoCapture, Consistent, Fits', FailEvaluation
  PROVE  Consistent'
<1>1. CASE active
  BY <1>1, DroppedConsistent DEF FailEvaluation
<1>2. CASE ~active
  <2>1. /\ UNCHANGED <<committed, used, active, overlay>> /\ stack' = <<>> /\ stack # <<>>
        /\ answer' = <<stack[1].cell, Failed>>
    BY <1>2 DEF FailEvaluation
  <2>2. UNCHANGED Evaluating /\ Cache' = Cache /\ Graph' = Graph
    BY <2>1 DEF committed, overlay, Evaluating, Cache, Graph
  <2>3. Layer(Store, Cache, Graph)
    BY DEF Consistent, Layered
  <2>4. Levels(Store)[Depth][stack[1].cell] = Failed
    BY FailureMeant DEF MeaningOf
  <2>5. Layer(Store, Cache', Graph') /\ Running(Store, Cache', Graph', stack')
    BY <2>1, <2>2, <2>3, RunningNone
  <2> QED BY <1>2, <2>1, <2>2, <2>4, <2>5, Proceeds
<1> QED BY <1>1, <1>2


-----------------------------------------------------------------------------
(* Steps of the transaction keep caches and answers consistent.            *)

\* A transaction begins with what is committed, and with nothing staged.
LEMMA RunActionConsistent ==
  ASSUME Consistent, Fits', RunAction
  PROVE  Consistent'
<1>1. /\ stack = <<>> /\ ~active /\ active' = TRUE /\ answer' = <<>>
      /\ UNCHANGED <<states, live, cached, graph, writes, created, deleted, staged, stagedGraph, stack>>
  BY DEF RunAction, Idle, Quiet, committed, overlay
<1>2. staged = Unset /\ stagedGraph = NoEdges
  BY <1>1 DEF Consistent, Fits, Outside
<1>3. Store' = Store /\ CommittedStore' = CommittedStore /\ Store \in Stores
  BY <1>1, StoreKept, StoresTyped DEF Consistent
<1>4. Cache' = Unset /\ Graph' = NoEdges
  BY <1>1, <1>2 DEF Cache, Graph
<1>5. Layered'
  BY <1>1, <1>3, <1>4, LayerEmpty, RunningNone DEF Consistent, Layered
<1>6. Typing' /\ Answered'
  BY <1>1 DEF Consistent, Typing, Answered, AnswerCorrect
<1> QED BY <1>5, <1>6 DEF Consistent

\* Fail drops the transaction.
LEMMA FailConsistent ==
  ASSUME Consistent, Fits', Fail
  PROVE  Consistent'
BY DroppedConsistent DEF Fail, Idle, Quiet

\* The cells that a valid cell hangs on exist, and have a value where they are derived.
LEMMA Footing ==
  ASSUME NEW store, NEW cache, NEW g, Layer(store, cache, g),
         NEW d \in AllDerived, cache[d] # None, NEW c \in g.deps[d]
  PROVE  /\ c \in Cells /\ store[c] # Failed /\ d \in g.watchers[c]
         /\ c \in AllDerived => cache[c] # None
<1>1. /\ g.deps[d] = Footprint(d, Seen(store, cache)) /\ Outcome(d, Seen(store, cache)) = cache[d]
      /\ d \in g.watchers[c] /\ store \in Stores /\ cache \in Caches
  BY DEF Layer, Exact
<1>2. Seen(store, cache) \in Sights /\ cache[d] # Failed
  BY <1>1, SeenTyped
<1>3. c \in Cells /\ Seen(store, cache)[c] # Failed
  BY <1>1, <1>2, OutcomeTyped
<1>4. Seen(store, cache)[c] = IF store[c] = Failed \/ c \in AllStored THEN store[c]
                              ELSE IF cache[c] = None THEN Failed ELSE cache[c]
  BY <1>3 DEF Seen
<1>5. c \in AllDerived => c \notin AllStored
  BY Kinds
<1> QED BY <1>1, <1>3, <1>4, <1>5

\* What is downstream of C takes in the watchers of C, and of itself inside T.
LEMMA DownstreamClosed ==
  ASSUME NEW C \in SUBSET Cells, NEW g \in Edges, NEW T, NEW c \in C \cup (Downstream(C, g, T) \cap T)
  PROVE  g.watchers[c] \subseteq Downstream(C, g, T)
<1>1. Downstream(C, g, T) \subseteq Cells
  BY Kinds DEF Downstream
<1>2. g.watchers[c] \subseteq AllDerived
  BY <1>1 DEF Edges
<1>3. ASSUME NEW S \in SUBSET AllDerived, \A x \in C \cup (S \cap T) : g.watchers[x] \subseteq S
      PROVE  g.watchers[c] \subseteq S
  <2>1. CASE c \in C
    BY <1>3, <2>1
  <2>2. CASE c \in Downstream(C, g, T) /\ c \in T
    <3>1. c \in S
      BY <1>3, <2>2 DEF Downstream
    <3> QED BY <1>3, <2>2, <3>1
  <2> QED BY <2>1, <2>2
<1> QED BY <1>2, <1>3 DEF Downstream

\* What a transaction invalidates: everything downstream of C in its own edges.
LEMMA InvalidatedKeeps ==
  ASSUME Consistent, active, NEW C \in SUBSET Cells, NEW d \in AllDerived, Invalidated(C)[d] # None
  PROVE  /\ Invalidated(C)[d] = staged[d]
         /\ \A c \in stagedGraph.deps[d] :
              /\ c \notin C /\ c \in Cells /\ Store[c] # Failed /\ d \in stagedGraph.watchers[c]
              /\ c \in AllDerived => Invalidated(C)[c] = staged[c]
<1>1. Layer(Store, staged, stagedGraph) /\ stagedGraph \in Edges
  BY DEF Consistent, Layered, Cache, Graph, Layer
<1>2. PICK D : D = Downstream(C, stagedGraph, AllDerived)
  OBVIOUS
<1>3. \A e \in AllDerived : Invalidated(C)[e] = IF e \in D THEN None ELSE staged[e]
  BY <1>2 DEF Invalidated
<1>4. D \subseteq AllDerived /\ \A c \in C \cup D : stagedGraph.watchers[c] \subseteq D
  <2>1. D \subseteq AllDerived
    BY <1>2 DEF Downstream
  <2> QED BY <1>1, <1>2, <2>1, DownstreamClosed
<1>5. d \notin D /\ staged[d] # None
  BY <1>3
<1>6. ASSUME NEW c \in stagedGraph.deps[d]
      PROVE  c \notin C /\ c \notin D /\ c \in Cells /\ Store[c] # Failed /\ d \in stagedGraph.watchers[c]
  <2>1. c \in Cells /\ Store[c] # Failed /\ d \in stagedGraph.watchers[c]
    BY <1>1, <1>5, Footing
  <2> QED BY <1>4, <1>5, <2>1
<1> QED BY <1>3, <1>5, <1>6

\* A step of an open transaction that leaves the committed layer alone.
LEMMA Rewrites ==
  ASSUME Consistent, Fits', active, stack = <<>>, Typing',
         UNCHANGED <<states, live, cached, graph, active, stack>>, answer' = <<>>,
         staged' \in Caches,
         \A d \in AllDerived : staged'[d] # None =>
           /\ Exists(d) /\ (Exists(d))' /\ staged'[d] = staged[d] /\ stagedGraph'.deps[d] = stagedGraph.deps[d]
           /\ \A c \in stagedGraph.deps[d] :
                /\ d \in stagedGraph'.watchers[c] /\ Store'[c] = Store[c]
                /\ c \in AllDerived => staged'[c] = staged[c]
  PROVE  Consistent'
<1>1. CommittedStore' = CommittedStore /\ Cache' = staged' /\ Graph' = stagedGraph'
  BY DEF CommittedStore, Cache, Graph
<1>2. Layer(Store, staged, stagedGraph)
  BY DEF Consistent, Layered, Cache, Graph
<1>3. (Store \in Stores /\ CommittedStore \in Stores /\ (~active => Store = CommittedStore))'
  BY StoresTyped, PTL
<1>4. stagedGraph' \in Edges
  BY DEF Fits, Cached
<1>5. \A d \in AllDerived : staged'[d] # None => Store'[d] # Failed
  <2>1. \A d \in AllDerived : d \in Cells /\ d \notin AllStored
    BY Kinds
  <2>2. None # Failed
    BY ValueAssumption
  <2> QED BY <2>1, <2>2 DEF Store
<1>6. Layer(Store', staged', stagedGraph')
  BY <1>2, <1>3, <1>4, <1>5, LayerWeakened
<1>7. Layered'
  BY <1>1, <1>6, RunningNone DEF Consistent, Layered
<1>8. Answered'
  BY DEF Answered, AnswerCorrect
<1> QED BY <1>7, <1>8 DEF Consistent

\* Values that a statement assigns have the type of the cell.
LEMMA ValuesTyped ==
  ASSUME Fits, NEW c \in AllStored, NEW v \in Values(c)
  PROVE  v \in TypeOf(c)
<1>1. LiveNow \subseteq Identities
  BY DEF Fits, Populations, LiveNow
<1>2. CASE c[2] = "members"
  <2>1. v \in BoundedSeq(LiveNow, MaxLength)
    BY <1>2 DEF Values, Assignable
  <2>2. v \in Seq(LiveNow) /\ Len(v) <= MaxLength
    BY <2>1, ValueAssumption DEF BoundedSeq, SeqOf
  <2>3. v \in Seq(Identities)
    BY <1>1, <2>2
  <2> QED BY <1>2, <2>2, <2>3, RowsBounded DEF TypeOf, RowMembers
<1>3. CASE c[2] = "selected"
  BY <1>1, <1>3, Kinds DEF Values, Assignable, TypeOf
<1>4. CASE c[2] \notin {"members", "selected"}
  <2>1. v \in Int
    BY <1>4, ValueAssumption DEF Values, Assignable
  <2>2. c[2] \in IntMembers
    BY <1>4, ProgramAssumption DEF AllStored, IntMembers
  <2> QED BY <1>4, <2>1, <2>2, Kinds DEF TypeOf
<1> QED BY <1>2, <1>3, <1>4

\* Write invalidates everything that depends on the written cell.
LEMMA WriteConsistent ==
  ASSUME Consistent, Fits', NEW c \in AllStored, NEW v \in Values(c), Write(c, v)
  PROVE  Consistent'
<1>1. /\ stack = <<>> /\ active /\ answer' = <<>> /\ Exists(c)
      /\ UNCHANGED <<states, live, cached, graph, stack, active, created, deleted, stagedGraph>>
      /\ writes' = [n \in {c} \cup DOMAIN writes |-> IF n = c THEN v ELSE writes[n]]
      /\ staged' = Invalidated({c})
  BY DEF Write, Idle, Quiet, committed
<1>2. v \in TypeOf(c)
  BY ValuesTyped DEF Consistent
<1>3. Typing'
  BY <1>1, <1>2 DEF Consistent, Typing
<1>4. c \in Cells /\ \A x : (Exists(x))' <=> Exists(x)
  BY <1>1 DEF Cells, Exists, LiveNow
<1>5. \A x \in Cells : x # c => Store'[x] = Store[x]
  <2>1. \A x : x # c => (Read(x))' = Read(x)
    BY <1>1 DEF Read
  <2> QED BY <1>4, <2>1 DEF Store
<1>6. staged \in Caches
  BY <1>1 DEF Consistent, Layered, Layer, Cache
<1>7. staged' \in Caches
  <2>1. \A d \in AllDerived : staged'[d] = None \/ staged'[d] = staged[d]
    BY <1>1, InvalidatedTyped DEF Consistent, Fits
  <2>2. staged' = [d \in AllDerived |-> staged'[d]]
    BY <1>1 DEF Invalidated
  <2>3. None \in Contents
    BY DEF Contents
  <2>4. \A d \in AllDerived : staged'[d] \in Contents /\ staged'[d] \in TypeOf(d) \cup {None}
    BY <1>6, <2>1, <2>3 DEF Caches
  <2> QED BY <2>2, <2>4 DEF Caches
<1>8. ASSUME NEW d \in AllDerived, staged'[d] # None
      PROVE  /\ Exists(d) /\ (Exists(d))' /\ staged'[d] = staged[d] /\ stagedGraph'.deps[d] = stagedGraph.deps[d]
             /\ \A x \in stagedGraph.deps[d] :
                  /\ d \in stagedGraph'.watchers[x] /\ Store'[x] = Store[x]
                  /\ x \in AllDerived => staged'[x] = staged[x]
  <2>1. /\ staged'[d] = staged[d]
        /\ \A x \in stagedGraph.deps[d] :
             /\ x # c /\ x \in Cells /\ d \in stagedGraph.watchers[x]
             /\ x \in AllDerived => staged'[x] = staged[x]
    <3>1. PICK C \in SUBSET Cells : C = {c}
      BY <1>4
    <3>2. staged' = Invalidated(C) /\ Invalidated(C)[d] # None
      BY <1>1, <1>8, <3>1
    <3>3. /\ Invalidated(C)[d] = staged[d]
          /\ \A x \in stagedGraph.deps[d] :
               /\ x \notin C /\ x \in Cells /\ d \in stagedGraph.watchers[x]
               /\ x \in AllDerived => Invalidated(C)[x] = staged[x]
      BY <1>1, <3>2, InvalidatedKeeps
    <3> QED BY <3>1, <3>2, <3>3
  <2>2. Exists(d)
    BY <1>8, <2>1 DEF Consistent, Fits, Cached
  <2> QED BY <1>1, <1>4, <1>5, <2>1, <2>2
<1> QED BY <1>1, <1>3, <1>7, <1>8, Rewrites

\* Create shows new cells, on which no valid cell hangs.
LEMMA CreateConsistent ==
  ASSUME Consistent, Fits', NEW x \in Identities, Create(x)
  PROVE  Consistent'
<1>1. /\ stack = <<>> /\ active /\ answer' = <<>> /\ x \notin used
      /\ UNCHANGED <<states, live, cached, graph, stack, active, writes, deleted, staged, stagedGraph>>
      /\ created' = created \cup {x}
  BY DEF Create, Idle, committed
<1>2. Typing'
  BY <1>1 DEF Consistent, Typing
<1>3. \A c : Exists(c) => (Exists(c))'
  BY <1>1 DEF Consistent, Fits, Populations, Exists, LiveNow
<1>4. \A c \in Cells : Store[c] # Failed => Store'[c] = Store[c]
  <2>1. \A c : (Read(c))' = Read(c)
    BY <1>1 DEF Read
  <2> QED BY <1>3, <2>1 DEF Store
<1>5. staged \in Caches /\ Layer(Store, staged, stagedGraph)
  BY <1>1 DEF Consistent, Layered, Layer, Cache, Graph
<1>6. ASSUME NEW d \in AllDerived, staged'[d] # None
      PROVE  /\ Exists(d) /\ (Exists(d))' /\ staged'[d] = staged[d] /\ stagedGraph'.deps[d] = stagedGraph.deps[d]
             /\ \A c \in stagedGraph.deps[d] :
                  /\ d \in stagedGraph'.watchers[c] /\ Store'[c] = Store[c]
                  /\ c \in AllDerived => staged'[c] = staged[c]
  <2>1. staged[d] # None
    BY <1>1, <1>6
  <2>2. \A c \in stagedGraph.deps[d] : c \in Cells /\ Store[c] # Failed /\ d \in stagedGraph.watchers[c]
    BY <1>5, <2>1, Footing
  <2>3. Exists(d)
    BY <2>1 DEF Consistent, Fits, Cached
  <2> QED BY <1>1, <1>3, <1>4, <2>2, <2>3
<1> QED BY <1>1, <1>2, <1>5, <1>6, Rewrites


\* Destroy invalidates everything that depends on what names the identity or is part of it.
LEMMA DestroyConsistent ==
  ASSUME Consistent, Fits', NEW x \in Identities, Destroy(x)
  PROVE  Consistent'
<1>1. /\ UNCHANGED <<states, live, cached, graph, stack, active, created>> /\ answer' = <<>>
      /\ deleted' = deleted \cup {x} /\ active /\ stack = <<>>
  BY DEF Destroy, Quiet, committed, Idle
<1> DEFINE own == CellsOf({x})
           naming == {c \in {App} \X AppLinks :
                        IF c[2] = "members" THEN x \in ToSet(Read(c)) ELSE Read(c) = x}
           rewritten(c) ==
             IF c[2] = "members" THEN At(Read(c), {i \in DOMAIN Read(c) : Read(c)[i] # x}) ELSE None
           kept == DOMAIN writes \ own
<1>2. naming \subseteq AllStored /\ \A c \in naming : c[1] = App /\ c[2] \in {"members", "selected"}
  BY ProgramAssumption DEF AllStored
<1>3. \A c \in naming : rewritten(c) \in TypeOf(c)
  <2> SUFFICES ASSUME NEW c \in naming PROVE rewritten(c) \in TypeOf(c)
    OBVIOUS
  <2>1. c \in AllStored /\ c[2] \in {"members", "selected"}
    BY <1>2
  <2> HIDE DEF naming
  <2>2. CASE c[2] = "members"
    <3>1. Read(c) \in Rows /\ TypeOf(c) = Rows
      BY <2>1, <2>2, ReadWellTyped DEF Consistent, TypeOf, RowMembers
    <3>2. PICK s, P : s = Read(c) /\ P = {i \in DOMAIN Read(c) : Read(c)[i] # x}
      OBVIOUS
    <3>3. s \in Seq(Identities) /\ Len(s) \in 0 .. MaxLength
      BY <3>1, <3>2, RowsShape
    <3>4. At(s, P) \in Seq(Identities) /\ Len(At(s, P)) <= Len(s)
      BY <3>3, AtTyped
    <3>5. PICK n \in Nat : n = Len(At(s, P))
      BY <3>4
    <3>6. n <= MaxLength
      BY <3>3, <3>4, <3>5, ValueAssumption
    <3>7. At(s, P) \in Rows
      BY <3>4, <3>5, <3>6, RowsBounded
    <3> QED BY <2>2, <3>1, <3>2, <3>7
  <2>3. CASE c[2] # "members"
    BY <2>1, <2>3, Kinds DEF TypeOf
  <2> QED BY <2>2, <2>3
<1>4. /\ DOMAIN writes' = naming \cup kept
      /\ \A c \in naming : writes'[c] = rewritten(c)
      /\ \A c \in kept : c \notin naming => writes'[c] = writes[c]
  BY DEF Destroy
<1>5. /\ staged' = [d \in AllDerived |-> IF d \in own THEN None ELSE Invalidated(naming \cup own)[d]]
      /\ stagedGraph'.deps = [d \in AllDerived |-> IF d \in own THEN {} ELSE stagedGraph.deps[d]]
      /\ stagedGraph'.watchers =
           [c \in Cells |-> stagedGraph.watchers[c] \ {d \in own : d \in AllDerived /\ c \in stagedGraph.deps[d]}]
  BY DEF Destroy
<1>6. own \subseteq Cells /\ \A c \in Cells : c \in own <=> c[1] = x
  BY DEF CellsOf
<1> HIDE DEF naming, rewritten, own
<1>7. Typing'
  BY <1>1, <1>3, <1>4 DEF Consistent, Typing
<1>8. \A c \in Cells : c \notin naming \cup own => Store'[c] = Store[c]
  <2>1. \A c \in Cells : c \notin own => ((Exists(c))' <=> Exists(c))
    BY <1>1, <1>6 DEF Exists, LiveNow
  <2>2. \A c \in Cells : c \notin naming \cup own => (Read(c))' = Read(c)
    BY <1>1, <1>4 DEF Read
  <2> QED BY <2>1, <2>2 DEF Store
<1>9. PICK C \in SUBSET Cells : C = naming \cup own
  BY <1>2, <1>6 DEF Cells
<1>10. staged \in Caches
  BY <1>1 DEF Consistent, Layered, Layer, Cache
<1>11. \A d \in AllDerived : staged'[d] = IF d \in own THEN None ELSE Invalidated(C)[d]
  BY <1>5, <1>9
<1>12. staged' \in Caches
  <2>1. \A d \in AllDerived : staged'[d] = None \/ staged'[d] = staged[d]
    BY <1>11, InvalidatedTyped DEF Consistent, Fits
  <2>2. staged' = [d \in AllDerived |-> staged'[d]]
    BY <1>5
  <2>3. None \in Contents
    BY DEF Contents
  <2>4. \A d \in AllDerived : staged'[d] \in Contents /\ staged'[d] \in TypeOf(d) \cup {None}
    BY <1>10, <2>1, <2>3 DEF Caches
  <2> QED BY <2>2, <2>4 DEF Caches
<1>13. ASSUME NEW d \in AllDerived, staged'[d] # None
       PROVE  /\ Exists(d) /\ (Exists(d))' /\ staged'[d] = staged[d] /\ stagedGraph'.deps[d] = stagedGraph.deps[d]
              /\ \A c \in stagedGraph.deps[d] :
                   /\ d \in stagedGraph'.watchers[c] /\ Store'[c] = Store[c]
                   /\ c \in AllDerived => staged'[c] = staged[c]
  <2>1. d \notin own /\ staged'[d] = Invalidated(C)[d] /\ Invalidated(C)[d] # None
    BY <1>11, <1>13
  <2>2. /\ Invalidated(C)[d] = staged[d]
        /\ \A c \in stagedGraph.deps[d] :
             /\ c \notin C /\ c \in Cells /\ d \in stagedGraph.watchers[c]
             /\ c \in AllDerived => Invalidated(C)[c] = staged[c]
    BY <1>1, <2>1, InvalidatedKeeps
  <2>3. Exists(d) /\ (Exists(d))'
    <3>1. Exists(d)
      BY <2>1, <2>2 DEF Consistent, Fits, Cached
    <3>2. d[1] # x
      BY <1>6, <2>1, Kinds
    <3> QED BY <1>1, <3>1, <3>2 DEF Exists, LiveNow
  <2>4. stagedGraph'.deps[d] = stagedGraph.deps[d]
    BY <1>5, <2>1
  <2>5. ASSUME NEW c \in stagedGraph.deps[d]
        PROVE  /\ d \in stagedGraph'.watchers[c] /\ Store'[c] = Store[c]
               /\ c \in AllDerived => staged'[c] = staged[c]
    <3>1. /\ c \notin naming \cup own /\ c \in Cells /\ d \in stagedGraph.watchers[c]
          /\ c \in AllDerived => Invalidated(C)[c] = staged[c]
      BY <1>9, <2>2
    <3>2. d \in stagedGraph'.watchers[c]
      BY <1>5, <2>1, <3>1
    <3> QED BY <1>8, <1>11, <3>1, <3>2
  <2> QED BY <2>1, <2>2, <2>3, <2>4, <2>5
<1> QED BY <1>1, <1>7, <1>12, <1>13, Rewrites

\* A cell that was never written has a value of its type.
LEMMA DefaultTyped == \A c \in AllStored : Default(c) \in TypeOf(c)
<1> SUFFICES ASSUME NEW c \in AllStored PROVE Default(c) \in TypeOf(c)
  OBVIOUS
<1>1. CASE c[2] = "members"
  <2>1. <<>> \in Seq(Identities) /\ Len(<<>>) <= MaxLength
    BY ValueAssumption
  <2>2. <<>> \in Rows
    BY <2>1, RowsBounded
  <2> QED BY <1>1, <2>2 DEF Default, TypeOf, RowMembers
<1>2. CASE c[2] = "selected"
  BY <1>2, Kinds DEF Default, TypeOf
<1>3. CASE c[2] \notin {"members", "selected"}
  <2>1. c[2] \in IntMembers
    BY <1>3, ProgramAssumption DEF AllStored, IntMembers
  <2> QED BY <1>3, <2>1, Kinds DEF Default, TypeOf
<1> QED BY <1>1, <1>2, <1>3

\* Commit invalidates the committed cells that depend on what it changes or removes.
LEMMA CommitConsistent ==
  ASSUME Consistent, Fits', Commit
  PROVE  Consistent'
<1>1. /\ stack = <<>> /\ stack' = <<>> /\ active /\ answer' = <<>> /\ active' = FALSE /\ writes' = <<>>
      /\ live' = (live \cup created) \ deleted
  BY DEF Commit, Dropped, Idle
<1> DEFINE changed == {c \in DOMAIN writes : writes[c] # states[c]}
           gone == CellsOf(deleted)
           valid == {d \in AllDerived : cached[d] # None}
           stale == Downstream(changed \cup gone, graph, valid)
<1>2. /\ states' = [c \in AllStored |->
                      IF c \in gone THEN Default(c) ELSE IF c \in changed THEN writes[c] ELSE states[c]]
      /\ cached' = [d \in AllDerived |-> IF d \in stale \cup gone THEN None ELSE cached[d]]
      /\ graph'.deps = [d \in AllDerived |-> IF d \in gone THEN {} ELSE graph.deps[d]]
      /\ graph'.watchers = [c \in Cells |->
                       IF c \in gone THEN {}
                       ELSE {w \in graph.watchers[c] : w \in gone => c \notin graph.deps[w]}]
  BY DEF Commit
<1>3. /\ gone \subseteq Cells /\ \A c \in Cells : c \in gone <=> c[1] \in deleted
      /\ changed \subseteq Cells
  BY DEF CellsOf, Consistent, Fits, Stored, Cells
<1>4. Layer(CommittedStore, cached, graph) /\ graph \in Edges /\ cached \in Caches
  BY DEF Consistent, Layered, Layer
<1>5. stale \subseteq AllDerived /\ \A c \in changed \cup gone \cup (stale \cap valid) : graph.watchers[c] \subseteq stale
  <2>1. stale \subseteq AllDerived
    BY DEF Downstream
  <2>2. PICK C \in SUBSET Cells : C = changed \cup gone
    BY <1>3
  <2>3. stale = Downstream(C, graph, valid)
    BY <2>2
  <2> HIDE DEF changed, gone, valid, stale
  <2> QED BY <1>4, <2>1, <2>2, <2>3, DownstreamClosed
<1>6. \A c \in AllStored : Default(c) \in TypeOf(c)
  BY DefaultTyped
<1>7. changed \subseteq DOMAIN writes /\ \A c \in DOMAIN writes : c \notin changed => writes[c] = states[c]
  OBVIOUS
<1>8. \A d \in AllDerived : d \in valid <=> cached[d] # None
  OBVIOUS
<1> HIDE DEF changed, gone, valid, stale
<1>9. Typing'
  BY <1>1, <1>2, <1>6, <1>7 DEF Consistent, Typing
<1>10. (Store \in Stores /\ CommittedStore \in Stores /\ (~active => Store = CommittedStore))'
  BY <1>9, StoresTyped, PTL
<1>11. Store' = CommittedStore' /\ CommittedStore' \in Stores /\ Cache' = cached' /\ Graph' = graph' /\ graph' \in Edges
  BY <1>1, <1>10 DEF Cache, Graph, Fits, Cached
<1>12. cached' \in Caches
  <2>1. \A d \in AllDerived : cached'[d] = None \/ cached'[d] = cached[d]
    BY <1>2
  <2>2. cached' = [d \in AllDerived |-> cached'[d]]
    BY <1>2
  <2>3. None \in Contents
    BY DEF Contents
  <2>4. \A d \in AllDerived : cached'[d] \in Contents /\ cached'[d] \in TypeOf(d) \cup {None}
    BY <1>4, <2>1, <2>3 DEF Caches
  <2> QED BY <2>2, <2>4 DEF Caches
<1>13. ASSUME NEW c \in Cells, c \notin changed \cup gone, CommittedStore[c] # Failed
       PROVE  CommittedStore'[c] = CommittedStore[c]
  <2>1. c[1] \in {App} \cup live /\ c[1] \notin deleted
    BY <1>3, <1>13 DEF CommittedStore
  <2>2. c[1] \in {App} \cup live'
    BY <1>1, <2>1
  <2>3. c \in AllStored => states'[c] = states[c]
    BY <1>2, <1>13
  <2> QED BY <2>1, <2>2, <2>3 DEF CommittedStore
<1>14. ASSUME NEW d \in AllDerived, cached'[d] # None
       PROVE  /\ CommittedStore'[d] # Failed /\ cached'[d] = cached[d] /\ graph'.deps[d] = graph.deps[d]
              /\ \A c \in graph.deps[d] :
                   /\ d \in graph'.watchers[c] /\ CommittedStore'[c] = CommittedStore[c]
                   /\ c \in AllDerived => cached'[c] = cached[c]
  <2>1. d \notin stale \cup gone /\ cached'[d] = cached[d] /\ cached[d] # None
    BY <1>2, <1>14
  <2>2. graph'.deps[d] = graph.deps[d]
    BY <1>2, <2>1
  <2>3. CommittedStore'[d] # Failed
    <3>1. d[1] \in {App} \cup live'
      BY <1>14 DEF Fits, Cached
    <3>2. d \in Cells /\ d \notin AllStored /\ None # Failed
      BY Kinds, ValueAssumption
    <3> QED BY <3>1, <3>2 DEF CommittedStore
  <2>4. ASSUME NEW c \in graph.deps[d]
        PROVE  /\ d \in graph'.watchers[c] /\ CommittedStore'[c] = CommittedStore[c]
               /\ c \in AllDerived => cached'[c] = cached[c]
    <3>1. /\ c \in Cells /\ CommittedStore[c] # Failed /\ d \in graph.watchers[c]
          /\ c \in AllDerived => cached[c] # None
      BY <1>4, <2>1, Footing
    <3>2. c \notin changed \cup gone
      BY <1>5, <2>1, <3>1
    <3>3. c \in AllDerived => c \notin stale
      BY <1>5, <1>8, <2>1, <3>1
    <3>4. d \in graph'.watchers[c]
      BY <1>2, <2>1, <3>1, <3>2
    <3>5. c \in AllDerived => cached'[c] = cached[c]
      BY <1>2, <3>2, <3>3
    <3> QED BY <1>13, <3>1, <3>2, <3>4, <3>5
  <2> QED BY <2>1, <2>2, <2>3, <2>4
<1>15. Layer(CommittedStore', cached', graph')
  BY <1>4, <1>11, <1>12, <1>14, LayerWeakened
<1>16. Layered'
  BY <1>1, <1>11, <1>15, RunningNone DEF Layered
<1> QED BY <1>1, <1>9, <1>16 DEF Consistent, Answered, AnswerCorrect


\* The program starts consistent: nothing is cached.
LEMMA InitConsistent == Init => Consistent
<1> SUFFICES ASSUME Init PROVE Consistent
  OBVIOUS
<1>1. Fits
  BY InitFits
<1>2. Typing
  BY DefaultTyped DEF Init, Typing
<1>3. Store \in Stores /\ Store = CommittedStore
  BY <1>1, <1>2, StoresTyped DEF Init
<1>4. Cache = Unset /\ Graph = NoEdges /\ cached = Unset /\ graph = NoEdges /\ stack = <<>> /\ answer = <<>>
  BY DEF Init, Cache, Graph
<1>5. Layered
  BY <1>3, <1>4, LayerEmpty, RunningNone DEF Layered
<1> QED BY <1>1, <1>2, <1>4, <1>5 DEF Consistent, Answered, AnswerCorrect

-----------------------------------------------------------------------------
(* The theorems that hold for every program without capture: no element    *)
(* expression names a member as a traversal above it names its accumulator *)
(* or its element (NoCapture).                                             *)

\* Every step keeps caches and answers consistent.
LEMMA ConsistentKept == NoCapture => (Consistent /\ [Next]_vars => Consistent')
<1> SUFFICES ASSUME NoCapture, Consistent, [Next]_vars PROVE Consistent'
  OBVIOUS
<1>1. Fits'
  BY FitsKept DEF Consistent
<1>2. CASE EvaluationStep
  BY <1>1, <1>2, ReadNameConsistent, EnterDerivedConsistent, FinishConsistent, FailEvaluationConsistent
     DEF EvaluationStep
<1>3. CASE RunAction \/ Fail \/ Commit
  BY <1>1, <1>3, RunActionConsistent, FailConsistent, CommitConsistent
<1>4. CASE \E d \in AllDerived : Ask(d)
  BY <1>1, <1>4, AskConsistent
<1>5. CASE \E c \in AllStored : \E v \in Values(c) : Write(c, v)
  BY <1>1, <1>5, WriteConsistent
<1>6. CASE \E x \in Identities : Create(x) \/ Destroy(x)
  BY <1>1, <1>6, CreateConsistent, DestroyConsistent
<1>7. CASE UNCHANGED vars
  <2>1. UNCHANGED <<states, live, writes, created, deleted, cached, graph, active, staged, stagedGraph, stack, answer>>
    BY <1>7 DEF vars, committed, overlay
  <2>2. Store' = Store /\ CommittedStore' = CommittedStore /\ Cache' = Cache /\ Graph' = Graph
    BY <2>1, StoreKept DEF Cache, Graph
  <2>3. Typing' /\ Layered'
    BY <2>1, <2>2 DEF Consistent, Typing, Layered
  <2>4. Answered'
    BY <2>1, <2>2 DEF Consistent, Answered, AnswerCorrect, Meaning
  <2> QED BY <1>1, <2>3, <2>4 DEF Consistent
<1> QED BY <1>2, <1>3, <1>4, <1>5, <1>6, <1>7 DEF Next

\* What consistency means for a reader.
LEMMA ConsistentProperties == Consistent => CacheCoherent /\ AnswerCorrect /\ EdgesExact
<1> SUFFICES ASSUME Consistent PROVE CacheCoherent /\ AnswerCorrect /\ EdgesExact
  OBVIOUS
<1>1. Layer(Store, Cache, Graph)
  BY DEF Consistent, Layered
<1>2. ASSUME NEW d \in AllDerived, Valid(d) # None
      PROVE  Cache[d] = Valid(d) /\ Cache[d] # None /\ Seen(Store, Cache)[d] = Cache[d] /\ Cache[d] # Failed /\ d \in Cells
  <2>1. d \in Cells
    BY Kinds
  <2>2. Cache[d] = Valid(d) /\ Exists(d)
    BY <1>2, <2>1, Shows DEF Consistent, Fits, Cached, Outside, Valid, Cache, Exists, LiveNow
  <2>3. Cache[d] # Failed
    BY <1>2, <2>1, Shows, SeenTyped
  <2>4. d \notin AllStored
    BY Kinds
  <2> QED BY <1>2, <2>1, <2>2, <2>3, <2>4, Shows
<1>3. CacheCoherent
  BY <1>1, <1>2, LayerCoherent DEF CacheCoherent, Meaning, Below
<1>4. EdgesExact
  <2>1. Sight = Seen(Store, Cache)
    BY DEF Sight, Cache
  <2> QED BY <1>1, <1>2, <2>1 DEF EdgesExact, Layer, Exact
<1> QED BY <1>3, <1>4 DEF Consistent, Answered

\* Whatever is read, assigned, created and destroyed, in whatever order, no cache goes
\* stale: every value that a reader would be given from one is what recomputing everything
\* from the stored cells gives.
THEOREM CachesCoherent == ASSUME NoCapture PROVE Spec => []CacheCoherent
<1>1. Consistent => CacheCoherent
  BY ConsistentProperties
<1>2. Consistent /\ [Next]_vars => Consistent'
  BY ConsistentKept
<1> QED BY InitConsistent, <1>1, <1>2, PTL DEF Spec

\* Every answer, a failure included, is the value of its definition, in a program whose
\* accumulators and elements have names that no element expression reads.
THEOREM AnswersCorrect == ASSUME NoCapture PROVE Spec => []AnswerCorrect
<1>1. Consistent => AnswerCorrect
  BY ConsistentProperties
<1>2. Consistent /\ [Next]_vars => Consistent'
  BY ConsistentKept
<1> QED BY InitConsistent, <1>1, <1>2, PTL DEF Spec

\* A valid cell hangs on exactly the cells that its evaluation reads, at both ends.
THEOREM EdgesAlwaysExact == ASSUME NoCapture PROVE Spec => []EdgesExact
<1>1. Consistent => EdgesExact
  BY ConsistentProperties
<1>2. Consistent /\ [Next]_vars => Consistent'
  BY ConsistentKept
<1> QED BY InitConsistent, <1>1, <1>2, PTL DEF Spec

-----------------------------------------------------------------------------
(* Every step of an evaluation brings its end nearer.                      *)

\* A number in positional notation is less if a higher place of it is.
LEMMA HigherPlace ==
  ASSUME NEW b \in Nat, NEW x \in Nat, NEW y \in Nat, x < y, NEW p \in 0 .. b - 1, NEW q \in Nat
  PROVE  x * b + p \in Nat /\ y * b + q \in Nat /\ x * b + p < y * b + q
<1>1. PICK k \in Nat : y = x + 1 + k
  <2>1. y - x - 1 \in Nat /\ y = x + 1 + (y - x - 1)
    OBVIOUS
  <2> QED BY <2>1
<1>2. x * b \in Nat /\ k * b \in Nat /\ y * b \in Nat
  OBVIOUS
<1>3. y * b = x * b + b + k * b
  BY <1>1
<1> QED BY <1>2, <1>3

\* Each cell is on the stack at most once, so the stack is not deeper than there are derived cells.
LEMMA StackBounded ==
  ASSUME Stacked
  PROVE  Len(stack) \in Nat /\ Len(stack) <= Cardinality(AllDerived)
<1>1. PICK n \in Nat : n = Len(stack)
  BY DEF Stacked, IsRow
<1>2. PICK m \in Nat : m = Cardinality(AllDerived)
  BY DerivedFinite
<1>3. ASSUME m < n PROVE FALSE
  <2> DEFINE f == [i \in 1 .. n |-> stack[i].cell]
  <2>1. f \in [1 .. n -> AllDerived]
    BY <1>1 DEF Stacked
  <2>2. IsFiniteSet(1 .. n) /\ Cardinality(1 .. n) = n
    <3>1. Cardinality(1 .. n) = IF 1 > n THEN 0 ELSE n - 1 + 1
      BY FS_Interval
    <3> QED BY <3>1, FS_Interval
  <2> HIDE DEF f
  <2>3. PICK i \in 1 .. n, j \in 1 .. n : i # j /\ f[i] = f[j]
    BY <1>2, <1>3, <2>1, <2>2, DerivedFinite, FS_PigeonHole
  <2> QED BY <1>1, <2>3 DEF f, Stacked, CyclesCaught
<1> QED BY <1>1, <1>2, <1>3

\* What Left is made of, while something is evaluated.
LEMMA Places ==
  Consistent /\ stack # <<>> =>
    /\ IsFiniteSet(Invalid) /\ Top.cell \in Invalid
    /\ Cardinality(Invalid) \in Nat /\ Cardinality(Invalid) # 0
    /\ Len(stack) \in Nat /\ Room \in 0 .. Depth - 1
    /\ Len(Top.read) \in 0 .. MaxReads /\ MaxReads \in Nat
    /\ Len(Top.read) = MaxReads => Wanted(Top) = {}
<1> SUFFICES ASSUME Consistent, stack # <<>>
             PROVE  /\ IsFiniteSet(Invalid) /\ Top.cell \in Invalid
                    /\ Cardinality(Invalid) \in Nat /\ Cardinality(Invalid) # 0
                    /\ Len(stack) \in Nat /\ Room \in 0 .. Depth - 1
                    /\ Len(Top.read) \in 0 .. MaxReads /\ MaxReads \in Nat
                    /\ Len(Top.read) = MaxReads => Wanted(Top) = {}
  OBVIOUS
<1>1. PICK n \in Nat : n = Len(stack) /\ n \in 1 .. n
  BY TopFits DEF Consistent, Fits
<1>2. Room \in 0 .. Depth - 1
  <2>1. n <= Cardinality(AllDerived)
    BY <1>1, StackBounded DEF Consistent, Fits
  <2> QED BY <1>1, <2>1, DerivedFinite DEF Room, Depth
<1>3. Evaluates(Top, Store, Cache, Graph, Next1(stack, n))
  BY <1>1 DEF Consistent, Layered, Running, Top
<1>4. Typed(Top) /\ Cache[Top.cell] = None
  BY <1>3 DEF Evaluates
<1>5. Top.cell \in Invalid
  BY <1>4, ReadsBounded DEF Invalid, Valid, Cache
<1>6. IsFiniteSet(Invalid)
  <2>1. Invalid \in SUBSET AllDerived
    BY DEF Invalid
  <2> QED BY <2>1, DerivedFinite, FS_Subset
<1>7. Cardinality(Invalid) \in Nat /\ Cardinality(Invalid) # 0
  BY <1>5, <1>6, FS_CardinalityType, FS_EmptySet
<1>8. MaxReads \in Nat
  BY ValueAssumption DEF MaxReads
<1>9. Len(Top.read) = MaxReads => Wanted(Top) = {}
  BY <1>4, ReadsBounded DEF Asks
<1>10. Len(Top.read) \in 0 .. MaxReads
  BY <1>4, ReadsBounded
<1> QED BY <1>1, <1>2, <1>5, <1>6, <1>7, <1>8, <1>9, <1>10

\* The value of a number with the places i, r and q.
Weight(i, r, q) == (i * Depth + r) * (MaxReads + 1) + q
LEMMA LeftIs ==
  stack # <<>> => Left = Weight(Cardinality(Invalid), Room, MaxReads - Len(Top.read))
BY DEF Left, Weight

\* A weight is less if a higher place is.
LEMMA Weighs ==
  ASSUME MaxReads \in Nat, NEW i \in Nat, NEW r \in 0 .. Depth - 1, NEW q \in 0 .. MaxReads,
         NEW j \in Nat, NEW s \in 0 .. Depth - 1, NEW t \in 0 .. MaxReads,
         \/ i < j
         \/ i = j /\ r < s
         \/ i = j /\ r = s /\ q < t
  PROVE  Weight(i, r, q) \in 0 .. Weight(j, s, t) - 1
<1>1. Depth \in Nat
  BY DerivedFinite
<1>2. PICK x \in Nat, y \in Nat : x = i * Depth + r /\ y = j * Depth + s
  <2>1. i * Depth \in Nat /\ j * Depth \in Nat
    BY <1>1
  <2> QED BY <1>1, <2>1
<1>3. \/ x < y
      \/ x = y /\ q < t
  <2>1. CASE i < j
    <3>1. PICK b \in Nat : b = Depth
      BY <1>1
    <3>2. r \in 0 .. b - 1 /\ s \in Nat
      BY <3>1
    <3>3. i * b + r < j * b + s
      BY <2>1, <3>2, HigherPlace
    <3> QED BY <1>2, <3>1, <3>3
  <2>2. CASE i = j
    <3>1. i * Depth \in Nat /\ i * Depth = j * Depth
      BY <1>1, <2>2
    <3> QED BY <1>1, <1>2, <2>2, <3>1
  <2> QED BY <2>1, <2>2
<1>4. x * (MaxReads + 1) + q \in 0 .. y * (MaxReads + 1) + t - 1
  <2>1. PICK b \in Nat : b = MaxReads + 1 /\ q \in 0 .. b - 1 /\ q \in Nat /\ t \in Nat
    OBVIOUS
  <2>2. CASE x < y
    <3>1. x * b + q \in Nat /\ y * b + t \in Nat /\ x * b + q < y * b + t
      BY <1>2, <2>1, <2>2, HigherPlace
    <3> QED BY <2>1, <3>1
  <2>3. CASE x = y /\ q < t
    <3>1. x * b \in Nat /\ x * b = y * b
      BY <1>2, <2>1, <2>3
    <3> QED BY <2>1, <2>3, <3>1
  <2> QED BY <1>3, <2>2, <2>3
<1> QED BY <1>2, <1>4 DEF Weight

\* A step that ends all evaluations leaves none.
LEMMA EndsShrink ==
  ASSUME Consistent, stack # <<>>, stack' = <<>>
  PROVE  Left' \in 0 .. Left - 1
<1>1. Left' = 0
  BY DEF Left
<1>2. PICK i \in Nat, r \in 0 .. Depth - 1, q \in 0 .. MaxReads :
        i # 0 /\ Left = Weight(i, r, q) /\ MaxReads \in Nat
  BY Places, LeftIs
<1>3. Weight(0, 0, 0) \in 0 .. Weight(i, r, q) - 1
  <2>1. 0 \in 0 .. Depth - 1 /\ 0 \in 0 .. MaxReads /\ 0 < i
    BY <1>2, DerivedFinite
  <2> QED BY <1>2, <2>1, Weighs
<1>4. Weight(0, 0, 0) = 0
  <2>1. 0 * Depth = 0 /\ 0 * (MaxReads + 1) = 0
    BY <1>2, DerivedFinite
  <2> QED BY <2>1 DEF Weight
<1> QED BY <1>1, <1>2, <1>3, <1>4

\* What a step that goes on has to show.
LEMMA GoesOnShrinks ==
  ASSUME Consistent, Consistent', stack # <<>>, stack' # <<>>,
         \/ Cardinality(Invalid)' < Cardinality(Invalid)
         \/ Invalid' = Invalid /\ Len(stack)' > Len(stack)
         \/ Invalid' = Invalid /\ Len(stack)' = Len(stack) /\ Len(Top.read)' > Len(Top.read)
  PROVE  Left' \in 0 .. Left - 1
<1>1. PICK i \in Nat, r \in 0 .. Depth - 1, q \in 0 .. MaxReads :
        /\ i = Cardinality(Invalid) /\ r = Room /\ q = MaxReads - Len(Top.read)
        /\ MaxReads \in Nat /\ Left = Weight(i, r, q)
  BY Places, LeftIs
<1>2. (Consistent /\ stack # <<>>)'
  OBVIOUS
<1>3. PICK j \in Nat, s \in 0 .. Depth - 1, t \in 0 .. MaxReads :
        /\ j = Cardinality(Invalid)' /\ s = Room' /\ t = (MaxReads - Len(Top.read))'
        /\ Left' = Weight(j, s, t)
  <2>1. (/\ IsFiniteSet(Invalid) /\ Top.cell \in Invalid
         /\ Cardinality(Invalid) \in Nat /\ Cardinality(Invalid) # 0
         /\ Len(stack) \in Nat /\ Room \in 0 .. Depth - 1
         /\ Len(Top.read) \in 0 .. MaxReads /\ MaxReads \in Nat
         /\ Len(Top.read) = MaxReads => Wanted(Top) = {})'
    BY <1>2, Places, PTL
  <2>2. (Left = Weight(Cardinality(Invalid), Room, MaxReads - Len(Top.read)))'
    BY <1>2, LeftIs, PTL
  <2> QED BY <2>1, <2>2 DEF Weight
<1>4. Len(stack)' \in Nat /\ Len(stack) \in Nat /\ Len(Top.read)' \in Nat /\ Len(Top.read) \in Nat
  <2>1. (Len(stack) \in Nat /\ Len(Top.read) \in 0 .. MaxReads)'
    BY <1>2, Places, PTL
  <2> QED BY <1>1, <2>1, Places
<1>5. \/ j < i
      \/ j = i /\ s < r
      \/ j = i /\ s = r /\ t < q
  <2>1. Invalid' = Invalid => j = i
    BY <1>1, <1>3
  <2>2. r = Cardinality(AllDerived) - Len(stack) /\ s = Cardinality(AllDerived) - Len(stack)'
    BY <1>1, <1>3 DEF Room
  <2>3. q = MaxReads - Len(Top.read) /\ t = MaxReads - Len(Top.read)'
    BY <1>1, <1>3
  <2>4. /\ Len(stack)' > Len(stack) => s < r
        /\ Len(stack)' = Len(stack) => s = r
    BY <1>4, <2>2, DerivedFinite
  <2>5. Len(Top.read)' > Len(Top.read) => t < q
    <3>1. MaxReads \in Nat
      BY Places
    <3> QED BY <1>4, <2>3, <3>1
  <2> QED BY <1>1, <1>3, <2>1, <2>4, <2>5
<1> QED BY <1>1, <1>3, <1>5, Weighs

\* Every step of an evaluation.
LEMMA EvaluationStepShrinks ==
  ASSUME NoCapture, Consistent, Consistent', stack # <<>>, EvaluationStep
  PROVE  Left' \in 0 .. Left - 1
<1>1. Stacked
  BY DEF Consistent, Fits
<1>2. PICK n \in Nat : n = Len(stack) /\ n \in 1 .. n /\ Top = stack[n]
  BY <1>1, TopFits
<1>3. CASE ReadName
  <2>1. UNCHANGED <<active, cached, staged>> /\ \E v : Reads(v)
    BY <1>3 DEF ReadName, Evaluating
  <2>2. PICK v : Reads(v)
    BY <2>1
  <2>3. IsRow(stack') /\ Len(stack') = n /\ stack'[n] = Given(stack[n], v)
    BY <1>1, <1>2, <2>2, ReadsStack
  <2>4. Top' = Given(Top, v) /\ stack' # <<>>
    BY <1>2, <2>3 DEF Top
  <2>5. Typed(Top)
    BY <1>2 DEF Consistent, Layered, Running, Evaluates
  <2>6. Len(Top.read)' = Len(Top.read) + 1 /\ Len(Top.read) \in Nat
    <3>1. Len(Append(Top.read, v)) = Len(Top.read) + 1 /\ Len(Top.read) \in Nat
      BY <2>5 DEF Typed, Frames
    <3> QED BY <2>4, <3>1 DEF Given
  <2>7. Invalid' = Invalid
    BY <2>1 DEF Invalid, Valid
  <2> QED BY <1>2, <2>3, <2>4, <2>6, <2>7, GoesOnShrinks
<1>4. CASE EnterDerived
  <2>1. UNCHANGED <<active, cached, staged>> /\ \E d : stack' = Append(stack, [cell |-> d, read |-> <<>>])
    BY <1>4 DEF EnterDerived, Evaluating, Enter
  <2>2. Len(stack') = n + 1 /\ stack' # <<>>
    BY <1>1, <1>2, <2>1, EntersStack
  <2>3. Invalid' = Invalid
    BY <2>1 DEF Invalid, Valid
  <2> QED BY <1>2, <2>2, <2>3, GoesOnShrinks
<1>5. CASE Finish
  <2>1. /\ Top.cell \in AllDerived /\ ~Overflows(Top) /\ Wanted(Top) = {}
        /\ IF active
           THEN staged' = [staged EXCEPT ![Top.cell] = Result(Top)] /\ UNCHANGED cached
           ELSE cached' = [cached EXCEPT ![Top.cell] = Result(Top)] /\ UNCHANGED staged
    BY <1>1, <1>5, Finishes
  <2>2. Layer(Store, Cache, Graph) /\ Running(Store, Cache, Graph, stack)
    BY DEF Consistent, Layered
  <2>3. Result(Top) # None
    BY <1>2, <2>1, <2>2, TopFinished
  <2>4. IsMap(cached, AllDerived) /\ IsMap(staged, AllDerived) /\ active' = active
    BY <1>5 DEF Consistent, Fits, Cached, Finish, Evaluating
  <2>5. Invalid' = Invalid \ {Top.cell}
    BY <2>1, <2>3, <2>4 DEF Invalid, Valid, IsMap
  <2>6. Cardinality(Invalid)' < Cardinality(Invalid)
    <3>1. /\ IsFiniteSet(Invalid) /\ Top.cell \in Invalid
          /\ Cardinality(Invalid) \in Nat
      BY Places
    <3>2. Cardinality(Invalid \ {Top.cell}) = Cardinality(Invalid) - 1
      BY <3>1, FS_RemoveElement
    <3> QED BY <2>5, <3>1, <3>2
  <2> QED BY <2>6, EndsShrink, GoesOnShrinks
<1>6. CASE FailEvaluation
  BY <1>6, EndsShrink DEF FailEvaluation
<1> QED BY <1>3, <1>4, <1>5, <1>6 DEF EvaluationStep

\* Once begun, an evaluation comes nearer to its end with every step: what it takes is bounded
\* by the cells without a value, the depth of the stack and the reads of one expression.
THEOREM EvaluationsShrink == ASSUME NoCapture PROVE Spec => EvaluationShrinks
<1>1. Consistent /\ [Next]_vars => Consistent'
  BY ConsistentKept
<1>2. Consistent /\ Consistent' /\ [Next]_vars => [stack # <<>> => Left' \in 0 .. Left - 1]_vars
  <2> SUFFICES ASSUME Consistent, Consistent', Next, stack # <<>>
               PROVE  Left' \in 0 .. Left - 1
    OBVIOUS
  <2>1. EvaluationStep
    BY DEF Next, RunAction, Fail, Commit, Ask, Write, Create, Destroy, Idle
  <2> QED BY <2>1, EvaluationStepShrinks
<1> QED BY InitConsistent, <1>1, <1>2, PTL DEF Spec, EvaluationShrinks

-----------------------------------------------------------------------------
(* Caches are invisible.                                                   *)

\* A cell of no committed identity has never been written.
Blank == \A c \in AllStored : c[1] \notin {App} \cup live => states[c] = Default(c)

\* What the plain kernel sees of this one.
Outer == [live |-> live, store |-> CommittedStore]
Inner == [live |-> LiveNow, store |-> Store]
Opened == IF active THEN <<Inner>> ELSE <<>>
Asked == IF stack = <<>> THEN <<>> ELSE <<stack[1].cell>>

\* An identity keeps its cells at their defaults from one end to the next beginning.
LEMMA BlankKept == Consistent /\ Blank /\ [Next]_vars => Blank'
<1> SUFFICES ASSUME Consistent, Blank, [Next]_vars PROVE Blank'
  OBVIOUS
<1>1. CASE UNCHANGED <<states, live>>
  BY <1>1 DEF Blank
<1>2. CASE Commit
  <2> SUFFICES ASSUME NEW c \in AllStored, c[1] \notin {App} \cup live'
               PROVE  states'[c] = Default(c)
    BY DEF Blank
  <2>1. /\ live' = (live \cup created) \ deleted
        /\ states'[c] = IF c \in CellsOf(deleted) THEN Default(c)
                        ELSE IF c \in DOMAIN writes /\ writes[c] # states[c] THEN writes[c] ELSE states[c]
    BY <1>2 DEF Commit
  <2>2. c \in CellsOf(deleted) <=> c[1] \in deleted
    BY DEF CellsOf, Cells
  <2>3. ~Exists(c)
    BY <2>1 DEF Exists, LiveNow
  <2>4. c \notin DOMAIN writes
    BY <2>3 DEF Consistent, Fits, Stored
  <2>5. c[1] \notin deleted => c[1] \notin {App} \cup live
    BY <2>1
  <2> QED BY <2>1, <2>2, <2>4, <2>5 DEF Blank
<1>3. \/ UNCHANGED <<states, live>>
      \/ Commit
  <2>1. EvaluationStep => UNCHANGED <<states, live>>
    BY DEF EvaluationStep, ReadName, EnterDerived, Finish, FailEvaluation, Evaluating, committed
  <2>2. RunAction \/ Fail => UNCHANGED <<states, live>>
    BY DEF RunAction, Fail, Quiet, committed
  <2>3. (\E d \in AllDerived : Ask(d)) => UNCHANGED <<states, live>>
    BY DEF Ask, Evaluating
  <2>4. (\E c \in AllStored : \E v \in Values(c) : Write(c, v)) => UNCHANGED <<states, live>>
    BY DEF Write, Quiet, committed
  <2>5. (\E x \in Identities : Create(x) \/ Destroy(x)) => UNCHANGED <<states, live>>
    BY DEF Create, Destroy, Quiet, committed
  <2>6. UNCHANGED vars => UNCHANGED <<states, live>>
    BY DEF vars, committed
  <2> QED BY <2>1, <2>2, <2>3, <2>4, <2>5, <2>6 DEF Next
<1> QED BY <1>1, <1>2, <1>3

\* What the kernel without caches is given, in the words of this one.
LEMMA Mapped ==
  /\ Plain!vars = <<Outer, Opened, used, Asked, answer>>
  /\ Plain!Init <=>
       /\ Outer = [live |-> {}, store |-> [c \in Cells |-> IF c[1] = App THEN Plain!Fresh({App})[c] ELSE Failed]]
       /\ Opened = <<>> /\ used = {} /\ Asked = <<>> /\ answer = <<>>
  /\ Plain!View = IF Opened = <<>> THEN Outer ELSE Opened[1]
BY DEF Plain!vars, Plain!Init, Plain!View, Outer, Opened, Asked, Inner, Cells

\* The cells of an identity as they begin.
LEMMA FreshCells ==
  ASSUME NEW x, NEW c \in Cells, c[1] = x
  PROVE  Plain!Fresh({x})[c] = IF c \in AllStored THEN Default(c) ELSE None
BY DEF Plain!Fresh, Cells

\* The reader sees the store.
LEMMA Views ==
  (Fits /\ Typing) => Plain!View.store = Store /\ (~active => CommittedStore = Store)
<1> SUFFICES ASSUME Fits, Typing PROVE Plain!View.store = Store /\ (~active => CommittedStore = Store)
  OBVIOUS
<1>1. ~active => CommittedStore = Store
  BY StoresTyped
<1>2. Plain!View = IF active THEN Inner ELSE Outer
  BY Mapped DEF Opened
<1> QED BY <1>1, <1>2 DEF Inner, Outer

\* The program starts as the kernel without caches.
LEMMA InitPlain == Init => Plain!Init
<1> SUFFICES ASSUME Init PROVE Plain!Init
  OBVIOUS
<1>1. live = {} /\ used = {} /\ stack = <<>> /\ answer = <<>> /\ ~active /\ states = [c \in AllStored |-> Default(c)]
  BY DEF Init
<1>2. \A c \in Cells : CommittedStore[c] = IF c[1] = App THEN Plain!Fresh({App})[c] ELSE Failed
  BY <1>1, FreshCells DEF CommittedStore
<1>3. CommittedStore = [c \in Cells |-> IF c[1] = App THEN Plain!Fresh({App})[c] ELSE Failed]
  BY <1>2 DEF CommittedStore
<1> QED BY <1>1, <1>3, Mapped DEF Outer, Opened, Asked

\* Without an evaluation under way nothing is asked.
LEMMA IdlePlain ==
  ASSUME stack = <<>>, stack' = <<>>, answer' = <<>>
  PROVE  Plain!Quiet
BY DEF Plain!Quiet

\* While worlds and the question stay as they are, the plain kernel does nothing.
LEMMA StaysPlain ==
  ASSUME UNCHANGED Evaluating, UNCHANGED answer, stack # <<>>, stack' # <<>>,
         stack'[1].cell = stack[1].cell
  PROVE  UNCHANGED Plain!vars
<1>1. UNCHANGED <<states, live, used, active, writes, created, deleted>>
  BY DEF Evaluating
<1>2. Store' = Store /\ CommittedStore' = CommittedStore /\ LiveNow' = LiveNow
  BY <1>1, StoreKept DEF LiveNow
<1>3. Outer' = Outer /\ Opened' = Opened
  BY <1>1, <1>2 DEF Outer, Opened, Inner
<1>4. Asked' = Asked
  BY DEF Asked
<1> QED BY <1>1, <1>3, <1>4 DEF Plain!vars, Outer, Opened, Inner, Asked

\* An answer that stands at the end of an evaluation is what the plain kernel answers.
LEMMA AnswersPlain ==
  ASSUME Consistent, Consistent', UNCHANGED Evaluating, stack # <<>>, stack' = <<>>,
         NEW v, answer' = <<stack[1].cell, v>>,
         active => v # Failed
  PROVE  Plain!Answer
<1>1. UNCHANGED <<states, live, used, active, writes, created, deleted>>
  BY DEF Evaluating
<1>2. Store' = Store /\ CommittedStore' = CommittedStore /\ LiveNow' = LiveNow
  BY <1>1, StoreKept DEF LiveNow
<1>3. v = MeaningOf(Store)[stack[1].cell]
  BY <1>2 DEF Consistent, Answered, AnswerCorrect, Meaning, MeaningOf
<1>4. Outer' = Outer /\ Opened' = Opened /\ (Opened # <<>> => active)
  BY <1>1, <1>2 DEF Outer, Opened, Inner
<1>5. Asked = <<stack[1].cell>> /\ Asked' = <<>>
  BY DEF Asked
<1>6. Plain!View.store = Store
  BY Views DEF Consistent
<1> QED BY <1>1, <1>3, <1>4, <1>5, <1>6 DEF Plain!Answer, Outer, Opened, Inner, Asked

\* A step of an evaluation is none of the plain kernel, or its answer.
LEMMA EvaluationPlain ==
  ASSUME NoCapture, Consistent, Consistent', EvaluationStep
  PROVE  Plain!Answer \/ UNCHANGED Plain!vars
<1>1. Stacked /\ stack # <<>>
  BY DEF Consistent, Fits, EvaluationStep, ReadName, EnterDerived, Finish, FailEvaluation
<1>2. PICK n \in Nat : n = Len(stack) /\ n \in 1 .. n /\ 1 \in 1 .. n /\ Top = stack[n]
  BY <1>1, TopFits
<1>3. \A v : Given(stack[1], v).cell = stack[1].cell
  BY DEF Given
<1>4. CASE ReadName
  <2>1. UNCHANGED Evaluating /\ UNCHANGED answer /\ \E v : Reads(v)
    BY <1>4 DEF ReadName
  <2>2. PICK v : Reads(v)
    BY <2>1
  <2>3. Len(stack') = n /\ stack'[1] = IF 1 = n THEN Given(stack[1], v) ELSE stack[1]
    BY <1>1, <1>2, <2>2, ReadsStack
  <2>4. stack' # <<>> /\ stack'[1].cell = stack[1].cell
    BY <1>2, <1>3, <2>3
  <2> QED BY <1>1, <2>1, <2>4, StaysPlain
<1>5. CASE EnterDerived
  <2>1. UNCHANGED Evaluating /\ UNCHANGED answer /\ \E d : stack' = Append(stack, [cell |-> d, read |-> <<>>])
    BY <1>5 DEF EnterDerived, Enter
  <2>2. Len(stack') = n + 1 /\ stack'[1] = stack[1]
    BY <1>1, <1>2, <2>1, EntersStack
  <2>3. stack' # <<>> /\ stack'[1].cell = stack[1].cell
    BY <1>2, <2>2
  <2> QED BY <1>1, <2>1, <2>3, StaysPlain
<1>6. CASE Finish
  <2>1. UNCHANGED Evaluating
    BY <1>6 DEF Finish
  <2>2. PICK v : v = Result(Top) /\ Hands(v) /\ ~Overflows(Top) /\ Wanted(Top) = {}
    BY <1>1, <1>6, Finishes
  <2>3. Layer(Store, Cache, Graph) /\ Running(Store, Cache, Graph, stack)
    BY DEF Consistent, Layered
  <2>4. v # Failed
    BY <1>1, <1>2, <2>2, <2>3, TopFinished
  <2>5. /\ Len(stack') = n - 1
        /\ \A i \in 1 .. n - 1 : stack'[i] = IF i = n - 1 THEN Given(stack[i], v) ELSE stack[i]
    BY <1>1, <1>2, <2>2, PopsStack
  <2>6. Front(stack) = <<>> <=> n - 1 = 0
    <3>1. PICK S : stack \in Seq(S)
      BY <1>1 DEF Stacked, IsRow
    <3>2. Front(stack) = <<>> <=> Len(stack) - 1 = 0
      BY <1>1, <3>1, FrontShape
    <3> QED BY <1>2, <3>2
  <2>7. CASE n = 1
    <3>1. Front(stack) = <<>>
      BY <2>6, <2>7
    <3>2. stack' = <<>> /\ answer' = <<Top.cell, v>> /\ Top = stack[1]
      BY <1>2, <1>6, <2>2, <2>7, <3>1 DEF Finish, Front
    <3> QED BY <1>1, <2>1, <2>4, <3>2, AnswersPlain
  <2>8. CASE n # 1
    <3>1. Front(stack) # <<>>
      BY <1>2, <2>6, <2>8
    <3>2. UNCHANGED answer
      BY <1>6, <3>1 DEF Finish, Front
    <3>3. 1 \in 1 .. n - 1
      BY <1>2, <2>8
    <3>4. stack'[1] = IF 1 = n - 1 THEN Given(stack[1], v) ELSE stack[1]
      BY <2>5, <3>3
    <3>5. stack' # <<>> /\ stack'[1].cell = stack[1].cell
      BY <1>2, <1>3, <2>5, <2>8, <3>4
    <3> QED BY <1>1, <2>1, <3>2, <3>5, StaysPlain
  <2> QED BY <2>7, <2>8
<1>7. CASE FailEvaluation
  <2>1. CASE ~active
    <3>1. stack' = <<>> /\ answer' = <<stack[1].cell, Failed>> /\ UNCHANGED Evaluating
      BY <1>7, <2>1 DEF FailEvaluation, committed, overlay, Evaluating
    <3> QED BY <1>1, <2>1, <3>1, AnswersPlain
  <2>2. CASE active
    <3>1. stack' = <<>> /\ answer' = <<>> /\ active' = FALSE /\ UNCHANGED <<states, live, used>>
      BY <1>7, <2>2 DEF FailEvaluation, committed, Dropped
    <3>2. Outer' = Outer /\ Opened # <<>> /\ Opened' = <<>>
      BY <2>2, <3>1 DEF Outer, Opened, CommittedStore
    <3>3. Asked = <<stack[1].cell>> /\ Asked' = <<>>
      BY <1>1, <3>1 DEF Asked
    <3>4. Plain!View.store = Store
      BY Views DEF Consistent
    <3>5. MeaningOf(Store)[stack[1].cell] = Failed
      BY <1>7, FailureMeant
    <3> QED BY <3>1, <3>2, <3>3, <3>4, <3>5 DEF Plain!Answer, Outer, Opened, Inner, Asked
  <2> QED BY <2>1, <2>2
<1> QED BY <1>4, <1>5, <1>6, <1>7 DEF EvaluationStep

\* A question is asked, or answered from what is cached.
LEMMA AskPlain ==
  ASSUME Consistent, Consistent', NEW d \in AllDerived, Ask(d)
  PROVE  Plain!Ask(d) \/ Plain!Tell(d)
<1>1. stack = <<>> /\ Exists(d) /\ UNCHANGED Evaluating /\ UNCHANGED <<cached, staged>>
  BY DEF Ask
<1>2. UNCHANGED <<states, live, used, active, writes, created, deleted>>
  BY <1>1 DEF Evaluating
<1>3. Store' = Store /\ CommittedStore' = CommittedStore /\ LiveNow' = LiveNow
  BY <1>2, StoreKept DEF LiveNow
<1>4. Outer' = Outer /\ Opened' = Opened
  BY <1>2, <1>3 DEF Outer, Opened, Inner
<1>5. Plain!View.store = Store
  BY Views DEF Consistent
<1>6. d \in Cells /\ Plain!Held(d)
  BY <1>1, <1>5, Kinds, Shows DEF Plain!Held
<1>7. CASE Valid(d) # None
  <2>1. answer' = <<d, Valid(d)>> /\ stack' = <<>>
    BY <1>1, <1>7 DEF Ask
  <2>2. Valid(d) = MeaningOf(Store)[d]
    BY <1>3, <2>1 DEF Consistent, Answered, AnswerCorrect, Meaning, MeaningOf
  <2>3. Valid(d) # Failed
    BY <1>6, <1>7, Shows, SeenTyped
  <2>4. Asked = <<>> /\ Asked' = <<>>
    BY <1>1, <2>1 DEF Asked
  <2> QED BY <1>2, <1>4, <1>5, <1>6, <2>1, <2>2, <2>3, <2>4 DEF Plain!Tell, Outer, Opened, Inner, Asked
<1>8. CASE Valid(d) = None
  <2>1. answer' = <<>> /\ stack' = Append(stack, [cell |-> d, read |-> <<>>])
    BY <1>8 DEF Ask, Enter
  <2>2. stack' # <<>> /\ stack'[1].cell = d
    BY <1>1, <2>1
  <2>3. Asked = <<>> /\ Asked' = <<d>>
    BY <1>1, <2>2 DEF Asked
  <2> QED BY <1>2, <1>4, <1>6, <2>1, <2>3 DEF Plain!Ask, Outer, Opened, Inner, Asked
<1> QED BY <1>7, <1>8

\* An action begins on a copy of what is committed.
LEMMA RunActionPlain ==
  ASSUME Consistent, Consistent', RunAction
  PROVE  Plain!Quiet /\ Plain!Begin
<1>1. /\ stack = <<>> /\ stack' = <<>> /\ answer' = <<>> /\ ~active /\ active' = TRUE
      /\ UNCHANGED <<states, live, used, writes, created, deleted>>
  BY DEF RunAction, Idle, Quiet, committed, overlay
<1>2. Store' = CommittedStore /\ CommittedStore' = CommittedStore
  BY <1>1, StoreKept, Views DEF Consistent
<1>3. LiveNow' = live
  BY <1>1 DEF Consistent, Fits, Outside, LiveNow
<1>4. Plain!Begin
  BY <1>1, <1>2, <1>3 DEF Plain!Begin
<1> QED BY <1>1, <1>4, IdlePlain

\* A statement writes one cell.
LEMMA WritePlain ==
  ASSUME Consistent, NEW c \in AllStored, NEW v \in Values(c), Write(c, v)
  PROVE  /\ Plain!Quiet /\ Plain!Write(c, v)
         /\ Opened # <<>> /\ v \in Assignable(c, Opened[1].live)
<1>1. /\ stack = <<>> /\ stack' = <<>> /\ answer' = <<>> /\ active /\ active' = TRUE /\ Exists(c)
      /\ UNCHANGED <<states, live, used, created, deleted>>
      /\ writes' = [n \in {c} \cup DOMAIN writes |-> IF n = c THEN v ELSE writes[n]]
  BY DEF Write, Idle, Quiet, committed, Consistent, Fits, Populations
<1>2. c \in Cells /\ \A x : (Exists(x))' <=> Exists(x)
  BY <1>1 DEF Cells, Exists, LiveNow
<1>3. Store' = [Store EXCEPT ![c] = v]
  <2>1. \A x : (Read(x))' = IF x = c THEN v ELSE Read(x)
    BY <1>1 DEF Read
  <2>2. \A x \in Cells : Store'[x] = IF x = c THEN v ELSE Store[x]
    BY <1>1, <1>2, <2>1 DEF Store
  <2> QED BY <2>2 DEF Store
<1>4. LiveNow' = LiveNow /\ CommittedStore' = CommittedStore
  BY <1>1 DEF LiveNow, CommittedStore
<1>5. Plain!Held(c)
  BY <1>1, <1>2, Views, Shows DEF Plain!Held, Consistent
<1>6. Plain!Write(c, v)
  BY <1>1, <1>3, <1>4, <1>5 DEF Plain!Write
<1>7. Opened # <<>> /\ v \in Assignable(c, Opened[1].live)
  BY <1>1 DEF Opened, Inner, Values
<1> QED BY <1>1, <1>6, <1>7, IdlePlain

\* An action is dropped whole.
LEMMA FailPlain ==
  ASSUME Fail
  PROVE  Plain!Quiet /\ Plain!Fail
<1>1. /\ stack = <<>> /\ stack' = <<>> /\ answer' = <<>> /\ active /\ active' = FALSE
      /\ UNCHANGED <<states, live, used>>
  BY DEF Fail, Dropped, Idle, Quiet, committed
<1>2. CommittedStore' = CommittedStore
  BY <1>1 DEF CommittedStore
<1>3. Plain!Fail
  BY <1>1, <1>2 DEF Plain!Fail
<1> QED BY <1>1, <1>3, IdlePlain

\* An identity is created with cells at their defaults.
LEMMA CreatePlain ==
  ASSUME Consistent, Blank, NEW x \in Identities, Create(x)
  PROVE  Plain!Quiet /\ Plain!Create(x)
<1>1. /\ stack = <<>> /\ stack' = <<>> /\ answer' = <<>> /\ active /\ active' = active /\ x \notin used
      /\ UNCHANGED <<states, live, writes, deleted>>
      /\ used' = used \cup {x} /\ created' = created \cup {x}
  BY DEF Create, Idle, committed
<1>2. x \notin live /\ x \notin created /\ x \notin deleted /\ x # App
  BY <1>1, ValueAssumption DEF Consistent, Fits, Populations
<1>3. LiveNow' = LiveNow \cup {x} /\ CommittedStore' = CommittedStore
  BY <1>1, <1>2 DEF LiveNow, CommittedStore
<1>4. ASSUME NEW c \in Cells
      PROVE  Store'[c] = IF c[1] = x THEN Plain!Fresh({x})[c] ELSE Store[c]
  <2>1. (Read(c))' = Read(c) /\ ((Exists(c))' <=> Exists(c) \/ c[1] = x)
    BY <1>1, <1>3 DEF Read, Exists
  <2>2. Store'[c] = IF ~(Exists(c))' THEN Failed ELSE IF c \in AllStored THEN (Read(c))' ELSE None
    BY DEF Store
  <2>3. CASE c[1] = x
    <3>1. ~Exists(c)
      BY <1>2, <2>3 DEF Exists, LiveNow
    <3>2. c \notin DOMAIN writes
      BY <3>1 DEF Consistent, Fits, Stored
    <3>3. c \in AllStored => Read(c) = Default(c)
      BY <1>2, <2>3, <3>2 DEF Read, Blank
    <3> QED BY <2>1, <2>2, <2>3, <3>3, FreshCells
  <2>4. CASE c[1] # x
    BY <2>1, <2>2, <2>4 DEF Store
  <2> QED BY <2>3, <2>4
<1>5. Store' = [c \in Cells |-> IF c[1] = x THEN Plain!Fresh({x})[c] ELSE Store[c]]
  BY <1>4 DEF Store
<1>6. Plain!Create(x)
  BY <1>1, <1>3, <1>5 DEF Plain!Create, Cells
<1> QED BY <1>1, <1>6, IdlePlain

\* An identity is destroyed with its cells, and leaves the cells that designate it.
LEMMA DestroyPlain ==
  ASSUME Consistent, NEW x \in Identities, Destroy(x)
  PROVE  Plain!Quiet /\ Plain!Destroy(x)
<1>1. /\ stack = <<>> /\ stack' = <<>> /\ answer' = <<>> /\ active /\ active' = active
      /\ UNCHANGED <<states, live, used, created>>
      /\ deleted' = deleted \cup {x} /\ x \in live \ deleted
  BY DEF Destroy, Quiet, Idle, committed
<1>2. LiveNow' = LiveNow \ {x} /\ CommittedStore' = CommittedStore /\ x \in live \cap LiveNow
  BY <1>1 DEF LiveNow, CommittedStore
<1> DEFINE naming == {c \in {App} \X AppLinks :
                        IF c[2] = "members" THEN x \in ToSet(Read(c)) ELSE Read(c) = x}
           rewritten(c) ==
             IF c[2] = "members" THEN At(Read(c), {i \in DOMAIN Read(c) : Read(c)[i] # x}) ELSE None
           kept == DOMAIN writes \ CellsOf({x})
<1>3. /\ DOMAIN writes' = naming \cup kept
      /\ \A c \in naming : writes'[c] = rewritten(c)
      /\ \A c \in kept : c \notin naming => writes'[c] = writes[c]
  BY DEF Destroy
<1>4. ASSUME NEW c \in AllStored, Exists(c), c[1] # x
      PROVE  (Read(c))' = Without(c, Read(c), x)
  <2>1. c \notin CellsOf({x})
    BY <1>4 DEF CellsOf
  <2>2. (Read(c))' = IF c \in naming THEN rewritten(c) ELSE Read(c)
    BY <1>1, <1>3, <2>1 DEF Read
  <2>3. CASE c \notin {App} \X AppLinks
    BY <2>2, <2>3 DEF Without
  <2>4. CASE c \in {App} \X AppLinks /\ c[2] = "members"
    <3>1. PICK s \in Seq(Identities) : s = Read(c)
      BY <2>4, ReadWellTyped, RowsShape DEF Consistent, TypeOf, RowMembers
    <3>2. Without(c, Read(c), x) = At(s, {i \in DOMAIN s : s[i] # x})
      BY <2>4, <3>1 DEF Without
    <3>3. CASE x \in ToSet(s)
      BY <2>2, <2>4, <3>1, <3>2, <3>3
    <3>4. CASE x \notin ToSet(s)
      <4>1. \A i \in 1 .. Len(s) : s[i] # x
        BY <3>4 DEF ToSet
      <4>2. \A i \in 1 .. Len(s) : i \in {j \in DOMAIN s : s[j] # x}
        BY <4>1
      <4>3. At(s, {i \in DOMAIN s : s[i] # x}) = s
        BY <4>2, AtWhole
      <4> QED BY <2>2, <2>4, <3>1, <3>2, <3>4, <4>3
    <3> QED BY <3>3, <3>4
  <2>5. CASE c \in {App} \X AppLinks /\ c[2] # "members"
    BY <2>2, <2>5 DEF Without
  <2> QED BY <2>3, <2>4, <2>5
<1> HIDE DEF naming, rewritten, kept
<1>5. ASSUME NEW v, NEW c, c \notin AllStored PROVE Without(c, v, x) = v
  BY <1>5 DEF Without, AllStored
<1>6. ASSUME NEW c \in Cells, ~Exists(c) PROVE Without(c, Failed, x) = Failed
  <2>1. c[1] # App
    BY <1>6 DEF Exists
  <2> QED BY <2>1 DEF Without
<1>7. ASSUME NEW c \in Cells
      PROVE  Store'[c] = IF c[1] = x THEN Failed ELSE Without(c, Store[c], x)
  <2>1. (Exists(c))' <=> Exists(c) /\ c[1] # x
    BY <1>2, ValueAssumption DEF Exists
  <2>2. Store'[c] = IF ~(Exists(c))' THEN Failed ELSE IF c \in AllStored THEN (Read(c))' ELSE None
    BY DEF Store
  <2>3. Store[c] = IF ~Exists(c) THEN Failed ELSE IF c \in AllStored THEN Read(c) ELSE None
    BY DEF Store
  <2>4. CASE c[1] = x
    BY <2>1, <2>2, <2>4
  <2>5. CASE c[1] # x /\ ~Exists(c)
    BY <1>6, <2>1, <2>2, <2>3, <2>5
  <2>6. CASE c[1] # x /\ Exists(c) /\ c \in AllStored
    BY <1>4, <2>1, <2>2, <2>3, <2>6
  <2>7. CASE c[1] # x /\ Exists(c) /\ c \notin AllStored
    BY <1>5, <2>1, <2>2, <2>3, <2>7
  <2> QED BY <2>4, <2>5, <2>6, <2>7
<1>8. Store' = [c \in Cells |-> IF c[1] = x THEN Failed ELSE Without(c, Store[c], x)]
  BY <1>7 DEF Store
<1>9. Plain!Destroy(x)
  BY <1>1, <1>2, <1>8 DEF Plain!Destroy, Cells
<1> QED BY <1>1, <1>9, IdlePlain

\* What the action sees is committed.
LEMMA CommitPlain ==
  ASSUME Consistent, Commit
  PROVE  Plain!Quiet /\ Plain!Commit
<1>1. /\ stack = <<>> /\ stack' = <<>> /\ answer' = <<>> /\ active /\ active' = FALSE /\ used' = used
      /\ live' = LiveNow
  BY DEF Commit, Dropped, Idle, LiveNow
<1>2. ASSUME NEW c \in Cells
      PROVE  CommittedStore'[c] = Store[c]
  <2>1. /\ CommittedStore'[c] = IF c[1] \notin {App} \cup LiveNow THEN Failed
                               ELSE IF c \in AllStored THEN states'[c] ELSE None
        /\ Store[c] = IF c[1] \notin {App} \cup LiveNow THEN Failed
                      ELSE IF c \in AllStored THEN Read(c) ELSE None
    BY <1>1 DEF CommittedStore, Store, Exists
  <2>2. ASSUME c \in AllStored, c[1] \in {App} \cup LiveNow PROVE states'[c] = Read(c)
    <3>1. states'[c] = IF c \in CellsOf(deleted) THEN Default(c)
                       ELSE IF c \in DOMAIN writes /\ writes[c] # states[c] THEN writes[c] ELSE states[c]
      BY <2>2 DEF Commit
    <3>2. c \notin CellsOf(deleted)
      BY <2>2, ValueAssumption DEF CellsOf, LiveNow, Consistent, Fits, Populations
    <3> QED BY <3>1, <3>2 DEF Read
  <2> QED BY <2>1, <2>2
<1>3. CommittedStore' = Store
  BY <1>2 DEF CommittedStore, Store
<1>4. Plain!Commit
  BY <1>1, <1>3 DEF Plain!Commit
<1> QED BY <1>1, <1>4, IdlePlain

\* Every step is one of the kernel without caches, or none.
LEMMA NextPlain ==
  NoCapture => (Consistent /\ Consistent' /\ Blank /\ [Next]_vars => [Plain!Next]_(Plain!vars))
<1> SUFFICES ASSUME NoCapture, Consistent, Consistent', Blank, [Next]_vars
             PROVE  Plain!Next \/ UNCHANGED Plain!vars
  OBVIOUS
<1>1. CASE EvaluationStep
  BY <1>1, EvaluationPlain DEF Plain!Next
<1>2. CASE RunAction
  BY <1>2, RunActionPlain DEF Plain!Next
<1>3. CASE Fail
  BY <1>3, FailPlain DEF Plain!Next
<1>4. CASE Commit
  BY <1>4, CommitPlain DEF Plain!Next
<1>5. CASE \E d \in AllDerived : Ask(d)
  BY <1>5, AskPlain DEF Plain!Next
<1>6. CASE \E c \in AllStored : \E v \in Values(c) : Write(c, v)
  <2>1. PICK c \in AllStored : \E v \in Values(c) : Write(c, v)
    BY <1>6
  <2>2. PICK v \in Values(c) : Write(c, v)
    BY <2>1
  <2> QED BY <2>2, WritePlain DEF Plain!Next, Opened, Inner
<1>7. CASE \E x \in Identities : Create(x)
  BY <1>7, CreatePlain DEF Plain!Next
<1>8. CASE \E x \in Identities : Destroy(x)
  BY <1>8, DestroyPlain DEF Plain!Next
<1>9. CASE UNCHANGED vars
  <2>1. UNCHANGED <<states, live, writes, created, deleted, active, used, stack, answer>>
    BY <1>9 DEF vars, committed, overlay
  <2>2. Store' = Store /\ CommittedStore' = CommittedStore /\ LiveNow' = LiveNow
    BY <2>1, StoreKept DEF LiveNow
  <2> QED BY <2>1, <2>2 DEF Plain!vars
<1> QED BY <1>1, <1>2, <1>3, <1>4, <1>5, <1>6, <1>7, <1>8, <1>9 DEF Next

\* No program without capture can tell the kernel from one that has no caches: every
\* answer, every failure of an action over a value, and every world that an action leaves is
\* one that the kernel gives which recomputes everything from the stored cells.
THEOREM CachesInvisible == ASSUME NoCapture PROVE Spec => ImplementsRecomputedWorld
<1>1. Init => Plain!Init /\ Blank
  BY InitPlain DEF Init, Blank
<1>2. Consistent /\ [Next]_vars => Consistent'
  BY ConsistentKept
<1>3. Consistent /\ Blank /\ [Next]_vars => Blank'
  BY BlankKept
<1>4. Consistent /\ Consistent' /\ Blank /\ [Next]_vars => [Plain!Next]_(Plain!vars)
  BY NextPlain
<1> QED BY InitConsistent, <1>1, <1>2, <1>3, <1>4, PTL DEF Spec, ImplementsRecomputedWorld, Plain!Spec
=============================================================================
