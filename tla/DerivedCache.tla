---------------------------- MODULE DerivedCache ----------------------------
(***************************************************************************)
(* The reactive kernel of compiler/src/runtime.rs: derived cells cached    *)
(* with dependency edges discovered while they evaluate, once for the      *)
(* committed world (StateCell, DerivedCell) and once for the open          *)
(* transaction (derived_values, derived_dependencies, dependents).         *)
(*                                                                         *)
(* A cell is <<root, member>>.  Static roots are one root App, whose       *)
(* expressions were lowered to qualified names; a dynamic identity keeps   *)
(* the raw member names of its model.  An expression is abstracted to the  *)
(* reads it makes, each of which may depend on the values read so far:     *)
(* addition, a condition, a member of a designated identity, a reduction   *)
(* that adds one member of each element, a filter that keeps the elements  *)
(* whose member is not 0.  Evaluation is a machine over eval_stack that    *)
(* makes one read per step, so that a failure may come between any two.    *)
(*                                                                         *)
(* An operator named Mutant... is a wrong version of the one after it,     *)
(* which a property must tell from it; the specification uses none.        *)
(***************************************************************************)
EXTENDS Integers, SequencesExt

CONSTANTS
  App,          \* the static roots
  Identities,   \* dynamic identities the program may create, each once
  AppInts, ElementInts,        \* stored Int members
  AppLinks,     \* stored members of App that designate: "members", "selected"
  AppDerived, ElementDerived,  \* derived members
  Expression,   \* derived member -> [op, args, member, accumulator, element]: the last two
                \* are the names that a reduction or a filter binds
  MaxInt,       \* the largest Int: checked arithmetic fails above it
  Inputs,       \* bound: the Ints that statements assign
  MaxLength,    \* bound: occurrences in the membership of App
  MaxWrites,    \* bound: cells one action assigns
  None, Failed

\* The members that hold an Int, and the ones that hold rows.
IntMembers ==
  AppInts \cup ElementInts \cup {m \in AppDerived \cup ElementDerived : Expression[m].op # "filter"}
RowMembers == {"members"} \cup {m \in AppDerived \cup ElementDerived : Expression[m].op = "filter"}
Rows == BoundedSeq(Identities, MaxLength)

\* A program that the semantic analysis accepts: a name stands for one kind of member, and
\* an expression reads members of the types that its operation takes.
ASSUME ProgramAssumption ==
  /\ AppLinks \subseteq {"members", "selected"}
  /\ (AppInts \cup ElementInts) \cap (AppDerived \cup ElementDerived) = {}
  /\ {"members", "selected"} \cap (AppInts \cup ElementInts \cup AppDerived \cup ElementDerived) = {}
  /\ \A m \in AppDerived \cup ElementDerived :
       LET e == Expression[m] IN
       \/ e.op = "add" /\ e.args \in IntMembers \X IntMembers
       \/ e.op = "if" /\ e.args \in IntMembers \X IntMembers \X IntMembers
       \/ e.op = "follow" /\ e.args = <<"selected">> /\ e.member \in IntMembers
       \/ e.op \in {"sum", "filter"} /\ (\E s \in RowMembers : e.args = <<s>>) /\ e.member \in IntMembers

ASSUME ValueAssumption ==
  /\ MaxLength \in Nat /\ MaxInt \in Int /\ Inputs \subseteq Int
  /\ IsFiniteSet(Identities) /\ IsFiniteSet(AppDerived) /\ IsFiniteSet(ElementDerived)
  /\ App \notin Identities /\ None # Failed
  /\ \A v \in {None, Failed} : v \notin Int /\ v \notin Rows /\ v \notin {App} \cup Identities

VARIABLES
  states,        \* committed values of stored cells
  live,          \* committed dynamic identities
  used,          \* identities created so far, by a failed action too
  cached,        \* DerivedCell.cached
  graph,         \* the edges: DerivedCell.dependencies, and dependents of every cell
  active,        \* transaction.is_some()
  writes, created, deleted,
  staged,        \* transaction.derived_values
  stagedGraph,   \* transaction.derived_dependencies and dependents
  stack,         \* eval_stack with what each evaluation has read
  answer         \* what the last completed read returned

committed == <<states, live, cached, graph>>
overlay == <<writes, created, deleted, staged, stagedGraph>>
vars == <<committed, used, active, overlay, stack, answer>>
-----------------------------------------------------------------------------
AllStored == ({App} \X (AppInts \cup AppLinks)) \cup (Identities \X ElementInts)
AllDerived == ({App} \X AppDerived) \cup (Identities \X ElementDerived)
Cells == AllStored \cup AllDerived
CellsOf(X) == {c \in Cells : c[1] \in X}

Default(c) == IF c[2] = "members" THEN <<>> ELSE IF c[2] = "selected" THEN None ELSE 0

LiveNow == (live \cup created) \ deleted
MutantExistsDeleted(c) == c[1] \in {App} \cup live \cup created
Exists(c) == c[1] \in {App} \cup LiveNow   \* state_exists, derived_exists
Read(c) == IF c \in DOMAIN writes THEN writes[c] ELSE states[c]
MutantValidCommitted(d) == IF active /\ staged[d] # None THEN staged[d] ELSE cached[d]
Valid(d) == IF active THEN staged[d] ELSE cached[d]
Unset == [d \in AllDerived |-> None]

\* The edges as a graph: what each derived cell read, and who watches each cell.
NoEdges == [deps |-> [d \in AllDerived |-> {}], watchers |-> [c \in Cells |-> {}]]

MutantLinkedStatic(g, d, c) ==
  IF c[1] # App THEN g
  ELSE [deps |-> [g.deps EXCEPT ![d] = @ \cup {c}],
        watchers |-> [g.watchers EXCEPT ![c] = @ \cup {d}]]

\* register_dependency
Linked(g, d, c) ==
  [deps |-> [g.deps EXCEPT ![d] = @ \cup {c}], watchers |-> [g.watchers EXCEPT ![c] = @ \cup {d}]]

MutantUnlinkedNothing(g, d) == g

\* clear_committed_dependencies and clear_transaction_dependencies
Unlinked(g, d) ==
  [deps |-> [g.deps EXCEPT ![d] = {}],
   watchers |-> [c \in Cells |-> IF c \in g.deps[d] THEN g.watchers[c] \ {d} ELSE g.watchers[c]]]

MutantDownstreamOneStep(C, g, T) == UNION {g.watchers[c] : c \in C}

\* The derived cells that C reaches over watchers, going on only through T.
Downstream(C, g, T) ==
  {w \in AllDerived :
     \A S \in SUBSET AllDerived :
       (\A c \in C \cup (S \cap T) : g.watchers[c] \subseteq S) => w \in S}

MutantInvalidatedDirect(C) ==
  [d \in AllDerived |-> IF \E c \in C : d \in stagedGraph.watchers[c] THEN None ELSE staged[d]]

\* invalidate_transaction_dependency, for the cells of C; what the transaction sees is staged.
Invalidated(C) ==
  LET stale == Downstream(C, stagedGraph, AllDerived)
  IN  [d \in AllDerived |-> IF d \in stale THEN None ELSE staged[d]]

Graph == IF active THEN stagedGraph ELSE graph
SetGraph(g) ==
  IF active THEN stagedGraph' = g /\ UNCHANGED graph ELSE graph' = g /\ UNCHANGED stagedGraph
-----------------------------------------------------------------------------
(* One evaluation.                                                         *)

Top == stack[Len(stack)]
Formula(f) == Expression[f.cell[2]]
Sum(s) ==
  LET total[n \in 0 .. Len(s)] == IF n = 0 THEN 0 ELSE total[n - 1] + s[n]
  IN  total[Len(s)]

\* The elements of s at the positions in P, in their order.
At(s, P) ==
  LET taken[n \in 0 .. Len(s)] ==
        IF n = 0 THEN <<>> ELSE IF n \in P THEN Append(taken[n - 1], s[n]) ELSE taken[n - 1]
  IN  taken[Len(s)]

\* What f reads next: a member named raw in its own expression, or reached through a
\* designation or an element; none when it has read everything.
Wanted(f) ==
  LET e == Formula(f)
      n == Len(f.read)
      own(i) == {[root |-> f.cell[1], member |-> e.args[i], raw |-> f.cell[1] # App]}
      of(x) == {[root |-> x, member |-> e.member, raw |-> FALSE]}
  IN  CASE n = 0 -> own(1)
        [] e.op = "add" /\ n = 1 -> own(2)
        [] e.op = "if" /\ n = 1 -> own(IF f.read[1] # 0 THEN 2 ELSE 3)
        [] e.op = "follow" /\ n = 1 -> of(f.read[1])
        [] e.op \in {"sum", "filter"} /\ n # 0 /\ n <= Len(f.read[1]) -> of(f.read[1][n])
        [] OTHER -> {}

\* Checked arithmetic overflows as soon as it does.
Overflows(f) ==
  CASE Formula(f).op = "add" -> Len(f.read) = 2 /\ Sum(f.read) > MaxInt
    [] Formula(f).op = "sum" -> f.read # <<>> /\ Sum(Tail(f.read)) > MaxInt
    [] OTHER -> FALSE

\* The elements of a filter for which the predicate was not 0.
Kept(f) == At(f.read[1], {n \in 1 .. Len(f.read) - 1 : f.read[n + 1] # 0})

Result(f) ==
  CASE Formula(f).op = "add" -> Sum(f.read)
    [] Formula(f).op = "sum" -> Sum(Tail(f.read))
    [] Formula(f).op = "filter" -> Kept(f)
    [] OTHER -> f.read[Len(f.read)]

\* reduction_frames: read_name asks the innermost one before anything else.
Reducing == {i \in 1 .. Len(stack) : Formula(stack[i]).op = "sum" /\ stack[i].read # <<>>}
Innermost == {i \in Reducing : \A j \in Reducing : j <= i}
Captures(w) == w.raw /\ \E i \in Innermost : Formula(stack[i]).accumulator = w.member

\* element_frames: next it asks the innermost of these, whose element is no value to read.
Traversing ==
  {i \in 1 .. Len(stack) : Formula(stack[i]).op \in {"sum", "filter"} /\ stack[i].read # <<>>}
Shadows(w) ==
  /\ w.raw
  /\ \E i \in Traversing : (\A j \in Traversing : j <= i) /\ Formula(stack[i]).element = w.member

MutantDroppedKeepsStaged ==
  /\ active' = FALSE
  /\ writes' = <<>> /\ created' = {} /\ deleted' = {}
  /\ UNCHANGED <<staged, stagedGraph>>

\* The transaction is dropped whole; the identities it created stay used.
Dropped ==
  /\ active' = FALSE
  /\ writes' = <<>> /\ created' = {} /\ deleted' = {}
  /\ staged' = Unset /\ stagedGraph' = NoEdges

\* eval_derived of a cell without a valid value: its old edges go and it is pushed.
Enter(d, g) ==
  /\ stack' = Append(stack, [cell |-> d, read |-> <<>>])
  /\ SetGraph(Unlinked(g, d))

MutantReadsNoZero(v) ==
  stack' = IF Top.read # <<>> /\ v = 0 THEN stack ELSE [stack EXCEPT ![Len(stack)].read = Append(@, v)]

\* A value read by the top evaluation.
Reads(v) == stack' = [stack EXCEPT ![Len(stack)].read = Append(@, v)]
MutantCyclicTop(c) == Top.cell = c
Cyclic(c) == \E i \in 1 .. Len(stack) : stack[i].cell = c

Evaluating == <<states, live, used, active, writes, created, deleted>>

\* A statement or the host reads a derived cell.
Ask(d) ==
  /\ stack = <<>> /\ Exists(d)
  /\ IF Valid(d) # None
     THEN /\ answer' = <<d, Valid(d)>>
          /\ UNCHANGED <<graph, stagedGraph, stack>>
     ELSE Enter(d, Graph) /\ answer' = <<>>
  /\ UNCHANGED <<Evaluating, cached, staged>>

\* read_name answered at once: the accumulator of an enclosing reduction (no cell and no
\* edge), a stored cell, or a derived cell with a valid value.
ReadName ==
  /\ stack # <<>> /\ ~Overflows(Top)
  /\ \E w \in Wanted(Top) :
       LET c == <<w.root, w.member>> IN
       IF Captures(w)
       THEN /\ \E i \in Innermost : Reads(Sum(Tail(stack[i].read)))
            /\ UNCHANGED <<graph, stagedGraph>>
       ELSE /\ ~Shadows(w) /\ c \in Cells /\ Exists(c)
            /\ c \in AllDerived => Valid(c) # None
            /\ SetGraph(Linked(Graph, Top.cell, c))
            /\ Reads(IF c \in AllStored THEN Read(c) ELSE Valid(c))
  /\ UNCHANGED <<Evaluating, cached, staged, answer>>

\* read_name of a derived cell that has to be evaluated first.
EnterDerived ==
  /\ stack # <<>> /\ ~Overflows(Top)
  /\ \E w \in Wanted(Top) :
       LET c == <<w.root, w.member>> IN
       /\ ~Captures(w) /\ ~Shadows(w) /\ c \in AllDerived /\ Exists(c)
       /\ Valid(c) = None /\ ~Cyclic(c)
       /\ Enter(c, Linked(Graph, Top.cell, c))
  /\ UNCHANGED <<Evaluating, cached, staged, answer>>

\* The top evaluation has read everything: its value is cached and handed down.
Finish ==
  /\ stack # <<>> /\ ~Overflows(Top) /\ Wanted(Top) = {}
  /\ LET v == Result(Top)
         rest == SubSeq(stack, 1, Len(stack) - 1)
     IN  /\ IF active
            THEN staged' = [staged EXCEPT ![Top.cell] = v] /\ UNCHANGED cached
            ELSE cached' = [cached EXCEPT ![Top.cell] = v] /\ UNCHANGED staged
         /\ IF rest = <<>>
            THEN stack' = <<>> /\ answer' = <<Top.cell, v>>
            ELSE /\ stack' = [rest EXCEPT ![Len(rest)].read = Append(@, v)]
                 /\ UNCHANGED answer
  /\ UNCHANGED <<Evaluating, graph, stagedGraph>>

\* Overflow, the name of an element, an absent target or a cycle: every evaluation of the
\* stack fails, and with it the action, if one is running.
FailEvaluation ==
  /\ stack # <<>>
  /\ \/ Overflows(Top)
     \/ \E w \in Wanted(Top) :
          LET c == <<w.root, w.member>> IN
          /\ ~Captures(w)
          /\ \/ Shadows(w) \/ c \notin Cells \/ ~Exists(c)
             \/ c \in AllDerived /\ Valid(c) = None /\ Cyclic(c)
  /\ stack' = <<>>
  /\ IF active THEN Dropped /\ answer' = <<>> ELSE answer' = <<stack[1].cell, Failed>> /\ UNCHANGED <<active, overlay>>
  /\ UNCHANGED <<committed, used>>

EvaluationStep == ReadName \/ EnterDerived \/ Finish \/ FailEvaluation
-----------------------------------------------------------------------------
(* The transaction around it.                                              *)

Idle == stack = <<>>
Quiet == UNCHANGED <<committed, used, stack>> /\ answer' = <<>>

RunAction ==
  /\ Idle /\ ~active /\ active' = TRUE
  /\ Quiet /\ UNCHANGED overlay

\* write_state
Write(c, v) ==
  /\ Idle /\ active /\ Exists(c)
  /\ c \in DOMAIN writes \/ Cardinality(DOMAIN writes) < MaxWrites
  /\ writes' = [n \in {c} \cup DOMAIN writes |-> IF n = c THEN v ELSE writes[n]]
  /\ staged' = Invalidated({c})
  /\ Quiet /\ UNCHANGED <<active, created, deleted, stagedGraph>>

\* instantiate_runtime_model: cells with their defaults, nothing cached.
Create(x) ==
  /\ Idle /\ active /\ x \notin used
  /\ used' = used \cup {x} /\ created' = created \cup {x}
  /\ UNCHANGED <<committed, active, writes, deleted, staged, stagedGraph, stack>>
  /\ answer' = <<>>

\* terminate_runtime_model: what names x is rewritten, then the cells of x leave.
Destroy(x) ==
  /\ Idle /\ active /\ x \in live \ deleted
  /\ LET naming == {c \in {App} \X AppLinks :
                      IF c[2] = "members" THEN x \in ToSet(Read(c)) ELSE Read(c) = x}
         rewritten(c) ==
           IF c[2] = "members" THEN At(Read(c), {i \in DOMAIN Read(c) : Read(c)[i] # x}) ELSE None
         own == CellsOf({x})
         valid == Invalidated(naming \cup own)
         kept == DOMAIN writes \ own
         unlinked(g) ==
           [deps |-> [d \in AllDerived |-> IF d \in own THEN {} ELSE g.deps[d]],
            watchers |-> [c \in Cells |-> g.watchers[c] \ {d \in own : d \in AllDerived /\ c \in g.deps[d]}]]
     IN  /\ writes' = [n \in naming \cup kept |-> IF n \in naming THEN rewritten(n) ELSE writes[n]]
         /\ staged' = [d \in AllDerived |-> IF d \in own THEN None ELSE valid[d]]
         /\ stagedGraph' = unlinked(stagedGraph)
  /\ deleted' = deleted \cup {x}
  /\ Quiet /\ UNCHANGED <<active, created>>

\* `fail`, or an error in a statement that evaluates nothing.
Fail == Idle /\ active /\ Dropped /\ Quiet

\* commit: created cells join, changed values and deleted cells invalidate what watches
\* them as far as it is valid, then the deleted cells leave with their edges.
Commit ==
  /\ Idle /\ active
  /\ LET changed == {c \in DOMAIN writes : writes[c] # states[c]}
         gone == CellsOf(deleted)
         stale == Downstream(changed \cup gone, graph, {d \in AllDerived : cached[d] # None})
     IN  /\ states' = [c \in AllStored |->
                         IF c \in gone THEN Default(c) ELSE IF c \in changed THEN writes[c] ELSE states[c]]
         /\ live' = (live \cup created) \ deleted
         /\ cached' = [d \in AllDerived |-> IF d \in stale \cup gone THEN None ELSE cached[d]]
         /\ graph' = [deps |-> [d \in AllDerived |-> IF d \in gone THEN {} ELSE graph.deps[d]],
                      watchers |-> [c \in Cells |->
                        IF c \in gone THEN {}
                        ELSE {w \in graph.watchers[c] : w \in gone => c \notin graph.deps[w]}]]
  /\ Dropped
  /\ UNCHANGED <<used, stack>> /\ answer' = <<>>
-----------------------------------------------------------------------------
Init ==
  /\ states = [c \in AllStored |-> Default(c)]
  /\ live = {} /\ used = {} /\ cached = Unset /\ graph = NoEdges
  /\ active = FALSE
  /\ writes = <<>> /\ created = {} /\ deleted = {} /\ staged = Unset /\ stagedGraph = NoEdges
  /\ stack = <<>> /\ answer = <<>>

\* What a statement may assign to c: Inputs, or designations of the identities S.
Assignable(c, S) ==
  CASE c[2] = "members" -> BoundedSeq(S, MaxLength)
    [] c[2] = "selected" -> S \cup {None}
    [] OTHER -> Inputs
Values(c) == Assignable(c, LiveNow)

Next ==
  \/ EvaluationStep
  \/ RunAction \/ Fail \/ Commit
  \/ \E d \in AllDerived : Ask(d)
  \/ \E c \in AllStored : \E v \in Values(c) : Write(c, v)
  \/ \E x \in Identities : Create(x) \/ Destroy(x)

\* Evaluation is a synchronous call: once begun it runs on.
Spec == Init /\ [][Next]_vars /\ WF_vars(EvaluationStep)
-----------------------------------------------------------------------------
(* Properties.                                                             *)

CacheFits(values, S) == \A d \in AllDerived : values[d] # None => d[1] \in S
GraphFits(g) ==
  /\ DOMAIN g.deps = AllDerived /\ \A d \in AllDerived : g.deps[d] \subseteq Cells
  /\ DOMAIN g.watchers = Cells /\ \A c \in Cells : g.watchers[c] \subseteq AllDerived

\* The shape of the caches: only cells that exist hold a value, and outside a
\* transaction nothing is staged.
TypeOK ==
  /\ DOMAIN states = AllStored
  /\ live \cup created \subseteq used /\ used \subseteq Identities
  /\ deleted \subseteq live /\ live \cap created = {}
  /\ CacheFits(cached, {App} \cup live) /\ CacheFits(staged, {App} \cup LiveNow)
  /\ GraphFits(graph) /\ GraphFits(stagedGraph)
  /\ DOMAIN writes \subseteq AllStored /\ \A c \in DOMAIN writes : Exists(c)
  /\ ~active => writes = <<>> /\ created = {} /\ deleted = {} /\ staged = Unset /\ stagedGraph = NoEdges

-----------------------------------------------------------------------------
(* Evaluation by definition, with no cache and no edges: the cells of f    *)
(* are looked up in a `sight`, which has Failed where nothing is to be     *)
(* seen.                                                                   *)

MaxReads == MaxLength + 2

Asks(f) == {<<w.root, w.member>> : w \in Wanted(f)}

Advanced(f, sight) ==
  IF ~Overflows(f) /\ \E c \in Asks(f) : c \in Cells /\ sight[c] # Failed
  THEN [cell |-> f.cell, read |-> Append(f.read, sight[CHOOSE c \in Asks(f) : TRUE])]
  ELSE f

\* The evaluation of d after each number of reads, and all the cells it asks for.
Steps(d, sight) ==
  LET step[n \in 0 .. MaxReads] ==
        IF n = 0 THEN [cell |-> d, read |-> <<>>] ELSE Advanced(step[n - 1], sight)
  IN  step
Footprint(d, sight) == UNION {Asks(Steps(d, sight)[n]) : n \in 0 .. MaxReads}

Outcome(d, sight) ==
  LET f == Steps(d, sight)[MaxReads]
  IN  IF Overflows(f) \/ Wanted(f) # {} THEN Failed ELSE Result(f)

\* What is stored in the cells that exist, with None in a derived one.
Store == [c \in Cells |-> IF ~Exists(c) THEN Failed ELSE IF c \in AllStored THEN Read(c) ELSE None]

\* What an evaluation can be given at once: what is stored, and what caches hold.
Seen(store, cache) ==
  [c \in Cells |->
     IF store[c] = Failed \/ c \in AllStored THEN store[c]
     ELSE IF cache[c] = None THEN Failed ELSE cache[c]]
Sight == Seen(Store, IF active THEN staged ELSE cached)

\* The values that follow from what is stored alone, by evaluations nested at most n deep;
\* deeper than there are derived cells there are only cycles, which fail.
Recomputed(store, sight) ==
  [c \in Cells |-> IF store[c] = Failed \/ c \in AllStored THEN store[c] ELSE Outcome(c, sight)]
Depth == Cardinality(AllDerived) + 1
Levels(store) ==
  LET level[n \in 0 .. Depth] ==
        IF n = 0 THEN [c \in Cells |-> Failed] ELSE Recomputed(store, level[n - 1])
  IN  level
Meaning == Levels(Store)[Depth]

\* No element expression names its own member as a reduction or a filter it may run under
\* names its accumulator or its element.  The semantic analysis does not require it: without
\* it the kernel answers by the reader's names (the run derived_clash), so the theorems
\* assume it.
NoCapture ==
  \A m \in ElementDerived, s \in AppDerived \cup ElementDerived :
    \A i \in DOMAIN Expression[m].args :
      /\ Expression[s].op = "sum" => Expression[m].args[i] # Expression[s].accumulator
      /\ Expression[s].op \in {"sum", "filter"} => Expression[m].args[i] # Expression[s].element

\* Between two steps of the host or of an action, every value the reader would be
\* given from a cache (the committed one, or the staged one inside a transaction) is
\* what recomputation from the visible store gives.
CacheCoherent == Idle => \A d \in AllDerived : Valid(d) # None => Valid(d) = Meaning[d]

\* What a read returns, a failure included, is the value its definition has in the
\* store the reader sees, whatever was cached, invalidated, created or destroyed before.
AnswerCorrect == answer # <<>> => answer[2] = Meaning[answer[1]]

\* The value of a valid cell is the one its reads give now, and the cell hangs on exactly
\* those reads: the edges of an earlier evaluation are gone, every edge is recorded at both
\* ends, and none leads to a cell that is itself invalid or gone (clear_*_dependencies,
\* register_dependency and the invalidations of write_state, terminate_runtime_model and
\* commit).
EdgesExact ==
  Idle => \A d \in AllDerived :
    Valid(d) # None =>
      /\ Outcome(d, Sight) = Valid(d)
      /\ Graph.deps[d] = Footprint(d, Sight)
      /\ \A c \in Footprint(d, Sight) : d \in Graph.watchers[c]

\* No cell is evaluated inside its own evaluation, however long the cycle and wherever it
\* closes: eval_derived recurses no deeper than there are derived cells.
CyclesCaught == \A i, j \in 1 .. Len(stack) : stack[i].cell = stack[j].cell => i = j

\* The steps that are left at most: the cells without a value, the room on the stack, and the
\* reads of the evaluation on top, in this order of weight.
Invalid == {d \in AllDerived : Valid(d) = None}
Room == Cardinality(AllDerived) - Len(stack)
Left ==
  IF stack = <<>> THEN 0
  ELSE (Cardinality(Invalid) * Depth + Room) * (MaxReads + 1) + (MaxReads - Len(Top.read))

\* Every step of an evaluation brings its end nearer, whatever it reads, wherever it fails
\* and however deep eval_derived has gone: no cell is evaluated twice for one answer, unless
\* something was written in between.
EvaluationShrinks == [][stack # <<>> => Left' \in 0 .. Left - 1]_vars

\* An evaluation that began ends, with a value or a failure.
EvaluationEnds == stack # <<>> ~> stack = <<>>
-----------------------------------------------------------------------------
(* The kernel without caches that this one is to be indistinguishable from. *)

\* What is committed, as a store.
CommittedStore ==
  [c \in Cells |->
     IF c[1] \notin {App} \cup live THEN Failed ELSE IF c \in AllStored THEN states[c] ELSE None]
MeaningOf(store) == Levels(store)[Depth]

\* What terminate_runtime_model leaves of the value v of c.
Without(c, v, x) ==
  IF c \notin {App} \X AppLinks THEN v
  ELSE IF c[2] = "members" THEN At(v, {i \in DOMAIN v : v[i] # x})
  ELSE IF v = x THEN None ELSE v

Plain ==
  INSTANCE RecomputedWorld WITH
    Stored <- AllStored, Derived <- AllDerived, Meaning <- MeaningOf,
    committed <- [live |-> live, store |-> CommittedStore],
    open <- IF active THEN <<[live |-> LiveNow, store |-> Store]>> ELSE <<>>,
    asked <- IF stack = <<>> THEN <<>> ELSE <<stack[1].cell>>

\* Caches are invisible: whatever they hold, whatever is invalidated and whenever an
\* evaluation fails, a reader sees the world and the answers of the kernel that has none, and
\* an action fails over a value only if the value has no meaning.
ImplementsRecomputedWorld == Plain!Spec
=============================================================================
