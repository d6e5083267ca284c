# Formal model of the Elanu compiler and runtime

Elanu is a small language whose programs are modeled state, derived values and
actions. A program is one tree of `state model` instances with identities, stored
members, `live T` designations, ordered `[live T]` memberships and `derived` members;
an `action` changes it as one transaction. `compiler/` holds the compiler and the
bootstrap interpreter (Rust). This directory holds TLA+ modules of the compiler passes, of
the interpreter and of the runtime's transactions, caches and persistence, TLC configurations that check them on small
instances, and proofs that TLAPS checks for every instance.

## 1. Inventory

### The parts and how they interact

| Part | Source (under `compiler/src/`) | State it keeps | Modelled in |
|---|---|---|---|
| Identity lifetime and provenance | `runtime.rs` 399–2225, 3003–3086 | `states`, `dynamic_model_owners`, `next_dynamic_identity`, and the overlay `transaction` | `Lifetime`, `Provenance`, `AtomicWorld` |
| Reactive kernel | `runtime.rs` 2227–3086 | `DerivedCell.cached`, `dependencies`, `dependents`, the transaction's copies, `eval_stack`, the frames | `DerivedCache`, `RecomputedWorld` |
| Partial durability | `runtime/persistence/partial.rs` | handles, tokens, resident payloads; the provider's manifest and payloads | `PartialPersistence`, `FullWorld` |
| Whole-world durability | `runtime/persistence.rs` 498–582 | the provider's image | not modelled (section 6) |
| Ordered structure | `structural_move.rs`, `relative_navigation.rs`, `runtime.rs` 1514–1908, 2360–2520 | none (sequences) | `OrderedStructure` |
| Statement execution: expressions, calls, grants | `runtime.rs` 560–760, 1111–1184, 1910–2225, 2360–2720 | `action_stack`, `action_frames`, `cells` | `Interpreter` |
| Arithmetic and comparison | `runtime.rs` 3088–3440 | none | `Numbers` |
| Syntax tree, semantic analysis, facts | `ast.rs`, `semantic.rs`, `model_types.rs`, `program_facts.rs` | none | `Syntax`, `Typing`, `ModelTypes` |
| Lowering passes | one source file for each | none | one module for each, `Toolchain` |
| Surfaces, lexer, parser | `*_surface.rs`, `lexer.rs`, `parser.rs` | none | the insert surface only (section 6) |
| Codec | `runtime/persistence.rs` 15–440, `partial.rs` 803–1110 | none | not modelled |

Source text goes through ten textual surfaces, lexer, parser, semantic analysis and a
chain of lowerings (`lib.rs`) and becomes a `CheckedSource`. `Runtime` interprets it.
A host calls `run_action` and `value` on a `Runtime`, on a `PersistentRuntime` (every
action publishes a whole image) or on a `PartialPersistentRuntime` (identities may stay
dormant in a backing store). The wrappers do not use `Runtime::run_action`: they open
the transaction themselves, call `invoke_action`, take the transaction out, and commit
it into a *candidate* runtime built from the prior image, which replaces the running one
only after the provider accepted it.

The compiler is a chain of passes, each of which takes the tree the one before it left and
removes a feature from it (`check_source_with_runtime_models`): insertions become calls of
generated actions, member reductions, views and member sequences become top-level
declarations after their root, grants through runtime indices become grants of a carrier,
sequences become encoded strings, designations become strings that name a root, models become
one cell for each member. Passes speak to each other through *names and encodings* (`$mseq`,
`$filter`, `$smp`, `$dsg`, ...): one pass relies on what another generated, and what the
runtime executes is five encodings away from the source.

There is no concurrency: one host thread, synchronous calls. What is hard is

* **transactions over an overlay**: six maps staged beside the committed ones, read
  through, merged in one order, dropped whole (`Transaction`);
* **lifetimes**: identities end while designations, memberships, captured names, dormant
  payloads and derived caches still name them;
* **caches**: edges discovered while evaluating, invalidated transitively in two worlds,
  with evaluations that fail half way;
* **passes that must agree**: a feature is checked in one pass, encoded in a second, used in
  a third and decoded by the runtime; what each pass lets through is the next one's
  precondition, and no test states it;
* **numbers**: checked integers, rounded floats, and a comparison between them that must not
  round; the runtime decides from an equality whether caches survive a commit;
* **retries and failures**: an action restarted with a payload it asked for, a provider
  that refuses, a process that ends between acceptance and installation.

### What makes each part correct

* Lifetime: every owner alive, no cycle of owners; nothing names a dead identity; an
  identity is never handed out twice; an action is all or nothing.
* Reactive kernel: a value answered from a cache is the value recomputation gives; the
  edges of a valid cell are exactly its reads; evaluation ends.
* Ordered structure: a row named through a view is that row of the membership, whatever
  duplicates and hidden rows lie between; a move moves one row; an ordered view is stable.
* Compiler and interpreter: what a compiled program does, observed at the paths of its source,
  is what the source means; a program that passes the checks meets none of the errors they
  are there to exclude; the checks refuse the programs that are not of the language and no
  others.
* Numbers: comparison is that of the exact values; values the commit takes for the same give
  every operator the same result; operators stay within their types.
* Partial durability: residency is invisible, the cleanup summaries are exact, process
  and provider agree between actions, a token belongs to one identity for ever.

## 2. Modules

| Module | Content |
|---|---|
| `Provenance` | the owner relation: reachability, acyclicity, subtrees, without recursion |
| `AtomicWorld` | what an action promises: work on a private sound copy, published or dropped whole |
| `Lifetime` | the store and the transaction overlay, one action per statement |
| `LifetimeProofs`, `DerivedCacheProofs`, `OrderedStructureProofs`, `PartialPersistenceProofs`, `NumbersProofs` | the proofs about the module each is named for (section 4) |
| `EvaluationFacts` | lemmas on evaluation by definition, of no state: what a cell's value depends on |
| `CacheFacts` | lemmas on a store, a cache over it, its edges, and evaluations under way on them |
| `InductionFacts` | induction and recursion on the naturals, stated for sets |
| `DerivedCache` | derived cells, edges, evaluation as a stack machine, the transaction around it |
| `RecomputedWorld` | what the reactive kernel promises: one world, one open copy, answers recomputed from it |
| `OrderedStructure` | a membership, its filtered and ordered views, the statements that address a row |
| `FullWorld` | what a durable application promises: one world, changed in place |
| `PartialPersistence` | manifest, store, process, retry loop, candidate, publication |
| `Numbers` | i64 of `Bits` bits, f64 of `Precision` bits and unit `1/Q`, the operators and `coerce_value` |
| `Syntax` | the tree the passes exchange |
| `Typing` | `semantic.rs`: types, statements, calls, grants |
| `ModelTypes` | the types of model members and the facts the passes ask for |
| `ExistingDesignationInsert`, `ReductionIntegration`, `FilterIntegration`, `ModelSequenceIntegration`, `RuntimeIndexGrantTransport`, `SequenceLowering`, `ReductionLowering`, `RuntimeReductionTyping`, `LiveDesignationLowering`, `ModelLowering`, `RuntimeSequenceRealization` | the passes, each named for its source file, in the order in which they run |
| `Interpreter` | how `Runtime` boots and executes a lowered program |
| `Toolchain` | composes the passes, the check and the interpreter |
| `Compilation` | a host, one program, and a compiler and interpreter given as constants |
| `Language` | what a source program means, with no compilation |
| `MCLifetime`, `MCDerivedCache`, `MCOrderedStructure`, `MCPartialPersistence`, `MCNumbers`, `MCCompilation` | the instances TLC checks |

### Lifetime

A cell name is `<<kind, owner>>`; there is one model with one `maybe live` member
(`slot`) and one membership (`members`), and top-level plain and optional designations.
`Read` and `Visible` are `read_global_state` and `state_exists`; `OwnerNow` is
`current_dynamic_model_owner`. `created_states` and `deleted_states` are functions of
`created` and `terminated`, so the overlay has `writes`, `created`, `updated`,
`terminated` and `scope`. Statements are actions: `Assign`, `AssignSlot`, `Insert`,
`Remove`, `EnterScope`, `LeaveScope`, `Create`, `Reroot`, `Destroy`, `Purge`; the
transaction is `RunAction`, `Fail`, `Commit`. A statement whose guard fails is an error,
and an error is `Fail`: every statement may also be followed by `Fail`, so the guard of an
action is exactly the code's list of early returns. The sets a statement draws operands
from (`Operands`, `LiveSources`, `MaybeSources`, `Held`) are what the language lets it
name. `Terminate(T)` is the per-identity cleanup applied to the whole set `T`, which for
`purge` the code applies leaves first: the cleanups of distinct identities commute.
Order inside a membership is left out: it is a bag here, and `OrderedStructure` has the order.

### DerivedCache

A cell is `<<root, member>>`. The program is the constant `Expression`: what a derived
member reads, each read depending on the values read before (addition, condition, member
of a designation, reduction over elements, filter). `stack` is `eval_stack` with the values
read so far, and one step makes one read: `ReadName` (answered at once: by the accumulator of
an enclosing reduction, a stored cell, a valid derived cell), `EnterDerived`, `Finish` and
`FailEvaluation` are the ways `read_name` and `eval_derived` go on. `read_name` asks the
innermost reduction for its accumulator first (`Captures`), then the innermost reduction or
filter for the name of its element (`Shadows`), which is an error to read as a value; both are
asked for names of expressions further up the stack too. That an accumulator answers for a
member is reached by `derived_clash` alone: it is the finding. No program of a run has a member
that is shadowed (section 5). `graph` and
`stagedGraph` are the two sets of edges, `cached` and `staged` the two sets of values.
`Commit`, `Write`, `Create` and `Destroy` invalidate as `commit`, `write_state`,
`instantiate_runtime_model` and `terminate_runtime_model` do, the committed walk going on
only through cells that still hold a value.

What a cell *means* is `Meaning`: the values of all cells, recomputed from the stored ones
level by level (`Levels`) as often as there are derived members, starting with failures, so
that a cycle keeps its failure. `CacheCoherent` and `AnswerCorrect` compare caches and answers with it.
`ProgramAssumption` is what the semantic analysis checks of a program (each formula reads
members that exist, of the right types); `NoCapture` is what it does not check, that no
accumulator and no element has the name of a member that an element expression reads.

`RecomputedWorld` is the same kernel without caches, edges, overlay and steps of evaluation:
a committed world, at most one open copy, and for each question an answer that is the
`Meaning` of its cell. `ImplementsRecomputedWorld` maps the committed cells, the merged view of
the transaction and the bottom of the stack to it: `Ask` opens the question, the steps of the
evaluation are stutters, and its end is `Answer`, which fails the action exactly when the value
has no meaning. `Left` weighs what an evaluation has yet to do, and `EvaluationShrinks` says
that every step lowers it.

### OrderedStructure

The state is one stored membership `members`, what its views are derived from (`shown`, the
identities the predicate of the filter holds for, and `key`, the member `order by` names) and
one optional designation. `Retained` is the loop of `eval_filter`, which keeps the rows the
predicate holds for; `View` is `eval_filter` without `order by`, `OrderedView` with it: the
retained positions in the one order that its comparison allows, which is total;
`UniqueOccurrence` and `Neighbors` are `resolve_unique_occurrence` and
`resolve_unique_neighbor`; `Mapped` is the greedy walk of `map_selection_to_backing`, and
`Placed` the arithmetic of `move_unique_relative`. Statements are actions: `Insert`,
`RemoveMember`, `RemoveShown`, `Move`, `Navigate`, `Select` (a runtime index), and the writes
through a runtime index, `WriteKey` and `WriteShown`, which change the views while the
membership stays. The predicate is abstracted to a set because the code evaluates it one
element at a time. A statement the code answers with an error takes no step: that errors
undo the action is `Lifetime`'s subject. `ViewMaps` and `RemoveExact` judge the greedy walk
against `ShownRow`, which counts the shown rows up to a position.

### PartialPersistence

The provider is `manifest` and `store` (token to payload). The process is `statics`
(top-level designations), `resident` (payloads in memory), `backed` (handle of every
identity: token, cleanup summary, baseline), the two counters and the transaction. An action
body is a sequence of statements over two top-level designations; `Execute` runs one
statement, `Retry` is the arm of the loop that loads a payload and starts again, `Accept`
the end of `run_action_with_arguments`: commit into the candidate, handles, replacements,
cleanup of dormant payloads, publication, installation. `AcceptThenCrash` is the crash
between the last two. `Reject` and `LoadFails` are the provider's failures, `Panic` the
failed expectation on the way. `Materialize`, `Open` and `Crash` are the host's. Before the
first publication there is no manifest (`manifest = Empty`) and `Open` starts a new world.
`FullWorld` runs a body on one world that is all in memory: `Results` folds `Step` over its
statements. `ImplementsFullWorld` ties each step to it: `Accept` and `AcceptThenCrash` must
perform *their own body* there (`Performs`: every statement can run, and the durable world
becomes what they make of it), and every other step must leave the durable world alone.
`FailuresMeant` is the other direction: a body of which a statement fails fails there too
(`Fails`). `ReadsAfterDestroy` are the bodies that are accepted with another effect (finding 4);
`StoresDormant` is the statement that fails for being dormant (finding 5).

### Numbers

A finite float is `<<"fin", n>>`, the number `n/Q`; `Rounded` is rounding to nearest, ties to
even, with `Precision` significant bits, a least positive value `1/Q` and overflow to infinity:
`Scale` is the weight of the last bit that is kept, one of `Weights`, the powers of two up to
`2^Exponents`. `FloatAssumption` says what i64 and f64 fulfil (`Q` is a power of two and the
floats reach beyond the Ints: for f64, `Q = 2^1074` and `Precision = 53`) and that the bound
`Exponents` leaves room for the exact product of two floats before it is rounded.
Negative zero, the infinities and NaN are values of their own. `CompareIntFloat` follows
`compare_i64_f64` step by step (the range tests against the limits of i64, the truncation, the
fraction); `Equivalent` is `state_equivalent`, by which `commit` decides whether a write
invalidates. An operator answers a value, a `Failure` (overflow, division by zero, no anchor,
a boundary) or `Stuck`, an error that only a missing check makes possible.

### The compiler

A pass is an operator from programs to programs. A name is the sequence of its segments, and
an encoded prefix is a first segment of its own, so passes recognise and strip prefixes as the
code does, while text is not spelled out. A pass that reports a diagnostic leaves the mark
`rejected` in the tree, and one that would reach `unreachable!` the mark `unreachable`; `Then`
stops at either, as `?` does. Which of several errors is reported first is left out.

`Typing.Checked` is `semantic::check`: a scope maps names to a kind and a type, parameters hide
symbols, and a program is accepted when no part of it has `ErrorType`. `Interpreter` has the
two readings of a name (`read_name` with its frames, and the symbol), the evaluation of each
expression, the binding of arguments, the resolution of a state grant to one cell through
nested calls, carriers, and the refusal of recursion. `Ran` is `run_action`: on an error the
cells are those from before the action.

`Toolchain` composes the passes (`Compile`), the start of the runtime (`Boot`), a run of an
action (`RunAction`), and what a host reads. `Compilation` is the host's view and takes these
as CONSTANTS, which `MCCompilation.cfg` gives the operators of `Toolchain`. It has one action
for each thing a host does: `Check` the compilation, `Start` the runtime, then for each request
`Ask` and `Perform`. (A request takes two steps only so that TLC names the action in a trace
and checks each one apart.) After each step
`world` is what the host reads of the states and `shown` what it reads of the derived values,
both by the *paths of the source*, through the bindings the compiler chose for them.
`Language` has the same variables without the compilation: its `Eval` looks names up in lexical
scopes, follows a designation to the element, filters and folds, and its `Run` executes
statements on the paths. `ImplementsLanguage` says every behaviour of `Compilation` is one of
`Language`, where checking is a stutter. Two failures of an expression are not told apart; a
failure is told apart from a value.

## 3. Runs

| Run | Question | Bounds | Result |
|---|---|---|---|
| `lifetime_cells` | lifetimes, memberships, designations, atomicity | 1 root, 1 plain, 1 optional designation, 2 identities, 1 relation at once, 2 writes | 139,030 states |
| `lifetime_scopes` | names held by nested scopes | 1 identity, nesting 2, 2 copies | 280,612 states |
| `lifetime_captured` | the plain-designation guarantee of the language reference | 1 identity | violated (finding) |
| `derived_aggregate` | reduction over filter over element members; every evaluation ends; the kernel is one without caches | 1 identity, membership of length 2, values 0..1, largest Int 2 | 218,953 states |
| `derived_designated` | data-dependent edges; a cycle is caught before it recurses; each step of an evaluation brings its end nearer | 1 identity, a condition and a designation, 2 writes | 1,346,747 states |
| `derived_clash` | captured accumulator | membership of length 1 | violated (finding) |
| `ordered_structure` | rows addressed through views | 3 identities, 2 keys, 4 rows, symmetry | 5,244 states |
| `partial_world` | residency is invisible in what is accepted and, stores through dormant designations apart, in what fails; each attempt of an action knows more than the one before | all bodies of at most 2 statements, 2 designations, 2 identities | 1,186,863 states |
| `numbers` | comparison, equality and closure of the operators | 5-bit Int, floats of 3 bits, `Q = 2`, up to 20 | 5,041 states |
| `compilation` | compiled programs do what the source means | 4 programs that run, 2 that do not start, 47 that are refused; 3-bit Int | 61,180 states |
| `partial_lent` | a payload lent after a destroy | 4 bodies, 2 identities | violated (finding) |
| `partial_panic` | the panic of `run_action` | bodies of 2 statements, 1 identity | violated (finding) |

Why the bounds are enough to be interesting. Two identities are what it takes for one to
own, name and outlive the other in every order, and to close a cycle of owners; the proofs
cover any number. `lifetime_cells` holds an identity at most once per membership;
`lifetime_scopes` has two copies, which one removal must not exhaust and one termination
must. Four rows over three identities are the fewest in which a view has duplicates with a
hidden row between them and another row after them. The identities of `ordered_structure`
are symmetric: only equality is asked of them. `MaxInt = 2`
makes the overflow of checked arithmetic reachable with the values 0 and 1. Two statements
are enough for each pair of operations to meet in one action, and sequences of actions are
not bounded except by the identities they hand out. `OrderedBodies` leaves out the bodies
with a read after a `destroy` (`ReadsAfterDestroy`); `partial_lent` shows why, and the theorem
`ResidencyInvisible` has the same hypothesis.

`MCNumbers` takes every pair of operands: `Precision = 3` with 5-bit integers leaves integers
that no float represents, as 53 bits leave among 64, `Q = 2` leaves a fraction to compare, and
`MaxFloat` lies beyond the limits of Int, so every branch of `compare_i64_f64` is taken and
every operation rounds, overflows and underflows somewhere.

The programs of `MCCompilation` are chosen so that passes meet: `Reads` has each form of read (designated,
optional and guarded, through a static place, at a run-time index, over a view, by a reduction
whose binders hide declarations), `Grants_` each form of grant, direct and through nested calls
that select another element while the grant is held, `Stores` each form of assignment through a
designation or a place, `Mixed` the other types (widening, rounding, special floats, strings).
Their actions run in every order until an Int overflows (`Bits = 3`), which is itself one of the
cases: the action is undone. `Wrong` and `WrongBoxes` are 47 declarations that break one rule
each of the language reference. A larger instance adds states and no kind of step.

**Fairness.** `DerivedCache` assumes weak fairness of `EvaluationStep` and
`PartialPersistence` of `RunStep`: both are synchronous calls on the host's thread that,
once begun, run on; nothing is assumed of the host. The others assume nothing.
`EvaluationEnds` is checked under it on `derived_aggregate`; the step property
`EvaluationShrinks`, from which it follows, there and on `derived_designated`, where
`CyclesCaught` bounds the depth of an evaluation that meets a cycle. `ImplementsRecomputedWorld`
recomputes the meaning of the store in every step and is therefore checked on the smaller of the
two; the theorem covers the other. That the retry loop ends
is checked as the step property `AttemptsProgress`, from which it follows and which names the
reason: each attempt goes forward or starts again with more payloads than the last, and there
are finitely many identities.

**Properties.** Every property is refuted by a small change of the code, written as an
operator `Mutant...` before the operator it changes (forgotten invalidation, one of two
copies removed, counter rewound on failure, summary taken from the loaded payload, an Int
rounded before it is compared, a grant through a designation sent to the wrong candidate, and
so on). No specification uses these operators.

## 4. Proofs

Every property of the runs `lifetime_cells`, `lifetime_scopes`, `derived_designated`,
`ordered_structure`, `partial_world` and `numbers`, and those of `derived_aggregate` but
`EvaluationEnds`, is also a theorem; of the four runs that end in a violation, each violated
property is a theorem for the programs that avoid what the finding is about. A run says that the property holds of a small instance,
and that a plausible bug would break it; the theorem says it for every value of the constants.

### Lifetime (`LifetimeProofs`)

For all roots, designations and bounds, from `RootsAssumption` (roots are not naturals, `None`
is neither, `MaxIdentity` is a natural):

| Theorem | States |
|---|---|
| `TypeCorrect` | `Spec => []TypeOK` |
| `ProvenanceAlwaysSound` | `Spec => []ProvenanceSound` |
| `MembershipsLive` | `Spec => []MembershipLive` |
| `NoResurrection` | `Spec => DeadStayDead` |
| `DesignationsLive` | `~Captures` implies `Spec => []DesignationLive` |
| `PlainTargetsLive` | `~Captures` implies `Spec => []PlainTargetLive` |
| `ActionsAtomic` | `Spec => ImplementsAtomicWorld` |

`TypeOK` is itself inductive; it says that cells exist for exactly the live identities and that
`created`, `updated` and `owners` overlap only as `current_dynamic_model_owner` reads them,
which is what makes the merge of `commit` equal to what the transaction saw. `ProvenanceSound`
needs it, and its steps rest on lemmas about `Acyclic`: adding a fresh leaf, moving an edge to
a target that does not reach the moved identity, and removing a set of identities that nothing
else is rooted in, each keep a relation acyclic. `MembershipLive` is inductive relative to
`TypeOK` because a membership only grows by an identity that exists. `DesignationLive` is
inductive only when no name is captured: with `Captures`, a captured name outlives its identity
and `lifetime_captured` refutes it; `PlainTargetsLive`, what the language reference promises of
`live T`, is what it says of the designations that cannot be absent. `ActionsAtomic` maps the overlay to the private copy of
`AtomicWorld` and shows that each statement is a step of it or a stutter.

### Reactive kernel (`EvaluationFacts`, `CacheFacts`, `DerivedCacheProofs`)

For every program that `ProgramAssumption` admits, finitely many identities and any bounds
(`ValueAssumption`):

| Theorem | States |
|---|---|
| `TypeCorrect` | `Spec => []TypeOK` |
| `NoCycle` | `Spec => []CyclesCaught` |
| `CachesCoherent` | `NoCapture` implies `Spec => []CacheCoherent` |
| `AnswersCorrect` | `NoCapture` implies `Spec => []AnswerCorrect` |
| `EdgesAlwaysExact` | `NoCapture` implies `Spec => []EdgesExact` |
| `EvaluationsShrink` | `NoCapture` implies `Spec => EvaluationShrinks` |
| `CachesInvisible` | `NoCapture` implies `Spec => ImplementsRecomputedWorld` |

The first two follow from `Fits`, which any program keeps: what each variable holds, and what a
transaction leaves behind. The others follow from `Consistent`, which adds `Typing` (stored
cells hold values of their type), `Layered` and `Answered`. `Layered` says the same of the two
layers, the committed one and the one the open transaction sees: every valid cell exists, holds its
outcome, and hangs on exactly its footprint, at both ends, and valid cells do not hang on each
other in a circle (`Layer`, made of `Exact` and `Grounded`). `Running` describes each frame of
the stack of the evaluations under way: the values read so far are those a reader would be
given, the edges are the ones read, and each cell but the last waits for the one above. The step that matters is invalidation. A write changes one stored
cell; cells that hang on it, directly or through others, lose their values; the lemmas of
`EvaluationFacts` (an outcome is a function of the footprint alone) say that no other cell's
outcome changes, so what stays valid stays exact. The committed walk goes on only through valid
cells, which suffices because a valid cell hangs on valid cells only. An evaluation that fails half way
leaves edges of cells that are not valid, which `Layer` says nothing of. That level `Depth` of
`Levels` is a fixed point follows from counting: each level before it shows one more derived
cell than the last or is one already, and what is shown is kept. `Grounded` is what lets a sight
of caches be compared with it: valid cells rest on stored ones in the end.
`NoCapture` is needed: `derived_clash` refutes `AnswerCorrect` without its part on accumulators,
and its part on elements excludes members that fail below a traversal but are answered when they
are cached (section 5).

`EvaluationsShrink` orders the steps of an evaluation by three numbers, which `Left` packs into
one: a cell that finishes leaves one cell fewer without a value, an evaluation that enters a cell
leaves less room on the stack, and one that reads a name has one read fewer to make. That none of
them runs below zero follows from `CyclesCaught` (the stack is no deeper than there are cells) and from
the bound `MaxReads` on the reads of an expression.

`CachesInvisible` is the refinement of `RecomputedWorld`, from `Consistent` and `Blank`: a stored
cell of an identity that is not committed is at its default, so that what `commit` makes of an
identity that was created and never written is what `RecomputedWorld` creates. Each action is
mapped by a lemma. The steps that read nothing new map to an equal world because `Store` is the merge of
overlay and cells, which `Commit` turns into the cells; the answer of an evaluation is the one of
`RecomputedWorld` because `Consistent` gives each finished cell its outcome; and an
evaluation that fails fails the bottom of the stack too (`FailureMeant`), since every cell on the stack
reads the one above it and a failed read fails its reader.

### Ordered structure (`OrderedStructureProofs`)

For all identities, keys, bounds and memberships, duplicates included (`StructureAssumption`):

| Theorem | States |
|---|---|
| `TypeCorrect` | `Spec => []TypeOK` |
| `ViewsMap` | `Spec => []ViewMaps` |
| `OrdersExact` | `Spec => []OrderExact` |
| `RemovalsExact` | `Spec => RemoveExact` |
| `MovesExact` | `Spec => MoveExact` |
| `NavigationFollows` | `Spec => NavigationFollowsMoves` |

`TypeOK` is all the invariant that is needed; the work is in sequences. A view is the
membership read along the increasing enumeration of the positions it shows (`Enumerates`,
`Shows`), which is unique, so that what the loop of `eval_filter` retains, what the greedy walk
of `map_selection_to_backing` finds and what `ShownRow` counts are one enumeration
(`RetainedEnumerated`, `MappedEnumerates`). A move carries the enumeration with it (`Carries`):
rows between the old place and the new one shift by one, the others stay. The sorted order of
an ordered view exists because the rank of a row, the number of rows before it, is a bijection.

### Partial durability (`PartialPersistenceProofs`)

For all designations, all sets of bodies over them and any bound on identities
(`WorldAssumption`):

| Theorem | States |
|---|---|
| `TypeCorrect` | `Spec => []TypeOK` |
| `SummariesExact` | `Spec => []SummaryExact` |
| `ProcessAlwaysAgrees` | `Spec => []ProcessAgrees` |
| `TokensNeverPass` | `Spec => TokensKept` |
| `AttemptsAlwaysProgress` | `Spec => AttemptsProgress` |
| `ResidencyInvisible` | no body has `ReadsAfterDestroy` implies `Spec => ImplementsFullWorld` |
| `FailuresResident` | no body has `ReadsAfterDestroy` implies `Spec => FailuresMeant` |
| `LoansOutliveActions` | no body has `ReadsAfterDestroy` or `DestroysAfterLoan` implies `Spec => []NeverPanics` |

All rest on `IInv`: the published image is self-contained and its summaries are those of its payloads
(`DurableOK`); the process holds what the image holds, as far as it has loaded it (`ProcessOK`);
while an action runs, the identities it created are those handed out since the attempt began,
it ends only identities the world had, and it stages values of their kind (`AttemptOK`). None of them is inductive alone: a publication keeps the image sound only
because the handles and baselines agreed with it, and these only because every failure restores them.
`ResidencyInvisible` rests on `Simulates`: after `pc - 1` statements the merged view of resident,
lent and staged cells is the world that `FullWorld` has after as many statements of the same
body, so that what is accepted is the effect of that body. For `FailuresResident`, a statement
that fails cannot run in that view (`FailedStatement`), and a body of which one statement fails
has failed at its end (`FailureStays`). The hypothesis of both is needed: `partial_lent` refutes
`ImplementsFullWorld` without it, since the body it accepts leaves a designation dangling.
`LoansOutliveActions` bounds finding 3: the panic needs an identity that this action was lent
and that its last attempt ended. A body may do both, in the order that destroys first: what an
attempt asks for is not among what it has ended by then, and by `Simulates` every later attempt ends
the same identities. `Spared` carries that through retries: what was lent is still there at the
end of the body, run in the durable world (`CellsStay`). Both hypotheses are needed:
`partial_panic` destroys after a loan, and a body that destroys, reads the dead identity back
from a dormant payload (finding 4) and then inserts into it is lent what it ended.

### Numbers (`NumbersProofs`)

For every width of Int and every binary format of Float with `NumbersAssumption` and
`FloatAssumption`:

| Theorem | States |
|---|---|
| `ComparesExactly` | `Spec => []ComparisonExact` |
| `SamenessExact` | `Spec => []Indistinguishable` |
| `OperatorsClosed` | `Spec => []Closed` |

`compare_i64_f64` tests the range, compares the Int with the whole part, and, when these are
equal, converts that whole part back to Float to look at the fraction. It is exact only if this last
conversion does not round, and that is the lemma `WholeIsFloat`: of two weights one divides the other
(`WeightsChain`), so a float that has a fraction has a last bit below 1 and its whole part needs
no more bits, and one that has none is its own whole part. `OperatorsClosed` needs that what rounding answers is
a float again, also where rounding up carries into the next power of two (`CountIsFloat`).
`SamenessExact` in one direction is a congruence (the operators respect `SameFloat`: the
sign of a zero shows in zeros only, division by a zero being an error), and in the other two
operators that tell values apart: `<=` of a value with itself for NaN, `==` for the rest.

### What carries them

The library's induction theorems take an operator as parameter, which the provers cannot
instantiate. `InductionFacts` has forms that they can use: a nonempty set of naturals has a
least element, a set that contains 0 and each successor contains `0 .. n`
(`InductionUpTo`), and a recursive function on `0 .. n` exists and is the only one with its equations (`RecursionUpTo`).
Therefore recursion in the modules with proofs is by functions: `Levels`, `Retained`, `Mapped`,
`Results`, `Power`.

Only model-checked: `EvaluationEnds`, since liveness under fairness is out of reach of the
provers (`EvaluationsShrink` proves its step: under the fairness assumed, a natural number that
each step lowers reaches the end), and everything about `Compilation` and
`Language`: the compiler, the interpreter and the meaning of the source are recursive operators
on trees, and what they compute for every tree would take an induction over trees.

## 5. Findings

1. **A captured name can leave a plain designation dangling** (`lifetime_captured`).
   `with selected as doc { destroy selected under workspace  pinned = doc }`: the guard of
   `terminate_runtime_model` looks at plain designations before the assignment, and
   `write_state` looks at no lifetime.
2. **An accumulator captures a member of the same name** (`derived_clash`). In `reduce
   members from 0 as (size, e) { size + e.twice }` with `twice = size + size`, the `size` of
   the element reads as the running sum.
3. **Reading and then destroying a dormant identity panics** (`partial_panic`).
4. **A payload lent after a `destroy` brings the dead identity back** (`partial_lent`).
5. **A store through a dormant designation fails.** `through d.slot = e` with `d` in memory stores;
   with `d` dormant, `write_state` knows no state of that name (`runtime.rs` 2745–2747) and, unlike
   a read or an insertion, asks the host for nothing, so the action fails with "unknown state",
   against `partial.rs` 44–46. `FailuresMeant` names it as its one exception
   (`StoresDormant`), without which `partial_world` refutes it at the first such store.

Seen in the source and kept out of the programs that the runs compile and evaluate; no run
checks them:

* A member that an element expression reads fails ("runtime traversal element designation cannot be
  projected", `runtime.rs` 2529–2533) below a reduction or filter that names its element like
  that member, and is answered when it was cached before. `filter members as size { size.twice }`
  with `twice = size + size` does it; `NoCapture` excludes it.
* Model, sequence and designation names are rewritten although a parameter hides them
  (`LANGUAGE_REFERENCE.md:266` has parameters hide them).
* An expression `if` over Int and Float is typed Float (`LANGUAGE_REFERENCE.md:228`), and
  `eval_expr` does not widen the Int.
* `semantic.rs` 377–424 accepts a compound operator that is not defined, and 331–376 never
  checks an index, where the assignment goes through a designation.
* A grant `f(state through d)` of a whole model whose target is no static candidate ends at the
  last candidate (`live_designation_lowering.rs:1725`; the reference, line 672, has an error).
* The type of a top-level reduction does not come from its initial
  (`LANGUAGE_REFERENCE.md:1347`).
* Two `unreachable!` of `reduction_lowering.rs:880` and `sequence_lowering.rs:1467` can be
  reached by programs the earlier passes let through.
* A `[live T]` member, view or reduction of a static root is unknown when it is read through a
  designation (`LANGUAGE_REFERENCE.md:367`, 1017–1022).
* `d.typo` through a live designation compiles to zero (`live_designation_lowering.rs:1058`).
* `is in` over a member sequence that nothing else uses is refused
  (`runtime_sequence_realization.rs` 206–361).

## 6. Not modelled, and why

* **Lexer, parser, and the surfaces** of create, scopes, remove, move, transfer and destroy:
  text rewriting whose correctness is a matter of grammar. The statements they let through are
  the actions of `Lifetime` and `OrderedStructure`; their generated actions are not programs of
  `Compilation`. For the same reason `Compilation` has no identities created at run time: the
  branches of the passes for scoped creates and designations of dynamic elements are left out.
* **`contains ignoring case`**: strings are sequences of tokens here, with no case.
* **PersistentRuntime**: its candidate / replace / install protocol is the case of
  `PartialPersistence` in which every identity is resident; a module of its own would repeat
  that run. `restore_image` validates a decoded image before anything changes; with the
  **codec** it is about bytes, and the models use decoded values.
* **Token space**: tokens run out after 2^64 identities; the models bound tokens before that.
* **Command line, reference model, experiments**: input and output, and a Python sketch the
  compiler does not use.

## 7. Plan

Done: the runtime's transaction, caches, ordered structure and partial durability; numbers,
typing, the lowering passes, the interpreter, and their refinement of `Language`; proofs for
the runtime's four modules and for numbers. Left:

1. The generated structural actions (create, remove, move, transfer, destroy) as programs of
   `Compilation`, with the scoped branches of the passes.
2. `PersistentRuntime` beside `PartialPersistence`, for `restore_image`.
