------------------------- MODULE PartialPersistence -------------------------
(***************************************************************************)
(* PartialPersistentRuntime (compiler/src/runtime/persistence/partial.rs): *)
(* a durable world of which only some identities are in memory.  The       *)
(* provider holds a manifest and one payload per backing token; the        *)
(* process holds the static states, a handle for every identity and the    *)
(* payloads of the resident ones.  An action that reads a dormant member   *)
(* is dropped, that one payload is loaded, and the action is run again     *)
(* with the payload lent to its transaction.                               *)
(*                                                                         *)
(* There is one model, with a `maybe live` member ("slot") and a [live T]  *)
(* member ("members", here the set it names), and every identity is rooted *)
(* in one static root; owners are the subject of Lifetime.  Statements are *)
(* <<operation, d, e>> over top-level `maybe live` designations d and e:   *)
(*   create: create T under root as x { d = x }     copy: d = e.slot       *)
(*   set: through d.slot = e      insert: insert d into e.members          *)
(*   destroy: destroy d under root                  fail                   *)
(* An operator named Mutant... is a wrong version of the one after it,     *)
(* which a property must tell from it; the specification uses none.        *)
(***************************************************************************)
EXTENDS Integers, SequencesExt

CONSTANTS
  Designations,  \* top-level `maybe live T` states
  Programs,      \* the bodies of the actions
  None,
  MaxIdentity    \* bound: identities ever handed out in a committed world

Operations == {"create", "copy", "set", "insert", "destroy", "fail"}
Payloads == [slot : Nat \cup {None}, members : SUBSET Nat]

\* The bodies are made of the statements above, and the absent target is neither an
\* identity nor a payload.
ASSUME WorldAssumption ==
  /\ \A p \in Programs : p \in Seq(Operations \X Designations \X Designations)
  /\ None \notin Nat /\ None \notin Payloads
  /\ MaxIdentity \in Nat

VARIABLES
  manifest,   \* provider: [statics, backed, next, nextToken], or Empty at first
  store,      \* provider: token -> [identity, payload]
  phase,      \* "down", "idle", "running" or "panicked"
  statics,    \* runtime.states of the top-level designations
  resident,   \* runtime.states of the identities in memory
  backed,     \* identity -> [token, targets, baseline]
  next,       \* runtime.next_dynamic_identity
  nextToken,  \* next_backing_token
  program, pc,
  prior,      \* prior_next_dynamic_identity
  local,      \* action_local_backings, lent as borrowed_states
  writes, created, terminated  \* the transaction

durable == <<manifest, store>>
world == <<statics, resident, backed, nextToken>>
overlay == <<writes, created, terminated>>
run == <<program, pc, prior, local>>
vars == <<durable, phase, world, next, run, overlay>>
-----------------------------------------------------------------------------
\* TLC's @@, with a definition that a proof can expand.
f ++ g == [x \in DOMAIN f \cup DOMAIN g |-> IF x \in DOMAIN f THEN f[x] ELSE g[x]]
Empty == [x \in {} |-> x]

NewPayload == [slot |-> None, members |-> {}]

\* termination_cleanup_targets_from_values, and a payload after the cleanup of T.
Targets(v) == ({v.slot} \ {None}) \cup v.members
Stripped(v, T) ==
  [slot |-> IF v.slot \in T THEN None ELSE v.slot, members |-> v.members \ T]

Static(d) == <<"static", d>>
Slot(x) == <<"slot", x>>
Members(x) == <<"members", x>>
Own(x) == {Slot(x), Members(x)}

Stored(n, v) == IF n[1] = "slot" THEN v.slot ELSE v.members

\* read_global_state: staged, fresh, borrowed, then committed.
Read(n) ==
  IF n \in DOMAIN writes THEN writes[n]
  ELSE IF n[1] = "static" THEN statics[n[2]]
  ELSE IF n[2] \in created THEN Stored(n, NewPayload)
  ELSE IF n[2] \in DOMAIN local THEN Stored(n, local[n[2]])
  ELSE Stored(n, resident[n[2]])
Payload(x) == [slot |-> Read(Slot(x)), members |-> Read(Members(x))]

Target(d) == Read(Static(d))

\* state_exists of the cells of x; deleted_states holds cells of resident identities only.
HasCells(x) == x \in (DOMAIN resident \ terminated) \cup created \cup DOMAIN local
Exists(x) == x \in (DOMAIN backed \cup created) \ terminated

MutantRequested(s) ==
  {x \in {Target(s[3])} : s[1] = "copy" /\ x \in DOMAIN backed \ terminated /\ ~HasCells(x)}

\* The identity whose payload a statement asks the host for: read_designation_member
\* and the destination of invoke_scoped_insert.
Requested(s) ==
  LET e == Target(s[3]) IN
  CASE s[1] = "copy" -> {x \in {e} : x \in DOMAIN backed \ terminated /\ ~HasCells(x)}
    [] s[1] = "insert" -> {x \in {e} : x \in DOMAIN backed \ (terminated \cap DOMAIN resident) /\ ~HasCells(x)}
    [] OTHER -> {}

\* Whether it then succeeds.
Succeeds(s) ==
  LET d == Target(s[2])
      e == Target(s[3])
  IN  CASE s[1] = "create" -> TRUE
        [] s[1] = "copy" -> HasCells(e)
        [] s[1] = "set" -> HasCells(d)
        [] s[1] = "insert" -> HasCells(e) /\ Exists(d)
        [] s[1] = "destroy" -> d \in DOMAIN backed \ terminated
        [] OTHER -> FALSE

\* terminate_runtime_model scans the committed and the fresh cells, not the borrowed.
Scanned(x) ==
  {Static(d) : d \in Designations}
    \cup UNION {Own(y) : y \in ((DOMAIN resident \ terminated) \cup created) \ {x}}
Without(n, x) == IF n[1] = "members" THEN Read(n) \ {x} ELSE None
Naming(x) ==
  {n \in Scanned(x) : IF n[1] = "members" THEN x \in Read(n) ELSE Read(n) = x}

\* What it stages.
Staged(s) ==
  LET d == Target(s[2])
      e == Target(s[3])
  IN  CASE s[1] = "create" -> [n \in {Static(s[2])} |-> next] ++ writes
        [] s[1] = "copy" -> [n \in {Static(s[2])} |-> Read(Slot(e))] ++ writes
        [] s[1] = "set" -> [n \in {Slot(d)} |-> e] ++ writes
        [] s[1] = "insert" -> [n \in {Members(e)} |-> Read(Members(e)) \cup {d}] ++ writes
        [] s[1] = "destroy" ->
             LET kept == DOMAIN writes \ (IF d \in DOMAIN resident THEN Own(d) ELSE {})
             IN  [n \in Naming(d) |-> Without(n, d)] ++ [n \in kept |-> writes[n]]
-----------------------------------------------------------------------------
(* The host's calls.                                                       *)

Discarded == writes' = Empty /\ created' = {} /\ terminated' = {}
Stopped == program' = <<>> /\ pc' = 1 /\ prior' = 0 /\ local' = Empty

MutantOpenCounts ==
  /\ phase = "down" /\ phase' = "idle"
  /\ resident' = Empty
  /\ IF manifest = Empty
     THEN /\ statics' = [d \in Designations |-> None]
          /\ backed' = Empty /\ next' = 0 /\ nextToken' = 0
     ELSE /\ statics' = manifest.statics
          /\ backed' = [x \in DOMAIN manifest.backed |->
                          [token |-> manifest.backed[x].token,
                           targets |-> manifest.backed[x].targets, baseline |-> None]]
          /\ next' = manifest.next /\ nextToken' = Cardinality(DOMAIN manifest.backed)
  /\ UNCHANGED <<durable, run, overlay>>

\* open: the manifest is restored and every identity starts dormant.
Open ==
  /\ phase = "down" /\ phase' = "idle"
  /\ resident' = Empty
  /\ IF manifest = Empty
     THEN /\ statics' = [d \in Designations |-> None]
          /\ backed' = Empty /\ next' = 0 /\ nextToken' = 0
     ELSE /\ statics' = manifest.statics
          /\ backed' = [x \in DOMAIN manifest.backed |->
                          [token |-> manifest.backed[x].token,
                           targets |-> manifest.backed[x].targets, baseline |-> None]]
          /\ next' = manifest.next /\ nextToken' = manifest.nextToken
  /\ UNCHANGED <<durable, run, overlay>>

\* The process ends; what it held in memory is gone.
Crash ==
  /\ phase # "down" /\ phase' = "down"
  /\ statics' = Empty /\ resident' = Empty /\ backed' = Empty
  /\ next' = 0 /\ nextToken' = 0
  /\ Stopped /\ Discarded
  /\ UNCHANGED durable

\* materialize, by key, by designation or by root member index.
Materialize(x) ==
  /\ phase = "idle"
  /\ x \in DOMAIN backed \ DOMAIN resident
  /\ LET v == store[backed[x].token].payload IN
     /\ Targets(v) = backed[x].targets
     /\ resident' = [y \in {x} |-> v] ++ resident
     /\ backed' = [backed EXCEPT ![x].baseline = v]
  /\ UNCHANGED <<durable, phase, statics, nextToken, next, run, overlay>>

\* run_action_with_arguments up to its first statement.
RunAction(p) ==
  /\ phase = "idle" /\ phase' = "running"
  /\ next + Cardinality({i \in DOMAIN p : p[i][1] = "create"}) <= MaxIdentity
  /\ program' = p /\ pc' = 1 /\ prior' = next
  /\ UNCHANGED <<durable, world, next, local, overlay>>

Running == phase = "running" /\ pc <= Len(program)
Statement == program[pc]

Execute ==
  /\ Running /\ Requested(Statement) = {} /\ Succeeds(Statement)
  /\ pc' = pc + 1
  /\ writes' = Staged(Statement)
  /\ IF Statement[1] = "create"
     THEN created' = created \cup {next} /\ next' = next + 1
     ELSE UNCHANGED <<created, next>>
  /\ terminated' =
       IF Statement[1] = "destroy" THEN terminated \cup {Target(Statement[2])} ELSE terminated
  /\ UNCHANGED <<durable, phase, world, program, prior, local>>

MutantRetryForgets ==
  /\ Running
  /\ \E x \in Requested(Statement) :
       /\ Targets(store[backed[x].token].payload) = backed[x].targets
       /\ local' = [y \in {x} |-> store[backed[x].token].payload]
  /\ pc' = 1 /\ next' = prior /\ Discarded
  /\ UNCHANGED <<durable, phase, world, program, prior>>

\* A dormant request: the attempt is dropped, the payload is loaded, the action restarts.
Retry ==
  /\ Running
  /\ \E x \in Requested(Statement) :
       /\ Targets(store[backed[x].token].payload) = backed[x].targets
       /\ local' = [y \in {x} |-> store[backed[x].token].payload] ++ local
  /\ pc' = 1 /\ next' = prior /\ Discarded
  /\ UNCHANGED <<durable, phase, world, program, prior>>

MutantGiveUpKeepsNext ==
  /\ phase' = "idle" /\ next' = next
  /\ Stopped /\ Discarded
  /\ UNCHANGED <<durable, world>>
MutantGiveUpKeepsOverlay ==
  /\ phase' = "idle" /\ next' = prior
  /\ Stopped
  /\ UNCHANGED <<durable, world, overlay>>

GiveUp ==
  /\ phase' = "idle" /\ next' = prior
  /\ Stopped /\ Discarded
  /\ UNCHANGED <<durable, world>>

\* A statement fails.
Abort == Running /\ Requested(Statement) = {} /\ ~Succeeds(Statement) /\ GiveUp

\* The provider fails to load a requested payload.
LoadFails == Running /\ Requested(Statement) # {} /\ GiveUp
-----------------------------------------------------------------------------
(* The end of run_action_with_arguments: the candidate and its acceptance. *)

\* restore_candidate_runtime and commit, without the staged writes of lent identities.
Committed ==
  [statics |-> [d \in Designations |-> Read(Static(d))],
   resident |-> [x \in (DOMAIN resident \cup created) \ terminated |-> Payload(x)]]

\* synchronize_backing_handles
Handles ==
  [x \in (DOMAIN backed \cup created) \ terminated |->
     IF x \in DOMAIN backed THEN backed[x]
     ELSE [token |-> nextToken + Cardinality({y \in created : y < x}),
           targets |-> {}, baseline |-> None]]

MutantStoredPayload(x) == store[backed[x].token].payload

\* A dormant payload after the action: as it is stored, or as the action left it.
DormantPayload(x) ==
  IF x \in DOMAIN local THEN Payload(x) ELSE store[backed[x].token].payload
MutantTargetsLoaded(x) == backed[x].targets
DormantTargets(x) == IF x \in DOMAIN local THEN Targets(Payload(x)) ELSE backed[x].targets

\* rewrite_dormant_termination_cleanup: the summaries tell which payloads to rewrite.
Affected ==
  {x \in DOMAIN Handles \ DOMAIN Committed.resident : DormantTargets(x) \cap terminated # {}}
NewPayloadOf(x) ==
  IF x \in DOMAIN Committed.resident THEN Committed.resident[x]
  ELSE IF x \in Affected THEN Stripped(DormantPayload(x), terminated)
  ELSE DormantPayload(x)

\* Payloads go out only when they differ from what was loaded.
Replaced ==
  {x \in DOMAIN Handles :
     IF x \in DOMAIN Committed.resident THEN Committed.resident[x] # Handles[x].baseline
     ELSE x \in Affected \/ (x \in DOMAIN local /\ Payload(x) # local[x])}

Candidate ==
  [statics |-> Committed.statics,
   resident |-> Committed.resident,
   nextToken |-> nextToken + Cardinality(created),
   backed |-> [x \in DOMAIN Handles |->
     [token |-> Handles[x].token,
      targets |-> IF x \in DOMAIN Committed.resident \cup Affected
                  THEN Targets(NewPayloadOf(x)) ELSE DormantTargets(x),
      baseline |-> IF x \in DOMAIN Committed.resident THEN Committed.resident[x] ELSE None]]]

Finished == phase = "running" /\ pc > Len(program)
Backs == DOMAIN local \cap terminated = {}   \* "action-local identity should remain backed"

\* replace_candidate: the provider takes manifest and payloads, all or nothing.
Publish(c) ==
  /\ manifest' = [statics |-> c.statics, next |-> next, nextToken |-> c.nextToken,
                  backed |-> [x \in DOMAIN c.backed |->
                     [token |-> c.backed[x].token, targets |-> c.backed[x].targets]]]
  /\ store' = [t \in {c.backed[x].token : x \in Replaced} |->
                 LET x == CHOOSE y \in Replaced : c.backed[y].token = t
                 IN  [identity |-> x, payload |-> NewPayloadOf(x)]] ++ store

Accept ==
  /\ Finished /\ Backs
  /\ Publish(Candidate)
  /\ phase' = "idle"
  /\ statics' = Candidate.statics /\ resident' = Candidate.resident
  /\ backed' = Candidate.backed /\ nextToken' = Candidate.nextToken
  /\ UNCHANGED next
  /\ Stopped /\ Discarded

\* The process ends after the provider accepted and before the candidate is installed.
AcceptThenCrash ==
  /\ Finished /\ Backs
  /\ Publish(Candidate)
  /\ phase' = "down"
  /\ statics' = Empty /\ resident' = Empty /\ backed' = Empty
  /\ next' = 0 /\ nextToken' = 0
  /\ Stopped /\ Discarded

\* The provider refuses, or fails to load a payload of the cleanup.
Reject == Finished /\ Backs /\ GiveUp

\* The loop over action_local_backings expects a handle that is gone.
Panic ==
  /\ Finished /\ ~Backs
  /\ phase' = "panicked"
  /\ UNCHANGED <<durable, world, next, run, overlay>>
-----------------------------------------------------------------------------
Init ==
  /\ manifest = Empty /\ store = Empty
  /\ phase = "down"
  /\ statics = Empty /\ resident = Empty /\ backed = Empty
  /\ next = 0 /\ nextToken = 0
  /\ program = <<>> /\ pc = 1 /\ prior = 0 /\ local = Empty
  /\ writes = Empty /\ created = {} /\ terminated = {}

RunStep == Execute \/ Retry \/ Abort \/ LoadFails \/ Accept \/ AcceptThenCrash \/ Reject \/ Panic

Next ==
  \/ Open \/ Crash
  \/ \E x \in 0 .. MaxIdentity : Materialize(x)
  \/ \E p \in Programs : RunAction(p)
  \/ RunStep

\* run_action is a synchronous call: once begun it runs on.
Spec == Init /\ [][Next]_vars /\ WF_vars(RunStep)
-----------------------------------------------------------------------------
(* Properties.                                                             *)

\* The shape of the wrapper: a payload is in memory only for an identity with a handle,
\* only dormant identities are lent, and nothing is staged between actions.
TypeOK ==
  /\ phase \in {"down", "idle", "running", "panicked"}
  /\ DOMAIN resident \subseteq DOMAIN backed
  /\ \A x \in DOMAIN resident : resident[x] \in Payloads
  /\ \A x \in DOMAIN local : local[x] \in Payloads /\ x \in DOMAIN backed \ DOMAIN resident
  /\ \A x \in DOMAIN backed : backed[x].token < nextToken
  /\ created \cap DOMAIN backed = {} /\ terminated \subseteq DOMAIN backed
  /\ phase \in {"down", "idle"} =>
       writes = Empty /\ created = {} /\ terminated = {} /\ local = Empty

\* Every identity of the manifest can be brought back: its token leads to its own
\* payload, and the cleanup summary of the manifest is the one decode_backing,
\* materialize and the retry recompute from that payload, after any number of
\* rewrites by actions that never had the payload in memory.
SummaryExact ==
  manifest # Empty =>
    \A x \in DOMAIN manifest.backed :
      LET h == manifest.backed[x] IN
      /\ h.token \in DOMAIN store
      /\ store[h.token].identity = x
      /\ h.targets = Targets(store[h.token].payload)

\* Between actions the process holds exactly the world the provider holds: what a
\* restart would restore, after failures, refusals and retries too.
ProcessAgrees ==
  phase = "idle" /\ manifest # Empty =>
    /\ statics = manifest.statics /\ next = manifest.next /\ nextToken = manifest.nextToken
    /\ DOMAIN backed = DOMAIN manifest.backed
    /\ \A x \in DOMAIN backed :
         LET h == backed[x] IN
         /\ h.token = manifest.backed[x].token /\ h.targets = manifest.backed[x].targets
         /\ IF x \in DOMAIN resident
            THEN resident[x] = store[h.token].payload /\ h.baseline = resident[x]
            ELSE h.baseline = None

\* A backing token never passes to another identity, though the payloads of ended
\* ones stay in the store and a restart resumes the allocator from the manifest.
TokensKept ==
  [][\A t \in DOMAIN store : t \in DOMAIN store' /\ store'[t].identity = store[t].identity]_vars

\* Retrying ends: an attempt goes forward with what it was lent, and a retry keeps all of
\* that and lends one payload more, so that no dormant identity is asked for twice and an
\* action is begun at most once more than there are identities (the loop of run_action).
AttemptsProgress ==
  [][phase = "running" /\ phase' = "running" =>
       \/ local' = local /\ pc' > pc
       \/ /\ \A x \in DOMAIN local : x \in DOMAIN local' /\ local'[x] = local[x]
          /\ DOMAIN local # DOMAIN local']_vars

\* A body that may end an identity after it was lent the payload of one.
DestroysAfterLoan(p) ==
  \E i, j \in DOMAIN p : i < j /\ p[i][1] \in {"copy", "insert"} /\ p[j][1] = "destroy"

\* run_action never reaches the panic of its own expectation.
NeverPanics == phase # "panicked"

\* The world as FullWorld sees it, whatever is in memory.
DurableWorld ==
  IF manifest = Empty
  THEN [statics |-> [d \in Designations |-> None], cells |-> Empty, next |-> 0]
  ELSE [statics |-> manifest.statics, next |-> manifest.next,
        cells |-> [x \in DOMAIN manifest.backed |-> store[manifest.backed[x].token].payload]]

\* A body that reads a dormant member after one of its own `destroy` may be lent a payload
\* that still names what it destroyed.
ReadsAfterDestroy(p) ==
  \E i, j \in DOMAIN p : i < j /\ p[i][1] = "destroy" /\ p[j][1] = "copy"

\* Residency is invisible: an accepted action does to the durable world what the statements
\* of its own body, all of which can run, do to the same world wholly in memory, even if
\* the process then ends, and no other step changes it, as long as no body reads after a
\* `destroy`.
Full == INSTANCE FullWorld WITH world <- DurableWorld
ImplementsFullWorld ==
  /\ Full!Init
  /\ [][IF Accept \/ AcceptThenCrash
       THEN Full!Performs(program)
       ELSE UNCHANGED DurableWorld]_vars

\* A `set` through a designation of an identity that is neither in memory nor lent.
StoresDormant ==
  /\ Statement[1] = "set"
  /\ Target(Statement[2]) \in DOMAIN backed \ (terminated \cup DOMAIN resident \cup DOMAIN local)

\* Nor does residency make an action fail: a statement that fails in an attempt belongs to
\* a body that fails with all of the durable world in memory.  The exception is a store
\* through a dormant designation, for which write_state knows no state and asks for none.
FailuresMeant == [][Abort => Full!Fails(program) \/ StoresDormant]_vars
=============================================================================
