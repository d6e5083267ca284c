----------------------- MODULE PartialPersistenceProofs -----------------------
(***************************************************************************)
(* What PartialPersistence guarantees for every set of designations and    *)
(* every set of action bodies, whatever is resident and whatever fails.    *)
(***************************************************************************)
EXTENDS PartialPersistence, InductionFacts, FiniteSetTheorems, TLAPS

-----------------------------------------------------------------------------
(* The inductive invariant.                                                *)

\* What open restores: the manifest, or the new world while there is none.
Image ==
  IF manifest = Empty
  THEN [statics |-> [d \in Designations |-> None], backed |-> Empty, next |-> 0, nextToken |-> 0]
  ELSE manifest

\* The provider: identities and tokens below their counters, and behind every token of
\* the manifest the payload of its identity, with the summary that goes with it.
DurableOK ==
  /\ Image.statics \in [Designations -> Nat \cup {None}]
  /\ Image.next \in Nat /\ Image.nextToken \in Nat
  /\ DOMAIN Image.backed \subseteq 0 .. Image.next - 1
  /\ DOMAIN store \subseteq 0 .. Image.nextToken - 1
  /\ \A t \in DOMAIN store : store[t].payload \in Payloads
  /\ \A x \in DOMAIN Image.backed :
       /\ Image.backed[x].token \in DOMAIN store
       /\ store[Image.backed[x].token].identity = x
       /\ Image.backed[x].targets = Targets(store[Image.backed[x].token].payload)

\* The process: it holds that world, during an action too, and what it has in memory or
\* has lent is what the provider stores.
ProcessOK ==
  /\ statics = Image.statics /\ nextToken = Image.nextToken
  /\ DOMAIN backed = DOMAIN Image.backed /\ DOMAIN resident \subseteq DOMAIN backed
  /\ \A x \in DOMAIN backed :
       backed[x] = [token |-> Image.backed[x].token, targets |-> Image.backed[x].targets,
                    baseline |-> IF x \in DOMAIN resident THEN resident[x] ELSE None]
  /\ \A x \in DOMAIN resident : resident[x] = store[backed[x].token].payload
  /\ DOMAIN local \subseteq DOMAIN backed \ DOMAIN resident
  /\ \A x \in DOMAIN local : local[x] = store[backed[x].token].payload

NothingStaged == writes = Empty /\ created = {} /\ terminated = {} /\ local = Empty

\* The cells of the top-level designations and of the identities of X.
CellsOf(X) == ({"static"} \X Designations) \cup ({"slot", "members"} \X X)
Fits(n, v) == v \in IF n[1] = "members" THEN SUBSET Nat ELSE Nat \cup {None}

\* The attempt: its identities are the ones handed out since it began, it ends only
\* identities the world had, and it stages values of their kind.
AttemptOK ==
  /\ prior = Image.next /\ next \in Nat /\ prior <= next
  /\ created = prior .. next - 1 /\ terminated \subseteq DOMAIN backed
  /\ program \in Programs /\ pc \in 1 .. Len(program) + 1
  /\ DOMAIN writes \subseteq CellsOf(DOMAIN backed \cup created)
  /\ \A n \in DOMAIN writes : Fits(n, writes[n])

IInv ==
  /\ phase \in {"down", "idle", "running", "panicked"}
  /\ DurableOK
  /\ phase = "down" => resident = Empty /\ backed = Empty /\ NothingStaged
  /\ phase # "down" => ProcessOK
  /\ phase = "idle" => NothingStaged /\ next = Image.next
  /\ phase \in {"running", "panicked"} => AttemptOK
-----------------------------------------------------------------------------
(* What an attempt reads.                                                  *)

Attempting == phase \in {"running", "panicked"}

\* The identities whose cells have a place to be read from.
Readable == DOMAIN resident \cup created \cup DOMAIN local

\* During an attempt, the identities with cells were allocated: dormant ones before the
\* attempt began, created ones since then.
LEMMA Identities ==
  ASSUME IInv, Attempting
  PROVE  /\ Image.next \in Nat /\ Image.nextToken \in Nat
         /\ DOMAIN backed \subseteq 0 .. prior - 1 /\ prior \in Nat
         /\ created \subseteq Nat /\ created \cap DOMAIN backed = {}
         /\ DOMAIN resident \subseteq DOMAIN backed /\ DOMAIN local \subseteq DOMAIN backed
         /\ statics \in [Designations -> Nat \cup {None}]
         /\ Readable \subseteq DOMAIN backed \cup created
         /\ Readable \subseteq Nat
BY DEF IInv, Attempting, DurableOK, ProcessOK, AttemptOK, Readable

\* The payloads of the world are payloads.
LEMMA StoredPayloads ==
  ASSUME IInv, phase # "down"
  PROVE  /\ \A x \in DOMAIN backed :
              /\ backed[x].token \in DOMAIN store
              /\ store[backed[x].token].identity = x
              /\ store[backed[x].token].payload \in Payloads
              /\ backed[x].targets = Targets(store[backed[x].token].payload)
         /\ \A x \in DOMAIN resident : resident[x] \in Payloads
         /\ \A x \in DOMAIN local : local[x] \in Payloads
BY DEF IInv, DurableOK, ProcessOK

\* A designation names an identity or nothing.
LEMMA ReadStatic ==
  ASSUME IInv, Attempting, NEW d \in Designations
  PROVE  Read(Static(d)) \in Nat \cup {None}
<1>1. statics[d] \in Nat \cup {None}
  BY Identities
<1>2. Static(d) \in DOMAIN writes => writes[Static(d)] \in Nat \cup {None}
  BY DEF IInv, Attempting, AttemptOK, Fits, Static
<1> QED BY <1>1, <1>2 DEF Read, Static

\* The cells of a readable identity make a payload.
LEMMA ReadOwn ==
  ASSUME IInv, Attempting, NEW x \in Readable
  PROVE  /\ Read(Slot(x)) \in Nat \cup {None} /\ Read(Members(x)) \in SUBSET Nat
         /\ Payload(x) \in Payloads
<1>1. /\ x \in created => NewPayload \in Payloads
      /\ x \notin created /\ x \in DOMAIN local => local[x] \in Payloads
      /\ x \notin created /\ x \notin DOMAIN local => resident[x] \in Payloads
  BY StoredPayloads DEF Attempting, Readable, NewPayload, Payloads
<1>2. Slot(x) \in DOMAIN writes => writes[Slot(x)] \in Nat \cup {None}
  BY DEF IInv, Attempting, AttemptOK, Fits, Slot
<1>3. Members(x) \in DOMAIN writes => writes[Members(x)] \in SUBSET Nat
  BY DEF IInv, Attempting, AttemptOK, Fits, Members
<1>4. Read(Slot(x)) \in Nat \cup {None}
  BY <1>1, <1>2 DEF Read, Slot, Stored, Payloads
<1>5. Read(Members(x)) \in SUBSET Nat
  BY <1>1, <1>3 DEF Read, Members, Stored, Payloads
<1> QED BY <1>4, <1>5 DEF Payload, Payloads
-----------------------------------------------------------------------------
(* What a statement stages.                                                *)

\* The statement at the program counter is one of the language.
LEMMA StatementShape ==
  ASSUME IInv, Running
  PROVE  /\ Attempting /\ phase # "down" /\ pc \in 1 .. Len(program)
         /\ Statement[1] \in Operations
         /\ Statement[2] \in Designations /\ Statement[3] \in Designations
<1>1. program \in Seq(Operations \X Designations \X Designations)
  BY WorldAssumption DEF IInv, Running, AttemptOK
<1>2. pc \in 1 .. Len(program)
  BY <1>1 DEF IInv, Running, AttemptOK
<1>3. program[pc] \in Operations \X Designations \X Designations
  BY <1>1, <1>2
<1> QED BY <1>2, <1>3 DEF Statement, Attempting, Running

\* It is an index of the body.
LEMMA StatementIndex == ASSUME IInv, Running PROVE pc \in DOMAIN program
<1>1. program \in Seq(Operations \X Designations \X Designations)
  BY WorldAssumption DEF IInv, Running, AttemptOK
<1>2. DOMAIN program = 1 .. Len(program)
  BY <1>1
<1> QED BY <1>2, StatementShape

\* An identity with cells is readable.
LEMMA CellsReadable == \A x : HasCells(x) => x \in Readable
BY DEF HasCells, Readable

\* A successful statement stages values of their kind, for cells of the world's
\* identities and of the attempt's own.
LEMMA StagedFits ==
  ASSUME IInv, Running, Succeeds(Statement),
         NEW fresh, fresh = IF Statement[1] = "create" THEN created \cup {next} ELSE created
  PROVE  /\ DOMAIN Staged(Statement) \subseteq CellsOf(DOMAIN backed \cup fresh)
         /\ \A n \in DOMAIN Staged(Statement) : Fits(n, Staged(Statement)[n])
<1> DEFINE s == Statement
           d == Target(s[2])
           e == Target(s[3])
<1>1. /\ Attempting /\ s[1] \in Operations /\ s[2] \in Designations /\ s[3] \in Designations
      /\ next \in Nat
  BY StatementShape DEF IInv, Attempting, AttemptOK
<1>2. d \in Nat \cup {None} /\ e \in Nat \cup {None}
  BY <1>1, ReadStatic DEF Target
<1>3. Readable \subseteq DOMAIN backed \cup created /\ Readable \subseteq Nat
  BY <1>1, Identities
<1>4. /\ DOMAIN writes \subseteq CellsOf(DOMAIN backed \cup created)
      /\ \A n \in DOMAIN writes : Fits(n, writes[n])
  BY <1>1 DEF IInv, Attempting, AttemptOK
<1>5. ASSUME NEW n \in CellsOf(DOMAIN backed \cup fresh), NEW v, Fits(n, v),
             Staged(s) = [m \in {n} |-> v] ++ writes
      PROVE  /\ DOMAIN Staged(s) \subseteq CellsOf(DOMAIN backed \cup fresh)
             /\ \A m \in DOMAIN Staged(s) : Fits(m, Staged(s)[m])
  <2>1. CellsOf(DOMAIN backed \cup created) \subseteq CellsOf(DOMAIN backed \cup fresh)
    BY DEF CellsOf
  <2> HIDE DEF s
  <2> QED BY <1>4, <1>5, <2>1 DEF ++
<1>6. CASE s[1] = "create"
  <2>1. Staged(s) = [n \in {Static(s[2])} |-> next] ++ writes
    BY <1>6 DEF Staged
  <2>2. Static(s[2]) \in CellsOf(DOMAIN backed \cup fresh) /\ Fits(Static(s[2]), next)
    BY <1>1 DEF CellsOf, Fits, Static
  <2> QED BY <1>5, <2>1, <2>2
<1>7. CASE s[1] = "copy"
  <2>1. Staged(s) = [n \in {Static(s[2])} |-> Read(Slot(e))] ++ writes
    BY <1>7 DEF Staged
  <2>2. Read(Slot(e)) \in Nat \cup {None}
    BY <1>1, <1>7, CellsReadable, ReadOwn DEF Succeeds
  <2>3. Static(s[2]) \in CellsOf(DOMAIN backed \cup fresh) /\ Fits(Static(s[2]), Read(Slot(e)))
    BY <1>1, <2>2 DEF CellsOf, Fits, Static
  <2> QED BY <1>5, <2>1, <2>3
<1>8. CASE s[1] = "set"
  <2>1. Staged(s) = [n \in {Slot(d)} |-> e] ++ writes
    BY <1>8 DEF Staged
  <2>2. d \in DOMAIN backed \cup created
    BY <1>3, <1>8, CellsReadable DEF Succeeds
  <2>3. Slot(d) \in CellsOf(DOMAIN backed \cup fresh) /\ Fits(Slot(d), e)
    BY <1>2, <2>2 DEF CellsOf, Fits, Slot
  <2> QED BY <1>5, <2>1, <2>3
<1>9. CASE s[1] = "insert"
  <2>1. Staged(s) = [n \in {Members(e)} |-> Read(Members(e)) \cup {d}] ++ writes
    BY <1>9 DEF Staged
  <2>2. e \in Readable /\ Read(Members(e)) \in SUBSET Nat
    BY <1>1, <1>9, CellsReadable, ReadOwn DEF Succeeds
  <2>3. d \in Nat
    BY <1>1, <1>9, Identities DEF Succeeds, Exists
  <2>4. /\ Members(e) \in CellsOf(DOMAIN backed \cup fresh)
        /\ Fits(Members(e), Read(Members(e)) \cup {d})
    BY <1>3, <2>2, <2>3 DEF CellsOf, Fits, Members
  <2> QED BY <1>5, <2>1, <2>4
<1>10. CASE s[1] = "destroy"
  <2> DEFINE kept == DOMAIN writes \ (IF d \in DOMAIN resident THEN Own(d) ELSE {})
  <2>1. Staged(s) = [n \in Naming(d) |-> Without(n, d)] ++ [n \in kept |-> writes[n]]
    BY <1>10 DEF Staged
  <2>2. \A n \in Naming(d) : n \in CellsOf(Readable) /\ Fits(n, Without(n, d))
    <3> SUFFICES ASSUME NEW n \in Naming(d)
                 PROVE  n \in CellsOf(Readable) /\ Fits(n, Without(n, d))
      OBVIOUS
    <3>1. CASE \E c \in Designations : n = Static(c)
      BY <3>1 DEF CellsOf, Fits, Without, Static
    <3>2. CASE \E y \in Readable : n = Slot(y)
      BY <3>2 DEF CellsOf, Fits, Without, Slot
    <3>3. CASE \E y \in Readable : n = Members(y)
      BY <1>1, <3>3, ReadOwn DEF CellsOf, Fits, Without, Members
    <3> QED BY <3>1, <3>2, <3>3 DEF Naming, Scanned, Own, Readable
  <2>3. CellsOf(Readable) \subseteq CellsOf(DOMAIN backed \cup fresh)
    BY <1>3 DEF CellsOf
  <2>4. CellsOf(DOMAIN backed \cup created) \subseteq CellsOf(DOMAIN backed \cup fresh)
    BY DEF CellsOf
  <2>5. DOMAIN Staged(s) = Naming(d) \cup kept /\ kept \subseteq DOMAIN writes
    BY <2>1 DEF ++
  <2>6. ASSUME NEW n \in DOMAIN Staged(s)
        PROVE  /\ n \in CellsOf(DOMAIN backed \cup fresh)
               /\ Fits(n, Staged(s)[n])
    <3> HIDE DEF s, d, kept
    <3>1. CASE n \in Naming(d)
      <4>1. Staged(s)[n] = Without(n, d)
        BY <2>1, <3>1 DEF ++
      <4> QED BY <2>2, <2>3, <3>1, <4>1
    <3>2. CASE n \notin Naming(d)
      <4>1. Staged(s)[n] = writes[n] /\ n \in DOMAIN writes
        BY <2>1, <2>5, <2>6, <3>2 DEF ++
      <4> QED BY <1>4, <2>4, <4>1
    <3> QED BY <3>1, <3>2
  <2> QED BY <2>6
<1> QED BY <1>6, <1>7, <1>8, <1>9, <1>10 DEF Succeeds
-----------------------------------------------------------------------------
(* What an accepted action publishes.                                      *)

\* The fresh identities are numbered in their order, so are their tokens.
LEMMA FreshTokens ==
  ASSUME IInv, Attempting
  PROVE  /\ Cardinality(created) = next - prior
         /\ \A x \in created : Cardinality({y \in created : y < x}) = x - prior
<1>1. prior \in Nat /\ next \in Nat /\ prior <= next /\ created = prior .. next - 1
  BY Identities DEF IInv, Attempting, AttemptOK
<1>2. Cardinality(prior .. next - 1) = next - prior
  <2>1. Cardinality(prior .. next - 1) = IF prior > next - 1 THEN 0 ELSE next - 1 - prior + 1
    BY <1>1, FS_Interval
  <2> QED BY <1>1, <2>1
<1>3. ASSUME NEW x \in created
      PROVE  Cardinality({y \in created : y < x}) = x - prior
  <2>1. x \in Int /\ prior <= x /\ {y \in created : y < x} = prior .. x - 1
    BY <1>1, <1>3
  <2>2. Cardinality(prior .. x - 1) = IF prior > x - 1 THEN 0 ELSE x - 1 - prior + 1
    BY <1>1, <2>1, FS_Interval
  <2>3. Cardinality(prior .. x - 1) = x - prior
    BY <1>1, <2>1, <2>2
  <2> QED BY <2>1, <2>3
<1> QED BY <1>1, <1>2, <1>3

\* No two identities of the candidate share a token, and an older token stays with its
\* identity.
LEMMA HandleTokens ==
  ASSUME IInv, Attempting
  PROVE  /\ DOMAIN Handles = (DOMAIN backed \cup created) \ terminated
         /\ DOMAIN Handles \subseteq 0 .. next - 1
         /\ Candidate.nextToken \in Nat /\ nextToken <= Candidate.nextToken
         /\ \A x \in DOMAIN Handles :
              /\ Handles[x].token \in 0 .. Candidate.nextToken - 1
              /\ x \in DOMAIN backed => Handles[x] = backed[x]
              /\ x \notin DOMAIN backed => /\ x \in created /\ Handles[x].token >= nextToken
                                           /\ Handles[x].baseline = None
         /\ \A x, y \in DOMAIN Handles : Handles[x].token = Handles[y].token => x = y
<1>1. /\ prior \in Nat /\ next \in Nat /\ prior <= next /\ created = prior .. next - 1
      /\ nextToken \in Nat /\ DOMAIN backed \subseteq 0 .. prior - 1
  BY Identities DEF IInv, Attempting, AttemptOK, ProcessOK
<1>2. \A x \in DOMAIN backed : /\ backed[x].token \in 0 .. nextToken - 1
                               /\ store[backed[x].token].identity = x
  BY StoredPayloads DEF IInv, Attempting, DurableOK, ProcessOK
<1>3. Candidate.nextToken = nextToken + (next - prior)
  BY FreshTokens DEF Candidate
<1>4. DOMAIN Handles = (DOMAIN backed \cup created) \ terminated
  BY DEF Handles
<1>5. ASSUME NEW x \in DOMAIN Handles, x \in DOMAIN backed
      PROVE  Handles[x] = backed[x]
  BY <1>4, <1>5 DEF Handles
<1>6. ASSUME NEW x \in DOMAIN Handles, x \notin DOMAIN backed
      PROVE  /\ x \in created /\ Handles[x].token = nextToken + (x - prior)
             /\ Handles[x].baseline = None
  <2>1. Handles[x] = [token |-> nextToken + Cardinality({y \in created : y < x}),
                      targets |-> {}, baseline |-> None]
    BY <1>4, <1>6 DEF Handles
  <2>2. x \in created
    BY <1>4, <1>6
  <2> QED BY <2>1, <2>2, FreshTokens
<1>7. \A x \in DOMAIN Handles : Handles[x].token \in 0 .. Candidate.nextToken - 1
  BY <1>1, <1>2, <1>3, <1>5, <1>6
<1>8. \A x, y \in DOMAIN Handles : Handles[x].token = Handles[y].token => x = y
  BY <1>1, <1>2, <1>5, <1>6
<1>9. \A x \in DOMAIN Handles : x \notin DOMAIN backed => Handles[x].token >= nextToken
  BY <1>1, <1>6
<1> HIDE DEF Handles, Candidate
<1> QED BY <1>1, <1>3, <1>4, <1>5, <1>6, <1>7, <1>8, <1>9

\* The candidate keeps exactly the identities that are backed and not ended.
LEMMA CandidateShape ==
  ASSUME IInv, Attempting
  PROVE  /\ Candidate.statics = [d \in Designations |-> Read(Static(d))]
         /\ Candidate.resident = Committed.resident
         /\ DOMAIN Committed.resident = (DOMAIN resident \cup created) \ terminated
         /\ DOMAIN Committed.resident \subseteq DOMAIN Handles
         /\ \A x \in DOMAIN Committed.resident :
              x \in Readable /\ Committed.resident[x] = Payload(x)
         /\ DOMAIN Candidate.backed = DOMAIN Handles
         /\ \A x \in DOMAIN Handles :
              /\ Candidate.backed[x].token = Handles[x].token
              /\ Candidate.backed[x].targets =
                   IF x \in DOMAIN Committed.resident \cup Affected
                   THEN Targets(NewPayloadOf(x)) ELSE DormantTargets(x)
              /\ Candidate.backed[x].baseline =
                   IF x \in DOMAIN Committed.resident THEN Committed.resident[x] ELSE None
              /\ Candidate.backed[x] = [token |-> Candidate.backed[x].token,
                                        targets |-> Candidate.backed[x].targets,
                                        baseline |-> Candidate.backed[x].baseline]
<1>1. DOMAIN Committed.resident = (DOMAIN resident \cup created) \ terminated
  BY DEF Committed
<1>2. \A x \in DOMAIN Committed.resident : x \in Readable /\ Committed.resident[x] = Payload(x)
  BY DEF Committed, Readable
<1>3. DOMAIN Committed.resident \subseteq DOMAIN Handles
  BY <1>1, Identities DEF Handles
<1>4. /\ Candidate.statics = [d \in Designations |-> Read(Static(d))]
      /\ Candidate.resident = Committed.resident
  BY DEF Candidate, Committed
<1>5. Candidate.backed =
        [x \in DOMAIN Handles |->
           [token |-> Handles[x].token,
            targets |-> IF x \in DOMAIN Committed.resident \cup Affected
                        THEN Targets(NewPayloadOf(x)) ELSE DormantTargets(x),
            baseline |-> IF x \in DOMAIN Committed.resident THEN Committed.resident[x] ELSE None]]
  BY DEF Candidate
<1> QED BY <1>1, <1>2, <1>3, <1>4, <1>5

\* The fields of a handle.
LEMMA HandleFields ==
  ASSUME ProcessOK, NEW x \in DOMAIN backed
  PROVE  /\ backed[x].token = Image.backed[x].token
         /\ backed[x].targets = Image.backed[x].targets
         /\ backed[x].baseline = IF x \in DOMAIN resident THEN resident[x] ELSE None
<1>1. backed[x] = [token |-> Image.backed[x].token, targets |-> Image.backed[x].targets,
                   baseline |-> IF x \in DOMAIN resident THEN resident[x] ELSE None]
  BY DEF ProcessOK
<1> QED BY <1>1

\* What becomes of a payload that was not in memory and not lent.
LEMMA DormantShape ==
  ASSUME IInv, Attempting, NEW x \in DOMAIN Handles, x \notin DOMAIN Committed.resident
  PROVE  /\ x \in DOMAIN backed \ DOMAIN resident
         /\ DormantPayload(x) \in Payloads
         /\ DormantTargets(x) = Targets(DormantPayload(x))
         /\ x \in DOMAIN local => local[x] = store[backed[x].token].payload
<1>1. x \in DOMAIN backed \ DOMAIN resident
  BY CandidateShape, HandleTokens
<1>2. x \in DOMAIN local => Payload(x) \in Payloads
  BY ReadOwn DEF Readable
<1>3. /\ store[backed[x].token].payload \in Payloads
      /\ backed[x].targets = Targets(store[backed[x].token].payload)
  BY <1>1, StoredPayloads DEF Attempting
<1>4. x \in DOMAIN local => local[x] = store[backed[x].token].payload
  BY DEF IInv, Attempting, ProcessOK
<1> QED BY <1>1, <1>2, <1>3, <1>4 DEF DormantPayload, DormantTargets

\* The summary of every identity is the one of its new payload, which goes out unless
\* the provider has it already.
LEMMA CandidateExact ==
  ASSUME IInv, Attempting, NEW x \in DOMAIN Handles
  PROVE  /\ NewPayloadOf(x) \in Payloads
         /\ Candidate.backed[x].targets = Targets(NewPayloadOf(x))
         /\ x \notin Replaced => /\ x \in DOMAIN backed
                                 /\ store[backed[x].token].payload = NewPayloadOf(x)
<1>1. CASE x \in DOMAIN Committed.resident
  <2>1. x \in Readable /\ Committed.resident[x] = Payload(x) /\ NewPayloadOf(x) = Payload(x)
    BY <1>1, CandidateShape DEF NewPayloadOf
  <2>2. NewPayloadOf(x) \in Payloads
    BY <2>1, ReadOwn
  <2>3. Candidate.backed[x].targets = Targets(NewPayloadOf(x))
    BY <1>1, CandidateShape
  <2>4. ASSUME x \notin Replaced
        PROVE  x \in DOMAIN backed /\ store[backed[x].token].payload = NewPayloadOf(x)
    <3>1. Handles[x].baseline = NewPayloadOf(x)
      BY <1>1, <2>1, <2>4 DEF Replaced
    <3>2. Handles[x].baseline # None
      BY <2>2, <3>1, WorldAssumption
    <3>3. x \in DOMAIN backed /\ Handles[x] = backed[x]
      BY <3>2, HandleTokens
    <3> QED BY <3>1, <3>2, <3>3 DEF IInv, Attempting, ProcessOK
  <2> QED BY <2>2, <2>3, <2>4
<1>2. CASE x \notin DOMAIN Committed.resident
  <2>1. /\ x \in DOMAIN backed \ DOMAIN resident
        /\ DormantPayload(x) \in Payloads
        /\ DormantTargets(x) = Targets(DormantPayload(x))
        /\ x \in DOMAIN local => local[x] = store[backed[x].token].payload
    BY <1>2, DormantShape
  <2>2. NewPayloadOf(x) = IF x \in Affected THEN Stripped(DormantPayload(x), terminated)
                          ELSE DormantPayload(x)
    BY <1>2 DEF NewPayloadOf
  <2>3. Stripped(DormantPayload(x), terminated) \in Payloads
    BY <2>1 DEF Stripped, Payloads
  <2>4. Candidate.backed[x].targets = Targets(NewPayloadOf(x))
    BY <1>2, <2>1, <2>2, CandidateShape
  <2>5. ASSUME x \notin Replaced
        PROVE  store[backed[x].token].payload = NewPayloadOf(x)
    <3>1. x \notin Affected /\ (x \in DOMAIN local => Payload(x) = local[x])
      BY <1>2, <2>5 DEF Replaced
    <3> QED BY <2>1, <2>2, <3>1 DEF DormantPayload
  <2> QED BY <2>1, <2>2, <2>3, <2>4, <2>5
<1> QED BY <1>1, <1>2

\* Once published, every token of the new manifest leads to the new payload of its
\* identity, and no token that was in the store leads to another identity.
LEMMA PublishedStore ==
  ASSUME IInv, Attempting, Publish(Candidate)
  PROVE  /\ \A x \in DOMAIN Handles :
              /\ Handles[x].token \in DOMAIN store'
              /\ store'[Handles[x].token].identity = x
              /\ store'[Handles[x].token].payload = NewPayloadOf(x)
         /\ \A t \in DOMAIN store : /\ t \in DOMAIN store'
                                    /\ store'[t].identity = store[t].identity
         /\ DOMAIN store' \subseteq 0 .. Candidate.nextToken - 1
         /\ \A t \in DOMAIN store' : store'[t].payload \in Payloads
<1> DEFINE T == {Candidate.backed[x].token : x \in Replaced}
           owner(t) == CHOOSE y \in Replaced : Candidate.backed[y].token = t
           new == [t \in T |-> [identity |-> owner(t), payload |-> NewPayloadOf(owner(t))]]
<1>1. store' = new ++ store
  BY DEF Publish
<1>2. Replaced \subseteq DOMAIN Handles
  BY DEF Replaced
<1>3. \A x \in DOMAIN Handles : Candidate.backed[x].token = Handles[x].token
  BY CandidateShape
<1>4. ASSUME NEW x \in Replaced
      PROVE  Handles[x].token \in T /\ owner(Handles[x].token) = x
  <2>1. Candidate.backed[x].token = Handles[x].token
    BY <1>2, <1>3
  <2>2. \A y \in Replaced : Candidate.backed[y].token = Handles[x].token => y = x
    BY <1>2, <1>3, HandleTokens
  <2> QED BY <2>1, <2>2
<1>5. \A t \in T : /\ owner(t) \in Replaced /\ Handles[owner(t)].token = t
                  /\ t \in 0 .. Candidate.nextToken - 1
  BY <1>2, <1>3, HandleTokens
<1>6. /\ DOMAIN store \subseteq 0 .. nextToken - 1 /\ nextToken \in Nat
      /\ \A t \in DOMAIN store : store[t].payload \in Payloads
  BY DEF IInv, Attempting, DurableOK, ProcessOK
<1>7. \A x \in DOMAIN backed : /\ backed[x].token \in DOMAIN store
                               /\ store[backed[x].token].identity = x
  BY StoredPayloads DEF Attempting
<1> HIDE DEF T, owner
<1>8. ASSUME NEW x \in DOMAIN Handles
      PROVE  /\ Handles[x].token \in DOMAIN store'
             /\ store'[Handles[x].token].identity = x
             /\ store'[Handles[x].token].payload = NewPayloadOf(x)
  <2>1. CASE x \in Replaced
    BY <1>1, <1>4, <2>1 DEF ++
  <2>2. CASE x \notin Replaced
    <3>1. /\ x \in DOMAIN backed /\ Handles[x] = backed[x]
          /\ store[backed[x].token].payload = NewPayloadOf(x)
      BY <2>2, CandidateExact, HandleTokens
    <3>2. Handles[x].token \notin T
      BY <1>2, <1>5, <2>2, HandleTokens
    <3> QED BY <1>1, <1>7, <3>1, <3>2 DEF ++
  <2> QED BY <2>1, <2>2
<1>9. ASSUME NEW t \in DOMAIN store
      PROVE  t \in DOMAIN store' /\ store'[t].identity = store[t].identity
  <2>1. CASE t \in T
    <3>1. owner(t) \in DOMAIN Handles /\ Handles[owner(t)].token = t /\ t < nextToken
      BY <1>2, <1>5, <1>6, <2>1
    <3>2. owner(t) \in DOMAIN backed /\ Handles[owner(t)] = backed[owner(t)]
      BY <1>6, <3>1, HandleTokens
    <3>3. store[t].identity = owner(t)
      BY <1>7, <3>1, <3>2
    <3> QED BY <1>1, <2>1, <3>3 DEF ++
  <2>2. CASE t \notin T
    BY <1>1, <2>2 DEF ++
  <2> QED BY <2>1, <2>2
<1>10. DOMAIN store' = T \cup DOMAIN store
  BY <1>1 DEF ++
<1>11. DOMAIN store' \subseteq 0 .. Candidate.nextToken - 1
  BY <1>5, <1>6, <1>10, HandleTokens
<1>12. ASSUME NEW t \in DOMAIN store'
       PROVE  store'[t].payload \in Payloads
  <2>1. CASE t \in T
    <3>1. NewPayloadOf(owner(t)) \in Payloads
      BY <1>2, <1>5, <2>1, CandidateExact
    <3> QED BY <1>1, <2>1, <3>1 DEF ++
  <2>2. CASE t \notin T
    BY <1>1, <1>6, <1>10, <2>2 DEF ++
  <2> QED BY <2>1, <2>2
<1> QED BY <1>8, <1>9, <1>11, <1>12
-----------------------------------------------------------------------------
(* Every step keeps the invariant.                                         *)

\* An accepted action leaves a sound provider, and its process, if it lives on, holds
\* what was published.
LEMMA PublishDurable ==
  ASSUME IInv, phase = "running", Publish(Candidate)
  PROVE  /\ manifest' # Empty /\ Image' = manifest' /\ DurableOK'
         /\ Image'.statics = Candidate.statics /\ Image'.next = next
         /\ Image'.nextToken = Candidate.nextToken
         /\ DOMAIN Image'.backed = DOMAIN Handles
         /\ \A x \in DOMAIN Handles :
              /\ Image'.backed[x].token = Handles[x].token
              /\ Image'.backed[x].targets = Candidate.backed[x].targets
<1> USE DEF Attempting
<1>1. manifest' = [statics |-> Candidate.statics, next |-> next, nextToken |-> Candidate.nextToken,
                   backed |-> [x \in DOMAIN Candidate.backed |->
                     [token |-> Candidate.backed[x].token, targets |-> Candidate.backed[x].targets]]]
  BY DEF Publish
<1>2. manifest' # Empty
  BY <1>1 DEF Empty
<1>3. Image' = manifest'
  BY <1>2 DEF Image
<1>4. /\ Image'.statics = Candidate.statics /\ Image'.next = next
      /\ Image'.nextToken = Candidate.nextToken
      /\ DOMAIN Image'.backed = DOMAIN Candidate.backed
      /\ \A x \in DOMAIN Candidate.backed :
           /\ Image'.backed[x].token = Candidate.backed[x].token
           /\ Image'.backed[x].targets = Candidate.backed[x].targets
  BY <1>1, <1>3
<1>5. /\ DOMAIN Image'.backed = DOMAIN Handles
      /\ \A x \in DOMAIN Handles :
           /\ Image'.backed[x].token = Handles[x].token
           /\ Image'.backed[x].targets = Candidate.backed[x].targets
  BY <1>4, CandidateShape
<1>6. Image'.statics \in [Designations -> Nat \cup {None}]
  BY <1>4, CandidateShape, ReadStatic
<1>7. Image'.next \in Nat /\ Image'.nextToken \in Nat
  BY <1>4, HandleTokens DEF IInv, AttemptOK
<1>8. DOMAIN Image'.backed \subseteq 0 .. Image'.next - 1
  BY <1>4, <1>5, HandleTokens
<1>9. /\ DOMAIN store' \subseteq 0 .. Image'.nextToken - 1
      /\ \A t \in DOMAIN store' : store'[t].payload \in Payloads
  BY <1>4, PublishedStore
<1>10. ASSUME NEW x \in DOMAIN Image'.backed
       PROVE  /\ Image'.backed[x].token \in DOMAIN store'
              /\ store'[Image'.backed[x].token].identity = x
              /\ Image'.backed[x].targets = Targets(store'[Image'.backed[x].token].payload)
  BY <1>5, <1>10, PublishedStore, CandidateExact
<1>11. DurableOK'
  BY <1>6, <1>7, <1>8, <1>9, <1>10 DEF DurableOK
<1> QED BY <1>2, <1>3, <1>4, <1>5, <1>11

\* An accepted publication: the provider has what the process has, and the attempt is over.
LEMMA AcceptInv == ASSUME IInv, Accept PROVE IInv'
<1>1. phase = "running" /\ Publish(Candidate)
  BY DEF Accept, Finished
<1>2. /\ DurableOK' /\ Image'.statics = Candidate.statics /\ Image'.next = next
      /\ Image'.nextToken = Candidate.nextToken
      /\ DOMAIN Image'.backed = DOMAIN Handles
      /\ \A x \in DOMAIN Handles :
           /\ Image'.backed[x].token = Handles[x].token
           /\ Image'.backed[x].targets = Candidate.backed[x].targets
  BY <1>1, PublishDurable
<1>3. /\ phase' = "idle" /\ next' = next /\ NothingStaged'
      /\ statics' = Candidate.statics /\ resident' = Candidate.resident
      /\ backed' = Candidate.backed /\ nextToken' = Candidate.nextToken
  BY DEF Accept, Stopped, Discarded, NothingStaged
<1>4. /\ DOMAIN backed' = DOMAIN Handles /\ DOMAIN resident' \subseteq DOMAIN backed'
      /\ resident' = Committed.resident
  BY <1>1, <1>3, CandidateShape DEF Attempting
<1>5. ASSUME NEW x \in DOMAIN backed'
      PROVE  /\ backed'[x] = [token |-> Image'.backed[x].token, targets |-> Image'.backed[x].targets,
                              baseline |-> IF x \in DOMAIN resident' THEN resident'[x] ELSE None]
             /\ x \in DOMAIN resident' => resident'[x] = store'[backed'[x].token].payload
  <2>1. backed'[x].token = Handles[x].token
    BY <1>1, <1>3, <1>4, <1>5, CandidateShape DEF Attempting
  <2>2. store'[backed'[x].token].payload = NewPayloadOf(x)
    BY <1>1, <1>4, <1>5, <2>1, PublishedStore DEF Attempting
  <2>3. x \in DOMAIN resident' => resident'[x] = NewPayloadOf(x)
    BY <1>4 DEF NewPayloadOf
  <2>4. backed'[x] = [token |-> Candidate.backed[x].token, targets |-> Candidate.backed[x].targets,
                      baseline |-> IF x \in DOMAIN resident' THEN resident'[x] ELSE None]
    BY <1>1, <1>3, <1>4, <1>5, CandidateShape DEF Attempting
  <2> QED BY <1>2, <1>3, <1>4, <1>5, <2>1, <2>2, <2>3, <2>4
<1>6. DOMAIN local' = {}
  BY <1>3 DEF NothingStaged, Empty
<1>7. ProcessOK'
  BY <1>2, <1>3, <1>4, <1>5, <1>6 DEF ProcessOK
<1> QED BY <1>2, <1>3, <1>7 DEF IInv

\* A publication that the process does not live to hear of.
LEMMA AcceptThenCrashInv == ASSUME IInv, AcceptThenCrash PROVE IInv'
<1>1. phase = "running" /\ Publish(Candidate)
  BY DEF AcceptThenCrash, Finished
<1>2. DurableOK'
  BY <1>1, PublishDurable
<1>3. /\ phase' = "down" /\ resident' = Empty /\ backed' = Empty /\ NothingStaged'
  BY DEF AcceptThenCrash, Stopped, Discarded, NothingStaged
<1> QED BY <1>2, <1>3 DEF IInv

\* Steps that leave the provider alone keep it sound.
LEMMA DurableUnchanged ==
  ASSUME IInv, UNCHANGED durable PROVE DurableOK' /\ Image' = Image
BY DEF IInv, durable, DurableOK, Image

\* Open takes over what the provider has, with every identity dormant.
LEMMA OpenInv == ASSUME IInv, Open PROVE IInv'
<1>1. DurableOK' /\ Image' = Image /\ store' = store
  BY DurableUnchanged DEF Open, durable
<1>2. /\ phase = "down" /\ phase' = "idle" /\ resident' = Empty
      /\ local' = local /\ writes' = writes /\ created' = created /\ terminated' = terminated
      /\ NothingStaged
  BY DEF Open, IInv, run, overlay
<1>3. statics' = Image.statics /\ next' = Image.next /\ nextToken' = Image.nextToken
  BY DEF Open, Image
<1>4. /\ DOMAIN backed' = DOMAIN Image.backed
      /\ \A x \in DOMAIN backed' :
           backed'[x] = [token |-> Image.backed[x].token, targets |-> Image.backed[x].targets,
                         baseline |-> None]
  BY DEF Open, Image, Empty
<1>5. DOMAIN local' = {} /\ DOMAIN resident' = {} /\ NothingStaged'
  BY <1>2 DEF NothingStaged, Empty
<1>6. ProcessOK'
  BY <1>1, <1>3, <1>4, <1>5 DEF ProcessOK
<1> QED BY <1>1, <1>2, <1>3, <1>5, <1>6 DEF IInv

\* A crash loses the process and nothing of the provider.
LEMMA CrashInv == ASSUME IInv, Crash PROVE IInv'
<1>1. DurableOK'
  BY DurableUnchanged DEF Crash
<1>2. phase' = "down" /\ resident' = Empty /\ backed' = Empty /\ NothingStaged'
  BY DEF Crash, Stopped, Discarded, NothingStaged
<1> QED BY <1>1, <1>2 DEF IInv

\* Materialize makes a dormant identity resident with the payload of its token.
LEMMA MaterializeInv == ASSUME IInv, NEW x, Materialize(x) PROVE IInv'
<1> DEFINE v == store[backed[x].token].payload
<1>1. DurableOK' /\ Image' = Image /\ store' = store
  BY DurableUnchanged DEF Materialize, durable
<1>2. /\ phase = "idle" /\ phase' = "idle" /\ x \in DOMAIN backed \ DOMAIN resident
      /\ resident' = [y \in {x} |-> v] ++ resident
      /\ backed' = [backed EXCEPT ![x].baseline = v]
      /\ statics' = statics /\ nextToken' = nextToken /\ next' = next
      /\ local' = local /\ writes' = writes /\ created' = created /\ terminated' = terminated
  BY DEF Materialize, run, overlay
<1>3. ProcessOK /\ NothingStaged /\ next = Image.next
  BY <1>2 DEF IInv
<1>4. NothingStaged' /\ DOMAIN local' = {}
  BY <1>2, <1>3 DEF NothingStaged, Empty
<1>5. DOMAIN backed' = DOMAIN backed /\ DOMAIN resident' = DOMAIN resident \cup {x}
  BY <1>2 DEF ++
<1>6. ASSUME NEW y \in DOMAIN backed'
      PROVE  /\ backed'[y] = [token |-> Image.backed[y].token, targets |-> Image.backed[y].targets,
                              baseline |-> IF y \in DOMAIN resident' THEN resident'[y] ELSE None]
             /\ y \in DOMAIN resident' => resident'[y] = store[backed'[y].token].payload
  <2>1. CASE y = x
    <3>1. backed[x] = [token |-> Image.backed[x].token, targets |-> Image.backed[x].targets,
                       baseline |-> None]
      BY <1>2, <1>3 DEF ProcessOK
    <3>2. backed'[x] = [token |-> Image.backed[x].token, targets |-> Image.backed[x].targets,
                        baseline |-> v]
      BY <1>2, <3>1
    <3>3. resident'[x] = v
      BY <1>2 DEF ++
    <3> QED BY <1>5, <2>1, <3>1, <3>2, <3>3
  <2>2. CASE y # x
    <3>1. backed'[y] = backed[y] /\ y \in DOMAIN backed
      BY <1>2, <1>6, <2>2
    <3>2. (y \in DOMAIN resident' <=> y \in DOMAIN resident)
          /\ (y \in DOMAIN resident => resident'[y] = resident[y])
      BY <1>2, <2>2 DEF ++
    <3> QED BY <1>3, <3>1, <3>2 DEF ProcessOK
  <2> QED BY <2>1, <2>2
<1>7. ProcessOK'
  BY <1>1, <1>2, <1>3, <1>4, <1>5, <1>6, ZenonT(30) DEF ProcessOK
<1> QED BY <1>1, <1>2, <1>3, <1>4, <1>7 DEF IInv

\* An attempt begins with nothing staged.
LEMMA RunActionInv == ASSUME IInv, NEW p \in Programs, RunAction(p) PROVE IInv'
<1>1. DurableOK' /\ Image' = Image /\ store' = store
  BY DurableUnchanged DEF RunAction, durable
<1>2. /\ phase = "idle" /\ phase' = "running" /\ next' = next
      /\ program' = p /\ pc' = 1 /\ prior' = next
      /\ UNCHANGED <<statics, resident, backed, nextToken, local, writes, created, terminated>>
  BY DEF RunAction, world, overlay
<1>3. ProcessOK /\ NothingStaged /\ next = Image.next /\ next \in Nat
  BY <1>2 DEF IInv, DurableOK
<1>4. ProcessOK'
  BY <1>1, <1>2, <1>3 DEF ProcessOK
<1>5. p \in Seq(Operations \X Designations \X Designations)
  BY WorldAssumption
<1>6. AttemptOK'
  <2>1. created' = prior' .. next' - 1
    BY <1>2, <1>3 DEF NothingStaged
  <2>2. pc' \in 1 .. Len(program') + 1
    BY <1>2, <1>5
  <2>3. DOMAIN writes' = {} /\ terminated' = {}
    BY <1>2, <1>3 DEF NothingStaged, Empty
  <2> QED BY <1>1, <1>2, <1>3, <2>1, <2>2, <2>3 DEF AttemptOK
<1> QED BY <1>1, <1>2, <1>4, <1>6 DEF IInv

\* A statement stages what it does, over the identities it found.
LEMMA ExecuteInv == ASSUME IInv, Execute PROVE IInv'
<1>1. DurableOK' /\ Image' = Image /\ store' = store
  BY DurableUnchanged DEF Execute, durable
<1>2. /\ Running /\ Succeeds(Statement) /\ phase = "running" /\ phase' = "running"
      /\ pc' = pc + 1 /\ writes' = Staged(Statement)
      /\ IF Statement[1] = "create"
         THEN created' = created \cup {next} /\ next' = next + 1
         ELSE created' = created /\ next' = next
      /\ terminated' = IF Statement[1] = "destroy"
                       THEN terminated \cup {Target(Statement[2])} ELSE terminated
      /\ UNCHANGED <<statics, resident, backed, nextToken, program, prior, local>>
  BY DEF Execute, Running, world
<1>3. ProcessOK /\ AttemptOK
  BY <1>2 DEF IInv
<1>4. ProcessOK'
  BY <1>1, <1>2, <1>3 DEF ProcessOK
<1>5. /\ next' \in Nat /\ prior' <= next' /\ created' = prior' .. next' - 1
  <2>1. prior \in Nat /\ next \in Nat /\ prior <= next /\ created = prior .. next - 1
    BY <1>2, <1>3, Identities DEF Attempting, AttemptOK
  <2>2. (prior .. next - 1) \cup {next} = prior .. (next + 1) - 1
    BY <2>1
  <2>3. prior' = prior
    BY <1>2
  <2>4. CASE Statement[1] = "create"
    <3>1. created' = created \cup {next} /\ next' = next + 1
      BY <1>2, <2>4
    <3>2. next' \in Nat /\ prior <= next'
      BY <2>1, <3>1
    <3>3. created' = prior .. next' - 1
      BY <2>1, <2>2, <3>1
    <3> QED BY <2>3, <3>2, <3>3
  <2>5. CASE Statement[1] # "create"
    BY <1>2, <2>1, <2>3, <2>5
  <2> QED BY <2>4, <2>5
<1>6. terminated' \subseteq DOMAIN backed'
  <2>1. Statement[1] = "destroy" => Target(Statement[2]) \in DOMAIN backed
    BY <1>2 DEF Succeeds
  <2> QED BY <1>2, <1>3, <2>1 DEF AttemptOK
<1>7. pc' \in 1 .. Len(program') + 1
  <2>1. program \in Seq(Operations \X Designations \X Designations)
    BY <1>3, WorldAssumption DEF AttemptOK
  <2>2. Len(program) \in Nat /\ pc \in 1 .. Len(program)
    BY <1>2, <2>1, StatementShape
  <2> QED BY <1>2, <2>2
<1>8. /\ DOMAIN writes' \subseteq CellsOf(DOMAIN backed' \cup created')
      /\ \A n \in DOMAIN writes' : Fits(n, writes'[n])
  BY <1>2, StagedFits
<1>9. AttemptOK'
  BY <1>1, <1>2, <1>3, <1>5, <1>6, <1>7, <1>8 DEF AttemptOK
<1> QED BY <1>1, <1>2, <1>4, <1>9 DEF IInv

\* What a request lends is the payload of a dormant identity that was not lent before.
LEMMA RequestedDormant ==
  ASSUME IInv, Running, NEW x \in Requested(Statement)
  PROVE  x \in DOMAIN backed \ DOMAIN resident /\ x \notin DOMAIN local
<1>1. x \in DOMAIN backed /\ ~HasCells(x) /\ (x \notin terminated \/ x \notin DOMAIN resident)
  BY DEF Requested
<1> QED BY <1>1 DEF HasCells

\* A retry lends the attempt one more dormant identity and begins it again.
LEMMA RetryInv == ASSUME IInv, Retry PROVE IInv'
<1>1. DurableOK' /\ Image' = Image /\ store' = store
  BY DurableUnchanged DEF Retry, durable
<1>2. PICK x \in Requested(Statement) :
        local' = [y \in {x} |-> store[backed[x].token].payload] ++ local
  BY DEF Retry
<1>3. /\ Running /\ phase = "running" /\ phase' = "running" /\ pc' = 1 /\ next' = prior
      /\ writes' = Empty /\ created' = {} /\ terminated' = {}
      /\ UNCHANGED <<statics, resident, backed, nextToken, program, prior>>
  BY DEF Retry, Running, world, Discarded
<1>4. ProcessOK /\ AttemptOK
  BY <1>3 DEF IInv
<1>5. x \in DOMAIN backed \ DOMAIN resident
  BY <1>3, RequestedDormant
<1>6. /\ DOMAIN local' = {x} \cup DOMAIN local
      /\ \A y \in DOMAIN local' :
           local'[y] = IF y = x THEN store[backed[x].token].payload ELSE local[y]
  BY <1>2 DEF ++
<1>7. ProcessOK'
  BY <1>1, <1>3, <1>4, <1>5, <1>6 DEF ProcessOK
<1>8. AttemptOK'
  <2>1. program \in Seq(Operations \X Designations \X Designations) /\ Len(program) \in Nat
    BY <1>4, WorldAssumption DEF AttemptOK
  <2>2. prior \in Nat
    BY <1>3, Identities DEF Attempting
  <2>3. created' = prior' .. next' - 1 /\ pc' \in 1 .. Len(program') + 1
    BY <1>3, <2>1, <2>2
  <2>4. DOMAIN writes' = {}
    BY <1>3 DEF Empty
  <2> QED BY <1>1, <1>3, <1>4, <2>2, <2>3, <2>4 DEF AttemptOK
<1> QED BY <1>1, <1>3, <1>7, <1>8 DEF IInv

\* An attempt given up leaves the world as it was when the attempt began.
LEMMA GiveUpInv == ASSUME IInv, phase = "running", GiveUp PROVE IInv'
<1>1. DurableOK' /\ Image' = Image /\ store' = store
  BY DurableUnchanged DEF GiveUp, durable
<1>2. /\ phase' = "idle" /\ next' = prior /\ NothingStaged'
      /\ UNCHANGED <<statics, resident, backed, nextToken>>
  BY DEF GiveUp, world, Stopped, Discarded, NothingStaged
<1>3. ProcessOK /\ prior = Image.next /\ DOMAIN local' = {}
  BY <1>2 DEF IInv, AttemptOK, NothingStaged, Empty
<1>4. ProcessOK'
  BY <1>1, <1>2, <1>3 DEF ProcessOK
<1> QED BY <1>1, <1>2, <1>3, <1>4 DEF IInv

\* A panic in an attempt leaves everything where it was.
LEMMA PanicInv == ASSUME IInv, Panic PROVE IInv'
<1>1. DurableOK' /\ Image' = Image /\ store' = store
  BY DurableUnchanged DEF Panic, durable
<1>2. /\ phase = "running" /\ phase' = "panicked"
      /\ UNCHANGED <<statics, resident, backed, next, nextToken, program, pc, prior, local,
                     writes, created, terminated>>
  BY DEF Panic, Finished, world, run, overlay
<1>3. ProcessOK' /\ AttemptOK'
  BY <1>1, <1>2 DEF IInv, ProcessOK, AttemptOK
<1> QED BY <1>1, <1>2, <1>3 DEF IInv

\* A step of nothing.
LEMMA StutterInv == ASSUME IInv, UNCHANGED vars PROVE IInv'
<1>1. DurableOK' /\ Image' = Image /\ store' = store
  BY DurableUnchanged DEF vars, durable
<1> QED BY <1>1 DEF IInv, vars, world, run, overlay, ProcessOK, AttemptOK, NothingStaged

\* The empty world.
LEMMA InitInv == Init => IInv
<1> SUFFICES ASSUME Init PROVE IInv
  OBVIOUS
<1>1. /\ Image.statics = [d \in Designations |-> None] /\ DOMAIN Image.backed = {}
      /\ Image.next = 0 /\ Image.nextToken = 0 /\ DOMAIN store = {}
  BY DEF Init, Image, Empty
<1>2. DurableOK
  BY <1>1 DEF DurableOK
<1> QED BY <1>2 DEF Init, IInv, NothingStaged

\* Every step keeps the invariant.
LEMMA NextInv == ASSUME IInv, [Next]_vars PROVE IInv'
<1>1. CASE Open
  BY <1>1, OpenInv
<1>2. CASE Crash
  BY <1>2, CrashInv
<1>3. ASSUME NEW x \in 0 .. MaxIdentity, Materialize(x) PROVE IInv'
  BY <1>3, MaterializeInv
<1>4. ASSUME NEW p \in Programs, RunAction(p) PROVE IInv'
  BY <1>4, RunActionInv
<1>5. CASE RunStep
  <2>1. CASE Execute
    BY <2>1, ExecuteInv
  <2>2. CASE Retry
    BY <2>2, RetryInv
  <2>3. CASE Abort \/ LoadFails \/ Reject
    BY <2>3, GiveUpInv DEF Abort, LoadFails, Reject, Running, Finished
  <2>4. CASE Accept
    BY <2>4, AcceptInv
  <2>5. CASE AcceptThenCrash
    BY <2>5, AcceptThenCrashInv
  <2>6. CASE Panic
    BY <2>6, PanicInv
  <2> QED BY <1>5, <2>1, <2>2, <2>3, <2>4, <2>5, <2>6 DEF RunStep
<1>6. CASE UNCHANGED vars
  BY <1>6, StutterInv
<1> QED BY <1>1, <1>2, <1>3, <1>4, <1>5, <1>6 DEF Next

\* The inductive invariant holds in every reachable state.
THEOREM InvariantHolds == Spec => []IInv
BY InitInv, NextInv, PTL DEF Spec
-----------------------------------------------------------------------------
(* The properties that follow from it.                                     *)

\* The shape of the wrapper holds for every world.
THEOREM TypeCorrect == Spec => []TypeOK
<1>1. ASSUME IInv PROVE TypeOK
  <2>1. /\ phase \in {"down", "idle", "running", "panicked"}
        /\ DOMAIN resident \subseteq DOMAIN backed
        /\ DOMAIN local \subseteq DOMAIN backed \ DOMAIN resident
    BY <1>1 DEF IInv, ProcessOK, NothingStaged, Empty
  <2>2. /\ \A x \in DOMAIN resident : resident[x] \in Payloads
        /\ \A x \in DOMAIN local : local[x] \in Payloads
    <3>1. CASE phase = "down"
      BY <1>1, <3>1 DEF IInv, NothingStaged, Empty
    <3>2. CASE phase # "down"
      BY <1>1, <3>2, StoredPayloads
    <3> QED BY <3>1, <3>2
  <2>3. \A x \in DOMAIN backed : backed[x].token < nextToken
    <3>1. CASE phase = "down"
      BY <1>1, <3>1 DEF IInv, Empty
    <3>2. CASE phase # "down"
      BY <1>1, <3>2, StoredPayloads DEF IInv, DurableOK, ProcessOK
    <3> QED BY <3>1, <3>2
  <2>4. created \cap DOMAIN backed = {} /\ terminated \subseteq DOMAIN backed
    <3>1. CASE Attempting
      BY <1>1, <3>1, Identities DEF IInv, Attempting, AttemptOK
    <3>2. CASE ~Attempting
      BY <1>1, <3>2 DEF IInv, Attempting, NothingStaged
    <3> QED BY <3>1, <3>2
  <2>5. phase \in {"down", "idle"} =>
          writes = Empty /\ created = {} /\ terminated = {} /\ local = Empty
    BY <1>1 DEF IInv, NothingStaged
  <2> QED BY <2>1, <2>2, <2>3, <2>4, <2>5 DEF TypeOK
<1> QED BY <1>1, InvariantHolds, PTL

\* Every identity of the manifest can be brought back with an exact cleanup summary,
\* however often actions that never had its payload in memory rewrote it.
THEOREM SummariesExact == Spec => []SummaryExact
<1>1. IInv => SummaryExact
  BY DEF IInv, DurableOK, SummaryExact, Image
<1> QED BY <1>1, InvariantHolds, PTL

\* Between actions the process holds the world that a restart would restore.
THEOREM ProcessAlwaysAgrees == Spec => []ProcessAgrees
<1>1. IInv => ProcessAgrees
  BY DEF IInv, ProcessOK, ProcessAgrees, Image
<1> QED BY <1>1, InvariantHolds, PTL

\* A backing token never passes to another identity, through any number of restarts.
THEOREM TokensNeverPass == Spec => TokensKept
<1> DEFINE Kept == \A t \in DOMAIN store :
                     t \in DOMAIN store' /\ store'[t].identity = store[t].identity
<1>1. ASSUME IInv, [Next]_vars PROVE Kept
  <2>1. CASE UNCHANGED store
    BY <2>1
  <2>2. CASE Accept \/ AcceptThenCrash
    BY <1>1, <2>2, PublishedStore DEF Accept, AcceptThenCrash, Finished, Attempting
  <2>3. CASE ~(Accept \/ AcceptThenCrash)
    BY <1>1, <2>1, <2>3
    DEF Next, RunStep, vars, durable, Open, Crash, Materialize, RunAction, Execute, Retry,
        Abort, LoadFails, Reject, GiveUp, Panic
  <2> QED BY <2>2, <2>3
<1>2. IInv /\ [Next]_vars => [Kept]_vars
  BY <1>1
<1> QED BY <1>2, InvariantHolds, PTL DEF Spec, TokensKept

\* An attempt goes forward, or it is dropped and begun again with one payload more.
THEOREM AttemptsAlwaysProgress == Spec => AttemptsProgress
<1> DEFINE Forward == local' = local /\ pc' > pc
           More == /\ \A x \in DOMAIN local : x \in DOMAIN local' /\ local'[x] = local[x]
                   /\ DOMAIN local # DOMAIN local'
           Progress == phase = "running" /\ phase' = "running" => Forward \/ More
<1>1. ASSUME IInv, Next, phase = "running", phase' = "running" PROVE Forward \/ More
  <2>1. Execute \/ Retry
    BY <1>1
    DEF Next, RunStep, Open, Crash, Materialize, RunAction, Abort, LoadFails, Accept,
        AcceptThenCrash, Reject, Panic, GiveUp
  <2>2. CASE Execute
    <3>1. pc \in Nat /\ pc' = pc + 1 /\ local' = local
      BY <1>1, <2>2, StatementShape DEF Execute
    <3> QED BY <3>1
  <2>3. CASE Retry
    <3>1. PICK x \in Requested(Statement) :
            local' = [y \in {x} |-> store[backed[x].token].payload] ++ local
      BY <2>3 DEF Retry
    <3>2. x \notin DOMAIN local
      BY <1>1, <2>3, RequestedDormant DEF Retry
    <3> QED BY <3>1, <3>2 DEF ++
  <2> QED BY <2>1, <2>2, <2>3
<1>2. IInv /\ [Next]_vars => [Progress]_vars
  BY <1>1
<1> QED BY <1>2, InvariantHolds, PTL DEF Spec, AttemptsProgress
-----------------------------------------------------------------------------
(* Residency is invisible.                                                 *)

\* The payload of x as a wholly resident world would have it by now: the cleanup of a
\* dormant one, which is done at the end, is done here.
View(x) ==
  IF x \in DOMAIN resident \cup created THEN Payload(x)
  ELSE Stripped(DormantPayload(x), terminated)

\* The world an attempt has made so far.
Seen ==
  [statics |-> [d \in Designations |-> Read(Static(d))], next |-> next,
   cells |-> [x \in (DOMAIN backed \cup created) \ terminated |-> View(x)]]

\* An attempt has done what its statements do to a world that is wholly in memory, and no
\* designation names what it ended.
Simulates ==
  phase = "running" =>
    /\ Full!Results(program, DurableWorld)[pc - 1] = [ok |-> TRUE, world |-> Seen]
    /\ \A d \in Designations : Read(Static(d)) \notin terminated
    /\ terminated # {} => \E i \in 1 .. pc - 1 : program[i][1] = "destroy"

\* The results of the prefixes of a program are what the recursion says.
LEMMA ResultsDefined ==
  ASSUME NEW p, Len(p) \in Nat, NEW w
  PROVE  /\ Full!Results(p, w)[0] = [ok |-> TRUE, world |-> w]
         /\ \A i \in 1 .. Len(p) :
              Full!Results(p, w)[i] = Full!Step(w, Full!Results(p, w)[i - 1], p[i])
<1> DEFINE b == [ok |-> TRUE, world |-> w]
           F(r, i) == Full!Step(w, r, p[i])
           Rec(g, n) == g = [i \in 0 .. n |-> IF i = 0 THEN b ELSE F(g[i - 1], i)]
           T == {n \in 0 .. Len(p) : \E g : Rec(g, n)}
<1>1. Full!Results(p, w) = CHOOSE f : Rec(f, Len(p))
  BY DEF Full!Results
<1> HIDE DEF b, F
<1>2. 0 \in T
  <2> DEFINE g == [i \in 0 .. 0 |-> b]
  <2>1. Rec(g, 0)
    OBVIOUS
  <2> HIDE DEF g, Rec
  <2> QED BY <2>1
<1>3. ASSUME NEW m \in 0 .. Len(p) - 1, m \in T
      PROVE  m + 1 \in T
  <2>1. PICK g : Rec(g, m)
    BY <1>3
  <2> DEFINE h == [i \in 0 .. m + 1 |-> IF i = m + 1 THEN F(g[m], m + 1) ELSE g[i]]
  <2>2. ASSUME NEW i \in 0 .. m + 1
        PROVE  h[i] = IF i = 0 THEN b ELSE F(h[i - 1], i)
    <3>1. CASE i = m + 1
      BY <3>1
    <3>2. CASE i # m + 1
      BY <2>1, <3>2
    <3> QED BY <3>1, <3>2
  <2>3. Rec(h, m + 1)
    BY <2>2
  <2> HIDE DEF h, Rec
  <2>4. m + 1 \in 0 .. Len(p)
    BY <1>3
  <2> QED BY <2>3, <2>4
<1>4. Len(p) \in T
  <2> HIDE DEF T
  <2>1. \A m \in 0 .. Len(p) - 1 : m \in T => m + 1 \in T
    BY <1>3
  <2>2. 0 .. Len(p) \subseteq T
    BY <1>2, <2>1, InductionUpTo
  <2> QED BY <2>2
<1>5. PICK g : Rec(g, Len(p))
  BY <1>4
<1>6. Rec(Full!Results(p, w), Len(p))
  <2> HIDE DEF Rec
  <2> QED BY <1>1, <1>5
<1>7. /\ Full!Results(p, w)[0] = b
      /\ \A i \in 1 .. Len(p) : Full!Results(p, w)[i] = F(Full!Results(p, w)[i - 1], i)
  BY <1>6
<1> QED BY <1>7 DEF b, F

\* A cell that the step does not touch reads as before.
LEMMA ReadKept ==
  ASSUME UNCHANGED <<statics, resident, local>>, NEW n,
         n[1] # "static" => (n[2] \in created' <=> n[2] \in created),
         n \in DOMAIN writes' <=> n \in DOMAIN writes,
         n \in DOMAIN writes => writes'[n] = writes[n]
  PROVE  Read(n)' = Read(n)
BY DEF Read, Stored

\* One staged value changes one cell.
LEMMA ReadStaged ==
  ASSUME UNCHANGED <<statics, resident, local>>, NEW k, NEW v,
         writes' = [m \in {k} |-> v] ++ writes
  PROVE  /\ Read(k)' = v
         /\ \A n : n # k /\ (n[1] # "static" => (n[2] \in created' <=> n[2] \in created)) =>
              Read(n)' = Read(n)
<1>1. DOMAIN writes' = {k} \cup DOMAIN writes /\ writes'[k] = v
  BY DEF ++
<1>2. \A n \in DOMAIN writes : n # k => writes'[n] = writes[n]
  BY DEF ++
<1>3. Read(k)' = v
  BY <1>1 DEF Read
<1>4. ASSUME NEW n, n # k, n[1] # "static" => (n[2] \in created' <=> n[2] \in created)
      PROVE  Read(n)' = Read(n)
  BY <1>1, <1>2, <1>4, ReadKept
<1> QED BY <1>3, <1>4

\* A payload whose cells read as before is seen as before.
LEMMA ViewKept ==
  ASSUME UNCHANGED <<store, backed, resident, local, terminated>>, NEW x,
         x \in created' <=> x \in created,
         Read(Slot(x))' = Read(Slot(x)), Read(Members(x))' = Read(Members(x))
  PROVE  View(x)' = View(x)
BY DEF View, Payload, DormantPayload

\* The durable world is the one that open restores.
LEMMA DurableImage ==
  DurableWorld = [statics |-> Image.statics, next |-> Image.next,
                  cells |-> [x \in DOMAIN Image.backed |-> store[Image.backed[x].token].payload]]
BY DEF DurableWorld, Image, Empty

\* An attempt that has done nothing sees the durable world, whatever it was lent.
LEMMA FreshView ==
  IInv /\ phase = "running" /\ writes = Empty /\ created = {} /\ terminated = {} /\ next = prior
    => Seen = DurableWorld
<1> SUFFICES ASSUME IInv, phase = "running", writes = Empty, created = {}, terminated = {},
                    next = prior
             PROVE  Seen = DurableWorld
  OBVIOUS
<1> USE DEF Attempting
<1>1. ProcessOK /\ prior = Image.next
  BY DEF IInv, AttemptOK
<1>2. statics \in [Designations -> Nat \cup {None}] /\ statics = Image.statics
  BY <1>1, Identities DEF ProcessOK
<1>3. [d \in Designations |-> Read(Static(d))] = Image.statics
  BY <1>2 DEF Read, Static, Empty
<1>4. ASSUME NEW x \in DOMAIN backed
      PROVE  View(x) = store[Image.backed[x].token].payload
  <2>1. /\ backed[x].token = Image.backed[x].token
        /\ store[backed[x].token].payload \in Payloads
    BY <1>1, HandleFields, StoredPayloads
  <2> DEFINE v == store[backed[x].token].payload
  <2>2. v = [slot |-> v.slot, members |-> v.members] /\ Stripped(v, terminated) = v
    BY <2>1 DEF Payloads, Stripped
  <2>3. x \in DOMAIN resident \cup DOMAIN local => Payload(x) = v
    <3>1. x \in DOMAIN resident => resident[x] = v /\ x \notin DOMAIN local
      BY <1>1 DEF ProcessOK
    <3>2. x \in DOMAIN local => local[x] = v
      BY <1>1 DEF ProcessOK
    <3> HIDE DEF v
    <3>3. x \in DOMAIN resident \cup DOMAIN local => Read(Slot(x)) = v.slot /\ Read(Members(x)) = v.members
      BY <3>1, <3>2 DEF Read, Stored, Slot, Members, Empty
    <3> QED BY <2>2, <3>3 DEF Payload
  <2> QED BY <2>1, <2>2, <2>3 DEF View, DormantPayload
<1>5. [x \in (DOMAIN backed \cup created) \ terminated |-> View(x)] =
        [x \in DOMAIN Image.backed |-> store[Image.backed[x].token].payload]
  BY <1>1, <1>4 DEF ProcessOK
<1> QED BY <1>1, <1>3, <1>5, DurableImage DEF Seen

\* A statement that succeeds does to the world that is seen what it does to a world that
\* is wholly in memory, and leaves no designation naming an ended identity.
LEMMA ExecuteSimulates ==
  ASSUME IInv, Simulates, Execute, \A p \in Programs : ~ReadsAfterDestroy(p)
  PROVE  /\ Full!Possible(Seen, prior .. (next - 1), Statement)
         /\ Seen' = Full!Performed(Seen, Statement)
         /\ \A c \in Designations : Read(Static(c))' \notin terminated'
<1> DEFINE s == Statement
           d == Target(s[2])
           e == Target(s[3])
           C == (DOMAIN backed \cup created) \ terminated
<1> USE DEF Attempting
<1>1. /\ phase = "running" /\ Running /\ Succeeds(s) /\ writes' = Staged(s)
      /\ IF s[1] = "create"
         THEN created' = created \cup {next} /\ next' = next + 1
         ELSE created' = created /\ next' = next
      /\ terminated' = IF s[1] = "destroy" THEN terminated \cup {d} ELSE terminated
      /\ UNCHANGED <<store, statics, resident, backed, local>>
  BY DEF Execute, Running, world, durable
<1>2. s[1] \in Operations /\ s[2] \in Designations /\ s[3] \in Designations
  BY <1>1, StatementShape
<1>3. \A c \in Designations : Read(Static(c)) \notin terminated
  BY <1>1 DEF Simulates
<1>4. d \notin terminated /\ e \notin terminated /\ d = Seen.statics[s[2]] /\ e = Seen.statics[s[3]]
  BY <1>2, <1>3 DEF Target, Seen
<1>5. /\ Seen.next = next /\ DOMAIN Seen.cells = C
      /\ \A x \in C : Seen.cells[x] = View(x)
      /\ DOMAIN Seen.statics = Designations
      /\ \A c \in Designations : Seen.statics[c] = Read(Static(c))
  BY DEF Seen
<1>6. /\ created \cap DOMAIN backed = {} /\ Readable \subseteq DOMAIN backed \cup created
      /\ prior \in Nat /\ next \in Nat /\ prior <= next /\ created = prior .. next - 1
      /\ DOMAIN backed \subseteq 0 .. prior - 1 /\ terminated \subseteq DOMAIN backed
      /\ DOMAIN writes \subseteq CellsOf(DOMAIN backed \cup created)
      /\ DOMAIN resident \cap DOMAIN local = {}
  BY <1>1, Identities DEF IInv, AttemptOK, ProcessOK
<1>7. \A x : HasCells(x) /\ x \notin terminated => x \in C /\ x \in Readable
  BY <1>6, CellsReadable
<1>8. Seen' = [statics |-> [c \in Designations |-> Read(Static(c))'], next |-> next',
               cells |-> [x \in (DOMAIN backed' \cup created') \ terminated' |-> View(x)']]
  BY DEF Seen
<1>9. CASE s[1] = "create"
  <2>1. /\ writes' = [n \in {Static(s[2])} |-> next] ++ writes
        /\ created' = created \cup {next} /\ next' = next + 1 /\ terminated' = terminated
    BY <1>1, <1>9 DEF Staged
  <2>2. ASSUME NEW c \in Designations
        PROVE  Read(Static(c))' = IF c = s[2] THEN next ELSE Read(Static(c))
    <3>1. Static(c) = Static(s[2]) <=> c = s[2]
      BY DEF Static
    <3>2. Static(c)[1] = "static"
      BY DEF Static
    <3> QED BY <1>1, <2>1, <3>1, <3>2, ReadStaged
  <2>3. ASSUME NEW x \in C
        PROVE  View(x)' = View(x)
    <3>1. x # next /\ (x \in created' <=> x \in created)
      BY <1>6, <2>1
    <3>2. Slot(x) # Static(s[2]) /\ Members(x) # Static(s[2]) /\ Slot(x)[2] = x /\ Members(x)[2] = x
      BY DEF Slot, Members, Static
    <3>3. Read(Slot(x))' = Read(Slot(x)) /\ Read(Members(x))' = Read(Members(x))
      BY <1>1, <2>1, <3>1, <3>2, ReadStaged
    <3> QED BY <1>1, <2>1, <3>1, <3>3, ViewKept
  <2>4. ASSUME NEW x, x = next
        PROVE  View(x)' = Full!NewPayload
    <3>1. Slot(x) \notin DOMAIN writes' /\ Members(x) \notin DOMAIN writes'
      BY <1>6, <2>1, <2>4 DEF ++, CellsOf, Slot, Members, Static
    <3>2. x \in created'
      BY <2>1, <2>4
    <3>3. Read(Slot(x))' = None /\ Read(Members(x))' = {}
      BY <3>1, <3>2 DEF Read, Slot, Members, Stored, NewPayload
    <3> QED BY <3>2, <3>3 DEF View, Payload, Full!NewPayload
  <2>5. (DOMAIN backed' \cup created') \ terminated' = C \cup {next} /\ next \notin C
    BY <1>1, <1>6, <2>1
  <2>6. [c \in Designations |-> Read(Static(c))'] = [Seen.statics EXCEPT ![s[2]] = next]
    BY <1>2, <1>5, <2>2
  <2>7. [x \in (DOMAIN backed' \cup created') \ terminated' |-> View(x)'] =
          [x \in DOMAIN Seen.cells \cup {next} |-> IF x = next THEN Full!NewPayload ELSE Seen.cells[x]]
    <3>1. \A x \in C \cup {next} :
            View(x)' = IF x = next THEN Full!NewPayload ELSE Seen.cells[x]
      BY <1>5, <2>3, <2>4, <2>5
    <3> HIDE DEF C
    <3> QED BY <1>5, <2>5, <3>1
  <2>8. Full!Possible(Seen, prior .. (next - 1), s)
    BY <1>9 DEF Full!Possible
  <2>9. Seen' = Full!Performed(Seen, s)
    BY <1>5, <1>8, <1>9, <2>1, <2>6, <2>7 DEF Full!Performed
  <2>10. \A c \in Designations : Read(Static(c))' \notin terminated'
    BY <1>3, <1>6, <2>1, <2>2
  <2> QED BY <2>8, <2>9, <2>10
<1>10. CASE s[1] = "copy"
  <2>1. PICK v : v = Read(Slot(e))
    OBVIOUS
  <2>2. /\ writes' = [n \in {Static(s[2])} |-> v] ++ writes
        /\ created' = created /\ next' = next /\ terminated' = terminated
    BY <1>1, <1>10, <2>1 DEF Staged
  <2>3. terminated = {}
    <3> SUFFICES ASSUME terminated # {} PROVE FALSE
      OBVIOUS
    <3>1. PICK i \in 1 .. pc - 1 : program[i][1] = "destroy"
      BY <1>1 DEF Simulates
    <3>2. program \in Programs /\ program \in Seq(Operations \X Designations \X Designations)
      BY <1>1, WorldAssumption DEF IInv, AttemptOK
    <3>3. pc \in 1 .. Len(program)
      BY <1>1, StatementShape
    <3>4. i \in DOMAIN program /\ pc \in DOMAIN program /\ i < pc
      BY <3>2, <3>3
    <3> QED BY <1>10, <3>1, <3>2, <3>4 DEF ReadsAfterDestroy, Statement
  <2>4. HasCells(e) /\ e \in C /\ e \in Readable
    BY <1>1, <1>4, <1>7, <1>10 DEF Succeeds
  <2>5. Seen.cells[e].slot = v
    <3>1. Seen.cells[e] = View(e)
      BY <1>5, <2>4
    <3>2. View(e) = Payload(e) \/ View(e) = Stripped(Payload(e), {})
      BY <2>3, <2>4 DEF View, DormantPayload, Readable
    <3> QED BY <2>1, <3>1, <3>2 DEF Payload, Stripped
  <2>6. ASSUME NEW c \in Designations
        PROVE  Read(Static(c))' = IF c = s[2] THEN v ELSE Read(Static(c))
    <3>1. (Static(c) = Static(s[2]) <=> c = s[2]) /\ Static(c)[1] = "static"
      BY DEF Static
    <3> QED BY <1>1, <2>2, <3>1, ReadStaged
  <2>7. ASSUME NEW x \in C
        PROVE  View(x)' = View(x)
    <3>1. Slot(x) # Static(s[2]) /\ Members(x) # Static(s[2])
      BY DEF Slot, Members, Static
    <3>2. Read(Slot(x))' = Read(Slot(x)) /\ Read(Members(x))' = Read(Members(x))
      BY <1>1, <2>2, <3>1, ReadStaged
    <3> QED BY <1>1, <2>2, <3>2, ViewKept
  <2>8. [c \in Designations |-> Read(Static(c))'] = [Seen.statics EXCEPT ![s[2]] = Seen.cells[e].slot]
    BY <1>2, <1>5, <2>5, <2>6
  <2>9. [x \in (DOMAIN backed' \cup created') \ terminated' |-> View(x)'] = Seen.cells
    BY <1>1, <2>2, <2>7 DEF Seen
  <2>10. Full!Possible(Seen, prior .. (next - 1), s)
    BY <1>4, <1>5, <1>10, <2>4 DEF Full!Possible
  <2>11. Full!Performed(Seen, s) = [Seen EXCEPT !.statics[s[2]] = Seen.cells[e].slot]
    BY <1>4, <1>10 DEF Full!Performed
  <2>12. Seen' = Full!Performed(Seen, s)
    BY <1>8, <2>2, <2>8, <2>9, <2>11 DEF Seen
  <2> QED BY <2>2, <2>3, <2>10, <2>12
<1>11. CASE s[1] = "set"
  <2>1. PICK x, v : x = d /\ v = e
    OBVIOUS
  <2>2. /\ writes' = [n \in {Slot(x)} |-> v] ++ writes
        /\ created' = created /\ next' = next /\ terminated' = terminated
    BY <1>1, <1>11, <2>1 DEF Staged
  <2>3. HasCells(x) /\ x \in C /\ x \in Readable /\ v \notin terminated
    BY <1>1, <1>4, <1>7, <1>11, <2>1 DEF Succeeds
  <2>4. ASSUME NEW c \in Designations
        PROVE  Read(Static(c))' = Read(Static(c))
    <3>1. Static(c) # Slot(x) /\ Static(c)[1] = "static"
      BY DEF Static, Slot
    <3> QED BY <1>1, <2>2, <3>1, ReadStaged
  <2>5. ASSUME NEW y \in C, y # x
        PROVE  View(y)' = View(y)
    <3>1. Slot(y) # Slot(x) /\ Members(y) # Slot(x)
      BY <2>5 DEF Slot, Members
    <3>2. Read(Slot(y))' = Read(Slot(y)) /\ Read(Members(y))' = Read(Members(y))
      BY <1>1, <2>2, <3>1, ReadStaged
    <3> QED BY <1>1, <2>2, <3>2, ViewKept
  <2>6. View(x)' = [View(x) EXCEPT !.slot = v]
    <3>1. Read(Slot(x))' = v /\ Read(Members(x))' = Read(Members(x))
      <4>1. Members(x) # Slot(x)
        BY DEF Slot, Members
      <4> QED BY <1>1, <2>2, <4>1, ReadStaged
    <3>2. Payload(x)' = [slot |-> v, members |-> Read(Members(x))]
      BY <3>1 DEF Payload
    <3>3. CASE x \in DOMAIN resident \cup created
      BY <1>1, <2>2, <3>2, <3>3 DEF View, Payload
    <3>4. CASE x \notin DOMAIN resident \cup created
      <4>1. x \in DOMAIN local
        BY <2>3, <3>4 DEF Readable
      <4>2. View(x) = Stripped(Payload(x), terminated) /\ View(x)' = Stripped(Payload(x)', terminated)
        BY <1>1, <2>2, <3>4, <4>1 DEF View, DormantPayload
      <4> QED BY <2>3, <3>2, <4>2 DEF Stripped, Payload
    <3> QED BY <3>3, <3>4
  <2>7. [c \in Designations |-> Read(Static(c))'] = Seen.statics
    BY <2>4 DEF Seen
  <2>8. [y \in (DOMAIN backed' \cup created') \ terminated' |-> View(y)'] =
          [Seen.cells EXCEPT ![x] = [View(x) EXCEPT !.slot = v]]
    BY <1>1, <2>2, <2>3, <2>5, <2>6 DEF Seen
  <2>9. Full!Possible(Seen, prior .. (next - 1), s)
    BY <1>4, <1>5, <1>11, <2>1, <2>3 DEF Full!Possible
  <2>10. Full!Performed(Seen, s) = [Seen EXCEPT !.cells[x].slot = v]
    BY <1>4, <1>11, <2>1 DEF Full!Performed
  <2>11. Full!Performed(Seen, s) =
           [Seen EXCEPT !.cells = [Seen.cells EXCEPT ![x] = [View(x) EXCEPT !.slot = v]]]
    BY <1>5, <2>3, <2>10 DEF Seen
  <2>12. Seen' = Full!Performed(Seen, s)
    BY <1>8, <2>2, <2>7, <2>8, <2>11 DEF Seen
  <2> QED BY <1>3, <2>2, <2>4, <2>9, <2>12
<1>12. CASE s[1] = "insert"
  <2>1. PICK x, v : x = e /\ v = d
    OBVIOUS
  <2>2. PICK m : m = Read(Members(x))
    OBVIOUS
  <2>3. /\ writes' = [n \in {Members(x)} |-> m \cup {v}] ++ writes
        /\ created' = created /\ next' = next /\ terminated' = terminated
    BY <1>1, <1>12, <2>1, <2>2 DEF Staged
  <2>4. /\ HasCells(x) /\ x \in C /\ x \in Readable /\ v \in C
    BY <1>1, <1>4, <1>7, <1>12, <2>1 DEF Succeeds, Exists
  <2>5. ASSUME NEW c \in Designations
        PROVE  Read(Static(c))' = Read(Static(c))
    <3>1. Static(c) # Members(x) /\ Static(c)[1] = "static"
      BY DEF Static, Members
    <3> QED BY <1>1, <2>3, <3>1, ReadStaged
  <2>6. ASSUME NEW y \in C, y # x
        PROVE  View(y)' = View(y)
    <3>1. Slot(y) # Members(x) /\ Members(y) # Members(x)
      BY <2>6 DEF Slot, Members
    <3>2. Read(Slot(y))' = Read(Slot(y)) /\ Read(Members(y))' = Read(Members(y))
      BY <1>1, <2>3, <3>1, ReadStaged
    <3> QED BY <1>1, <2>3, <3>2, ViewKept
  <2>7. View(x)' = [View(x) EXCEPT !.members = View(x).members \cup {v}]
    <3>1. Read(Members(x))' = m \cup {v} /\ Read(Slot(x))' = Read(Slot(x))
      <4>1. Members(x) # Slot(x)
        BY DEF Slot, Members
      <4> QED BY <1>1, <2>3, <4>1, ReadStaged
    <3>2. Payload(x)' = [slot |-> Read(Slot(x)), members |-> Read(Members(x)) \cup {v}]
      BY <2>2, <3>1 DEF Payload
    <3>3. CASE x \in DOMAIN resident \cup created
      BY <1>1, <2>3, <3>2, <3>3 DEF View, Payload
    <3>4. CASE x \notin DOMAIN resident \cup created
      <4>1. x \in DOMAIN local
        BY <2>4, <3>4 DEF Readable
      <4>2. View(x) = Stripped(Payload(x), terminated) /\ View(x)' = Stripped(Payload(x)', terminated)
        BY <1>1, <2>3, <3>4, <4>1 DEF View, DormantPayload
      <4>3. (Read(Members(x)) \cup {v}) \ terminated = (Read(Members(x)) \ terminated) \cup {v}
        BY <2>4
      <4> QED BY <3>2, <4>2, <4>3 DEF Stripped, Payload
    <3> QED BY <3>3, <3>4
  <2>8. [c \in Designations |-> Read(Static(c))'] = Seen.statics
    BY <2>5 DEF Seen
  <2>9. [y \in (DOMAIN backed' \cup created') \ terminated' |-> View(y)'] =
          [Seen.cells EXCEPT ![x] = [View(x) EXCEPT !.members = View(x).members \cup {v}]]
    BY <1>1, <2>3, <2>4, <2>6, <2>7 DEF Seen
  <2>10. Full!Possible(Seen, prior .. (next - 1), s)
    BY <1>4, <1>5, <1>12, <2>1, <2>4 DEF Full!Possible
  <2>11. Full!Performed(Seen, s) = [Seen EXCEPT !.cells[x].members = @ \cup {v}]
    BY <1>4, <1>12, <2>1 DEF Full!Performed
  <2>12. Full!Performed(Seen, s) =
           [Seen EXCEPT !.cells =
              [Seen.cells EXCEPT ![x] = [View(x) EXCEPT !.members = View(x).members \cup {v}]]]
    BY <1>5, <2>4, <2>11 DEF Seen
  <2>13. Seen' = Full!Performed(Seen, s)
    BY <1>8, <2>3, <2>8, <2>9, <2>12 DEF Seen
  <2> QED BY <1>3, <2>3, <2>5, <2>10, <2>13
<1>13. CASE s[1] = "destroy"
  <2>1. PICK x : x = d
    OBVIOUS
  <2> DEFINE kept == DOMAIN writes \ (IF x \in DOMAIN resident THEN Own(x) ELSE {})
  <2>2. /\ writes' = [n \in Naming(x) |-> Without(n, x)] ++ [n \in kept |-> writes[n]]
        /\ created' = created /\ next' = next /\ terminated' = terminated \cup {x}
    BY <1>1, <1>13, <2>1 DEF Staged
  <2>3. x \in DOMAIN backed \ terminated
    BY <1>1, <1>13, <2>1 DEF Succeeds
  <2>4. \A n \in Naming(x) : Read(n)' = Without(n, x)
    BY <2>2 DEF Read, ++
  <2>5. ASSUME NEW n, n \notin Naming(x), n \notin Own(x)
        PROVE  Read(n)' = Read(n)
    <3>1. n \in DOMAIN writes' <=> n \in DOMAIN writes
      BY <2>2, <2>5 DEF ++
    <3>2. n \in DOMAIN writes => writes'[n] = writes[n]
      BY <2>2, <2>5 DEF ++
    <3> QED BY <1>1, <2>2, <3>1, <3>2, ReadKept
  <2> HIDE DEF kept
  <2>6. ASSUME NEW c \in Designations
        PROVE  Read(Static(c))' = IF Read(Static(c)) = x THEN None ELSE Read(Static(c))
    <3>1. Static(c) \in Scanned(x) /\ Static(c) \notin Own(x) /\ Static(c)[1] = "static"
      BY DEF Scanned, Own, Static, Slot, Members
    <3>2. CASE Read(Static(c)) = x
      BY <2>4, <3>1, <3>2 DEF Naming, Without
    <3>3. CASE Read(Static(c)) # x
      BY <2>5, <3>1, <3>3 DEF Naming
    <3> QED BY <3>2, <3>3
  <2>7. ASSUME NEW y \in C, y # x
        PROVE  View(y)' = Full!Stripped(View(y), {x})
    <3>1. Slot(y) \notin Own(x) /\ Members(y) \notin Own(x)
      BY <2>7 DEF Own, Slot, Members
    <3>2. Slot(y)[1] = "slot" /\ Members(y)[1] = "members"
      BY DEF Slot, Members
    <3>3. CASE y \in DOMAIN resident \cup created
      <4>1. Own(y) \subseteq Scanned(x)
        BY <1>6, <2>7, <3>3 DEF Scanned
      <4>2. Slot(y) \in Scanned(x) /\ Members(y) \in Scanned(x)
        BY <4>1 DEF Own
      <4>3. Read(Slot(y))' = IF Read(Slot(y)) = x THEN None ELSE Read(Slot(y))
        <5>1. CASE Read(Slot(y)) = x
          BY <2>4, <3>2, <4>2, <5>1 DEF Naming, Without
        <5>2. CASE Read(Slot(y)) # x
          BY <2>5, <3>1, <3>2, <4>2, <5>2 DEF Naming
        <5> QED BY <5>1, <5>2
      <4>4. Read(Members(y))' = Read(Members(y)) \ {x}
        <5>1. CASE x \in Read(Members(y))
          BY <2>4, <3>2, <4>2, <5>1 DEF Naming, Without
        <5>2. CASE x \notin Read(Members(y))
          <6>1. Read(Members(y))' = Read(Members(y))
            BY <2>5, <3>1, <3>2, <4>2, <5>2 DEF Naming
          <6> QED BY <5>2, <6>1
        <5> QED BY <5>1, <5>2
      <4>5. View(y) = Payload(y) /\ View(y)' = Payload(y)'
        BY <1>1, <2>2, <3>3 DEF View
      <4> QED BY <4>3, <4>4, <4>5 DEF Payload, Full!Stripped
    <3>4. CASE y \notin DOMAIN resident \cup created
      <4>1. Slot(y) \notin Scanned(x) /\ Members(y) \notin Scanned(x)
        BY <3>4 DEF Scanned, Own, Static, Slot, Members
      <4>2. Read(Slot(y))' = Read(Slot(y)) /\ Read(Members(y))' = Read(Members(y))
        BY <2>5, <3>1, <4>1 DEF Naming
      <4>3. DormantPayload(y)' = DormantPayload(y)
        BY <1>1, <4>2 DEF DormantPayload, Payload
      <4>4. /\ View(y) = Stripped(DormantPayload(y), terminated)
            /\ View(y)' = Stripped(DormantPayload(y), terminated \cup {x})
        BY <1>1, <2>2, <3>4, <4>3 DEF View
      <4>5. None # x
        BY <1>6, <2>3, WorldAssumption
      <4> QED BY <4>4, <4>5 DEF Stripped, Full!Stripped
    <3> QED BY <3>3, <3>4
  <2>8. Full!Possible(Seen, prior .. (next - 1), s)
    BY <1>4, <1>5, <1>6, <1>13, <2>1, <2>3 DEF Full!Possible
  <2>9. Full!Performed(Seen, s) =
          [statics |-> [n \in DOMAIN Seen.statics |->
                          IF Seen.statics[n] = x THEN None ELSE Seen.statics[n]],
           cells |-> [y \in DOMAIN Seen.cells \ {x} |-> Full!Stripped(Seen.cells[y], {x})],
           next |-> Seen.next]
    BY <1>4, <1>13, <2>1 DEF Full!Performed
  <2>10. [c \in Designations |-> Read(Static(c))'] =
           [n \in DOMAIN Seen.statics |-> IF Seen.statics[n] = x THEN None ELSE Seen.statics[n]]
    BY <1>5, <2>6
  <2>11. [y \in (DOMAIN backed' \cup created') \ terminated' |-> View(y)'] =
           [y \in DOMAIN Seen.cells \ {x} |-> Full!Stripped(Seen.cells[y], {x})]
    <3>1. (DOMAIN backed' \cup created') \ terminated' = DOMAIN Seen.cells \ {x}
      BY <1>1, <1>5, <2>2
    <3>2. \A y \in DOMAIN Seen.cells \ {x} : View(y)' = Full!Stripped(Seen.cells[y], {x})
      BY <1>5, <2>7
    <3> QED BY <3>1, <3>2
  <2>12. Seen' = Full!Performed(Seen, s)
    BY <1>5, <1>8, <2>2, <2>9, <2>10, <2>11
  <2>13. \A c \in Designations : Read(Static(c))' \notin terminated'
    BY <1>3, <1>6, <2>2, <2>3, <2>6, WorldAssumption
  <2> QED BY <2>8, <2>12, <2>13
<1> QED BY <1>1, <1>2, <1>9, <1>10, <1>11, <1>12, <1>13 DEF Succeeds, Operations

\* An attempt that has done nothing has done what no statement does.
Begun ==
  phase = "running" /\ pc = 1 /\ writes = Empty /\ created = {} /\ terminated = {} /\ next = prior

\* Simulates holds when an attempt begins.
LEMMA BeginSimulates == IInv /\ Begun => Simulates
<1> SUFFICES ASSUME IInv, Begun PROVE Simulates
  OBVIOUS
<1> USE DEF Begun
<1>1. Seen = DurableWorld
  BY FreshView
<1>2. Len(program) \in Nat
  BY WorldAssumption DEF IInv, AttemptOK
<1>3. Full!Results(program, DurableWorld)[0] = [ok |-> TRUE, world |-> DurableWorld]
  BY <1>2, ResultsDefined
<1>4. pc - 1 = 0
  OBVIOUS
<1> QED BY <1>1, <1>3, <1>4 DEF Simulates

\* Every step of an attempt, a retry among them, keeps it a run of the wholly resident
\* world.
LEMMA SimulatesStep ==
  ASSUME IInv, Simulates, [Next]_vars, \A p \in Programs : ~ReadsAfterDestroy(p)
  PROVE  Simulates'
<1>1. IInv'
  BY NextInv
<1>2. CASE Execute
  <2>1. /\ phase = "running" /\ pc' = pc + 1 /\ program' = program /\ prior' = prior
        /\ pc \in 1 .. Len(program) /\ Len(program) \in Nat /\ prior = Image.next
    <3>1. Running /\ phase = "running" /\ pc' = pc + 1 /\ program' = program /\ prior' = prior
      BY <1>2 DEF Execute, Running
    <3>2. AttemptOK /\ pc \in 1 .. Len(program)
      BY <3>1, StatementShape DEF IInv
    <3>3. program \in Seq(Operations \X Designations \X Designations)
      BY <3>2, WorldAssumption DEF AttemptOK
    <3> QED BY <3>1, <3>2, <3>3 DEF AttemptOK
  <2>2. DurableWorld' = DurableWorld
    BY <1>2 DEF Execute, durable, DurableWorld
  <2>3. /\ Full!Possible(Seen, prior .. (next - 1), Statement)
        /\ Seen' = Full!Performed(Seen, Statement)
        /\ \A c \in Designations : Read(Static(c))' \notin terminated'
    BY <1>2, ExecuteSimulates
  <2>4. PICK w, r : w = DurableWorld /\ r = Full!Results(program, DurableWorld)
    OBVIOUS
  <2>5. r[pc - 1] = [ok |-> TRUE, world |-> Seen]
    BY <2>1, <2>4 DEF Simulates
  <2>6. r[pc] = Full!Step(w, r[pc - 1], Statement)
    <3>1. \A i \in 1 .. Len(program) :
            Full!Results(program, w)[i] = Full!Step(w, Full!Results(program, w)[i - 1], program[i])
      BY <2>1, ResultsDefined, ZenonT(30)
    <3> QED BY <2>1, <2>4, <3>1 DEF Statement
  <2>7. w.next = prior /\ Seen.next = next
    BY <2>1, <2>4, DurableImage DEF Seen
  <2>8. r[pc] = [ok |-> TRUE, world |-> Full!Performed(Seen, Statement)]
    BY <2>3, <2>5, <2>6, <2>7 DEF Full!Step
  <2>9. terminated' # {} => \E i \in 1 .. pc : program[i][1] = "destroy"
    <3>1. CASE Statement[1] = "destroy"
      BY <2>1, <3>1 DEF Statement
    <3>2. CASE Statement[1] # "destroy"
      BY <1>2, <2>1, <3>2 DEF Execute, Simulates
    <3> QED BY <3>1, <3>2
  <2>10. Full!Results(program, DurableWorld)' = r
    BY <2>1, <2>2, <2>4
  <2>11. pc' - 1 = pc
    BY <2>1
  <2> QED BY <2>1, <2>3, <2>8, <2>9, <2>10, <2>11 DEF Simulates
<1>3. CASE Retry \/ \E p \in Programs : RunAction(p)
  <2>1. Begun'
    BY <1>3
    DEF Begun, Retry, Running, Discarded, RunAction, world, overlay, IInv, NothingStaged
  <2> QED BY <1>1, <2>1, BeginSimulates, PTL
<1>4. CASE UNCHANGED vars
  <2>1. UNCHANGED <<manifest, store, phase, statics, resident, backed, next, program, pc, local,
                    writes, created, terminated>>
    BY <1>4 DEF vars, durable, world, run, overlay
  <2>2. DurableWorld' = DurableWorld
    BY <2>1 DEF DurableWorld
  <2>3. \A n : Read(n)' = Read(n)
    BY <2>1 DEF Read
  <2>4. \A x : View(x)' = View(x)
    BY <2>1, <2>3, ViewKept
  <2>5. Seen' = Seen
    BY <2>1, <2>3, <2>4 DEF Seen
  <2> QED BY <2>1, <2>2, <2>3, <2>5 DEF Simulates
<1>5. CASE phase' # "running"
  BY <1>5 DEF Simulates
<1> QED
  BY <1>2, <1>3, <1>4, <1>5
  DEF Next, RunStep, Open, Crash, Materialize, Abort, LoadFails, GiveUp, Accept,
      AcceptThenCrash, Reject, Panic

\* The payload an accepted action gives an identity is the one that is seen by then: a
\* dormant payload whose summary names nothing that ended needs no cleanup.
LEMMA PublishedView ==
  ASSUME IInv, phase = "running", NEW x \in DOMAIN Handles
  PROVE  NewPayloadOf(x) = View(x)
<1> USE DEF Attempting
<1>1. /\ DOMAIN Handles = (DOMAIN backed \cup created) \ terminated
      /\ DOMAIN Committed.resident = (DOMAIN resident \cup created) \ terminated
  BY CandidateShape, HandleTokens
<1>2. CASE x \in DOMAIN Committed.resident
  BY <1>1, <1>2, CandidateShape DEF NewPayloadOf, View
<1>3. CASE x \notin DOMAIN Committed.resident
  <2>1. View(x) = Stripped(DormantPayload(x), terminated)
    BY <1>1, <1>3 DEF View
  <2>2. CASE x \in Affected
    BY <1>3, <2>1, <2>2 DEF NewPayloadOf
  <2>3. CASE x \notin Affected
    <3>1. PICK v \in Payloads : v = DormantPayload(x)
      BY <1>3, DormantShape
    <3>2. Targets(v) \cap terminated = {}
      BY <1>3, <2>3, <3>1, DormantShape DEF Affected
    <3>3. None \notin terminated
      <4>1. terminated \subseteq DOMAIN backed /\ DOMAIN backed \subseteq 0 .. prior - 1
        BY Identities DEF IInv, AttemptOK
      <4> QED BY <4>1, WorldAssumption
    <3>4. v.slot \notin terminated /\ v.members \ terminated = v.members
      BY <3>2, <3>3 DEF Targets
    <3>5. v = [slot |-> v.slot, members |-> v.members]
      BY <3>1 DEF Payloads
    <3> QED BY <1>3, <2>1, <2>3, <3>1, <3>4, <3>5 DEF NewPayloadOf, Stripped
  <2> QED BY <2>2, <2>3
<1> QED BY <1>2, <1>3

\* An accepted action makes the world that its attempt has seen the durable one.
LEMMA PublishesSeen ==
  ASSUME IInv, phase = "running", Publish(Candidate)
  PROVE  DurableWorld' = Seen
<1> USE DEF Attempting
<1>1. /\ Image'.statics = Candidate.statics /\ Image'.next = next
      /\ DOMAIN Image'.backed = DOMAIN Handles
      /\ \A x \in DOMAIN Handles : Image'.backed[x].token = Handles[x].token
  BY PublishDurable
<1>2. \A x \in DOMAIN Handles : store'[Handles[x].token].payload = View(x)
  BY PublishedStore, PublishedView
<1>3. /\ DOMAIN Handles = (DOMAIN backed \cup created) \ terminated
      /\ Candidate.statics = [d \in Designations |-> Read(Static(d))]
  BY CandidateShape, HandleTokens
<1>4. [x \in DOMAIN Image'.backed |-> store'[Image'.backed[x].token].payload] =
        [x \in (DOMAIN backed \cup created) \ terminated |-> View(x)]
  BY <1>1, <1>2, <1>3
<1>5. DurableWorld' =
        [statics |-> Image'.statics, next |-> Image'.next,
         cells |-> [x \in DOMAIN Image'.backed |-> store'[Image'.backed[x].token].payload]]
  BY DEF DurableWorld, Image, Empty
<1> QED BY <1>1, <1>3, <1>4, <1>5 DEF Seen

\* An accepted action performs its own body on the world as if it were wholly in memory, and
\* no other step changes anything of it.
LEMMA StepOfFullWorld ==
  ASSUME IInv, Simulates, [Next]_vars
  PROVE  IF Accept \/ AcceptThenCrash THEN Full!Performs(program) ELSE UNCHANGED DurableWorld
<1>1. CASE Accept \/ AcceptThenCrash
  <2>1. phase = "running" /\ pc > Len(program) /\ Publish(Candidate)
    BY <1>1 DEF Accept, AcceptThenCrash, Finished
  <2>2. program \in Programs /\ pc \in 1 .. Len(program) + 1
    BY <2>1 DEF IInv, AttemptOK
  <2>3. Len(program) \in Nat
    BY <2>2, WorldAssumption
  <2>4. pc - 1 = Len(program)
    BY <2>1, <2>2, <2>3
  <2>5. Full!Results(program, DurableWorld)[Len(program)] = [ok |-> TRUE, world |-> Seen]
    BY <2>1, <2>4 DEF Simulates
  <2>6. Full!Effect(program, DurableWorld) = Seen
    BY <2>5 DEF Full!Effect
  <2>7. DurableWorld' = Seen
    BY <2>1, PublishesSeen
  <2>8. Full!Performs(program)
    BY <2>5, <2>6, <2>7 DEF Full!Performs
  <2> QED BY <1>1, <2>8
<1>2. CASE ~(Accept \/ AcceptThenCrash)
  <2>1. UNCHANGED durable
    BY <1>2
    DEF Next, RunStep, vars, Open, Crash, Materialize, RunAction, Execute, Retry, Abort,
        LoadFails, Reject, GiveUp, Panic
  <2>2. UNCHANGED DurableWorld
    BY <2>1 DEF durable, DurableWorld
  <2> QED BY <1>2, <2>2
<1> QED BY <1>1, <1>2

\* Residency is invisible in what is made durable, for every set of designations and of
\* bodies that do not read after a `destroy`: whatever is in memory, retried, refused or
\* lost, an accepted action does what its own statements, all of which can run, do to the
\* same world wholly in memory, and no other step changes the durable world.
THEOREM ResidencyInvisible ==
  ASSUME \A p \in Programs : ~ReadsAfterDestroy(p)
  PROVE  Spec => ImplementsFullWorld
<1>1. Init => Full!Init /\ Simulates
  <2> SUFFICES ASSUME Init PROVE Full!Init /\ Simulates
    OBVIOUS
  <2>1. DurableWorld = [statics |-> [d \in Designations |-> None], cells |-> Empty, next |-> 0]
    BY DEF Init, DurableWorld
  <2>2. DOMAIN Empty = {}
    BY DEF Empty
  <2>3. Full!Init
    BY <2>1, <2>2 DEF Full!Init
  <2> QED BY <2>3 DEF Init, Simulates
<1>2. IInv /\ Simulates /\ [Next]_vars
        => /\ Simulates'
           /\ IF Accept \/ AcceptThenCrash
              THEN Full!Performs(program)
              ELSE UNCHANGED DurableWorld
  BY SimulatesStep, StepOfFullWorld
<1> QED BY <1>1, <1>2, InvariantHolds, PTL DEF Spec, ImplementsFullWorld
-----------------------------------------------------------------------------
(* Which actions fail.                                                     *)

\* A statement that fails in an attempt, other than a store through a dormant designation,
\* cannot run in the world that is seen.
LEMMA FailedStatement ==
  ASSUME IInv, Running, Requested(Statement) = {}, ~Succeeds(Statement), ~StoresDormant
  PROVE  ~Full!Possible(Seen, prior .. (next - 1), Statement)
<1> DEFINE s == Statement
           d == Target(s[2])
           e == Target(s[3])
           C == (DOMAIN backed \cup created) \ terminated
<1> USE DEF Attempting
<1>1. /\ s[1] \in Operations /\ s[2] \in Designations /\ s[3] \in Designations
      /\ phase = "running"
  BY StatementShape DEF Running
<1>2. d = Seen.statics[s[2]] /\ e = Seen.statics[s[3]] /\ DOMAIN Seen.cells = C
  BY <1>1 DEF Target, Seen
<1>3. created = prior .. next - 1
  BY <1>1 DEF IInv, AttemptOK
<1>4. CASE s[1] = "create"
  BY <1>4 DEF Succeeds
<1>5. CASE s[1] = "copy"
  <2>1. ~HasCells(e) /\ e \notin DOMAIN backed \ terminated
    BY <1>5 DEF Succeeds, Requested
  <2>2. e \notin C
    BY <2>1 DEF HasCells
  <2> QED BY <1>2, <1>5, <2>2 DEF Full!Possible
<1>6. CASE s[1] = "set"
  <2>1. ~HasCells(d) /\ d \notin DOMAIN backed \ (terminated \cup DOMAIN resident \cup DOMAIN local)
    BY <1>6 DEF Succeeds, StoresDormant
  <2>2. d \notin C
    BY <2>1 DEF HasCells
  <2> QED BY <1>2, <1>6, <2>2 DEF Full!Possible
<1>7. CASE s[1] = "insert"
  <2>1. HasCells(e) \/ e \notin DOMAIN backed \ terminated
    BY <1>7 DEF Requested
  <2>2. ~HasCells(e) \/ ~Exists(d)
    BY <1>7 DEF Succeeds
  <2>3. e \notin C \/ d \notin C
    BY <2>1, <2>2 DEF HasCells, Exists
  <2> QED BY <1>2, <1>7, <2>3 DEF Full!Possible
<1>8. CASE s[1] = "destroy"
  <2>1. d \notin DOMAIN backed \ terminated
    BY <1>8 DEF Succeeds
  <2>2. d \notin C \ (prior .. (next - 1))
    BY <1>3, <2>1
  <2> QED BY <1>2, <1>8, <2>2 DEF Full!Possible
<1>9. CASE s[1] = "fail"
  BY <1>9 DEF Full!Possible
<1> QED BY <1>1, <1>4, <1>5, <1>6, <1>7, <1>8, <1>9 DEF Operations

\* A body of which a statement fails has failed at its end.
LEMMA FailureStays ==
  ASSUME NEW p, Len(p) \in Nat, NEW w, NEW m \in 0 .. Len(p), NEW R,
         \A i \in 1 .. Len(p) : R[i] = Full!Step(w, R[i - 1], p[i]),
         ~R[m].ok
  PROVE  ~R[Len(p)].ok
<1> DEFINE T == {k \in 0 .. Len(p) - m : ~R[m + k].ok}
<1>1. 0 \in T
  OBVIOUS
<1>2. ASSUME NEW k \in 0 .. (Len(p) - m) - 1, k \in T
      PROVE  k + 1 \in T
  <2>1. m + (k + 1) \in 1 .. Len(p) /\ (m + (k + 1)) - 1 = m + k
    OBVIOUS
  <2>2. R[m + (k + 1)] = Full!Step(w, R[m + k], p[m + (k + 1)])
    BY <2>1
  <2>3. ~R[m + (k + 1)].ok
    BY <1>2, <2>2 DEF Full!Step
  <2> QED BY <2>1, <2>3
<1>3. Len(p) - m \in T
  <2> HIDE DEF T
  <2>1. \A k \in 0 .. (Len(p) - m) - 1 : k \in T => k + 1 \in T
    BY <1>2
  <2>2. Len(p) - m \in Nat
    OBVIOUS
  <2>3. 0 .. Len(p) - m \subseteq T
    BY <1>1, <2>1, <2>2, InductionUpTo
  <2> QED BY <2>2, <2>3
<1>4. m + (Len(p) - m) = Len(p)
  OBVIOUS
<1> QED BY <1>3, <1>4

\* An attempt is given up at a statement for what the whole body does in full memory.
LEMMA AbortMeant ==
  ASSUME IInv, Simulates, Abort
  PROVE  Full!Fails(program) \/ StoresDormant
<1> SUFFICES ASSUME ~StoresDormant PROVE Full!Fails(program)
  OBVIOUS
<1>1. Running /\ phase = "running" /\ Requested(Statement) = {} /\ ~Succeeds(Statement)
  BY DEF Abort, Running
<1>2. ~Full!Possible(Seen, prior .. (next - 1), Statement)
  BY <1>1, FailedStatement
<1>3. Len(program) \in Nat /\ pc \in 1 .. Len(program) /\ prior = Image.next
  <2>1. program \in Programs /\ prior = Image.next /\ pc \in 1 .. Len(program)
    BY <1>1, StatementShape DEF IInv, AttemptOK
  <2>2. program \in Seq(Operations \X Designations \X Designations)
    BY <2>1, WorldAssumption
  <2> QED BY <2>1, <2>2
<1>4. PICK w, r : w = DurableWorld /\ r = Full!Results(program, DurableWorld)
  OBVIOUS
<1>5. \A i \in 1 .. Len(program) : r[i] = Full!Step(w, r[i - 1], program[i])
  <2>1. \A i \in 1 .. Len(program) :
          Full!Results(program, w)[i] = Full!Step(w, Full!Results(program, w)[i - 1], program[i])
    BY <1>3, ResultsDefined, ZenonT(30)
  <2> QED BY <1>4, <2>1
<1>6. r[pc - 1] = [ok |-> TRUE, world |-> Seen]
  BY <1>1, <1>4 DEF Simulates
<1>7. w.next = prior /\ Seen.next = next
  BY <1>3, <1>4, DurableImage DEF Seen
<1>8. ~r[pc].ok
  <2>1. r[pc] = Full!Step(w, r[pc - 1], Statement)
    BY <1>3, <1>5 DEF Statement
  <2> QED BY <1>2, <1>6, <1>7, <2>1 DEF Full!Step
<1>9. pc \in 0 .. Len(program)
  BY <1>3
<1>10. ~r[Len(program)].ok
  BY <1>3, <1>5, <1>8, <1>9, FailureStays
<1> QED BY <1>4, <1>10 DEF Full!Fails

\* Residency makes no action fail, for every set of designations and of bodies that do not
\* read after a `destroy`, but by a store through a dormant designation: any other statement
\* that fails, on whatever attempt and with whatever in memory, is one of a body that fails
\* when all of the durable world is in memory.
THEOREM FailuresResident ==
  ASSUME \A p \in Programs : ~ReadsAfterDestroy(p)
  PROVE  Spec => FailuresMeant
<1>1. Init => Simulates
  BY DEF Init, Simulates
<1>2. IInv /\ Simulates /\ [Next]_vars
        => Simulates' /\ (Abort => Full!Fails(program) \/ StoresDormant)
  BY SimulatesStep, AbortMeant
<1> QED BY <1>1, <1>2, InvariantHolds, PTL DEF Spec, FailuresMeant
-----------------------------------------------------------------------------
(* Which bodies never panic.                                               *)

\* What was lent is still there at the end of the program, run in the durable world.
Spared ==
  phase = "running" =>
    LET last == Full!Results(program, DurableWorld)[Len(program)]
    IN  last.ok => \A x \in DOMAIN local : x \in DOMAIN last.world.cells

\* An identity stays while no statement destroys.
LEMMA CellsStay ==
  ASSUME NEW p, Len(p) \in Nat, NEW w, NEW x, NEW m \in 0 .. Len(p), NEW R,
         \A i \in 1 .. Len(p) : R[i] = Full!Step(w, R[i - 1], p[i]),
         \A i \in m + 1 .. Len(p) : p[i][1] # "destroy",
         R[m].ok, "cells" \in DOMAIN R[m].world, x \in DOMAIN R[m].world.cells
  PROVE  R[Len(p)].ok => x \in DOMAIN R[Len(p)].world.cells
<1> DEFINE Has(v) == "cells" \in DOMAIN v /\ x \in DOMAIN v.cells
           T == {k \in 0 .. Len(p) - m : R[m + k].ok => Has(R[m + k].world)}
<1>1. ASSUME NEW v, NEW F, NEW s, Has(v), s[1] # "destroy", Full!Possible(v, F, s)
      PROVE  Has(Full!Performed(v, s))
  <2>1. s[1] \in {"create", "copy", "set", "insert"}
    BY <1>1 DEF Full!Possible
  <2>2. CASE s[1] = "create"
    BY <1>1, <2>2 DEF Full!Performed
  <2>3. CASE s[1] = "copy"
    BY <1>1, <2>3 DEF Full!Performed
  <2>4. CASE s[1] = "set"
    BY <1>1, <2>4 DEF Full!Performed
  <2>5. CASE s[1] = "insert"
    BY <1>1, <2>5 DEF Full!Performed
  <2> QED BY <2>1, <2>2, <2>3, <2>4, <2>5
<1>2. ASSUME NEW i \in m + 1 .. Len(p), R[i - 1].ok => Has(R[i - 1].world), R[i].ok
      PROVE  Has(R[i].world)
  <2> DEFINE F == w.next .. (R[i - 1].world.next - 1)
  <2>1. R[i] = Full!Step(w, R[i - 1], p[i])
    <3>1. i \in 1 .. Len(p)
      OBVIOUS
    <3> QED BY <3>1
  <2> HIDE DEF Has
  <2>2. R[i - 1].ok /\ Full!Possible(R[i - 1].world, F, p[i])
    BY <1>2, <2>1 DEF Full!Step
  <2>3. R[i].world = Full!Performed(R[i - 1].world, p[i])
    BY <2>1, <2>2 DEF Full!Step
  <2>4. Has(R[i - 1].world) /\ p[i][1] # "destroy"
    BY <1>2, <2>2
  <2> HIDE DEF F
  <2> QED BY <1>1, <2>2, <2>3, <2>4
<1> HIDE DEF Has
<1>3. R[m].ok /\ Has(R[m].world)
  BY DEF Has
<1>4. 0 \in T
  BY <1>3
<1>5. ASSUME NEW k \in 0 .. (Len(p) - m) - 1, k \in T
      PROVE  k + 1 \in T
  <2>1. m + (k + 1) \in m + 1 .. Len(p) /\ (m + (k + 1)) - 1 = m + k
    OBVIOUS
  <2>2. R[m + (k + 1)].ok => Has(R[m + (k + 1)].world)
    BY <1>2, <1>5, <2>1
  <2> QED BY <2>1, <2>2
<1>6. Len(p) - m \in T
  <2> HIDE DEF T
  <2>1. \A k \in 0 .. (Len(p) - m) - 1 : k \in T => k + 1 \in T
    BY <1>5
  <2>2. Len(p) - m \in Nat
    OBVIOUS
  <2>3. 0 .. Len(p) - m \subseteq T
    BY <1>4, <2>1, <2>2, InductionUpTo
  <2> QED BY <2>2, <2>3
<1>7. m + (Len(p) - m) = Len(p)
  OBVIOUS
<1> QED BY <1>6, <1>7 DEF Has

\* A step keeps it: whoever asks for a payload asks for one of an identity that no later
\* statement ends.
LEMMA SparedStep ==
  ASSUME IInv, Simulates, Spared, [Next]_vars,
         \A p \in Programs : ~DestroysAfterLoan(p)
  PROVE  Spared'
<1>1. CASE Retry
  <2>1. /\ Running /\ phase = "running" /\ Attempting /\ pc' = 1
        /\ UNCHANGED <<manifest, store, program>>
    BY <1>1 DEF Retry, Running, Attempting, durable
  <2>2. PICK x \in Requested(Statement) :
          local' = [y \in {x} |-> store[backed[x].token].payload] ++ local
    BY <1>1 DEF Retry
  <2>3. program \in Programs /\ Len(program) \in Nat /\ pc \in DOMAIN program
    <3>1. program \in Programs
      BY <2>1 DEF IInv, AttemptOK
    <3>2. program \in Seq(Operations \X Designations \X Designations)
      BY <3>1, WorldAssumption
    <3> QED BY <2>1, <3>1, <3>2, StatementIndex
  <2>4. DOMAIN program = 1 .. Len(program)
    BY <2>3, WorldAssumption
  <2>5. Statement[1] \in {"copy", "insert"} /\ x = Target(Statement[3])
    BY <2>2 DEF Requested
  <2>6. \A i \in (pc - 1) + 1 .. Len(program) : program[i][1] # "destroy"
    BY <2>3, <2>4, <2>5 DEF DestroysAfterLoan, Statement
  <2>7. x \in DOMAIN backed /\ x \notin terminated
    <3>1. Statement[3] \in Designations
      BY <2>1, StatementShape
    <3> QED BY <2>1, <2>2, <2>5, <3>1, RequestedDormant DEF Simulates, Target
  <2> DEFINE R == Full!Results(program, DurableWorld)
  <2>8. /\ R[pc - 1].ok /\ "cells" \in DOMAIN R[pc - 1].world
        /\ x \in DOMAIN R[pc - 1].world.cells
    BY <2>1, <2>7 DEF Simulates, Seen
  <2>9. pc - 1 \in 0 .. Len(program)
    BY <2>3, <2>4
  <2>10. R[Len(program)].ok => x \in DOMAIN R[Len(program)].world.cells
    <3>1. PICK w, r : w = DurableWorld /\ r = Full!Results(program, DurableWorld)
      OBVIOUS
    <3>2. \A i \in 1 .. Len(program) :
            Full!Results(program, w)[i] = Full!Step(w, Full!Results(program, w)[i - 1], program[i])
      BY <2>3, ResultsDefined, ZenonT(30)
    <3>3. \A i \in 1 .. Len(program) : r[i] = Full!Step(w, r[i - 1], program[i])
      BY <3>1, <3>2
    <3>4. r[pc - 1].ok /\ "cells" \in DOMAIN r[pc - 1].world /\ x \in DOMAIN r[pc - 1].world.cells
      BY <2>8, <3>1
    <3>5. r[Len(program)].ok => x \in DOMAIN r[Len(program)].world.cells
      BY <2>3, <2>6, <2>9, <3>3, <3>4, CellsStay
    <3> QED BY <3>1, <3>5
  <2>11. DOMAIN local' = {x} \cup DOMAIN local
    BY <2>2 DEF ++
  <2>12. DurableWorld' = DurableWorld
    BY <2>1 DEF DurableWorld
  <2> QED BY <2>1, <2>10, <2>11, <2>12 DEF Spared
<1>2. CASE Execute \/ UNCHANGED vars
  <2>1. UNCHANGED <<manifest, store, phase, program, local>>
    BY <1>2 DEF Execute, vars, durable, run
  <2>2. DurableWorld' = DurableWorld
    BY <2>1 DEF DurableWorld
  <2> QED BY <2>1, <2>2 DEF Spared
<1>3. ASSUME NEW p \in Programs, RunAction(p)
      PROVE  Spared'
  <2>1. local' = Empty
    BY <1>3 DEF RunAction, IInv, NothingStaged
  <2>2. DOMAIN local' = {}
    BY <2>1 DEF Empty
  <2> QED BY <2>2 DEF Spared
<1>4. CASE phase' # "running"
  BY <1>4 DEF Spared
<1> QED
  BY <1>1, <1>2, <1>3, <1>4
  DEF Next, RunStep, Open, Crash, Materialize, Abort, LoadFails, Accept, AcceptThenCrash,
      Reject, GiveUp, Panic

\* The expectation of run_action that a lent identity is still backed holds for every set of
\* bodies of which none destroys after it asked for a member, nor reads one after a
\* `destroy`: a body may end identities and be lent others, in that order, and is retried
\* as often as it takes.
THEOREM LoansOutliveActions ==
  ASSUME \A p \in Programs : ~ReadsAfterDestroy(p) /\ ~DestroysAfterLoan(p)
  PROVE  Spec => []NeverPanics
<1>1. Init => Simulates /\ Spared /\ NeverPanics
  BY DEF Init, Simulates, Spared, NeverPanics
<1>2. ASSUME IInv, Simulates, Spared, NeverPanics, [Next]_vars
      PROVE  NeverPanics'
  <2>1. CASE Panic
    <3>1. phase = "running" /\ pc > Len(program) /\ DOMAIN local \cap terminated # {}
      BY <2>1 DEF Panic, Finished, Backs
    <3>2. Len(program) \in Nat /\ pc - 1 = Len(program)
      BY <1>2, <3>1, WorldAssumption DEF IInv, AttemptOK
    <3>3. Full!Results(program, DurableWorld)[Len(program)] = [ok |-> TRUE, world |-> Seen]
      BY <1>2, <3>1, <3>2 DEF Simulates
    <3>4. \A x \in DOMAIN local : x \in DOMAIN Seen.cells
      BY <1>2, <3>1, <3>3 DEF Spared
    <3> QED BY <3>1, <3>4 DEF Seen
  <2>2. CASE ~Panic
    BY <1>2, <2>2
    DEF NeverPanics, Next, RunStep, vars, Open, Crash, Materialize, RunAction, Execute,
        Retry, Abort, LoadFails, Accept, AcceptThenCrash, Reject, GiveUp
  <2> QED BY <2>1, <2>2
<1>3. IInv /\ Simulates /\ Spared /\ NeverPanics /\ [Next]_vars
        => Simulates' /\ Spared' /\ NeverPanics'
  BY <1>2, SimulatesStep, SparedStep
<1> QED BY <1>1, <1>3, InvariantHolds, PTL DEF Spec
=============================================================================
