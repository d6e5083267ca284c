------------------------------ MODULE Lifetime ------------------------------
(***************************************************************************)
(* Identity lifetime inside an action transaction: compiler/src/runtime.rs *)
(* with its committed store (states, dynamic_model_owners) and the staged  *)
(* overlay of the one open transaction (writes, created_model_owners,      *)
(* updated_model_owners, terminated_model_identities).                     *)
(*                                                                         *)
(* Data are abstracted to what lifetime can tell apart.  There is one      *)
(* model, with one `maybe live` member ("slot") and one `[live T]` member  *)
(* ("members"); scalar members and derived cells are left out.  A          *)
(* membership is the bag of its occurrences: their order is the subject of *)
(* OrderedStructure.  Dynamic identities are the values of the identity    *)
(* counter.  created_states is determined by created_model_owners (fresh   *)
(* cells hold their defaults, later changes are in writes) and             *)
(* deleted_states by terminated_model_identities.                          *)
(***************************************************************************)
EXTENDS Integers, Sequences, FiniteSets, Provenance

CONSTANTS
  Roots,          \* static modeled-state roots
  Plains,         \* top-level `live T` designations
  Maybes,         \* top-level `maybe live T` designations
  None,           \* the absent target of a `maybe live T`
  Captures,       \* whether the program holds designations with `with d as x { ... }`
  MaxIdentity,    \* bound: dynamic identities ever allocated
  MaxScope,       \* bound: nesting of `with` and `create ... as` bodies
  MaxCopies,      \* bound: occurrences of one identity in one membership
  MaxRelations,   \* bound: (model-local cell, identity it names) pairs at once
  MaxWrites       \* bound: cells one action assigns itself (cleanup is not bounded)

ASSUME RootsAssumption ==
  /\ Roots # {}
  /\ Roots \cap Nat = {}
  /\ None \notin Roots \cup Nat
  /\ Captures \in BOOLEAN /\ MaxIdentity \in Nat

VARIABLES
  states,      \* committed: name of a stored cell -> its value
  owners,      \* committed: dynamic_model_owners
  next,        \* next_dynamic_identity
  active,      \* transaction.is_some()
  writes,      \* transaction.writes
  created,     \* transaction.created_model_owners
  updated,     \* transaction.updated_model_owners
  terminated,  \* transaction.terminated_model_identities
  scope        \* identities bound by the open scope bodies, innermost last

overlay == <<writes, created, updated, terminated, scope>>
vars == <<states, owners, next, active, overlay>>
-----------------------------------------------------------------------------
Identity == Roots \cup Nat
Empty == [x \in {} |-> x]

\* A cell name is its kind and what it belongs to.
Slot(x) == <<"slot", x>>
Members(x) == <<"members", x>>
OwnCells(X) == {"slot", "members"} \X X
TopLevel == ({"plain"} \X Plains) \cup ({"maybe"} \X Maybes)

\* The identities a cell of name n names when it holds v, and v without those of T.
Named(n, v) == IF n[1] = "members" THEN DOMAIN v ELSE {v} \ {None}
MutantWithoutSlotsOnly(n, v, T) == IF n[1] # "members" /\ v \in T THEN None ELSE v
MutantWithoutMembersOnly(n, v, T) == IF n[1] = "members" THEN Only(v, DOMAIN v \ T) ELSE v
Without(n, v, T) ==
  IF n[1] = "members" THEN Only(v, DOMAIN v \ T) ELSE IF v \in T THEN None ELSE v

CreatedStates ==
  [n \in OwnCells(DOMAIN created) |-> IF n[1] = "slot" THEN None ELSE Empty]
MutantDeletedSlotsOnly == {"slot"} \X terminated
DeletedStates == OwnCells(terminated)

\* state_exists: the cells the open transaction can name; read_global_state: their values.
Visible == (DOMAIN states \cup DOMAIN CreatedStates) \ DeletedStates
Read(n) == (writes ++ (CreatedStates ++ states))[n]

\* model_identity_exists
Exists(x) == x \notin terminated /\ x \in Roots \cup DOMAIN owners \cup DOMAIN created

\* current_dynamic_model_owner, as a map on the dynamic identities that exist
OwnerNow ==
  Only(updated ++ (created ++ owners), (DOMAIN owners \cup DOMAIN created) \ terminated)
-----------------------------------------------------------------------------
(* What a statement can name.                                              *)

Designated == {Read(d) : d \in TopLevel} \ {None}
Operands == Roots \cup Designated
WithCells == {o \in Operands : Members(o) \in Visible}
Held == IF scope = <<>> THEN {} ELSE {scope[Len(scope)]}

\* A plain designation is never assigned from one that may be absent.
LiveSources ==
  Roots \cup {Read(d) : d \in {"plain"} \X Plains} \cup Held
    \cup UNION {DOMAIN Read(Members(o)) : o \in WithCells}
MaybeSources ==
  LiveSources \cup Designated \cup {None} \cup {Read(Slot(o)) : o \in WithCells}

Relations ==
  UNION {{<<n, x>> : x \in Named(n, Read(n))} : n \in {m \in Visible : m[1] \in {"slot", "members"}}}
-----------------------------------------------------------------------------
(* Statements of the open action.  An operator named Mutant... is a wrong      *)
(* version of the one after it, which a property must tell from it; nothing    *)
(* of the specification uses it.                                               *)

Stage(n, v) ==
  /\ n \in DOMAIN writes \/ Cardinality(DOMAIN writes) < MaxWrites
  /\ writes' = [m \in {n} |-> v] ++ writes
Committed == <<states, owners>>

\* run_action: the refusal of a second top-level action is the guard.
RunAction ==
  /\ ~active
  /\ active' = TRUE
  /\ UNCHANGED <<states, owners, next, overlay>>

\* `selected = <designation>`: write_state checks no lifetime.
Assign(kind, d, v) ==
  /\ active
  /\ v \in IF kind = "plain" THEN LiveSources ELSE MaybeSources
  /\ Stage(<<kind, d>>, v)
  /\ UNCHANGED <<Committed, next, active, created, updated, terminated, scope>>

\* `through o.slot = <designation>`: the slot must be a state the transaction can name.
AssignSlot(o, v) ==
  /\ active
  /\ o \in WithCells \cup Held
  /\ Slot(o) \in Visible
  /\ v \in MaybeSources
  /\ Cardinality(Relations) < MaxRelations
  /\ Stage(Slot(o), v)
  /\ UNCHANGED <<Committed, next, active, created, updated, terminated, scope>>

MutantInsertDead(x, o) ==
  /\ active
  /\ x \in (Designated \cup Held) /\ o \in WithCells
  /\ Cardinality(Relations) < MaxRelations
  /\ LET m == Read(Members(o))
         copies == IF x \in DOMAIN m THEN m[x] ELSE 0
     IN  copies < MaxCopies /\ Stage(Members(o), [y \in {x} |-> copies + 1] ++ m)
  /\ UNCHANGED <<Committed, next, active, created, updated, terminated, scope>>

\* invoke_scoped_insert: `insert x into o.members`
Insert(x, o) ==
  /\ active
  /\ x \in (Designated \cup Held) /\ o \in WithCells
  /\ Exists(x)
  /\ Cardinality(Relations) < MaxRelations
  /\ LET m == Read(Members(o))
         copies == IF x \in DOMAIN m THEN m[x] ELSE 0
     IN  /\ copies < MaxCopies
         /\ Stage(Members(o), [y \in {x} |-> copies + 1] ++ m)
  /\ UNCHANGED <<Committed, next, active, created, updated, terminated, scope>>

\* invoke_structural_remove: one occurrence of x leaves the membership of o.
Remove(x, o) ==
  /\ active
  /\ o \in WithCells
  /\ LET m == Read(Members(o))
     IN  /\ x \in DOMAIN m
         /\ Stage(Members(o), IF m[x] = 1 THEN Only(m, DOMAIN m \ {x}) ELSE [m EXCEPT ![x] = @ - 1])
  /\ UNCHANGED <<Committed, next, active, created, updated, terminated, scope>>

\* invoke_designation_scope_builtin: `with v as x { ... }` holds v for the body.
EnterScope(v) ==
  /\ active /\ Captures
  /\ Len(scope) < MaxScope
  /\ v \in MaybeSources
  /\ Exists(v)
  /\ scope' = Append(scope, v)
  /\ UNCHANGED <<Committed, next, active, writes, created, updated, terminated>>

\* The scope body ends and invoke_action pops its frame.
LeaveScope ==
  /\ active /\ scope # <<>>
  /\ scope' = SubSeq(scope, 1, Len(scope) - 1)
  /\ UNCHANGED <<Committed, next, active, writes, created, updated, terminated>>

\* instantiate_runtime_model, alone or with the scope body of `create ... as x`.
Create(o, scoped) ==
  /\ active
  /\ o \in Operands \cup Held
  /\ Exists(o)
  /\ next < MaxIdentity
  /\ next' = next + 1
  /\ created' = [x \in {next} |-> o] ++ created
  /\ IF scoped THEN Len(scope) < MaxScope /\ scope' = Append(scope, next) ELSE UNCHANGED scope
  /\ UNCHANGED <<Committed, active, writes, updated, terminated>>

MutantRerootIntoSubtree(d, source, target) ==
  /\ active
  /\ d \in Designated /\ source \in Operands /\ target \in Operands
  /\ d \notin terminated /\ d \in DOMAIN owners
  /\ OwnerNow[d] = source
  /\ d # target /\ Exists(target)
  /\ updated' = IF source = target THEN updated ELSE [x \in {d} |-> target] ++ updated
  /\ UNCHANGED <<Committed, next, active, writes, created, terminated, scope>>

\* transfer_runtime_model_owner: `reroot d from source to target`
Reroot(d, source, target) ==
  /\ active
  /\ d \in Designated /\ source \in Operands /\ target \in Operands
  /\ d \notin terminated /\ d \in DOMAIN owners
  /\ OwnerNow[d] = source
  /\ d # target
  /\ Exists(target)
  /\ ~Reaches(OwnerNow, target, d)
  /\ updated' = IF source = target THEN updated ELSE [x \in {d} |-> target] ++ updated
  /\ UNCHANGED <<Committed, next, active, writes, created, terminated, scope>>

\* terminate_runtime_model, for the identities of T in some order, children first:
\* every other cell that names one of them is cleared, their own cells are deleted.
Terminate(T) ==
  LET naming == {n \in Visible \ OwnCells(T) : Named(n, Read(n)) \cap T # {}}
      kept == DOMAIN writes \ OwnCells(T)
  IN  /\ \A p \in Plains : Read(<<"plain", p>>) \notin T
      /\ writes' = [n \in naming |-> Without(n, Read(n), T)] ++ Only(writes, kept)
      /\ terminated' = terminated \cup T
      /\ UNCHANGED <<Committed, next, active, created, updated, scope>>

\* invoke_destroy_builtin: a committed leaf, under the owner it is rooted in.
Destroy(d, o) ==
  /\ active
  /\ d \in {Read(m) : m \in {"maybe"} \X Maybes} \ {None} /\ o \in Operands
  /\ d \notin terminated /\ d \in DOMAIN owners
  /\ OwnerNow[d] = o
  /\ \A c \in DOMAIN OwnerNow : OwnerNow[c] # d
  /\ Terminate({d})

\* terminate_runtime_model_subtree: everything committed that is now rooted under d.
Purge(d, o) ==
  /\ active
  /\ d \in {Read(m) : m \in {"maybe"} \X Maybes} \ {None} /\ o \in Operands
  /\ d \notin terminated /\ d \in DOMAIN owners
  /\ OwnerNow[d] = o
  /\ \A fresh \in DOMAIN created : ~Reaches(OwnerNow, fresh, d)
  /\ Terminate(Subtree(OwnerNow, d))

MutantDiscardKeepsOwners ==
  /\ active' = FALSE
  /\ writes' = Empty /\ created' = Empty /\ updated' = updated
  /\ terminated' = {} /\ scope' = <<>>
MutantDiscardKeepsScope ==
  /\ active' = FALSE
  /\ writes' = Empty /\ created' = Empty /\ updated' = Empty
  /\ terminated' = {} /\ scope' = scope

Discard ==
  /\ active' = FALSE
  /\ writes' = Empty /\ created' = Empty /\ updated' = Empty
  /\ terminated' = {} /\ scope' = <<>>

MutantFailRewinds ==
  active /\ Discard /\ next' = next - Cardinality(DOMAIN created) /\ UNCHANGED <<states, owners>>

\* `fail`, or the error of any statement: the transaction is dropped whole.
Fail == active /\ Discard /\ UNCHANGED <<states, owners, next>>

MutantCommitDefaultsLast ==
  /\ active /\ scope = <<>>
  /\ LET written == CreatedStates ++ (writes ++ states)
         rooted == updated ++ (created ++ owners)
     IN  /\ states' = Only(written, DOMAIN written \ DeletedStates)
         /\ owners' = Only(rooted, DOMAIN rooted \ terminated)
  /\ Discard
  /\ UNCHANGED next

\* commit: the maps are extended, written, then the deleted names removed.
Commit ==
  /\ active /\ scope = <<>>
  /\ LET extended == CreatedStates ++ states
         written == Only(writes ++ extended, DOMAIN extended)
         rooted == updated ++ (created ++ owners)
     IN  /\ states' = Only(written, DOMAIN written \ DeletedStates)
         /\ owners' = Only(rooted, DOMAIN rooted \ terminated)
  /\ Discard
  /\ UNCHANGED next
-----------------------------------------------------------------------------
Init ==
  /\ \E r \in Roots :
       states = [n \in TopLevel \cup OwnCells(Roots) |->
                   CASE n[1] = "plain" -> r
                     [] n[1] = "members" -> Empty
                     [] OTHER -> None]
  /\ owners = Empty /\ next = 0
  /\ active = FALSE
  /\ writes = Empty /\ created = Empty /\ updated = Empty
  /\ terminated = {} /\ scope = <<>>

Known == Roots \cup (0 .. MaxIdentity)

Next ==
  \/ RunAction \/ LeaveScope \/ Fail \/ Commit
  \/ \E d \in Plains, v \in Known : Assign("plain", d, v)
  \/ \E d \in Maybes, v \in Known \cup {None} : Assign("maybe", d, v)
  \/ \E x \in Known, o \in Known :
       Insert(x, o) \/ Remove(x, o) \/ Destroy(x, o) \/ Purge(x, o) \/ AssignSlot(o, x)
  \/ \E o \in Known : AssignSlot(o, None) \/ EnterScope(o) \/ Create(o, TRUE) \/ Create(o, FALSE)
  \/ \E d, source, target \in Known : Reroot(d, source, target)

Spec == Init /\ [][Next]_vars
-----------------------------------------------------------------------------
(* Properties.                                                             *)

IsBag(m) == \A x \in DOMAIN m : x \in Identity /\ m[x] \in Nat \ {0}
Fits(n, v) ==
  CASE n[1] = "plain" -> v \in Identity
    [] n[1] = "members" -> v = Only(v, DOMAIN v) /\ IsBag(v)
    [] OTHER -> v \in Identity \cup {None}
IsOwnerMap(f, D) == f \in [D -> Identity]

Alive == Roots \cup DOMAIN owners
AliveNow == Roots \cup DOMAIN OwnerNow

OwnersOK ==
  /\ next \in Nat
  /\ IsOwnerMap(owners, DOMAIN owners) /\ DOMAIN owners \subseteq 0 .. next - 1
  /\ IsOwnerMap(created, DOMAIN created)
  /\ DOMAIN created \subseteq (0 .. next - 1) \ DOMAIN owners
  /\ IsOwnerMap(updated, DOMAIN updated) /\ DOMAIN updated \subseteq DOMAIN owners
  /\ terminated \subseteq DOMAIN owners
  /\ active \in BOOLEAN /\ scope \in Seq(Identity)
StatesOK ==
  /\ states = Only(states, TopLevel \cup OwnCells(Alive))
  /\ \A n \in DOMAIN states : Fits(n, states[n])
WritesOK ==
  /\ writes = Only(writes, DOMAIN writes) /\ DOMAIN writes \subseteq Visible
  /\ \A n \in DOMAIN writes : Fits(n, writes[n])
IdleOK ==
  ~active => /\ writes = Empty /\ created = Empty /\ updated = Empty
             /\ terminated = {} /\ scope = <<>>

\* The shape of the store and of the overlay: cells exist for exactly the live
\* identities, the three owner maps overlap only as current_dynamic_model_owner
\* assumes, and nothing is staged outside a transaction.
TypeOK == OwnersOK /\ StatesOK /\ WritesOK /\ IdleOK

\* Every recorded owner is alive and no chain of owners closes on itself, in the
\* committed relation and in the one the open transaction sees, whatever order of
\* create, reroot, destroy and purge led there (the guards of
\* transfer_runtime_model_owner and terminate_runtime_model).
ProvenanceSound ==
  /\ OwnersLive(owners, Roots) /\ Acyclic(owners)
  /\ OwnersLive(OwnerNow, Roots) /\ Acyclic(OwnerNow)

\* A membership never names an identity whose lifetime ended, not even inside the
\* transaction that ends it: terminate_runtime_model strips every visible
\* sequence and invoke_scoped_insert refuses a dead identity.
MembershipLive ==
  /\ \A n \in DOMAIN states : n[1] = "members" => Named(n, states[n]) \subseteq Alive
  /\ \A n \in Visible : n[1] = "members" => Named(n, Read(n)) \subseteq AliveNow

\* A designation never names an identity whose lifetime ended, committed or
\* staged: plain ones block termination, optional ones are cleared by it.
DesignationLive ==
  /\ \A n \in DOMAIN states : n[1] # "members" => Named(n, states[n]) \subseteq Alive
  /\ \A n \in Visible : n[1] # "members" => Named(n, Read(n)) \subseteq AliveNow

\* What the language reference says of `live T`: between actions a plain
\* designation designates exactly one live target.
PlainTargetLive == \A p \in Plains : states[<<"plain", p>>] \in Alive

\* An identity that was handed out and is not alive (ended, or created by an
\* action that failed) is remembered as handed out and never becomes alive again:
\* instantiate_runtime_model counts up and a dropped transaction does not rewind it.
DeadStayDead ==
  [][\A d \in 0 .. next - 1 :
       /\ d \in 0 .. next' - 1
       /\ d \notin DOMAIN owners \cup DOMAIN created =>
            d \notin DOMAIN owners' \cup DOMAIN created']_vars

\* The overlay and its merge implement in-place work on a private copy that is
\* published or dropped whole.
Atomic ==
  INSTANCE AtomicWorld WITH
    committed <- [owners |-> owners, states |-> states],
    open <- IF active THEN <<[owners |-> OwnerNow, states |-> [n \in Visible |-> Read(n)]]>>
                      ELSE <<>>,
    used <- 0 .. next - 1
ImplementsAtomicWorld == Atomic!Spec
=============================================================================
