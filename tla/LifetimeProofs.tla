--------------------------- MODULE LifetimeProofs ---------------------------
(***************************************************************************)
(* What Lifetime guarantees for every set of roots and designations, any   *)
(* number of identities and any nesting of scopes.                         *)
(***************************************************************************)
EXTENDS Lifetime, TLAPS

-----------------------------------------------------------------------------
(* The rooting relation.                                                   *)

\* Owner maps: a dynamic identity whose chain reaches d still reaches it one step up.
LEMMA ReachesOwner ==
  ASSUME NEW own, NEW x \in DOMAIN own, NEW d, x # d, Reaches(own, x, d),
         own[x] \in DOMAIN own
  PROVE  Reaches(own, own[x], d)
<1> SUFFICES ASSUME own[x] # d,
                    NEW S \in SUBSET DOMAIN own, own[x] \in S, UpClosed(own, S)
             PROVE  d \in S
  BY DEF Reaches
<1>1. x \in S \cup {x} /\ UpClosed(own, S \cup {x}) /\ S \cup {x} \in SUBSET DOMAIN own
  BY DEF UpClosed
<1>2. d \in S \cup {x}
  BY <1>1 DEF Reaches
<1> QED BY <1>2

\* The other way: what the owner reaches, the identity reaches.
LEMMA ReachesFromOwner ==
  ASSUME NEW own, NEW x \in DOMAIN own, NEW d, own[x] \in DOMAIN own,
         Reaches(own, own[x], d)
  PROVE  Reaches(own, x, d)
BY DEF Reaches, UpClosed

\* Removing a set of identities that no remaining one is rooted in keeps owners alive.
LEMMA RemoveOwnersLive ==
  ASSUME NEW own, NEW roots, NEW T, OwnersLive(own, roots),
         \A d \in DOMAIN own \ T : own[d] \notin T
  PROVE  OwnersLive(Only(own, DOMAIN own \ T), roots)
BY DEF OwnersLive, Only

\* A part of an acyclic relation is acyclic.
LEMMA RemoveAcyclic ==
  ASSUME NEW own, NEW T, Acyclic(own)
  PROVE  Acyclic(Only(own, DOMAIN own \ T))
<1> SUFFICES ASSUME NEW S \in SUBSET (DOMAIN own \ T), S # {}
             PROVE  \E d \in S : own[d] \notin S
  BY DEF Acyclic, Only
<1> QED BY DEF Acyclic

\* A new identity rooted in something else closes no cycle.
LEMMA AddAcyclic ==
  ASSUME NEW own, NEW roots, NEW x, NEW o, x \notin DOMAIN own, x \notin roots,
         OwnersLive(own, roots), Acyclic(own), o # x,
         NEW new, DOMAIN new = DOMAIN own \cup {x}, new[x] = o,
         \A d \in DOMAIN own : new[d] = own[d]
  PROVE  Acyclic(new)
<1> SUFFICES ASSUME NEW S \in SUBSET DOMAIN new, S # {},
                    \A d \in S : new[d] \in S
             PROVE  FALSE
  BY DEF Acyclic
<1>1. CASE S = {x}
  BY <1>1
<1>2. CASE S # {x}
  <2>1. S \ {x} \in SUBSET DOMAIN own /\ S \ {x} # {}
    BY <1>2
  <2>2. PICK d \in S \ {x} : own[d] \notin S \ {x}
    BY <2>1 DEF Acyclic
  <2>3. own[d] = x
    BY <2>1, <2>2
  <2> QED BY <2>1, <2>2, <2>3 DEF OwnersLive
<1> QED BY <1>1, <1>2

\* Rerooting d under a target whose chain does not reach d closes no cycle: the set
\* that separates the target from d would hold an older cycle.
LEMMA RerootAcyclic ==
  ASSUME NEW own, NEW d \in DOMAIN own, NEW target,
         Acyclic(own), ~Reaches(own, target, d),
         NEW new, DOMAIN new = DOMAIN own, new[d] = target,
         \A x \in DOMAIN own \ {d} : new[x] = own[x]
  PROVE  Acyclic(new)
<1> SUFFICES ASSUME NEW C \in SUBSET DOMAIN own, C # {},
                    \A x \in C : new[x] \in C
             PROVE  FALSE
  BY DEF Acyclic
<1>1. CASE d \notin C
  <2>1. \A x \in C : own[x] \in C
    BY <1>1
  <2> QED BY <2>1 DEF Acyclic
<1>2. CASE d \in C
  <2>1. target \in C
    BY <1>2
  <2>2. PICK S \in SUBSET DOMAIN own : target \in S /\ UpClosed(own, S) /\ d \notin S
    BY <2>1 DEF Reaches
  <2>3. \A x \in C \cap S : own[x] \in C \cap S
    BY <2>2 DEF UpClosed
  <2>4. C \cap S # {} /\ C \cap S \in SUBSET DOMAIN own
    BY <2>1, <2>2
  <2> QED BY <2>3, <2>4 DEF Acyclic
<1> QED BY <1>1, <1>2
-----------------------------------------------------------------------------
(* The store and the overlay.                                              *)

\* The three places a cell's value can come from.
LEMMA ReadCases ==
  ASSUME TypeOK, NEW n \in Visible
  PROVE  Read(n) = IF n \in DOMAIN writes THEN writes[n]
                   ELSE IF n \in DOMAIN CreatedStates THEN CreatedStates[n]
                   ELSE states[n]
BY DEF Visible, Read, ++

\* Every value the transaction reads fits its cell.
LEMMA ReadFits ==
  ASSUME TypeOK, NEW n \in Visible
  PROVE  Fits(n, Read(n))
<1>1. CASE n \in DOMAIN writes
  BY <1>1, ReadCases DEF TypeOK, WritesOK
<1>2. CASE n \notin DOMAIN writes /\ n \in DOMAIN CreatedStates
  <2>1. n \in OwnCells(DOMAIN created)
    BY <1>2 DEF CreatedStates
  <2>2. CASE n[1] = "slot"
    <3>1. Read(n) = None
      BY <1>2, <2>1, <2>2, ReadCases DEF CreatedStates
    <3> QED BY <2>2, <3>1 DEF Fits
  <2>3. CASE n[1] = "members"
    <3>1. Read(n) = Empty
      BY <1>2, <2>1, <2>3, ReadCases DEF CreatedStates
    <3>2. Empty = Only(Empty, DOMAIN Empty) /\ IsBag(Empty)
      BY DEF Empty, Only, IsBag
    <3> QED BY <2>3, <3>1, <3>2 DEF Fits
  <2> QED BY <2>1, <2>2, <2>3 DEF OwnCells
<1>3. CASE n \notin DOMAIN writes /\ n \notin DOMAIN CreatedStates
  BY <1>3, ReadCases DEF TypeOK, StatesOK, Visible
<1> QED BY <1>1, <1>2, <1>3

\* The dynamic identities the transaction sees, each with one owner.
LEMMA OwnerNowDomain ==
  DOMAIN OwnerNow = (DOMAIN owners \cup DOMAIN created) \ terminated
BY DEF OwnerNow, Only

\* Where the owner the transaction sees comes from.
LEMMA OwnerNowCases ==
  ASSUME NEW d \in DOMAIN OwnerNow
  PROVE  OwnerNow[d] = IF d \in DOMAIN updated THEN updated[d]
                       ELSE IF d \in DOMAIN created THEN created[d] ELSE owners[d]
BY DEF OwnerNow, Only, ++

\* The cells it can name are those of the identities it sees.
LEMMA VisibleCells ==
  ASSUME TypeOK
  PROVE  Visible = TopLevel \cup OwnCells(AliveNow)
<1>1. DOMAIN states = TopLevel \cup OwnCells(Roots \cup DOMAIN owners)
  BY DEF TypeOK, StatesOK, Only, Alive
<1>2. DOMAIN CreatedStates = OwnCells(DOMAIN created)
  BY DEF CreatedStates
<1>3. TopLevel \cap OwnCells(terminated) = {}
  BY DEF TopLevel, OwnCells
<1>4. Roots \cap terminated = {}
  BY RootsAssumption DEF TypeOK, OwnersOK
<1>5. OwnCells((Roots \cup DOMAIN owners) \cup DOMAIN created) \ OwnCells(terminated)
        = OwnCells(Roots \cup ((DOMAIN owners \cup DOMAIN created) \ terminated))
  BY <1>4 DEF OwnCells
<1>6. OwnCells(Roots \cup DOMAIN owners) \cup OwnCells(DOMAIN created)
        = OwnCells((Roots \cup DOMAIN owners) \cup DOMAIN created)
  BY DEF OwnCells
<1> QED
  BY <1>1, <1>2, <1>3, <1>5, <1>6, OwnerNowDomain DEF Visible, DeletedStates, AliveNow

\* Writing a fitting value to a visible cell keeps the store and the overlay well formed.
LEMMA StageTypeOK ==
  ASSUME TypeOK, active, NEW n \in Visible, NEW v, Fits(n, v), Stage(n, v),
         UNCHANGED <<Committed, next, active, created, updated, terminated, scope>>
  PROVE  TypeOK'
<1>1. OwnersOK' /\ StatesOK' /\ IdleOK'
  BY DEF TypeOK, OwnersOK, StatesOK, IdleOK, Committed, Alive
<1>2. Visible' = Visible
  BY DEF Visible, CreatedStates, DeletedStates, Committed
<1>3. writes' = Only(writes', DOMAIN writes') /\ DOMAIN writes' = {n} \cup DOMAIN writes
  BY DEF Stage, ++, Only
<1>4. \A m \in DOMAIN writes' : writes'[m] = IF m = n THEN v ELSE writes[m]
  BY DEF Stage, ++
<1>5. WritesOK'
  BY <1>2, <1>3, <1>4 DEF TypeOK, WritesOK
<1> QED BY <1>1, <1>5 DEF TypeOK

\* A statement can only name identities.
LEMMA SourcesTyped ==
  ASSUME TypeOK
  PROVE  /\ Designated \subseteq Identity
         /\ Held \subseteq Identity
         /\ LiveSources \subseteq Identity
         /\ MaybeSources \subseteq Identity \cup {None}
<1>1. TopLevel \subseteq Visible
  BY VisibleCells
<1>2. \A n \in TopLevel : Read(n) \in Identity \cup {None}
  BY <1>1, ReadFits DEF Fits, TopLevel
<1>3. \A p \in {"plain"} \X Plains : Read(p) \in Identity
  BY <1>1, ReadFits DEF Fits, TopLevel
<1>4. Designated \subseteq Identity
  BY <1>2 DEF Designated
<1>5. Held \subseteq Identity
  <2>1. scope \in Seq(Identity)
    BY DEF TypeOK, OwnersOK
  <2> QED BY <2>1 DEF Held
<1>6. \A o \in WithCells : DOMAIN Read(Members(o)) \subseteq Identity
  <2> SUFFICES ASSUME NEW o \in WithCells
               PROVE  DOMAIN Read(Members(o)) \subseteq Identity
    OBVIOUS
  <2>1. Fits(Members(o), Read(Members(o)))
    BY ReadFits DEF WithCells
  <2> QED BY <2>1 DEF Fits, Members, IsBag
<1>7. \A o \in WithCells : Read(Slot(o)) \in Identity \cup {None}
  <2> SUFFICES ASSUME NEW o \in WithCells
               PROVE  Read(Slot(o)) \in Identity \cup {None}
    OBVIOUS
  <2>1. Slot(o) \in Visible
    BY VisibleCells DEF WithCells, Slot, Members, OwnCells, TopLevel
  <2>2. Fits(Slot(o), Read(Slot(o)))
    BY <2>1, ReadFits
  <2> QED BY <2>2 DEF Fits, Slot
<1>8. LiveSources \subseteq Identity
  BY <1>3, <1>5, <1>6 DEF LiveSources, Identity
<1> QED BY <1>4, <1>5, <1>7, <1>8 DEF MaybeSources

\* Ending the lifetime of committed identities keeps the overlay well formed.
LEMMA TerminateTypeOK ==
  ASSUME TypeOK, active, NEW T \in SUBSET DOMAIN owners, Terminate(T),
         UNCHANGED active
  PROVE  TypeOK'
<1> DEFINE naming == {n \in Visible \ OwnCells(T) : Named(n, Read(n)) \cap T # {}}
           kept == DOMAIN writes \ OwnCells(T)
<1>1. OwnersOK' /\ StatesOK' /\ IdleOK'
  BY DEF TypeOK, OwnersOK, StatesOK, IdleOK, Terminate, Committed, Alive
<1>2. Visible' = Visible \ OwnCells(T)
  BY DEF Visible, CreatedStates, DeletedStates, OwnCells, Terminate, Committed
<1>3. writes' = [n \in naming |-> Without(n, Read(n), T)] ++ Only(writes, kept)
  BY DEF Terminate
<1>4. /\ writes' = Only(writes', DOMAIN writes')
      /\ DOMAIN writes' = naming \cup kept
      /\ \A n \in DOMAIN writes' :
           writes'[n] = IF n \in naming THEN Without(n, Read(n), T) ELSE writes[n]
  BY <1>3 DEF ++, Only
<1>5. DOMAIN writes' \subseteq Visible'
  BY <1>2, <1>4 DEF TypeOK, WritesOK
<1>6. ASSUME NEW n \in naming
      PROVE  Fits(n, Without(n, Read(n), T))
  <2>1. Fits(n, Read(n)) /\ n \in Visible /\ Named(n, Read(n)) \cap T # {}
    BY ReadFits
  <2>2. CASE n[1] = "members"
    BY <2>1, <2>2 DEF Fits, Without, Only, IsBag
  <2>3. CASE n[1] = "plain"
    <3>1. n \in {"plain"} \X Plains
      BY <2>1, <2>3, VisibleCells DEF TopLevel, OwnCells
    <3>2. Read(n) \notin T
      BY <3>1 DEF Terminate
    <3> QED BY <2>1, <2>3, <3>2 DEF Named
  <2>4. CASE n[1] \notin {"members", "plain"}
    BY <2>1, <2>4 DEF Fits, Without
  <2> QED BY <2>2, <2>3, <2>4
<1>7. WritesOK'
  BY <1>4, <1>5, <1>6 DEF TypeOK, WritesOK
<1> QED BY <1>1, <1>7 DEF TypeOK

\* Creating an identity keeps the overlay well formed: its cells appear, unwritten.
LEMMA CreateTypeOK ==
  ASSUME TypeOK, NEW o \in Identity, NEW scoped, Create(o, scoped)
  PROVE  TypeOK'
<1>1. next \in Nat /\ next' = next + 1 /\ next \notin DOMAIN owners \cup DOMAIN created
  BY DEF Create, TypeOK, OwnersOK
<1>2. /\ DOMAIN created' = {next} \cup DOMAIN created
      /\ \A x \in DOMAIN created' : created'[x] = IF x = next THEN o ELSE created[x]
      /\ created' = [x \in DOMAIN created' |-> created'[x]]
  BY DEF Create, ++
<1>3. IsOwnerMap(created', DOMAIN created')
  BY <1>2 DEF IsOwnerMap, TypeOK, OwnersOK
<1>4. DOMAIN created' \subseteq (0 .. next' - 1) \ DOMAIN owners
  BY <1>1, <1>2 DEF TypeOK, OwnersOK
<1>5. scope' \in Seq(Identity)
  <2>1. next \in Identity
    BY <1>1 DEF Identity
  <2> QED BY <2>1, SMTT(30) DEF Create, TypeOK, OwnersOK
<1>6. DOMAIN owners \subseteq 0 .. next' - 1
  BY <1>1 DEF TypeOK, OwnersOK
<1>7. OwnersOK'
  BY <1>1, <1>3, <1>4, <1>5, <1>6, SMTT(30) DEF TypeOK, OwnersOK, Create, Committed
<1>8. Visible \subseteq Visible'
  <2>1. DOMAIN CreatedStates \subseteq DOMAIN CreatedStates'
    BY <1>2 DEF CreatedStates, OwnCells
  <2> QED BY <2>1 DEF Visible, Create, Committed, DeletedStates
<1>9. StatesOK' /\ WritesOK' /\ IdleOK'
  BY <1>8 DEF TypeOK, StatesOK, WritesOK, IdleOK, Create, Committed, Alive
<1> QED BY <1>7, <1>9 DEF TypeOK

\* Rerooting changes one staged owner.
LEMMA RerootTypeOK ==
  ASSUME TypeOK, NEW d, NEW source, NEW target \in Identity, Reroot(d, source, target)
  PROVE  TypeOK'
<1>1. d \in DOMAIN owners
  BY DEF Reroot
<1>2. IsOwnerMap(updated', DOMAIN updated') /\ DOMAIN updated' \subseteq DOMAIN owners
  BY <1>1 DEF Reroot, TypeOK, OwnersOK, IsOwnerMap, ++
<1>3. Visible' = Visible
  BY DEF Visible, CreatedStates, DeletedStates, Reroot, Committed
<1> QED
  BY <1>2, <1>3 DEF TypeOK, OwnersOK, StatesOK, WritesOK, IdleOK, Reroot, Committed, Alive

\* Dropping the overlay leaves the committed store as it was.
LEMMA DiscardTypeOK ==
  ASSUME OwnersOK, Discard, next' = next,
         IsOwnerMap(owners', DOMAIN owners'), DOMAIN owners' \subseteq 0 .. next - 1,
         StatesOK'
  PROVE  TypeOK'
<1>1. <<>> \in Seq(Identity)
  OBVIOUS
<1>2. OwnersOK'
  BY <1>1 DEF Discard, OwnersOK, IsOwnerMap, Empty
<1>3. WritesOK'
  BY DEF Discard, WritesOK, Empty, Only
<1>4. IdleOK'
  BY DEF Discard, IdleOK
<1> QED BY <1>2, <1>3, <1>4 DEF TypeOK

\* What commit publishes: the cells the transaction saw, with the values it read.
LEMMA CommitStates ==
  ASSUME TypeOK, Commit
  PROVE  states' = [n \in Visible |-> Read(n)]
<1> DEFINE extended == CreatedStates ++ states
           written == Only(writes ++ extended, DOMAIN extended)
<1>1. DOMAIN extended = DOMAIN states \cup DOMAIN CreatedStates
  BY DEF ++
<1>2. states' = Only(written, DOMAIN written \ DeletedStates)
  BY DEF Commit
<1>3. DOMAIN written = DOMAIN extended /\ \A n \in DOMAIN written : written[n] = (writes ++ extended)[n]
  BY DEF Only
<1>4. DOMAIN written \ DeletedStates = Visible
  BY <1>1, <1>3 DEF Visible
<1>5. states' = [n \in Visible |-> written[n]]
  BY <1>2, <1>4 DEF Only
<1> QED BY <1>3, <1>4, <1>5 DEF Read

\* And the owners it saw.
LEMMA CommitOwners ==
  ASSUME TypeOK, Commit
  PROVE  owners' = OwnerNow
<1> DEFINE rooted == updated ++ (created ++ owners)
<1>1. DOMAIN rooted = DOMAIN owners \cup DOMAIN created
  BY DEF ++, TypeOK, OwnersOK
<1> QED BY <1>1 DEF Commit, OwnerNow, Only

\* The relation the transaction sees maps known identities to identities.
LEMMA OwnerNowTyped ==
  ASSUME TypeOK
  PROVE  /\ IsOwnerMap(OwnerNow, DOMAIN OwnerNow)
         /\ DOMAIN OwnerNow \subseteq 0 .. next - 1
<1>1. DOMAIN OwnerNow \subseteq 0 .. next - 1
  BY OwnerNowDomain DEF TypeOK, OwnersOK
<1>2. \A d \in DOMAIN OwnerNow : OwnerNow[d] \in Identity
  BY OwnerNowDomain, OwnerNowCases DEF TypeOK, OwnersOK, IsOwnerMap
<1>3. OwnerNow = [d \in DOMAIN OwnerNow |-> OwnerNow[d]]
  BY DEF OwnerNow, Only
<1> QED BY <1>1, <1>2, <1>3 DEF IsOwnerMap

\* Publishing keeps the store well formed.
LEMMA CommitTypeOK ==
  ASSUME TypeOK, Commit
  PROVE  TypeOK'
<1>1. IsOwnerMap(owners', DOMAIN owners') /\ DOMAIN owners' \subseteq 0 .. next - 1
  BY CommitOwners, OwnerNowTyped
<1>2. Alive' = AliveNow
  BY CommitOwners DEF Alive, AliveNow
<1>3. states' = Only(states', TopLevel \cup OwnCells(Alive'))
  BY <1>2, CommitStates, VisibleCells DEF Only
<1>4. \A n \in DOMAIN states' : Fits(n, states'[n])
  BY CommitStates, ReadFits
<1>5. StatesOK'
  BY <1>3, <1>4 DEF StatesOK
<1> QED BY <1>1, <1>5, DiscardTypeOK DEF Commit, TypeOK

\* The statements that stage one cell.
LEMMA StagingTypeOK ==
  ASSUME TypeOK, NEW x \in Identity \cup {None}, NEW o \in Identity
  PROVE  /\ \A d \in Plains : Assign("plain", d, x) => TypeOK'
         /\ \A d \in Maybes : Assign("maybe", d, x) => TypeOK'
         /\ AssignSlot(o, x) => TypeOK'
         /\ x # None /\ Insert(x, o) => TypeOK'
         /\ Remove(x, o) => TypeOK'
<1>1. ASSUME NEW d \in Plains, Assign("plain", d, x)
      PROVE  TypeOK'
  <2>1. <<"plain", d>> \in Visible /\ x \in Identity
    BY <1>1, VisibleCells, SourcesTyped DEF TopLevel, Assign
  <2>2. Fits(<<"plain", d>>, x)
    BY <2>1 DEF Fits
  <2> QED BY <1>1, <2>1, <2>2, StageTypeOK DEF Assign
<1>2. ASSUME NEW d \in Maybes, Assign("maybe", d, x)
      PROVE  TypeOK'
  <2>1. <<"maybe", d>> \in Visible
    BY VisibleCells DEF TopLevel
  <2>2. Fits(<<"maybe", d>>, x)
    BY DEF Fits
  <2> QED BY <1>2, <2>1, <2>2, StageTypeOK DEF Assign
<1>3. ASSUME AssignSlot(o, x)
      PROVE  TypeOK'
  <2>1. Slot(o) \in Visible /\ Fits(Slot(o), x)
    BY <1>3 DEF AssignSlot, Fits, Slot
  <2> QED BY <1>3, <2>1, StageTypeOK DEF AssignSlot
<1>4. ASSUME x # None, Insert(x, o)
      PROVE  TypeOK'
  <2> DEFINE m == Read(Members(o))
             copies == IF x \in DOMAIN m THEN m[x] ELSE 0
             more == [y \in {x} |-> copies + 1] ++ m
  <2>1. Members(o) \in Visible
    BY <1>4 DEF Insert, WithCells
  <2>2. m = Only(m, DOMAIN m) /\ IsBag(m)
    BY <2>1, ReadFits DEF Fits, Members
  <2>3. copies \in Nat
    BY <2>2 DEF IsBag
  <2>4. /\ DOMAIN more = {x} \cup DOMAIN m
        /\ \A y \in DOMAIN more : more[y] = IF y = x THEN copies + 1 ELSE m[y]
        /\ more = Only(more, DOMAIN more)
    BY DEF ++, Only
  <2>5. IsBag(more)
    BY <1>4, <2>2, <2>3, <2>4 DEF IsBag
  <2>6. Fits(Members(o), more)
    BY <2>4, <2>5 DEF Fits, Members
  <2>7. Stage(Members(o), more)
    BY <1>4 DEF Insert
  <2> QED BY <1>4, <2>1, <2>6, <2>7, StageTypeOK DEF Insert
<1>5. ASSUME Remove(x, o)
      PROVE  TypeOK'
  <2> DEFINE m == Read(Members(o))
             less == IF m[x] = 1 THEN Only(m, DOMAIN m \ {x}) ELSE [m EXCEPT ![x] = @ - 1]
  <2>1. Members(o) \in Visible /\ x \in DOMAIN m /\ Stage(Members(o), less)
    BY <1>5 DEF Remove, WithCells
  <2>2. m = Only(m, DOMAIN m) /\ IsBag(m)
    BY <2>1, ReadFits DEF Fits, Members
  <2>3. CASE m[x] = 1
    <3>1. less = Only(m, DOMAIN m \ {x})
      BY <2>3
    <3> HIDE DEF less
    <3>2. less = Only(less, DOMAIN less) /\ IsBag(less)
      BY <2>2, <3>1 DEF Only, IsBag
    <3>3. Fits(Members(o), less)
      BY <3>2 DEF Fits, Members
    <3> QED BY <1>5, <2>1, <3>3, StageTypeOK DEF Remove
  <2>4. CASE m[x] # 1
    <3>1. less = [y \in DOMAIN m |-> IF y = x THEN m[x] - 1 ELSE m[y]]
      BY <2>1, <2>2, <2>4 DEF Only
    <3>2. m[x] - 1 \in Nat \ {0}
      BY <2>1, <2>2, <2>4 DEF IsBag
    <3> HIDE DEF less
    <3>3. less = Only(less, DOMAIN less)
      BY <3>1 DEF Only
    <3>4. IsBag(less)
      BY <2>2, <3>1, <3>2 DEF IsBag
    <3>5. Fits(Members(o), less)
      BY <3>3, <3>4 DEF Fits, Members
    <3> QED BY <1>5, <2>1, <3>5, StageTypeOK DEF Remove
  <2> QED BY <2>3, <2>4
<1> QED BY <1>1, <1>2, <1>3, <1>4, <1>5

\* The steps that stage nothing: the bracket of the transaction and its scope bodies.
LEMMA BracketTypeOK ==
  ASSUME TypeOK
  PROVE  /\ RunAction => TypeOK'
         /\ LeaveScope => TypeOK'
         /\ Fail => TypeOK'
         /\ \A v \in Identity : EnterScope(v) => TypeOK'
         /\ UNCHANGED vars => TypeOK'
<1> USE DEF TypeOK, OwnersOK, StatesOK, WritesOK, IdleOK, Alive, Visible, CreatedStates,
            DeletedStates, Committed, overlay
<1>1. RunAction => TypeOK'
  BY DEF RunAction
<1>2. ASSUME LeaveScope
      PROVE  TypeOK'
  <2>1. scope' \in Seq(Identity)
    BY <1>2 DEF LeaveScope
  <2> QED BY <1>2, <2>1 DEF LeaveScope
<1>3. Fail => TypeOK'
  BY DiscardTypeOK DEF Fail
<1>4. ASSUME NEW v \in Identity, EnterScope(v)
      PROVE  TypeOK'
  <2>1. scope' \in Seq(Identity)
    BY <1>4 DEF EnterScope
  <2> QED BY <1>4, <2>1 DEF EnterScope
<1>5. UNCHANGED vars => TypeOK'
  BY DEF vars
<1> QED BY <1>1, <1>2, <1>3, <1>4, <1>5

\* The operands of Next are identities.
LEMMA KnownTyped == Known \subseteq Identity
BY RootsAssumption DEF Known, Identity

\* A program starts with a well-formed store and no overlay.
LEMMA InitTypeOK == Init => TypeOK
<1> SUFFICES ASSUME Init
             PROVE  TypeOK
  OBVIOUS
<1>1. OwnersOK
  <2>1. Empty \in [{} -> Identity] /\ DOMAIN Empty = {}
    BY DEF Empty
  <2>2. <<>> \in Seq(Identity)
    OBVIOUS
  <2> QED BY <2>1, <2>2 DEF Init, OwnersOK, IsOwnerMap
<1>2. PICK r \in Roots :
        states = [n \in TopLevel \cup OwnCells(Roots) |->
                    CASE n[1] = "plain" -> r
                      [] n[1] = "members" -> Empty
                      [] OTHER -> None]
  BY DEF Init
<1>3. Alive = Roots
  BY DEF Init, Alive, Empty
<1>4. ASSUME NEW n \in TopLevel \cup OwnCells(Roots)
      PROVE  Fits(n, states[n])
  <2>1. CASE n[1] = "plain"
    <3>1. states[n] = r
      BY <1>2, <2>1
    <3> QED BY <2>1, <3>1 DEF Fits, Identity
  <2>2. CASE n[1] = "members"
    <3>1. states[n] = Empty
      BY <1>2, <2>2
    <3>2. Empty = Only(Empty, DOMAIN Empty) /\ IsBag(Empty)
      BY DEF Empty, Only, IsBag
    <3> QED BY <2>2, <3>1, <3>2 DEF Fits
  <2>3. CASE n[1] \notin {"plain", "members"}
    <3>1. states[n] = None
      BY <1>2, <2>3
    <3> QED BY <2>3, <3>1 DEF Fits
  <2> QED BY <2>1, <2>2, <2>3
<1>5. StatesOK
  BY <1>2, <1>3, <1>4 DEF StatesOK, Only
<1>6. WritesOK /\ IdleOK
  BY DEF Init, WritesOK, IdleOK, Empty, Only
<1> QED BY <1>1, <1>5, <1>6 DEF TypeOK

\* Every step of runtime.rs keeps the store and the overlay well formed.
LEMMA NextTypeOK == TypeOK /\ [Next]_vars => TypeOK'
<1> SUFFICES ASSUME TypeOK, [Next]_vars
             PROVE  TypeOK'
  OBVIOUS
<1>1. CASE RunAction \/ LeaveScope \/ Fail \/ UNCHANGED vars
  BY <1>1, BracketTypeOK
<1>2. CASE Commit
  BY <1>2, CommitTypeOK
<1>3. ASSUME NEW d, NEW v \in Known \cup {None},
             (d \in Plains /\ Assign("plain", d, v)) \/ (d \in Maybes /\ Assign("maybe", d, v))
      PROVE  TypeOK'
  <2>1. v \in Identity \cup {None} /\ \E r : r \in Identity
    BY RootsAssumption, KnownTyped DEF Identity
  <2> QED BY <1>3, <2>1, StagingTypeOK
<1>4. ASSUME NEW x \in Known, NEW o \in Known, Insert(x, o) \/ Remove(x, o) \/ AssignSlot(o, x)
      PROVE  TypeOK'
  <2>1. x \in Identity /\ o \in Identity /\ x # None
    BY RootsAssumption, KnownTyped DEF Identity
  <2> QED BY <1>4, <2>1, StagingTypeOK
<1>5. ASSUME NEW x \in Known, NEW o \in Known, Destroy(x, o)
      PROVE  TypeOK'
  <2>1. Terminate({x}) /\ {x} \in SUBSET DOMAIN owners /\ active /\ UNCHANGED active
    BY <1>5 DEF Destroy, Terminate
  <2> QED BY <2>1, TerminateTypeOK
<1>6. ASSUME NEW x \in Known, NEW o \in Known, Purge(x, o)
      PROVE  TypeOK'
  <2>1. Terminate(Subtree(OwnerNow, x)) /\ active /\ UNCHANGED active
    BY <1>6 DEF Purge, Terminate
  <2>2. Subtree(OwnerNow, x) \in SUBSET DOMAIN owners
    BY <1>6, OwnerNowDomain DEF Purge, Subtree
  <2> QED BY <2>1, <2>2, TerminateTypeOK
<1>7. ASSUME NEW o \in Known,
             AssignSlot(o, None) \/ EnterScope(o) \/ Create(o, TRUE) \/ Create(o, FALSE)
      PROVE  TypeOK'
  <2>1. o \in Identity
    BY KnownTyped
  <2> QED BY <1>7, <2>1, StagingTypeOK, BracketTypeOK, CreateTypeOK
<1>8. ASSUME NEW d \in Known, NEW source \in Known, NEW target \in Known,
             Reroot(d, source, target)
      PROVE  TypeOK'
  BY <1>8, KnownTyped, RerootTypeOK
<1> QED BY <1>1, <1>2, <1>3, <1>4, <1>5, <1>6, <1>7, <1>8 DEF Next

\* The store and the overlay are well formed in every state of every run: the
\* induction that the rest of the argument about runtime.rs stands on.
THEOREM TypeCorrect == Spec => []TypeOK
BY InitTypeOK, NextTypeOK, PTL DEF Spec
-----------------------------------------------------------------------------
(* What each kind of step does to what the transaction sees.               *)

\* Nothing that decides visibility or ownership changed.
LEMMA SameView ==
  ASSUME UNCHANGED <<Committed, created, updated, terminated>>
  PROVE  Visible' = Visible /\ OwnerNow' = OwnerNow /\ AliveNow' = AliveNow
BY DEF Visible, CreatedStates, DeletedStates, OwnerNow, AliveNow, Committed

\* One staged write changes one value.
LEMMA StageView ==
  ASSUME TypeOK, NEW n \in Visible, NEW v, Stage(n, v),
         UNCHANGED <<Committed, created, updated, terminated>>
  PROVE  \A m \in Visible : Read(m)' = IF m = n THEN v ELSE Read(m)
<1>1. /\ DOMAIN writes' = {n} \cup DOMAIN writes
      /\ \A m \in DOMAIN writes' : writes'[m] = IF m = n THEN v ELSE writes[m]
  BY DEF Stage, ++
<1>2. CreatedStates' = CreatedStates /\ states' = states
  BY DEF CreatedStates, Committed
<1> QED BY <1>1, <1>2 DEF Read, ++, Visible

\* A new identity appears, rooted in o, with cells that name nothing.
LEMMA CreateView ==
  ASSUME TypeOK, NEW o \in Identity, NEW scoped, Create(o, scoped)
  PROVE  /\ next \notin AliveNow
         /\ DOMAIN OwnerNow' = DOMAIN OwnerNow \cup {next}
         /\ OwnerNow'[next] = o
         /\ \A d \in DOMAIN OwnerNow : OwnerNow'[d] = OwnerNow[d]
         /\ AliveNow' = AliveNow \cup {next}
         /\ Visible \subseteq Visible'
         /\ \A n \in Visible' \ Visible : Named(n, Read(n)') = {}
         /\ \A n \in Visible : Read(n)' = Read(n)
<1>1. next \in Nat /\ next \notin DOMAIN owners \cup DOMAIN created
  BY DEF TypeOK, OwnersOK
<1>2. /\ DOMAIN created' = {next} \cup DOMAIN created
      /\ \A x \in DOMAIN created' : created'[x] = IF x = next THEN o ELSE created[x]
  BY DEF Create, ++
<1>3. UNCHANGED <<states, owners, writes, updated, terminated>>
  BY DEF Create, Committed
<1>4. next \notin terminated /\ next \notin DOMAIN updated
  BY <1>1 DEF TypeOK, OwnersOK
<1>5. DOMAIN OwnerNow' = DOMAIN OwnerNow \cup {next}
  BY <1>2, <1>3, <1>4 DEF OwnerNow, Only
<1>6. \A d \in DOMAIN OwnerNow' :
        OwnerNow'[d] = IF d \in DOMAIN updated THEN updated[d]
                       ELSE IF d \in DOMAIN created' THEN created'[d] ELSE owners[d]
  BY <1>3 DEF OwnerNow, Only, ++
<1>7. next \notin AliveNow
  BY <1>1, RootsAssumption, OwnerNowDomain DEF AliveNow
<1>8. OwnerNow'[next] = o
  BY <1>2, <1>4, <1>5, <1>6
<1>9. \A d \in DOMAIN OwnerNow : OwnerNow'[d] = OwnerNow[d]
  BY <1>2, <1>5, <1>6, <1>7, OwnerNowCases DEF AliveNow
<1>10. AliveNow' = AliveNow \cup {next}
  BY <1>5 DEF AliveNow
<1>11. DOMAIN CreatedStates' = DOMAIN CreatedStates \cup OwnCells({next})
  BY <1>2 DEF CreatedStates, OwnCells
<1>12. DeletedStates' = DeletedStates
  BY <1>3 DEF DeletedStates
<1>13. Visible \subseteq Visible' /\ Visible' \ Visible \subseteq OwnCells({next})
  BY <1>3, <1>11, <1>12 DEF Visible
<1>14. \A n \in DOMAIN CreatedStates' :
         CreatedStates'[n] = IF n[1] = "slot" THEN None ELSE Empty
  BY DEF CreatedStates
<1>15. \A n \in DOMAIN CreatedStates : CreatedStates'[n] = CreatedStates[n]
  BY <1>11, <1>14 DEF CreatedStates
<1>16. OwnCells({next}) \cap Visible = {}
  BY <1>7, VisibleCells DEF OwnCells, TopLevel
<1>17. ASSUME NEW n \in Visible
       PROVE  Read(n)' = Read(n)
  <2>1. n \in DOMAIN CreatedStates' <=> n \in DOMAIN CreatedStates
    BY <1>11, <1>16
  <2> QED BY <2>1, <1>3, <1>15 DEF Read, ++, Visible
<1>18. ASSUME NEW n \in Visible' \ Visible
       PROVE  Named(n, Read(n)') = {}
  <2>1. n \in OwnCells({next})
    BY <1>13
  <2>2. n \notin DOMAIN writes /\ n \in DOMAIN CreatedStates'
    BY <2>1, <1>11, <1>16 DEF TypeOK, WritesOK
  <2>3. Read(n)' = CreatedStates'[n]
    BY <2>2, <1>3 DEF Read, ++
  <2>4. n[1] \in {"slot", "members"}
    BY <2>1 DEF OwnCells
  <2>5. DOMAIN Empty = {}
    BY DEF Empty
  <2> QED BY <2>2, <2>3, <2>4, <2>5, <1>14 DEF Named
<1> QED BY <1>5, <1>7, <1>8, <1>9, <1>10, <1>13, <1>17, <1>18

\* Terminated identities leave with their cells, and no cell names them any more.
LEMMA TerminateView ==
  ASSUME TypeOK, NEW T \in SUBSET DOMAIN owners, Terminate(T)
  PROVE  /\ OwnerNow' = Only(OwnerNow, DOMAIN OwnerNow \ T)
         /\ AliveNow' = AliveNow \ T
         /\ Visible' = Visible \ OwnCells(T)
         /\ \A n \in Visible' :
              \/ Read(n)' = Read(n) /\ Named(n, Read(n)) \cap T = {}
              \/ /\ Read(n)' = Without(n, Read(n), T)
                 /\ Named(n, Read(n)) \cap T # {}
<1> DEFINE naming == {n \in Visible \ OwnCells(T) : Named(n, Read(n)) \cap T # {}}
           kept == DOMAIN writes \ OwnCells(T)
<1>1. UNCHANGED <<states, owners, created, updated>> /\ terminated' = terminated \cup T
  BY DEF Terminate, Committed
<1>2. OwnerNow' = Only(OwnerNow, DOMAIN OwnerNow \ T)
  BY <1>1 DEF OwnerNow, Only
<1>3. AliveNow' = AliveNow \ T
  <2>1. Roots \cap T = {}
    BY RootsAssumption DEF TypeOK, OwnersOK
  <2> QED BY <1>2, <2>1 DEF AliveNow, Only
<1>4. Visible' = Visible \ OwnCells(T)
  BY <1>1 DEF Visible, CreatedStates, DeletedStates, OwnCells
<1>5. writes' = [n \in naming |-> Without(n, Read(n), T)] ++ Only(writes, kept)
  BY DEF Terminate
<1>6. /\ DOMAIN writes' = naming \cup kept
      /\ \A n \in DOMAIN writes' :
           writes'[n] = IF n \in naming THEN Without(n, Read(n), T) ELSE writes[n]
  BY <1>5 DEF ++, Only
<1>7. CreatedStates' = CreatedStates
  BY <1>1 DEF CreatedStates
<1>8. ASSUME NEW n \in Visible'
      PROVE  \/ Read(n)' = Read(n) /\ n \notin naming
             \/ Read(n)' = Without(n, Read(n), T) /\ n \in naming
  <2>1. n \in kept <=> n \in DOMAIN writes
    BY <1>4
  <2>2. CASE n \in naming
    BY <2>2, <1>6 DEF Read, ++
  <2>3. CASE n \notin naming
    BY <2>1, <2>3, <1>1, <1>4, <1>6, <1>7 DEF Read, ++, Visible
  <2> QED BY <2>2, <2>3
<1> QED BY <1>2, <1>3, <1>4, <1>8

\* Without an overlay the transaction's view is the committed world.
LEMMA IdleView ==
  ASSUME TypeOK, writes = Empty, created = Empty, updated = Empty, terminated = {}
  PROVE  /\ OwnerNow = owners /\ AliveNow = Alive
         /\ Visible = DOMAIN states
         /\ \A n \in Visible : Read(n) = states[n]
<1>1. DOMAIN Empty = {}
  BY DEF Empty
<1>2. owners = [d \in DOMAIN owners |-> owners[d]]
  BY DEF TypeOK, OwnersOK, IsOwnerMap
<1>3. DOMAIN OwnerNow = DOMAIN owners
  BY <1>1, OwnerNowDomain
<1>4. \A d \in DOMAIN OwnerNow : OwnerNow[d] = owners[d]
  BY <1>1, OwnerNowCases
<1>5. OwnerNow = owners
  BY <1>2, <1>3, <1>4 DEF OwnerNow, Only
<1>6. DOMAIN CreatedStates = {} /\ DeletedStates = {}
  BY <1>1 DEF CreatedStates, DeletedStates, OwnCells
<1>7. Visible = DOMAIN states
  BY <1>6 DEF Visible
<1>8. \A n \in Visible : Read(n) = states[n]
  BY <1>1, <1>6, <1>7, ReadCases
<1> QED BY <1>5, <1>7, <1>8 DEF AliveNow, Alive
-----------------------------------------------------------------------------
(* The invariants.                                                         *)

\* What the actions that end lifetimes establish about the identities they end.
LEMMA Ended ==
  ASSUME TypeOK, NEW x, NEW o,
         Destroy(x, o) \/ Purge(x, o)
  PROVE  \E T \in SUBSET DOMAIN owners :
           /\ Terminate(T)
           /\ active
           /\ T \cap DOMAIN created = {}
           /\ T \subseteq DOMAIN OwnerNow
           /\ \A d \in DOMAIN OwnerNow \ T : OwnerNow[d] \notin T
<1>0. DOMAIN created \cap DOMAIN owners = {}
  BY DEF TypeOK, OwnersOK
<1>1. CASE Destroy(x, o)
  <2>1. Terminate({x}) /\ {x} \in SUBSET DOMAIN owners /\ active
    BY <1>1 DEF Destroy
  <2>2. x \in DOMAIN OwnerNow /\ \A d \in DOMAIN OwnerNow : OwnerNow[d] # x
    BY <1>1, OwnerNowDomain DEF Destroy
  <2> QED BY <1>0, <2>1, <2>2
<1>2. CASE Purge(x, o)
  <2> DEFINE T == Subtree(OwnerNow, x)
  <2>1. Terminate(T) /\ active
    BY <1>2 DEF Purge
  <2>2. T \subseteq DOMAIN OwnerNow
    BY DEF Subtree
  <2>3. T \cap DOMAIN created = {}
    BY <1>2 DEF Purge, Subtree
  <2>4. T \in SUBSET DOMAIN owners
    BY <2>2, <2>3, OwnerNowDomain
  <2>5. ASSUME NEW d \in DOMAIN OwnerNow, OwnerNow[d] \in T
        PROVE  d \in T
    <3>1. OwnerNow[d] \in DOMAIN OwnerNow /\ Reaches(OwnerNow, OwnerNow[d], x)
      BY <2>5 DEF Subtree
    <3>2. Reaches(OwnerNow, d, x)
      BY <3>1, ReachesFromOwner
    <3> QED BY <3>2 DEF Subtree
  <2> HIDE DEF T
  <2> QED BY <2>1, <2>2, <2>3, <2>4, <2>5
<1> QED BY <1>1, <1>2

\* The steps that change neither the committed world nor ownership.
Local == \/ RunAction \/ LeaveScope
         \/ \E d, v : Assign("plain", d, v) \/ Assign("maybe", d, v)
         \/ \E x, o : Insert(x, o) \/ Remove(x, o) \/ AssignSlot(o, x)
         \/ \E v : EnterScope(v)

\* A local step changes nothing that decides existence or ownership.
LEMMA LocalView ==
  ASSUME Local \/ UNCHANGED vars
  PROVE  UNCHANGED <<Committed, created, updated, terminated, next>>
BY DEF Local, RunAction, LeaveScope, Assign, Insert, Remove, AssignSlot, EnterScope,
       vars, overlay, Committed

\* Every step is local, creates, reroots, ends lifetimes, drops the overlay or publishes it.
LEMMA StepCases ==
  ASSUME [Next]_vars
  PROVE  \/ Local \/ UNCHANGED vars
         \/ \E o \in Identity, scoped \in BOOLEAN : Create(o, scoped)
         \/ \E d \in Identity, source \in Identity, target \in Identity : Reroot(d, source, target)
         \/ \E x, o : Destroy(x, o) \/ Purge(x, o)
         \/ Fail
         \/ Commit
BY KnownTyped DEF Next, Local

\* After the bracket closes, the view is what is committed.
LEMMA DiscardView ==
  ASSUME TypeOK', Discard
  PROVE  /\ OwnerNow' = owners' /\ AliveNow' = Alive'
         /\ Visible' = DOMAIN states'
         /\ \A n \in Visible' : Read(n)' = states'[n]
<1>1. (TypeOK /\ writes = Empty /\ created = Empty /\ updated = Empty /\ terminated = {}
       => /\ OwnerNow = owners /\ AliveNow = Alive
          /\ Visible = DOMAIN states
          /\ \A n \in Visible : Read(n) = states[n])'
  BY IdleView, PTL
<1> QED BY <1>1 DEF Discard

\* A program starts with no dynamic identity.
LEMMA InitProvenance == Init => ProvenanceSound
<1> SUFFICES ASSUME Init
             PROVE  ProvenanceSound
  OBVIOUS
<1>1. DOMAIN Empty = {}
  BY DEF Empty
<1>2. DOMAIN owners = {} /\ DOMAIN OwnerNow = {}
  BY <1>1, OwnerNowDomain DEF Init
<1> QED BY <1>2 DEF ProvenanceSound, OwnersLive, Acyclic

\* Every step keeps owners alive and the relation acyclic: one case per kind of step.
LEMMA NextProvenance ==
  TypeOK /\ TypeOK' /\ ProvenanceSound /\ [Next]_vars => ProvenanceSound'
<1> SUFFICES ASSUME TypeOK, TypeOK', ProvenanceSound, [Next]_vars
             PROVE  ProvenanceSound'
  OBVIOUS
<1>1. CASE Local \/ UNCHANGED vars
  BY <1>1, LocalView, SameView DEF ProvenanceSound, Committed
<1>2. ASSUME NEW o \in Identity, NEW scoped, Create(o, scoped)
      PROVE  ProvenanceSound'
  <2>1. owners' = owners
    BY <1>2 DEF Create, Committed
  <2>2. o \in AliveNow
    BY <1>2, OwnerNowDomain DEF Create, Exists, AliveNow
  <2>3. /\ next \notin Roots \cup DOMAIN OwnerNow
        /\ DOMAIN OwnerNow' = DOMAIN OwnerNow \cup {next} /\ OwnerNow'[next] = o
        /\ \A d \in DOMAIN OwnerNow : OwnerNow'[d] = OwnerNow[d]
    BY <1>2, CreateView DEF AliveNow
  <2>4. Acyclic(OwnerNow')
    BY <2>2, <2>3, AddAcyclic DEF ProvenanceSound, AliveNow
  <2>5. OwnersLive(OwnerNow', Roots)
    BY <2>2, <2>3 DEF ProvenanceSound, OwnersLive, AliveNow
  <2> QED BY <2>1, <2>4, <2>5 DEF ProvenanceSound
<1>3. ASSUME NEW d \in Identity, NEW source \in Identity, NEW target \in Identity,
             Reroot(d, source, target)
      PROVE  ProvenanceSound'
  <2>1. UNCHANGED <<Committed, created, terminated>>
    BY <1>3 DEF Reroot
  <2>2. d \in DOMAIN OwnerNow /\ ~Reaches(OwnerNow, target, d)
    BY <1>3, OwnerNowDomain DEF Reroot
  <2>3. target \in AliveNow
    BY <1>3, OwnerNowDomain DEF Reroot, Exists, AliveNow
  <2>4. CASE source = target
    BY <1>3, <2>1, <2>4, SameView DEF Reroot, ProvenanceSound, Committed
  <2>5. CASE source # target
    <3>1. /\ DOMAIN updated' = {d} \cup DOMAIN updated
          /\ \A x \in DOMAIN updated' : updated'[x] = IF x = d THEN target ELSE updated[x]
      BY <1>3, <2>5 DEF Reroot, ++
    <3>2. DOMAIN OwnerNow' = DOMAIN OwnerNow
      BY <2>1 DEF OwnerNow, Only, Committed
    <3>3. \A x \in DOMAIN OwnerNow' :
            OwnerNow'[x] = IF x \in DOMAIN updated' THEN updated'[x]
                           ELSE IF x \in DOMAIN created THEN created[x] ELSE owners[x]
      BY <2>1 DEF OwnerNow, Only, ++, Committed
    <3>4. OwnerNow'[d] = target /\ \A x \in DOMAIN OwnerNow \ {d} : OwnerNow'[x] = OwnerNow[x]
      BY <2>2, <3>1, <3>2, <3>3, OwnerNowCases
    <3>5. Acyclic(OwnerNow')
      BY <2>2, <3>2, <3>4, RerootAcyclic DEF ProvenanceSound
    <3>6. OwnersLive(OwnerNow', Roots)
      BY <2>3, <3>2, <3>4 DEF ProvenanceSound, OwnersLive, AliveNow
    <3> QED BY <2>1, <3>5, <3>6 DEF ProvenanceSound, Committed
  <2> QED BY <2>4, <2>5
<1>4. ASSUME NEW x, NEW o, Destroy(x, o) \/ Purge(x, o)
      PROVE  ProvenanceSound'
  <2>1. PICK T \in SUBSET DOMAIN owners :
           Terminate(T) /\ \A d \in DOMAIN OwnerNow \ T : OwnerNow[d] \notin T
    BY <1>4, Ended
  <2>2. OwnerNow' = Only(OwnerNow, DOMAIN OwnerNow \ T)
    BY <2>1, TerminateView
  <2>3. owners' = owners
    BY <2>1 DEF Terminate, Committed
  <2> QED BY <2>1, <2>2, <2>3, RemoveAcyclic, RemoveOwnersLive DEF ProvenanceSound
<1>5. CASE Fail
  <2>1. OwnerNow' = owners' /\ owners' = owners
    BY <1>5, DiscardView DEF Fail
  <2> QED BY <2>1 DEF ProvenanceSound
<1>6. CASE Commit
  <2>1. OwnerNow' = owners' /\ owners' = OwnerNow
    BY <1>6, DiscardView, CommitOwners DEF Commit
  <2> QED BY <2>1 DEF ProvenanceSound
<1> QED BY <1>1, <1>2, <1>3, <1>4, <1>5, <1>6, StepCases

\* Provenance stays a forest rooted in live owners, in the committed world and in the
\* staged one, whatever create, reroot, destroy and purge do and in whatever order:
\* the two walks of runtime.rs and the children test of destroy are enough.
THEOREM ProvenanceAlwaysSound == Spec => []ProvenanceSound
BY TypeCorrect, InitProvenance, NextProvenance, PTL DEF Spec

\* A program starts with empty memberships.
LEMMA InitMembership == Init => MembershipLive
<1> SUFFICES ASSUME Init
             PROVE  MembershipLive
  OBVIOUS
<1>1. \A n \in DOMAIN states : n[1] = "members" => Named(n, states[n]) = {}
  BY DEF Init, Named, Empty
<1>2. TypeOK
  BY InitTypeOK
<1>3. Visible = DOMAIN states /\ \A n \in Visible : Read(n) = states[n]
  BY <1>2, IdleView DEF Init
<1> QED BY <1>1, <1>3 DEF MembershipLive

\* Every step keeps memberships live: one case per kind of step.
LEMMA NextMembership ==
  TypeOK /\ TypeOK' /\ MembershipLive /\ [Next]_vars => MembershipLive'
<1> SUFFICES ASSUME TypeOK, TypeOK', MembershipLive, [Next]_vars
             PROVE  MembershipLive'
  OBVIOUS
<1> DEFINE MembersOf(n) == n[1] = "members" => Named(n, Read(n)) \subseteq AliveNow
<1>0. \A n \in Visible : MembersOf(n)
  BY DEF MembershipLive
<1>a. ASSUME UNCHANGED Committed, \A n \in Visible' : MembersOf(n)'
      PROVE  MembershipLive'
  BY <1>a DEF MembershipLive, Alive, Committed
<1>b. ASSUME UNCHANGED <<Committed, created, updated, terminated>>,
             NEW n \in Visible, NEW v, Stage(n, v),
             n[1] = "members" => Named(n, v) \subseteq AliveNow
      PROVE  MembershipLive'
  <2>1. Visible' = Visible /\ AliveNow' = AliveNow /\ UNCHANGED Committed
    BY <1>b, SameView
  <2>2. \A m \in Visible : Read(m)' = IF m = n THEN v ELSE Read(m)
    BY <1>b, StageView
  <2>3. \A m \in Visible' : MembersOf(m)'
    BY <1>b, <1>0, <2>1, <2>2
  <2> QED BY <1>a, <2>1, <2>3
<1>1. CASE RunAction \/ LeaveScope \/ UNCHANGED vars \/ \E v : EnterScope(v)
  <2>1. UNCHANGED <<Committed, created, updated, terminated, writes>>
    BY <1>1 DEF RunAction, LeaveScope, EnterScope, vars, overlay, Committed
  <2>2. Visible' = Visible /\ AliveNow' = AliveNow
    BY <2>1, SameView
  <2>3. \A n : Read(n)' = Read(n)
    BY <2>1 DEF Read, CreatedStates, Committed
  <2> QED BY <1>0, <1>a, <2>1, <2>2, <2>3
<1>2. ASSUME NEW d, NEW v,
             (d \in Plains /\ Assign("plain", d, v)) \/ (d \in Maybes /\ Assign("maybe", d, v))
      PROVE  MembershipLive'
  <2>1. <<"plain", d>> \in Visible \/ d \notin Plains
    BY VisibleCells DEF TopLevel
  <2>2. <<"maybe", d>> \in Visible \/ d \notin Maybes
    BY VisibleCells DEF TopLevel
  <2>3. CASE d \in Plains /\ Assign("plain", d, v)
    BY <1>b, <2>1, <2>3 DEF Assign
  <2>4. CASE d \in Maybes /\ Assign("maybe", d, v)
    BY <1>b, <2>2, <2>4 DEF Assign
  <2> QED BY <1>2, <2>3, <2>4
<1>3. ASSUME NEW x, NEW o, AssignSlot(o, x)
      PROVE  MembershipLive'
  BY <1>b, <1>3 DEF AssignSlot, Slot
<1>4. ASSUME NEW x, NEW o, Insert(x, o)
      PROVE  MembershipLive'
  <2> DEFINE m == Read(Members(o))
             more == [y \in {x} |-> (IF x \in DOMAIN m THEN m[x] ELSE 0) + 1] ++ m
  <2>1. Members(o) \in Visible /\ Stage(Members(o), more)
    BY <1>4 DEF Insert, WithCells
  <2>2. x \in AliveNow
    BY <1>4, OwnerNowDomain DEF Insert, Exists, AliveNow
  <2>3. Named(Members(o), more) = {x} \cup DOMAIN m
    BY DEF Named, Members, ++
  <2>4. DOMAIN m \subseteq AliveNow
    BY <1>0, <2>1 DEF Named, Members
  <2> QED BY <1>4, <1>b, <2>1, <2>2, <2>3, <2>4 DEF Insert
<1>5. ASSUME NEW x, NEW o, Remove(x, o)
      PROVE  MembershipLive'
  <2> DEFINE m == Read(Members(o))
             less == IF m[x] = 1 THEN Only(m, DOMAIN m \ {x}) ELSE [m EXCEPT ![x] = @ - 1]
  <2>1. Members(o) \in Visible /\ Stage(Members(o), less)
    BY <1>5 DEF Remove, WithCells
  <2>2. Named(Members(o), less) \subseteq DOMAIN m
    BY DEF Named, Members, Only
  <2>3. DOMAIN m \subseteq AliveNow
    BY <1>0, <2>1 DEF Named, Members
  <2> QED BY <1>5, <1>b, <2>1, <2>2, <2>3 DEF Remove
<1>6. ASSUME NEW o \in Identity, NEW scoped, Create(o, scoped)
      PROVE  MembershipLive'
  <2>1. /\ AliveNow \subseteq AliveNow'
        /\ \A n \in Visible' \ Visible : Named(n, Read(n)') = {}
        /\ \A n \in Visible : Read(n)' = Read(n)
    BY <1>6, CreateView
  <2>2. UNCHANGED Committed
    BY <1>6 DEF Create
  <2> QED BY <1>0, <1>a, <2>1, <2>2
<1>7. ASSUME NEW d, NEW source, NEW target, Reroot(d, source, target)
      PROVE  MembershipLive'
  <2>1. UNCHANGED <<Committed, created, terminated, writes>>
    BY <1>7 DEF Reroot
  <2>2. Visible' = Visible /\ AliveNow' = AliveNow
    BY <2>1 DEF Visible, CreatedStates, DeletedStates, AliveNow, OwnerNow, Only, Committed
  <2>3. \A n : Read(n)' = Read(n)
    BY <2>1 DEF Read, CreatedStates, Committed
  <2> QED BY <1>0, <1>a, <2>1, <2>2, <2>3
<1>8. ASSUME NEW x, NEW o, Destroy(x, o) \/ Purge(x, o)
      PROVE  MembershipLive'
  <2>1. PICK T \in SUBSET DOMAIN owners : Terminate(T)
    BY <1>8, Ended
  <2>2. AliveNow' = AliveNow \ T /\ Visible' \subseteq Visible
    BY <2>1, TerminateView
  <2>3. ASSUME NEW n \in Visible', n[1] = "members"
        PROVE  Named(n, Read(n)') \subseteq AliveNow \ T
    <3>1. \/ Read(n)' = Read(n) /\ Named(n, Read(n)) \cap T = {}
          \/ Read(n)' = Without(n, Read(n), T)
      BY <2>1, TerminateView
    <3>2. Named(n, Read(n)) \subseteq AliveNow
      BY <1>0, <2>2, <2>3
    <3>3. Named(n, Without(n, Read(n), T)) = Named(n, Read(n)) \ T
      BY <2>3 DEF Named, Without, Only
    <3> QED BY <3>1, <3>2, <3>3
  <2>4. UNCHANGED Committed
    BY <2>1 DEF Terminate
  <2> QED BY <1>a, <2>2, <2>3, <2>4
<1>9. CASE Fail
  <2>1. /\ AliveNow' = Alive' /\ Visible' = DOMAIN states'
        /\ \A n \in Visible' : Read(n)' = states'[n]
    BY <1>9, DiscardView DEF Fail
  <2>2. states' = states /\ Alive' = Alive
    BY <1>9 DEF Fail, Alive
  <2> QED BY <2>1, <2>2 DEF MembershipLive
<1>10. CASE Commit
  <2>1. /\ AliveNow' = Alive' /\ Visible' = DOMAIN states'
        /\ \A n \in Visible' : Read(n)' = states'[n]
    BY <1>10, DiscardView DEF Commit
  <2>2. states' = [n \in Visible |-> Read(n)] /\ Alive' = AliveNow
    BY <1>10, CommitStates, CommitOwners DEF Alive, AliveNow
  <2> QED BY <2>1, <2>2 DEF MembershipLive
<1> QED
  BY <1>1, <1>2, <1>3, <1>4, <1>5, <1>6, <1>7, <1>8, <1>9, <1>10, KnownTyped DEF Next

\* No membership, committed or staged, ever names an identity whose lifetime ended:
\* terminate_runtime_model reaches every sequence the transaction can see.
THEOREM MembershipsLive == Spec => []MembershipLive
BY TypeCorrect, InitMembership, NextMembership, PTL DEF Spec

\* An identity handed out and not alive stays handed out and is never alive again:
\* only create adds one, and it adds the counter's value, which every identity handed
\* out is below; no step takes the counter back.
THEOREM NoResurrection == Spec => DeadStayDead
<1> DEFINE Dead == \A d \in 0 .. next - 1 :
                      /\ d \in 0 .. next' - 1
                      /\ d \notin DOMAIN owners \cup DOMAIN created =>
                           d \notin DOMAIN owners' \cup DOMAIN created'
<1>1. ASSUME TypeOK, [Next]_vars
      PROVE  [Dead]_vars
  <2>1. CASE Local \/ UNCHANGED vars
    BY <2>1, LocalView DEF Committed
  <2>2. ASSUME NEW o \in Identity, NEW scoped, Create(o, scoped)
        PROVE  Dead
    <3>1. owners' = owners /\ DOMAIN created' = {next} \cup DOMAIN created
      BY <2>2 DEF Create, Committed, ++
    <3>2. next' = next + 1 /\ next \in Nat
      BY <2>2, <1>1 DEF Create, TypeOK, OwnersOK
    <3> QED BY <3>1, <3>2
  <2>3. ASSUME NEW d, NEW source, NEW target, Reroot(d, source, target)
        PROVE  Dead
    BY <2>3 DEF Reroot, Committed
  <2>4. ASSUME NEW x, NEW o, Destroy(x, o) \/ Purge(x, o)
        PROVE  Dead
    BY <2>4 DEF Destroy, Purge, Terminate, Committed
  <2>5. CASE Fail
    BY <2>5 DEF Fail, Discard, Empty
  <2>6. CASE Commit
    <3>1. owners' = OwnerNow /\ DOMAIN created' = {} /\ next' = next
      BY <2>6, <1>1, CommitOwners DEF Commit, Discard, Empty
    <3> QED BY <3>1, OwnerNowDomain
  <2> QED BY <1>1, <2>1, <2>2, <2>3, <2>4, <2>5, <2>6, StepCases
<1> QED BY <1>1, TypeCorrect, PTL DEF Spec, DeadStayDead

-----------------------------------------------------------------------------
(* Programs that hold no designation across an end of lifetime.            *)

\* What a body can hold then is what its own action created, and only committed
\* identities can be ended.
HeldFresh == \A i \in 1 .. Len(scope) : scope[i] \in DOMAIN created

DesignationInv == DesignationLive /\ HeldFresh

\* A program starts with its designations on static roots.
LEMMA InitDesignation == Init => DesignationInv
<1> SUFFICES ASSUME Init
             PROVE  DesignationInv
  OBVIOUS
<1>1. TypeOK
  BY InitTypeOK
<1>2. \A n \in DOMAIN states : n[1] # "members" => Named(n, states[n]) \subseteq Roots
  BY DEF Init, Named
<1>3. /\ Visible = DOMAIN states /\ AliveNow = Alive
      /\ \A n \in Visible : Read(n) = states[n]
  BY <1>1, IdleView DEF Init
<1>4. HeldFresh
  BY DEF Init, HeldFresh
<1> QED BY <1>2, <1>3, <1>4 DEF DesignationLive, DesignationInv, Alive

\* Every designation a statement can read then designates something alive.
LEMMA SourcesLive ==
  ASSUME TypeOK, MembershipLive, DesignationInv
  PROVE  MaybeSources \subseteq AliveNow \cup {None} /\ LiveSources \subseteq AliveNow
<1>1. TopLevel \subseteq Visible
  BY VisibleCells
<1>2. \A n \in TopLevel : Read(n) \in AliveNow \cup {None}
  BY <1>1 DEF DesignationInv, DesignationLive, Named, TopLevel
<1>3. \A n \in {"plain"} \X Plains : Read(n) \in AliveNow
  <2> SUFFICES ASSUME NEW n \in {"plain"} \X Plains
               PROVE  Read(n) \in AliveNow
    OBVIOUS
  <2>1. n \in Visible /\ n[1] = "plain"
    BY <1>1 DEF TopLevel
  <2>2. Read(n) \in Identity
    BY <2>1, ReadFits DEF Fits
  <2>3. Read(n) # None
    BY <2>2, RootsAssumption DEF Identity
  <2> QED BY <1>2, <2>3 DEF TopLevel
<1>4. DOMAIN created \subseteq AliveNow
  BY OwnerNowDomain DEF AliveNow, TypeOK, OwnersOK
<1>5. Held \subseteq AliveNow
  <2>1. scope \in Seq(Identity)
    BY DEF TypeOK, OwnersOK
  <2>2. scope # <<>> => Len(scope) \in 1 .. Len(scope)
    BY <2>1
  <2> QED BY <1>4, <2>2 DEF Held, DesignationInv, HeldFresh
<1>6. ASSUME NEW o \in WithCells
      PROVE  DOMAIN Read(Members(o)) \subseteq AliveNow
  BY <1>6 DEF WithCells, MembershipLive, Members, Named
<1>7. ASSUME NEW o \in WithCells
      PROVE  Read(Slot(o)) \in AliveNow \cup {None}
  <2>1. Slot(o) \in Visible
    BY VisibleCells DEF WithCells, Slot, Members, OwnCells, TopLevel
  <2> QED BY <2>1 DEF DesignationInv, DesignationLive, Slot, Named
<1>8. LiveSources \subseteq AliveNow
  BY <1>3, <1>5, <1>6 DEF LiveSources, AliveNow
<1>9. Designated \subseteq AliveNow
  BY <1>2 DEF Designated
<1> QED BY <1>7, <1>8, <1>9 DEF MaybeSources

\* A scope body holds an identity its own action created, which cannot be terminated.
LEMMA NextHeldFresh ==
  ASSUME Captures = FALSE, TypeOK, HeldFresh, [Next]_vars
  PROVE  HeldFresh'
<1>1. scope \in Seq(Identity)
  BY DEF TypeOK, OwnersOK
<1>2. CASE Local \/ UNCHANGED vars
  <2>1. created' = created /\ (scope' = scope \/ LeaveScope)
    BY <1>2 DEF Local, RunAction, LeaveScope, Assign, Insert, Remove, AssignSlot, EnterScope,
                vars, overlay
  <2>2. CASE LeaveScope
    BY <1>1, <2>1, <2>2 DEF LeaveScope, HeldFresh
  <2> QED BY <2>1, <2>2 DEF HeldFresh
<1>3. ASSUME NEW o \in Identity, NEW scoped, Create(o, scoped)
      PROVE  HeldFresh'
  <2>1. DOMAIN created' = {next} \cup DOMAIN created
    BY <1>3 DEF Create, ++
  <2>2. next \in Identity
    BY DEF TypeOK, OwnersOK, Identity
  <2>3. \A i \in 1 .. Len(scope') : scope'[i] = next \/ (i \in 1 .. Len(scope) /\ scope'[i] = scope[i])
    BY <1>1, <1>3, <2>2 DEF Create
  <2> QED BY <2>1, <2>3 DEF HeldFresh
<1>4. ASSUME NEW d, NEW source, NEW target, Reroot(d, source, target)
      PROVE  HeldFresh'
  BY <1>4 DEF Reroot, HeldFresh
<1>5. ASSUME NEW x, NEW o, Destroy(x, o) \/ Purge(x, o)
      PROVE  HeldFresh'
  BY <1>5 DEF Destroy, Purge, Terminate, HeldFresh
<1>6. CASE Fail \/ Commit
  BY <1>6 DEF Fail, Commit, Discard, HeldFresh
<1> QED BY <1>2, <1>3, <1>4, <1>5, <1>6, StepCases

\* Every step keeps designations live: one case per kind of step.
LEMMA NextDesignation ==
  ASSUME Captures = FALSE, TypeOK, TypeOK', MembershipLive, DesignationInv, [Next]_vars
  PROVE  DesignationLive'
<1> DEFINE Live(n) == n[1] # "members" => Named(n, Read(n)) \subseteq AliveNow
<1>0. \A n \in Visible : Live(n)
  BY DEF DesignationInv, DesignationLive
<1>a. ASSUME UNCHANGED Committed, \A n \in Visible' : Live(n)'
      PROVE  DesignationLive'
  BY <1>a DEF DesignationInv, DesignationLive, Alive, Committed
<1>b. ASSUME UNCHANGED <<Committed, created, updated, terminated>>,
             NEW n \in Visible, NEW v, Stage(n, v),
             n[1] # "members" => v \in AliveNow \cup {None}
      PROVE  DesignationLive'
  <2>1. Visible' = Visible /\ AliveNow' = AliveNow /\ UNCHANGED Committed
    BY <1>b, SameView
  <2>2. \A m \in Visible : Read(m)' = IF m = n THEN v ELSE Read(m)
    BY <1>b, StageView
  <2>3. n[1] # "members" => Named(n, v) \subseteq AliveNow
    BY <1>b DEF Named
  <2>4. \A m \in Visible' : Live(m)'
    BY <1>0, <2>1, <2>2, <2>3
  <2> QED BY <1>a, <2>1, <2>4
<1>c. MaybeSources \subseteq AliveNow \cup {None} /\ LiveSources \subseteq AliveNow
  BY SourcesLive
<1>1. CASE RunAction \/ LeaveScope \/ UNCHANGED vars \/ \E v : EnterScope(v)
  <2>1. UNCHANGED <<Committed, created, updated, terminated, writes>>
    BY <1>1 DEF RunAction, LeaveScope, EnterScope, vars, overlay, Committed
  <2>2. Visible' = Visible /\ AliveNow' = AliveNow
    BY <2>1, SameView
  <2>3. \A n : Read(n)' = Read(n)
    BY <2>1 DEF Read, CreatedStates, Committed
  <2> QED BY <1>0, <1>a, <2>1, <2>2, <2>3
<1>2. ASSUME NEW d, NEW v,
             (d \in Plains /\ Assign("plain", d, v)) \/ (d \in Maybes /\ Assign("maybe", d, v))
      PROVE  DesignationLive'
  <2>1. <<"plain", d>> \in Visible \/ d \notin Plains
    BY VisibleCells DEF TopLevel
  <2>2. <<"maybe", d>> \in Visible \/ d \notin Maybes
    BY VisibleCells DEF TopLevel
  <2>3. CASE d \in Plains /\ Assign("plain", d, v)
    BY <1>b, <1>c, <2>1, <2>3 DEF Assign
  <2>4. CASE d \in Maybes /\ Assign("maybe", d, v)
    BY <1>b, <1>c, <2>2, <2>4 DEF Assign
  <2> QED BY <1>2, <2>3, <2>4
<1>3. ASSUME NEW x, NEW o, AssignSlot(o, x)
      PROVE  DesignationLive'
  BY <1>b, <1>c, <1>3 DEF AssignSlot
<1>4. ASSUME NEW x, NEW o, Insert(x, o) \/ Remove(x, o)
      PROVE  DesignationLive'
  <2>1. PICK v : Stage(Members(o), v)
    BY <1>4 DEF Insert, Remove
  <2>2. Members(o) \in Visible /\ UNCHANGED <<Committed, created, updated, terminated>>
    BY <1>4 DEF Insert, Remove, WithCells
  <2> QED BY <1>b, <2>1, <2>2 DEF Members
<1>5. ASSUME NEW o \in Identity, NEW scoped, Create(o, scoped)
      PROVE  DesignationLive'
  <2>1. /\ AliveNow \subseteq AliveNow'
        /\ \A n \in Visible' \ Visible : Named(n, Read(n)') = {}
        /\ \A n \in Visible : Read(n)' = Read(n)
    BY <1>5, CreateView
  <2>2. UNCHANGED Committed
    BY <1>5 DEF Create
  <2> QED BY <1>0, <1>a, <2>1, <2>2
<1>6. ASSUME NEW d, NEW source, NEW target, Reroot(d, source, target)
      PROVE  DesignationLive'
  <2>1. UNCHANGED <<Committed, created, terminated, writes>>
    BY <1>6 DEF Reroot
  <2>2. Visible' = Visible /\ AliveNow' = AliveNow
    BY <2>1 DEF Visible, CreatedStates, DeletedStates, AliveNow, OwnerNow, Only, Committed
  <2>3. \A n : Read(n)' = Read(n)
    BY <2>1 DEF Read, CreatedStates, Committed
  <2> QED BY <1>0, <1>a, <2>1, <2>2, <2>3
<1>7. ASSUME NEW x, NEW o, Destroy(x, o) \/ Purge(x, o)
      PROVE  DesignationLive'
  <2>1. PICK T \in SUBSET DOMAIN owners : Terminate(T)
    BY <1>7, Ended
  <2>2. AliveNow' = AliveNow \ T /\ Visible' \subseteq Visible
    BY <2>1, TerminateView
  <2>3. ASSUME NEW n \in Visible', n[1] # "members"
        PROVE  Named(n, Read(n)') \subseteq AliveNow \ T
    <3>1. \/ Read(n)' = Read(n) /\ Named(n, Read(n)) \cap T = {}
          \/ Read(n)' = Without(n, Read(n), T)
      BY <2>1, TerminateView
    <3>2. Named(n, Read(n)) \subseteq AliveNow
      BY <1>0, <2>2, <2>3
    <3>3. Named(n, Without(n, Read(n), T)) = Named(n, Read(n)) \ T
      BY <2>3 DEF Named, Without
    <3> QED BY <3>1, <3>2, <3>3
  <2>4. UNCHANGED Committed
    BY <2>1 DEF Terminate
  <2> QED BY <1>a, <2>2, <2>3, <2>4
<1>8. CASE Fail
  <2>1. /\ AliveNow' = Alive' /\ Visible' = DOMAIN states'
        /\ \A n \in Visible' : Read(n)' = states'[n]
    BY <1>8, DiscardView DEF Fail
  <2>2. states' = states /\ Alive' = Alive
    BY <1>8 DEF Fail, Alive
  <2> QED BY <2>1, <2>2 DEF DesignationInv, DesignationLive
<1>9. CASE Commit
  <2>1. /\ AliveNow' = Alive' /\ Visible' = DOMAIN states'
        /\ \A n \in Visible' : Read(n)' = states'[n]
    BY <1>9, DiscardView DEF Commit
  <2>2. states' = [n \in Visible |-> Read(n)] /\ Alive' = AliveNow
    BY <1>9, CommitStates, CommitOwners DEF Alive, AliveNow
  <2> QED BY <2>1, <2>2 DEF DesignationInv, DesignationLive
<1> QED
  BY <1>1, <1>2, <1>3, <1>4, <1>5, <1>6, <1>7, <1>8, <1>9, KnownTyped DEF Next

\* In a program that holds no designation with a `with` body, a `live T` or
\* `maybe live T` cell never designates an identity whose lifetime ended: the block
\* of terminate_runtime_model on plain designations and its clearing of the others
\* are enough, and write_state needs no lifetime test of its own.
THEOREM DesignationsLive ==
  ASSUME Captures = FALSE
  PROVE  Spec => []DesignationLive
<1>1. Init => DesignationInv
  BY InitDesignation
<1>2. TypeOK /\ TypeOK' /\ MembershipLive /\ DesignationInv /\ [Next]_vars => DesignationInv'
  BY NextDesignation, NextHeldFresh DEF DesignationInv
<1>3. DesignationInv => DesignationLive
  BY DEF DesignationInv
<1> QED BY <1>1, <1>2, <1>3, TypeCorrect, MembershipsLive, PTL DEF Spec

\* Then a plain designation, which has no absent value, designates exactly one live
\* target between actions, as the language reference says of `live T`: what the run with
\* captured names refutes needs one of those names.
THEOREM PlainTargetsLive ==
  ASSUME Captures = FALSE
  PROVE  Spec => []PlainTargetLive
<1>1. ASSUME TypeOK, DesignationLive
      PROVE  PlainTargetLive
  <2> SUFFICES ASSUME NEW p \in Plains
               PROVE  states[<<"plain", p>>] \in Alive
    BY DEF PlainTargetLive
  <2> DEFINE n == <<"plain", p>>
  <2>1. n \in DOMAIN states /\ n[1] = "plain"
    BY <1>1 DEF TypeOK, StatesOK, Only, TopLevel
  <2>2. states[n] \in Identity
    BY <1>1, <2>1 DEF TypeOK, StatesOK, Fits
  <2>3. states[n] # None
    BY <2>2, RootsAssumption DEF Identity
  <2>4. states[n] \in Named(n, states[n])
    BY <2>1, <2>3 DEF Named
  <2> QED BY <1>1, <2>1, <2>4 DEF DesignationLive
<1> QED BY <1>1, DesignationsLive, TypeCorrect, PTL

-----------------------------------------------------------------------------
(* Actions are atomic.                                                     *)

CommittedWorld == [owners |-> owners, states |-> states]
SeenWorld == [owners |-> OwnerNow, states |-> [n \in Visible |-> Read(n)]]

\* What is committed is a world of AtomicWorld.
LEMMA CommittedSound ==
  ASSUME TypeOK, ProvenanceSound, MembershipLive
  PROVE  Atomic!Sound(CommittedWorld)
<1>1. DOMAIN states = TopLevel \cup OwnCells(Alive)
  BY DEF TypeOK, StatesOK, Only
<1>2. \A n \in DOMAIN states : n[1] \in {"slot", "members"} => n[2] \in Alive
  BY <1>1 DEF TopLevel, OwnCells
<1>3. \A n \in DOMAIN states : n[1] = "members" => DOMAIN states[n] \subseteq Alive
  BY DEF MembershipLive, Named
<1>4. {"slot", "members"} \X Alive \subseteq DOMAIN states
  BY <1>1 DEF OwnCells
<1>5. Atomic!OwnersLive(owners, Roots) /\ Atomic!Acyclic(owners)
  BY DEF ProvenanceSound, OwnersLive, Acyclic, Atomic!OwnersLive, Atomic!Acyclic
<1> QED BY <1>2, <1>3, <1>4, <1>5 DEF Atomic!Sound, CommittedWorld, Alive

\* What the transaction sees is a world of AtomicWorld.
LEMMA SeenSound ==
  ASSUME TypeOK, ProvenanceSound, MembershipLive
  PROVE  Atomic!Sound(SeenWorld)
<1>1. Visible = TopLevel \cup OwnCells(AliveNow)
  BY VisibleCells
<1>2. \A n \in Visible : n[1] \in {"slot", "members"} => n[2] \in AliveNow
  BY <1>1 DEF TopLevel, OwnCells
<1>3. \A n \in Visible : n[1] = "members" => DOMAIN Read(n) \subseteq AliveNow
  BY DEF MembershipLive, Named
<1>4. {"slot", "members"} \X AliveNow \subseteq Visible
  BY <1>1 DEF OwnCells
<1>5. Atomic!OwnersLive(OwnerNow, Roots) /\ Atomic!Acyclic(OwnerNow)
  BY DEF ProvenanceSound, OwnersLive, Acyclic, Atomic!OwnersLive, Atomic!Acyclic
<1> QED BY <1>2, <1>3, <1>4, <1>5 DEF Atomic!Sound, SeenWorld, AliveNow

\* A step inside the bracket hands out only identities the counter had not reached.
LEMMA FreshOwners ==
  ASSUME TypeOK, [Next]_vars, active, active'
  PROVE  /\ UNCHANGED <<states, owners>>
         /\ 0 .. next - 1 \subseteq 0 .. next' - 1
         /\ DOMAIN OwnerNow' \ DOMAIN OwnerNow \subseteq (0 .. next' - 1) \ (0 .. next - 1)
<1>1. CASE Local \/ UNCHANGED vars
  BY <1>1, LocalView, SameView DEF Committed
<1>2. ASSUME NEW o \in Identity, NEW scoped, Create(o, scoped)
      PROVE  /\ UNCHANGED <<states, owners>>
             /\ 0 .. next - 1 \subseteq 0 .. next' - 1
             /\ DOMAIN OwnerNow' \ DOMAIN OwnerNow \subseteq (0 .. next' - 1) \ (0 .. next - 1)
  <2>1. next \in Nat /\ next' = next + 1
    BY <1>2 DEF Create, TypeOK, OwnersOK
  <2>2. DOMAIN OwnerNow' \ DOMAIN OwnerNow \subseteq {next}
    BY <1>2, CreateView
  <2> QED BY <1>2, <2>1, <2>2 DEF Create, Committed
<1>3. ASSUME NEW d, NEW source, NEW target, Reroot(d, source, target)
      PROVE  UNCHANGED <<states, owners, next>> /\ DOMAIN OwnerNow' = DOMAIN OwnerNow
  BY <1>3 DEF Reroot, Committed, OwnerNow, Only
<1>4. ASSUME NEW x, NEW o, Destroy(x, o) \/ Purge(x, o)
      PROVE  UNCHANGED <<states, owners, next>> /\ DOMAIN OwnerNow' \subseteq DOMAIN OwnerNow
  <2>1. PICK T \in SUBSET DOMAIN owners : Terminate(T)
    BY <1>4, Ended
  <2>2. OwnerNow' = Only(OwnerNow, DOMAIN OwnerNow \ T)
    BY <2>1, TerminateView
  <2> QED BY <2>1, <2>2 DEF Terminate, Committed, Only
<1>5. ~Fail /\ ~Commit
  BY DEF Fail, Commit, Discard
<1> QED BY <1>1, <1>2, <1>3, <1>4, <1>5, StepCases

\* Every step of runtime.rs is a step of AtomicWorld or a stutter.
LEMMA AtomicStep ==
  ASSUME TypeOK, TypeOK', ProvenanceSound', MembershipLive', [Next]_vars
  PROVE  [Atomic!Next]_Atomic!vars
<1> USE DEF CommittedWorld, SeenWorld
<1>1. CASE ~active /\ active'
  <2>1. RunAction
    BY <1>1 DEF Next, vars, LeaveScope, Fail, Commit, Assign, Insert, Remove, Destroy, Purge,
                AssignSlot, EnterScope, Create, Reroot
  <2>2. UNCHANGED <<states, owners, next, writes, created, updated, terminated>>
    BY <2>1 DEF RunAction, overlay
  <2>3. /\ OwnerNow' = OwnerNow /\ Visible' = Visible /\ \A n : Read(n)' = Read(n)
    BY <2>2, SameView DEF Committed, Read, CreatedStates
  <2>4. OwnerNow = owners /\ Visible = DOMAIN states /\ \A n \in Visible : Read(n) = states[n]
    BY <1>1, IdleView DEF TypeOK, IdleOK
  <2>5. states = [n \in DOMAIN states |-> states[n]]
    BY DEF TypeOK, StatesOK, Only
  <2>6. [n \in Visible |-> Read(n)]' = states /\ OwnerNow' = owners
    BY <2>3, <2>4, <2>5
  <2>7. Atomic!Begin
    BY <1>1, <2>2, <2>6 DEF Atomic!Begin
  <2> QED BY <2>7 DEF Atomic!Next
<1>2. CASE active /\ active'
  <2>1. UNCHANGED <<states, owners>>
    BY <1>2, FreshOwners
  <2>2. Atomic!Sound(SeenWorld)'
    BY SeenSound, PTL
  <2>3. /\ 0 .. next - 1 \subseteq 0 .. next' - 1
        /\ DOMAIN OwnerNow' \ DOMAIN OwnerNow \subseteq (0 .. next' - 1) \ (0 .. next - 1)
    BY <1>2, FreshOwners
  <2>4. Atomic!Work
    BY <1>2, <2>1, <2>2, <2>3 DEF Atomic!Work
  <2> QED BY <2>4 DEF Atomic!Next
<1>3. CASE active /\ ~active'
  <2>1. Fail \/ Commit
    BY <1>3, ZenonT(30) DEF Next, vars, RunAction, LeaveScope, Assign, Insert, Remove, Destroy, Purge,
                AssignSlot, EnterScope, Create, Reroot, Terminate
  <2>2. CASE Fail
    <3>1. Atomic!Abandon
      BY <1>3, <2>2 DEF Fail, Atomic!Abandon
    <3> QED BY <3>1 DEF Atomic!Next
  <2>3. CASE Commit
    <3>1. states' = [n \in Visible |-> Read(n)] /\ owners' = OwnerNow /\ next' = next
      BY <2>3, CommitStates, CommitOwners DEF Commit
    <3>2. Atomic!Publish
      BY <1>3, <3>1 DEF Atomic!Publish
    <3> QED BY <3>2 DEF Atomic!Next
  <2> QED BY <2>1, <2>2, <2>3
<1>4. CASE ~active /\ ~active'
  <2>1. UNCHANGED vars
    BY <1>4 DEF Next, RunAction, LeaveScope, Fail, Commit, Assign, Insert, Remove, Destroy,
                Purge, AssignSlot, EnterScope, Create, Reroot
  <2> QED BY <1>4, <2>1 DEF vars, Atomic!vars
<1> QED BY <1>1, <1>2, <1>3, <1>4

\* The overlay implements in-place work on a private copy of the world: what a statement
\* reads is one sound world, commit publishes exactly that world, a failure publishes
\* nothing, and no identity is handed out twice.
THEOREM ActionsAtomic == Spec => ImplementsAtomicWorld
<1>1. Init => Atomic!Init
  <2> SUFFICES ASSUME Init
               PROVE  Atomic!Init
    OBVIOUS
  <2>1. Atomic!Sound(CommittedWorld)
    BY InitTypeOK, InitProvenance, InitMembership, CommittedSound
  <2> QED BY <2>1 DEF Init, Empty, Atomic!Init, CommittedWorld
<1>2. TypeOK /\ TypeOK' /\ ProvenanceSound' /\ MembershipLive' /\ [Next]_vars
        => [Atomic!Next]_Atomic!vars
  BY AtomicStep
<1> QED
  BY <1>1, <1>2, TypeCorrect, ProvenanceAlwaysSound, MembershipsLive, PTL
  DEF Spec, ImplementsAtomicWorld, Atomic!Spec
=============================================================================
