---------------------------- MODULE AtomicWorld ----------------------------
(***************************************************************************)
(* What an action promises about the world of live identities, with no     *)
(* overlay, no staging and no merge: an action works on its own copy of    *)
(* the committed world, every world it passes through is sound, the copy   *)
(* replaces the committed world whole or is dropped whole, and an identity *)
(* that was ever handed out is never handed out again.                     *)
(***************************************************************************)
EXTENDS Integers, Sequences, Provenance

CONSTANTS Roots

VARIABLES
  committed,  \* the world other actions and the host see
  open,       \* the running action's world, as a sequence of at most one
  used        \* identities handed out so far

vars == <<committed, open, used>>

\* Owners are alive and rooted, a membership names live identities only, and
\* the model-local cells are those of live identities.
Sound(w) ==
  LET alive == Roots \cup DOMAIN w.owners IN
  /\ OwnersLive(w.owners, Roots)
  /\ Acyclic(w.owners)
  /\ \A n \in DOMAIN w.states :
       /\ n[1] \in {"slot", "members"} => n[2] \in alive
       /\ n[1] = "members" => DOMAIN w.states[n] \subseteq alive
  /\ {"slot", "members"} \X alive \subseteq DOMAIN w.states

Init == Sound(committed) /\ open = <<>> /\ DOMAIN committed.owners \subseteq used

Begin == open = <<>> /\ open' = <<committed>> /\ UNCHANGED <<committed, used>>

Work ==
  /\ open # <<>> /\ open' # <<>>
  /\ Sound(open'[1])
  /\ used \subseteq used'
  /\ DOMAIN open'[1].owners \ DOMAIN open[1].owners \subseteq used' \ used
  /\ UNCHANGED committed

Publish == open # <<>> /\ committed' = open[1] /\ open' = <<>> /\ UNCHANGED used

Abandon == open # <<>> /\ open' = <<>> /\ UNCHANGED <<committed, used>>

Next == Begin \/ Work \/ Publish \/ Abandon

Spec == Init /\ [][Next]_vars
=============================================================================
