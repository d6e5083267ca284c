-------------------------- MODULE RecomputedWorld --------------------------
(***************************************************************************)
(* What the reactive kernel promises a reader: one committed world and at  *)
(* most one open copy of it, of stored cells only, and an answer to every  *)
(* question that is recomputed from them.  No caches, no edges, no         *)
(* evaluation in steps, no overlay.                                        *)
(*                                                                         *)
(* A world is [live, store]: the identities in it, and what each cell      *)
(* holds, which is Failed where there is no cell and None in a cell that   *)
(* is derived.                                                             *)
(***************************************************************************)
EXTENDS Integers, Sequences

CONSTANTS
  App, Identities,   \* the static roots, and the identities a program may create
  Stored, Derived,   \* the cells, as <<root, member>>
  None, Failed,
  Default(_),        \* what a stored cell holds at first
  Assignable(_, _),  \* what a statement may assign to a cell, among some identities
  Without(_, _, _),  \* what is left of what a cell holds, without an identity
  Meaning(_)         \* the values that follow from a store

VARIABLES
  committed,  \* the world between actions
  open,       \* the world of the running action, as a sequence of at most one
  used,       \* identities created so far, by a failed action too
  asked,      \* the cell a statement or the host asks for, as a sequence of at most one
  answer      \* what the last completed read returned

vars == <<committed, open, used, asked, answer>>

\* The cells of the identities X as they begin.
Fresh(X) ==
  [c \in {d \in Stored \cup Derived : d[1] \in X} |-> IF c \in Stored THEN Default(c) ELSE None]
View == IF open = <<>> THEN committed ELSE open[1]
Held(c) == View.store[c] # Failed

\* No question is open and none is answered.
Quiet == asked = <<>> /\ asked' = <<>> /\ answer' = <<>>
-----------------------------------------------------------------------------
Ask(d) ==
  /\ asked = <<>> /\ Held(d)
  /\ asked' = <<d>> /\ answer' = <<>>
  /\ UNCHANGED <<committed, open, used>>

\* A value there is, given at once.
Tell(d) ==
  /\ asked = <<>> /\ Held(d)
  /\ UNCHANGED <<committed, open, used, asked>>
  /\ LET v == Meaning(View.store)[d] IN v # Failed /\ answer' = <<d, v>>

\* The answer to what was asked.  A value that fails ends the action that needs it, and
\* no action ends for a value that there is.
Answer ==
  /\ asked # <<>> /\ asked' = <<>>
  /\ LET v == Meaning(View.store)[asked[1]] IN
     IF v = Failed /\ open # <<>>
     THEN open' = <<>> /\ answer' = <<>>
     ELSE answer' = <<asked[1], v>> /\ UNCHANGED open
  /\ UNCHANGED <<committed, used>>

Begin == open = <<>> /\ open' = <<committed>> /\ UNCHANGED <<committed, used>>

Write(c, v) ==
  /\ open # <<>> /\ Held(c)
  /\ open' = <<[open[1] EXCEPT !.store[c] = v]>>
  /\ UNCHANGED <<committed, used>>

\* An identity comes with cells of its own, all at their defaults.
Create(x) ==
  /\ open # <<>> /\ x \notin used
  /\ used' = used \cup {x}
  /\ open' = <<[live |-> open[1].live \cup {x},
                store |-> [c \in Stored \cup Derived |->
                             IF c[1] = x THEN Fresh({x})[c] ELSE open[1].store[c]]]>>
  /\ UNCHANGED committed

\* An identity that was there when the action began goes with its cells, and from every
\* cell that designates it.
Destroy(x) ==
  /\ open # <<>> /\ x \in committed.live \cap open[1].live
  /\ open' = <<[live |-> open[1].live \ {x},
                store |-> [c \in Stored \cup Derived |->
                             IF c[1] = x THEN Failed ELSE Without(c, open[1].store[c], x)]]>>
  /\ UNCHANGED <<committed, used>>

Fail == open # <<>> /\ open' = <<>> /\ UNCHANGED <<committed, used>>
Commit == open # <<>> /\ committed' = open[1] /\ open' = <<>> /\ UNCHANGED used

Init ==
  /\ committed = [live |-> {},
                  store |-> [c \in Stored \cup Derived |-> IF c[1] = App THEN Fresh({App})[c] ELSE Failed]]
  /\ open = <<>> /\ used = {} /\ asked = <<>> /\ answer = <<>>

Next ==
  \/ Answer \/ \E d \in Derived : Ask(d) \/ Tell(d)
  \/ /\ Quiet
     /\ \/ Begin \/ Fail \/ Commit
        \/ open # <<>> /\ \E c \in Stored : \E v \in Assignable(c, open[1].live) : Write(c, v)
        \/ \E x \in Identities : Create(x) \/ Destroy(x)

Spec == Init /\ [][Next]_vars
=============================================================================
