----------------------------- MODULE FullWorld -----------------------------
(***************************************************************************)
(* What a durable Elanu application promises, whatever part of it is in    *)
(* memory: one world with every identity in it, which an action changes    *)
(* in place and completely, or not at all.  No transaction overlay, no     *)
(* residency, no backing payloads, no restart.  A body is a sequence of    *)
(* statements <<operation, d, e>>, those of PartialPersistence, which says *)
(* in each of its steps which body, if any, is performed.                  *)
(***************************************************************************)
EXTENDS Integers, SequencesExt

CONSTANT None

VARIABLE world  \* [statics, cells, next]: top-level designations, identities, counter

NewPayload == [slot |-> None, members |-> {}]

\* The identities a payload names, and the payload without those of T.
Targets(v) == ({v.slot} \ {None}) \cup v.members
Stripped(v, T) ==
  [slot |-> IF v.slot \in T THEN None ELSE v.slot, members |-> v.members \ T]
-----------------------------------------------------------------------------
\* Whether statement s can run in w; fresh are the identities of this action.
Possible(w, fresh, s) ==
  LET d == w.statics[s[2]]
      e == w.statics[s[3]]
  IN  CASE s[1] = "create" -> TRUE
        [] s[1] = "copy" -> e \in DOMAIN w.cells
        [] s[1] = "set" -> d \in DOMAIN w.cells
        [] s[1] = "insert" -> {d, e} \subseteq DOMAIN w.cells
        [] s[1] = "destroy" -> d \in DOMAIN w.cells \ fresh
        [] OTHER -> FALSE

Performed(w, s) ==
  LET d == w.statics[s[2]]
      e == w.statics[s[3]]
  IN  CASE s[1] = "create" ->
             [statics |-> [w.statics EXCEPT ![s[2]] = w.next],
              cells |-> [x \in DOMAIN w.cells \cup {w.next} |->
                           IF x = w.next THEN NewPayload ELSE w.cells[x]],
              next |-> w.next + 1]
        [] s[1] = "copy" -> [w EXCEPT !.statics[s[2]] = w.cells[e].slot]
        [] s[1] = "set" -> [w EXCEPT !.cells[d].slot = e]
        [] s[1] = "insert" -> [w EXCEPT !.cells[e].members = @ \cup {d}]
        [] s[1] = "destroy" ->
             [statics |-> [n \in DOMAIN w.statics |-> IF w.statics[n] = d THEN None ELSE w.statics[n]],
              cells |-> [x \in DOMAIN w.cells \ {d} |-> Stripped(w.cells[x], {d})],
              next |-> w.next]

\* A statement after r, in an action begun in w: as soon as one fails, w is what is left.
Step(w, r, s) ==
  IF r.ok /\ Possible(r.world, w.next .. (r.world.next - 1), s)
  THEN [ok |-> TRUE, world |-> Performed(r.world, s)]
  ELSE [ok |-> FALSE, world |-> w]

\* The result of every prefix of program p, and the world after all of it.
Results(p, w) ==
  LET result[i \in 0 .. Len(p)] ==
        IF i = 0 THEN [ok |-> TRUE, world |-> w] ELSE Step(w, result[i - 1], p[i])
  IN  result
Effect(p, w) == Results(p, w)[Len(p)].world

Init == DOMAIN world.cells = {} /\ world.next = 0 /\ \A n \in DOMAIN world.statics : world.statics[n] = None

\* All of body p runs, and the world is left as its statements leave it.
Performs(p) == Results(p, world)[Len(p)].ok /\ world' = Effect(p, world)

\* Some statement of p cannot run in the world.
Fails(p) == ~Results(p, world)[Len(p)].ok
=============================================================================
