----------------------------- MODULE Provenance -----------------------------
(***************************************************************************)
(* The rooting relation of dynamic model identities: own[d] is the owner   *)
(* recorded for the dynamic identity d, a static root or another dynamic   *)
(* identity.  The runtime walks it in three places (the cycle test of      *)
(* reroot, the fresh-descendant test of purge and the postorder of purge); *)
(* each walk computes reachability along own, stated here without          *)
(* recursion: b is above a when b lies in every set that holds a and is    *)
(* closed under taking owners.                                             *)
(***************************************************************************)

\* f with the entries of g that f lacks: `HashMap::extend` seen from the new map.
f ++ g == [x \in DOMAIN f \cup DOMAIN g |-> IF x \in DOMAIN f THEN f[x] ELSE g[x]]

Only(f, S) == [x \in S |-> f[x]]

\* S is closed under taking dynamic owners.
UpClosed(own, S) == \A d \in S : own[d] \in DOMAIN own => own[d] \in S

\* The chain of owners that starts at a meets b (a itself included).
Reaches(own, a, b) ==
  \/ a = b
  \/ /\ a \in DOMAIN own
     /\ \A S \in SUBSET DOMAIN own : a \in S /\ UpClosed(own, S) => b \in S

\* Every dynamic identity is rooted in something that is alive.
OwnersLive(own, roots) == \A d \in DOMAIN own : own[d] \in roots \cup DOMAIN own

\* No set of identities roots itself: every chain of owners leaves every set.
Acyclic(own) ==
  \A S \in SUBSET DOMAIN own : S # {} => \E d \in S : own[d] \notin S

\* d and everything rooted under it.
Subtree(own, d) == {x \in DOMAIN own : Reaches(own, x, d)}
=============================================================================
