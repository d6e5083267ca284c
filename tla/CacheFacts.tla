------------------------------ MODULE CacheFacts ------------------------------
(***************************************************************************)
(* Facts about a store, the cache over it and the edges between the two    *)
(* (Layer), and about the evaluations under way on them (Running), for     *)
(* every well-typed program.  DerivedCache keeps two such layers, the      *)
(* committed one and that of the open transaction; here they are values.   *)
(***************************************************************************)
EXTENDS EvaluationFacts

Caches == {k \in [AllDerived -> Contents] : \A d \in AllDerived : k[d] \in TypeOf(d) \cup {None}}
Edges == [deps : [AllDerived -> SUBSET Cells], watchers : [Cells -> SUBSET AllDerived]]

\* A valid cell exists, holds its outcome, and hangs on exactly its footprint, at both ends.
Exact(store, cache, g) ==
  \A d \in AllDerived : cache[d] # None =>
    /\ store[d] # Failed
    /\ Outcome(d, Seen(store, cache)) = cache[d]
    /\ g.deps[d] = Footprint(d, Seen(store, cache))
    /\ \A c \in g.deps[d] : d \in g.watchers[c]

\* Valid cells do not hang on each other in a circle.
Grounded(cache, g) ==
  \A V \in SUBSET {d \in AllDerived : cache[d] # None} :
    V # {} => \E d \in V : g.deps[d] \cap V = {}

Layer(store, cache, g) ==
  /\ store \in Stores /\ cache \in Caches /\ g \in Edges
  /\ Exact(store, cache, g)
  /\ Grounded(cache, g)

\* An evaluation under way: its cell exists and is invalid, and hangs on what it has read.
Evaluates(f, store, cache, g, next) ==
  /\ Typed(f)
  /\ store[f.cell] # Failed /\ cache[f.cell] = None
  /\ Justified(f, Seen(store, cache))
  /\ g.deps[f.cell] = AskedBy(f) \cup next
  /\ \A c \in g.deps[f.cell] : f.cell \in g.watchers[c]

\* The evaluations of a stack: each but the last waits for the one above it.
Next1(k, i) == IF i < Len(k) THEN {k[i + 1].cell} ELSE {}
Running(store, cache, g, k) ==
  /\ k \in Seq(Frames)
  /\ \A i \in 1 .. Len(k) : Evaluates(k[i], store, cache, g, Next1(k, i))
  /\ \A i \in 1 .. Len(k) : i < Len(k) => Asks(k[i]) = {k[i + 1].cell} /\ ~Overflows(k[i])
  /\ \A i, j \in 1 .. Len(k) : k[i].cell = k[j].cell => i = j

-----------------------------------------------------------------------------
(* Layers.                                                                 *)

\* What is seen of a store through a cache has the right types.
LEMMA SeenTyped ==
  ASSUME NEW store \in Stores, NEW cache \in Caches
  PROVE  /\ Seen(store, cache) \in Sights
         /\ \A c \in AllStored : Seen(store, cache)[c] = store[c]
         /\ \A d \in AllDerived :
              /\ Seen(store, cache)[d] = IF store[d] = Failed \/ cache[d] = None THEN Failed ELSE cache[d]
              /\ cache[d] # Failed
<1> DEFINE r == Seen(store, cache)
<1>1. r = [c \in Cells |-> IF store[c] = Failed \/ c \in AllStored THEN store[c]
                           ELSE IF cache[c] = None THEN Failed ELSE cache[c]]
  BY DEF Seen
<1> HIDE DEF r
<1>2. \A c \in AllStored : c \in Cells /\ r[c] = store[c]
  BY <1>1 DEF Cells
<1>3. \A d \in AllDerived :
        /\ r[d] = IF store[d] = Failed \/ cache[d] = None THEN Failed ELSE cache[d]
        /\ cache[d] # Failed /\ cache[d] \in TypeOf(d) \cup {None}
  <2> TAKE d \in AllDerived
  <2>1. d \in Cells /\ d \notin AllStored
    BY Kinds
  <2>2. cache[d] \in TypeOf(d) \cup {None}
    BY DEF Caches
  <2>3. cache[d] # Failed
    BY <2>2, NoValue, ValueAssumption
  <2> QED BY <1>1, <2>1, <2>2, <2>3
<1>4. \A c \in Cells : r[c] \in TypeOf(c) \cup {Failed}
  <2> TAKE c \in Cells
  <2>1. CASE c \in AllStored
    BY <1>2, <2>1 DEF Stores
  <2>2. CASE c \in AllDerived
    BY <1>3, <2>2
  <2> QED BY <2>1, <2>2 DEF Cells
<1>5. r \in [Cells -> Contents \cup {Failed}]
  <2>1. \A c \in Cells : r[c] \in Contents \cup {Failed}
    BY <1>4, TypeValues
  <2>2. r = [c \in Cells |-> r[c]]
    BY <1>1
  <2> QED BY <2>1, <2>2
<1>6. r \in Sights
  BY <1>4, <1>5 DEF Sights
<1> QED BY <1>2, <1>3, <1>6 DEF r

\* A layer stays one when cells lose their values, the store changes and edges are cut, as
\* long as nothing of that is under a cell that keeps its value.
LEMMA LayerWeakened ==
  ASSUME NEW store, NEW cache, NEW g, Layer(store, cache, g),
         NEW store2 \in Stores, NEW cache2 \in Caches, NEW g2 \in Edges,
         \A d \in AllDerived : cache2[d] # None =>
           /\ store2[d] # Failed /\ cache2[d] = cache[d] /\ g2.deps[d] = g.deps[d]
           /\ \A c \in g.deps[d] : /\ d \in g2.watchers[c] /\ store2[c] = store[c]
                                   /\ c \in AllDerived => cache2[c] = cache[c]
  PROVE  Layer(store2, cache2, g2)
<1> DEFINE s == Seen(store, cache)
           t == Seen(store2, cache2)
<1>1. s \in Sights /\ t \in Sights
  BY SeenTyped DEF Layer
<1>2. ASSUME NEW d \in AllDerived, cache2[d] # None
      PROVE  /\ store2[d] # Failed /\ Outcome(d, t) = cache2[d] /\ g2.deps[d] = Footprint(d, t)
             /\ \A c \in g2.deps[d] : d \in g2.watchers[c]
  <2>1. /\ store2[d] # Failed /\ cache2[d] = cache[d] /\ g2.deps[d] = g.deps[d]
        /\ \A c \in g.deps[d] : /\ d \in g2.watchers[c] /\ store2[c] = store[c]
                                /\ c \in AllDerived => cache2[c] = cache[c]
    BY <1>2
  <2>2. Outcome(d, s) = cache[d] /\ g.deps[d] = Footprint(d, s) /\ cache[d] # Failed
    BY <1>2, <2>1, SeenTyped DEF Layer, Exact
  <2>3. \A c \in Footprint(d, s) : c \in Cells
    BY <1>1, <2>2, OutcomeTyped
  <2>4. ASSUME NEW c \in Footprint(d, s) PROVE t[c] = s[c]
    <3>1. CASE c \in AllStored
      BY <2>1, <2>2, <3>1, SeenTyped DEF Layer
    <3>2. CASE c \in AllDerived
      BY <2>1, <2>2, <3>2, SeenTyped DEF Layer
    <3> QED BY <2>3, <3>1, <3>2 DEF Cells
  <2> HIDE DEF s, t
  <2>5. Outcome(d, t) = Outcome(d, s) /\ Footprint(d, t) = Footprint(d, s)
    BY <1>1, <2>2, <2>4, OutcomeElsewhere
  <2> QED BY <2>1, <2>2, <2>5
<1>3. Exact(store2, cache2, g2)
  BY <1>2 DEF Exact
<1>4. Grounded(cache2, g2)
  <2> SUFFICES ASSUME NEW V \in SUBSET {d \in AllDerived : cache2[d] # None}, V # {}
               PROVE  \E d \in V : g2.deps[d] \cap V = {}
    BY DEF Grounded
  <2>1. V \in SUBSET {d \in AllDerived : cache[d] # None}
    OBVIOUS
  <2>2. PICK d \in V : g.deps[d] \cap V = {}
    BY <2>1 DEF Layer, Grounded
  <2> QED BY <2>2
<1> QED BY <1>3, <1>4 DEF Layer

\* A layer stays one when an invalid cell gets the value that its evaluation has.
LEMMA LayerGrown ==
  ASSUME NEW store, NEW cache, NEW g, Layer(store, cache, g),
         NEW d \in AllDerived, cache[d] = None, store[d] # Failed,
         NEW v, v = Outcome(d, Seen(store, cache)), v # Failed,
         g.deps[d] = Footprint(d, Seen(store, cache)), \A c \in g.deps[d] : d \in g.watchers[c],
         NEW cache2 \in Caches, cache2[d] = v,
         \A e \in AllDerived : e # d => cache2[e] = cache[e]
  PROVE  /\ Layer(store, cache2, g)
         /\ \A c \in Cells : Seen(store, cache)[c] # Failed => Seen(store, cache2)[c] = Seen(store, cache)[c]
         /\ Seen(store, cache2)[d] = v /\ v # None
<1> DEFINE s == Seen(store, cache)
           t == Seen(store, cache2)
<1>1. s \in Sights /\ store \in Stores /\ cache \in Caches /\ g \in Edges
  BY SeenTyped DEF Layer
<1>2. v \in TypeOf(d) /\ v # None /\ v \in Contents
  BY <1>1, OutcomeTyped, NoValue
<1>3. /\ cache2 \in Caches /\ cache2[d] = v
      /\ \A e \in AllDerived : e # d => cache2[e] = cache[e]
  OBVIOUS
<1>4. t \in Sights /\ t[d] = v /\ s[d] = Failed
  BY <1>1, <1>2, <1>3, SeenTyped
<1>5. ASSUME NEW c \in Cells, s[c] # Failed PROVE t[c] = s[c]
  <2>1. CASE c \in AllStored
    BY <1>1, <1>3, <2>1, SeenTyped
  <2>2. CASE c \in AllDerived
    BY <1>1, <1>3, <1>4, <1>5, <2>2, SeenTyped
  <2> QED BY <2>1, <2>2 DEF Cells
<1>6. ASSUME NEW e \in AllDerived, Outcome(e, s) # Failed
      PROVE  Outcome(e, t) = Outcome(e, s) /\ Footprint(e, t) = Footprint(e, s) /\ d \notin Footprint(e, s)
  <2>1. \A c \in Footprint(e, s) : c \in Cells /\ s[c] # Failed
    BY <1>1, <1>6, OutcomeTyped
  <2>2. \A c \in Footprint(e, s) : t[c] = s[c]
    BY <1>5, <2>1
  <2> HIDE DEF s, t
  <2>3. Outcome(e, t) = Outcome(e, s) /\ Footprint(e, t) = Footprint(e, s)
    BY <1>1, <1>4, <1>6, <2>2, OutcomeElsewhere
  <2> QED BY <1>4, <2>1, <2>3
<1>7. ASSUME NEW e \in AllDerived, cache2[e] # None
      PROVE  /\ store[e] # Failed /\ Outcome(e, t) = cache2[e] /\ g.deps[e] = Footprint(e, t)
             /\ \A c \in g.deps[e] : e \in g.watchers[c]
             /\ d \notin g.deps[e]
  <2>1. CASE e = d
    BY <1>3, <1>6, <2>1
  <2>2. CASE e # d
    <3>1. /\ cache2[e] = cache[e] /\ cache[e] # None /\ cache[e] # Failed
          /\ store[e] # Failed /\ Outcome(e, s) = cache[e] /\ g.deps[e] = Footprint(e, s)
          /\ \A c \in g.deps[e] : e \in g.watchers[c]
      BY <1>1, <1>3, <1>7, <2>2, SeenTyped DEF Layer, Exact
    <3> HIDE DEF s, t
    <3> QED BY <1>6, <3>1
  <2> QED BY <2>1, <2>2
<1>8. Exact(store, cache2, g)
  BY <1>7 DEF Exact
<1>9. Grounded(cache2, g)
  <2> SUFFICES ASSUME NEW V \in SUBSET {e \in AllDerived : cache2[e] # None}, V # {}
               PROVE  \E e \in V : g.deps[e] \cap V = {}
    BY DEF Grounded
  <2>1. \A e \in V : d \notin g.deps[e]
    BY <1>7
  <2>2. CASE V \ {d} = {}
    BY <2>1, <2>2
  <2>3. CASE V \ {d} # {}
    <3>1. V \ {d} \in SUBSET {e \in AllDerived : cache[e] # None}
      BY <1>3
    <3>2. PICK e \in V \ {d} : g.deps[e] \cap (V \ {d}) = {}
      BY <2>3, <3>1 DEF Layer, Grounded
    <3> QED BY <2>1, <3>2
  <2> QED BY <2>2, <2>3
<1> QED BY <1>1, <1>2, <1>3, <1>4, <1>5, <1>8, <1>9 DEF Layer

\* What a layer shows is what follows from its store.
LEMMA LayerCoherent ==
  ASSUME NEW store, NEW cache, NEW g, Layer(store, cache, g)
  PROVE  Below(Seen(store, cache), Levels(store)[Depth])
<1> DEFINE s == Seen(store, cache)
<1>1. s \in Sights /\ store \in Stores /\ cache \in Caches
  BY SeenTyped DEF Layer
<1>2. PICK m : m = Levels(store)[Depth]
  OBVIOUS
<1>3. m \in Sights /\ Recomputed(store, m) = m
  BY <1>1, <1>2, LevelsSettle
<1>4. \A c \in AllStored : m[c] = store[c] /\ s[c] = store[c]
  BY <1>1, <1>3, SeenTyped DEF Recomputed, Cells
<1> DEFINE V == {d \in AllDerived : cache[d] # None /\ m[d] # cache[d]}
<1>5. V = {}
  <2> SUFFICES ASSUME V # {} PROVE FALSE
    OBVIOUS
  <2>1. V \in SUBSET {d \in AllDerived : cache[d] # None}
    OBVIOUS
  <2>2. PICK d \in V : g.deps[d] \cap V = {}
    BY <2>1 DEF Layer, Grounded
  <2>3. /\ d \in AllDerived /\ cache[d] # None /\ cache[d] # Failed /\ store[d] # Failed
        /\ Outcome(d, s) = cache[d] /\ g.deps[d] = Footprint(d, s)
    BY <1>1, SeenTyped DEF Layer, Exact
  <2>4. \A c \in Footprint(d, s) : c \in Cells /\ s[c] # Failed
    BY <1>1, <2>3, OutcomeTyped
  <2>5. ASSUME NEW c \in Footprint(d, s) PROVE m[c] = s[c]
    <3>1. CASE c \in AllStored
      BY <1>4, <3>1
    <3>2. CASE c \in AllDerived
      <4>1. s[c] = cache[c] /\ cache[c] # None
        BY <1>1, <2>4, <3>2, SeenTyped
      <4>2. c \notin V
        BY <2>2, <2>3
      <4> QED BY <3>2, <4>1, <4>2
    <3> QED BY <2>4, <3>1, <3>2 DEF Cells
  <2>6. Outcome(d, m) = Outcome(d, s)
    <3> HIDE DEF s, V
    <3> QED BY <1>1, <1>3, <2>3, <2>5, OutcomeElsewhere
  <2>7. Recomputed(store, m)[d] = Outcome(d, m)
    BY <2>3, Kinds DEF Recomputed
  <2> QED BY <1>3, <2>3, <2>6, <2>7
<1>6. ASSUME NEW c \in Cells, s[c] # Failed PROVE m[c] = s[c]
  <2>1. CASE c \in AllStored
    BY <1>4, <2>1
  <2>2. CASE c \in AllDerived
    BY <1>1, <1>5, <1>6, <2>2, SeenTyped
  <2> QED BY <2>1, <2>2 DEF Cells
<1> QED BY <1>2, <1>6 DEF Below

-----------------------------------------------------------------------------
(* Edges and evaluations under way.                                        *)

\* register_dependency adds one edge, at both ends.
LEMMA LinkedEdges ==
  ASSUME NEW g \in Edges, NEW d \in AllDerived, NEW c \in Cells, NEW h, h = Linked(g, d, c)
  PROVE  /\ h \in Edges /\ h.deps[d] = g.deps[d] \cup {c} /\ d \in h.watchers[c]
         /\ \A e \in AllDerived : e # d => h.deps[e] = g.deps[e]
         /\ \A x \in Cells : g.watchers[x] \subseteq h.watchers[x]
<1>1. h.deps = [g.deps EXCEPT ![d] = @ \cup {c}] /\ h.watchers = [g.watchers EXCEPT ![c] = @ \cup {d}]
  BY DEF Linked
<1>2. g.deps \in [AllDerived -> SUBSET Cells] /\ g.watchers \in [Cells -> SUBSET AllDerived]
  BY DEF Edges
<1>3. h.deps \in [AllDerived -> SUBSET Cells] /\ h.watchers \in [Cells -> SUBSET AllDerived]
  BY <1>1, <1>2
<1>4. h = [deps |-> h.deps, watchers |-> h.watchers]
  BY DEF Linked
<1> QED BY <1>1, <1>2, <1>3, <1>4 DEF Edges

\* clear_*_dependencies takes the edges of one cell, and no other.
LEMMA UnlinkedEdges ==
  ASSUME NEW g \in Edges, NEW d \in AllDerived, NEW h, h = Unlinked(g, d)
  PROVE  /\ h \in Edges /\ h.deps[d] = {}
         /\ \A e \in AllDerived : e # d => h.deps[e] = g.deps[e]
         /\ \A x \in Cells : \A e \in g.watchers[x] : e # d => e \in h.watchers[x]
<1>1. /\ h.deps = [g.deps EXCEPT ![d] = {}]
      /\ h.watchers = [c \in Cells |-> IF c \in g.deps[d] THEN g.watchers[c] \ {d} ELSE g.watchers[c]]
  BY DEF Unlinked
<1>2. g.deps \in [AllDerived -> SUBSET Cells] /\ g.watchers \in [Cells -> SUBSET AllDerived]
  BY DEF Edges
<1>3. h.deps \in [AllDerived -> SUBSET Cells] /\ h.watchers \in [Cells -> SUBSET AllDerived]
  BY <1>1, <1>2
<1>4. h = [deps |-> h.deps, watchers |-> h.watchers]
  BY DEF Unlinked
<1> QED BY <1>1, <1>2, <1>3, <1>4 DEF Edges

\* An evaluation under way goes on when what it has read stays, in the cache and as edges.
LEMMA EvaluatesKept ==
  ASSUME NEW f, NEW store, NEW cache, NEW g, NEW next, Evaluates(f, store, cache, g, next),
         NEW cache2, NEW g2, cache2[f.cell] = None,
         \A c \in Cells : Seen(store, cache)[c] # Failed => Seen(store, cache2)[c] = Seen(store, cache)[c],
         g2.deps[f.cell] = g.deps[f.cell], \A c \in g.deps[f.cell] : f.cell \in g2.watchers[c]
  PROVE  Evaluates(f, store, cache2, g2, next)
<1>1. Justified(f, Seen(store, cache2))
  <2>1. \A c \in AskedBy(f) : c \in Cells => Seen(store, cache2)[c] = Seen(store, cache)[c]
    BY AskedSeen DEF Evaluates
  <2> QED BY <2>1, JustifiedElsewhere DEF Evaluates
<1> QED BY <1>1 DEF Evaluates

\* The layer does not see the edges of invalid cells.
LEMMA LayerEdges ==
  ASSUME NEW store, NEW cache, NEW g, Layer(store, cache, g), NEW g2 \in Edges,
         \A d \in AllDerived : cache[d] # None =>
           g2.deps[d] = g.deps[d] /\ \A c \in g.deps[d] : d \in g2.watchers[c]
  PROVE  Layer(store, cache, g2)
<1>1. store \in Stores /\ cache \in Caches
  BY DEF Layer
<1>2. ASSUME NEW d \in AllDerived, cache[d] # None
      PROVE  /\ store[d] # Failed /\ cache[d] = cache[d] /\ g2.deps[d] = g.deps[d]
             /\ \A c \in g.deps[d] : /\ d \in g2.watchers[c] /\ store[c] = store[c]
                                     /\ c \in AllDerived => cache[c] = cache[c]
  BY <1>2 DEF Layer, Exact
<1> QED BY <1>1, <1>2, LayerWeakened

\* A cell that exists, is invalid and is not being evaluated is pushed (Enter).
LEMMA Pushed ==
  ASSUME NEW store, NEW cache, NEW g, NEW k,
         Layer(store, cache, g), Running(store, cache, g, k),
         NEW d \in AllDerived, store[d] # Failed, cache[d] = None, \A i \in 1 .. Len(k) : k[i].cell # d,
         k # <<>> => Asks(k[Len(k)]) = {d} /\ ~Overflows(k[Len(k)]),
         NEW g2, g2 = Unlinked(IF k = <<>> THEN g ELSE Linked(g, k[Len(k)].cell, d), d),
         NEW k2 \in Seq(Frames), Len(k2) = Len(k) + 1, \A i \in 1 .. Len(k) : k2[i] = k[i],
         k2[Len(k) + 1] = [cell |-> d, read |-> <<>>]
  PROVE  Layer(store, cache, g2) /\ Running(store, cache, g2, k2)
<1>1. g \in Edges /\ store \in Stores /\ cache \in Caches /\ k \in Seq(Frames)
  BY DEF Layer, Running
<1>2. PICK n \in Nat : n = Len(k)
  BY <1>1
<1>3. PICK h : h = IF k = <<>> THEN g ELSE Linked(g, k[n].cell, d)
  OBVIOUS
<1>4. k # <<>> => n \in 1 .. n /\ k[n] \in Frames /\ k[n].cell \in AllDerived
  <2>1. k # <<>> => n \in 1 .. n
    BY <1>1, <1>2
  <2>2. k # <<>> => k[n] \in Frames
    BY <1>1, <1>2, <2>1
  <2> QED BY <2>1, <2>2 DEF Frames
<1>5. /\ h \in Edges
      /\ \A e \in AllDerived : ~(k # <<>> /\ e = k[n].cell) => h.deps[e] = g.deps[e]
      /\ k # <<>> => h.deps[k[n].cell] = g.deps[k[n].cell] \cup {d} /\ k[n].cell \in h.watchers[d]
      /\ \A x \in Cells : g.watchers[x] \subseteq h.watchers[x]
  <2>1. CASE k = <<>>
    BY <1>1, <1>3, <2>1
  <2>2. CASE k # <<>>
    <3>1. h = Linked(g, k[n].cell, d) /\ d \in Cells
      BY <1>3, <2>2, Kinds
    <3> QED BY <1>1, <1>4, <2>2, <3>1, LinkedEdges
  <2> QED BY <2>1, <2>2
<1>6. /\ g2 \in Edges /\ g2.deps[d] = {}
      /\ \A e \in AllDerived : e # d => g2.deps[e] = h.deps[e]
      /\ \A x \in Cells : \A e \in h.watchers[x] : e # d => e \in g2.watchers[x]
  <2>1. g2 = Unlinked(h, d)
    BY <1>2, <1>3
  <2> QED BY <1>5, <2>1, UnlinkedEdges
<1>7. \A e \in AllDerived : g.deps[e] \subseteq Cells
  BY <1>1 DEF Edges
<1>8. Layer(store, cache, g2)
  <2> SUFFICES ASSUME NEW e \in AllDerived, cache[e] # None
               PROVE  g2.deps[e] = g.deps[e] /\ \A c \in g.deps[e] : e \in g2.watchers[c]
    BY <1>6, LayerEdges
  <2>1. ~(k # <<>> /\ e = k[n].cell) /\ e # d
    BY <1>2, <1>4 DEF Running, Evaluates
  <2>2. \A c \in g.deps[e] : e \in g.watchers[c]
    BY DEF Layer, Exact
  <2> QED BY <1>5, <1>6, <1>7, <2>1, <2>2
<1>9. PICK f : f = [cell |-> d, read |-> <<>>]
  OBVIOUS
<1>10. /\ f \in Frames /\ f.read = <<>> /\ Len(f.read) = 0 /\ f.cell = d
  BY <1>9 DEF Frames
<1>11. /\ k2 \in Seq(Frames) /\ Len(k2) = n + 1 /\ k2[n + 1] = f
       /\ \A i \in 1 .. n : k2[i] = k[i]
  BY <1>2, <1>9
<1>12. Evaluates(f, store, cache, g2, {})
  <2>1. Typed(f)
    BY <1>10 DEF Typed
  <2>2. Justified(f, Seen(store, cache)) /\ AskedBy(f) = {}
    BY <1>10 DEF Justified, AskedBy
  <2> QED BY <1>6, <1>10, <2>1, <2>2 DEF Evaluates
<1>13. ASSUME NEW i \in 1 .. n
       PROVE  Evaluates(k[i], store, cache, g2, IF i < n THEN {k[i + 1].cell} ELSE {d})
  <2>1. Evaluates(k[i], store, cache, g, IF i < n THEN {k[i + 1].cell} ELSE {})
    BY <1>2 DEF Running, Next1
  <2>2. k[i].cell \in AllDerived /\ k[i].cell # d
    BY <1>2, <2>1 DEF Evaluates, Typed, Frames
  <2>3. \A c \in g.deps[k[i].cell] : k[i].cell \in g2.watchers[c]
    BY <1>5, <1>6, <1>7, <2>1, <2>2 DEF Evaluates
  <2>4. CASE i < n
    <3>1. k[i].cell # k[n].cell
      BY <1>2, <2>4 DEF Running
    <3>2. g2.deps[k[i].cell] = g.deps[k[i].cell]
      BY <1>5, <1>6, <2>2, <3>1
    <3> QED BY <2>1, <2>3, <2>4, <3>2 DEF Evaluates
  <2>5. CASE i = n
    <3>1. k # <<>> /\ ~(i < n)
      BY <1>2, <2>5
    <3>2. g2.deps[k[i].cell] = g.deps[k[i].cell] \cup {d}
      BY <1>5, <1>6, <2>2, <2>5, <3>1
    <3>3. k[i].cell \in g2.watchers[d]
      BY <1>5, <1>6, <2>2, <2>5, <3>1, Kinds
    <3> QED BY <2>1, <2>3, <3>1, <3>2, <3>3 DEF Evaluates
  <2> QED BY <2>4, <2>5
<1>14. ASSUME NEW i \in 1 .. n + 1
       PROVE  /\ Evaluates(k2[i], store, cache, g2, Next1(k2, i))
              /\ i < n + 1 => Asks(k2[i]) = {k2[i + 1].cell} /\ ~Overflows(k2[i])
  <2>1. CASE i = n + 1
    <3>1. Next1(k2, i) = {}
      BY <1>11, <2>1 DEF Next1
    <3>2. ~(i < n + 1)
      BY <2>1
    <3>3. k2[i] = f
      BY <1>11, <2>1
    <3>4. Evaluates(k2[i], store, cache, g2, Next1(k2, i))
      BY <1>12, <3>1, <3>3
    <3> QED BY <3>2, <3>4
  <2>2. CASE i = n
    <3>1. i \in 1 .. n /\ k # <<>> /\ i + 1 = n + 1
      BY <1>2, <2>2
    <3>2. k2[i] = k[i] /\ k2[i + 1].cell = d /\ Next1(k2, i) = {d}
      BY <1>10, <1>11, <2>2, <3>1 DEF Next1
    <3>3. Asks(k[i]) = {d} /\ ~Overflows(k[i])
      BY <1>2, <2>2, <3>1
    <3>4. ~(i < n)
      BY <2>2
    <3>5. Evaluates(k[i], store, cache, g2, {d})
      BY <1>13, <3>1, <3>4
    <3>6. Evaluates(k2[i], store, cache, g2, Next1(k2, i))
      BY <3>2, <3>5
    <3>7. Asks(k2[i]) = {k2[i + 1].cell} /\ ~Overflows(k2[i])
      BY <2>2, <3>2, <3>3
    <3> QED BY <3>6, <3>7
  <2>3. CASE i < n
    <3>1. i \in 1 .. n /\ i + 1 \in 1 .. n
      BY <2>3
    <3>2. k2[i] = k[i] /\ k2[i + 1] = k[i + 1]
      BY <1>11, <3>1
    <3>3. Next1(k2, i) = {k[i + 1].cell}
      BY <1>11, <2>3, <3>2 DEF Next1
    <3>4. Asks(k[i]) = {k[i + 1].cell} /\ ~Overflows(k[i])
      BY <1>2, <2>3, <3>1 DEF Running
    <3> QED BY <1>13, <2>3, <3>1, <3>2, <3>3, <3>4
  <2>4. i = n + 1 \/ i = n \/ i < n
    OBVIOUS
  <2> QED BY <2>1, <2>2, <2>3, <2>4
<1>15. ASSUME NEW i \in 1 .. n + 1, NEW j \in 1 .. n + 1, k2[i].cell = k2[j].cell
       PROVE  i = j
  <2>1. \A m \in 1 .. n + 1 : m = n + 1 \/ m \in 1 .. n
    OBVIOUS
  <2>2. \A m \in 1 .. n : k2[m].cell # d
    BY <1>2, <1>11
  <2>3. \A m, l \in 1 .. n : k[m].cell = k[l].cell => m = l
    BY <1>2 DEF Running
  <2> QED BY <1>10, <1>11, <1>15, <2>1, <2>2, <2>3
<1> QED BY <1>8, <1>11, <1>14, <1>15 DEF Running

\* f with one more read.
Given(f, v) == [cell |-> f.cell, read |-> Append(f.read, v)]

\* An evaluation under way reads the cell that it asks for and hangs on it.
LEMMA EvaluatesRead ==
  ASSUME NEW f, NEW store \in Stores, NEW cache \in Caches, NEW g, NEW next,
         Evaluates(f, store, cache, g, next), ~Overflows(f),
         NEW c \in Asks(f), c \in Cells, Seen(store, cache)[c] # Failed, next \subseteq {c},
         NEW g2, g2.deps[f.cell] = g.deps[f.cell] \cup {c},
         \A x \in g2.deps[f.cell] : f.cell \in g2.watchers[x]
  PROVE  /\ Evaluates(Given(f, Seen(store, cache)[c]), store, cache, g2, {})
         /\ Given(f, Seen(store, cache)[c]).cell = f.cell
<1> DEFINE h == Given(f, Seen(store, cache)[c])
<1>0. h = [cell |-> f.cell, read |-> Append(f.read, Seen(store, cache)[c])]
  BY DEF Given
<1> HIDE DEF h
<1>1. PICK s \in Sights : s = Seen(store, cache)
  BY SeenTyped
<1>2. /\ Typed(f) /\ f \in Frames /\ Justified(f, s) /\ h = [cell |-> f.cell, read |-> Append(f.read, s[c])]
      /\ s[c] # Failed /\ s[c] \in TypeOf(c)
  BY <1>0, <1>1 DEF Evaluates, Typed, Sights
<1>3. Typed(h)
  BY <1>2, ReadTyped
<1>4. Justified(h, s) /\ AskedBy(h) = AskedBy(f) \cup Asks(f)
  BY <1>2, JustifiedRead
<1>5. Asks(f) = {c}
  BY AsksOne
<1>6. h.cell = f.cell
  BY <1>0
<1>7. g2.deps[h.cell] = AskedBy(h) \cup {}
  BY <1>4, <1>5, <1>6 DEF Evaluates
<1>9. /\ store[h.cell] # Failed /\ cache[h.cell] = None
      /\ \A x \in g2.deps[h.cell] : h.cell \in g2.watchers[x]
  BY <1>6 DEF Evaluates
<1> QED BY <1>1, <1>3, <1>4, <1>6, <1>7, <1>9 DEF Evaluates, h

\* The evaluation on top of the stack is given a value at once (ReadName).
LEMMA ReadOn ==
  ASSUME NEW store, NEW cache, NEW g, NEW k,
         Layer(store, cache, g), Running(store, cache, g, k), k # <<>>,
         NEW f, f = k[Len(k)], ~Overflows(f),
         NEW c \in Asks(f), c \in Cells, Seen(store, cache)[c] # Failed,
         NEW g2, g2 = Linked(g, f.cell, c),
         NEW k2 \in Seq(Frames), Len(k2) = Len(k), \A i \in 1 .. Len(k) - 1 : k2[i] = k[i],
         k2[Len(k)] = Given(f, Seen(store, cache)[c])
  PROVE  Layer(store, cache, g2) /\ Running(store, cache, g2, k2)
<1>1. g \in Edges /\ store \in Stores /\ cache \in Caches /\ k \in Seq(Frames)
  BY DEF Layer, Running
<1>2. PICK n \in Nat : n = Len(k) /\ n \in 1 .. n
  BY <1>1
<1>3. /\ \A i \in 1 .. n : Evaluates(k[i], store, cache, g, IF i < n THEN {k[i + 1].cell} ELSE {})
      /\ \A i \in 1 .. n : i < n => Asks(k[i]) = {k[i + 1].cell} /\ ~Overflows(k[i])
      /\ \A i, j \in 1 .. n : k[i].cell = k[j].cell => i = j
      /\ f = k[n]
  BY <1>2 DEF Running, Next1
<1>4. Evaluates(f, store, cache, g, {})
  <2>1. Evaluates(k[n], store, cache, g, IF n < n THEN {k[n + 1].cell} ELSE {})
    BY <1>2, <1>3
  <2>2. ~(n < n)
    OBVIOUS
  <2> QED BY <1>3, <2>1, <2>2
<1>5. f.cell \in AllDerived /\ f \in Frames /\ cache[f.cell] = None
  BY <1>4 DEF Evaluates, Typed, Frames
<1>6. /\ g2 \in Edges /\ g2.deps[f.cell] = g.deps[f.cell] \cup {c} /\ f.cell \in g2.watchers[c]
      /\ \A e \in AllDerived : e # f.cell => g2.deps[e] = g.deps[e]
      /\ \A x \in Cells : g.watchers[x] \subseteq g2.watchers[x]
  BY <1>1, <1>5, LinkedEdges
<1>7. \A e \in AllDerived : g.deps[e] \subseteq Cells
  BY <1>1 DEF Edges
<1>8. Layer(store, cache, g2)
  <2> SUFFICES ASSUME NEW e \in AllDerived, cache[e] # None
               PROVE  g2.deps[e] = g.deps[e] /\ \A x \in g.deps[e] : e \in g2.watchers[x]
    BY <1>6, LayerEdges
  <2>1. e # f.cell
    BY <1>5
  <2>2. \A x \in g.deps[e] : e \in g.watchers[x]
    BY DEF Layer, Exact
  <2> QED BY <1>6, <1>7, <2>1, <2>2
<1> DEFINE h == Given(f, Seen(store, cache)[c])
<1> HIDE DEF h
<1>10. Evaluates(h, store, cache, g2, {}) /\ h.cell = f.cell
  <2>1. \A x \in g2.deps[f.cell] : f.cell \in g2.watchers[x]
    BY <1>4, <1>5, <1>6, <1>7 DEF Evaluates
  <2> QED BY <1>1, <1>4, <1>6, <2>1, EvaluatesRead DEF h
<1>11. /\ Len(k2) = n /\ k2[n] = h
       /\ \A i \in 1 .. n : i < n => k2[i] = k[i]
       /\ \A i \in 1 .. n : k2[i].cell = k[i].cell
  <2>1. Len(k2) = n /\ k2[n] = h
    BY <1>2 DEF h
  <2>2. \A i \in 1 .. n : i < n => k2[i] = k[i]
    BY <1>2
  <2>3. \A i \in 1 .. n : i < n \/ i = n
    OBVIOUS
  <2> QED BY <1>3, <1>10, <2>1, <2>2, <2>3
<1>12. ASSUME NEW i \in 1 .. n
       PROVE  /\ Evaluates(k2[i], store, cache, g2, Next1(k2, i))
              /\ i < n => Asks(k2[i]) = {k2[i + 1].cell} /\ ~Overflows(k2[i])
  <2>1. CASE i = n
    <3>1. Next1(k2, i) = {} /\ ~(i < n)
      BY <1>11, <2>1 DEF Next1
    <3>2. k2[i] = h
      BY <1>11, <2>1
    <3> QED BY <1>10, <3>1, <3>2
  <2>2. CASE i < n
    <3>1. i + 1 \in 1 .. n /\ k2[i] = k[i] /\ k2[i + 1].cell = k[i + 1].cell
      BY <1>11, <2>2
    <3>2. Next1(k2, i) = {k[i + 1].cell}
      BY <1>11, <2>2, <3>1 DEF Next1
    <3>3. Evaluates(k[i], store, cache, g, {k[i + 1].cell})
      BY <1>3, <2>2
    <3>4. k[i].cell # f.cell
      BY <1>2, <1>3, <2>2
    <3>5. k[i].cell \in AllDerived /\ cache[k[i].cell] = None
      BY <3>3 DEF Evaluates, Typed, Frames
    <3>6. g2.deps[k[i].cell] = g.deps[k[i].cell]
      BY <1>6, <3>4, <3>5
    <3>7. \A x \in g.deps[k[i].cell] : k[i].cell \in g2.watchers[x]
      BY <1>6, <1>7, <3>3, <3>5 DEF Evaluates
    <3>8. Evaluates(k[i], store, cache, g2, {k[i + 1].cell})
      BY <3>3, <3>5, <3>6, <3>7, EvaluatesKept
    <3>9. Asks(k[i]) = {k[i + 1].cell} /\ ~Overflows(k[i])
      BY <1>3, <2>2
    <3> QED BY <3>1, <3>2, <3>8, <3>9
  <2>3. i = n \/ i < n
    OBVIOUS
  <2> QED BY <2>1, <2>2, <2>3
<1>13. \A i, j \in 1 .. n : k2[i].cell = k2[j].cell => i = j
  BY <1>3, <1>11
<1> QED BY <1>8, <1>11, <1>12, <1>13 DEF Running

\* The evaluation on top that wants nothing more has the outcome of its cell.
LEMMA TopFinished ==
  ASSUME NEW store, NEW cache, NEW g, NEW k,
         Layer(store, cache, g), Running(store, cache, g, k), k # <<>>,
         NEW f, f = k[Len(k)], ~Overflows(f), Wanted(f) = {}
  PROVE  /\ f.cell \in AllDerived /\ store[f.cell] # Failed /\ cache[f.cell] = None
         /\ Result(f) = Outcome(f.cell, Seen(store, cache))
         /\ Result(f) \in TypeOf(f.cell) /\ Result(f) \in Contents
         /\ Result(f) # None /\ Result(f) # Failed
         /\ g.deps[f.cell] = Footprint(f.cell, Seen(store, cache))
         /\ \A c \in g.deps[f.cell] : f.cell \in g.watchers[c]
<1>1. store \in Stores /\ cache \in Caches /\ k \in Seq(Frames)
  BY DEF Layer, Running
<1>2. PICK n \in Nat : n = Len(k) /\ n \in 1 .. n
  BY <1>1
<1>3. Evaluates(k[n], store, cache, g, Next1(k, n)) /\ k[n] = f
  BY <1>2 DEF Running
<1>4. Next1(k, n) = {}
  BY <1>2 DEF Next1
<1>5. Evaluates(f, store, cache, g, {})
  BY <1>3, <1>4
<1>6. PICK s \in Sights : s = Seen(store, cache)
  BY <1>1, SeenTyped
<1>7. /\ Typed(f) /\ f.cell \in AllDerived /\ Justified(f, s)
      /\ store[f.cell] # Failed /\ cache[f.cell] = None
      /\ g.deps[f.cell] = AskedBy(f) /\ \A c \in g.deps[f.cell] : f.cell \in g.watchers[c]
  BY <1>5, <1>6, ReadsBounded DEF Evaluates
<1>8. Asks(f) = {} /\ ~Answerable(f, s)
  BY DEF Asks, Answerable
<1>9. Footprint(f.cell, s) = AskedBy(f) \cup Asks(f) /\ Outcome(f.cell, s) = Result(f)
  BY <1>7, <1>8, OutcomeOf
<1>10. Result(f) \in TypeOf(f.cell)
  BY <1>7, ResultTyped
<1>11. Result(f) \in Contents /\ Result(f) # None /\ Result(f) # Failed
  BY <1>7, <1>10, NoValue
<1> QED BY <1>6, <1>7, <1>8, <1>9, <1>10, <1>11

\* Its value is cached, handed to the evaluation below, and is what follows from the store.
LEMMA Popped ==
  ASSUME NEW store, NEW cache, NEW g, NEW k,
         Layer(store, cache, g), Running(store, cache, g, k), k # <<>>,
         NEW f, f = k[Len(k)], ~Overflows(f), Wanted(f) = {},
         NEW cache2 \in Caches, cache2[f.cell] = Result(f),
         \A e \in AllDerived : e # f.cell => cache2[e] = cache[e],
         NEW k2 \in Seq(Frames), Len(k2) = Len(k) - 1,
         \A i \in 1 .. Len(k) - 1 :
           k2[i] = IF i = Len(k) - 1 THEN Given(k[i], Result(f)) ELSE k[i]
  PROVE  /\ Layer(store, cache2, g) /\ Running(store, cache2, g, k2)
         /\ Levels(store)[Depth][f.cell] = Result(f)
<1> DEFINE v == Result(f)
           s == Seen(store, cache)
           t == Seen(store, cache2)
<1>1. store \in Stores /\ cache \in Caches /\ k \in Seq(Frames)
  BY DEF Layer, Running
<1>2. PICK n \in Nat : n = Len(k) /\ n \in 1 .. n
  BY <1>1
<1>3. /\ f.cell \in AllDerived /\ store[f.cell] # Failed /\ cache[f.cell] = None
      /\ v = Outcome(f.cell, s) /\ v # None /\ v # Failed
      /\ g.deps[f.cell] = Footprint(f.cell, s)
      /\ \A c \in g.deps[f.cell] : f.cell \in g.watchers[c]
  BY TopFinished
<1>4. /\ Layer(store, cache2, g)
      /\ \A c \in Cells : s[c] # Failed => t[c] = s[c]
      /\ t[f.cell] = v
  <2> HIDE DEF v
  <2>1. cache2[f.cell] = v
    BY DEF v
  <2> QED BY <1>3, <2>1, LayerGrown
<1>5. Levels(store)[Depth][f.cell] = v
  BY <1>3, <1>4, LayerCoherent, Kinds DEF Below
<1> HIDE DEF v
<1>6. PICK m \in Nat : m = n - 1
  BY <1>2
<1>7. /\ Len(k2) = m
      /\ \A i \in 1 .. m : k2[i] = IF i = m THEN Given(k[i], v) ELSE k[i]
      /\ \A i \in 1 .. m : i \in 1 .. n /\ i < n /\ i + 1 \in 1 .. n /\ k[i] \in Frames
  BY <1>1, <1>2, <1>6 DEF v
<1>8. \A i \in 1 .. m : k2[i].cell = k[i].cell
  BY <1>7 DEF Given
<1>9. ASSUME NEW i \in 1 .. m
      PROVE  /\ Evaluates(k[i], store, cache2, g, {k[i + 1].cell})
             /\ Asks(k[i]) = {k[i + 1].cell} /\ ~Overflows(k[i])
  <2>1. /\ Evaluates(k[i], store, cache, g, Next1(k, i))
        /\ Asks(k[i]) = {k[i + 1].cell} /\ ~Overflows(k[i])
    BY <1>2, <1>7 DEF Running
  <2>2. Next1(k, i) = {k[i + 1].cell}
    BY <1>2, <1>7 DEF Next1
  <2>3. k[i].cell # f.cell
    <3>1. i # n /\ k[n] = f
      BY <1>2, <1>7
    <3> QED BY <1>2, <1>7, <3>1 DEF Running
  <2>4. k[i].cell \in AllDerived /\ cache[k[i].cell] = None
    BY <2>1 DEF Evaluates, Typed, Frames
  <2>5. cache2[k[i].cell] = None
    BY <2>3, <2>4
  <2>6. \A c \in g.deps[k[i].cell] : k[i].cell \in g.watchers[c]
    BY <2>1 DEF Evaluates
  <2>7. Evaluates(k[i], store, cache2, g, {k[i + 1].cell})
    BY <1>4, <2>1, <2>2, <2>5, <2>6, EvaluatesKept
  <2> QED BY <2>1, <2>7
<1>10. ASSUME NEW i \in 1 .. m
       PROVE  /\ Evaluates(k2[i], store, cache2, g, Next1(k2, i))
              /\ i < m => Asks(k2[i]) = {k2[i + 1].cell} /\ ~Overflows(k2[i])
  <2>1. CASE i < m
    <3>1. i + 1 \in 1 .. m /\ k2[i] = k[i] /\ k2[i + 1].cell = k[i + 1].cell
      BY <1>7, <1>8, <2>1
    <3>2. Next1(k2, i) = {k[i + 1].cell}
      BY <1>7, <2>1, <3>1 DEF Next1
    <3> QED BY <1>9, <3>1, <3>2
  <2>2. CASE i = m
    <3>1. i + 1 = n /\ k[i + 1] = f
      BY <1>2, <1>6, <2>2
    <3>2. k2[i] = Given(k[i], v) /\ Next1(k2, i) = {} /\ ~(i < m)
      BY <1>7, <2>2 DEF Next1
    <3>3. Evaluates(k[i], store, cache2, g, {f.cell}) /\ Asks(k[i]) = {f.cell} /\ ~Overflows(k[i])
      BY <1>9, <3>1
    <3>4. g.deps[k[i].cell] = g.deps[k[i].cell] \cup {f.cell}
      BY <3>3 DEF Evaluates
    <3>5. f.cell \in Cells /\ f.cell \in Asks(k[i])
      BY <1>3, <3>3, Kinds
    <3>6. \A c \in g.deps[k[i].cell] : k[i].cell \in g.watchers[c]
      BY <3>3 DEF Evaluates
    <3>7. Evaluates(Given(k[i], t[f.cell]), store, cache2, g, {})
      BY <1>1, <1>3, <1>4, <3>3, <3>4, <3>5, <3>6, EvaluatesRead
    <3> QED BY <1>4, <3>2, <3>7
  <2>3. i = m \/ i < m
    OBVIOUS
  <2> QED BY <2>1, <2>2, <2>3
<1>11. \A i, j \in 1 .. m : k2[i].cell = k2[j].cell => i = j
  <2>1. \A i, j \in 1 .. n : k[i].cell = k[j].cell => i = j
    BY <1>2 DEF Running
  <2> QED BY <1>7, <1>8, <2>1
<1>12. Running(store, cache2, g, k2)
  BY <1>7, <1>10, <1>11 DEF Running
<1> QED BY <1>4, <1>5, <1>12 DEF v

\* The evaluation f on top of k cannot be answered.
Stuck(f, store, k) ==
  \/ Overflows(f)
  \/ \E c \in Asks(f) :
       c \notin Cells \/ store[c] = Failed \/ \E i \in 1 .. Len(k) : k[i].cell = c

\* When the evaluation on top cannot be answered, no cell of the stack has a value: the
\* sight without them already shows everything recomputed from it.
LEMMA StuckFails ==
  ASSUME NEW store, NEW cache, NEW g, NEW k,
         Layer(store, cache, g), Running(store, cache, g, k), k # <<>>,
         NEW f, f = k[Len(k)], Stuck(f, store, k)
  PROVE  \A i \in 1 .. Len(k) : Levels(store)[Depth][k[i].cell] = Failed
<1> DEFINE s == Seen(store, cache)
<1>1. store \in Stores /\ cache \in Caches /\ k \in Seq(Frames) /\ s \in Sights
  BY SeenTyped DEF Layer, Running
<1>2. PICK n \in Nat : n = Len(k) /\ n \in 1 .. n
  BY <1>1
<1>3. PICK m : m = Levels(store)[Depth]
  OBVIOUS
<1>4. m \in Sights /\ Recomputed(store, m) = m /\ Below(s, m)
  BY <1>1, <1>3, LevelsSettle, LayerCoherent
<1>5. ASSUME NEW c \in Cells, store[c] = Failed PROVE m[c] = Failed
  BY <1>4, <1>5 DEF Recomputed
<1> DEFINE C == {k[i].cell : i \in 1 .. n}
           t == [c \in Cells |-> IF c \in C THEN Failed ELSE m[c]]
<1>6. t \in Sights
  <2>1. \A c \in Cells : t[c] \in Contents \cup {Failed} /\ t[c] \in TypeOf(c) \cup {Failed}
    BY <1>4 DEF Sights
  <2> HIDE DEF C
  <2>2. t \in [Cells -> Contents \cup {Failed}]
    BY <2>1
  <2> HIDE DEF t
  <2> QED BY <2>1, <2>2 DEF Sights
<1>7. ASSUME NEW i \in 1 .. n
      PROVE  /\ k[i].cell \in AllDerived /\ s[k[i].cell] = Failed
             /\ Typed(k[i]) /\ Justified(k[i], s)
  <2>1. Evaluates(k[i], store, cache, g, Next1(k, i))
    BY <1>2 DEF Running
  <2> QED BY <1>1, <2>1, SeenTyped, ReadsBounded DEF Evaluates
<1>8. \A c \in Cells : s[c] # Failed => t[c] = s[c]
  BY <1>4, <1>7 DEF Below
<1>9. ASSUME NEW i \in 1 .. n
      PROVE  ~Answerable(k[i], t) /\ (Overflows(k[i]) \/ Wanted(k[i]) # {})
  <2>1. CASE i = n
    <3>1. k[i] = f
      BY <1>2, <2>1
    <3>2. CASE Overflows(f)
      BY <3>1, <3>2 DEF Answerable
    <3>3. CASE \E c \in Asks(f) : c \notin Cells \/ store[c] = Failed \/ \E j \in 1 .. n : k[j].cell = c
      <4>1. PICK c \in Asks(f) : c \notin Cells \/ store[c] = Failed \/ \E j \in 1 .. n : k[j].cell = c
        BY <3>3
      <4>2. c \in Cells => t[c] = Failed
        BY <1>5, <4>1
      <4>3. \A x \in Asks(f) : x = c
        BY <4>1, AsksOne
      <4> HIDE DEF t
      <4> QED BY <3>1, <4>1, <4>2, <4>3 DEF Answerable, Asks
    <3> QED BY <1>2, <3>2, <3>3 DEF Stuck
  <2>2. CASE i < n
    <3>1. Asks(k[i]) = {k[i + 1].cell} /\ i + 1 \in 1 .. n
      <4> HIDE DEF C, t, s
      <4>1. i + 1 \in 1 .. n
        BY <1>2, <2>2
      <4> QED BY <1>2, <2>2, <4>1 DEF Running
    <3>2. k[i + 1].cell \in Cells => t[k[i + 1].cell] = Failed
      BY <3>1
    <3> HIDE DEF t
    <3> QED BY <3>1, <3>2 DEF Answerable, Asks
  <2>3. i = n \/ i < n
    OBVIOUS
  <2> QED BY <2>1, <2>2, <2>3
<1> HIDE DEF s, t
<1>10. ASSUME NEW i \in 1 .. n PROVE Outcome(k[i].cell, t) = Failed
  <2>1. Justified(k[i], t)
    <3>1. \A c \in AskedBy(k[i]) : c \in Cells => t[c] = s[c]
      BY <1>7, <1>8, AskedSeen
    <3> QED BY <1>7, <3>1, JustifiedElsewhere
  <2> QED BY <1>6, <1>7, <1>9, <2>1, OutcomeOf
<1>11. Below(t, m)
  BY DEF Below, t
<1>12. Below(Recomputed(store, t), t)
  <2> SUFFICES ASSUME NEW c \in Cells, Recomputed(store, t)[c] # Failed
               PROVE  t[c] = Recomputed(store, t)[c]
    BY DEF Below
  <2>1. Recomputed(store, m)[c] = Recomputed(store, t)[c]
    BY <1>1, <1>4, <1>6, <1>11, RecomputedMonotone DEF Below
  <2>2. c \notin C
    <3> SUFFICES ASSUME NEW i \in 1 .. n, c = k[i].cell PROVE FALSE
      OBVIOUS
    <3>1. c \in AllDerived /\ c \notin AllStored
      BY <1>7, Kinds
    <3>2. Recomputed(store, t)[c] = IF store[c] = Failed THEN Failed ELSE Outcome(c, t)
      BY <3>1 DEF Recomputed
    <3> QED BY <1>10, <3>2
  <2>3. t[c] = m[c]
    BY <2>2 DEF t
  <2> QED BY <1>4, <2>1, <2>3
<1>13. Below(m, t)
  <2>1. Depth \in 0 .. Depth
    BY DerivedFinite
  <2> QED BY <1>1, <1>3, <1>6, <1>12, <2>1, LevelsLeast
<1>14. ASSUME NEW i \in 1 .. n PROVE m[k[i].cell] = Failed
  <2>1. k[i].cell \in Cells
    BY <1>7, Kinds
  <2>2. t[k[i].cell] = Failed
    BY <2>1 DEF t
  <2> QED BY <1>13, <2>1, <2>2 DEF Below
<1> QED BY <1>2, <1>3, <1>14
=============================================================================
