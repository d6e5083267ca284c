-------------------------- MODULE OrderedStructure --------------------------
(***************************************************************************)
(* Ordered structure: one stored `[live T]` membership, the views derived  *)
(* from it (`filter`, and `filter ... order by`) and the statements that   *)
(* address a row of any of them: insert, remove, move, relative            *)
(* navigation, runtime indices.                                            *)
(*                                                                         *)
(* The state is the world the running action sees; that an action is all   *)
(* or nothing is the subject of Lifetime.  The predicate of the filter is  *)
(* abstracted to the set of the identities it holds for: it reads one      *)
(* element at a time.  A statement that fails takes no step.               *)
(*                                                                         *)
(* An operator named Mutant... is a wrong version of the one after it,     *)
(* which a property must tell from it; the specification uses none.        *)
(***************************************************************************)
EXTENDS Integers, SequencesExt

CONSTANTS
  Identities,
  Keys,        \* the Ints of the member that orders the ordered views
  None,        \* the absent target of a `maybe live T`
  MaxLength    \* bound: rows of the membership

ASSUME StructureAssumption ==
  /\ Keys \subseteq Int
  /\ None \notin Identities /\ MaxLength \in Nat

VARIABLES
  members,  \* the stored membership: a sequence of identities
  shown,    \* the identities for which the predicate of the filter holds
  key,      \* identity -> its key
  selected  \* a `maybe live T` designation

vars == <<members, shown, key, selected>>
-----------------------------------------------------------------------------
(* The views.                                                              *)

\* The loop of eval_filter: the rows of s that name an identity of T, in their order.
Retained(s, T) ==
  LET kept[n \in 0 .. Len(s)] ==
        IF n = 0 THEN <<>>
        ELSE IF s[n] \in T THEN Append(kept[n - 1], s[n]) ELSE kept[n - 1]
  IN  kept[Len(s)]

\* eval_filter without `order by`
View == Retained(members, shown)

MutantPrecedesReversed(direction, i, j) ==
  LET a == key[members[i]]
      b == key[members[j]]
  IN  IF direction = "descending" THEN a > b \/ (a = b /\ i > j) ELSE a < b \/ (a = b /\ i < j)

\* Its comparison of retained rows i and j of the source: by key, then by position.
Precedes(direction, i, j) ==
  LET a == key[members[i]]
      b == key[members[j]]
  IN  \/ IF direction = "descending" THEN a > b ELSE a < b
      \/ a = b /\ i < j

\* eval_filter with `order by <key> ascending|descending`
OrderedView(direction) ==
  LET rows == CHOOSE q \in SetToSeqs({i \in DOMAIN members : members[i] \in shown}) :
                \A i, j \in DOMAIN q : i < j => Precedes(direction, q[i], q[j])
  IN  [k \in DOMAIN rows |-> members[rows[k]]]

Directions == {"ascending", "descending"}
Structure(via) ==
  CASE via = "members" -> members
    [] via = "view" -> View
    [] via \in Directions -> OrderedView(via)
-----------------------------------------------------------------------------
(* Occurrences.                                                            *)

Occurrences(x, s) == {i \in DOMAIN s : s[i] = x}

\* resolve_unique_occurrence, as the set of at most one row it finds
UniqueOccurrence(x, s) ==
  {i \in Occurrences(x, s) : \A j \in Occurrences(x, s) : j = i}

MutantNeighborsShortOfEnd(x, s, direction) ==
  {s[IF direction = "next" THEN i + 1 ELSE i - 1] :
     i \in {j \in UniqueOccurrence(x, s) : IF direction = "next" THEN j + 1 < Len(s) ELSE j > 1}}

\* resolve_unique_neighbor, likewise
Neighbors(x, s, direction) ==
  {s[IF direction = "next" THEN i + 1 ELSE i - 1] :
     i \in {j \in UniqueOccurrence(x, s) : IF direction = "next" THEN j < Len(s) ELSE j > 1}}

MutantMappedByFirst(backing, selection) ==
  [k \in DOMAIN selection |->
     CHOOSE i \in Occurrences(selection[k], backing) :
       \A j \in Occurrences(selection[k], backing) : i <= j]

\* map_selection_to_backing: walking the backing rows, each row of the selection takes
\* the first one that names its identity.
Mapped(backing, selection) ==
  LET rows[n \in 0 .. Len(backing)] ==
        IF n = 0 THEN <<>>
        ELSE LET found == rows[n - 1]
             IN  IF Len(found) < Len(selection) /\ backing[n] = selection[Len(found) + 1]
                 THEN Append(found, n) ELSE found
  IN  rows[Len(backing)]

MutantPlacedCopied(backing, from, to, placement) ==
  InsertAt(backing, IF placement = "before" THEN to ELSE to + 1, backing[from])
MutantPlacedUnshifted(backing, from, to, placement) ==
  LET rest == RemoveAt(backing, from)
      anchor == IF from < to THEN to - 1 ELSE to
  IN  InsertAt(rest, IF placement = "before" THEN to ELSE anchor + 1, backing[from])

\* The row leaves, which shifts a later anchor, and is put back beside the anchor.
Placed(backing, from, to, placement) ==
  LET rest == RemoveAt(backing, from)
      anchor == IF from < to THEN to - 1 ELSE to
  IN  InsertAt(rest, IF placement = "before" THEN anchor ELSE anchor + 1, backing[from])
-----------------------------------------------------------------------------
(* Statements.                                                             *)

\* invoke_scoped_insert
Insert(x) ==
  /\ Len(members) < MaxLength
  /\ members' = Append(members, x)
  /\ UNCHANGED <<shown, key, selected>>

\* The rows of s that a selector names: <<"index", i>>, counted from 0, or
\* <<"designation", x>>, where x may be absent.
RowsNamed(selector, s) ==
  IF selector[1] = "index" THEN {selector[2] + 1} \cap DOMAIN s
  ELSE UniqueOccurrence(selector[2], s)

\* invoke_structural_remove: `remove <selector> from members`
RemoveMember(selector) ==
  /\ \E i \in RowsNamed(selector, members) : members' = RemoveAt(members, i)
  /\ UNCHANGED <<shown, key, selected>>

MutantRemoveShownByIdentity(selector) ==
  /\ \E i \in RowsNamed(selector, View) : members' = RemoveFirst(members, View[i])
  /\ UNCHANGED <<shown, key, selected>>

\* invoke_filtered_structural_remove: `remove <selector> from view`
RemoveShown(selector) ==
  /\ \E i \in RowsNamed(selector, View) :
       /\ i \in DOMAIN Mapped(members, View)
       /\ members' = RemoveAt(members, Mapped(members, View)[i])
  /\ UNCHANGED <<shown, key, selected>>

\* invoke_structural_move_common and move_unique_relative:
\* `move moving before|after anchor in members|view`
Move(via, moving, anchor, placement) ==
  LET selection == Structure(via)
      rows == Mapped(members, selection)
  IN  /\ Len(rows) = Len(selection)
      /\ \E i \in UniqueOccurrence(moving, selection), j \in UniqueOccurrence(anchor, selection) :
           members' = IF i = j THEN members ELSE Placed(members, rows[i], rows[j], placement)
      /\ UNCHANGED <<shown, key, selected>>

\* apply_binary: `selected = next|previous selected in <structure>`
Navigate(via, direction) ==
  /\ selected # None
  /\ selected' \in Neighbors(selected, Structure(via), direction)
  /\ UNCHANGED <<members, shown, key>>

\* runtime_index_target: the identity a row designates now.
Select(via, i) ==
  /\ i + 1 \in DOMAIN Structure(via)
  /\ selected' = Structure(via)[i + 1]
  /\ UNCHANGED <<members, shown, key>>

\* exec_statement: `through <structure>[i].key = k`, or of the member the filter reads.
WriteKey(via, i, k) ==
  /\ i + 1 \in DOMAIN Structure(via)
  /\ key' = [key EXCEPT ![Structure(via)[i + 1]] = k]
  /\ UNCHANGED <<members, shown, selected>>
WriteShown(via, i, show) ==
  /\ i + 1 \in DOMAIN Structure(via)
  /\ LET x == Structure(via)[i + 1]
     IN  shown' = IF show THEN shown \cup {x} ELSE shown \ {x}
  /\ UNCHANGED <<members, key, selected>>
-----------------------------------------------------------------------------
Init ==
  /\ members = <<>> /\ selected = None
  /\ shown \in SUBSET Identities
  /\ key \in [Identities -> Keys]

Backings == {"members", "view"}
Structures == Backings \cup Directions
Indices == 0 .. MaxLength
Selectors == ({"index"} \X Indices) \cup ({"designation"} \X (Identities \cup {None}))

Next ==
  \/ \E x \in Identities : Insert(x)
  \/ \E s \in Selectors : RemoveMember(s) \/ RemoveShown(s)
  \/ \E via \in Backings, m, a \in Identities, p \in {"before", "after"} : Move(via, m, a, p)
  \/ \E via \in Structures, d \in {"next", "previous"} : Navigate(via, d)
  \/ \E via \in Structures, i \in Indices :
       \/ Select(via, i)
       \/ \E k \in Keys : WriteKey(via, i, k)
       \/ \E show \in BOOLEAN : WriteShown(via, i, show)

Spec == Init /\ [][Next]_vars
-----------------------------------------------------------------------------
(* Properties.                                                             *)

\* The shape of the state.
TypeOK ==
  /\ members \in Seq(Identities) /\ Len(members) <= MaxLength
  /\ shown \subseteq Identities
  /\ key \in [Identities -> Keys]
  /\ selected \in Identities \cup {None}

\* The position in the membership of row k of the view.
ShownRow(k) ==
  CHOOSE i \in DOMAIN members :
    /\ members[i] \in shown
    /\ Cardinality({j \in 1 .. i : members[j] \in shown}) = k

\* The greedy walk of map_selection_to_backing and of
\* invoke_filtered_structural_remove finds every row of a view, whatever duplicates
\* and hidden rows lie between: "could not be mapped" is never the answer, and no
\* row is taken for another occurrence of the same identity.
ViewMaps ==
  /\ Len(Mapped(members, View)) = Len(View)
  /\ \A k \in DOMAIN View : Mapped(members, View)[k] = ShownRow(k)

\* A removal takes exactly the row it names: of the duplicates in a view, the one that
\* was indexed, and no row of a designated identity is left.
RemoveExact ==
  [][\A s \in Selectors :
       /\ RemoveShown(s) =>
            \E k \in RowsNamed(s, View) : members' = RemoveAt(members, ShownRow(k))
       /\ (RemoveShown(s) \/ RemoveMember(s)) /\ s[1] = "designation" =>
            s[2] \notin ToSet(members')]_vars

Others(s, x) == Retained(s, Identities \ {x})
Beside(s, x, y, placement) ==
  \E i \in 1 .. Len(s) - 1 :
    IF placement = "before" THEN s[i] = x /\ s[i + 1] = y ELSE s[i] = y /\ s[i + 1] = x

\* A move moves one row: the others, the hidden ones among them, keep their relative
\* order, and the moved row stands beside its anchor in the membership and, if both are
\* shown, in the view; relative to itself it does not move.
MoveExact ==
  [][\A via \in Backings, m, a \in Identities, p \in {"before", "after"} :
       Move(via, m, a, p) =>
         IF m = a THEN members' = members
         ELSE /\ Others(members', m) = Others(members, m)
              /\ Len(members') = Len(members)
              /\ Beside(members', m, a, p)
              /\ {m, a} \subseteq shown => Beside(View', m, a, p)]_vars

\* An ordered view holds the rows of the filtered one, by key in the declared
\* direction, and rows of equal keys as the membership has them, for `descending` too.
OrderExact ==
  \A direction \in Directions :
    LET rows == OrderedView(direction) IN
    /\ \A k \in Keys :
         LET T == {x \in Identities : key[x] = k} IN Retained(rows, T) = Retained(View, T)
    /\ \A i, j \in DOMAIN rows :
         i < j => IF direction = "descending" THEN key[rows[i]] >= key[rows[j]]
                  ELSE key[rows[i]] <= key[rows[j]]

\* Navigation goes where a move has put the row: from the moved row one step towards
\* the anchor reaches it, through the membership and through the view.
NavigationFollowsMoves ==
  [][\A via \in Backings, m, a \in Identities, p \in {"before", "after"} :
       Move(via, m, a, p) /\ m # a =>
         \A s \in {members', View'} :
           {m, a} \subseteq ToSet(s) =>
             /\ Neighbors(m, s, IF p = "before" THEN "next" ELSE "previous") = {a}
             /\ Neighbors(a, s, IF p = "before" THEN "previous" ELSE "next") = {m}]_vars
=============================================================================
