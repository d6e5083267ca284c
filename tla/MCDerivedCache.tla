--------------------------- MODULE MCDerivedCache ---------------------------
(***************************************************************************)
(* Small programs for DerivedCache.                                        *)
(***************************************************************************)
EXTENDS DerivedCache

Unbound == [member |-> None, accumulator |-> None, element |-> None]
Plus(a, b) == [op |-> "add", args |-> <<a, b>>] @@ Unbound
Choice(c, a, b) == [op |-> "if", args |-> <<c, a, b>>] @@ Unbound
Follow(d, m) == [op |-> "follow", args |-> <<d>>, member |-> m] @@ Unbound
Keep(s, e, m) == [op |-> "filter", args |-> <<s>>, member |-> m, element |-> e] @@ Unbound
Add(s, a, e, m) ==
  [op |-> "sum", args |-> <<s>>, member |-> m, accumulator |-> a, element |-> e]

\* derived open = filter members as e { e.size }
\* derived total = reduce open from 0 as (sum, e) { sum + e.twice },  twice = size + size
Aggregate ==
  [open |-> Keep("members", "e", "size"), total |-> Add("open", "sum", "e", "twice"),
   twice |-> Plus("size", "size")]

\* derived shown = if flag then twin else picked,  picked = selected.twice
\* derived twin = if flag then shown else flag: a cycle while flag is not 0
Designated ==
  [shown |-> Choice("flag", "twin", "picked"), twin |-> Choice("flag", "shown", "flag"),
   picked |-> Follow("selected", "twice"), twice |-> Plus("size", "size")]

\* As Aggregate without the filter, but the accumulator has the name of a member.
Clash == [total |-> Add("members", "size", "e", "twice"), twice |-> Plus("size", "size")]
=============================================================================
