SPECIFICATION Spec
CONSTANTS
  Roots = {r}
  Plains = {p}
  Maybes = {m}
  None = None
  Captures = TRUE
  MaxIdentity = 1
  MaxScope = 1
  MaxCopies = 1
  MaxRelations = 0
  MaxWrites = 2
INVARIANTS PlainTargetLive
