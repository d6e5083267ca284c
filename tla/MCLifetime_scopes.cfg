SPECIFICATION Spec
CONSTANTS
  Roots = {r}
  Plains = {p}
  Maybes = {m}
  None = None
  Captures = TRUE
  MaxIdentity = 1
  MaxScope = 2
  MaxCopies = 2
  MaxRelations = 2
  MaxWrites = 2
INVARIANTS TypeOK MembershipLive
PROPERTIES ImplementsAtomicWorld
