SPECIFICATION Spec
CONSTANTS
  Roots = {r}
  Plains = {p}
  Maybes = {m}
  None = None
  Captures = FALSE
  MaxIdentity = 2
  MaxScope = 1
  MaxCopies = 1
  MaxRelations = 1
  MaxWrites = 2
INVARIANTS TypeOK ProvenanceSound MembershipLive DesignationLive
PROPERTIES DeadStayDead ImplementsAtomicWorld
