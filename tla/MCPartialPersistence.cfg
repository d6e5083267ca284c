SPECIFICATION Spec
CONSTANTS
  Designations = {a, b}
  Programs <- OrderedBodies
  None = None
  MaxIdentity = 2
INVARIANTS TypeOK SummaryExact ProcessAgrees
PROPERTIES TokensKept AttemptsProgress ImplementsFullWorld FailuresMeant
SYMMETRY DesignationSymmetry
