SPECIFICATION Spec
CONSTANTS
  Designations = {a, b}
  Programs <- OrderedBodies
  None = None
  MaxIdentity = 1
INVARIANTS NeverPanics
