SPECIFICATION Spec
CONSTANTS
  Designations = {a, b}
  Programs <- LateReads
  None = None
  MaxIdentity = 2
PROPERTIES ImplementsFullWorld
