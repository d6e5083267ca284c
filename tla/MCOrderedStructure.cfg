SPECIFICATION Spec
CONSTANTS
  Identities = {a, b, c}
  Keys = {0, 1}
  None = None
  MaxLength = 4
SYMMETRY IdentitySymmetry
INVARIANTS TypeOK ViewMaps OrderExact
PROPERTIES RemoveExact MoveExact NavigationFollowsMoves
