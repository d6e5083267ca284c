SPECIFICATION Spec
CONSTANTS
  Bits = 5
  Precision = 3
  Q = 2
  MaxFloat = 40
  Exponents = 8
INVARIANTS ComparisonExact Indistinguishable Closed
