SPECIFICATION Spec
CONSTANTS
  Bits = 3
  Precision = 2
  Q = 1
  MaxFloat = 4
  Exponents = 3
  Sources <- Programs
  Checking <- Compile
  Starting <- Boot
  Running <- RunAction
  States <- WorldOf
  Values <- ShownOf
INVARIANTS Sound Judged
PROPERTY ImplementsLanguage
CHECK_DEADLOCK FALSE
