SPECIFICATION Spec
CONSTANTS
  App = App
  Identities = {x}
  AppInts = {}
  ElementInts = {"size"}
  AppLinks = {"members"}
  AppDerived = {"total"}
  ElementDerived = {"twice"}
  Expression <- Clash
  MaxInt = 2
  Inputs = {0, 1}
  MaxLength = 1
  MaxWrites = 2
  None = None
  Failed = Failed
INVARIANTS AnswerCorrect
