SPECIFICATION Spec
CONSTANTS
  App = App
  Identities = {x}
  AppInts = {"flag"}
  ElementInts = {"size"}
  AppLinks = {"selected"}
  AppDerived = {"shown", "twin", "picked"}
  ElementDerived = {"twice"}
  Expression <- Designated
  MaxInt = 2
  Inputs = {0, 1}
  MaxLength = 1
  MaxWrites = 2
  None = None
  Failed = Failed
INVARIANTS CacheCoherent AnswerCorrect EdgesExact CyclesCaught
PROPERTY EvaluationShrinks
