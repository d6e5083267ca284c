SPECIFICATION Spec
CONSTANTS
  App = App
  Identities = {x}
  AppInts = {}
  ElementInts = {"size"}
  AppLinks = {"members"}
  AppDerived = {"open", "total"}
  ElementDerived = {"twice"}
  Expression <- Aggregate
  MaxInt = 2
  Inputs = {0, 1}
  MaxLength = 2
  MaxWrites = 2
  None = None
  Failed = Failed
INVARIANTS TypeOK CacheCoherent AnswerCorrect EdgesExact
PROPERTIES EvaluationEnds EvaluationShrinks ImplementsRecomputedWorld
