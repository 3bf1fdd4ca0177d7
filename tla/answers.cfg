SPECIFICATION AnswersSpec
CONSTANTS
  Channels = {"api", "gateway", "uipath"}
  MaxExecutions = 3
  Seconds = {0, 5}
  HalfSeconds <- HalfSecondsAround
  NoHint = NoHint
  Case <- Cases
  Field = {"number"}
  DocumentType <- Types
  Confidence <- Numbers
  Threshold = {0, 80}
  Configured = TRUE
INVARIANTS OutcomeIsTruthful JobNeedsToken EffectPerExecution ResultsAreGuarded RatesAreFractions
CHECK_DEADLOCK FALSE
