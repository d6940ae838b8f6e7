\* Every method and every mode on three rules, with cancellation, panics and the StopTag.
SPECIFICATION Spec
CONSTANTS
  Rules = {"a", "b", "c"}
  SortRules <- MCSortRules
  Salience <- MCSalience
  Options <- MCOptions
  MaxInt = 7
INVARIANTS NoRuleOutlivesTheCall PhasesDoNotOverlap OutcomeIsHonest HigherSalienceFirst
PROPERTIES FailFast ExecutionEnds
\* an execution stops when it has returned
CHECK_DEADLOCK FALSE
