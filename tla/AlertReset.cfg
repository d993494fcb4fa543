SPECIFICATION AlertRulesSpec
CONSTANTS
  RuleCount = 1
  ConnectionRules = {}
  RequiredBreaches = 1
  Evaluation = {1}
  MaxVersions = 1
  MaxEdits = 2
  MaxLinks = 0
  MaxSamples = 1
INVARIANTS
  ResetIsFinal
CHECK_DEADLOCK FALSE
