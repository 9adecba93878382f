SPECIFICATION MCSpec
CONSTANTS
  Signals = {"alarm", "ring", "raw", "other"}
  Raw = {"raw"}
  Rules <- TwoRules
  Matches <- TwoMatches
  Script <- TwoScripts
  Workers = {"n1", "n2"}
  Operators = {"op"}
  Limit = 1
  MaxRows = 2
  MaxVersion = 2
  MaxCrashes = 1
CHECK_DEADLOCK FALSE
INVARIANT WorkflowAttached
