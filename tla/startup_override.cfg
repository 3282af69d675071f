SPECIFICATION Spec
CONSTANTS
  Calls <- MCCalls
  Archives <- MCArchives
  Lines <- MCLines
  MaxQuestions = 2
  MaxLines = 2
INVARIANT OverridesHold
CHECK_DEADLOCK FALSE
