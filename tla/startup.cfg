SPECIFICATION FairSpec
CONSTANTS
  Calls <- MCCalls
  Archives <- MCArchives
  Lines <- MCLines
  MaxQuestions = 2
  MaxLines = 2
INVARIANT DoesAsTold
INVARIANT CrashOnlyForMissingValue
INVARIANT XdeltaIsBeside
INVARIANT StrayAnswerIsDefault
PROPERTY RunEnds
CHECK_DEADLOCK FALSE
