SPECIFICATION FairSpec
CONSTANTS
  Patches <- MCPatches
  Builds <- MCBuilds
  BufSize = 2
  IoBuf = 2
  MaxProcesses = 3
  MaxDone = 8
INVARIANT InStep
INVARIANT CreatedIsWhole
INVARIANT ResultIsTrue
PROPERTY ProcessesEnd
