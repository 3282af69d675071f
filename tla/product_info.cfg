SPECIFICATION Spec
CONSTANTS
  Dirs <- MCDirs
  InfoPlists <- MCInfoPlists
  Chains <- MCChains
  MaxRuns = 3
  Tear <- MCTear
  Seams = {1, 2, 3, 8}
INVARIANT StampIsSound
INVARIANT RightProduct
CHECK_DEADLOCK FALSE
