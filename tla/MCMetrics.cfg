SPECIFICATION Spec
CONSTANTS
  Handles = {"h1", "h2"}
  PodStats <- Stats
  MaxPods = 2
  Bits = 4
  RootfsSize <- Sizes
  CpuAssignment <- Shares
INVARIANT AnswerIsWhole
PROPERTY FailsOnlyForTheGone
