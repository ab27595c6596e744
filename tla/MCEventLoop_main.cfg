CONSTANTS
  t1 = t1
  t2 = t2
  t3 = t3
  NoTask = NoTask
  Task <- ThreeTasks
  Root = t1
  IsMain = TRUE
  Results <- OnlyOk
  SqEntries = 5
  PassEntries = 3
  BatchSize = 2
  MaxSteps = 3
SPECIFICATION SafeSpec
INVARIANT TypeOK
INVARIANT NoLostWakeup
INVARIANT CompletionHitsLiveToken
INVARIANT HandleIsLeaf
INVARIANT ResumeSeesResult
INVARIANT NoSleepWithWork
INVARIANT SqNeverFull
SYMMETRY Symmetry
