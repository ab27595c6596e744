CONSTANTS
  t1 = t1
  t2 = t2
  t3 = t3
  NoTask = NoTask
  Task <- TwoTasks
  Root = t1
  IsMain = FALSE
  Results <- OkAndErr
  SqEntries = 1
  PassEntries = 1
  BatchSize = 1
  MaxSteps = 3
SPECIFICATION Spec
PROPERTY KeepsPromise
PROPERTY CompletionResumes
PROPERTY RingTaskRuns
PROPERTY PendingResumes
INVARIANT HandleIsLeaf
CHECK_DEADLOCK FALSE
