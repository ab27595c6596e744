CONSTANTS
  t1 = t1
  t2 = t2
  t3 = t3
  NoTask = NoTask
  Task <- TwoTasks
  Root = t1
  IsMain = TRUE
  Results <- OnlyOk
  SqEntries = 3
  PassEntries = 2
  BatchSize = 2
  MaxSteps = 2
SPECIFICATION SpecWithCompletions
PROPERTY BlockOnReturns
