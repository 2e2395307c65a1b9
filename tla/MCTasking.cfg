SPECIFICATION FairSpec
CONSTANTS
  MaxProcs = 5
  MaxDepth = 3
  SlaveIRQs <- MCSlaveIRQs
INVARIANTS TypeOK RunningIsCurrent FramesSafe ListsSound LinkedProcessLive
PROPERTIES RoundRobinSpec EveryTaskRuns CreationCompletes
CHECK_DEADLOCK FALSE
