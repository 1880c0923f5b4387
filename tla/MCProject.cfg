CONSTANTS
  Documents = {d1}
  MaxLoads = 2
  MaxSpecs = 2
  MaxTasks = 1
SPECIFICATION FairSpec
CHECK_DEADLOCK FALSE
INVARIANT TypeOK
INVARIANT OnlyTheCurrentExplorerWorks
INVARIANT ProgressInTurn
INVARIANT ErrorsAreCleared
PROPERTY ReloadCompletes
PROPERTY ExitCompletes
PROPERTY ExplorationIsAnnounced
