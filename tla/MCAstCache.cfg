CONSTANTS
  top = top
  pkg = pkg
  two = two
  absent = absent
  NoFile = absent
  Main = top
  Files <- MCFiles
  Names <- MCNames
  Contents <- MCContents
  Initially <- MCInitially
  MaxSaves = 2
  MaxUpdates = 2
  MaxIndexed = 2
SPECIFICATION FairSpec
CHECK_DEADLOCK FALSE
INVARIANT TypeOK
INVARIANT NoFileLoadsItself
INVARIANT NothingHalfAnalysed
INVARIANT DependenciesAreFresh
INVARIANT OneUnitPerName
PROPERTY UpdateCompletes
