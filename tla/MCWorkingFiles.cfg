CONSTANTS
  vhd = vhd
  sv = sv
  Files <- VhdlAndSv
  SvFiles <- SvOnly
  MaxObjects = 2
  MaxMessages = 3
  MaxUpdateAll = 1
  MaxGenerations = 1
  MaxFailures = 1
  SpuriousWakeups = FALSE
SPECIFICATION Spec
INVARIANT TypeOK
INVARIANT ClosedFileStaysClear
INVARIANT SupersededByYounger
PROPERTY FirstComeFirstServed
INVARIANT NoInvalidationLost
INVARIANT NoThreadOutlivesWorkingFiles
PROPERTY DiagnosticsNeverRegress
