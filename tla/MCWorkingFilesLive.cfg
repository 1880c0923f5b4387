CONSTANTS
  vhd = vhd
  sv = sv
  Files <- VhdlOnly
  SvFiles <- NoFiles
  MaxObjects = 2
  MaxMessages = 4
  MaxUpdateAll = 1
  MaxGenerations = 0
  MaxFailures = 0
  SpuriousWakeups = FALSE
SPECIFICATION FairSpec
PROPERTY RequestsAreSettled
PROPERTY CloseCompletes
PROPERTY ExitCompletes
