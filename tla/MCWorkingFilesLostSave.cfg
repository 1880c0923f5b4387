CONSTANTS
  vhd = vhd
  sv = sv
  Files <- VhdlOnly
  SvFiles <- NoFiles
  MaxObjects = 1
  MaxMessages = 4
  MaxUpdateAll = 0
  MaxGenerations = 0
  MaxFailures = 0
  SpuriousWakeups = FALSE
SPECIFICATION Spec
INVARIANT SavedContentIsRecompiled
