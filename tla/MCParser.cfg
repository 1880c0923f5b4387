SPECIFICATION FairSpec
CONSTANTS
  Files <- MCFiles
  ShortFile = 3
  Patience = 10
  MaxToken = 46
  MaxDepth = 2
INVARIANTS
  TypeOK
  StatesAreThoseOpen
  ReadsToTheEnd
  GivesUpOnlyWhenStuck
  ExplorerMissesNothing
  CheckpointsAreReleased
  NothingLostAhead
  PreviousIsTheOneBefore
PROPERTIES
  LexerIsACursor
  ParseEnds
CHECK_DEADLOCK FALSE
