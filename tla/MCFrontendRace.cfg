CONSTANTS
  Numbers = {1}
  MaxRequests = 3
  MaxReplies = 1
  MaxOutgoing = 0
  RacyInsert = TRUE
SPECIFICATION Spec
INVARIANT TrackedUntilReplied
