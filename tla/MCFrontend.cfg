CONSTANTS
  Numbers = {1}
  MaxRequests = 3
  MaxReplies = 2
  MaxOutgoing = 1
  RacyInsert = FALSE
SPECIFICATION FairSpec
INVARIANT TypeOK
INVARIANT OneResponsePerRequest
INVARIANT TrackedUntilReplied
INVARIANT InitializeAnsweredFirst
PROPERTY RepliesReachTheEditor
