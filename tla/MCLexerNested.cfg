SPECIFICATION LexerSpec
CONSTANTS
  MaxToken = 3
  MaxDepth = 2
INVARIANTS
  QueueFollowsOn
