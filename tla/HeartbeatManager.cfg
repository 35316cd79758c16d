SPECIFICATION FairSpec
CONSTANTS
  a1 = a1
  a2 = a2
  Tokens <- TwoTokens
  MaxBeats = 2
INVARIANTS TokensConsistent
PROPERTIES InOrderWhileRunning EvictReturns LatestIsReported
CHECK_DEADLOCK FALSE
