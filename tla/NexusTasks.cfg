SPECIFICATION FairSpec
CONSTANTS
  Setups <- MCSetups
  Tokens = {1, 2}
  Timed = {1}
  MayPreempt = TRUE
INVARIANTS PollingSafe
PROPERTIES PollsAgain ShutdownEnds
