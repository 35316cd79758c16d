SPECIFICATION Spec
CONSTANTS
  MaxTasks = 3
  MaxCuts = 1
  Blocks <- MCBlocks
  Scenarios <- MCScenarios
  MaxFailures = 1
INVARIANTS NothingBreaks PagingInvisible
