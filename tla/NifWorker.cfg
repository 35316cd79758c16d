SPECIFICATION FairSpec
CONSTANTS
  c1 = c1  c2 = c2  s1 = s1
  Callers = {c1, c2}
  Stoppers = {s1}
  MaxWorkers = 2
  Slots = 1
  NoProc = NoProc
INVARIANTS
  ExclusiveCorePoll
  WorkerSafe
PROPERTIES
  StableWorker
  EveryCallReturns
