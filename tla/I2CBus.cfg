SPECIFICATION FairSpec
CONSTANTS
  Levels = 2
  Retries = 1
  ReadLens = {1, 2}
  WriteLens = {2}
  MaxFlush = 1
  MaxCalls = 1
INVARIANTS NoDanglingMsg 
PROPERTY CallReturns
