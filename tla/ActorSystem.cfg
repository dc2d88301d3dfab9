SPECIFICATION FairSpec
CONSTANTS
  a = a
  b = b
  t = t
  Actors = {a, b}
  Tasks = {t}
  Programs <- MCPrograms
  MaxCalls = 3
INVARIANTS IInv OnlyFailedActorsRefuse ForwardsKeepOrder
PROPERTIES DeadlockIsForEver EachKeepsItsContract AwaitResolvesUnlessStuck ServedUnlessStuck
CHECK_DEADLOCK FALSE
