SPECIFICATION FairSpec
CONSTANTS
  MaxClients = 2
  MaxLines = 1
  Fragile = {1}
INVARIANTS IInv AnnouncedOnce EveryoneHearsTheSame
PROPERTIES BroadcastsEnd LinesAreRelayed TheDeadAreRemoved
CHECK_DEADLOCK FALSE
