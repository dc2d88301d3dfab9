SPECIFICATION SubFairSpec
CONSTANTS
  NumRoles = 1
  Msgs = {m1}
  m1 = m1
  o1 = o1
  s1 = s1
  Holders = {o1, s1}
  Futures = {}
  Streams = {s1}
  HooksMayPanic = FALSE
PROPERTY ShutdownDropsStreams
CHECK_DEADLOCK FALSE
