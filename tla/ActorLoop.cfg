SPECIFICATION FairSpec
CONSTANTS
  NumRoles = 2
  Msgs = {m1, m2, m3}
  m1 = m1
  m2 = m2
  m3 = m3
  Holders = {h1, h2}
  h1 = h1
  h2 = h2
  HooksMayPanic = TRUE
INVARIANTS
  IInv
  NoPrematureExit
  ListensWhileHeld
  StopDrains
  ExitHandleTruthful
PROPERTIES
  ImplementsContract
  StopEndsUnlessSentTo
  WatchdogStops
  QueuedMessagesAreServed
CHECK_DEADLOCK FALSE
