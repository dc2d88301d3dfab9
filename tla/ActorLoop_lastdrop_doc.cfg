SPECIFICATION FairSpec
CONSTANTS
  NumRoles = 1
  Msgs = {m1}
  m1 = m1
  Holders = {h1}
  h1 = h1
  HooksMayPanic = FALSE
PROPERTY LastHandleDropStops
CHECK_DEADLOCK FALSE
