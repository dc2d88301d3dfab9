SPECIFICATION Spec
CONSTANTS
  NumRoles = 2
  Msgs = {m1, m2}
  m1 = m1
  m2 = m2
  Holders = {h1, h2}
  h1 = h1
  h2 = h2
  HooksMayPanic = FALSE
SYMMETRY Symmetry
INVARIANT ReceivedMessagesFinished
CHECK_DEADLOCK FALSE
