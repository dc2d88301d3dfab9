SPECIFICATION SubFairSpec
CONSTANTS
  NumRoles = 2
  Msgs = {m1, m2}
  m1 = m1
  m2 = m2
  o1 = o1
  f1 = f1
  s1 = s1
  Holders = {o1, f1, s1}
  Futures = {f1}
  Streams = {s1}
  HooksMayPanic = FALSE
INVARIANTS
  SubInv
  StreamHasNoGap
  SourcesAreNotRefused
PROPERTIES
  SourcesAreServed
CHECK_DEADLOCK FALSE
