SPECIFICATION EnvFairSpec
CONSTANTS
  NumRoles = 2
  Msgs = {m1, m2}
  m1 = m1
  m2 = m2
  c1 = c1
  Holders = {m1, m2, c1}
  HooksMayPanic = FALSE
INVARIANTS
  EnvInv
  RefusedMeansStopOrPanic
  ErrorIsFinal
  HappensBefore
PROPERTY AwaitResolvesWhileHeld
CHECK_DEADLOCK FALSE
