SPECIFICATION EnvSpec
CONSTANTS
  NumRoles = 1
  Msgs = {m1}
  m1 = m1
  c1 = c1
  Holders = {m1, c1}
  HooksMayPanic = FALSE
SYMMETRY EnvSymmetry
PROPERTY UnpolledIsNotSent
CHECK_DEADLOCK FALSE
