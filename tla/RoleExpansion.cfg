SPECIFICATION Spec
CONSTANTS
  RoleNames <- TwoRoles
  Idents <- ThreeIdents
  ParamLists <- MCParams
  Returns <- MCReturns
  MaxMethods = 2
  MaxOfOneRole = 3
INVARIANTS
  IInv
  ExpansionsFit
  MessageReachesItsMethod
  CallerGetsItsReturn
  
CHECK_DEADLOCK FALSE
