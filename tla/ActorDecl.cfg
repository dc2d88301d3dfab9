SPECIFICATION Spec
CONSTANTS
  Impls <- MCImpls
  RoleNames <- MCRoleNames
  Modules <- MCModules
  Outsides <- MCOutsides
INVARIANTS IInv VerdictFitsModule NothingIsLost SplitPerformancesFit
CHECK_DEADLOCK FALSE
