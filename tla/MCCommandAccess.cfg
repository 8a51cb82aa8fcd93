CONSTANTS
  s1 = s1
  s2 = s2
  Names <- MCNames
  Modules <- MCModules
  Packages <- MCPackages
  SortRank <- MCSortRank
  Roles <- MCRoles
  Commands <- MCCommands
  CommandSpec <- MCSpec
  RoleSets <- MCRoleSets
  Slots <- MCSlots
  MaxInputs = 4
SPECIFICATION System
SYMMETRY Symmetry
INVARIANTS
  RestartKeepsDecisions
PROPERTY
  EntitledRuns
CHECK_DEADLOCK FALSE
