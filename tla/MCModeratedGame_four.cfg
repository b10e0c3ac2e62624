CONSTANTS
  wolf = wolf
  doc = doc
  sage = sage
  prey = prey
  Nobody = Nobody
  Players <- MCPlayersFour
  RoleOf <- MCRolesFour
  Quiet <- MCQuiet
  Limit <- MCLimit
  DayCap = 2
  FarewellFloor = 2
  MaxLate = 1
SPECIFICATION Spec
INVARIANTS
  UndecidedUntilWon
  ClockIsWatched
  OnlyTheLivingRun
  FarewellIsGiven
  OnSchedule
PROPERTIES
  KeepsToTheRules
  GameEnds
