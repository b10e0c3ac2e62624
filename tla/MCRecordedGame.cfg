CONSTANTS
  wolf = wolf
  cub = cub
  doc = doc
  sage = sage
  prey = prey
  Nobody = Nobody
  Env = Env
  Players <- MCPlayers
  RoleOf <- MCRoles
  Quiet <- MCQuiet
  Limit <- MCLimit
  DayCap = 1
  FarewellFloor = 1
  MaxLate = 0
  MaxHeard = 3
SPECIFICATION SpecRecorded
INVARIANTS
  WhatIsReadWasPlayed
  WholeLogIsRead
  ShownAsPlayed
  EverybodyIsTheLiving
  DeathsAreCalledFor
