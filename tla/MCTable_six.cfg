CONSTANTS
  wolf = wolf
  cub = cub
  doc = doc
  sage = sage
  prey = prey
  idler = idler
  Nobody = Nobody
  Players <- MCSix
  RoleOf <- MCPackOfTwo
  Lively <- MCThePackOrSeer
  Quiet <- MCQuiet
  Limit <- MCLimit
  DayCap = 1
  FarewellFloor = 1
  Baseline = {cub, sage}
  Unread = 3
SPECIFICATION Spec
INVARIANTS
  KnowsTheGame
  NobodyGoneIsAddressed
  SeesWhatCounts
PROPERTIES
  TableClears
