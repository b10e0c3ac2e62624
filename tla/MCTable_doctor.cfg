CONSTANTS
  wolf = wolf
  cub = cub
  doc = doc
  sage = sage
  prey = prey
  idler = idler
  Nobody = Nobody
  Players <- MCThree
  RoleOf <- MCLoneWolf
  Lively <- MCDoctor
  Quiet <- MCQuiet
  Limit <- MCLimit
  DayCap = 3
  FarewellFloor = 1
  Baseline = {doc}
  Unread = 2
SPECIFICATION Spec
INVARIANT NoPlayerBreaksTheGame
