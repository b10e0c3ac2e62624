CONSTANTS
  ann = ann
  bea = bea
  file = file
  mirror = mirror
  terminal = terminal
  Actors <- MCActors
  Sinks <- MCSinks
  Required <- MCRequired
  MaxRecords = 3
SPECIFICATION Spec
INVARIANTS
  TypeOK
  CompleteIfDone
  NoGaps
  OptionalCostsNothing
PROPERTIES
  WriterEnds
