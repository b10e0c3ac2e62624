CONSTANTS
  env = env
  ann = ann
  bea = bea
  stranger = stranger
  Roster <- MCRosterTwo
  Env = env
  Stranger = stranger
  Deadlines <- MCDeadlines
  Scripts <- MCScriptsTwo
  MayTimeOut = FALSE
  MayLoseWriter = FALSE
SPECIFICATION Spec
INVARIANTS
  EveryObservationWasSent
  ObservedInSendingOrder
  StopPreempts
PROPERTIES
  NothingFollowsAStop
