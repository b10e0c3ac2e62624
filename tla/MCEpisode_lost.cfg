CONSTANTS
  env = env
  ann = ann
  bea = bea
  stranger = stranger
  Roster <- MCRosterOne
  Env = env
  Stranger = stranger
  Deadlines <- MCDeadlines
  Scripts <- MCScriptsStopping
  MayTimeOut = FALSE
  MayLoseWriter = FALSE
SPECIFICATION Spec
INVARIANTS
  NothingIsLost
