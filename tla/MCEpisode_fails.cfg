CONSTANTS
  env = env
  ann = ann
  bea = bea
  stranger = stranger
  Roster <- MCRosterOne
  Env = env
  Stranger = stranger
  Deadlines <- MCDeadlines
  Scripts <- MCScriptsFailing
  MayTimeOut = TRUE
  MayLoseWriter = TRUE
SPECIFICATION Spec
INVARIANTS
  TypeOK
  EveryMessageInOnePlace
  EveryNumberAccountedFor
  AnswerMatchesTheThreads
PROPERTIES
  FollowsContract
  RunReturns
