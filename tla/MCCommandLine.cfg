CONSTANTS
  alice = alice
  bob = bob
  carol = carol
  dave = dave
  assignment = assignment
  ties = ties
  moderator = moderator
  narrator = narrator
  Nobody = Nobody
  NoPath = NoPath
  Unset = Unset
  DefaultModerator = moderator
  Reserved <- MCReserved
  MaxDuration = 5000
  MaxInstant = 2000
  Slack = 8
  Floor = 30
  Paths <- MCPaths
  Logs <- MCLogs
  Names <- MCNames
  Seeds = {2}
  Configured <- MCConfigured
  Texts <- MCTexts
  MaxCommands = 3
SPECIFICATION SpecCommands
INVARIANTS
  AcceptedIsPlayable
  PairIsReplayed
  ReproductionIsTheGame
PROPERTIES
  ReproductionSparesTheLog
