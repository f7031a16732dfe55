SPECIFICATION GameDayRunSpec
CONSTANTS
  Games = {1, 2}
  Slots = {1, 2, 3}
  Seasons = {1}
  NoSlot = 0
  RinkOf <- MCRinkOf
  When <- MCWhen
  SeasonOf <- MCSeasonOf
  TeamsOf <- MCTeamsOf
  ProgramOf <- MCProgramOf
  PolicyScopes = {}
  Calendars <- MCCalendars
  Requests = {1, 2}
  Deciders = {d1, d2}
  Agreed <- MCAgreed
  Officials = {"ref", "home"}
  ConflictOf <- MCConflictOf
  MaxOperator = 2
  MCDivisions = {"d", "e"}
  NoDivision = NoDivision
  Questions <- MCTables
  NoQuestion = NoQuestion
INVARIANTS
  DaySound
PROPERTIES
  BothSigned
  ApprovalRecovers
CHECK_DEADLOCK FALSE
