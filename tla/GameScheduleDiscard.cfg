SPECIFICATION ScheduleSpec
CONSTANTS
  Servers = {a, b}
  Games = {1, 2, 3}
  Slots = {1, 2, 3}
  Seasons = {1, 2}
  NoSlot = 0
  RinkOf <- MCRinkOf
  When <- MCWhen
  SeasonOf <- MCSeasonOf
  TeamsOf <- MCTeamsOf
  ProgramOf <- MCProgramOf
  PolicyScopes <- MCPolicyScopes
  Calendars <- MCCalendars
  MaxCalls = 2
SYMMETRY MCSymmetry
CHECK_DEADLOCK FALSE
PROPERTIES
  PublishedNotDiscarded
