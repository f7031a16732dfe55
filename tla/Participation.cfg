SPECIFICATION ParticipationRunSpec
CONSTANTS
  Seasons = {1, 2, 3}
  Leagues = {"A", "B"}
  Teams = {"t", "u"}
  Divisions = {"d"}
  Players = {"p"}
  Operators = {"o1", "o2"}
  Ended = {1}
  Nowhere = Nowhere
  HomeOf <- MCHome
  MaxCalls <- MCMaxCalls
  Parts = {"one", "two", "copies", "imports", "numbers", "ice"}
  Sheets <- MCSheets
  TeamSheets <- MCTeamSheets
  Skaters <- MCSkaters
  Squads <- MCSquads
  Jerseys = {1, 2}
  PlayerSheets <- MCPlayerSheets
  Rinks = {"n", "m"}
  Venues = {"v", "w"}
  IceOperators = {"o1"}
  Clock <- MCClock
  Templates <- MCTemplates
  SlotSheets <- MCSlotSheets
  HomeVenue <- MCVenueOf
  MaxShown = 2
INVARIANTS
  RegistrationsSound
  OneSeasonPerReview
  SheetsSound
  NextStepSound
PROPERTIES
  StaysAligned
  BuiltAsShown
CHECK_DEADLOCK FALSE
