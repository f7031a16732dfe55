SPECIFICATION Spec
CONSTANTS
  Players = {p1, p2}
  Home = Home
  Away = Away
  Third = Third
  NoTeam = NoTeam
  Operator = Operator
  Self = Self
  Target = 1
  Start = 2
  Window = 1
  NoTime = NoTime
  MaxTime = 3
  MaxRequests = 1
  Legacy = {p1, p2}
  Upsets = {"lock", "cancel", "archive"}
SYMMETRY Symmetry
PROPERTIES
  ClosedRosterFrozen
  FirstAcceptedWins
  CoachLeavesOtherSideAlone
CHECK_DEADLOCK FALSE
