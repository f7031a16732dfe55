SPECIFICATION Spec
CONSTANTS
  Players = {p1}
  Home = Home
  Away = Away
  Third = Third
  NoTeam = NoTeam
  Operator = Operator
  Self = Self
  Target = 1
  Start = 3
  Window = 2
  NoTime = NoTime
  MaxTime = 3
  MaxRequests = 2
  Legacy = {p1}
  Upsets = {"cancel", "archive", "move", "deactivate"}
SYMMETRY Symmetry
INVARIANTS
  RosterSound
  ListedIsDoable
  OtherSideHidesOnly
PROPERTIES
  SeatingSound
  PromiseKept
