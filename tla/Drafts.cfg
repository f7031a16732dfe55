CONSTANTS
  Parts = {"plan", "commit"}
  PlanSizes = {1, 4, 5}
  PlanMeanwhile <- MCPlanMeanwhile
  Ceiling = 5
  DayLength = 8
  Ice <- MCIce
  Policies <- MCPolicies
  Requests <- MCRequests
  Operators = {ann, ben}
  Teams = {1, 2, 3}
  CommitTeams = {1, 2}
  CommitMeanwhile = 2
  MaxGames = 5
  MaxMeanwhile = 3
  MaxReviews = 1
  MaxAttempts = 2

SPECIFICATION MCSpec

SYMMETRY MCSymmetry

INVARIANTS
  RefusedOnlyWhenImpossible

PROPERTIES
  FormatKept
  IceKept

CHECK_DEADLOCK FALSE
