SPECIFICATION PeopleSpec
CONSTANTS
  Users = {1, 2}
  Players = {p1, p2}
  Teams = {t1}
  NoSubject = none
  Servers = {a, b}
  Sessions = {s1}
  NoUser = nobody
  MaxCalls = 2
  Attempts = {a1, a2, a3}
  Addresses = {i1, i2}
  Names = {n1, n2}
  IpMax = 2
  UserMax = 1
  Window = 2
  MaxKeys = 3
  SweepEvery = 2
  Delay = 1
  MaxTime = 5
  MaxLogins = 4
  Bench = {1, 2, 3}
  Candidates <- MCCandidates
  SeatsAsked <- MCSeatsAsked
  Policies <- MCPolicies
  NoPlayer = 9
  NoAnswer = NoAnswer
SYMMETRY MCSymmetry
INVARIANTS
  AccountsSound
  ChoiceSound
PROPERTIES
  CallsOneByOne
  ThrottleSound
CHECK_DEADLOCK FALSE
