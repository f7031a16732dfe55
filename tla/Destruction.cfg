SPECIFICATION DestructionSpec
CONSTANTS
  P = P  Q = Q  s1 = s1  s2 = s2  t1 = t1  t2 = t2  l1 = l1  l2 = l2  m1 = m1  T = T  g1 = g1  g2 = g2
  K = K  p = p  A = A  B = B  C = C  O = O  V = V  R = R  i = i  N = N  d = d
  NoRecord = NoRecord
  Programs = {P, Q}
  Seasons = {s1, s2, t1, t2}
  Leagues = {l1, l2, m1}
  Teams = {T}
  Games = {g1, g2}
  Rank <- MCRank
  ProgramOf <- MCProgramOf
  GameOf <- MCGameOf
  ScopeOf <- MCScope
  KindOf <- MCKind
  Up <- MCUp
  Creator <- MCCreator
  MaxSwitches = 2
  MaxAsked = 2
  MaxMeanwhile = 2
  Records <- MCRecords
  EntityOf <- LostKind
  ProgramAbove <- LostProgram
  Nil = NoRecord
  Links <- MCLinks
  Selected = "P"
  Admins = {"A", "B"}
  Tokens = {1, 2}
  None = None
  Owners = {"A", "B"}
  Rows = {1}
  Processes = {p1, p2}
  Ttl = 1
  Lease = 1
  MaxTime = 2
  MaxPreviews = 2
  World <- MCWorld
  Flagged <- MCFlagged
  Touched <- MCOthers
  MaxWrites <- MCMaxWrites
  MaxCalls <- MCMaxCalls
SYMMETRY MCSymmetry
INVARIANTS
  ContextSound
  RemovalSound
PROPERTIES
  SwitchLandsTogether
  ChosenWrites
  SubtreeSpares
CHECK_DEADLOCK FALSE
