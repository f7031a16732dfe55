SPECIFICATION EndingsSpec
CONSTANTS
  Replicas = {m1, m2}
  Reads = {r1}
  Switches = {s1}
  Lifecycles = {a1}
  Users = {alice}
  Global = Global
  Backends = {"postgres"}
  MaxAttempts = 2
  Active = Active
  Absent = Absent
  Notifications = {1, 2}
  Recipients = {1, 2}
  Player = 1
  Drains = {manual, loop}
  Loops = {loop}
  ProcessOf <- MCProcessOf
  Addresses = {x, y}
  Placeholder = invalid
  MaxTries = 2
  Batch = 1
  MaxTrouble = 2
  Starting = {"a", "b"}
  Versions = {1, 2, 3}
  Kind <- MCKind
  Files <- MCFiles
  Builds <- MCBuilds
  MaxMishaps = 2
  Assets = {a}
  Books = {b1, b2, b3}
  Locations = {l1, l2}
  None = none
  Scanned = {b1, b2}
  Blocked = {b3}
  MaxPending = 2
  MaxRows = 2
  MaxRuns = 2
  MaxWishes = 2
INVARIANTS
  DoneOnce
PROPERTIES
  EveryRequestEnds
  NoResend
  Settles
CHECK_DEADLOCK FALSE
