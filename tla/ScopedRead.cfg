CONSTANTS
  Replicas = {m1, m2}
  Reads = {r1}
  Switches = {s1, s2}
  Lifecycles = {a1}
  Users = {alice}
  Global = Global
  Backends = {"memory", "sqlite", "postgres"}
  MaxAttempts = 2
  Active = Active
  Absent = Absent
SPECIFICATION Spec
SYMMETRY Symmetry
INVARIANTS
  ReadSound
PROPERTIES
  WindowFrozen
CHECK_DEADLOCK FALSE
