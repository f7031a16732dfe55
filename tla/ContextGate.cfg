CONSTANTS
  Readers = {r1, r2}
  Writers = {w1, w2}
  Users = {alice, bob}
  NoUser = NoUser
  FocusUser = alice
SPECIFICATION LiveSpec
INVARIANTS
  GateSound
PROPERTIES
  BlockersOnlyShrink
  FocusUserAdmitted
CHECK_DEADLOCK FALSE
