CONSTANTS
  Id <- MCId
  Key = {"a", "b"}
  Absent = Absent
  Bodies <- MCBodies
  Slot = {r1, r2}
  Idle = Idle
  MaxLag = 1
  Wanted <- NoneWanted
SPECIFICATION Spec
CHECK_DEADLOCK FALSE
INVARIANTS ServiceUpdatesAreAdmitted
