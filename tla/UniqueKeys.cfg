CONSTANTS
  Id <- MCId
  Key = {"a", "b"}
  Absent = Absent
  Bodies <- MCBodies
  Slot = {r1, r2}
  Idle = Idle
  MaxLag = 1
  Wanted <- MCWanted
SPECIFICATION FairSpec
CHECK_DEADLOCK FALSE
INVARIANTS UniqueInv IngressUpdatesAreAdmitted
PROPERTIES FreeKeysAreAdmitted
