SPECIFICATION StSpec
CONSTANTS
  Null = Null
  Keys = {k1}
  PictureKeys = {}
  Reqs = {r1, r2}
  Instances = {a1, a2}
  PurgeBatch = 1
  MaxFaults = 1
  Timely = TRUE
  Serial = FALSE
INVARIANTS OneJobPerLock StInv
PROPERTIES JobsTakeOnlyOldRows EventuallyCollected
CHECK_DEADLOCK FALSE
