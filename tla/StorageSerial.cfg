SPECIFICATION StSpec
CONSTANTS
  Null = Null
  Keys = {k1, k2}
  PictureKeys = {k1}
  Reqs = {r1, r2, r3}
  Instances = {a1}
  PurgeBatch = 1
  MaxFaults = 1
  Timely = TRUE
  Serial = TRUE
SYMMETRY Symmetry
INVARIANTS LiveAssetHasObject
PROPERTIES ShownWasThere JobsTakeDeadRows GracePeriod
CHECK_DEADLOCK FALSE
