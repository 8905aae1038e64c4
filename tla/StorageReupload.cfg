SPECIFICATION StSpec
CONSTANTS
  Null = Null
  Keys = {k1}
  PictureKeys = {k1}
  Reqs = {r1, r2}
  Instances = {a1}
  PurgeBatch = 1
  MaxFaults = 0
  Timely = TRUE
  Serial = TRUE
SYMMETRY Symmetry
PROPERTIES CleanupSparesOpenUploads
CHECK_DEADLOCK FALSE
