\* The fingerprint of a record that is trusted on its stat alone.
SPECIFICATION Spec
CONSTANTS
  Paths = {p1}
  Bodies = {b1, b2}
  NoFp = nofp
  Marks = {m1}
  MaxId = 1
  Known = 1
  MaxEvents = 2
  MaxTries = 1
INVARIANT FingerprintFresh
CHECK_DEADLOCK FALSE
