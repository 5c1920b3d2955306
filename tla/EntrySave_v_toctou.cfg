\* Violated: a read lands while a save's preview is open.
CONSTANTS
  alice = alice
  bob = bob
  carol = carol
  mail = mail
  phone = phone
  x = x
  y = y
  z = z
  Attrs = {mail}
  Values = {x, y, z}
  Ordered = {}
  DNs = {alice, bob}
  NoDN = NoDN
  Present = {alice, bob}
  InitCsn <- MCInitCsn
  InitClock = 2
  InitVal <- MCInitVal
  Renames <- NoRenames
  Must = {}
  Writable <- Triple
  AssertionSupported = TRUE
  OperatorWaits = FALSE
  OthersDelete = FALSE
  MaxOthers = 1
  MaxSaves = 2
  MaxQueue = 2
  MaxFaults = 0
SPECIFICATION Spec
INVARIANTS OthersWritesSurvive
\* the operator may quit
CHECK_DEADLOCK FALSE
