\* The operator waits for outstanding work; other clients write at any time.
CONSTANTS
  alice = alice
  bob = bob
  carol = carol
  mail = mail
  phone = phone
  x = x
  y = y
  z = z
  Attrs = {mail, phone}
  Values = {x, y}
  Ordered = {}
  DNs = {alice, bob}
  NoDN = NoDN
  Present = {alice, bob}
  InitCsn <- MCInitCsn
  InitClock = 2
  InitVal <- MCInitVal
  Renames <- NoRenames
  Must = {}
  Writable <- Singles
  AssertionSupported = TRUE
  OperatorWaits = TRUE
  OthersDelete = FALSE
  MaxOthers = 2
  MaxSaves = 2
  MaxQueue = 2
  MaxFaults = 0
SPECIFICATION Spec
INVARIANTS NoLostUpdate FormMatchesItsVersion
PROPERTIES EditsSurviveReads GuardMoveCompletes
\* the operator may quit
CHECK_DEADLOCK FALSE
