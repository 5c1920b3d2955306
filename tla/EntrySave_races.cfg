\* The operator acts while requests are outstanding.
CONSTANTS
  alice = alice
  bob = bob
  carol = carol
  mail = mail
  phone = phone
  x = x
  y = y
  z = z
  Attrs = {mail}
  Values = {x, y}
  Ordered = {}
  DNs = {alice, bob}
  NoDN = NoDN
  Present = {alice, bob}
  InitCsn <- MCInitCsn
  InitClock = 2
  InitVal <- MCInitVal
  Renames <- NoRenames
  Must = {}
  Writable <- Singles
  AssertionSupported = TRUE
  OperatorWaits = FALSE
  OthersDelete = FALSE
  MaxOthers = 1
  MaxSaves = 1
  MaxQueue = 2
  MaxFaults = 0
SPECIFICATION FairSpec
INVARIANTS CopiesAreFaithful FormIsCurrentLeaf
PROPERTIES UiUnblocks
\* the operator may quit
CHECK_DEADLOCK FALSE
