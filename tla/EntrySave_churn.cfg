\* Renames, entries other clients delete, failing operations, a required attribute; every save is
\* answered under the fairness of the worker, the pump and dispatch.
CONSTANTS
  alice = alice
  bob = bob
  carol = carol
  mail = mail
  phone = phone
  x = x
  y = y
  z = z
  Attrs = {mail}
  Values = {x, y}
  Ordered = {}
  DNs = {alice, bob, carol}
  NoDN = NoDN
  Present = {alice, bob}
  InitCsn <- MCInitCsn
  InitClock = 2
  InitVal <- MCInitVal
  Renames <- MCRenames
  Must = {mail}
  Writable <- Emptyable
  AssertionSupported = TRUE
  OperatorWaits = TRUE
  OthersDelete = TRUE
  MaxOthers = 2
  MaxSaves = 1
  MaxQueue = 2
  MaxFaults = 1
SPECIFICATION FairSpec
INVARIANTS TypeOK WritesArePreviewed NoSilentDrop
PROPERTIES SaveIsAnswered
\* the operator may quit
CHECK_DEADLOCK FALSE
