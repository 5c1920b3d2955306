\* A move, two finds, an edit, a rescan, a change by another client, a fault.
CONSTANTS
  base = base
  people = people
  groups = groups
  ann = ann
  staff = staff
  t1 = t1
  t2 = t2
  Empty = Empty
  NoDN = NoDN
  Base = base
  DNs <- MCDNs
  Parent <- MCParent
  Container = {people}
  Order <- MCOrder
  Terms = {t1, t2, Empty}
  Matches <- MCMatches
  Initial <- MCInitial
  Others = {ann, staff}
  MaxMoves = 1
  MaxFinds = 2
  MaxEdits = 1
  MaxReloads = 1
  MaxChanges = 1
  MaxFaults = 1
  MaxQueue = 1
SPECIFICATION FairSpec
INVARIANTS PanesAreCurrent HitsBelongHere FindSettles PlaceIsKept
PROPERTY FeedbackEnds
\* the operator may stop
CHECK_DEADLOCK FALSE
