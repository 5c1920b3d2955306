\* Two editors opened in turn, one text typed, one entry read meanwhile.
CONSTANTS
  n1 = n1
  n2 = n2
  p = p
  q = q
  person = person
  posix = posix
  gid = gid
  manager = manager
  member = member
  oclass = oclass
  ann = ann
  staff = staff
  pe = pe
  Empty = Empty
  NoKey = NoKey
  Keys <- MCKeys
  Numbers = {n1, n2}
  Terms <- MCTerms
  Matches <- MCMatches
  Label <- MCLabel
  Fields = {gid, manager, member, oclass}
  Kind <- MCKind
  Scope <- MCScope
  Locked = {person}
  Entries = {ann, staff}
  FieldsOf <- MCFieldsOf
  Stored <- MCStored
  Cap = 2
  MaxAsked = 1
  MaxOpened = 2
  MaxReads = 1
  MaxFaults = 1
  MaxQueue = 1
SPECIFICATION FairSpec
INVARIANTS OwnAnswers SettledOnLastText NothingTwice
PROPERTIES SearchesSettle NamesSettle
\* the operator may stop
CHECK_DEADLOCK FALSE
