\* Two saves, two edits, a change by another client, one fault.
CONSTANTS
  admins = admins
  staff = staff
  ann = ann
  bob = bob
  a = a
  b = b
  Groups = {admins, staff}
  Must = {admins}
  Me = ann
  Others = {bob}
  Texts = {a, b}
  Start <- MCStart
  None = None
  MaxSaves = 2
  MaxEdits = 2
  MaxReads = 1
  MaxOthers = 1
  MaxFaults = 1
SPECIFICATION FairSpec
INVARIANTS RemovalsAreChecked OwnLegIsOfItsVersion
PROPERTIES SavesEnd
\* the operator may stop
CHECK_DEADLOCK FALSE
