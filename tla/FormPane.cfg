\* Two entries, two edits, two choices of classes, one save, one other write.
CONSTANTS
  ann = ann
  staff = staff
  person = person
  posix = posix
  objectClass = objectClass
  boss = boss
  mail = mail
  note = note
  olc = olc
  x = x
  y = y
  xx = xx
  Entries = {ann, staff}
  Labels <- MCLabels
  OC = objectClass
  Kind <- MCKind
  Rank <- MCRank
  Classes = {person, posix}
  Must <- MCMust
  May <- MCMay
  Show <- MCShow
  Blank = Blank
  Values <- MCValues
  Trim <- MCTrim
  Texts = {xx}
  Theirs = {x}
  Stored <- MCStored
  None = None
  MaxEdits = 1
  MaxCommits = 2
  MaxSaves = 1
  MaxOthers = 1
SPECIFICATION Spec
INVARIANTS DirtyIsEdited ShownIsSaved
\* the operator may stop
CHECK_DEADLOCK FALSE
