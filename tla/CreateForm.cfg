\* Two forms, two keys typed, one save, one refusal or lost answer.
CONSTANTS
  uid = uid
  gid = gid
  num = num
  sid = sid
  pw = pw
  person = person
  service = service
  t = t
  Fields <- MCFields
  Role <- MCRole
  Source <- MCSource
  IntegerFields = {num}
  Profiles = {person, service}
  Ranges <- MCRanges
  Companions = {person}
  Secretive = {person}
  Texts = {t}
  Typable = {uid, gid, num, sid}
  Typed = {9}
  Blank = Blank
  Placeholder = Placeholder
  Sentinel = Sentinel
  NoForm = NoForm
  InUse = {1}
  MaxForms = 2
  MaxTyped = 2
  MaxSaves = 1
  MaxSecrets = 1
  MaxLeaves = 1
  MaxTaken = 1
  MaxFaults = 1
  MaxQueue = 1
SPECIFICATION FairSpec
INVARIANT ComputedFollows
PROPERTIES OperatorsTextStays AllocationEnds
\* the operator may stop
CHECK_DEADLOCK FALSE
