\* Two refusals or lost answers, two changes by other clients.
CONSTANTS
  annGroup = annGroup
  ann = ann
  bob = bob
  Names = {annGroup, ann, bob}
  NoName = NoName
  Requests <- MCRequests
  MaxFaults = 2
  MaxOthers = 2
SPECIFICATION AtomicSpec
INVARIANT AtomicAnswerIsTrue
PROPERTY TakesBackItsOwn
