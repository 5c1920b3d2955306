\* Two saves of any kind, of up to three writes, in flight together.
CONSTANTS
  MaxSaves = 2
  MaxLegs = 3
SPECIFICATION FairSpec
INVARIANTS BatchAccounting Correlation
PROPERTIES KeepsPromise ReportsNameWhatLanded SavesAreAnswered
\* nobody has to save again
CHECK_DEADLOCK FALSE
