\* Six directories, eleven configs, two faults, three creates.
CONSTANTS
  Gap = 2
  Round = 2
  AssumedMin = 10
  OpenEnd = 18
  Span = 2
  MaxId = 30
  StructuralClasses = {"account", "posixGroup", "groupOfNames", "organizationalUnit"}
  Alphabet <- MCAlphabet
  Slug <- MCSlug
  MinSample = 2
  Directories <- MCDirectories
  Configs <- MCConfigs
  Base <- MCBase
  GroupsOu = "ou=groups"
  Order <- MCOrder
  SampleSize = 2
  MaxContainers = 3
  Names = {"new1", "new2", "new3"}
  MaxMishaps = 2
SPECIFICATION LoadSpec
INVARIANTS DetectionNeverStops OperatorDecides MatchesAreFaithful
PROPERTY NumbersAreFree
\* a start is refused or ends, and names run out
CHECK_DEADLOCK FALSE
