SPECIFICATION Spec
CONSTANTS
  Prompts = {a, b}
  Capacity = 1
  MaxBadWrites = 1
  MaxStops = 1
  MaxHanded = 2
  Devices = {d, e}
  Texts = {x, y}
  Block = 2
  MaxFrames = 3
  MaxRevision = 3
  MaxFaults = 1
  MaxRestarts = 1
SYMMETRY Alike
INVARIANTS
  HandedOnce
  OneVerdict
  CutOffIsUnknown
  PendingIsWorkedOn
  RevisionNamesOneText
  CacheIsCurrent
  ShownIsDurable
PROPERTIES
  ReplacedOnlyIfSeen
CHECK_DEADLOCK FALSE
