SPECIFICATION Spec
CONSTANTS
  Processes = {1, 2, 3}
  MaxNonce = 4
  MaxFrames = 4
  MinutesPerHour = 2
  HoursPerDay = 4
  DaysPerMonth = 4
  MonthsPerYear = 2
  DaysPerWeek = 3
  Offset = 0
  Change = 0
  Shift = 0
  Minutes <- AnyMinutes
  Hours <- AnyHours
  MonthDays <- AnyMonthDays
  WeekDays <- AnyWeekDays
  Months <- AnyMonths
  Starts = {0, 1, 2, 3, 4, 5, 6, 7}
  Horizon = 48
  Calls = {1}
  TransportBreak = 2
  QuickLimit = 2
  MaxFaults = 2
  MaxRegs = 1
INVARIANTS
  OneHolderUntilMoved
  NoLockLeftBehind
  HandoffRunsAlone
  PromptsInOrder
  NextAfterAnOccurrence
  DecisionReachesTheCall
PROPERTIES
  EveryFrameHandled
  SearchEnds
  LastsOnlyWhileHeld
  PressesEnd
CHECK_DEADLOCK FALSE
