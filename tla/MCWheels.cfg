SPECIFICATION FairSpec
CONSTANTS
  Timers = {s1, s2}
  Levels = 3
  Slots = 2
  Unit = 2
  Durations = {0, 3, 6, 8}
  MaxTime = 19
  BitLevels = 2
  Width = 6
INVARIANTS
  Inv
  BitsAreDigits
PROPERTIES
  TimersKept
  SleepsEnd
CHECK_DEADLOCK FALSE
