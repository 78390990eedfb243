CONSTANTS
  w1 = w1
  w2 = w2
  Workers = {w1, w2}
  DayMinutes = 2
  Zones <- SmallZones
  BadZone = BadZone
  Times <- SmallTimes
  Horizon = 9
  MaxEdits = 1
SPECIFICATION Spec
SYMMETRY Symmetry
INVARIANTS
  ReportedOnce
  
  NoDaySkipped
CHECK_DEADLOCK FALSE
