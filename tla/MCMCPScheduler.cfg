CONSTANTS
  Schedules = {1}
  Connections = {c1}
  ConnectionOf <- MCShared
  Dispatchers = {d1, d2}
  BatchSize = 1
  Intervals = {1, 2}
  Second = 2
  Unstable = {1, c1}
  MaxTime = 5
  MaxManual = 1
  Nobody = Nobody
SYMMETRY MCSymmetry
SPECIFICATION Spec
INVARIANTS TypeOK OneIntervalRunAtATime SlotsOnlyForward
PROPERTIES DispatchIsCurrent DispatchCoalesces
