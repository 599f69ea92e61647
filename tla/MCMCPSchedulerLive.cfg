CONSTANTS
  Schedules = {1, 2}
  Connections = {c1}
  ConnectionOf <- MCShared
  Dispatchers = {d1, d2}
  BatchSize = 1
  Intervals = {1}
  Second = 1
  Unstable = {1}
  MaxTime = 1
  MaxManual = 1
  MaxFaults = 1
  Nobody = Nobody
SPECIFICATION LiveSpec
PROPERTIES DueSlotsAreTaken
