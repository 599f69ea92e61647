CONSTANTS
  Runs = {r1}
  Uris = {u1}
  Requested <- MCRequested
  Executions = {e1, e2}
  MaxAttempts = 2
  MaxConcurrency = 1
  CoordinatorLease = 3
  ItemLease = 2
  LastVersion = 0
  TextAt <- MCTextAB
  Unparseable = {}
  Interactive = {u1}
  MaxFaults = 3
  Manual = Manual
  Nobody = Nobody
SPECIFICATION LiveSpec
PROPERTIES EveryRunEnds
