CONSTANTS
  \* reports and reasoning runs
  Customer = customer
  Records = {r1}
  Items = {x1}
  Reporters = {w1}
  Ahead = 1
  LastInstant = 2
  MaxRevisions = 3
  MaxRuns = 1
  \* risk
  Amounts = {7, 8, 10}
  MaxRevenue = 10
  MaxFacts = 3
  MaxTickets = 5
  MaxEarlier = 2
SPECIFICATION MCSpec
INVARIANTS EveryAttemptIsRecorded
CHECK_DEADLOCK FALSE
