CONSTANTS
  Runs = {r1}
  Uris = {u1}
  Requested <- MCRequested
  Executions = {e1, e2}
  MaxAttempts = 3
  MaxConcurrency = 1
  CoordinatorLease = 3
  ItemLease = 2
  LastVersion = 2
  TextAt <- MCTextAt
  Unparseable <- MCBad
  Interactive = {u1}
  Manual = Manual
  Nobody = Nobody
SYMMETRY MCSymmetry
SPECIFICATION Spec
INVARIANTS TypeOK LeaseExclusion ClaimsFindOpenItems OutcomeIsOfItsAttempt OwnIntakeFailsOnlyAtLimit RunAgreesWithItems NoDuplicateIntake
PROPERTIES TriggersNeverFire ImplementsContract
