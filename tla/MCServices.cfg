CONSTANTS
  \* the parts share the values of their symmetric sets
  Requests = {q1, q2}
  Callers = {q1, q2}
  Mappers = {q1, q2}
  Scopes = {q1, q2}
  Uris = {u1, u2}
  Users = {u1, u2}
  OdooRecords = {u1, u2}
  Uploads = {u1, u2}
  Cursors = {k1, k2}
  Deciders = {k1, k2}
  \* discovery
  Lease = 2
  MaxCycles = 3
  None = None
  \* action proposals
  Proposals = {p1}
  MaxLost = 1
  Nobody = Nobody
  \* identity
  Ids = {n1, n2, n3}
  Cases = {t1}
  MaxDecisions = 2
  NoId = NoId
  \* workbench
  MaxGeneration = 3
  MaxCalls = 2
  Nothing = Nothing
SYMMETRY MCSymmetry
SPECIFICATION MCSpec
INVARIANTS
  CatalogIsOfItsCycles
  CallsAreAuthorized CallsFollowLosses RecordsAreTrue
  OneEntityPerRecord CasesCloseOnce
  ShownIsOfTheScope ButtonsFollowCalls
PROPERTIES
  PagesAreConsecutive
  DecidedStaysAway
CHECK_DEADLOCK FALSE
