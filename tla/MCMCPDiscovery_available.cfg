CONSTANTS
  Uris = {u1, u2}
  Cursors = {k1, k2}
  Requests = {q1, q2}
  Lease = 2
  MaxCycles = 3
  None = None
SYMMETRY MCSymmetry
SPECIFICATION Spec
INVARIANTS AvailabilityIsOfLastCycle
