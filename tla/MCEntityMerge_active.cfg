CONSTANTS
  Entities = {e1, e2, e3, e4}
  Records = {r1}
  Edges = {i1, i2, i3}
  Kinds = {k1, k2}
  Requests = {q1, q2}
  Nothing = Nothing
SYMMETRY MCSymmetry
SPECIFICATION MCSpec
INVARIANT OwnersAreActive
CHECK_DEADLOCK FALSE
