CONSTANTS
  Proposals = {p1}
  Users = {u1, u2}
  Callers = {q1, q2}
  MaxLost = 1
  Nobody = Nobody
SYMMETRY MCSymmetry
SPECIFICATION ActionsSpec
INVARIANTS NoSecondConnectorCall
