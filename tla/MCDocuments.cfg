CONSTANTS
  Paths = {p1, p2}
  A = A
  B = B
  Titles = {A, B}
  Texts <- MCTexts
  Runs = {r1}
  Requests = {q1, q2}
  MaxVersion = 2
  Nothing = Nothing
SYMMETRY MCSymmetry
SPECIFICATION Spec
INVARIANTS LinksAgree VersionsNeverCollide OneDocumentPerIngestion
PROPERTY DecisionsAreFinal
