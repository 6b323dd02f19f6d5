SPECIFICATION Spec
CONSTANTS
  p1 = p1
  p2 = p2
  Patrons = {p1, p2}
  Holdings = {h1}
  LoanIds = {l1, l2}
  Sessions = {s1}
  Requests = {r1, r2}
  Keys = {k1, k2}
  Namesakes <- MCNamesakes
  Said <- CancelSaid
  LlmActions = {}
  MaxToolCalls = 3
  MayOverlap = {"resume"}
  None = None
SYMMETRY MCSymmetry
INVARIANT CancelledAsShown
