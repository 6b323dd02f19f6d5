SPECIFICATION Spec
CONSTANTS
  p1 = p1
  p2 = p2
  Patrons = {p1, p2}
  Holdings = {h1, h2}
  LoanIds = {l1, l2}
  Sessions = {s1}
  Requests = {r1}
  Keys = {k1}
  Namesakes <- MCNamesakes
  Said <- DeskSaid
  LlmActions = {"REQUEST_COMMIT_RETURN"}
  MaxToolCalls = 3
  MayOverlap = {}
  None = None
SYMMETRY MCSymmetry
INVARIANT AgentTypeOK
INVARIANT NothingWithoutApproval
INVARIANT ReturnsShownCopy
INVARIANT OneEffectPerApproval
