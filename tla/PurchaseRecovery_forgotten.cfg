\* The refund fails, and no scan looks at the purchase again.
SPECIFICATION RSpec
CONSTANTS
  A = A
  B = B
  NoProvider = NoProvider
  Route <- RouteA
  Services = {"vtu"}
  Slots = {1, 2}
  MaxAttempts = 2
  MaxPolls = 2
  Answers <- FewAnswers
  Dedupe = {}
  LostByReference = {}
  LostByOrderId = {}
  Eligible <- Always
  Mishaps = {}
  MaxMishaps = 0
  Scans = {1}
  MaxScans = 2
  Admins = {}
  MaxInterventions = 0
INVARIANTS UnrefundedIsCandidate
CHECK_DEADLOCK FALSE
