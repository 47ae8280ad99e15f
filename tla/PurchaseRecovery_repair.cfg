\* The workers, one reconciliation scan and an administrator who acts twice, with one error anywhere.
SPECIFICATION RSpec
CONSTANTS
  A = A
  B = B
  NoProvider = NoProvider
  Route <- RouteA
  Services = {"vtu"}
  Slots = {1, 2}
  MaxAttempts = 1
  MaxPolls = 1
  Answers <- FewAnswers
  Dedupe <- OnlyA
  LostByReference = {}
  LostByOrderId <- OnlyA
  Eligible <- Always
  Mishaps = {"fault"}
  MaxMishaps = 1
  Scans = {1}
  MaxScans = 1
  Admins = {"a1"}
  MaxInterventions = 2
INVARIANTS RTypeOK RefundsBounded
CHECK_DEADLOCK FALSE
