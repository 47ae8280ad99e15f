\* The workers and one reconciliation scan, all answers, with an error or a crash between any two steps.
SPECIFICATION RFairSpec
CONSTANTS
  A = A
  B = B
  NoProvider = NoProvider
  Route <- RouteA
  Services = {"vtu"}
  Slots = {1, 2, 3}
  MaxAttempts = 3
  MaxPolls = 2
  Answers <- AllAnswers
  Dedupe <- OnlyA
  LostByReference = {}
  LostByOrderId <- OnlyA
  Eligible <- Always
  Mishaps = {"fault", "crash"}
  MaxMishaps = 1
  Scans = {1}
  MaxScans = 2
  Admins = {}
  MaxInterventions = 0
INVARIANT OutcomeIsTrue
PROPERTIES PurchaseSettles PickedUp
CHECK_DEADLOCK FALSE
