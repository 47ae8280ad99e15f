\* A timeout at the first provider, then a pending answer of the second.
SPECIFICATION Spec
CONSTANTS
  A = A
  B = B
  NoProvider = NoProvider
  Route <- RouteAB
  Services = {"vtu"}
  Slots = {1, 2}
  MaxAttempts = 3
  MaxPolls = 4
  Answers <- AllAnswers
  Dedupe = {}
  LostByReference = {}
  LostByOrderId = {}
  Eligible <- Changes
  Mishaps = {}
  MaxMishaps = 0
INVARIANTS NoRefundOfDelivered
CHECK_DEADLOCK FALSE
