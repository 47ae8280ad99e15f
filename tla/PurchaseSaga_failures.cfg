\* Two mishaps anywhere, in both workers; timeouts of the airtime worker at any time.
SPECIFICATION Spec
CONSTANTS
  A = A
  B = B
  NoProvider = NoProvider
  Route <- RouteA
  Services = {"vtu", "airtime"}
  Slots = {1, 2, 3}
  MaxAttempts = 2
  MaxPolls = 2
  Answers <- AllAnswers
  Dedupe <- OnlyA
  LostByReference <- OnlyA
  LostByOrderId <- OnlyA
  Eligible <- Always
  Mishaps = {"fault", "crash"}
  MaxMishaps = 2
INVARIANTS RefundOnce NoRefundOfDelivered NoRepeatOfRecorded NothingStuck
PROPERTIES SuccessIsFinal
CHECK_DEADLOCK FALSE
