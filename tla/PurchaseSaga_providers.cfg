\* Two providers, switched on and off at any time; no errors.
SPECIFICATION Spec
CONSTANTS
  A = A
  B = B
  NoProvider = NoProvider
  Route <- RouteAB
  Services = {"vtu"}
  Slots = {1, 2}
  MaxAttempts = 3
  MaxPolls = 4
  Answers <- FirstMayPend
  Dedupe = {}
  LostByReference <- OnlyA
  LostByOrderId <- OnlyA
  Eligible <- Changes
  Mishaps = {}
  MaxMishaps = 0
INVARIANT StatusIsTrue
PROPERTIES ImplementsContract
CHECK_DEADLOCK FALSE
