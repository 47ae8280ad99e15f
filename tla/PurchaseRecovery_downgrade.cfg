\* A scan that asked the provider of the last attempt fails a purchase the next provider delivered.
SPECIFICATION RSpec
CONSTANTS
  A = A
  B = B
  NoProvider = NoProvider
  Route <- RouteAB
  Services = {"vtu"}
  Slots = {1, 2}
  MaxAttempts = 2
  MaxPolls = 2
  Answers <- FewAnswers
  Dedupe = {}
  LostByReference = {}
  LostByOrderId = {}
  Eligible <- Always
  Mishaps = {}
  MaxMishaps = 0
  Scans = {1}
  MaxScans = 2
  Admins = {}
  MaxInterventions = 0
PROPERTIES NeverDowngrades
CHECK_DEADLOCK FALSE
