\* Each of the components beside the ledger and the purchase saga.
SPECIFICATION ServicesSpec
CONSTANTS
  Never = Never
  Kinds = {"checkout", "transfer", "stray"}
  Requests = {"r1", "r2"}
  MaxAttempts = 5
  MaxDeliveries = 3
  Mishaps = {"fault", "crash"}
  MaxMishaps = 1
  Keys = {"k1", "k2"}
  Bodies = {"data", "airtime", "airtime for another"}
  SameJson = {{"data", "airtime"}}
  Fingerprinted = {"airtime"}
  Submissions = {"s1", "s2"}
  MaxWindows = 2
  Referred = {"u1", "u2"}
  Calls = {"c1", "c2"}
  Tiers = {1, 2}
  Recipients = {"referrer", "referred"}
  Callers = {"p1", "p2", "p3"}
  Threshold = 3
  Cooldown = 2
  Interventions = {"i1", "i2", "i3"}
  LeftIn = {"pending", "successful", "failed", "requires_review"}
  Adapters = {"vtpass", "clubkonnect", "legitdataway", "networkdatasub", "edata", "maskawasub",
              "smshika", "secureidverify"}
  Askers = {"worker", "reconciliation"}
  LastMinute = 2
  Xhrs = {"x1", "x2", "x3"}
  LastSession = 3
  QueueJobs = {"q1", "q2"}
  LastBatch = 2
  AttemptsPerJob = 4
  MaxRetries = 3
  Visits = {"v1", "v2", "v3"}
  SignUps = {"s1", "s2", "s3"}
  Passwords = {"first", "second"}
  LastPurchase = 2
  PollRequests = {"k1", "k2"}
  PollMaxAttempts = 3
INVARIANTS
  ServicesTypeOK
  FundedOnce FundingIsTrue
  OneChargePerKey OneChargePerWindow AnswersMatchPurchases
  RewardsAreTrue RewardsAreEarned MilestonesReached
  OpenAfterThreshold
  SettledOnce
  CutOffIsReviewed VerdictIsTrue
  PageSurvivesRefresh
  SentToAll
  AccountsAgree
  RegistrationsAgree
  PageShowsOutcome
PROPERTIES PaidIsFunded NotRefusedForever
CHECK_DEADLOCK FALSE
