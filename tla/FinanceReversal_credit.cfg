\* One administrator reverses or refunds a purchase.
SPECIFICATION ReversalSpec
CONSTANTS
  Interventions = {"i1", "i2"}
  LeftIn = {"pending", "successful", "failed", "requires_review"}
INVARIANT SettlementIsCredited
CHECK_DEADLOCK FALSE
