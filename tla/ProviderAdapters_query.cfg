\* A reconciliation asks ClubKonnect for a pending order.
SPECIFICATION AdapterSpec
CONSTANTS
  Adapters = {"clubkonnect"}
  Askers = {"reconciliation"}
  LastMinute = 1
INVARIANT VerdictIsConfirmed
CHECK_DEADLOCK FALSE
