SPECIFICATION FairSpec
CONSTANTS
  u1 = u1
  settle = settle
  equity = equity
  ghost = ghost
  closed = closed
  NGN = NGN
  USD = USD
  k1 = k1
  k2 = k2
  kg = kg
  NoKey = NoKey
  NoSession = NoSession
  WalletIds = {u1, settle, equity, closed, ghost}
  Wallets = {u1, settle, equity, closed}
  Active = {u1, settle, equity}
  Treasuries = {settle}
  Currencies = {NGN, USD}
  CurrencyOf <- MCCurrencyOf
  Overdraft <- MCOverdraft
  LockKeys <- MCLockKeys
  HashText <- MCHashText
  Keys = {k1, k2, kg}
  Requests <- ErrorRequests
  Sessions = {s1, s2}
  MaxCalls = 3
INVARIANT RepliesAreTrue
PROPERTY CallsEnd
CHECK_DEADLOCK FALSE
