SPECIFICATION Spec
CONSTANTS
  u1 = u1
  settle = settle
  equity = equity
  ghost = ghost
  closed = closed
  NGN = NGN
  USD = USD
  k1 = k1
  k2 = k2
  kg = kg
  NoKey = NoKey
  NoSession = NoSession
  WalletIds = {u1, settle, equity}
  Wallets = {u1, settle, equity}
  Active = {u1, settle, equity}
  Treasuries = {settle}
  Currencies = {NGN, USD}
  CurrencyOf <- MCCurrencyOf
  Overdraft <- MCOverdraft
  LockKeys <- MCLockKeys
  HashText <- MCHashText
  Keys = {k1, k2, kg}
  Requests <- RaceRequests
  Sessions = {s1, s2, s3}
  MaxCalls = 3
SYMMETRY Symm
INVARIANTS TypeOK NoOverdraft OneBatchPerKey RepliesAreTrue DoubleEntry
PROPERTY ImplementsAtomicLedger
CHECK_DEADLOCK FALSE
