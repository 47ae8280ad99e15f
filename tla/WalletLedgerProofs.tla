------------------------- MODULE WalletLedgerProofs -------------------------
(***************************************************************************)
(* Theorems about WalletLedger, for every set of wallets, sessions, keys   *)
(* and requests.  The inductive invariant says what each program point of  *)
(* post_wallet_journal has established: validated wallets, a positive      *)
(* amount, the advisory lock of the debited wallet, a balance that still   *)
(* covers the debit, and sole ownership of the idempotency key.  Two more, *)
(* on top of it, say what the callers are told and what the rows add up to *)
(* (with lemmas about sums over finite sets).                              *)
(***************************************************************************)
EXTENDS WalletLedger, FiniteSetTheorems, TLAPS

DebitFirst(r) == r.kind \in {"debit", "transfer"}

\* The debit entry of the call has been scanned and its lock taken.
HasLock(s) ==
  /\ req[s].kind # "genesis"
  /\ \/ pc[s] \in {"check", "insert", "post", "commit"}
     \/ pc[s] = "scan" /\ line[s] = 2 /\ DebitFirst(req[s])

\* The balance of the debited wallet has been found sufficient.
HasChecked(s) == HasLock(s) /\ pc[s] # "check"

\* The call's batch row is inserted and not committed.
HasKey(s) == pc[s] \in {"post", "commit"}

\* A call whose arguments passed is about a positive amount.
ArgumentsInv ==
  \A s \in Sessions :
    pc[s] \in {"scan", "check", "count", "insert", "post", "commit"}
      => req[s].amount > 0

\* Entries are validated in the order they are listed; the loop runs only for
\* journal calls.
WalletsInv ==
  \A s \in Sessions :
    /\ pc[s] \notin {"scan", "check", "post", "commit"} => line[s] = 1
    /\ pc[s] \in {"idem", "scan", "check"} => req[s].kind # "genesis"
    /\ pc[s] \in {"genesis", "count"} => req[s].kind = "genesis"
    /\ pc[s] \in {"scan", "check"} /\ line[s] = 2 =>
         Entry(req[s], 1).wallet \in Wallets
    /\ pc[s] = "check" =>
         req[s].from \in Wallets /\ (line[s] = 1 <=> DebitFirst(req[s]))
    /\ pc[s] \in {"count", "insert", "post", "commit"} =>
         req[s].from \in Wallets /\ req[s].to \in Wallets

LockInv ==
  \A s \in Sessions : HasLock(s) => lock[HashText[req[s].from]] = s

\* The wallet a session debits covers the debit, or is exempt.
Covered(s) ==
  req[s].from \in EquityWallets \/ Covers(req[s].from, req[s].amount)

CoverInv == \A s \in Sessions : HasChecked(s) => Covered(s)

KeyInv ==
  /\ \A s \in Sessions : HasKey(s) => Posted(req[s].key) = {}
  /\ \A s, t \in Sessions : HasKey(s) /\ HasKey(t) /\ s # t =>
       req[s].key # req[t].key \/ req[s].key = NoKey

IInv ==
  /\ TypeOK /\ ArgumentsInv /\ WalletsInv /\ LockInv /\ CoverInv /\ KeyInv
  /\ NoOverdraft /\ OneBatchPerKey

-----------------------------------------------------------------------------
\* What the assumption says of a request, spelled out.
LEMMA RequestFacts ==
  ASSUME NEW r \in Requests
  PROVE  /\ r.kind \in Kinds /\ r.from \in WalletIds /\ r.to \in WalletIds
         /\ r.amount \in Amounts /\ r.amount \in Int
         /\ r.key \in Keys \cup {NoKey}
         /\ r.kind = "genesis" => r.from \in EquityWallets /\ r.key \in Keys
  BY LedgerAssumption DEF Amounts, EquityWallets

\* The two entries of a call move its amount.
LEMMA EntryFacts ==
  ASSUME NEW r \in Requests, NEW i \in {1, 2}
  PROVE  /\ Entry(r, i) \in {Debit(r), Credit(r)}
         /\ Entry(r, i).wallet \in {r.from, r.to}
         /\ Entry(r, i).signed \in Int
  BY RequestFacts DEF Entry, Debit, Credit

\* The end of a transaction keeps the types of what it touches.
LEMMA FinishType ==
  ASSUME TypeOK, NEW s \in Sessions, NEW status \in Statuses,
         NEW posted \in BOOLEAN, Finish(s, status, posted)
  PROVE  /\ lock' \in [LockKeys -> Sessions \cup {NoSession}]
         /\ pc' \in [Sessions -> Labels] /\ line' \in [Sessions -> {1, 2}]
         /\ batch' \in [Sessions -> Nat]
         /\ written' \in [Sessions -> SUBSET LedgerRow]
         /\ req' \in [Sessions -> Requests] /\ existed' \in [Sessions -> BOOLEAN]
         /\ stamp' \in [Sessions -> Nat] /\ clock' \in Nat /\ calls' \in Nat
         /\ replies' \subseteq
              [at : Nat, req : Requests, status : Statuses, batch : Nat,
               idempotent : BOOLEAN, posted : BOOLEAN]
  BY DEF TypeOK, Finish, Goto, Labels, local

LEMMA RaiseType ==
  ASSUME TypeOK, NEW s \in Sessions, NEW code \in Statuses, Raise(s, code)
  PROVE  TypeOK'
  BY FinishType DEF TypeOK, Raise, committed

LEMMA ErrorsAreStatuses ==
  ASSUME NEW r \in Requests, NEW w, NEW c
  PROVE  /\ WalletError(w, c) \in Statuses \cup {"none"}
         /\ ArgumentError(r) \in Statuses \cup {"none"}
         /\ GenesisError(r) \in Statuses \cup {"none"}
  BY RequestFacts DEF WalletError, ArgumentError, GenesisError, BootstrapRefused, Statuses

\* A statement of a call that keeps the types, given what the program points
\* have established about the wallets.
LEMMA TypeStep ==
  ASSUME TypeOK, WalletsInv, [Next]_vars
  PROVE  TypeOK'
<1>1. ASSUME NEW s \in Sessions, ReadExisting(s) PROVE TypeOK'
  BY <1>1 DEF TypeOK, ReadExisting, Goto, committed, Labels
<1>2. ASSUME NEW s \in Sessions, BeginTransaction(s) PROVE TypeOK'
  BY <1>2 DEF TypeOK, BeginTransaction, Goto, committed, Labels
<1>3. ASSUME NEW s \in Sessions, BadArguments(s) PROVE TypeOK'
  BY <1>3, RaiseType, ErrorsAreStatuses DEF TypeOK, BadArguments
<1>4. ASSUME NEW s \in Sessions, CheckIdempotency(s) PROVE TypeOK'
  BY <1>4 DEF TypeOK, CheckIdempotency, Goto, committed, local, Labels, Posted, BatchRow
<1>5. ASSUME NEW s \in Sessions, EntryRejected(s) PROVE TypeOK'
  BY <1>5, RaiseType, ErrorsAreStatuses DEF TypeOK, EntryRejected
<1>6. ASSUME NEW s \in Sessions, ScanCredit(s) PROVE TypeOK'
  BY <1>6 DEF TypeOK, ScanCredit, NextEntry, Goto, committed, local, Labels
<1>7. ASSUME NEW s \in Sessions, LockDebit(s) PROVE TypeOK'
  <2>1. CASE Raise(s, "WALLET_LOCKED")
    BY <2>1, RaiseType DEF Statuses
  <2>2. CASE ~Raise(s, "WALLET_LOCKED")
    BY <1>7, <2>2 DEF TypeOK, LockDebit, Goto, committed, local, Labels
  <2>3. QED BY <2>1, <2>2
<1>8. ASSUME NEW s \in Sessions, CheckBalance(s) PROVE TypeOK'
  <2>1. CASE Raise(s, "INSUFFICIENT_BALANCE")
    BY <2>1, RaiseType DEF Statuses
  <2>2. CASE ~Raise(s, "INSUFFICIENT_BALANCE")
    BY <1>8, <2>2 DEF TypeOK, CheckBalance, NextEntry, Goto, committed, local, Labels
  <2>3. QED BY <2>1, <2>2
<1>9. ASSUME NEW s \in Sessions, GenesisRejected(s) PROVE TypeOK'
  BY <1>9, RaiseType, ErrorsAreStatuses DEF TypeOK, GenesisRejected
<1>10. ASSUME NEW s \in Sessions, GenesisLookup(s) PROVE TypeOK'
  BY <1>10 DEF TypeOK, GenesisLookup, Goto, committed, local, Labels, Posted, BatchRow
<1>11. ASSUME NEW s \in Sessions, CountTreasuryRows(s) PROVE TypeOK'
  <2>1. CASE Raise(s, BootstrapRefused)
    BY <2>1, RaiseType DEF Statuses, BootstrapRefused
  <2>2. CASE ~Raise(s, BootstrapRefused)
    BY <1>11, <2>2 DEF TypeOK, CountTreasuryRows, Goto, committed, local, Labels
  <2>3. QED BY <2>1, <2>2
<1>12. ASSUME NEW s \in Sessions, InsertBatch(s) PROVE TypeOK'
  <2>1. CASE Raise(s, "IDEMPOTENCY_CONFLICT")
    BY <2>1, RaiseType DEF Statuses
  <2>2. CASE ~Raise(s, "IDEMPOTENCY_CONFLICT")
    BY <1>12, <2>2 DEF TypeOK, InsertBatch, Goto, committed, local, Labels
  <2>3. QED BY <2>1, <2>2
<1>13. ASSUME NEW s \in Sessions, PostLine(s) PROVE TypeOK'
  <2> DEFINE e == Entry(req[s], line[s])
             row == [batch |-> batch[s], wallet |-> e.wallet, signed |-> e.signed,
                     running |-> RunningBalance(s, e), at |-> stamp[s]]
  <2>1. e.wallet \in Wallets /\ e.signed \in Int
    BY <1>13, EntryFacts DEF TypeOK, WalletsInv, PostLine
  <2>2. Entry(req[s], 1).signed \in Int
    BY EntryFacts DEF TypeOK
  <2>3. RunningBalance(s, e) \in Int
    BY <2>1, <2>2 DEF TypeOK, RunningBalance
  <2>4. row \in LedgerRow
    BY <2>1, <2>3 DEF TypeOK, LedgerRow
  <2>5. written' = [written EXCEPT ![s] = @ \cup {row}]
    BY <1>13 DEF PostLine
  <2>6. written' \in [Sessions -> SUBSET LedgerRow]
    BY <2>4, <2>5 DEF TypeOK
  <2> HIDE DEF e, row
  <2>7. QED
    BY <1>13, <2>6 DEF TypeOK, PostLine, Goto, committed, local, Labels
<1>14. ASSUME NEW s \in Sessions, Commit(s) PROVE TypeOK'
  <2>1. PICK status \in {"ok", "INTERNAL_ERROR"} : Finish(s, status, TRUE)
    BY <1>14 DEF Commit
  <2>2. status \in Statuses
    BY DEF Statuses
  <2>3. req[s] \in Requests /\ req[s].amount \in Int /\ req[s].amount \in Amounts
        /\ req[s].key \in Keys \cup {NoKey}
    BY RequestFacts DEF TypeOK
  <2>4. balance' \in [Wallets -> Int]
    BY <1>14, <2>3 DEF TypeOK, Commit
  <2>5. batches' \subseteq BatchRow
    BY <1>14, <2>3 DEF TypeOK, Commit, BatchRow, WalletsInv
  <2>6. ledger' \subseteq LedgerRow
    BY <1>14 DEF TypeOK, Commit
  <2>7. QED
    BY <2>1, <2>2, <2>4, <2>5, <2>6, FinishType DEF TypeOK
<1>15. ASSUME NEW s \in Sessions, ReturnExisting(s) PROVE TypeOK'
  BY <1>15, FinishType DEF TypeOK, ReturnExisting, committed, Statuses
<1>16. ASSUME NEW s \in Sessions, Rollback(s) PROVE TypeOK'
  BY <1>16, RaiseType DEF Rollback, Statuses
<1>17. CASE UNCHANGED vars
  BY <1>17 DEF TypeOK, vars
<1>18. QED
  BY <1>1, <1>2, <1>3, <1>4, <1>5, <1>6, <1>7, <1>8, <1>9, <1>10, <1>11, <1>12,
     <1>13, <1>14, <1>15, <1>16, <1>17 DEF Next, Statement

-----------------------------------------------------------------------------

\* The arguments are tested before the first row is read and do not change.
LEMMA ArgumentsStep ==
  ASSUME TypeOK, ArgumentsInv, [Next]_vars
  PROVE  ArgumentsInv'
<1> USE DEF TypeOK, ArgumentsInv, Goto, committed, local
<1>1. ASSUME NEW s \in Sessions, ReadExisting(s) PROVE ArgumentsInv'
  BY <1>1 DEF ReadExisting
<1>2. ASSUME NEW s \in Sessions, BeginTransaction(s) PROVE ArgumentsInv'
  BY <1>2 DEF BeginTransaction
<1>3. ASSUME NEW s \in Sessions, BadArguments(s) PROVE ArgumentsInv'
  BY <1>3 DEF BadArguments, Raise, Finish
<1>4. ASSUME NEW s \in Sessions, CheckIdempotency(s) PROVE ArgumentsInv'
  BY <1>4, RequestFacts DEF CheckIdempotency, ArgumentError, BootstrapRefused
<1>5. ASSUME NEW s \in Sessions, EntryRejected(s) PROVE ArgumentsInv'
  BY <1>5 DEF EntryRejected, Raise, Finish
<1>6. ASSUME NEW s \in Sessions, ScanCredit(s) PROVE ArgumentsInv'
  BY <1>6 DEF ScanCredit, NextEntry
<1>7. ASSUME NEW s \in Sessions, LockDebit(s) PROVE ArgumentsInv'
  BY <1>7 DEF LockDebit, Raise, Finish
<1>8. ASSUME NEW s \in Sessions, CheckBalance(s) PROVE ArgumentsInv'
  BY <1>8 DEF CheckBalance, NextEntry, Raise, Finish
<1>9. ASSUME NEW s \in Sessions, GenesisRejected(s) PROVE ArgumentsInv'
  BY <1>9 DEF GenesisRejected, Raise, Finish
<1>10. ASSUME NEW s \in Sessions, GenesisLookup(s) PROVE ArgumentsInv'
  BY <1>10, RequestFacts DEF GenesisLookup, ArgumentError, BootstrapRefused
<1>11. ASSUME NEW s \in Sessions, CountTreasuryRows(s) PROVE ArgumentsInv'
  BY <1>11 DEF CountTreasuryRows, Raise, Finish
<1>12. ASSUME NEW s \in Sessions, InsertBatch(s) PROVE ArgumentsInv'
  BY <1>12 DEF InsertBatch, Raise, Finish
<1>13. ASSUME NEW s \in Sessions, PostLine(s) PROVE ArgumentsInv'
  BY <1>13 DEF PostLine
<1>14. ASSUME NEW s \in Sessions, Commit(s) PROVE ArgumentsInv'
  BY <1>14 DEF Commit, Finish
<1>15. ASSUME NEW s \in Sessions, ReturnExisting(s) PROVE ArgumentsInv'
  BY <1>15 DEF ReturnExisting, Finish
<1>16. ASSUME NEW s \in Sessions, Rollback(s) PROVE ArgumentsInv'
  BY <1>16 DEF Rollback, InTransaction, Raise, Finish
<1>17. CASE UNCHANGED vars
  BY <1>17 DEF vars
<1>18. QED
  BY <1>1, <1>2, <1>3, <1>4, <1>5, <1>6, <1>7, <1>8, <1>9, <1>10, <1>11,
       <1>12, <1>13, <1>14, <1>15, <1>16, <1>17 DEF Next, Statement

\* An entry is scanned only when its wallet row is valid.
LEMMA WalletsStep ==
  ASSUME TypeOK, ArgumentsInv, WalletsInv, [Next]_vars
  PROVE  WalletsInv'
<1> USE DEF TypeOK, ArgumentsInv, WalletsInv, Goto, committed, local
<1>1. ASSUME NEW s \in Sessions, ReadExisting(s) PROVE WalletsInv'
  BY <1>1 DEF ReadExisting
<1>2. ASSUME NEW s \in Sessions, BeginTransaction(s) PROVE WalletsInv'
  BY <1>2 DEF BeginTransaction
<1>3. ASSUME NEW s \in Sessions, BadArguments(s) PROVE WalletsInv'
  BY <1>3 DEF BadArguments, Raise, Finish
<1>4. ASSUME NEW s \in Sessions, CheckIdempotency(s) PROVE WalletsInv'
  BY <1>4 DEF CheckIdempotency
<1>5. ASSUME NEW s \in Sessions, EntryRejected(s) PROVE WalletsInv'
  BY <1>5 DEF EntryRejected, Raise, Finish
<1>6. ASSUME NEW s \in Sessions, ScanCredit(s) PROVE WalletsInv'
  BY <1>6, RequestFacts DEF ScanCredit, NextEntry, Entry, Debit, Credit,
       DebitFirst, Kinds, WalletError
<1>7. ASSUME NEW s \in Sessions, LockDebit(s) PROVE WalletsInv'
  BY <1>7, RequestFacts DEF LockDebit, Raise, Finish, Entry, Debit, Credit,
       DebitFirst, Kinds, WalletError
<1>8. ASSUME NEW s \in Sessions, CheckBalance(s) PROVE WalletsInv'
  BY <1>8, RequestFacts DEF CheckBalance, NextEntry, Raise, Finish, Entry,
       Debit, Credit, DebitFirst, Kinds, WalletError
<1>9. ASSUME NEW s \in Sessions, GenesisRejected(s) PROVE WalletsInv'
  BY <1>9 DEF GenesisRejected, Raise, Finish
<1>10. ASSUME NEW s \in Sessions, GenesisLookup(s) PROVE WalletsInv'
  BY <1>10 DEF GenesisLookup, GenesisError, WalletError, BootstrapRefused
<1>11. ASSUME NEW s \in Sessions, CountTreasuryRows(s) PROVE WalletsInv'
  BY <1>11 DEF CountTreasuryRows, Raise, Finish
<1>12. ASSUME NEW s \in Sessions, InsertBatch(s) PROVE WalletsInv'
  BY <1>12 DEF InsertBatch, Raise, Finish
<1>13. ASSUME NEW s \in Sessions, PostLine(s) PROVE WalletsInv'
  BY <1>13 DEF PostLine
<1>14. ASSUME NEW s \in Sessions, Commit(s) PROVE WalletsInv'
  BY <1>14 DEF Commit, Finish
<1>15. ASSUME NEW s \in Sessions, ReturnExisting(s) PROVE WalletsInv'
  BY <1>15 DEF ReturnExisting, Finish
<1>16. ASSUME NEW s \in Sessions, Rollback(s) PROVE WalletsInv'
  BY <1>16 DEF Rollback, InTransaction, Raise, Finish
<1>17. CASE UNCHANGED vars
  BY <1>17 DEF vars, DebitFirst
<1>18. QED
  BY <1>1, <1>2, <1>3, <1>4, <1>5, <1>6, <1>7, <1>8, <1>9, <1>10, <1>11,
       <1>12, <1>13, <1>14, <1>15, <1>16, <1>17 DEF Next, Statement

-----------------------------------------------------------------------------
\* One step of a session.
Step(s) == ReadExisting(s) \/ Statement(s) \/ Rollback(s)

\* A step leaves the other sessions where they are and their locks with them.
LEMMA Frame ==
  ASSUME TypeOK, NEW s \in Sessions, NEW t \in Sessions, s # t, Step(s)
  PROVE  /\ pc'[t] = pc[t] /\ req'[t] = req[t] /\ line'[t] = line[t]
         /\ \A k \in LockKeys : lock[k] = t => lock'[k] = t
<1> USE DEF TypeOK, Goto, local
<1>1. CASE ReadExisting(s)
  BY <1>1, LedgerAssumption DEF ReadExisting
<1>2. CASE BeginTransaction(s)
  BY <1>2, LedgerAssumption DEF BeginTransaction
<1>3. CASE BadArguments(s)
  BY <1>3, LedgerAssumption DEF BadArguments, Raise, Finish
<1>4. CASE CheckIdempotency(s)
  BY <1>4, LedgerAssumption DEF CheckIdempotency
<1>5. CASE EntryRejected(s)
  BY <1>5, LedgerAssumption DEF EntryRejected, Raise, Finish
<1>6. CASE ScanCredit(s)
  BY <1>6, LedgerAssumption DEF ScanCredit, NextEntry
<1>7. CASE LockDebit(s)
  BY <1>7, LedgerAssumption DEF LockDebit, Raise, Finish
<1>8. CASE CheckBalance(s)
  BY <1>8, LedgerAssumption DEF CheckBalance, NextEntry, Raise, Finish
<1>9. CASE GenesisRejected(s)
  BY <1>9, LedgerAssumption DEF GenesisRejected, Raise, Finish
<1>10. CASE GenesisLookup(s)
  BY <1>10, LedgerAssumption DEF GenesisLookup
<1>11. CASE CountTreasuryRows(s)
  BY <1>11, LedgerAssumption DEF CountTreasuryRows, Raise, Finish
<1>12. CASE InsertBatch(s)
  BY <1>12, LedgerAssumption DEF InsertBatch, Raise, Finish
<1>13. CASE PostLine(s)
  BY <1>13, LedgerAssumption DEF PostLine
<1>14. CASE Commit(s)
  BY <1>14, LedgerAssumption DEF Commit, Finish
<1>15. CASE ReturnExisting(s)
  BY <1>15, LedgerAssumption DEF ReturnExisting, Finish
<1>16. CASE Rollback(s)
  BY <1>16, LedgerAssumption DEF Rollback, InTransaction, Raise, Finish
<1>17. QED
  BY <1>1, <1>2, <1>3, <1>4, <1>5, <1>6, <1>7, <1>8, <1>9, <1>10, <1>11,
       <1>12, <1>13, <1>14, <1>15, <1>16 DEF Step, Statement

\* Only a commit changes the committed tables.
LEMMA OnlyCommitWrites ==
  ASSUME NEW s \in Sessions, Step(s), ~Commit(s)
  PROVE  UNCHANGED committed
  BY DEF Step, Statement, ReadExisting, BeginTransaction, BadArguments,
         CheckIdempotency, EntryRejected, ScanCredit, LockDebit, CheckBalance,
         GenesisRejected, GenesisLookup, CountTreasuryRows, InsertBatch, PostLine,
         ReturnExisting, Rollback, Raise, committed

\* A session that has passed its debit entry debits an existing wallet.
LEMMA LockedWallet ==
  ASSUME TypeOK, WalletsInv, NEW s \in Sessions, HasLock(s)
  PROVE  req[s].from \in Wallets /\ HashText[req[s].from] \in LockKeys
<1>1. req[s].from \in Wallets
  BY DEF TypeOK, WalletsInv, HasLock, DebitFirst, Entry, Debit
<1>2. QED
  BY <1>1, LedgerAssumption

\* A session acquires the lock of the wallet it debits before it checks the
\* balance, and the end of the transaction is all that gives the lock up.
LEMMA OwnLock ==
  ASSUME TypeOK, ArgumentsInv, WalletsInv, NEW s \in Sessions,
         HasLock(s) => lock[HashText[req[s].from]] = s, Step(s), HasLock(s)'
  PROVE  lock'[HashText[req'[s].from]] = s
<1> USE DEF TypeOK, HasLock, DebitFirst, Goto, local
<1>1. CASE ReadExisting(s)
  BY <1>1 DEF ReadExisting
<1>2. CASE BeginTransaction(s)
  BY <1>2 DEF BeginTransaction
<1>3. CASE BadArguments(s)
  BY <1>3 DEF BadArguments, Raise, Finish
<1>4. CASE CheckIdempotency(s)
  BY <1>4 DEF CheckIdempotency, WalletsInv
<1>5. CASE EntryRejected(s)
  BY <1>5 DEF EntryRejected, Raise, Finish
<1>6. CASE ScanCredit(s)
  BY <1>6, RequestFacts DEF ScanCredit, NextEntry, Entry, Debit, Credit,
       Kinds, ArgumentsInv, WalletsInv
<1>7. CASE LockDebit(s)
  BY <1>7, RequestFacts, LedgerAssumption DEF LockDebit, Raise, Finish, Entry,
       Debit, Credit, Kinds, ArgumentsInv, WalletsInv, WalletError
<1>8. CASE CheckBalance(s)
  BY <1>8, RequestFacts DEF CheckBalance, NextEntry, Raise, Finish, Entry,
       Debit, Credit, Kinds, ArgumentsInv, WalletsInv
<1>9. CASE GenesisRejected(s)
  BY <1>9 DEF GenesisRejected, Raise, Finish
<1>10. CASE GenesisLookup(s)
  BY <1>10 DEF GenesisLookup, WalletsInv
<1>11. CASE CountTreasuryRows(s)
  BY <1>11 DEF CountTreasuryRows, Raise, Finish, WalletsInv
<1>12. CASE InsertBatch(s)
  BY <1>12 DEF InsertBatch, Raise, Finish
<1>13. CASE PostLine(s)
  BY <1>13 DEF PostLine
<1>14. CASE Commit(s)
  BY <1>14 DEF Commit, Finish
<1>15. CASE ReturnExisting(s)
  BY <1>15 DEF ReturnExisting, Finish
<1>16. CASE Rollback(s)
  BY <1>16 DEF Rollback, InTransaction, Raise, Finish
<1>17. QED
  BY <1>1, <1>2, <1>3, <1>4, <1>5, <1>6, <1>7, <1>8, <1>9, <1>10, <1>11,
       <1>12, <1>13, <1>14, <1>15, <1>16 DEF Step, Statement

LEMMA LockStep ==
  ASSUME TypeOK, ArgumentsInv, WalletsInv, LockInv, [Next]_vars
  PROVE  LockInv'
<1>1. ASSUME NEW s \in Sessions, Step(s), NEW t \in Sessions, HasLock(t)'
      PROVE  lock'[HashText[req'[t].from]] = t
  <2>1. CASE s = t
    BY <1>1, <2>1, OwnLock DEF LockInv
  <2>2. CASE s # t
    <3>1. HasLock(t) /\ req'[t] = req[t]
      BY <1>1, <2>2, Frame DEF HasLock, DebitFirst
    <3>2. QED
      BY <1>1, <2>2, <3>1, Frame, LockedWallet DEF LockInv
  <2>3. QED BY <2>1, <2>2
<1>2. CASE UNCHANGED vars
  BY <1>2 DEF vars, LockInv, HasLock, DebitFirst
<1>3. QED
  BY <1>1, <1>2 DEF Next, Step, LockInv

\* The balance of a wallet changes only by a commit that moves it.
LEMMA CommitBalance ==
  ASSUME TypeOK, ArgumentsInv, WalletsInv, NEW s \in Sessions, Commit(s),
         NEW w \in Wallets
  PROVE  /\ balance[w] \in Int /\ req[s].amount \in Int
         /\ balance'[w] = balance[w]
              + (IF w = req[s].to   THEN req[s].amount ELSE 0)
              - (IF w = req[s].from THEN req[s].amount ELSE 0)
         /\ w # req[s].from => balance'[w] >= balance[w]
         /\ req[s].from \in Wallets /\ req[s].to \in Wallets
  BY RequestFacts DEF TypeOK, ArgumentsInv, WalletsInv, Commit

\* What a session has checked stays true of its wallet: nobody else debits it.
LEMMA OwnCover ==
  ASSUME TypeOK, ArgumentsInv, WalletsInv, NEW s \in Sessions,
         HasChecked(s) => Covered(s), Step(s), HasChecked(s)'
  PROVE  Covered(s)'
<1> USE DEF TypeOK, HasLock, HasChecked, DebitFirst, Goto, local, committed, Covers, Covered
<1>1. CASE ReadExisting(s)
  BY <1>1 DEF ReadExisting
<1>2. CASE BeginTransaction(s)
  BY <1>2 DEF BeginTransaction
<1>3. CASE BadArguments(s)
  BY <1>3 DEF BadArguments, Raise, Finish
<1>4. CASE CheckIdempotency(s)
  BY <1>4 DEF CheckIdempotency, WalletsInv
<1>5. CASE EntryRejected(s)
  BY <1>5 DEF EntryRejected, Raise, Finish
<1>6. CASE ScanCredit(s)
  BY <1>6, RequestFacts DEF ScanCredit, NextEntry, Entry, Debit, Credit,
       Kinds, ArgumentsInv, WalletsInv
<1>7. CASE LockDebit(s)
  BY <1>7, RequestFacts DEF LockDebit, Raise, Finish, Entry, Debit, Credit,
       Kinds, ArgumentsInv, WalletsInv, WalletError
<1>8. CASE CheckBalance(s)
  BY <1>8, RequestFacts DEF CheckBalance, NextEntry, Raise, Finish, Entry,
       Debit, Credit, Kinds, ArgumentsInv, WalletsInv
<1>9. CASE GenesisRejected(s)
  BY <1>9 DEF GenesisRejected, Raise, Finish
<1>10. CASE GenesisLookup(s)
  BY <1>10 DEF GenesisLookup, WalletsInv
<1>11. CASE CountTreasuryRows(s)
  BY <1>11 DEF CountTreasuryRows, Raise, Finish, WalletsInv
<1>12. CASE InsertBatch(s)
  BY <1>12 DEF InsertBatch, Raise, Finish
<1>13. CASE PostLine(s)
  BY <1>13 DEF PostLine
<1>14. CASE Commit(s)
  BY <1>14 DEF Commit, Finish
<1>15. CASE ReturnExisting(s)
  BY <1>15 DEF ReturnExisting, Finish
<1>16. CASE Rollback(s)
  BY <1>16 DEF Rollback, InTransaction, Raise, Finish
<1>17. QED
  BY <1>1, <1>2, <1>3, <1>4, <1>5, <1>6, <1>7, <1>8, <1>9, <1>10, <1>11,
       <1>12, <1>13, <1>14, <1>15, <1>16 DEF Step, Statement

LEMMA CoverStep ==
  ASSUME TypeOK, ArgumentsInv, WalletsInv, LockInv, CoverInv, [Next]_vars
  PROVE  CoverInv'
<1>1. ASSUME NEW s \in Sessions, Step(s), NEW t \in Sessions, HasChecked(t)'
      PROVE  Covered(t)'
  <2>1. CASE s = t
    BY <1>1, <2>1, OwnCover DEF CoverInv
  <2>2. CASE s # t
    <3>1. HasChecked(t) /\ HasLock(t) /\ req'[t] = req[t]
      BY <1>1, <2>2, Frame DEF HasChecked, HasLock, DebitFirst
    <3> DEFINE w == req[t].from
    <3>2. w \in Wallets /\ lock[HashText[w]] = t
      BY <3>1, LockedWallet DEF LockInv
    <3>3. CASE ~Commit(s)
      BY <1>1, <3>1, <3>3, OnlyCommitWrites DEF CoverInv, Covered, Covers, committed
    <3>4. CASE Commit(s) /\ req[s].from = w /\ req[s].kind # "genesis"
      <4>1. HasLock(s)
        BY <3>4 DEF Commit, HasLock
      <4>2. QED
        BY <2>2, <3>2, <3>4, <4>1 DEF LockInv
    <3>5. CASE Commit(s) /\ req[s].from = w /\ req[s].kind = "genesis"
      BY <3>1, <3>5, RequestFacts DEF TypeOK, Covered
    <3>6. CASE Commit(s) /\ req[s].from # w
      <4>1. balance'[w] >= balance[w] /\ balance[w] \in Int /\ balance'[w] \in Int
        BY <3>2, <3>6, CommitBalance
      <4>2. req[t].amount \in Int /\ Overdraft[w] \in Int
        BY <3>2, RequestFacts, LedgerAssumption DEF TypeOK
      <4>3. QED
        BY <3>1, <4>1, <4>2 DEF CoverInv, Covered, Covers
    <3>7. QED BY <3>3, <3>4, <3>5, <3>6
  <2>3. QED BY <2>1, <2>2
<1>2. CASE UNCHANGED vars
  BY <1>2 DEF vars, CoverInv, HasChecked, HasLock, DebitFirst, Covered, Covers
<1>3. QED
  BY <1>1, <1>2 DEF Next, Step, CoverInv

\* Two sessions with one key cannot both have inserted it.
LEMMA KeyStep ==
  ASSUME TypeOK, KeyInv, [Next]_vars
  PROVE  KeyInv'
<1>1. ASSUME NEW s \in Sessions, Step(s) PROVE KeyInv'
  <2>1. ASSUME NEW t \in Sessions, HasKey(t)', ~HasKey(t)
        PROVE  t = s /\ InsertBatch(s)
    <3>1. t = s
      BY <1>1, <2>1, Frame DEF HasKey
    <3>2. QED
      BY <1>1, <2>1, <3>1 DEF HasKey, Step, Statement, ReadExisting, BeginTransaction,
         BadArguments, CheckIdempotency, EntryRejected, ScanCredit, LockDebit,
         CheckBalance, NextEntry, GenesisRejected, GenesisLookup,
         CountTreasuryRows, PostLine, Commit, ReturnExisting, Rollback, Raise,
         Finish, Goto, TypeOK
  <2>2. CASE InsertBatch(s) /\ HasKey(s)'
    <3>1. Posted(req[s].key) = {} /\ ~Reserved(s, req[s].key)
          /\ UNCHANGED batches /\ UNCHANGED req
      BY <2>2 DEF InsertBatch, Raise, Finish, Goto, HasKey, TypeOK, committed, local
    <3>2. \A t \in Sessions : t # s /\ HasKey(t)' => HasKey(t)
      BY <1>1, Frame DEF HasKey
    <3>3. QED
      BY <3>1, <3>2 DEF KeyInv, Reserved, Posted, HasKey
  <2>3. CASE ~(InsertBatch(s) /\ HasKey(s)')
    <3>1. \A t \in Sessions : HasKey(t)' => HasKey(t)
      BY <2>1, <2>3
    <3>2. \A t \in Sessions : HasKey(t)' => req'[t] = req[t]
      <4>1. ASSUME HasKey(s), HasKey(s)' PROVE req'[s] = req[s]
        BY <1>1, <4>1 DEF HasKey, Step, Statement, ReadExisting,
           BeginTransaction, BadArguments, CheckIdempotency, EntryRejected,
           ScanCredit, LockDebit, CheckBalance, GenesisRejected, GenesisLookup,
           CountTreasuryRows, InsertBatch, PostLine, Commit, ReturnExisting,
           Rollback, Raise, Finish, Goto, local
      <4>2. QED
        BY <1>1, <3>1, <4>1, Frame
    <3>3. CASE ~Commit(s)
      <4>1. UNCHANGED batches
        BY <1>1, <3>3, OnlyCommitWrites DEF committed
      <4>2. QED
        BY <3>1, <3>2, <4>1 DEF KeyInv, Posted, HasKey
    <3>4. CASE Commit(s)
      <4>1. HasKey(s) /\ ~HasKey(s)'
        BY <3>4 DEF Commit, Finish, Goto, HasKey, TypeOK
      <4>2. ASSUME NEW t \in Sessions, HasKey(t)'
            PROVE  Posted(req[t].key)' = {}
        <5>1. t # s /\ HasKey(t) /\ req'[t] = req[t]
          BY <3>1, <3>2, <4>1, <4>2
        <5>2. Posted(req[t].key) = {}
              /\ (req[s].key # req[t].key \/ req[t].key = NoKey)
          BY <4>1, <5>1 DEF KeyInv
        <5>3. batches' = batches \cup {[id |-> batch[s], key |-> req[s].key,
                  from |-> req[s].from, to |-> req[s].to, amount |-> req[s].amount]}
          BY <3>4 DEF Commit
        <5>4. QED
          BY <5>1, <5>2, <5>3 DEF Posted
      <4>3. QED
        BY <3>1, <3>2, <4>2 DEF KeyInv, HasKey
    <3>5. QED BY <3>3, <3>4
  <2>4. QED BY <2>2, <2>3
<1>2. CASE UNCHANGED vars
  BY <1>2 DEF vars, KeyInv, HasKey, Posted
<1>3. QED
  BY <1>1, <1>2 DEF Next, Step

\* A debit that commits has been covered until then, so no wallet but an equity
\* wallet ends below its overdraft limit.
LEMMA OverdraftStep ==
  ASSUME TypeOK, ArgumentsInv, WalletsInv, CoverInv, NoOverdraft, [Next]_vars
  PROVE  NoOverdraft'
<1>1. ASSUME NEW s \in Sessions, Step(s), NEW w \in Wallets \ EquityWallets
      PROVE  balance'[w] + Overdraft[w] >= 0
  <2>1. CASE ~Commit(s)
    BY <1>1, <2>1, OnlyCommitWrites DEF NoOverdraft, committed
  <2>2. CASE Commit(s)
    <3>1. /\ balance[w] \in Int /\ balance'[w] \in Int /\ Overdraft[w] \in Int
          /\ req[s].amount \in Int
      BY <2>2, CommitBalance, LedgerAssumption
    <3>2. CASE w # req[s].from
      BY <1>1, <2>2, <3>1, <3>2, CommitBalance DEF NoOverdraft
    <3>3. CASE w = req[s].from
      <4>1. req[s].kind # "genesis"
        BY <1>1, <3>3, RequestFacts DEF TypeOK
      <4>2. pc[s] = "commit"
        BY <2>2 DEF Commit
      <4>3. HasChecked(s) /\ req[s].amount > 0
        BY <1>1, <4>1, <4>2 DEF HasChecked, HasLock, ArgumentsInv
      <4>4. Covers(w, req[s].amount)
        BY <1>1, <3>3, <4>3 DEF CoverInv, Covered
      <4>5. balance'[w] >= balance[w] - req[s].amount
        BY <1>1, <2>2, <3>1, <4>3, CommitBalance
      <4>6. QED
        BY <3>1, <4>4, <4>5 DEF Covers
    <3>4. QED BY <3>2, <3>3
  <2>3. QED BY <2>1, <2>2
<1>2. CASE UNCHANGED vars
  BY <1>2 DEF vars, NoOverdraft
<1>3. QED
  BY <1>1, <1>2 DEF Next, Step, NoOverdraft

\* A batch is committed only under a key that no batch carries.
LEMMA OneBatchStep ==
  ASSUME TypeOK, KeyInv, OneBatchPerKey, [Next]_vars
  PROVE  OneBatchPerKey'
<1>1. ASSUME NEW s \in Sessions, Step(s) PROVE OneBatchPerKey'
  <2>1. CASE ~Commit(s)
    BY <1>1, <2>1, OnlyCommitWrites DEF OneBatchPerKey, committed
  <2>2. CASE Commit(s)
    <3>1. Posted(req[s].key) = {}
      BY <2>2 DEF KeyInv, HasKey, Commit
    <3>2. batches' = batches \cup {[id |-> batch[s], key |-> req[s].key,
              from |-> req[s].from, to |-> req[s].to, amount |-> req[s].amount]}
      BY <2>2 DEF Commit
    <3>3. QED
      BY <3>1, <3>2 DEF OneBatchPerKey, Posted
  <2>3. QED BY <2>1, <2>2
<1>2. CASE UNCHANGED vars
  BY <1>2 DEF vars, OneBatchPerKey
<1>3. QED
  BY <1>1, <1>2 DEF Next, Step

-----------------------------------------------------------------------------
(***************************************************************************)
(* What a caller is told.  The clock gives every transaction a stamp of    *)
(* its own, which is the id of the batch it may write.                     *)
(***************************************************************************)
\* An error that tells the caller that nothing was written: any but a lost
\* connection.
Refused(p) == p.status \notin {"ok", "INTERNAL_ERROR"}

\* No two transactions have one stamp, and the batch under the stamp of an open
\* one is still to come.
StampInv ==
  /\ \A b \in batches : b.id <= clock
  /\ \A s \in Sessions : InTransaction(s) =>
       stamp[s] <= clock /\ \A b \in batches : b.id # stamp[s]
  /\ \A s, t \in Sessions :
       InTransaction(s) /\ InTransaction(t) /\ s # t => stamp[s] # stamp[t]

\* The batch a call is about to name: its own, or the one it found.
BatchInv ==
  \A s \in Sessions :
    /\ pc[s] \in {"post", "commit"} => batch[s] = stamp[s]
    /\ pc[s] = "return" => \E b \in batches : b.id = batch[s] /\ b.key = req[s].key

\* The transaction of a refused call is over, and nobody else has its stamp.
RefusedInv ==
  \A p \in replies :
    /\ p.at <= clock
    /\ Refused(p) => \A s \in Sessions : InTransaction(s) => stamp[s] # p.at

\* What a call that is still open will say, and what the others have said.
AnswerInv == StampInv /\ BatchInv /\ RefusedInv /\ RepliesAreTrue

\* A statement after which the call goes on, or has not begun its transaction.
Continues(s) ==
  /\ UNCHANGED <<batches, replies, clock, stamp>>
  /\ \A t \in Sessions : InTransaction(t)' => InTransaction(t)

\* A call ends with an error other than a commit's.
Fails(s) == InTransaction(s) /\ \E code \in Statuses \ {"ok"} : Raise(s, code)

LEMMA StepKinds ==
  ASSUME TypeOK, NEW s \in Sessions, Step(s)
  PROVE  \/ BeginTransaction(s) \/ Commit(s) \/ ReturnExisting(s)
         \/ Fails(s) \/ Continues(s)
<1> USE DEF TypeOK, InTransaction, Goto, local, committed
<1>1. CASE ReadExisting(s)
  BY <1>1 DEF ReadExisting, Continues
<1>2. CASE BadArguments(s)
  BY <1>2, ErrorsAreStatuses DEF BadArguments, Fails, ArgumentError, BootstrapRefused
<1>3. CASE CheckIdempotency(s)
  BY <1>3 DEF CheckIdempotency, Continues
<1>4. CASE EntryRejected(s)
  <2>1. WalletError(Entry(req[s], line[s]).wallet, req[s].currency)
          \in Statuses \ {"ok"}
    BY <1>4, ErrorsAreStatuses DEF EntryRejected, WalletError
  <2>2. QED
    BY <1>4, <2>1 DEF EntryRejected, Fails
<1>5. CASE ScanCredit(s)
  BY <1>5 DEF ScanCredit, NextEntry, Continues
<1>6. CASE LockDebit(s)
  <2>1. CASE Raise(s, "WALLET_LOCKED")
    BY <1>6, <2>1 DEF LockDebit, Fails, Statuses
  <2>2. CASE ~Raise(s, "WALLET_LOCKED")
    BY <1>6, <2>2 DEF LockDebit, Continues
  <2>3. QED BY <2>1, <2>2
<1>7. CASE CheckBalance(s)
  <2>1. CASE Raise(s, "INSUFFICIENT_BALANCE")
    BY <1>7, <2>1 DEF CheckBalance, Fails, Statuses
  <2>2. CASE ~Raise(s, "INSUFFICIENT_BALANCE")
    BY <1>7, <2>2 DEF CheckBalance, NextEntry, Continues
  <2>3. QED BY <2>1, <2>2
<1>8. CASE GenesisRejected(s)
  <2>1. GenesisError(req[s]) \in Statuses \ {"ok"}
    BY <1>8, ErrorsAreStatuses DEF GenesisRejected, GenesisError, BootstrapRefused, WalletError
  <2>2. QED
    BY <1>8, <2>1 DEF GenesisRejected, Fails
<1>9. CASE GenesisLookup(s)
  BY <1>9 DEF GenesisLookup, Continues
<1>10. CASE CountTreasuryRows(s)
  <2>1. CASE Raise(s, BootstrapRefused)
    BY <1>10, <2>1 DEF CountTreasuryRows, Fails, Statuses, BootstrapRefused
  <2>2. CASE ~Raise(s, BootstrapRefused)
    BY <1>10, <2>2 DEF CountTreasuryRows, Continues
  <2>3. QED BY <2>1, <2>2
<1>11. CASE InsertBatch(s)
  <2>1. CASE Raise(s, "IDEMPOTENCY_CONFLICT")
    BY <1>11, <2>1 DEF InsertBatch, Fails, Statuses
  <2>2. CASE ~Raise(s, "IDEMPOTENCY_CONFLICT")
    BY <1>11, <2>2 DEF InsertBatch, Continues
  <2>3. QED BY <2>1, <2>2
<1>12. CASE PostLine(s)
  BY <1>12 DEF PostLine, Continues
<1>13. CASE Rollback(s)
  BY <1>13 DEF Rollback, Fails, Statuses
<1>14. QED
  BY <1>1, <1>2, <1>3, <1>4, <1>5, <1>6, <1>7, <1>8, <1>9, <1>10, <1>11, <1>12,
     <1>13 DEF Step, Statement

\* The end of a call: its session leaves the transaction, and the reply carries
\* the transaction's stamp.
LEMMA AfterFinish ==
  ASSUME TypeOK, NEW s \in Sessions, NEW status \in Statuses, NEW posted \in BOOLEAN,
         Finish(s, status, posted)
  PROVE  /\ ~InTransaction(s)'
         /\ \A t \in Sessions : t # s => pc'[t] = pc[t]
         /\ UNCHANGED <<clock, stamp>>
         /\ \E p : /\ replies' = replies \cup {p}
                   /\ p.at = stamp[s] /\ p.status = status
                   /\ p.batch = batch[s] /\ p.req = req[s]
<1>1. /\ ~InTransaction(s)'
      /\ \A t \in Sessions : t # s => pc'[t] = pc[t]
      /\ UNCHANGED <<clock, stamp>>
  BY DEF TypeOK, Finish, Goto, InTransaction, local
<1> DEFINE p == [at |-> stamp[s], req |-> req[s], status |-> status,
                 batch |-> batch[s], idempotent |-> existed[s], posted |-> posted]
<1>2. replies' = replies \cup {p}
  BY DEF Finish
<1>3. /\ p.at = stamp[s] /\ p.status = status
      /\ p.batch = batch[s] /\ p.req = req[s]
  OBVIOUS
<1> HIDE DEF p
<1>4. QED
  BY <1>1, <1>2, <1>3

\* A commit adds one row, which carries the call's batch id and key.
LEMMA CommitRow ==
  ASSUME NEW s \in Sessions, Commit(s)
  PROVE  \E row : batches' = batches \cup {row}
                  /\ row.id = batch[s] /\ row.key = req[s].key
<1> DEFINE row == [id |-> batch[s], key |-> req[s].key, from |-> req[s].from,
                   to |-> req[s].to, amount |-> req[s].amount]
<1>1. batches' = batches \cup {row}
  BY DEF Commit
<1>2. row.id = batch[s] /\ row.key = req[s].key
  OBVIOUS
<1> HIDE DEF row
<1>3. QED BY <1>1, <1>2

\* Only the beginning of a transaction takes a stamp, and it is a new one.
LEMMA StampStep ==
  ASSUME TypeOK, BatchInv, StampInv, [Next]_vars
  PROVE  StampInv'
<1>1. ASSUME NEW s \in Sessions, Step(s) PROVE StampInv'
  <2>1. CASE BeginTransaction(s)
    <3>1. /\ clock' = clock + 1 /\ batches' = batches
          /\ stamp' = [stamp EXCEPT ![s] = clock + 1]
          /\ \A t \in Sessions : t # s => pc'[t] = pc[t]
      BY <2>1 DEF TypeOK, BeginTransaction, Goto, committed
    <3>2. \A t \in Sessions \ {s} : InTransaction(t)' =>
             InTransaction(t) /\ stamp'[t] = stamp[t]
      BY <3>1 DEF TypeOK, InTransaction
    <3>3. stamp'[s] = clock + 1 /\ clock \in Nat
      BY <3>1 DEF TypeOK
    <3>4. \A b \in batches : b.id \in Nat
      BY DEF TypeOK, BatchRow
    <3>5. \A t \in Sessions : stamp[t] \in Nat
      BY DEF TypeOK
    <3>6. \A b \in batches : b.id <= clock'
      BY <3>1, <3>3, <3>4 DEF StampInv
    <3>7. ASSUME NEW t \in Sessions, InTransaction(t)'
          PROVE  stamp'[t] <= clock' /\ \A b \in batches : b.id # stamp'[t]
      BY <3>1, <3>2, <3>3, <3>4, <3>5, <3>7 DEF StampInv
    <3>8. ASSUME NEW t \in Sessions, NEW u \in Sessions, t # u,
                 InTransaction(t)', InTransaction(u)'
          PROVE  stamp'[t] # stamp'[u]
      BY <3>1, <3>2, <3>3, <3>5, <3>8 DEF StampInv
    <3>9. QED
      BY <3>1, <3>6, <3>7, <3>8 DEF StampInv
  <2>2. CASE Commit(s)
    <3>1. PICK status \in {"ok", "INTERNAL_ERROR"} : Finish(s, status, TRUE)
      BY <2>2 DEF Commit
    <3>2. /\ ~InTransaction(s)' /\ UNCHANGED <<clock, stamp>>
          /\ \A t \in Sessions : t # s => pc'[t] = pc[t]
      <4>1. status \in Statuses /\ TRUE \in BOOLEAN
        BY DEF Statuses
      <4>2. QED
        BY <3>1, <4>1, AfterFinish, Zenon
    <3>3. PICK row : batches' = batches \cup {row} /\ row.id = batch[s]
      BY <2>2, CommitRow
    <3>4. InTransaction(s) /\ row.id = stamp[s]
      BY <2>2, <3>3 DEF Commit, BatchInv, InTransaction
    <3>5. \A t \in Sessions : InTransaction(t)' => InTransaction(t) /\ t # s
      BY <3>2 DEF InTransaction
    <3>6. QED
      BY <3>2, <3>3, <3>4, <3>5 DEF StampInv
  <2>3. CASE ReturnExisting(s) \/ Fails(s)
    <3>1. UNCHANGED <<batches, clock, stamp>> /\ ~InTransaction(s)'
          /\ \A t \in Sessions : t # s => pc'[t] = pc[t]
      <4>1. PICK status \in Statuses : Finish(s, status, FALSE)
        BY <2>3 DEF ReturnExisting, Fails, Raise, Statuses
      <4>2. QED
        BY <2>3, <4>1, AfterFinish DEF ReturnExisting, Fails, Raise, committed
    <3>2. \A t \in Sessions : InTransaction(t)' => InTransaction(t)
      BY <3>1 DEF InTransaction
    <3>3. QED
      BY <3>1, <3>2 DEF StampInv
  <2>4. CASE Continues(s)
    BY <2>4 DEF Continues, StampInv
  <2>5. QED BY <1>1, <2>1, <2>2, <2>3, <2>4, StepKinds
<1>2. CASE UNCHANGED vars
  BY <1>2 DEF vars, StampInv, InTransaction
<1>3. QED
  BY <1>1, <1>2 DEF Next, Step

\* A step of a call leaves the batch id of the others, and no batch is removed.
LEMMA BatchFrame ==
  ASSUME TypeOK, NEW s \in Sessions, Step(s)
  PROVE  /\ batches \subseteq batches'
         /\ \A t \in Sessions : t # s => batch'[t] = batch[t] /\ stamp'[t] = stamp[t]
<1>1. batches \subseteq batches'
  BY OnlyCommitWrites DEF Commit, committed
<1>2. \A t \in Sessions : t # s => batch'[t] = batch[t]
  BY DEF TypeOK, Step, Statement, ReadExisting, BeginTransaction, BadArguments,
         CheckIdempotency, EntryRejected, ScanCredit, LockDebit, CheckBalance,
         GenesisRejected, GenesisLookup, CountTreasuryRows, InsertBatch, PostLine,
         Commit, ReturnExisting, Rollback, Raise, Finish
<1>3. \A t \in Sessions : t # s => stamp'[t] = stamp[t]
  BY StepKinds, AfterFinish DEF TypeOK, Continues, BeginTransaction, Step, Statement,
     Fails, Raise, Commit, ReturnExisting, Finish, local
<1>4. QED BY <1>1, <1>2, <1>3

\* The batch a call holds is its own from the insertion on, or the one that
\* its look-up found.
LEMMA OwnBatch ==
  ASSUME TypeOK, NEW s \in Sessions, Step(s),
         pc[s] \in {"post", "commit"} => batch[s] = stamp[s],
         pc[s] = "return" => \E b \in batches : b.id = batch[s] /\ b.key = req[s].key
  PROVE  /\ pc'[s] \in {"post", "commit"} => batch'[s] = stamp'[s]
         /\ pc'[s] = "return" =>
              \E b \in batches' : b.id = batch'[s] /\ b.key = req'[s].key
<1> USE DEF TypeOK, Goto, local, committed
<1>1. CASE ReadExisting(s)
  BY <1>1 DEF ReadExisting
<1>2. CASE BeginTransaction(s)
  BY <1>2 DEF BeginTransaction
<1>3. CASE BadArguments(s)
  BY <1>3 DEF BadArguments, Raise, Finish
<1>4. CASE CheckIdempotency(s)
  BY <1>4 DEF CheckIdempotency, Posted
<1>5. CASE EntryRejected(s)
  BY <1>5 DEF EntryRejected, Raise, Finish
<1>6. CASE ScanCredit(s)
  BY <1>6 DEF ScanCredit, NextEntry
<1>7. CASE LockDebit(s)
  BY <1>7 DEF LockDebit, Raise, Finish
<1>8. CASE CheckBalance(s)
  BY <1>8 DEF CheckBalance, NextEntry, Raise, Finish
<1>9. CASE GenesisRejected(s)
  BY <1>9 DEF GenesisRejected, Raise, Finish
<1>10. CASE GenesisLookup(s)
  BY <1>10 DEF GenesisLookup, Posted
<1>11. CASE CountTreasuryRows(s)
  BY <1>11 DEF CountTreasuryRows, Raise, Finish
<1>12. CASE InsertBatch(s)
  BY <1>12 DEF InsertBatch, Raise, Finish
<1>13. CASE PostLine(s)
  BY <1>13 DEF PostLine
<1>14. CASE Commit(s)
  BY <1>14 DEF Commit, Finish
<1>15. CASE ReturnExisting(s)
  BY <1>15 DEF ReturnExisting, Finish
<1>16. CASE Rollback(s)
  BY <1>16 DEF Rollback, InTransaction, Raise, Finish
<1>17. QED
  BY <1>1, <1>2, <1>3, <1>4, <1>5, <1>6, <1>7, <1>8, <1>9, <1>10, <1>11,
       <1>12, <1>13, <1>14, <1>15, <1>16 DEF Step, Statement

LEMMA BatchStep ==
  ASSUME TypeOK, BatchInv, [Next]_vars
  PROVE  BatchInv'
<1>1. ASSUME NEW s \in Sessions, Step(s), NEW t \in Sessions
      PROVE  /\ pc'[t] \in {"post", "commit"} => batch'[t] = stamp'[t]
             /\ pc'[t] = "return" =>
                  \E b \in batches' : b.id = batch'[t] /\ b.key = req'[t].key
  <2>1. CASE s = t
    BY <1>1, <2>1, OwnBatch DEF BatchInv
  <2>2. CASE s # t
    <3>1. /\ pc'[t] = pc[t] /\ req'[t] = req[t] /\ batch'[t] = batch[t]
          /\ stamp'[t] = stamp[t] /\ batches \subseteq batches'
      BY <1>1, <2>2, Frame, BatchFrame
    <3>2. QED
      BY <3>1 DEF BatchInv
  <2>3. QED BY <2>1, <2>2
<1>2. CASE UNCHANGED vars
  BY <1>2 DEF vars, BatchInv
<1>3. QED
  BY <1>1, <1>2 DEF Next, Step, BatchInv

\* A reply is given at the end of a transaction, whose stamp nobody takes again.
LEMMA RefusedStep ==
  ASSUME TypeOK, StampInv, RefusedInv, [Next]_vars
  PROVE  RefusedInv'
<1>1. ASSUME NEW s \in Sessions, Step(s) PROVE RefusedInv'
  <2>1. CASE BeginTransaction(s)
    <3>1. /\ clock' = clock + 1 /\ replies' = replies
          /\ stamp' = [stamp EXCEPT ![s] = clock + 1]
          /\ \A t \in Sessions : t # s => pc'[t] = pc[t]
      BY <2>1 DEF TypeOK, BeginTransaction, Goto
    <3>2. \A t \in Sessions \ {s} : InTransaction(t)' =>
             InTransaction(t) /\ stamp'[t] = stamp[t]
      BY <3>1 DEF TypeOK, InTransaction
    <3>3. stamp'[s] = clock + 1 /\ clock \in Nat
      BY <3>1 DEF TypeOK
    <3>4. \A p \in replies : p.at \in Nat /\ p.at <= clock
      BY DEF TypeOK, RefusedInv
    <3>5. QED
      BY <3>1, <3>2, <3>3, <3>4 DEF RefusedInv, Refused
  <2>2. CASE Commit(s) \/ ReturnExisting(s) \/ Fails(s)
    <3>1. InTransaction(s)
      BY <2>2 DEF Commit, ReturnExisting, Fails, InTransaction
    <3>2. PICK status \in Statuses, posted \in BOOLEAN : Finish(s, status, posted)
      BY <2>2 DEF Commit, ReturnExisting, Fails, Raise, Statuses
    <3>3. /\ ~InTransaction(s)' /\ UNCHANGED <<clock, stamp>>
          /\ \A t \in Sessions : t # s => pc'[t] = pc[t]
      BY <3>2, AfterFinish
    <3>4. PICK p : replies' = replies \cup {p} /\ p.at = stamp[s]
      BY <3>2, AfterFinish
    <3>5. \A t \in Sessions : InTransaction(t)' => InTransaction(t) /\ t # s
      BY <3>3 DEF InTransaction
    <3>6. QED
      BY <3>1, <3>3, <3>4, <3>5 DEF RefusedInv, Refused, StampInv
  <2>3. CASE Continues(s)
    BY <2>3 DEF Continues, RefusedInv, Refused
  <2>4. QED BY <1>1, <2>1, <2>2, <2>3, StepKinds
<1>2. CASE UNCHANGED vars
  BY <1>2 DEF vars, RefusedInv, Refused, InTransaction
<1>3. QED
  BY <1>1, <1>2 DEF Next, Step

\* Batches stay, and one that is committed later has a stamp of a transaction
\* that was open when the refusals were given.
LEMMA RepliesStep ==
  ASSUME TypeOK, StampInv, BatchInv, RefusedInv, RepliesAreTrue, [Next]_vars
  PROVE  RepliesAreTrue'
<1>1. ASSUME NEW s \in Sessions, Step(s) PROVE RepliesAreTrue'
  <2>1. CASE BeginTransaction(s) \/ Continues(s)
    <3>1. UNCHANGED <<batches, replies>>
      BY <2>1 DEF BeginTransaction, Continues, committed
    <3>2. QED
      BY <3>1 DEF RepliesAreTrue
  <2>2. CASE Commit(s)
    <3>1. PICK row : /\ batches' = batches \cup {row}
                     /\ row.id = batch[s] /\ row.key = req[s].key
      BY <2>2, CommitRow
    <3>2. InTransaction(s) /\ row.id = stamp[s]
      BY <2>2, <3>1 DEF Commit, BatchInv, InTransaction
    <3>3. PICK status \in {"ok", "INTERNAL_ERROR"} : Finish(s, status, TRUE)
      BY <2>2 DEF Commit
    <3>4. PICK p : /\ replies' = replies \cup {p} /\ p.status = status
                   /\ p.batch = batch[s] /\ p.req = req[s]
      <4>1. status \in Statuses /\ TRUE \in BOOLEAN
        BY DEF Statuses
      <4>2. QED
        BY <3>3, <4>1, AfterFinish, Zenon
    <3>5. ASSUME NEW q \in replies
          PROVE  /\ q.status = "ok" =>
                      \E b \in batches' : b.id = q.batch /\ b.key = q.req.key
                 /\ Refused(q) => \A b \in batches' : b.id # q.at
      BY <3>1, <3>2 DEF RepliesAreTrue, RefusedInv, Refused
    <3>6. \E b \in batches' : b.id = p.batch /\ b.key = p.req.key
      BY <3>1, <3>4
    <3>7. ~Refused(p)
      BY <3>3, <3>4 DEF Refused
    <3>8. QED
      BY <3>4, <3>5, <3>6, <3>7 DEF RepliesAreTrue, Refused
  <2>3. CASE ReturnExisting(s)
    <3>1. Finish(s, "ok", FALSE) /\ batches' = batches
      BY <2>3 DEF ReturnExisting, committed
    <3>2. PICK p : /\ replies' = replies \cup {p} /\ p.status = "ok"
                   /\ p.batch = batch[s] /\ p.req = req[s]
      <4>1. "ok" \in Statuses /\ FALSE \in BOOLEAN
        BY DEF Statuses
      <4>2. QED
        BY <3>1, <4>1, AfterFinish, Zenon
    <3>3. \E b \in batches : b.id = p.batch /\ b.key = p.req.key
      BY <2>3, <3>2 DEF ReturnExisting, BatchInv
    <3>4. QED
      BY <3>1, <3>2, <3>3 DEF RepliesAreTrue
  <2>4. CASE Fails(s)
    <3>1. PICK code \in Statuses \ {"ok"} : Finish(s, code, FALSE)
      BY <2>4 DEF Fails, Raise
    <3>2. InTransaction(s) /\ batches' = batches
      BY <2>4 DEF Fails, Raise, committed
    <3>3. PICK p : /\ replies' = replies \cup {p}
                   /\ p.at = stamp[s] /\ p.status = code
                   /\ p.batch = batch[s] /\ p.req = req[s]
      <4>1. code \in Statuses /\ FALSE \in BOOLEAN
        OBVIOUS
      <4>2. QED
        BY <3>1, <4>1, AfterFinish, Zenon
    <3>4. \A b \in batches : b.id # p.at
      BY <3>2, <3>3 DEF StampInv
    <3>5. QED
      BY <3>1, <3>2, <3>3, <3>4 DEF RepliesAreTrue
  <2>5. QED BY <1>1, <2>1, <2>2, <2>3, <2>4, StepKinds
<1>2. CASE UNCHANGED vars
  BY <1>2 DEF vars, RepliesAreTrue
<1>3. QED
  BY <1>1, <1>2 DEF Next, Step

-----------------------------------------------------------------------------
\* The inductive invariant holds of every reachable state.
THEOREM LedgerInvariant == Spec => []IInv
<1>1. Init => IInv
  <2> SUFFICES ASSUME Init PROVE IInv
    OBVIOUS
  <2>1. TypeOK
    BY LedgerAssumption DEF Init, TypeOK, Labels
  <2>2. NoOverdraft
    BY LedgerAssumption DEF Init, NoOverdraft
  <2>3. QED
    BY <2>1, <2>2 DEF Init, IInv, ArgumentsInv, WalletsInv, LockInv, HasLock,
       CoverInv, HasChecked, KeyInv, HasKey, OneBatchPerKey
<1>2. IInv /\ [Next]_vars => IInv'
  BY TypeStep, ArgumentsStep, WalletsStep, LockStep, CoverStep, KeyStep,
     OverdraftStep, OneBatchStep DEF IInv
<1>3. QED
  BY <1>1, <1>2, PTL DEF Spec

\* The tables and the variables of the functions keep their types: no row of
\* the ledger refers to a wallet that does not exist.
THEOREM TypeCorrect == Spec => []TypeOK
<1>1. IInv => TypeOK
  BY DEF IInv
<1>2. QED
  BY <1>1, LedgerInvariant, PTL

\* Concurrent debits never take a wallet below its overdraft limit, although
\* the balance is read several statements before the rows are inserted.
THEOREM OverdraftSafety == Spec => []NoOverdraft
<1>1. IInv => NoOverdraft
  BY DEF IInv
<1>2. QED
  BY <1>1, LedgerInvariant, PTL

\* However the calls with one idempotency key race, one batch at most has it.
THEOREM KeyUniqueness == Spec => []OneBatchPerKey
<1>1. IInv => OneBatchPerKey
  BY DEF IInv
<1>2. QED
  BY <1>1, LedgerInvariant, PTL

\* What a caller is told is what happened, although the batch it hears of may be
\* another call's, found before the transaction inserted anything, and although
\* a call may be refused at any statement: a batch id names a committed batch
\* under the caller's key, and a refusal means that nothing was written.
THEOREM RepliesTruthful == Spec => []RepliesAreTrue
<1>1. Init => AnswerInv
  BY DEF Init, AnswerInv, StampInv, BatchInv, RefusedInv, RepliesAreTrue, InTransaction
<1>2. IInv /\ AnswerInv /\ [Next]_vars => AnswerInv'
  BY StampStep, BatchStep, RefusedStep, RepliesStep DEF IInv, AnswerInv
<1>3. AnswerInv => RepliesAreTrue
  BY DEF AnswerInv
<1>4. QED
  BY <1>1, <1>2, <1>3, LedgerInvariant, PTL DEF Spec

\* The statement-by-statement ledger implements the atomic one: its commits are
\* atomic postings and every other statement is invisible.
THEOREM Refinement == Spec => ImplementsAtomicLedger
<1> DEFINE keys == {b.key : b \in batches} \ {NoKey}
<1>1. Init => Abstract!AInit
  BY DEF Init, Abstract!AInit
<1>2. IInv /\ [Next]_vars => [Abstract!ANext]_(Abstract!avars)
  <2>1. ASSUME IInv, NEW s \in Sessions, Commit(s)
        PROVE  Abstract!ANext
    <3> DEFINE r == req[s]
    <3>1. /\ r \in Requests /\ r.from \in Wallets /\ r.to \in Wallets
          /\ r.amount \in Amounts /\ r.amount \in Int /\ r.amount > 0
          /\ r.key \in Keys \cup {NoKey}
      BY <2>1, RequestFacts
         DEF IInv, TypeOK, ArgumentsInv, WalletsInv, Commit
    <3>2. r.key \notin keys
      BY <2>1 DEF IInv, KeyInv, HasKey, Posted, Commit
    <3>3. r.from \in EquityWallets \/ balance[r.from] + Overdraft[r.from] >= r.amount
      <4>1. CASE r.kind = "genesis"
        BY <3>1, <4>1, RequestFacts
      <4>2. CASE r.kind # "genesis"
        BY <2>1, <4>2 DEF IInv, CoverInv, Covered, Covers, HasChecked, HasLock, Commit
      <4>3. QED BY <4>1, <4>2
    <3>4. balance' = Abstract!Moved(balance, r.from, r.to, r.amount)
      BY <2>1 DEF Commit, Abstract!Moved
    <3>5. keys' = keys \cup ({r.key} \ {NoKey})
      <4> DEFINE row == [id |-> batch[s], key |-> r.key, from |-> r.from,
                         to |-> r.to, amount |-> r.amount]
      <4>1. batches' = batches \cup {row} /\ row.key = r.key
        BY <2>1 DEF Commit
      <4> HIDE DEF row
      <4>2. QED
        BY <4>1
    <3> HIDE DEF r
    <3>6. QED
      BY <3>1, <3>2, <3>3, <3>4, <3>5 DEF Abstract!ANext, Abstract!Post
  <2>2. ASSUME NEW s \in Sessions, Step(s), ~Commit(s)
        PROVE  UNCHANGED Abstract!avars
    BY <2>2, OnlyCommitWrites DEF committed, Abstract!avars
  <2>3. CASE UNCHANGED vars
    BY <2>3 DEF vars, Abstract!avars
  <2>4. QED
    BY <2>1, <2>2, <2>3 DEF Next, Step
<1>3. QED
  BY <1>1, <1>2, LedgerInvariant, PTL DEF Spec, ImplementsAtomicLedger, Abstract!ASpec
-----------------------------------------------------------------------------
(***************************************************************************)
(* Sums.  The induction over the size of a set is the choice of a smallest *)
(* counterexample.                                                         *)
(***************************************************************************)
\* The element that a fold takes first.
Pick(s) == CHOOSE x \in s : TRUE

\* g sums f over every subset of S, taking its elements in the order of CHOOSE.
IsSum(f, S, g) ==
  g = [s \in SUBSET S |-> IF s = {} THEN 0 ELSE f[Pick(s)] + g[s \ {Pick(s)}]]

\* A set of natural numbers that is not empty has a least element.
LEMMA LeastNat ==
  ASSUME NEW T, T \subseteq Nat, T # {}
  PROVE  \E n \in T : \A m \in T : n <= m
<1>1. PICK n \in T : \A m \in T : ~(<<m, n>> \in OpToRel(<, Nat))
  BY NatLessThanWellFounded, WFMin
<1>2. \A m \in T : ~(m < n)
  BY <1>1 DEF OpToRel
<1>3. \A m \in T : m \in Nat OBVIOUS
<1>4. \A m \in T : n <= m BY <1>2, <1>3
<1>5. QED BY <1>4

\* SumFunctionOnSet is such a sum, if there is one.
LEMMA SumUnfolds ==
  ASSUME NEW f, NEW S, \E g : IsSum(f, S, g)
  PROVE  \E g : IsSum(f, S, g) /\ SumFunctionOnSet(f, S) = g[S]
<1> DEFINE g == CHOOSE g : IsSum(f, S, g)
<1>1. IsSum(f, S, g)
  OBVIOUS
<1>2. SumFunctionOnSet(f, S) = g[S]
  BY DEF SumFunctionOnSet, FoldFunctionOnSet, MapThenFoldSet, IsSum, Pick
<1>3. QED BY <1>1, <1>2

\* The same, for the subsets of at most n elements.
IsStage(f, S, n, h) ==
  /\ h \in [{s \in SUBSET S : Cardinality(s) <= n} -> Int]
  /\ \A s \in SUBSET S : Cardinality(s) <= n =>
       h[s] = IF s = {} THEN 0 ELSE f[Pick(s)] + h[s \ {Pick(s)}]

\* What is left after the first element has one element less.
LEMMA Picked ==
  ASSUME NEW S, IsFiniteSet(S), NEW s \in SUBSET S
  PROVE  /\ IsFiniteSet(s) /\ Cardinality(s) \in Nat
         /\ Cardinality(s) <= Cardinality(S) /\ Cardinality(S) \in Nat
         /\ s = {} <=> Cardinality(s) = 0
         /\ s # {} => /\ Pick(s) \in s
                      /\ Cardinality(s \ {Pick(s)}) = Cardinality(s) - 1
<1>1. IsFiniteSet(s) BY FS_Subset
<1>2. Cardinality(s) \in Nat BY <1>1, FS_CardinalityType
<1>3. s = {} <=> Cardinality(s) = 0 BY <1>1, FS_EmptySet
<1>4. Cardinality(s) <= Cardinality(S) /\ Cardinality(S) \in Nat
  BY FS_Subset, FS_CardinalityType
<1>5. s # {} => Pick(s) \in s BY DEF Pick
<1>6. s # {} => Cardinality(s \ {Pick(s)}) = Cardinality(s) - 1
  BY <1>1, <1>5, FS_RemoveElement
<1>7. QED BY <1>1, <1>2, <1>3, <1>4, <1>5, <1>6

\* Every number of elements can be summed over.
LEMMA StagesExist ==
  ASSUME NEW S, IsFiniteSet(S), NEW f, \A x \in S : f[x] \in Int
  PROVE  \A n \in Nat : \E h : IsStage(f, S, n, h)
<1> DEFINE Failing == {n \in Nat : ~ \E h : IsStage(f, S, n, h)}
<1>1. SUFFICES ASSUME Failing # {} PROVE FALSE
  OBVIOUS
<1>2. PICK n \in Failing : \A m \in Failing : n <= m
  <2>1. Failing \subseteq Nat OBVIOUS
  <2> HIDE DEF Failing
  <2>2. QED BY <1>1, <2>1, LeastNat
<1>3. CASE n = 0
  <2> DEFINE h == [s \in {s \in SUBSET S : Cardinality(s) <= 0} |-> 0]
  <2>1. \A s \in SUBSET S : Cardinality(s) <= 0 => s = {}
    <3> SUFFICES ASSUME NEW s \in SUBSET S, Cardinality(s) <= 0 PROVE s = {}
      OBVIOUS
    <3>1. Cardinality(s) \in Nat BY Picked
    <3>2. Cardinality(s) = 0 BY <3>1
    <3>3. QED BY <3>2, Picked
  <2>2. IsStage(f, S, 0, h)
    BY <2>1 DEF IsStage
  <2>3. QED BY <1>2, <1>3, <2>2
<1>4. CASE n # 0
  <2>1. n - 1 \in Nat /\ n - 1 \notin Failing
    BY <1>2, <1>4
  <2>2. PICK h : IsStage(f, S, n - 1, h)
    BY <2>1
  <2> DEFINE D == {s \in SUBSET S : Cardinality(s) <= n}
             k == [s \in D |-> IF s = {} THEN 0 ELSE f[Pick(s)] + h[s \ {Pick(s)}]]
  <2>3. ASSUME NEW s \in D, s # {}
        PROVE  /\ f[Pick(s)] \in Int /\ h[s \ {Pick(s)}] \in Int
               /\ s \ {Pick(s)} \in D
               /\ k[s \ {Pick(s)}] = h[s \ {Pick(s)}]
    <3> DEFINE r == s \ {Pick(s)}
    <3>1. Pick(s) \in S /\ r \in SUBSET S /\ Cardinality(r) = Cardinality(s) - 1
          /\ Cardinality(s) \in Nat
      BY <2>3, Picked
    <3>2. n \in Nat /\ Cardinality(s) <= n BY <2>3
    <3>3. Cardinality(r) <= n - 1 BY <3>1, <3>2
    <3>4. r \in D BY <3>1, <3>2, <3>3
    <3>5. h[r] \in Int BY <2>2, <3>1, <3>3 DEF IsStage
    <3>6. k[r] = h[r] BY <2>2, <3>1, <3>3, <3>4 DEF IsStage
    <3>7. QED BY <3>1, <3>4, <3>5, <3>6
  <2>4. k \in [D -> Int]
    <3>1. ASSUME NEW s \in D
          PROVE  (IF s = {} THEN 0 ELSE f[Pick(s)] + h[s \ {Pick(s)}]) \in Int
      <4>1. CASE s = {} BY <4>1
      <4>2. CASE s # {}
        <5>1. f[Pick(s)] \in Int /\ h[s \ {Pick(s)}] \in Int BY <2>3, <4>2
        <5>2. QED BY <4>2, <5>1
      <4>3. QED BY <4>1, <4>2
    <3> HIDE DEF D
    <3>2. QED BY <3>1
  <2>5. \A s \in D : k[s] = IF s = {} THEN 0 ELSE f[Pick(s)] + k[s \ {Pick(s)}]
    BY <2>3
  <2>6. IsStage(f, S, n, k)
    BY <2>4, <2>5 DEF IsStage
  <2>7. QED BY <1>2, <2>6
<1>5. QED BY <1>3, <1>4

\* A fold over a finite set exists, and takes what CHOOSE picks first.
LEMMA SumExists ==
  ASSUME NEW S, IsFiniteSet(S), NEW f, \A x \in S : f[x] \in Int
  PROVE  \E g : IsSum(f, S, g)
<1>1. Cardinality(S) \in Nat BY Picked
<1>2. PICK h : IsStage(f, S, Cardinality(S), h) BY <1>1, StagesExist
<1>3. {s \in SUBSET S : Cardinality(s) <= Cardinality(S)} = SUBSET S BY Picked
<1>4. /\ h \in [SUBSET S -> Int]
      /\ \A s \in SUBSET S : h[s] = IF s = {} THEN 0 ELSE f[Pick(s)] + h[s \ {Pick(s)}]
  BY <1>2, <1>3, Picked DEF IsStage
<1>5. IsSum(f, S, h) BY <1>4 DEF IsSum
<1>6. QED BY <1>5

\* What a fold gives depends on the values of f on the set alone.
LEMMA SumsAgree ==
  ASSUME NEW S, IsFiniteSet(S), NEW f, NEW g, NEW A, NEW B, NEW h, NEW k,
         S \subseteq A, S \subseteq B, IsSum(f, A, h), IsSum(g, B, k),
         \A x \in S : f[x] = g[x]
  PROVE  h[S] = k[S]
<1> DEFINE Differing == {Cardinality(s) : s \in {s \in SUBSET S : h[s] # k[s]}}
<1>1. SUFFICES ASSUME Differing # {} PROVE FALSE
  OBVIOUS
<1>2. Differing \subseteq Nat BY Picked
<1>3. PICK n \in Differing : \A m \in Differing : n <= m
  <2> HIDE DEF Differing
  <2>1. QED BY <1>1, <1>2, LeastNat
<1>4. PICK s \in SUBSET S : h[s] # k[s] /\ n = Cardinality(s) OBVIOUS
<1>5. /\ h[s] = IF s = {} THEN 0 ELSE f[Pick(s)] + h[s \ {Pick(s)}]
      /\ k[s] = IF s = {} THEN 0 ELSE g[Pick(s)] + k[s \ {Pick(s)}]
  BY DEF IsSum
<1>6. s # {} BY <1>4, <1>5
<1>7. Pick(s) \in S /\ s \ {Pick(s)} \in SUBSET S
      /\ Cardinality(s \ {Pick(s)}) = Cardinality(s) - 1 /\ Cardinality(s) \in Nat
  BY <1>6, Picked
<1>8. h[s \ {Pick(s)}] # k[s \ {Pick(s)}]
  BY <1>4, <1>5, <1>6, <1>7
<1>9. Cardinality(s) - 1 \in Differing BY <1>7, <1>8
<1> HIDE DEF Differing
<1>10. n <= Cardinality(s) - 1 BY <1>3, <1>9
<1>11. QED BY <1>4, <1>7, <1>10

\* A sum is nothing for the empty set, and otherwise that of one element and
\* the rest.
LEMMA SumPicks ==
  ASSUME NEW S, IsFiniteSet(S), NEW f, \A x \in S : f[x] \in Int
  PROVE  SumFunctionOnSet(f, S) =
           IF S = {} THEN 0 ELSE f[Pick(S)] + SumFunctionOnSet(f, S \ {Pick(S)})
<1> DEFINE R == S \ {Pick(S)}
<1>1. PICK g : IsSum(f, S, g) /\ SumFunctionOnSet(f, S) = g[S]
  BY SumExists, SumUnfolds
<1>2. IsFiniteSet(R) /\ R \subseteq S BY FS_Subset
<1>3. PICK h : IsSum(f, R, h) /\ SumFunctionOnSet(f, R) = h[R]
  BY <1>2, SumExists, SumUnfolds
<1>4. g[R] = h[R]
  BY <1>1, <1>2, <1>3, SumsAgree
<1>5. g[S] = IF S = {} THEN 0 ELSE f[Pick(S)] + g[R]
  BY <1>1 DEF IsSum
<1>6. QED BY <1>1, <1>3, <1>4, <1>5

\* Two functions that agree on a set have one sum over it.
LEMMA SumSame ==
  ASSUME NEW S, IsFiniteSet(S), NEW f, NEW g,
         \A x \in S : f[x] \in Int, \A x \in S : f[x] = g[x]
  PROVE  SumFunctionOnSet(f, S) = SumFunctionOnSet(g, S)
<1>1. PICK h : IsSum(f, S, h) /\ SumFunctionOnSet(f, S) = h[S]
  BY SumExists, SumUnfolds
<1>2. \A x \in S : g[x] \in Int OBVIOUS
<1>3. PICK k : IsSum(g, S, k) /\ SumFunctionOnSet(g, S) = k[S]
  BY <1>2, SumExists, SumUnfolds
<1>4. QED BY <1>1, <1>3, SumsAgree

\* It does not matter which element is taken first.
LEMMA SumTakes ==
  ASSUME NEW S, IsFiniteSet(S), NEW f, \A x \in S : f[x] \in Int
  PROVE  /\ SumFunctionOnSet(f, S) \in Int
         /\ \A x \in S : SumFunctionOnSet(f, S) = f[x] + SumFunctionOnSet(f, S \ {x})
<1> DEFINE Sum(s) == SumFunctionOnSet(f, s)
           Right(s) == Sum(s) \in Int /\ \A x \in s : Sum(s) = f[x] + Sum(s \ {x})
           Wrong == {Cardinality(s) : s \in {s \in SUBSET S : ~Right(s)}}
<1>1. ASSUME NEW s \in SUBSET S
      PROVE  Sum(s) = IF s = {} THEN 0 ELSE f[Pick(s)] + Sum(s \ {Pick(s)})
  <2>1. IsFiniteSet(s) /\ \A x \in s : f[x] \in Int BY Picked
  <2>2. QED BY <2>1, SumPicks
<1> HIDE DEF Sum
<1>2. SUFFICES ASSUME Wrong # {} PROVE FALSE
  BY DEF Sum
<1>3. Wrong \subseteq Nat BY Picked
<1>4. PICK n \in Wrong : \A m \in Wrong : n <= m
  <2> HIDE DEF Wrong
  <2>1. QED BY <1>2, <1>3, LeastNat
<1>5. PICK s \in SUBSET S : ~Right(s) /\ n = Cardinality(s) OBVIOUS
<1>6. ASSUME NEW r \in SUBSET S, Cardinality(r) < Cardinality(s) PROVE Right(r)
  <2>1. Cardinality(r) \in Nat /\ Cardinality(s) \in Nat BY Picked
  <2>2. Right(r) \/ Cardinality(r) \in Wrong OBVIOUS
  <2> HIDE DEF Right, Wrong
  <2>3. QED BY <1>4, <1>5, <1>6, <2>1, <2>2
<1> HIDE DEF Wrong
<1>7. s # {}
  BY <1>1, <1>5
<1> DEFINE y == Pick(s)
<1>8. y \in s /\ IsFiniteSet(s) /\ Cardinality(s) \in Nat
  BY <1>7, Picked
<1>9. ASSUME NEW x \in s PROVE Right(s \ {x}) /\ s \ {x} \in SUBSET S
  <2>1. Cardinality(s \ {x}) = Cardinality(s) - 1 BY <1>8, FS_RemoveElement
  <2> HIDE DEF Right
  <2>2. QED BY <1>6, <1>8, <2>1
<1>10. Sum(s) = f[y] + Sum(s \ {y}) BY <1>1, <1>7
<1>11. \A x \in s : f[x] \in Int /\ Sum(s \ {x}) \in Int
  BY <1>9
<1>12. Sum(s) \in Int BY <1>8, <1>10, <1>11
<1>13. ASSUME NEW x \in s, x # y PROVE Sum(s) = f[x] + Sum(s \ {x})
  <2> DEFINE r == (s \ {y}) \ {x}
  <2>1. r = (s \ {x}) \ {y} OBVIOUS
  <2>2. Sum(s \ {y}) = f[x] + Sum(r) BY <1>8, <1>9, <1>13
  <2>3. Sum(s \ {x}) = f[y] + Sum(r) BY <1>8, <1>9, <1>13, <2>1
  <2>4. x \in s \ {y} BY <1>13
  <2>5. r \in SUBSET S /\ Cardinality(r) < Cardinality(s)
    <3>1. Cardinality(s \ {y}) = Cardinality(s) - 1 /\ IsFiniteSet(s \ {y})
      BY <1>8, FS_RemoveElement
    <3>2. Cardinality(r) = Cardinality(s \ {y}) - 1
      BY <2>4, <3>1, FS_RemoveElement
    <3>3. QED BY <1>8, <3>1, <3>2
  <2>6. Sum(r) \in Int BY <1>6, <2>5
  <2>7. f[x] \in Int /\ f[y] \in Int BY <1>8
  <2> HIDE DEF r, y
  <2>8. QED BY <1>10, <2>2, <2>3, <2>6, <2>7
<1>14. Right(s) BY <1>10, <1>12, <1>13
<1>15. QED BY <1>5, <1>14

\* An element more adds its value.
LEMMA SumAdds ==
  ASSUME NEW S, IsFiniteSet(S), NEW x, x \notin S, NEW f,
         \A y \in S : f[y] \in Int, f[x] \in Int
  PROVE  /\ IsFiniteSet(S \cup {x}) /\ \A y \in S \cup {x} : f[y] \in Int
         /\ SumFunctionOnSet(f, S \cup {x}) = SumFunctionOnSet(f, S) + f[x]
<1> DEFINE T == S \cup {x}
<1>1. IsFiniteSet(T) /\ (\A y \in T : f[y] \in Int) /\ T \ {x} = S
  BY FS_AddElement
<1>2. SumFunctionOnSet(f, T) = f[x] + SumFunctionOnSet(f, T \ {x})
  BY <1>1, SumTakes
<1>3. SumFunctionOnSet(f, S) \in Int /\ f[x] \in Int
  BY SumTakes
<1>4. SumFunctionOnSet(f, T) = f[x] + SumFunctionOnSet(f, S)
  BY <1>1, <1>2, Zenon
<1>5. SumFunctionOnSet(f, T) = SumFunctionOnSet(f, S) + f[x]
  BY <1>3, <1>4
<1>6. QED BY <1>1, <1>5

\* A value that changes changes the sum by as much.
LEMMA SumChanges ==
  ASSUME NEW S, IsFiniteSet(S), NEW x \in S, NEW f, NEW g,
         \A y \in S : f[y] \in Int, \A y \in S \ {x} : g[y] = f[y], g[x] \in Int
  PROVE  /\ \A y \in S : g[y] \in Int
         /\ SumFunctionOnSet(g, S) = SumFunctionOnSet(f, S) - f[x] + g[x]
<1> DEFINE R == S \ {x}
<1>1. \A y \in S : g[y] \in Int OBVIOUS
<1>2. IsFiniteSet(R) BY FS_Subset
<1>3. SumFunctionOnSet(f, S) = f[x] + SumFunctionOnSet(f, R) BY SumTakes
<1>4. SumFunctionOnSet(g, S) = g[x] + SumFunctionOnSet(g, R) BY <1>1, SumTakes
<1>5. \A y \in R : f[y] \in Int /\ f[y] = g[y] OBVIOUS
<1>6. SumFunctionOnSet(f, R) = SumFunctionOnSet(g, R) BY <1>2, <1>5, SumSame
<1>7. SumFunctionOnSet(f, R) \in Int BY <1>2, <1>5, SumTakes
<1>8. QED BY <1>1, <1>3, <1>4, <1>6, <1>7

LEMMA SumEmpty ==
  ASSUME NEW f
  PROVE  SumFunctionOnSet(f, {}) = 0
BY SumPicks, FS_EmptySet

\* Zeros sum to zero.
LEMMA SumZero ==
  ASSUME NEW S, IsFiniteSet(S), NEW f, \A x \in S : f[x] = 0
  PROVE  SumFunctionOnSet(f, S) = 0
<1> DEFINE Wrong == {Cardinality(s) : s \in {s \in SUBSET S : SumFunctionOnSet(f, s) # 0}}
<1>1. SUFFICES ASSUME Wrong # {} PROVE FALSE
  OBVIOUS
<1>2. Wrong \subseteq Nat BY Picked
<1>3. PICK n \in Wrong : \A m \in Wrong : n <= m
  <2> HIDE DEF Wrong
  <2>1. QED BY <1>1, <1>2, LeastNat
<1>4. PICK s \in SUBSET S : SumFunctionOnSet(f, s) # 0 /\ n = Cardinality(s) OBVIOUS
<1>5. IsFiniteSet(s) /\ \A x \in s : f[x] \in Int
  <2>1. IsFiniteSet(s) BY Picked
  <2>2. \A x \in s : f[x] = 0 OBVIOUS
  <2>3. QED BY <2>1, <2>2
<1>6. SumFunctionOnSet(f, s) =
        IF s = {} THEN 0 ELSE f[Pick(s)] + SumFunctionOnSet(f, s \ {Pick(s)})
  BY <1>5, SumPicks
<1>7. s # {} BY <1>4, <1>6
<1>8. Pick(s) \in S /\ s \ {Pick(s)} \in SUBSET S
      /\ Cardinality(s \ {Pick(s)}) = Cardinality(s) - 1 /\ Cardinality(s) \in Nat
  BY <1>7, Picked
<1>9. SumFunctionOnSet(f, s \ {Pick(s)}) # 0
  BY <1>4, <1>6, <1>7, <1>8
<1>10. Cardinality(s) - 1 \in Wrong BY <1>8, <1>9
<1> HIDE DEF Wrong
<1>11. n <= Cardinality(s) - 1 BY <1>3, <1>10
<1>12. QED BY <1>4, <1>8, <1>11

-----------------------------------------------------------------------------
(***************************************************************************)
(* Double entry: what a transaction has written, and what it adds up to.   *)
(***************************************************************************)
\* Row e is the i-th entry of the call.
IsLine(s, i, e) ==
  /\ e.batch = batch[s]
  /\ e.wallet = Entry(req[s], i).wallet /\ e.signed = Entry(req[s], i).signed

\* A transaction has written the entries that its loop has passed.
Written(s) ==
  /\ pc[s] \notin {"post", "commit"} \/ (pc[s] = "post" /\ line[s] = 1) => written[s] = {}
  /\ pc[s] = "post" /\ line[s] = 2 => \E e : written[s] = {e} /\ IsLine(s, 1, e)
  /\ pc[s] = "commit" => \E e, f : /\ written[s] = {e, f}
                                   /\ IsLine(s, 1, e) /\ IsLine(s, 2, f)

WrittenInv == \A s \in Sessions : Written(s)

\* A row belongs to a committed batch, and no two batches have one id.
RowsInv ==
  /\ IsFiniteSet(ledger)
  /\ \A e \in ledger : \E b \in batches : b.id = e.batch
  /\ \A b, c \in batches : b.id = c.id => b = c

EntriesInv == WrittenInv /\ RowsInv /\ DoubleEntry

\* A step of a call leaves alone what the others have written.
LEMMA WrittenFrame ==
  ASSUME TypeOK, NEW s \in Sessions, NEW t \in Sessions, s # t, Step(s)
  PROVE  written'[t] = written[t]
BY DEF TypeOK, Step, Statement, ReadExisting, BeginTransaction, BadArguments,
       CheckIdempotency, EntryRejected, ScanCredit, LockDebit, CheckBalance,
       GenesisRejected, GenesisLookup, CountTreasuryRows, InsertBatch, PostLine,
       Commit, ReturnExisting, Rollback, Raise, Finish

LEMMA OwnWritten ==
  ASSUME TypeOK, WalletsInv, NEW s \in Sessions, Written(s), Step(s)
  PROVE  Written(s)'
<1> USE DEF TypeOK, Goto, local, committed
<1>1. ASSUME NEW status, NEW posted, Finish(s, status, posted) PROVE Written(s)'
  BY <1>1 DEF Finish, Written
<1>2. CASE Fails(s) \/ Commit(s) \/ ReturnExisting(s)
  BY <1>1, <1>2 DEF Fails, Raise, Commit, ReturnExisting
<1>3. CASE InsertBatch(s) /\ ~Fails(s)
  <2>1. ~Raise(s, "IDEMPOTENCY_CONFLICT")
    BY <1>3 DEF InsertBatch, Fails, InTransaction, Statuses
  <2>2. pc[s] = "insert" /\ line[s] = 1 /\ pc'[s] = "post" /\ UNCHANGED <<line, written>>
    BY <1>3, <2>1 DEF InsertBatch, WalletsInv
  <2>3. QED BY <2>2 DEF Written
<1>4. CASE PostLine(s)
  <2>1. PICK e : written'[s] = written[s] \cup {e} /\ IsLine(s, line[s], e)
    <3> DEFINE d == [batch |-> batch[s], wallet |-> Entry(req[s], line[s]).wallet,
                     signed |-> Entry(req[s], line[s]).signed,
                     running |-> RunningBalance(s, Entry(req[s], line[s])), at |-> stamp[s]]
    <3>1. written'[s] = written[s] \cup {d}
      BY <1>4 DEF PostLine
    <3>2. IsLine(s, line[s], d)
      BY DEF IsLine
    <3> HIDE DEF d
    <3>3. QED BY <3>1, <3>2
  <2>2. pc[s] = "post" /\ UNCHANGED <<batch, req>>
    BY <1>4 DEF PostLine
  <2>3. CASE line[s] = 1
    <3>1. pc'[s] = "post" /\ line'[s] = 2 /\ written[s] = {}
      BY <1>4, <2>2, <2>3 DEF PostLine, Written
    <3>2. written'[s] = {e} /\ IsLine(s, 1, e)'
      BY <2>1, <2>2, <2>3, <3>1 DEF IsLine
    <3>3. QED BY <3>1, <3>2 DEF Written
  <2>4. CASE line[s] = 2
    <3>1. pc'[s] = "commit"
      BY <1>4, <2>4 DEF PostLine
    <3>2. PICK d : written[s] = {d} /\ IsLine(s, 1, d)
      BY <2>2, <2>4 DEF Written
    <3>3. written'[s] = {d, e} /\ IsLine(s, 1, d)' /\ IsLine(s, 2, e)'
      BY <2>1, <2>2, <2>4, <3>2 DEF IsLine
    <3>4. QED BY <3>1, <3>3 DEF Written
  <2>5. QED BY <2>3, <2>4
<1>5. CASE ~Fails(s) /\ ~Commit(s) /\ ~ReturnExisting(s) /\ ~InsertBatch(s) /\ ~PostLine(s)
  <2>1. /\ pc[s] \notin {"post", "commit"} /\ pc'[s] \notin {"post", "commit"}
        /\ UNCHANGED written
    <3>1. CASE ReadExisting(s)
      BY <3>1 DEF ReadExisting
    <3>2. CASE BeginTransaction(s)
      BY <3>2 DEF BeginTransaction
    <3>3. CASE CheckIdempotency(s)
      BY <3>3 DEF CheckIdempotency
    <3>4. CASE ScanCredit(s)
      BY <3>4 DEF ScanCredit, NextEntry
    <3>5. CASE LockDebit(s)
      <4>1. ~Raise(s, "WALLET_LOCKED")
        BY <1>5, <3>5 DEF LockDebit, Fails, InTransaction, Statuses
      <4>2. QED BY <3>5, <4>1 DEF LockDebit
    <3>6. CASE CheckBalance(s)
      <4>1. ~Raise(s, "INSUFFICIENT_BALANCE")
        BY <1>5, <3>6 DEF CheckBalance, Fails, InTransaction, Statuses
      <4>2. QED BY <3>6, <4>1 DEF CheckBalance, NextEntry
    <3>7. CASE GenesisLookup(s)
      BY <3>7 DEF GenesisLookup
    <3>8. CASE CountTreasuryRows(s)
      <4>1. ~Raise(s, BootstrapRefused)
        BY <1>5, <3>8 DEF CountTreasuryRows, Fails, InTransaction, Statuses, BootstrapRefused
      <4>2. QED BY <3>8, <4>1 DEF CountTreasuryRows
    <3>9. ~BadArguments(s) /\ ~EntryRejected(s) /\ ~GenesisRejected(s) /\ ~Rollback(s)
      <4>1. ~Rollback(s)
        BY <1>5 DEF Rollback, Fails, Statuses
      <4>2. ~BadArguments(s)
        BY <1>5, ErrorsAreStatuses DEF BadArguments, Fails, ArgumentError, BootstrapRefused, InTransaction
      <4>3. ~EntryRejected(s)
        <5>1. EntryRejected(s) =>
                WalletError(Entry(req[s], line[s]).wallet, req[s].currency)
                  \in Statuses \ {"ok"}
          BY ErrorsAreStatuses DEF EntryRejected, WalletError
        <5>2. QED BY <1>5, <5>1 DEF EntryRejected, Fails, InTransaction
      <4>4. ~GenesisRejected(s)
        <5>1. GenesisRejected(s) => GenesisError(req[s]) \in Statuses \ {"ok"}
          BY ErrorsAreStatuses DEF GenesisRejected, GenesisError, BootstrapRefused, WalletError
        <5>2. QED BY <1>5, <5>1 DEF GenesisRejected, Fails, InTransaction
      <4>5. QED BY <4>1, <4>2, <4>3, <4>4
    <3>10. QED
      BY <1>5, <3>1, <3>2, <3>3, <3>4, <3>5, <3>6, <3>7, <3>8, <3>9 DEF Step, Statement
  <2>2. QED BY <2>1 DEF Written
<1>6. QED BY <1>2, <1>3, <1>4, <1>5

LEMMA WrittenStep ==
  ASSUME TypeOK, WalletsInv, WrittenInv, [Next]_vars
  PROVE  WrittenInv'
<1>1. ASSUME NEW s \in Sessions, Step(s), NEW t \in Sessions PROVE Written(t)'
  <2>1. CASE s = t
    BY <1>1, <2>1, OwnWritten DEF WrittenInv
  <2>2. CASE s # t
    <3>1. /\ pc'[t] = pc[t] /\ req'[t] = req[t] /\ line'[t] = line[t]
          /\ batch'[t] = batch[t] /\ written'[t] = written[t]
      BY <1>1, <2>2, Frame, BatchFrame, WrittenFrame
    <3>2. Written(t)
      BY DEF WrittenInv
    <3>3. QED BY <3>1, <3>2 DEF Written, IsLine
  <2>3. QED BY <2>1, <2>2
<1>2. CASE UNCHANGED vars
  BY <1>2 DEF vars, WrittenInv, Written, IsLine
<1>3. QED
  BY <1>1, <1>2 DEF Next, Step, WrittenInv

\* What a commit publishes: a batch with a new id and its two rows, one for each
\* side of the amount.
LEMMA CommitLines ==
  ASSUME IInv, StampInv, BatchInv, WrittenInv, RowsInv, NEW s \in Sessions, Commit(s)
  PROVE  \E d, c :
           /\ ledger' = ledger \cup {d, c} /\ d # c /\ d \notin ledger /\ c \notin ledger
           /\ d.batch = batch[s] /\ c.batch = batch[s]
           /\ d.wallet = req[s].from /\ d.signed = -req[s].amount
           /\ c.wallet = req[s].to /\ c.signed = req[s].amount
<1>1. req[s] \in Requests /\ req[s].amount \in Int /\ req[s].amount > 0 /\ pc[s] = "commit"
  BY RequestFacts DEF IInv, TypeOK, ArgumentsInv, Commit
<1>2. ledger' = ledger \cup written[s] BY DEF Commit
<1>3. PICK e : \E f : written[s] = {e, f} /\ IsLine(s, 1, e) /\ IsLine(s, 2, f)
  BY <1>1 DEF WrittenInv, Written
<1>4. PICK f : written[s] = {e, f} /\ IsLine(s, 1, e) /\ IsLine(s, 2, f)
  BY <1>3
<1>5. e.batch = batch[s] /\ f.batch = batch[s]
  BY <1>4 DEF IsLine
<1>6. \A b \in batches : b.id # batch[s]
  BY <1>1 DEF StampInv, BatchInv, InTransaction
<1>7. e \notin ledger /\ f \notin ledger
  BY <1>5, <1>6 DEF RowsInv
<1>8. CASE req[s].kind \in {"credit", "genesis"}
  <2>1. /\ e.wallet = req[s].to /\ e.signed = req[s].amount
        /\ f.wallet = req[s].from /\ f.signed = -req[s].amount
    BY <1>4, <1>8 DEF IsLine, Entry, Debit, Credit
  <2>2. e # f BY <1>1, <2>1
  <2>3. ledger' = ledger \cup {f, e} BY <1>2, <1>4
  <2>4. QED BY <1>5, <1>7, <2>1, <2>2, <2>3
<1>9. CASE req[s].kind \notin {"credit", "genesis"}
  <2>1. /\ f.wallet = req[s].to /\ f.signed = req[s].amount
        /\ e.wallet = req[s].from /\ e.signed = -req[s].amount
    BY <1>4, <1>9 DEF IsLine, Entry, Debit, Credit
  <2>2. e # f BY <1>1, <2>1
  <2>3. ledger' = ledger \cup {e, f} BY <1>2, <1>4
  <2>4. QED BY <1>5, <1>7, <2>1, <2>2, <2>3
<1>10. QED BY <1>8, <1>9

LEMMA RowsStep ==
  ASSUME IInv, StampInv, BatchInv, WrittenInv, RowsInv, [Next]_vars
  PROVE  RowsInv'
<1>1. CASE UNCHANGED <<ledger, batches>>
  BY <1>1 DEF RowsInv
<1>2. ASSUME NEW s \in Sessions, Commit(s) PROVE RowsInv'
  <2>1. PICK d : \E c :
           /\ ledger' = ledger \cup {d, c} /\ d.batch = batch[s] /\ c.batch = batch[s]
    BY <1>2, CommitLines
  <2>2. PICK c :
           /\ ledger' = ledger \cup {d, c} /\ d.batch = batch[s] /\ c.batch = batch[s]
    BY <2>1
  <2>3. PICK row : batches' = batches \cup {row} /\ row.id = batch[s]
    BY <1>2, CommitRow
  <2>4. \A b \in batches : b.id # batch[s]
    BY <1>2 DEF StampInv, BatchInv, InTransaction, Commit
  <2>5. IsFiniteSet(ledger')
    <3>1. IsFiniteSet({d, c})
      <4>1. IsFiniteSet({d} \cup {c}) BY FS_Singleton, FS_Union
      <4>2. {d, c} = {d} \cup {c} OBVIOUS
      <4>3. QED BY <4>1, <4>2, Zenon
    <3>2. IsFiniteSet(ledger \cup {d, c}) BY <3>1, FS_Union DEF RowsInv
    <3>3. QED BY <2>2, <3>2, Zenon
  <2>6. \A e \in ledger' : \E b \in batches' : b.id = e.batch
    BY <2>2, <2>3 DEF RowsInv
  <2>7. \A b, k \in batches' : b.id = k.id => b = k
    BY <2>3, <2>4 DEF RowsInv
  <2>8. QED BY <2>5, <2>6, <2>7 DEF RowsInv
<1>3. CASE UNCHANGED vars
  BY <1>1, <1>3 DEF vars
<1>4. ASSUME NEW s \in Sessions, Step(s), ~Commit(s) PROVE UNCHANGED <<ledger, batches>>
  BY <1>4, OnlyCommitWrites DEF committed
<1>5. QED BY <1>1, <1>2, <1>3, <1>4 DEF Next, Step

\* A batch that is posted sums to zero, the wallets it is about change by what
\* is written for them, and the total does not change.
LEMMA EntriesStep ==
  ASSUME IInv, StampInv, BatchInv, EntriesInv, [Next]_vars
  PROVE  DoubleEntry'
<1>1. CASE UNCHANGED committed
  BY <1>1 DEF committed, EntriesInv, DoubleEntry, Lines, Signed
<1>2. ASSUME NEW s \in Sessions, Commit(s) PROVE DoubleEntry'
  <2> DEFINE a == req[s].amount
             from == req[s].from
             to == req[s].to
             g == Signed'
  <2>1. PICK d : \E c :
           /\ ledger' = ledger \cup {d, c} /\ d # c /\ d \notin ledger /\ c \notin ledger
           /\ d.batch = batch[s] /\ c.batch = batch[s]
           /\ d.wallet = from /\ d.signed = -a /\ c.wallet = to /\ c.signed = a
    BY <1>2, CommitLines DEF EntriesInv
  <2>2. PICK c :
           /\ ledger' = ledger \cup {d, c} /\ d # c /\ d \notin ledger /\ c \notin ledger
           /\ d.batch = batch[s] /\ c.batch = batch[s]
           /\ d.wallet = from /\ d.signed = -a /\ c.wallet = to /\ c.signed = a
    BY <2>1
  <2>3. a \in Int /\ from \in Wallets /\ to \in Wallets
    BY <1>2, RequestFacts DEF IInv, TypeOK, WalletsInv, Commit
  <2>4. /\ \A e \in ledger : Signed[e] = e.signed /\ e.signed \in Int /\ g[e] = Signed[e]
        /\ g[d] = -a /\ g[c] = a
    <3>1. \A e \in ledger : e.signed \in Int
      BY DEF IInv, TypeOK, LedgerRow
    <3>2. g = [e \in ledger' |-> e.signed]
      BY DEF Signed
    <3>3. \A e \in ledger' : g[e] = e.signed
      BY <3>2
    <3>4. \A e \in ledger : Signed[e] = e.signed
      BY DEF Signed
    <3> HIDE DEF g
    <3>5. QED BY <2>2, <3>1, <3>3, <3>4
  <2>5. IsFiniteSet(ledger) BY DEF EntriesInv, RowsInv
  <2> HIDE DEF g, a, from, to
  <2>6. ASSUME NEW b \in batches'
        PROVE  Cardinality(Lines(b)') = 2 /\ SumFunctionOnSet(g, Lines(b)') = 0
    <3>1. PICK row : batches' = batches \cup {row} /\ row.id = batch[s]
      BY <1>2, CommitRow
    <3>2. \A k \in batches : k.id # batch[s]
      BY <1>2 DEF StampInv, BatchInv, InTransaction, Commit
    <3>3. Lines(b)' = {e \in ledger' : e.batch = b.id}
      BY DEF Lines
    <3>4. CASE b \in batches
      <4>1. Lines(b)' = Lines(b)
        BY <2>2, <3>2, <3>3, <3>4 DEF Lines
      <4>2. Cardinality(Lines(b)) = 2 /\ SumFunctionOnSet(Signed, Lines(b)) = 0
        BY <3>4 DEF EntriesInv, DoubleEntry
      <4>3. IsFiniteSet(Lines(b)) /\ Lines(b) \subseteq ledger
        BY <2>5, FS_Subset DEF Lines
      <4>4. \A e \in Lines(b) : Signed[e] \in Int /\ Signed[e] = g[e]
        BY <2>4, <4>3
      <4>5. SumFunctionOnSet(Signed, Lines(b)) = SumFunctionOnSet(g, Lines(b))
        BY <4>3, <4>4, SumSame
      <4>6. QED BY <4>1, <4>2, <4>5, Zenon
    <3>5. CASE b = row
      <4>1. Lines(b)' = {d} \cup {c}
        BY <2>2, <3>1, <3>2, <3>3, <3>5 DEF EntriesInv, RowsInv
      <4>2. /\ IsFiniteSet({}) /\ IsFiniteSet({d}) /\ Cardinality({d}) = 1
            /\ c \notin {d}
        BY <2>2, FS_EmptySet, FS_Singleton
      <4>3. Cardinality({d} \cup {c}) = 1 + 1
        BY <4>2, FS_AddElement
      <4>4. SumFunctionOnSet(g, {} \cup {d}) = 0 + g[d]
        <5>1. SumFunctionOnSet(g, {} \cup {d}) = SumFunctionOnSet(g, {}) + g[d]
          BY <2>3, <2>4, <4>2, SumAdds
        <5>2. QED BY <5>1, SumEmpty
      <4>5. SumFunctionOnSet(g, {d}) = -a
        <5>1. {} \cup {d} = {d} OBVIOUS
        <5>2. SumFunctionOnSet(g, {d}) = 0 + g[d] BY <4>4, <5>1, Zenon
        <5>3. QED BY <2>3, <2>4, <5>2
      <4>6. SumFunctionOnSet(g, {d} \cup {c}) = SumFunctionOnSet(g, {d}) + g[c]
        <5>1. (\A y \in {d} : g[y] \in Int) /\ g[c] \in Int BY <2>3, <2>4
        <5>2. QED BY <4>2, <5>1, SumAdds, Zenon
      <4>7. SumFunctionOnSet(g, {d} \cup {c}) = 0
        BY <2>3, <2>4, <4>5, <4>6
      <4>8. Cardinality({d} \cup {c}) = 2 BY <4>3
      <4>9. QED BY <4>1, <4>7, <4>8, Zenon
    <3>6. QED BY <3>1, <3>4, <3>5
  <2>7. ASSUME NEW w \in Wallets
        PROVE  balance'[w] = SumFunctionOnSet(g, {e \in ledger' : e.wallet = w})
    <3> DEFINE L == {e \in ledger : e.wallet = w}
               M == IF from = w THEN L \cup {d} ELSE L
               N == IF to = w THEN M \cup {c} ELSE M
    <3>1. {e \in ledger' : e.wallet = w} = N BY <2>2
    <3>2. IsFiniteSet(L) BY <2>5, FS_Subset
    <3>3. \A e \in L : Signed[e] \in Int /\ g[e] = Signed[e] /\ g[e] \in Int BY <2>4
    <3>4. SumFunctionOnSet(Signed, L) = SumFunctionOnSet(g, L)
      BY <3>2, <3>3, SumSame
    <3>5. balance[w] = SumFunctionOnSet(Signed, L)
      BY DEF EntriesInv, DoubleEntry
    <3>6. d \notin L /\ c \notin L /\ c \notin L \cup {d} BY <2>2
    <3>7. g[d] \in Int /\ g[c] \in Int BY <2>3, <2>4
    <3>8. balance[w] \in Int
      BY DEF IInv, TypeOK
    <3> HIDE DEF L
    <3>9. /\ IsFiniteSet(M) /\ \A e \in M : g[e] \in Int
          /\ SumFunctionOnSet(g, M) = balance[w] - (IF from = w THEN a ELSE 0)
      <4>1. CASE from = w
        <5>1. /\ IsFiniteSet(L \cup {d}) /\ \A e \in L \cup {d} : g[e] \in Int
              /\ SumFunctionOnSet(g, L \cup {d}) = SumFunctionOnSet(g, L) + g[d]
          BY <3>2, <3>3, <3>6, <3>7, SumAdds
        <5>2. M = L \cup {d} BY <4>1
        <5> HIDE DEF M
        <5>3. SumFunctionOnSet(g, M) = SumFunctionOnSet(g, L) + g[d]
              /\ IsFiniteSet(M) /\ \A e \in M : g[e] \in Int
          BY <5>1, <5>2, Zenon
        <5>4. QED BY <2>3, <2>4, <3>4, <3>5, <3>8, <4>1, <5>3
      <4>2. CASE from # w
        <5>1. M = L BY <4>2
        <5> HIDE DEF M
        <5>2. QED BY <3>2, <3>3, <3>4, <3>5, <3>8, <4>2, <5>1
      <4>3. QED BY <4>1, <4>2
    <3>10. c \notin M BY <3>6
    <3> HIDE DEF M
    <3>11. SumFunctionOnSet(g, N) = balance[w] - (IF from = w THEN a ELSE 0)
                                      + (IF to = w THEN a ELSE 0)
      <4>1. CASE to = w
        <5>1. SumFunctionOnSet(g, M \cup {c}) = SumFunctionOnSet(g, M) + g[c]
          BY <3>7, <3>9, <3>10, SumAdds
        <5>2. N = M \cup {c} BY <4>1
        <5> HIDE DEF N
        <5>3. SumFunctionOnSet(g, N) = SumFunctionOnSet(g, M) + g[c]
          BY <5>1, <5>2, Zenon
        <5>4. QED BY <2>4, <3>9, <4>1, <5>3
      <4>2. CASE to # w
        <5>1. N = M BY <4>2
        <5> HIDE DEF N
        <5>2. QED BY <2>3, <3>8, <3>9, <4>2, <5>1
      <4>3. QED BY <4>1, <4>2
    <3> HIDE DEF N
    <3>12. balance'[w] = balance[w] + (IF w = to THEN a ELSE 0) - (IF w = from THEN a ELSE 0)
      BY <1>2 DEF Commit, a, from, to
    <3>13. balance'[w] = SumFunctionOnSet(g, N)
      BY <2>3, <3>8, <3>11, <3>12
    <3>14. QED BY <3>1, <3>13, Zenon
  <2>8. SumFunctionOnSet(balance', Wallets) = 0
    <3> DEFINE m == [balance EXCEPT ![from] = balance[from] - a]
    <3>1. IsFiniteSet(Wallets) BY LedgerAssumption
    <3>2. balance \in [Wallets -> Int] BY DEF IInv, TypeOK
    <3>3. balance' = [w \in Wallets |-> balance[w] + (IF w = to THEN a ELSE 0)
                                          - (IF w = from THEN a ELSE 0)]
      BY <1>2 DEF Commit, a, from, to
    <3>4. m \in [Wallets -> Int] /\ m[from] = balance[from] - a
          /\ \A w \in Wallets \ {from} : m[w] = balance[w]
      BY <2>3, <3>2
    <3>5. /\ \A w \in Wallets \ {to} : balance'[w] = m[w]
          /\ balance'[to] = m[to] + a
      BY <2>3, <3>2, <3>3, <3>4
    <3> HIDE DEF m
    <3>6. (\A w \in Wallets : balance[w] \in Int) /\ \A w \in Wallets : m[w] \in Int
      BY <3>2, <3>4
    <3>7. m[from] \in Int /\ balance'[to] \in Int
      BY <2>3, <3>4, <3>5
    <3>8. SumFunctionOnSet(m, Wallets) = SumFunctionOnSet(balance, Wallets) - balance[from] + m[from]
      BY <2>3, <3>1, <3>4, <3>6, <3>7, SumChanges
    <3>9. SumFunctionOnSet(balance', Wallets) = SumFunctionOnSet(m, Wallets) - m[to] + balance'[to]
      BY <2>3, <3>1, <3>5, <3>6, <3>7, SumChanges
    <3>10. SumFunctionOnSet(balance, Wallets) = 0
      BY DEF EntriesInv, DoubleEntry
    <3>11. balance[from] \in Int /\ m[to] \in Int
      BY <2>3, <3>6
    <3>12. QED BY <2>3, <3>4, <3>5, <3>8, <3>9, <3>10, <3>11
  <2>9. QED BY <2>6, <2>7, <2>8 DEF DoubleEntry, g
<1>3. CASE UNCHANGED vars
  BY <1>1, <1>3 DEF vars, committed
<1>4. ASSUME NEW s \in Sessions, Step(s), ~Commit(s) PROVE UNCHANGED committed
  BY <1>4, OnlyCommitWrites
<1>5. QED BY <1>1, <1>2, <1>3, <1>4 DEF Next, Step

\* Each batch has two rows that cancel out, every balance is the sum of its wallet's
\* rows and all balances sum to zero: the statements of concurrent calls may
\* interleave and break off as they like, since a transaction publishes both of
\* its rows or none.
THEOREM BooksBalance == Spec => []DoubleEntry
<1>1. Init => AnswerInv /\ EntriesInv
  <2> SUFFICES ASSUME Init PROVE AnswerInv /\ EntriesInv
    OBVIOUS
  <2>1. AnswerInv
    BY DEF Init, AnswerInv, StampInv, BatchInv, RefusedInv, RepliesAreTrue, InTransaction
  <2>2. WrittenInv /\ RowsInv
    BY FS_EmptySet DEF Init, WrittenInv, Written, RowsInv
  <2>3. ASSUME NEW w \in Wallets
        PROVE  balance[w] = SumFunctionOnSet(Signed, {e \in ledger : e.wallet = w})
    <3>1. {e \in ledger : e.wallet = w} = {} BY DEF Init
    <3>2. SumFunctionOnSet(Signed, {}) = 0 BY SumEmpty
    <3>3. SumFunctionOnSet(Signed, {e \in ledger : e.wallet = w}) = 0
      BY <3>1, <3>2, Zenon
    <3>4. balance[w] = 0 BY DEF Init
    <3>5. QED BY <3>3, <3>4, Zenon
  <2>4. SumFunctionOnSet(balance, Wallets) = 0
    BY SumZero, LedgerAssumption DEF Init
  <2>5. batches = {} BY DEF Init
  <2>6. QED BY <2>1, <2>2, <2>3, <2>4, <2>5 DEF EntriesInv, DoubleEntry
<1>2. IInv /\ AnswerInv /\ EntriesInv /\ [Next]_vars => AnswerInv' /\ EntriesInv'
  BY StampStep, BatchStep, RefusedStep, RepliesStep, WrittenStep, RowsStep, EntriesStep
  DEF IInv, AnswerInv, EntriesInv
<1>3. EntriesInv => DoubleEntry
  BY DEF EntriesInv
<1>4. QED
  BY <1>1, <1>2, <1>3, LedgerInvariant, PTL DEF Spec
=============================================================================
