---------------------------- MODULE WalletLedger ----------------------------
(***************************************************************************)
(* The double-entry wallet ledger: WalletService and the PL/pgSQL          *)
(* functions credit_wallet, debit_wallet, transfer_wallet,                 *)
(* post_wallet_journal and bootstrap_treasury_wallet.                      *)
(*                                                                         *)
(* Every call runs in one READ COMMITTED transaction.  A VOLATILE PL/pgSQL *)
(* function takes a new snapshot for each SQL statement, so the unit of    *)
(* interleaving is the statement: one action here per statement that reads *)
(* shared state.  What a transaction has written but not committed is its  *)
(* session's own; the unique index on idempotency_key and the advisory     *)
(* locks are the two things other sessions see earlier.                    *)
(***************************************************************************)
EXTENDS Integers, FiniteSets, Functions

CONSTANTS
  WalletIds,    \* ids a caller may pass, existing or not
  Wallets,      \* rows of table wallets
  Active,       \* wallets with status 'active'
  Treasuries,   \* wallets with wallet_type 'treasury'
  Currencies,   \* currency codes
  CurrencyOf,   \* currency of each wallet
  Overdraft,    \* overdraft_limit of each wallet
  LockKeys,     \* values of hashtext()
  HashText,     \* advisory lock key of each wallet; wallets may collide
  Keys, NoKey,  \* idempotency keys, and NULL
  Requests,     \* the calls the services make
  Sessions,     \* concurrent callers, each with its connection
  NoSession,
  MaxCalls      \* bound: calls made in a behaviour

Kinds == {"credit", "debit", "transfer", "genesis"}

(***************************************************************************)
(* `from` is the debited wallet and `to` the credited one, whatever the    *)
(* call: the contra wallet of credit_wallet is `from`, that of             *)
(* debit_wallet is `to`.  bootstrap_treasury_wallet builds its key from    *)
(* the treasury id, a prefix no other caller uses.                         *)
(***************************************************************************)
ASSUME LedgerAssumption ==
  /\ Wallets \subseteq WalletIds /\ IsFiniteSet(Wallets)
  /\ Active \subseteq Wallets
  /\ Treasuries \subseteq Wallets
  /\ CurrencyOf \in [Wallets -> Currencies]
  /\ Overdraft \in [Wallets -> Nat]
  /\ HashText \in [Wallets -> LockKeys]
  /\ NoKey \notin Keys
  /\ NoSession \notin Sessions
  /\ MaxCalls \in Nat
  /\ Requests # {}
  /\ Requests \subseteq [kind : Kinds, from : WalletIds, to : WalletIds,
                         amount : Int, currency : Currencies,
                         key : Keys \cup {NoKey}]
  /\ \A r, q \in Requests : r.kind = "genesis" =>
       /\ r.key \in Keys
       /\ q.key = r.key <=> q.kind = "genesis" /\ q.to = r.to

VARIABLES
  \* committed
  balance,   \* SUM(signed_amount) of each wallet over the committed ledger
  batches,   \* rows of wallet_journal_batches
  ledger,    \* rows of wallet_ledger
  \* shared before commit
  lock,      \* holder of each advisory lock
  \* per session
  pc,        \* next statement
  req,       \* the call being made
  existed,   \* existedBefore, read by the service before its transaction
  line,      \* the entry the loop is at
  stamp,     \* NOW() of the transaction; also the id of the batch it inserts
  batch,     \* v_batch_id
  written,   \* uncommitted ledger rows
  \* bookkeeping
  clock,     \* transactions begun
  calls,     \* calls made
  replies    \* what the calls returned or threw

committed == <<balance, batches, ledger>>
local     == <<req, existed, stamp>>
vars      == <<balance, batches, ledger, lock, pc, req, existed, line, stamp,
               batch, written, clock, calls, replies>>

Labels == {"idle", "begin", "idem", "scan", "check", "genesis", "count",
           "insert", "post", "commit", "return"}

\* Statements that run inside the transaction.
InTransaction(s) == pc[s] \notin {"idle", "begin"}

(***************************************************************************)
(* The two entries of a call, in the order the function lists them.        *)
(***************************************************************************)
\* Faulty variants named Bug... are the mutations the checks are tried against.
BugUnsignedDebit(r) == [wallet |-> r.from, signed |-> r.amount]

Debit(r)  == [wallet |-> r.from, signed |-> -r.amount]
Credit(r) == [wallet |-> r.to,   signed |->  r.amount]

Entry(r, i) ==
  IF (i = 1) = (r.kind \in {"credit", "genesis"}) THEN Credit(r) ELSE Debit(r)

\* Looks a batch up without its key.
BugAnyBatch(k) == {b \in batches : k # NoKey}

\* Committed rows carrying a key: what the idempotency SELECT finds.
Posted(k) == {b \in batches : b.key = k /\ k # NoKey}

\* Off by one in the balance test.
BugCoversOneMore(w, amount) == balance[w] + Overdraft[w] >= amount - 1

\* The balance test of a debit entry.
Covers(w, amount) == balance[w] + Overdraft[w] >= amount

\* The first validation error of a wallet row, if it has one.
WalletError(w, currency) ==
  CASE w \notin Wallets             -> "WALLET_NOT_FOUND"
    [] w \in Wallets \ Active       -> "WALLET_INACTIVE"
    [] w \in Active /\ CurrencyOf[w] # currency -> "CURRENCY_MISMATCH"
    [] OTHER                        -> "none"

\* What the caller sees of TREASURY_BOOTSTRAP_INVALID and of
\* TREASURY_ALREADY_BOOTSTRAPPED, for which fromPostgresError has no case.
BootstrapRefused == "INTERNAL_ERROR"

\* An error found before any row is read.
ArgumentError(r) ==
  CASE r.amount <= 0 /\ r.kind # "genesis"        -> "INVALID_AMOUNT"
    [] r.amount <= 0 /\ r.kind = "genesis"        -> BootstrapRefused
    [] r.amount > 0 /\ r.kind = "transfer" /\ r.from = r.to -> "TRANSFER_INVALID"
    [] OTHER                                      -> "none"

\* No unique index: an uncommitted key is not seen.
BugNoIndex(s, k) == FALSE

\* Another session's open transaction has inserted this key: the unique index
\* makes a second INSERT of it wait.
Reserved(s, k) ==
  \E t \in Sessions \ {s} :
    k # NoKey /\ pc[t] \in {"post", "commit"} /\ req[t].key = k

\* bootstrap_treasury_wallet validates the treasury, with its type, and then
\* the equity wallet, whose type it reads and does not test.
GenesisError(r) ==
  CASE r.to \in Wallets \ Treasuries                    -> BootstrapRefused
    [] WalletError(r.to, r.currency) # "none"
       /\ r.to \notin Wallets \ Treasuries              -> WalletError(r.to, r.currency)
    [] WalletError(r.to, r.currency) = "none"
       /\ r.to \in Treasuries                           -> WalletError(r.from, r.currency)

-----------------------------------------------------------------------------
Init ==
  /\ balance = [w \in Wallets |-> 0]
  /\ batches = {} /\ ledger = {} /\ replies = {}
  /\ lock = [k \in LockKeys |-> NoSession]
  /\ pc = [s \in Sessions |-> "idle"]
  /\ req \in [Sessions -> {CHOOSE r \in Requests : TRUE}]
  /\ existed = [s \in Sessions |-> FALSE]
  /\ line = [s \in Sessions |-> 1]
  /\ stamp = [s \in Sessions |-> 0]
  /\ batch = [s \in Sessions |-> 0]
  /\ written = [s \in Sessions |-> {}]
  /\ clock = 0 /\ calls = 0

Goto(s, label) == pc' = [pc EXCEPT ![s] = label]

\* The end of a transaction: its advisory locks go, and the caller has an
\* answer.  `posted` records whether this call is the one that wrote the batch.
Finish(s, status, posted) ==
  /\ Goto(s, "idle")
  /\ lock' = [k \in LockKeys |-> IF lock[k] = s THEN NoSession ELSE lock[k]]
  /\ line' = [line EXCEPT ![s] = 1]
  /\ batch' = [batch EXCEPT ![s] = 0]
  /\ written' = [written EXCEPT ![s] = {}]
  /\ replies' = replies \cup
       {[at |-> stamp[s], req |-> req[s], status |-> status, batch |-> batch[s],
         idempotent |-> existed[s], posted |-> posted]}
  /\ UNCHANGED <<local, clock, calls>>

\* RAISE EXCEPTION: the transaction rolls back and the caller gets the error.
Raise(s, code) == Finish(s, code, FALSE) /\ UNCHANGED committed

\* callJournalFn: the service looks the key up outside the transaction.
ReadExisting(s) ==
  /\ pc[s] = "idle" /\ calls < MaxCalls
  /\ \E r \in Requests :
       /\ req' = [req EXCEPT ![s] = r]
       /\ existed' = [existed EXCEPT ![s] = Posted(r.key) # {}]
  /\ calls' = calls + 1
  /\ Goto(s, "begin")
  /\ UNCHANGED <<committed, lock, line, stamp, batch, written, clock, replies>>

\* The transaction begins and credit_wallet, debit_wallet, transfer_wallet or
\* bootstrap_treasury_wallet tests its arguments.
BeginTransaction(s) ==
  /\ pc[s] = "begin"
  /\ clock' = clock + 1
  /\ stamp' = [stamp EXCEPT ![s] = clock + 1]
  /\ Goto(s, IF req[s].kind = "genesis" THEN "genesis" ELSE "idem")
  /\ UNCHANGED <<committed, lock, req, existed, line, batch, written, calls, replies>>

BadArguments(s) ==
  /\ pc[s] \in {"idem", "genesis"}
  /\ ArgumentError(req[s]) # "none"
  /\ Raise(s, ArgumentError(req[s]))

\* The idempotency SELECT: a batch already committed is returned as it is.
CheckIdempotency(s) ==
  /\ pc[s] = "idem"
  /\ ArgumentError(req[s]) = "none"
  /\ \/ /\ Posted(req[s].key) = {}
        /\ Goto(s, "scan")
        /\ UNCHANGED batch
     \/ \E b \in Posted(req[s].key) :
        /\ Goto(s, "return")
        /\ batch' = [batch EXCEPT ![s] = b.id]
  /\ UNCHANGED <<committed, lock, local, line, written, clock, calls, replies>>

\* The loop runs past the last entry.
BugLoopOverrun(s) ==
  /\ line' = [line EXCEPT ![s] = @ + 1]
  /\ Goto(s, IF line[s] = 1 THEN "scan" ELSE "insert")

\* The loop moves to the second entry, or leaves for the INSERT.
NextEntry(s) ==
  IF line[s] = 1
  THEN line' = [line EXCEPT ![s] = 2] /\ Goto(s, "scan")
  ELSE line' = [line EXCEPT ![s] = 1] /\ Goto(s, "insert")

EntryRejected(s) ==
  /\ pc[s] = "scan"
  /\ LET error == WalletError(Entry(req[s], line[s]).wallet, req[s].currency) IN
       /\ error # "none"
       /\ Raise(s, error)

ScanCredit(s) ==
  /\ pc[s] = "scan"
  /\ LET e == Entry(req[s], line[s]) IN
       /\ WalletError(e.wallet, req[s].currency) = "none"
       /\ e.signed > 0
  /\ NextEntry(s)
  /\ UNCHANGED <<committed, lock, local, batch, written, clock, calls, replies>>

\* The result of the try-lock is not looked at.
BugIgnoreLock(s) ==
  /\ pc[s] = "scan"
  /\ LET e == Entry(req[s], line[s]) IN
       WalletError(e.wallet, req[s].currency) = "none" /\ e.signed < 0
  /\ Goto(s, "check")
  /\ UNCHANGED <<committed, lock, local, line, batch, written, clock, calls, replies>>

\* pg_try_advisory_xact_lock of a debit entry; it does not wait.
LockDebit(s) ==
  /\ pc[s] = "scan"
  /\ LET e == Entry(req[s], line[s]) IN
       /\ WalletError(e.wallet, req[s].currency) = "none"
       /\ e.signed < 0
       /\ \/ /\ lock[HashText[e.wallet]] \in {NoSession, s}
             /\ lock' = [lock EXCEPT ![HashText[e.wallet]] = s]
             /\ Goto(s, "check")
             /\ UNCHANGED <<committed, local, line, batch, written, clock, calls,
                            replies>>
          \/ /\ lock[HashText[e.wallet]] \notin {NoSession, s}
             /\ Raise(s, "WALLET_LOCKED")

\* The balance of the debit wallet, summed under its lock.
CheckBalance(s) ==
  /\ pc[s] = "check"
  /\ \/ /\ Covers(req[s].from, req[s].amount)
        /\ NextEntry(s)
        /\ UNCHANGED <<committed, lock, local, batch, written, clock, calls, replies>>
     \/ /\ ~Covers(req[s].from, req[s].amount)
        /\ Raise(s, "INSUFFICIENT_BALANCE")

\* bootstrap_treasury_wallet: the wallet rows, then the genesis lookup.
GenesisRejected(s) ==
  /\ pc[s] = "genesis"
  /\ ArgumentError(req[s]) = "none"
  /\ GenesisError(req[s]) # "none"
  /\ Raise(s, GenesisError(req[s]))

GenesisLookup(s) ==
  /\ pc[s] = "genesis"
  /\ ArgumentError(req[s]) = "none" /\ GenesisError(req[s]) = "none"
  /\ \/ /\ Posted(req[s].key) = {}
        /\ Goto(s, "count")
        /\ UNCHANGED batch
     \/ \E b \in Posted(req[s].key) :
        /\ Goto(s, "return")
        /\ batch' = [batch EXCEPT ![s] = b.id]
  /\ UNCHANGED <<committed, lock, local, line, written, clock, calls, replies>>

\* A treasury that has any ledger row is not bootstrapped again.
CountTreasuryRows(s) ==
  /\ pc[s] = "count"
  /\ \/ /\ \A e \in ledger : e.wallet # req[s].to
        /\ Goto(s, "insert")
        /\ UNCHANGED <<committed, lock, local, line, batch, written, clock, calls,
                       replies>>
     \/ /\ \E e \in ledger : e.wallet = req[s].to
        /\ Raise(s, BootstrapRefused)

\* The function tries the INSERT again whenever the index has rejected it.
BugRetryInsert(s) ==
  /\ pc[s] = "insert"
  /\ ~Reserved(s, req[s].key)
  /\ Posted(req[s].key) = {}
  /\ batch' = [batch EXCEPT ![s] = stamp[s]]
  /\ Goto(s, "post")
  /\ UNCHANGED <<committed, lock, local, line, written, clock, calls, replies>>

\* INSERT INTO wallet_journal_batches: while another open transaction holds
\* the key the statement waits; once it is committed the index rejects it.
InsertBatch(s) ==
  /\ pc[s] = "insert"
  /\ ~Reserved(s, req[s].key)
  /\ \/ /\ Posted(req[s].key) = {}
        /\ batch' = [batch EXCEPT ![s] = stamp[s]]
        /\ Goto(s, "post")
        /\ UNCHANGED <<committed, lock, local, line, written, clock, calls, replies>>
     \/ /\ Posted(req[s].key) # {}
        /\ Raise(s, "IDEMPOTENCY_CONFLICT")

\* The running_balance snapshot of a row: the committed sum, what this
\* transaction has already written, and the row itself.  The genesis credit
\* takes the sum for zero.
RunningBalance(s, e) ==
  LET first == Entry(req[s], 1)
  IN  CASE req[s].kind = "genesis" /\ line[s] = 1 -> e.signed
        [] req[s].kind # "genesis" /\ line[s] = 2 /\ first.wallet = e.wallet ->
             balance[e.wallet] + first.signed + e.signed
        [] OTHER -> balance[e.wallet] + e.signed

PostLine(s) ==
  /\ pc[s] = "post"
  /\ LET e == Entry(req[s], line[s]) IN
       written' = [written EXCEPT ![s] = @ \cup
         {[batch |-> batch[s], wallet |-> e.wallet, signed |-> e.signed,
           running |-> RunningBalance(s, e), at |-> stamp[s]]}]
  /\ IF line[s] = 1
     THEN line' = [line EXCEPT ![s] = 2] /\ UNCHANGED pc
     ELSE Goto(s, "commit") /\ UNCHANGED line
  /\ UNCHANGED <<committed, lock, local, batch, clock, calls, replies>>

\* COMMIT publishes the rows and releases the locks in one step.  The caller
\* gets the batch id, or an error when the connection breaks on the reply.
Commit(s) ==
  /\ pc[s] = "commit"
  /\ balance' = [w \in Wallets |-> balance[w]
                   + (IF w = req[s].to   THEN req[s].amount ELSE 0)
                   - (IF w = req[s].from THEN req[s].amount ELSE 0)]
  /\ batches' = batches \cup {[id |-> batch[s], key |-> req[s].key,
                               from |-> req[s].from, to |-> req[s].to,
                               amount |-> req[s].amount]}
  /\ ledger' = ledger \cup written[s]
  /\ \E status \in {"ok", "INTERNAL_ERROR"} : Finish(s, status, TRUE)

\* The function returned an existing batch; its transaction wrote nothing.
ReturnExisting(s) ==
  /\ pc[s] = "return"
  /\ Finish(s, "ok", FALSE)
  /\ UNCHANGED committed

\* The process or its connection dies inside the transaction.
Rollback(s) ==
  /\ InTransaction(s)
  /\ Raise(s, "INTERNAL_ERROR")

\* One statement of the session's call.
Statement(s) ==
  \/ BeginTransaction(s) \/ BadArguments(s) \/ CheckIdempotency(s)
  \/ EntryRejected(s) \/ ScanCredit(s) \/ LockDebit(s) \/ CheckBalance(s)
  \/ GenesisRejected(s) \/ GenesisLookup(s) \/ CountTreasuryRows(s)
  \/ InsertBatch(s) \/ PostLine(s) \/ Commit(s) \/ ReturnExisting(s)

Next == \E s \in Sessions : ReadExisting(s) \/ Statement(s) \/ Rollback(s)

Spec == Init /\ [][Next]_vars

\* The service awaits each statement and PostgreSQL runs it to its end; a
\* waiting INSERT is woken when the transaction it waits for ends.
FairSpec == Spec /\ \A s \in Sessions : WF_vars(Statement(s))

-----------------------------------------------------------------------------
Amounts == {r.amount : r \in Requests}

BatchRow == [id : Nat, key : Keys \cup {NoKey}, from : Wallets, to : Wallets,
             amount : Amounts]
LedgerRow == [batch : Nat, wallet : Wallets, signed : Int, running : Int, at : Nat]
Statuses == {"ok", "INVALID_AMOUNT", "TRANSFER_INVALID", "WALLET_NOT_FOUND",
             "WALLET_INACTIVE", "CURRENCY_MISMATCH", "WALLET_LOCKED",
             "INSUFFICIENT_BALANCE", "IDEMPOTENCY_CONFLICT", "INTERNAL_ERROR"}

\* The types of the tables (20240101000003_wallets_ledger.ts) and of the
\* variables of the functions.
TypeOK ==
  /\ balance \in [Wallets -> Int]
  /\ batches \subseteq BatchRow
  /\ ledger \subseteq LedgerRow
  /\ lock \in [LockKeys -> Sessions \cup {NoSession}]
  /\ pc \in [Sessions -> Labels]
  /\ req \in [Sessions -> Requests]
  /\ existed \in [Sessions -> BOOLEAN]
  /\ line \in [Sessions -> {1, 2}]
  /\ stamp \in [Sessions -> Nat]
  /\ batch \in [Sessions -> Nat]
  /\ written \in [Sessions -> SUBSET LedgerRow]
  /\ clock \in Nat /\ calls \in Nat
  /\ replies \subseteq [at : Nat, req : Requests, status : Statuses, batch : Nat,
                        idempotent : BOOLEAN, posted : BOOLEAN]

\* The contra side of a genesis posting, the one debit made with no check.
EquityWallets == {r.from : r \in {q \in Requests : q.kind = "genesis"}}

\* Concurrent debits never take a wallet below its overdraft limit
\* (post_wallet_journal, "advisory lock ... to prevent concurrent overdrafts").
NoOverdraft == \A w \in Wallets \ EquityWallets : balance[w] + Overdraft[w] >= 0

\* However calls with one key race, at most one batch carries it
\* (wallet_journal_batches.idempotency_key).
OneBatchPerKey ==
  \A b, c \in batches : b.key = c.key /\ b.key # NoKey => b = c

\* Double entry: each batch has its two rows, which sum to zero, and a wallet's
\* balance is the sum of its rows, so the balances of all wallets sum to zero.
Signed == [e \in ledger |-> e.signed]
Lines(b) == {e \in ledger : e.batch = b.id}
DoubleEntry ==
  /\ \A b \in batches :
       Cardinality(Lines(b)) = 2 /\ SumFunctionOnSet(Signed, Lines(b)) = 0
  /\ \A w \in Wallets :
       balance[w] = SumFunctionOnSet(Signed, {e \in ledger : e.wallet = w})
  /\ SumFunctionOnSet(balance, Wallets) = 0

\* What a caller is told is what happened: a call that answers with a batch id
\* names a committed batch with its key, and a call that throws any error but a
\* lost connection has written nothing.
RepliesAreTrue ==
  \A p \in replies :
    /\ p.status = "ok" => \E b \in batches : b.id = p.batch /\ b.key = p.req.key
    /\ p.status \notin {"ok", "INTERNAL_ERROR"} => \A b \in batches : b.id # p.at

\* The abstract ledger, and the claim that this one implements it.
Abstract == INSTANCE AtomicLedger WITH
              used <- {b.key : b \in batches} \ {NoKey}, Exempt <- EquityWallets
ImplementsAtomicLedger == Abstract!ASpec

\* Every call gets an answer: a session waiting on the unique index cannot be
\* left waiting, whatever the other sessions do.
CallsEnd == \A s \in Sessions : pc[s] # "idle" ~> pc[s] = "idle"
=============================================================================
