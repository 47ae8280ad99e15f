# A verification of the VTU platform

The repository is the backend (Express, PostgreSQL, Redis, BullMQ) of a Nigerian
"virtual top-up" business with a customer app and an admin dashboard. A customer
keeps money in a wallet, funds it by card or bank transfer, and buys airtime, data,
electricity, cable TV and identity slips, which external providers deliver. This
directory holds TLA+ models of the parts where money can be lost or made up, the
instances TLC checks and the theorems TLAPS proves.

Paths in this file are relative to `src/`; line numbers are those of the commit beside it.

* [1. The system](#1-the-system)
* [2. The hard behaviours](#2-the-hard-behaviours)
* [3. The modules](#3-the-modules)
* [4. What the runs check](#4-what-the-runs-check)
* [5. Fairness](#5-fairness)
* [6. What is proved](#6-what-is-proved)
* [7. Where the code and its documents disagree](#7-where-the-code-and-its-documents-disagree)
* [8. Not modelled](#8-not-modelled)
* [9. Plan](#9-plan)

## 1. The system

Two kinds of process share one PostgreSQL database and one Redis: API servers, which also
consume every queue unless `DISABLE_WORKERS` is set (`src/modules/queue/index.ts`), and
worker processes (`src/workers/`: one for six of the eight queues, one for reconciliation, one for
integrity checks). They never call each other: they meet in rows, in queued jobs and
in idempotency keys.

| Component | State it keeps | Operations | Talks to | What makes it correct |
|---|---|---|---|---|
| **Wallet ledger** `src/services/wallet`, migrations `…0003`, `…0006`, `…0007` | `wallets`, `wallet_journal_batches`, `wallet_ledger` (a balance is a sum of rows) | credit, debit, transfer, genesis posting; each is one PL/pgSQL call in one READ COMMITTED transaction | everything that moves money | double entry, no overdraft, one batch per key, a caller is told what happened |
| **Purchase saga** `modules/transactions`, `modules/queue` | row in `transactions`, jobs in Redis, `failed_jobs` | request (debit, row, job), purchase workers (VTU, airtime), verification worker, dead-letter handler | ledger, engine, queues | money or goods, never both or neither; one refund; a status that is true and reached |
| **Provider execution engine** `provider-execution-engine.service.ts` | `provider_attempts`, the row's status and provider | replay of a recorded success, failover over candidates, success / pending / review / failure outcomes | providers, ledger, verification queue | no failover past an answer that may have been a delivery |
| **Reconciliation and repair** `modules/reconciliation`, `backup/services/repair.service.ts`, admin controllers | the row's metadata (`reconciliation_attempts`, `…_status`, `refund_processed`) | periodic provider reconciliation; retry, mark failed, manual refund, repair | providers, ledger, queues | finds what the workers dropped; does not undo what they finished |
| **Wallet funding** `wallet-funding.controller.ts`, `modules/webhooks`, webhook workers | `funding_transactions`, history row in `transactions`, `webhook_events` | initialise, webhook, webhook job, verify request | Paystack, Squad, ledger | a payment is credited exactly once |
| **Request guards** `modules/idempotency`, `duplicate-purchase.guard.ts` | `idempotency_keys` (24 h), Redis keys (30 s) | answer, replay or refuse a repeated request | in front of the saga | one purchase per key, and a key that ends |
| **Referral rewards** `modules/referral` | `referral_rewards`, `referral_milestone_payouts` | reward on sign-up, first funding, first purchase; milestones | ledger | one reward per event and milestone, none lost |
| **Finance reversal** `finance/services/reversal.service.ts` | `reversals`, `refunds`, rows inserted into the ledger directly | reverse, refund | ledger tables | at most one of the two, with a whole posting |
| **Circuit breaker** `provider-health-metrics.service.ts` | `provider_circuit_state` | success, failure, query, reset | engine | opens after 5 failures, closes after one success, refuses nobody for good |
| **Sessions** `auth.service.ts`, `admin-dashboard/src/api/client.ts` | `sessions`; the page's token store and queue of refused requests | authenticate, silent refresh with rotation, replay | Supabase | a page survives its own refreshes; no request waits for one that is over |
| **Registration** `auth.service.ts` 107-316 | an identity at Supabase, a row in `users` that names it | check the address, create or take over the identity, create the row, or remove the identity | Supabase | whoever is registered can log in; whoever is not can register |
| **Page of a purchase** `customer-app/src/hooks/useServicePurchase.ts` | phase, result, timer of the polls | review, submit, poll every two seconds, show the end, try again | purchase routes | shows the end of the purchase in hand; offers another try only of one that failed |
| **Login**, **PIN**, **rate limits** | Redis challenges and counters, PIN counters in `users` | two-factor challenge, passkeys; PIN check | Supabase | a challenge is used once; counters count |
| **Notifications** `modules/notifications` | `notification_jobs`, `notifications` | queue, deliver in batches, retry, delete | queue, FCM | "sent" means sent to everybody |
| **Configuration**: catalog, routing, gateways, settings, service status, content | tables edited by single statements | read and edit | – | – |
| **Reports**: analytics, audit, alerts, integrity checks, exports | logs | read | – | – |
| **Provider adapters** (VTpass, ClubKonnect, LegitDataWay, NetworkDataSub, eData, Maskawasub, SMShika, SecureIDVerify) | an access token (LegitDataWay) | translate one purchase or query | providers, error classifier | read an answer truthfully; ask for the order that was placed |

How a purchase travels: the route runs authentication, rate limit, idempotency key,
PIN, duplicate guard; the controller debits the wallet (`vtu_debit_…`), inserts the
`transactions` row as `pending` and adds a job. A worker loads the row, marks it
`processing` and runs the engine, which replays a recorded success, resolves the
candidates, calls them in order, records each attempt and ends in one of four ways:
`successful`; `processing` and a delayed verification job; `requires_review`; or a refund
under one fixed key and `failed`. The verification job polls the provider that answered
"processing" and queues its own successor. A job that rejects is
attempted three times in all; after the last rejection a handler records it and marks the row `failed`. Every
fifteen minutes a scan asks the provider of each row that is unfinished, or failed and
perhaps not refunded; administrators do the same by hand.

## 2. The hard behaviours

`PROJECT.json` lists forty hazards at their lines. They are of six kinds.

1. **Statement interleavings in the ledger.** The functions read a balance, then insert
   rows, in a READ COMMITTED transaction in which each statement has its own snapshot;
   only advisory locks (whose hash may collide) and one unique index order two calls.
2. **A distributed transaction without a coordinator.** Money, order, attempt and status
   are four systems. Every `await` is a place where the process can die, and the resumed
   job must find out how far its predecessor came from rows written in a certain order.
3. **Unknown outcomes.** A provider call that timed out may have been carried out. What an adapter calls
   a definite failure may have been too, and a query may ask for an order under the wrong id.
4. **Several actors, one row.** Engine, verification worker, dead-letter handler,
   reconciliation scan and administrators write a status that they read some awaits earlier.
   The airtime worker's 90-second timeout abandons the engine without stopping it.
5. **Duplicates.** Webhooks repeat, customers press "verify" repeatedly, jobs are
   re-queued, stalled jobs run again; idempotency keys are all there is against it.
6. **Something must follow.** A poll must queue the next one, a job must be added
   after its row, a scan must see what nobody else will look at again.

## 3. The modules

| Module | Models | Extends / refines |
|---|---|---|
| `AtomicLedger` | what the ledger promises: a posting is one step | – |
| `WalletLedger` | the SQL functions, one action per statement | implements `AtomicLedger` |
| `MCWalletLedger` | its instances | `WalletLedger` |
| `WalletLedgerProofs` | its theorems | `WalletLedger` |
| `PurchaseContract` | what a purchase promises the customer | – |
| `PurchaseSaga` | request, purchase workers, engine, verification worker, dead letters | implements `PurchaseContract` |
| `MCPurchaseSaga` | its instances | `PurchaseSaga` |
| `PurchaseSagaProofs` | its theorems | `PurchaseSaga` |
| `PurchaseRecovery` | reconciliation scans and administrators, composed with the saga | extends `PurchaseSaga` |
| `MCPurchaseRecovery` | its instances | `PurchaseRecovery` |
| `PurchaseRecoveryProofs` | its theorems | `PurchaseRecovery`, `PurchaseSagaProofs` |
| `WalletFunding` | one payment: webhook, job, verify requests | – |
| `PurchaseGuards`, `PurchaseGuardsProofs` | repeated submissions in front of the saga: idempotency key, PIN, duplicate guard, charge | – |
| `ReferralReward` | the rewards of one referrer for one trigger, in both modes | – |
| `CircuitBreaker` | the circuit of one provider | – |
| `ProviderAdapters` | one order through one of eight adapters, and the queries after it | – |
| `ProviderProofs` | theorems of these two | `CircuitBreaker`, `ProviderAdapters` |
| `VirtualAccounts` | how a customer gets the bank account he pays into | – |
| `CreditProofs` | theorems of `WalletFunding`, `ReferralReward` and `VirtualAccounts` | the three of them |
| `FinanceReversal` | reversal and refund of one transaction by administrators | – |
| `AdminSession` | one dashboard page, its session and its silent refresh | – |
| `NotificationDelivery` | one in-app broadcast and its queue jobs | – |
| `Registration` | the requests that register one e-mail address | – |
| `AdminProofs` | theorems of these four | the four of them |
| `PurchasePage` | the page on which a customer buys; its theorem is in `PurchaseGuardsProofs` | – |
| `MCServices` | the instance of the eleven components above | all eleven |
| `ServicesProofs` | theorems of this instance's specification, for every value of its constants | `MCServices` and the components' proofs |

Definitions called `Bug…` are faulty variants of the definition that follows them: with
one of them in its place, the property it is paired with in `PROJECT.json` is violated.

### WalletLedger

A session is a call of `WalletService` with its connection. `pc[s]` is the statement of
`post_wallet_journal` (or `bootstrap_treasury_wallet`) that comes next. A statement that
reads shared state is an action: the look-up of the key before the transaction and in it
(`ReadExisting`, the `idem` step), the scan of an entry with its advisory lock, the balance
check, the insertion of the batch, of each line, and the commit. Uncommitted rows are the
session's `written`; what other sessions see of them is the advisory lock and the unique
index: an insertion of a key that an open transaction holds waits, and fails or succeeds
when that transaction ends. `Rollback` ends a call at any statement. The replies a caller gets (batch id,
error code, the flag `idempotent`) are recorded in `replies`, as `WalletService` hands them on: the bootstrap's own
error codes are unknown to `fromPostgresError` and come out as `INTERNAL_ERROR`. Amounts are integers (the
column is NUMERIC, no overflow), and the overdraft limit of wallets that have none is 0.
The code never updates a wallet's status, so the active wallets are a constant.

### PurchaseSaga

One purchase. `tx` is the row's status and provider, `ledger` the batches posted for it (a
posting is a step here, which is what `WalletLedger` is shown to implement), `attempts` the
rows of `provider_attempts`, `orders` what each provider made of the calls it received:
`open` until it settles them as `delivered` or `rejected`. `proc` holds the jobs in the queue
or at a worker, and the engine executions that the airtime timeout abandoned: each is a
program counter over the awaits of the code, with what the code holds in local variables
(candidates left, whether an earlier answer was ambiguous, the answer of the last call).

A call ends in one of six ways: `ok`, `pending`, `timeout` (ambiguous, carried out or not),
`error` (a failure the adapter takes for definite), `invalid` (the same, of a class that
stops the failover) or `blank` (a failure without a message, which stops nothing). A "definite" failure need not be a
refusal: the adapters say so of a 5xx or of a body that is no JSON, too, behind which the order may be open or delivered
(`Fates`). `Eligible` are the sets of candidates that routing, switches and open circuits may leave, chosen at each resolution.
`Dedupe` are the providers that answer a repeated reference from their records.

A query (`Verdicts`) may say "pending", what the provider made of the order, or, if the provider holds none, "rejected".
It may say "rejected" also of an order that is open or delivered, at a provider where the query goes out under another id than
the purchase did: `LostByReference` are those that miss it when asked by our reference (VTpass, whose id begins with the minute
of the query), `LostByOrderId` those that miss it when asked by `provider_reference` (VTpass, ClubKonnect). `misread` is a history
variable that no step reads: the providers whose adapter called an order failed that the provider had not refused. A provider
is `Declined` when it refused what it got or was misread; the properties hold the code to that, because nothing behind
the adapters can know better.

`Throw` is BullMQ's reading of a rejected processor: an attempt counted, then the queue
again or the dead-letter handler. `AfterCrash` is its stalled-job check: queued once more
without counting, failed the second time, without the code's handler. The reads
the code wraps in `catch` yield nothing instead (`CaughtReads`).

### PurchaseRecovery

Adds reconciliation jobs (`scan`, each with the row as its candidate query returned it,
which is the point), administrators (`desk`) and the row's metadata (`note`). Every action of
the saga is an action here; the two sides meet in `tx`, `ledger`, `attempts` and the queue.
A scan asks by `provider_reference` where its row names a provider, and by our reference otherwise (`id`, `Lost`); a repair asks by
the former, or asks nobody and believes the token an administrator enters (`RepairWithToken`).
The age limits of the candidate query (2 minutes to 48 hours) are left open: a scan may
come at any moment, and need not come.

### WalletFunding

One payment of one of three kinds: begun in the app, a transfer to the customer's virtual
account, a transfer to an account no customer is known for. The webhook job (id = reference,
so a second one is a no-op while the first is kept) and the verify requests go through the
same steps: load the row, ask the gateway, credit under `…_credit_<reference>`, look
for the history row, insert it, set `verified`. Paystack's and Squad's handlers are alike. The code
that verifies amounts and signatures is abstracted: the payment is the right one.

### PurchaseGuards

A submission walks the route of a purchase: `FindActiveKey`, `CreateIdempotencyKey` and
`FindRacedKey` are the middleware's three database calls, `RequirePin` a choice,
`DuplicatePurchaseGuard` the Redis `SET NX`, `Charge`, `Enqueue` and `AnswerPurchase` the
controller (whose inside is `PurchaseSaga`), `StoreIdempotencyResponse` the storing of the answer,
which goes on after the answer is out. The middleware takes every error of its insert for a
lost race (`InsertFails`), the guard lets everything through when Redis fails (`RedisFails`), and a
process may die at any step (`SubmissionFails`). A key row is never deleted: after its day it is
no longer found, but still occupies the unique index. The hash covers the request's JSON only, and nobody compares routes: a
body of the model is a route with its JSON, and `SameJson` names the bodies that differ by their route alone (`HashedAlike`), so that
a key used on a second route is answered from the first. Only some routes have the thirty-second guard (`Fingerprinted`).

### ReferralReward

A call of `processReferralReward` reads the mode once and follows one of two paths. Per
referral: reward row, settlement wallet, one credit or two, status. Milestone: event row, count,
and for each tier the payout row, the credit, the status. `reward` and `payout` are the rows,
`bonus` and `lumpSums` the credits; each credit has a fixed key, so repeating it is harmless.
`CallDies` is a rejected call or a dead process; nobody calls again for the same event.
`InsertPayoutFails` is an error of the payout's insert, which the code takes for "already
there". The ghost `gap` marks the two situations in which a tier may lack its payout until the
next event. The referrer's amount is taken to be positive.

### CircuitBreaker

`circuit` is the row, `openFor` the age of `circuit_opened_at`. Each purchase asks
(`CheckCircuit`), orders and records its result in a statement nobody awaits, which may
therefore arrive after the circuit opened, cooled down or was reset, or be lost. The set of
providers whose circuits let a purchase pass is a part of `Eligible` in `PurchaseSaga`.

### ProviderAdapters

One order through one adapter, with no provider left to fail over to. `Answered` takes
every combination of HTTP status, body and words in the message which the provider may give;
`VTPassReads` … `SecureIDVerifyReads` are what the adapters make of them, `Classify` is `classifyError` on
the words, `Conclude` the end of the engine's attempt. A message is the set of those words in it that the
classifier looks for. `order` keeps the provider's truth and the id under which it knows the
order; `VerifyTransaction` asks under the id that the verification worker or a
reconciliation passes. LegitDataWay's token, kept or fetched anew after a 401 or 403, is
`GenerateToken` and `TokenRejected`.

### FinanceReversal

An intervention is five statements: status check, look for an earlier record of the same kind, new
record, status, record closed; several administrators at once, a death in between. `Columns` are the
columns the purchase's row was created with, which decides whether the journal is written.

### AdminSession

`live` is the server's one session of the user, numbered; `tokens` the number of the one the page holds. Requests
(`xhr`) carry the token of the moment they were sent; a 401 starts a refresh, waits for one
under way, or sends the page to `/login`. An action is what runs between two answers: the
promise callbacks of a refresh drain the queue and replay everything in one go, as the event
loop does. Any request, a replay included, may end with an error other than a 401 or with none at all (`XhrFails`). Its caller is told,
unless the request had waited in the queue (`waited`): the `catch` of `client.ts:118` encloses the replay and returns a promise
that never settles (`AfterError`). A login loads the page anew.

### NotificationDelivery

`notice` is the row, `worker[q]` each queue job with the attempts it made and the batch it has
reached, `received` how often a batch of recipients got the message (counted to two).
`Again` is BullMQ's repetition; `WorkerDies` the stalled-job check.

### VirtualAccounts

A visit of the page looks for the row, checks the profile, asks the gateway for an account
(`FetchAccount`, whose errors count as "none"), has one opened (`CreateAccount`; `CreationFails`
goes on to Paystack's second bank, also when only the answer was lost) and inserts the row (`InsertRow`; `user_id` is unique).
The visit that loses gets an error from Paystack's function and reads the winner's row in Squad's
(`RereadRow`). The gateway is asked for Paystack's customer just before, which the model takes together with `FetchAccount`;
that it does not refuse, or merge, a second account is left open: the accounts it has are numbered.

### Registration

The requests for one e-mail address, side by side: a second tap, a second device, a retry. Each looks for
the row (`CheckEmail`) and creates the identity (`CreateIdentity`). If Supabase has one already (`IdentityTaken`), it is
taken over by whoever knows its password (`RecoverIdentity`). User, profile, wallet and role are one
transaction, hence one action, `SetUp`, whose answer may be lost after the commit; after a rollback
(`SetUpFails`) a request that created the identity removes it (`CleanUp`). `identity` is the one Supabase has, `owner` the one the
row names; identities are numbered. `SignUpFails` is a rejected call or a dead process anywhere; its
customer's next try is another request. Device tracking and referral are left out.

### PurchasePage

One visit of a page of the customer's app, on which he may buy several times. `phase` is the hook's, `Turn` the windows and
the fingerprint prompt, `SubmitPurchase` the request with a key of its own. `pollTimer` and `isPolling`
are set together and are one variable. A tick of the interval (`PollTick`) sends a poll whatever the earlier ones are doing;
the server reads the row at some later moment (`ServerReads`), and the answer arrives later still (`PollShowsEnd`,
`PollShowsNothing`). `server` is the truth, moved by `ServerMove` as the purchase saga and the scans do: a failed purchase may be healed and a
successful one failed afterwards, so that `had` keeps the outcomes it has had. An administrator's retry, which makes a failed
purchase pending again, is left out. `result` is what the customer sees. An error of the
submission (`SubmitReturnsError`) may be a refusal or an answer that did not come in thirty seconds. Leaving the page ends the
behaviour: another visit has a timer and a result of its own.

### MCServices

The eleven components above share no state among each other: each meets the ledger and
the queue only through calls that are one step in it. Their interleavings with each other mean nothing, so a
behaviour of `ServicesSpec` follows one of them, `active`, and the others stay in an initial
state. Within the active one every interleaving is explored.

## 4. What the runs check

Numbers are distinct states; every run is finished by TLC within its bounds.

| Run | Instance | Shows |
|---|---|---|
| `ledger_race` | 3 sessions, 3 calls out of a purchase, a funding credit, a debit without key and the genesis posting; overdraft 1, two wallets with one lock key; sessions symmetric | `TypeOK`, `NoOverdraft`, `OneBatchPerKey`, `RepliesAreTrue`, `DoubleEntry`, refinement of `AtomicLedger` |
| `ledger_answers` | 2 sessions, 3 calls, one request for each way a call is rejected | `RepliesAreTrue`; `CallsEnd`: no call waits for ever on a lock or the index |
| `purchase_providers` | VTU, no mishap; 2 providers, all answers (the second never "pending"), any set of them usable at each resolution | `StatusIsTrue`, `ImplementsContract` |
| `purchase_failures` | 1 provider, all answers, queries that may miss the order, 2 attempts, 2 polls, both services, 2 mishaps (error or crash) anywhere, airtime timeouts at any time; 4.1 million states | `RefundOnce`, `NoRefundOfDelivered`, `NoRepeatOfRecorded`, `NothingStuck`, `SuccessIsFinal` |
| `purchase_blind` | 2 providers, both may say "pending" | *violated*: `NoRefundOfDelivered` |
| `recovery_repair` | saga (1 attempt, 1 poll), 1 scan, whose query may miss the order, 1 administrator acting twice, 1 error anywhere; 5.1 million states | `RTypeOK`, `RefundsBounded` |
| `recovery_scan` | saga with all answers, 1 scan of up to 2 rounds, whose query by the provider's id may miss the order, 1 error or crash anywhere; 242 thousand states | `OutcomeIsTrue` (which contains `NoRefundOfDelivered`), `PurchaseSettles`, `PickedUp` |
| `recovery_forgotten` | no mishap but a refund that is refused | *violated*: `UnrefundedIsCandidate` |
| `recovery_downgrade` | 2 providers, 1 scan | *violated*: `NeverDowngrades` |
| `services` | the eleven components of `MCServices`; 662 thousand states | the twenty properties of the next table |
| `reversal` | 2 administrators | *violated*: `SettlementIsCredited` |
| `adapters` | ClubKonnect, a reconciliation that asks | *violated*: `VerdictIsConfirmed` |

| Component in `services` | Instance | Properties (beside its part of `ServicesTypeOK`) |
|---|---|---|
| `WalletFunding` | three kinds of payment, 1 webhook job of 5 attempts, 2 verify requests, 3 deliveries, 1 mishap | `FundedOnce`: one credit at most, for a paid payment of a known account. `FundingIsTrue`: "verified" and "success" only with the money and the history there. `PaidIsFunded`: a payment is credited and marked in the end |
| `PurchaseGuards` | 2 submissions, 2 keys, 3 bodies, of which two differ by their route alone and one has the guard, 2 windows, errors anywhere | `OneChargePerKey`, also after the key expired; `OneChargePerWindow`; `AnswersMatchPurchases`: what is told or replayed is a charged, queued purchase of that key and JSON, and of that route unless the customer's app used the key on another; what is refused is not charged |
| `ReferralReward` | 2 referred users, 2 calls, tiers 1 and 2, changes of mode | `RewardsAreTrue`, `RewardsAreEarned`, `MilestonesReached`: with calls counting side by side, none of the tiers reached is left out |
| `CircuitBreaker` | 3 purchases, threshold 3, cool-down 2 | `OpenAfterThreshold`: open exactly when the last results failed, and then with a time; `NotRefusedForever` |
| `FinanceReversal` | 3 interventions, every status a purchase leaves | `SettledOnce`: settled once unless two act at the same moment, and never without a record |
| `ProviderAdapters` | 8 adapters, worker and reconciliation asking, 3 minutes | `CutOffIsReviewed`: an exchange that was cut off is reviewed and not refunded, whatever the adapter's wording; `VerdictIsTrue` |
| `AdminSession` | 3 requests, 3 sessions | `PageSurvivesRefresh`: no request waits for a refresh that is over, none that did not wait is given up, no logout while the session lives and refreshing works |
| `NotificationDelivery` | 2 queue jobs of 4 attempts, 2 batches, 3 retries | `SentToAll`: "sent" was written to all; undisturbed, to nobody twice |
| `VirtualAccounts` | both gateways, 3 visits | `AccountsAgree`: every visit shows the recorded account, and a second account is opened only for a stated cause; a death between opening and recording is none |
| `Registration` | 3 requests, 2 passwords | `RegistrationsAgree`: the row names the identity Supabase has, unless that identity's creator removed it; an identity without a row is one a request died over |
| `PurchasePage` | 2 purchases, 2 polls at a time, 3 polls in all | `PageShowsOutcome`: an outcome that is shown is one the purchase had, and it is the purchase submitted last that is shown, unless a poll of an earlier one came late, and toasted once; what has no end is polled, or was as often as the page polls |

The bounds, and why they are enough to be interesting:

* **Ledger.** Three concurrent calls are enough for two that race on a balance or a key and a
  third that changes the balance under them. The balances are such that one debit fits and
  two do not. A collision of lock keys is included because PostgreSQL's `hashtext` is 32 bits.
* **Saga.** `MaxAttempts` 3 (2 in `purchase_failures`, where two mishaps then use up the attempts) and `Slots` (jobs at one time) 2 or 3 are the code's own numbers: a purchase job, its
  verification job, an abandoned execution. `MaxPolls` 4 is the length of the code's `POLL_DELAYS_MS`;
  2 leaves a first poll and a last one.
  Two providers are enough for "the next one" and "the one before".
* **Mishaps.** One mishap in the recovery runs, two in `purchase_failures`. `mishaps` counts errors and crashes
  apart, because `PurchaseSettles` is kept through crashes only: an error of a poll's read ends the polling for good
  (section 7), and then `PickedUp` says what the scans do.
* **Recovery.** The `recovery_repair` run cuts attempts, polls and rounds of the scan to one each: an administrator's retries add
  jobs of their own, which bring the further attempts back, and two interventions let him
  retry what he refunded. The status claimed as true needs a second attempt and is checked in `recovery_scan`.
* **Services.** Attempts, retries and adapters are the code's own. Two submissions, calls, queue jobs or
  verify requests race on everything that two can race on, and the theorems of section 6 cover any number;
  a third purchase, intervention or request is there where a late result must meet a state two others have
  changed since. Two tiers with two referrals let the first tier be paid by one call while the other counts the
  second. The circuit's threshold is 5 in the code; 3 leaves the same phases.
* **Deadlock** is not checked in these runs: a purchase, a payment, or the bounded list of calls
  is simply over at some point. What must not stop half-way is stated as `NothingStuck`,
  `PurchaseSettles`, `CallsEnd`, `PickedUp`, `PaidIsFunded`, `NotRefusedForever`, and for the page as `NobodyForgotten`.

The crash runs assume `Dedupe`: a provider that recognises a repeated reference. What the
code itself ensures is `NoRepeatOfRecorded`: a provider with a recorded answer is not asked again.
Without `Dedupe` a crash between the provider's answer and `recordAttempt` (engine 323) orders twice, which no code on this side could prevent.

## 5. Fairness

* Ledger: each statement of a call is eventually run (`WF` on `Statement(s)`): the service
  awaits it and PostgreSQL finishes it. Nothing makes a caller call, or a connection break.
* Saga: the controller and each job at a worker go on (`WF`). A worker that is up takes
  waiting jobs, BullMQ promises no more; each queue is taken to have a consumer, which section 7
  shows one documented deployment not to provide for two of them. No fairness on providers settling orders, on
  timeouts, on errors or on crashes; `PurchaseSettles` holds because polls and attempts are bounded,
  not because providers answer.
* Recovery: in addition each scan goes on and is repeated (a repeatable job every fifteen minutes), and a
  request an administrator has made is carried on; no administrator has to act.
* Funding: the gateway repeats a webhook until one delivery is acknowledged, the webhook
  controller and the job go on. No customer has to pay or to ask for verification.
* Circuit breaker: time passes (`CircuitTick`). No purchase has to come, no result has to arrive.
* The other services claim safety only, under no fairness.

Weak fairness is enough everywhere: a step of a process stays possible until it is taken,
except the waits of the ledger, where the action is enabled again when the lock is free; the
bound on calls ends the overtaking.

## 6. What is proved

TLAPS proves, for every value of the constants that meets the named assumptions:

| Theorem | Says | From |
|---|---|---|
| `WalletLedgerProofs!TypeCorrect` | the tables and local variables keep their types | `LedgerAssumption` |
| `WalletLedgerProofs!OverdraftSafety` | `NoOverdraft` | `LedgerAssumption` |
| `WalletLedgerProofs!KeyUniqueness` | `OneBatchPerKey` | `LedgerAssumption` |
| `WalletLedgerProofs!RepliesTruthful` | `RepliesAreTrue` | `LedgerAssumption` |
| `WalletLedgerProofs!BooksBalance` | `DoubleEntry` | `LedgerAssumption` |
| `WalletLedgerProofs!Refinement` | `WalletLedger` implements `AtomicLedger` | `LedgerAssumption` |
| `PurchaseSagaProofs!SagaTypeCorrect` | `TypeOK` of the saga | the saga's assumptions |
| `PurchaseSagaProofs!RefundedOnce` | `RefundOnce` | the saga's assumptions |
| `PurchaseSagaProofs!NotAskedAgain` | `NoRepeatOfRecorded` | the saga's assumptions |
| `PurchaseSagaProofs!SuccessStays` | `SuccessIsFinal` (an action property) | the saga's assumptions |
| `PurchaseSagaProofs!OneMishapStrandsNobody` | `NothingStuck` | the saga's assumptions |
| `PurchaseSagaProofs!CalmSagaKeepsContract` | `PurchaseSaga` implements `PurchaseContract` | `Calm` |
| `PurchaseSagaProofs!CalmStatusIsTrue` | `StatusIsTrue` | `Calm`, `NoBlindWait` |
| `PurchaseSagaProofs!SoleProviderRefundsNoDelivery` | `NoRefundOfDelivered` | `SoleProvider` |
| `PurchaseRecoveryProofs!RecoveryTypeCorrect` | `RTypeOK` | the recovery's assumptions |
| `PurchaseRecoveryProofs!RefundsStayBounded` | `RefundsBounded` | the recovery's assumptions |
| `PurchaseRecoveryProofs!AgreedOutcomeIsTrue` | `OutcomeIsTrue` | `Sheltered` |
| `CreditProofs!FundingTypeCorrect` | `FTypeOK` | `FundingAssumption` |
| `CreditProofs!FundingOnce` | `FundedOnce` | `FundingAssumption` |
| `CreditProofs!FundingTruthful` | `FundingIsTrue` | `FundingAssumption` |
| `PurchaseGuardsProofs!ChargedOncePerKey` | `OneChargePerKey` | `GuardAssumption` |
| `PurchaseGuardsProofs!ChargedOncePerWindow` | `OneChargePerWindow` | `GuardAssumption` |
| `PurchaseGuardsProofs!AnswersTruthful` | `AnswersMatchPurchases` | `GuardAssumption` |
| `CreditProofs!RewardsTruthful` | `RewardsAreTrue` | `ReferralAssumption` |
| `CreditProofs!RewardsEarned` | `RewardsAreEarned` | `ReferralAssumption` |
| `CreditProofs!NoMilestoneMissed` | `MilestonesReached` | `ReferralAssumption` |
| `ProviderProofs!CircuitTrips` | `OpenAfterThreshold` | `CircuitAssumption` |
| `ProviderProofs!CutOffGoesToReview` | `CutOffIsReviewed` | `AdapterAssumption` |
| `ProviderProofs!VerdictsAreTrue` | `VerdictIsTrue` | `AdapterAssumption` |
| `AdminProofs!SettlementOnce` | `SettledOnce` | `ReversalAssumption` |
| `AdminProofs!PageKeepsUp` | `PageSurvivesRefresh` | `SessionAssumption` |
| `AdminProofs!BroadcastReachesAll` | `SentToAll` | `DeliveryAssumption` |
| `CreditProofs!OneAccountShown` | `AccountsAgree` | – |
| `AdminProofs!RegisteredCanLogIn` | `RegistrationsAgree` | – |
| `PurchaseGuardsProofs!PageIsTrue` | `PageShowsOutcome` | `PageAssumption` |
| `ServicesProofs!ServicesTypeCorrect` | `ServicesTypeOK` | the services' assumptions |
| `ServicesProofs!ServicesKeepPromises` | `Promises`, all safety properties of the run `services` | the services' assumptions |

**The ledger.** `NoOverdraft` is not inductive: nothing in it says why the insertion of a line
may go ahead. The invariant `IInv` adds what each statement has established. From its scan
to its commit a debiting call holds the advisory lock of its wallet (`LockInv`); once checked, its
balance still covers the amount, because whoever else could lower it would
need the same lock (`CoverInv`; lock keys may collide, which only makes more calls wait); a call
that inserted its batch owns the key, in that no committed batch and no other open call
has it (`KeyInv`); and a call past its validation is about existing wallets and a positive amount
(`ArgumentsInv`, `WalletsInv`). Each action has a lemma. The refinement follows from the same
invariant: `Commit` of a batch is a `Post` of the abstract ledger, whose guards are
`CoverInv` and `KeyInv`, and every other step stutters.
`RepliesTruthful` adds what a transaction's stamp is good for: no two transactions have one, and the batch under the stamp
of an open one is still to come (`StampInv`). So a refusal that was given stays true (`RefusedInv`), and the batch a
call is about to name is its own, or one that is committed under its key (`BatchInv`).
`BooksBalance` adds that a transaction has written exactly the entries its loop has passed (`WrittenInv`) and that the rows are
finitely many, each of a committed batch, no two of which have one id (`RowsInv`). A commit therefore adds one row of `-amount` and one of
`+amount`. What that does to `DoubleEntry`'s sums rests on lemmas about `SumFunctionOnSet` (`SumPicks`, `SumAdds`,
`SumChanges`), which are proved by a smallest counterexample: the prover cannot instantiate the
library's induction theorems, but it can use the least element of a set of numbers. The sums are why
`LedgerAssumption` has finitely many wallets.

**The saga.** All theorems hold for every route, choice of usable providers and set of answers, and for every number of slots,
attempts, polls and mishaps. Five have no hypothesis but the assumptions on the constants, which bound nothing.
* `SagaTypeCorrect` needs, besides the types, what a job's place says of its kind, its attempts and its candidates (`JobOK`): the
  attempt that is counted is below the limit because a job that has used up its attempts is at the dead-letter handler.
* `RefundedOnce` carries `OneOfEach` (every posting of the engine and of the verification worker has one of two keys) and `Taken`
  (nothing is posted, no job exists, before the debit).
* `NotAskedAgain` is about what was read some awaits ago. `Informed` says that the candidates in an execution's hands
  still have no definite answer on record. It holds because a data purchase has one job that can ask (`Single`): nobody else records.
* `SuccessStays` is about the write after a read of the status. `FinalInv` says that after a success no job is at a place
  from which it would write without reading again, as long as one mishap at most occurred and no answer was "pending". These two
  conditions are the property's own.
* `OneMishapStrandsNobody` follows the purchase from before the mishap (`FreshInv`: nobody was resumed, and who leaves has settled
  the purchase) over to after it (`CarriedInv`: the purchase is settled, or there is a job that will come to the row again). Which places
  lead where is stated once, as the table `Reads` and `Writes`.

Three have a hypothesis on the constants, because the code does not keep the property without one:
* `Calm` (data purchases, no call fails, no process dies). `CalmSagaKeepsContract` maps each step to a step of the contract or a stutter;
  `InTurn` says that one job at a time has something to do and has not refunded yet. With a mishap the code may
  refund and then open the purchase again (section 7).
* `NoBlindWait` (nobody who may answer "pending" is asked behind somebody who may time out): what `purchase_blind` violates.
  `TruthInv` relates what an execution holds (candidates left, the flag `ambiguous`) to what the providers were asked and made of it,
  or what their adapters said of it.
* `SoleProvider` (one provider, always usable, which recognises the reference). `WarrantInv` says that a job that is about to refund, or to
  record a refusal, does so because the one order was rejected or its adapter reported so (`Denial`). Faults, crashes, retries and abandoned executions are all allowed, for
  both workers; what it excludes are the two behaviours of section 7 in which a provider is switched off or does not recognise the reference.

`purchase_providers` is an instance of `Calm` and `NoBlindWait`, `purchase_failures` of `SoleProvider`.

The last two, and `AgreedOutcomeIsTrue` below, say that the money and the status follow from what the adapters reported, whatever the
interleaving, the crashes and the retries. That a reported refusal was one they do not say: in the models, as in the code, it need not
be (`misread`; section 7), and the theorems leave open which providers' queries go wrong and when.

**The recovery.** `RecoveryTypeCorrect` and `RefundsStayBounded` use the saga's lemmas for the saga's steps, and add those of scans and administrators:
the count that a scan writes is the one its query saw, plus one, and is within its limit because the query returns no row
that reached it; a manual refund has the administrator's own key (`Booked`).
`AgreedOutcomeIsTrue` assumes `Sheltered`: a sole provider, VTU, and fewer mishaps than a job has attempts. Its invariant,
`Agreed`, says of every job and of every scan that what it is about to write is warranted by what the provider did, whatever
the row says by now, so that it does not matter in which order they write; what an adapter misread counts as done, as in the saga, and a purchase that was refunded for
it and found delivered later stays both. It speaks of the states in which no
administrator has intervened. The third hypothesis cannot be dropped: as many mishaps as attempts make a job dead-letter
a purchase that was delivered. `recovery_scan` is an instance.

**Funding.** `FundedOnce` holds because every actor credits under the same key; what the
invariant `FInv` adds is that nobody gets as far as crediting unless the money is paid
and the account is known (`Announced`, which needs that a job exists only for a paid payment
and that a stray transfer never gets a row), and what each
actor has done by the time it is where it is (`Progress`): past the credit there is a
credit, at the flag there is a history. The theorems hold for any number of verify requests,
attempts and mishaps.

**The guards.** `GuardInv` says of each submission what its place implies: past its insertion it owns
the row of its key, the row's answer is stored only once it was charged and queued, and a window of the
guard that let it through is not open for a second one; what a row replays was earned by the submission that owns it, whose JSON, though not
always whose route, is that of the submission it is replayed to. A row is never handed on, which is why a key
is charged once even after it expired. `StepPreserves` states once what a change of a single submission
needs; each action is then one application of it.

**The rewards.** `RewardInv` is the conjunction of `BonusInv` (the per-referral path: what each status and
each place of a call says of the credits) and `MilestoneInv`; every action disturbs one of them.
`MilestonesReached` needs the strengthening `NoneMissed`: a tier that is reached and has no payout yet has a
call that will pay it, one that has counted enough events and not dealt with the tier, or has yet to count.
The step that matters is the count: the last of several racing insertions is followed by a count that
sees all of them. The theorems hold for any finite set of referrals, any tiers, any number of calls.

**Circuit and adapters.** The circuit's invariant ties the three columns together, for every threshold.
`CutOffIsReviewed` and `VerdictIsTrue` go through the adapters' readings one by one: an answer read as
successful, pending or failed says so, and every wording of a cut-off classifies as `TIMEOUT` or `NETWORK_ERROR`.

**Reversal, session, delivery.** `SettlementOnce` rests on what a non-overlapping intervention finds: a record
of its kind, or a status it may not start from. `SessionInv` consists of `OneRefresh` (who waits, waits for a refresh under way), `NoneGivenUp`,
`Holding` (the page holds tokens until it goes to `/login`) and `InStep` (unless a refresh was interrupted, the tokens
the page holds, or an answer carries to it, are those of the server's session). The delivery's invariant says that a queue job has written
every batch before the one it has reached.

**Accounts.** `AccountInv` adds to the property that an account exists only if some visit heard of none and went on
to create it, or lost the answer of a creation (`OpenedByOne`): the visit that opens a second one is another, or has lost an answer.

**Registration.** The invariant adds that an identity has one creator, that the identity a request works with is
Supabase's or was removed by its creator, and that a row was written by a request that worked with its identity.

**The page.** `TimerOfShown` (the timer runs only for the purchase that is shown, whose polls it has counted) and
`ToastsOfLast` (no poll of a purchase before it is shown; the flag that stops a second toast tells whether an end is shown), and that
an outcome which a poll carries or the page shows is among those its purchase had.

**The services.** Each service has its invariant, inductive for its own steps. `PartStep` says that a step of `ServicesSpec` is a step
or a stutter of each of them, so that the conjunction of the invariants (`ServicesInv`) is one of the whole, and every safety property
that `services` checks holds in the specification it checks them in. The adapters' types, of which their
theorems need a part only, are kept by themselves (`AdapterTypesKept`).

**Only model-checked**: all liveness: `CallsEnd`, `PurchaseSettles`, `PickedUp`, `PaidIsFunded`, `NotRefusedForever`. Liveness under
fairness and `ENABLED` are outside what the prover supports. Every invariant of a passing run is proved, three of the saga's and
the recovery's under the hypotheses named above. Induction over data is needed for the ledger's sums alone, where
a smallest counterexample takes its place; no module here uses a RECURSIVE operator.

## 7. Where the code and its documents disagree

Five runs show a statement of the repository that the program does not keep.

* **Blind refund** (`purchase_blind`). The engine sends a purchase to review when a provider timed out,
  because the order may have been delivered (engine 433-437). When the next
  provider answers "pending" and the poll later finds it rejected, the verification
  worker (line 177) refunds regardless of the first provider.
* **Forgotten refund** (`recovery_forgotten`). A refund that fails (engine 984) leaves the row `failed` with no provider;
  the candidate query wants a provider, so no scan ever refunds it.
* **Downgrade** (`recovery_downgrade`). The scan decides on the status its query returned; a purchase that
  the engine finished in the meantime is overwritten as failed and refunded
  (line 1020), against line 750.
* **Reversal without money** (`reversal`). The dashboard (`Refunds.tsx:83`) promises a credit and journal entries.
  `reversal.service.ts:157` posts them for a transaction with a `wallet_id`, a column that
  `createTransaction` never sets: the status changes, nobody is credited.
* **Wrong id** (`adapters`). `clubkonnect.provider.ts:1151-1155` calls it critical that a query names the purchase's
  RequestID. A reconciliation (`reconciliation.service.ts:882`) passes `provider_reference`, which for a pending order is
  the provider's OrderID: a delivered order is not found, counts as failed and is refunded.

Further behaviours found while modelling, for which there is no run: no document promises
otherwise, or the statement is beside what the models are about.

In the ledger and the purchase:

* The engine refunds, dies before it writes the status, and the resumed job meets a provider that was
  not usable before: it buys what was paid back (engine 1002).
* The worker dies after the call and before `recordAttempt`, the provider is then switched off: with no
  candidate left the resumed job refunds an order that was delivered (engine 199).
* The airtime timeout writes `failed` over a success that the abandoned engine wrote since the handler's
  read, and over an unfinished purchase the engine goes on with (airtime worker 107-120). `SuccessIsFinal` is therefore claimed for VTU only.
* A failed read ends the polling of a purchase quietly (verify worker 55); the scans pick it up.
* Two mishaps can leave a purchase in `processing` with no job and no provider; `NothingStuck` says that one leaves it at
  a known provider at worst. In the same way a job whose three attempts all break off
  dead-letters a delivered purchase without a provider in its row, which no scan looks at; an airtime timeout uses up an attempt as a mishap does.
  `AgreedOutcomeIsTrue` says that for VTU fewer mishaps than attempts cannot.
* A purchase job that dies after it queued the verification job, and is resumed while that one runs, writes `processing`
  over the success the poll found between the resumed job's read and its `markProcessing`. The provider is then asked
  again under the same reference. `SuccessIsFinal` excepts purchases with a "pending" answer for this reason.
* A "pending" answer, or one without a message, that was recorded before a crash is not looked at by the resumed job
  (`getFailedAttemptProviderCodes` asks for three classes only), and the engine that the airtime timeout abandoned
  may record its answer when the next attempt has already looked: in both cases the provider is asked again and must recognise the reference.
* `HandlePending` may overwrite a success that a scan wrote meanwhile.
* A purchase whose order an adapter reported as failed, and which was refunded for it, keeps the refund when a later
  query finds it delivered: a scan writes `successful` and takes nothing back. `OutcomeIsTrue` excepts it.
* A repair with a token (`repairProviderSuccess`) makes any failed, successful or processing purchase `successful` on the
  administrator's word: no provider is asked.
* A scan whose refund is refused marks the row as refunded all the same (reconciliation 1020-1040).
* A retry by an administrator of a purchase whose provider said "pending" orders twice at a provider
  that does not recognise the reference.
* A verify request that was told "not paid" may write `failed` on a row that was credited and verified since;
  the flag and the money stay.
* A webhook job that is stalled twice is given up; if no customer asks, the payment stays uncredited
  (`PRODUCTION.md` tells operators to watch for it).
* Only API processes load the workers of `vtu-verify-pending` and `squad-webhooks`; `src/workers/index.ts:24-38` does
  not. `docs/RAILWAY_DEPLOYMENT.md:82` sets `DISABLE_WORKERS=true` on the API service and says at line 103 that the
  worker service runs all workers. Deployed like that, verification jobs and Squad's webhook jobs are never taken:
  unfinished purchases are left to the scans, Squad payments to the verify endpoint.
* The header of the wallet functions (`…0006`, 45-48) says that a duplicate returns the id of the existing batch. One that
  loses the race to the unique index gets `IDEMPOTENCY_CONFLICT` instead; `RepliesAreTrue` accepts both, since neither is untrue.
* The treasury bootstrap raises `TREASURY_…` codes, for which `fromPostgresError` has no case: the caller reads `INTERNAL_ERROR`.
* Two overlapping credits of a wallet each write a `running_balance` without the other, because a credited wallet is
  not locked; `reconciliation.service.ts:142-146` would take the difference for tampering.

At the providers:

* VTpass's request id begins with the minute of the call (`vtpass.provider.ts:140-156`), also in a query (547): a
  query of a later minute never names the order and reads "failed" (583-589), so that the verification worker or a scan may refund
  an order that was or will be delivered. `VerdictIsTrue` therefore speaks of what is said under the order's own id.
  ClubKonnect's query by `provider_reference` goes wrong in the same way (run `adapters`).
* An HTTP 5xx or a body that is no JSON counts as a definite failure and is refunded, though the order may exist.
* In the saga and the recovery these are the steps that set `misread`; `StatusIsTrue`, `NoRefundOfDelivered` and `OutcomeIsTrue` except
  the provider whose adapter took one of them. No code behind the adapters could tell, and nothing there promises to.
  The abort timer ends with the headers, so a body that never ends holds the worker's job for good.
* Every message of NetworkDataSub's adapter contains "Network", so that its definite failures go to review as well.
* An eData identity slip with a success word and no `transaction_id` counts as failed.

On the page of a purchase:

* A poll of a failed purchase that answers after the customer pressed "Try Again" and submitted anew ends the polling
  of the new purchase and shows the old failure in its place, with the button to try once more (`useServicePurchase.ts:87-90`
  does not compare references). Whoever presses it buys a second time while the first purchase is under way.
* A late poll may replace "successful" by the "under review" it read before.
* An end that is shown stays on the page though a scan, or the engine that the airtime timeout abandoned, changes it later: the page
  offers "Try Again" for a purchase that went through in the end.
* A submission without an answer within thirty seconds is reported as an error, and the next one carries a new
  idempotency key (`transactions.api.ts:32`): the key protects from repeated requests, not from a customer who repeats himself.

In the services:

* The idempotency hash covers the JSON only and the row's endpoint is never compared (`idempotency.middleware.ts:15-19`, 35): a
  key that is used again on another route with the same JSON is answered with the first route's purchase.
* After a rejected or failed request its idempotency key stays in progress for a day; `docs/manual-testing-guide.md:1070`
  promises the original response.
* A referral reward whose credit failed stays `processing` for good, and a milestone whose insert failed
  is paid only with the next event.
* The first-funding referral reward is given only when the verify endpoint does the crediting, not when the webhook does.
* A failed look-up at the gateway counts as "no account", and a lost answer of Paystack's first bank makes the code try the
  second: the customer then has a spare account that no row knows. Money paid into it would still find him, by
  customer code or identifier. A visit that loses the race for the row gets an error from Paystack's function; the next one succeeds.
* Two administrators who act at the same moment may each settle a transaction, one by reversal, one by refund.
* `rotateSession` revokes the old session whatever has become of it, so a refresh that found its session
  before it was ended brings the user back. Any error of a refresh, a network failure included, logs
  the page out. A request that waited for a refresh and whose replay then fails is never answered: the `catch` of
  `client.ts:118` means a refused refresh, after which the page is left, but also covers the replay. `NoneGivenUp` excepts it. Two tabs share the stored tokens, not the flag that lets one refresh at a time.
* Of two requests for one address the second may take over the identity the first has just created and write
  the row. The first request's insert then fails, and its clean-up removes the identity the row names (`auth.service.ts:228-231`,
  whose comment wants the address free for a retry): the customer can neither log in nor register
  again. The same follows a commit whose answer was lost. `RegistrationsAgree` excepts the two.
* A broadcast whose `enqueue` failed stays pending for good; the comments at `notification-job.service.ts:176` and 213
  expect a later retry. Two queue jobs of one row may each deliver it, and the later one overwrite "sent" with "failed".

## 8. Not modelled

`PROJECT.json` lists every component with its reason. Most lines of the repository are not
protocol: two React applications of pages and forms, some sixty controllers and services that read
or edit rows with single statements, type declarations, plan lists and prices, scripts and reports. The models cover the
control of the parts where several actors or failures meet, about seven per cent of all implementation
lines; the rest has nothing that an interleaving or a failure could bring out. In particular:

* **Front ends**: pages, forms and tables. Their requests, repeated and out of order, are what the actors of
  the modules do. Of the dashboard, the API client is modelled (`AdminSession`), of the customer's app the
  page of a purchase (`PurchasePage`).
* **Configuration, catalog, routing, content, support, roles**: rows edited by single statements.
  Routing is a choice of `PurchaseSaga`.
* **KYC** (`compliance/services/kyc.service.ts`): a review is several statements without a transaction by one administrator, and
  no rule relates level and documents: a NIN that is approved after the BVN leaves the customer in tier 1, since
  only the approval of a BVN looks at the other document (lines 314-319).
* **Analytics, audit, alerts, exports, integrity checks, the reconciliation's audit report**: they only read, and nothing acts on them.
* **Provider adapters**: look-ups of meters and cards, plan lists, balances, the PDF of an identity
  slip, SecureIDVerify's scripted browser and the generic HTTP adapter.
* **Login** (after the registration): passwords and identities are Supabase's; two-factor challenges, passkeys and the PIN's counter
  are single updates, left for a later stage.
* **Gateways**: the configuration of charges and the HTTP calls; their webhooks are `WalletFunding`'s environment.
* **Administrators' wallet operations**: one posting of the ledger under a key that is new with every call.
* **Velocity limits and freezes**: a read of recent rows before a purchase, which a concurrent one may pass too.
* **Push and e-mail**: sent after the fact, one call each.

Wording, amounts beyond what the properties compare, logging, HTTP shapes and the checking of signatures
are abstracted away in every module.

## 9. Plan

Done: ledger and its refinement, saga and its contract, recovery, funding, guards, rewards, circuit
breaker, adapters, reversal, dashboard session, registration, page of a purchase, broadcast delivery and virtual accounts, each checked and proved.

Left, in this order:

1. **Guards and saga composed**: a second submission that arrives while the first purchase's job runs, and the page on top of them.
2. **`PurchaseRecovery`** with administrators: which of `OutcomeIsTrue`'s parts survive a retry or a repair.
3. **Login**: two-factor challenges and the PIN's counter.
