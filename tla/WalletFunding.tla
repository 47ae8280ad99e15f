---------------------------- MODULE WalletFunding ----------------------------
(* One payment into a wallet.  The gateway (Paystack or Squad, whose handlers  *)
(* are alike) announces it by a webhook, which becomes a queued job; the       *)
(* customer may ask for it to be verified at the same time, as often as he     *)
(* likes.  Job and requests each look up the funding row, ask the gateway,     *)
(* credit the wallet, write the history and set the row's `verified` flag, one *)
(* database call after another and coordinated by nothing else than the flag   *)
(* and the idempotency key of the credit.                                      *)
EXTENDS Naturals, FiniteSets

CONSTANTS
  Kinds,          \* how the money comes: "checkout" (begun in the app), "transfer" (to the
                  \* customer's virtual account), "stray" (to an account nobody is known to own)
  Requests,       \* the verify requests
  MaxAttempts,    \* attempts of a webhook job
  MaxDeliveries,  \* bound: times the gateway sends the webhook
  Mishaps,        \* what may go wrong: "fault" (a call fails), "crash" (of a process)
  MaxMishaps      \* bound: mishaps in a behaviour

ASSUME FundingAssumption ==
  /\ Kinds \subseteq {"checkout", "transfer", "stray"} /\ "job" \notin Requests
  /\ MaxAttempts \in Nat \ {0} /\ MaxDeliveries \in Nat /\ MaxMishaps \in Nat
  /\ Mishaps \subseteq {"fault", "crash"}

VARIABLES
  kind,
  paid,        \* external: the gateway has the money
  row,         \* the row in funding_transactions: status and verified
  history,     \* transactions holds a row for the reference
  credits,     \* the idempotency keys of the wallet credits posted for the payment
  hook,        \* where the webhook controller is
  acked,       \* a delivery was answered with 200
  deliveries,
  at,          \* where the job and each request are
  mishaps

vars == <<kind, paid, row, history, credits, hook, acked, deliveries, at, mishaps>>
outside == <<kind, paid, hook, acked, deliveries>>

Job == "job"
Actors == {Job} \union Requests

Absent == [pc |-> "absent", made |-> 0, stalled |-> FALSE, found |-> "none", reply |-> "none"]
Waiting == [Absent EXCEPT !.pc = "waiting"]
Running == {"load", "verify", "unpaid", "create", "credit", "historyRead", "historyWrite", "mark"}

Init ==
  /\ kind \in Kinds /\ paid = FALSE
  /\ row = [status |-> "none", verified |-> FALSE]
  /\ history = FALSE /\ credits = {}
  /\ hook = "idle" /\ acked = FALSE /\ deliveries = 0
  /\ at = [a \in Actors |-> IF a = Job THEN Absent ELSE Waiting] /\ mishaps = 0

Mishap(what) == what \in Mishaps /\ mishaps < MaxMishaps /\ mishaps' = mishaps + 1

-----------------------------------------------------------------------------
\* The customer and the gateway.

\* POST /wallet/fund/initialize writes the row before the gateway is asked.
Initialize ==
  /\ kind = "checkout" /\ row.status = "none"
  /\ row' = [row EXCEPT !.status = "pending"]
  /\ UNCHANGED <<history, credits, at, mishaps, outside>>

Pay ==
  /\ ~paid /\ (kind = "checkout" => row.status # "none")
  /\ paid' = TRUE
  /\ UNCHANGED <<kind, row, history, credits, hook, acked, deliveries, at, mishaps>>

\* The gateway sends the webhook, and may send it again whatever it was answered.
Deliver ==
  /\ paid /\ hook = "idle" /\ deliveries < MaxDeliveries
  /\ hook' = "store" /\ deliveries' = deliveries + 1
  /\ UNCHANGED <<kind, paid, row, history, credits, acked, at, mishaps>>

-----------------------------------------------------------------------------
\* The webhook controller.  The stored event is an audit trail no code acts on.

StoreWebhookEvent ==
  /\ hook = "store" /\ hook' = "add"
  /\ UNCHANGED <<kind, paid, row, history, credits, acked, deliveries, at, mishaps>>

\* The reference is the job's id: a job of that id which is waiting, running or
\* still kept after its end makes this one a no-op.
AddWebhookJob ==
  /\ hook = "add" /\ hook' = "idle" /\ acked' = TRUE
  /\ at' = IF at[Job].pc = "absent" THEN [at EXCEPT ![Job] = Waiting] ELSE at
  /\ UNCHANGED <<kind, paid, row, history, credits, deliveries, mishaps>>

WebhookFails ==
  /\ hook # "idle" /\ hook' = "idle" /\ (Mishap("fault") \/ Mishap("crash"))
  /\ UNCHANGED <<kind, paid, row, history, credits, acked, deliveries, at>>

\* removeOnComplete and removeOnFail: other jobs push the finished one out.
Forget ==
  /\ at[Job].pc \in {"done", "dead"}
  /\ at' = [at EXCEPT ![Job] = Absent]
  /\ UNCHANGED <<row, history, credits, mishaps, outside>>

-----------------------------------------------------------------------------
\* The webhook job and the verify requests, which share their steps.

Goto(a, pc) == at' = [at EXCEPT ![a].pc = pc]
Finish(a, reply) == at' = [at EXCEPT ![a].pc = "done", ![a].reply = reply]

BugRetries(made) == FALSE
Retries(made) == made < MaxAttempts

\* A rejection: the job's attempt is counted; a request that fails after the
\* gateway's confirmation is answered "pending", before it with an error.
Rejected(a) ==
  LET made == at[a].made + 1 IN
  IF a # Job
  THEN [at[a] EXCEPT !.pc = "done",
          !.reply = IF at[a].pc \in {"credit", "historyRead", "historyWrite", "mark"}
                    THEN "pending" ELSE "error"]
  ELSE IF Retries(made) THEN [Waiting EXCEPT !.made = made, !.stalled = at[a].stalled]
  ELSE [Absent EXCEPT !.pc = "dead"]
Reject(a) == at' = [at EXCEPT ![a] = Rejected(a)]

\* A worker takes the job, a handler the request.
Start(a) ==
  /\ at[a].pc = "waiting" /\ Goto(a, "load")
  /\ UNCHANGED <<row, history, credits, mishaps, outside>>

\* Where an unverified row leads.  A checkout is confirmed with the gateway; the
\* job trusts the webhook of a transfer, whose row it makes, for a known customer.
AfterLoad(a) ==
  CASE a # Job \/ kind = "checkout" -> IF row.status = "none" THEN "done" ELSE "verify"
    [] a = Job /\ kind = "stray" -> "done"
    [] OTHER -> IF row.status = "none" THEN "create" ELSE "credit"

Verified == row.verified

Load(a) ==
  /\ at[a].pc = "load"
  /\ IF Verified THEN Finish(a, "success") ELSE Goto(a, AfterLoad(a))
  /\ UNCHANGED <<row, history, credits, mishaps, outside>>

BugUnpaid == {"pending", "abandoned"}
\* What becomes of the gateway's word for a payment that has not come, which may
\* be "pending", "failed" or "abandoned".
Unpaid == {"failed", "abandoned"}

Verify(a) ==
  /\ at[a].pc = "verify"
  /\ \/ paid /\ Goto(a, "credit")
     \/ ~paid /\ \E status \in Unpaid :
                   at' = [at EXCEPT ![a].pc = "unpaid", ![a].found = status]
  /\ UNCHANGED <<row, history, credits, mishaps, outside>>

WriteUnpaid(a) ==
  /\ at[a].pc = "unpaid"
  /\ row' = [row EXCEPT !.status = at[a].found]
  /\ Finish(a, "failed")
  /\ UNCHANGED <<history, credits, mishaps, outside>>

CreateFundingTransaction(a) ==
  /\ at[a].pc = "create"
  /\ IF row.status = "none"
     THEN row' = [status |-> "pending", verified |-> FALSE] /\ Goto(a, "credit")
     ELSE UNCHANGED row /\ Reject(a)         \* funding_transactions.reference is unique
  /\ UNCHANGED <<history, credits, mishaps, outside>>

BugCreditKey(a) == <<"credit", a>>
\* `${gateway}_credit_${reference}`, whoever credits.
CreditKey(a) == <<"credit">>

BugAfterCredit == "mark"
AfterCredit == "historyRead"

\* WalletService.credit (see WalletLedger).
Credit(a) ==
  /\ at[a].pc = "credit"
  /\ credits' = credits \union {CreditKey(a)} /\ Goto(a, AfterCredit)
  /\ UNCHANGED <<row, history, mishaps, outside>>

\* A failed read counts as not found.
HistoryRead(a) ==
  /\ at[a].pc = "historyRead"
  /\ \/ Goto(a, IF history THEN "mark" ELSE "historyWrite") /\ UNCHANGED mishaps
     \/ Mishap("fault") /\ Goto(a, "historyWrite")
  /\ UNCHANGED <<row, history, credits, outside>>

\* transactions.reference is unique: the second insert rejects.
HistoryWrite(a) ==
  /\ at[a].pc = "historyWrite"
  /\ history' = TRUE
  /\ IF history THEN Reject(a) ELSE Goto(a, "mark")
  /\ UNCHANGED <<row, credits, mishaps, outside>>

MarkVerified(a) ==
  /\ at[a].pc = "mark"
  /\ row' = [status |-> "successful", verified |-> TRUE] /\ Finish(a, "success")
  /\ UNCHANGED <<history, credits, mishaps, outside>>

\* Any other call rejects.
CallFails(a) ==
  /\ at[a].pc \in Running \ {"historyRead"} /\ Mishap("fault") /\ Reject(a)
  /\ UNCHANGED <<row, history, credits, outside>>

\* A process dies.  BullMQ queues a job whose lock expired once more, and fails it
\* the second time; a request is simply lost.
ProcessDies(a) ==
  /\ at[a].pc \in Running /\ Mishap("crash")
  /\ at' = [at EXCEPT ![a] =
       IF a # Job THEN [at[a] EXCEPT !.pc = "done", !.reply = "error"]
       ELSE IF at[a].stalled THEN [Absent EXCEPT !.pc = "dead"]
       ELSE [Waiting EXCEPT !.made = at[a].made, !.stalled = TRUE]]
  /\ UNCHANGED <<row, history, credits, outside>>

Step(a) ==
  \/ Start(a) \/ Load(a) \/ Verify(a) \/ WriteUnpaid(a) \/ CreateFundingTransaction(a)
  \/ Credit(a) \/ HistoryRead(a) \/ HistoryWrite(a) \/ MarkVerified(a)

Webhook == StoreWebhookEvent \/ AddWebhookJob

Next ==
  \/ Initialize \/ Pay \/ Deliver \/ Webhook \/ WebhookFails \/ Forget
  \/ \E a \in Actors : Step(a) \/ CallFails(a) \/ ProcessDies(a)

Spec == Init /\ [][Next]_vars

\* The gateway repeats a webhook until it is acknowledged, the controller and the
\* worker go on with what they began: a process that consumes the gateway's queue
\* runs.  No customer has to ask or to pay.
FairSpec ==
  /\ Spec /\ WF_vars(Deliver /\ ~acked) /\ WF_vars(Webhook) /\ WF_vars(Step(Job))

-----------------------------------------------------------------------------
States == [pc : Running \union {"absent", "waiting", "done", "dead"},
           made : 0..(MaxAttempts - 1), stalled : BOOLEAN, found : {"none", "failed", "abandoned"},
           reply : {"none", "success", "failed", "pending", "error"}]

\* Every variable keeps its type; the attempts of a job stay within their limit.
FTypeOK ==
  /\ kind \in Kinds /\ {paid, history, acked} \subseteq BOOLEAN
  /\ row \in [status : {"none", "pending", "successful", "failed", "abandoned"},
              verified : BOOLEAN]
  /\ credits \subseteq {CreditKey(a) : a \in Actors}
  /\ hook \in {"idle", "store", "add"} /\ deliveries \in 0..MaxDeliveries
  /\ at \in [Actors -> States]
  /\ mishaps \in 0..MaxMishaps

\* However many jobs and requests race, the wallet is credited once, for a
\* payment that was made to an account we know.
FundedOnce == Cardinality(credits) <= 1 /\ (credits # {} => paid /\ kind # "stray")

\* The flag that ends all further handling is set after everything it stands for.
VerifiedIsFunded == row.verified => credits # {} /\ history

\* A customer who is told "success" has the money.
SuccessIsFunded == \A r \in Requests : at[r].reply = "success" => credits # {} /\ history

\* Both: neither the row nor a reply speaks of money that did not arrive.
FundingIsTrue == VerifiedIsFunded /\ SuccessIsFunded

\* A payment made is credited and marked, whatever one mishap hits, also when no
\* customer asks, and also when an earlier answer had marked its row as failed.
PaidIsFunded == (paid /\ kind # "stray") ~> (credits # {} /\ history /\ row.verified)
=============================================================================
