-------------------------- MODULE PurchaseRecovery --------------------------
(* What looks after a purchase once its workers are done with it: the          *)
(* reconciliation worker, which queries the provider of a stale or failed       *)
(* purchase, and the administrators, who retry it, mark it failed, refund it     *)
(* or repair it.  They share the row, the ledger and the queue with the saga     *)
(* and are coordinated with it by nothing but the statuses they read.           *)
EXTENDS PurchaseSaga

CONSTANTS
  Scans,            \* reconciliation jobs that run at one time
  MaxScans,         \* reconciliation_attempts after which a purchase is left alone
  Admins,
  MaxInterventions  \* bound: operations of the administrators

ASSUME RecoveryAssumption == MaxScans \in Nat \ {0} /\ MaxInterventions \in Nat

VARIABLES
  note,   \* metadata of the row: reconciliation_attempts, reconciliation_status, refund_processed
  scan,   \* each reconciliation job, with the row as its candidate query returned it
  desk,   \* the request each administrator has made
  interventions

recovery == <<note, scan, desk, interventions>>
rvars == <<vars, recovery>>

Idle == [pc |-> "idle", status |-> "none", at |-> NoProvider, id |-> "reference", count |-> 0,
         refunded |-> FALSE, paid |-> FALSE]
NoRequest == [pc |-> "idle", at |-> NoProvider]

RInit ==
  /\ Init
  /\ note = [count |-> 0, mark |-> "open", refunded |-> FALSE]
  /\ scan = [c \in Scans |-> Idle]
  /\ desk = [a \in Admins |-> NoRequest]
  /\ interventions = 0

-----------------------------------------------------------------------------
\* runProviderReconciliation, every fifteen minutes or when an administrator asks.

BugCandidate ==
  /\ tx.status = "pending" \/ (tx.status = "failed" /\ tx.provider # NoProvider /\ ~note.refunded)
  /\ note.count < MaxScans /\ note.mark = "open"
BugEndless ==
  /\ \/ tx.status \in {"pending", "processing"}
     \/ tx.status = "failed" /\ tx.provider # NoProvider /\ ~note.refunded
  /\ note.mark = "open"
\* The candidate query: not finished, or failed at a known provider and not known
\* to be refunded.  (Its age limits, 2 minutes to 48 hours, are left open.)
Candidate ==
  /\ \/ tx.status \in {"pending", "processing"}
     \/ tx.status = "failed" /\ tx.provider # NoProvider /\ ~note.refunded
  /\ note.count < MaxScans /\ note.mark = "open"

Step(c, pc) == scan' = [scan EXCEPT ![c].pc = pc]
Leave(c) == scan' = [scan EXCEPT ![c] = Idle]
\* The attempt count is the one the candidate query saw, plus one.
Stamp(c, mark, refunded) ==
  note' = [count |-> scan[c].count + 1, mark |-> mark, refunded |-> refunded]

ScanSelect(c) ==
  /\ scan[c].pc = "idle" /\ Candidate
  /\ scan' = [scan EXCEPT ![c] =
       [pc |-> IF tx.provider = NoProvider THEN "lastAttempt" ELSE "query", status |-> tx.status,
        at |-> tx.provider, id |-> IF tx.provider = NoProvider THEN "reference" ELSE "orderId",
        count |-> note.count, refunded |-> note.refunded, paid |-> FALSE]]
  /\ UNCHANGED <<vars, note, desk, interventions>>

\* A row without a provider, and so without an id of theirs: the provider of the
\* last attempt on record.
ScanLastAttempt(c) ==
  /\ scan[c].pc = "lastAttempt"
  /\ scan' = IF attempts = <<>> THEN [scan EXCEPT ![c].pc = "stamp"]
             ELSE [scan EXCEPT ![c].pc = "query", ![c].at = attempts[Len(attempts)].provider]
  /\ UNCHANGED <<vars, note, desk, interventions>>

BugUnknownIsFailure(c, verdict) == IF verdict = "delivered" THEN "live" ELSE "refund"
\* A query that fails, or that the provider does not support, changes as little
\* as one that finds the order open.
AfterQuery(c, verdict) ==
  CASE verdict = "delivered" -> "live"
    [] verdict = "rejected" -> IF scan[c].refunded THEN "fail" ELSE "refund"
    [] OTHER -> "stamp"

\* The query asks under provider_reference, where the row has one.
Lost(id) == IF id = "orderId" THEN LostByOrderId ELSE LostByReference

ScanQuery(c) ==
  /\ scan[c].pc = "query"
  /\ \E verdict \in Verdicts(scan[c].at, Lost(scan[c].id)) :
       Step(c, AfterQuery(c, verdict)) /\ MisreadVerdict(scan[c].at, verdict)
  /\ UNCHANGED <<api, tx, ledger, attempts, orders, proc, service, deadLetter, mishaps,
                 note, desk, interventions>>

ScanStamp(c) ==
  /\ scan[c].pc = "stamp"
  /\ Stamp(c, "open", note.refunded) /\ Leave(c)
  /\ UNCHANGED <<vars, desk, interventions>>

ScanLive(c) ==
  /\ scan[c].pc = "live" /\ Step(c, IF tx.status = "successful" THEN "stampRepaired" ELSE "heal")
  /\ UNCHANGED <<vars, note, desk, interventions>>

ScanStampRepaired(c) ==
  /\ scan[c].pc = "stampRepaired"
  /\ Stamp(c, "repaired", note.refunded) /\ Leave(c)
  /\ UNCHANGED <<vars, desk, interventions>>

ScanHeal(c) ==
  /\ scan[c].pc = "heal"
  /\ SetOutcome("successful", scan[c].at)
  /\ Stamp(c, "repaired", note.refunded) /\ Leave(c)
  /\ UNCHANGED <<api, ledger, attempts, orders, proc, kept, desk, interventions>>

BugScanKey(c) == <<"refund", scan[c].count>>
\* The scan refunds under the key the engine and the verification worker use.
ScanKey(c) == <<"refund">>

ScanRefund(c) ==
  /\ scan[c].pc = "refund"
  /\ \/ Post(ScanKey(c), "refund") /\ scan' = [scan EXCEPT ![c].pc = "fail", ![c].paid = TRUE]
     \/ UNCHANGED ledger /\ Step(c, "fail")     \* settlement wallet locked
  /\ UNCHANGED <<api, tx, attempts, orders, proc, kept, note, desk, interventions>>

\* The row is failed unless the candidate query saw it failed, and is marked
\* "refunded" whether or not the refund went through.
ScanFail(c) ==
  /\ scan[c].pc = "fail"
  /\ IF scan[c].status = "failed" THEN UNCHANGED tx ELSE SetOutcome("failed", scan[c].at)
  /\ Stamp(c, "refunded", scan[c].paid) /\ Leave(c)
  /\ UNCHANGED <<api, ledger, attempts, orders, proc, kept, desk, interventions>>

\* A read or a write rejects: the scan counts an attempt, if it still can, and goes on.
ScanFails(c) ==
  /\ scan[c].pc \in {"lastAttempt", "live", "heal", "fail", "stamp", "stampRepaired"}
  /\ Mishap("fault")
  /\ Stamp(c, note.mark, note.refunded) \/ UNCHANGED note
  /\ Leave(c)
  /\ UNCHANGED <<service, deadLetter, misread, api, tx, ledger, attempts, orders, proc, desk, interventions>>

\* The process of the reconciliation worker dies; its job scans again.
ScanCrash(c) ==
  /\ scan[c].pc # "idle" /\ Mishap("crash") /\ Leave(c)
  /\ UNCHANGED <<service, deadLetter, misread, api, tx, ledger, attempts, orders, proc, note, desk,
                 interventions>>

-----------------------------------------------------------------------------
\* The administrators' requests.

Take(a, pc, p) ==
  /\ desk[a].pc = "idle" /\ interventions < MaxInterventions
  /\ desk' = [desk EXCEPT ![a] = [pc |-> pc, at |-> p]]
  /\ interventions' = interventions + 1
Close(a) == desk' = [desk EXCEPT ![a] = NoRequest]

\* POST /transactions/:reference/retry reads the status, writes "pending" and
\* queues a purchase job of one attempt.  Nothing is debited again.
RetryRead(a) ==
  /\ tx.status \in {"failed", "requires_review", "processing", "pending"}
  /\ Take(a, "retryWrite", NoProvider)
  /\ UNCHANGED <<vars, note, scan>>

RetryWrite(a) ==
  /\ desk[a].pc = "retryWrite"
  /\ SetStatus("pending") /\ desk' = [desk EXCEPT ![a].pc = "retryAdd"]
  /\ UNCHANGED <<api, ledger, attempts, orders, proc, kept, note, scan, interventions>>

RetryAdd(a) ==
  /\ desk[a].pc = "retryAdd" /\ FreeSlots # {}
  /\ proc' = [proc EXCEPT ![FreeSlot] = PurchaseJob(1)] /\ Close(a)
  /\ UNCHANGED <<api, tx, ledger, attempts, orders, kept, note, scan, interventions>>

\* retryFailedJob: the recorded payload, under a job id of its own.
RetryFailedJob(a) ==
  /\ deadLetter /\ FreeSlots # {}
  /\ desk[a].pc = "idle" /\ interventions < MaxInterventions
  /\ proc' = [proc EXCEPT ![FreeSlot] = PurchaseJob(MaxAttempts)]
  /\ interventions' = interventions + 1
  /\ UNCHANGED <<api, tx, ledger, attempts, orders, kept, note, scan, desk>>

MarkStuckRead(a) ==
  /\ tx.status \in {"processing", "pending"}
  /\ Take(a, "stuckWrite", NoProvider)
  /\ UNCHANGED <<vars, note, scan>>

MarkStuckTransactionFailed(a) ==
  /\ desk[a].pc = "stuckWrite"
  /\ SetStatus("failed") /\ Close(a)
  /\ UNCHANGED <<api, ledger, attempts, orders, proc, kept, note, scan, interventions>>

\* `manual_refund_${reference}_${adminId}`.
ManualKey(a) == <<"manual", a>>

IssueManualRefund(a) ==
  /\ tx.status # "none" /\ desk[a].pc = "idle" /\ interventions < MaxInterventions
  /\ Post(ManualKey(a), "refund")
  /\ interventions' = interventions + 1
  /\ UNCHANGED <<api, tx, attempts, orders, proc, kept, note, scan, desk>>

\* repairProviderSuccess asks the provider the administrator names about a failed
\* purchase; with a token from the provider's receipt it asks nobody.
RepairFind(a) ==
  /\ tx.status = "failed"
  /\ \E p \in Providers : Take(a, "repairVerify", p)
  /\ UNCHANGED <<vars, note, scan>>

RepairVerify(a) ==
  /\ desk[a].pc = "repairVerify"
  /\ \E verdict \in Verdicts(desk[a].at, LostByOrderId) :
       IF verdict = "delivered" THEN desk' = [desk EXCEPT ![a].pc = "repairWrite"] ELSE Close(a)
  /\ UNCHANGED <<vars, note, scan, interventions>>

RepairWithToken(a) ==
  /\ tx.status \in {"failed", "successful", "processing"}
  /\ \E p \in Providers : Take(a, "repairWrite", p)
  /\ UNCHANGED <<vars, note, scan>>

RepairProviderSuccess(a) ==
  /\ desk[a].pc = "repairWrite"
  /\ SetOutcome("successful", desk[a].at) /\ Close(a)
  /\ UNCHANGED <<api, ledger, attempts, orders, proc, kept, note, scan, interventions>>

\* The request fails, or the API process dies, between two of its steps.
RequestFails(a) ==
  /\ desk[a].pc # "idle" /\ (Mishap("fault") \/ Mishap("crash")) /\ Close(a)
  /\ UNCHANGED <<service, deadLetter, misread, api, tx, ledger, attempts, orders, proc, note, scan,
                 interventions>>

-----------------------------------------------------------------------------
Saga == Next /\ UNCHANGED recovery

Reconcile(c) ==
  \/ ScanSelect(c) \/ ScanLastAttempt(c) \/ ScanQuery(c) \/ ScanStamp(c) \/ ScanLive(c)
  \/ ScanStampRepaired(c) \/ ScanHeal(c) \/ ScanRefund(c) \/ ScanFail(c)

Intervene(a) ==
  \/ RetryRead(a) \/ RetryFailedJob(a) \/ MarkStuckRead(a) \/ IssueManualRefund(a)
  \/ RepairFind(a) \/ RepairWithToken(a)

Proceed(a) ==
  \/ RetryWrite(a) \/ RetryAdd(a) \/ MarkStuckTransactionFailed(a)
  \/ RepairVerify(a) \/ RepairProviderSuccess(a)

RNext ==
  \/ Saga
  \/ \E c \in Scans : Reconcile(c) \/ ScanFails(c) \/ ScanCrash(c)
  \/ \E a \in Admins : Intervene(a) \/ Proceed(a) \/ RequestFails(a)

RSpec == RInit /\ [][RNext]_rvars

\* The scheduler repeats the scan and the worker runs it; a request that began is
\* carried on.  Nothing makes an administrator act.
RFairSpec ==
  /\ RSpec
  /\ WF_rvars(Controller /\ UNCHANGED recovery)
  /\ \A s \in Slots : WF_rvars(Worker(s) /\ UNCHANGED recovery)
  /\ \A c \in Scans : WF_rvars(Reconcile(c))
  /\ \A a \in Admins : WF_rvars(Proceed(a))

-----------------------------------------------------------------------------
\* The metadata the scans keep and the requests in progress have their types.
RTypeOK ==
  /\ TypeOK
  /\ note \in [count : 0..MaxScans, mark : {"open", "repaired", "refunded"}, refunded : BOOLEAN]
  /\ scan \in [Scans -> [pc : {"idle", "lastAttempt", "query", "stamp", "live", "stampRepaired",
                               "heal", "refund", "fail"},
                         status : Status, at : Providers \union {NoProvider},
                         id : {"reference", "orderId"},
                         count : 0..(MaxScans - 1), refunded : BOOLEAN, paid : BOOLEAN]]
  /\ desk \in [Admins -> [pc : {"idle", "retryWrite", "retryAdd", "stuckWrite", "repairVerify",
                                "repairWrite"},
                          at : Providers \union {NoProvider}]]
  /\ interventions \in 0..MaxInterventions

AllQuiet == Quiet /\ (\A c \in Scans : scan[c] = Idle) /\ (\A a \in Admins : desk[a] = NoRequest)

\* Everything automatic -- engine, verification worker, scans, retries of any of
\* them -- pays back once between them, and each administrator once at most.
RefundsBounded ==
  Cardinality({b \in Batches("refund") : b.key[1] # "manual"}) <= 1
  /\ \A a \in Admins : Cardinality({b \in Batches("refund") : b.key[1] = "manual" /\ b.key[2] = a}) <= 1

\* With no administrator involved and one provider to ask, what the workers and
\* the scans agree on after one mishap is true as far as the adapters' answers
\* are: a successful purchase was delivered and, unless an adapter called it failed
\* before, is paid for; a failed one was refused, or called failed by an adapter;
\* and at no time is anything else paid back.
OutcomeIsTrue ==
  interventions = 0 =>
    /\ NoRefundOfDelivered
    /\ AllQuiet /\ tx.status = "successful" =>
         /\ \E p \in Providers : Delivered(p)
         /\ Batches("refund") = {} \/ misread # {}
    /\ AllQuiet /\ tx.status = "failed" => \A p \in Providers : Declined(p)

\* A purchase that the workers dropped in flight at a known provider does not stay
\* there: the scans finish it, or give up after their last attempt.
PickedUp ==
  (tx.status \in {"pending", "processing"} /\ tx.provider # NoProvider /\ note.mark = "open")
    ~> (\/ tx.status \in Final \union {"requires_review"}
        \/ note.mark # "open" \/ note.count >= MaxScans)

\* reconciliation.service.ts:772: the candidates include what is "recently failed
\* where a refund might not yet have been issued".
UnrefundedIsCandidate ==
  AllQuiet /\ tx.status = "failed" /\ Batches("refund") = {} => Candidate

\* reconciliation.service.ts:750: "We never downgrade a `successful` transaction to
\* any other status".  A step that changes the metadata is a step of a scan.
NeverDowngrades ==
  [][note' # note /\ tx.status = "successful" => tx'.status = "successful"]_rvars
=============================================================================
