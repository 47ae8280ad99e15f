---------------------------- MODULE PurchaseSaga ----------------------------
(* One purchase, from the API call that takes the money to the status the      *)
(* customer sees: the controller (debit, transaction row, queue), the BullMQ   *)
(* worker that runs the provider execution engine, the verification worker     *)
(* that polls a provider which answered "processing", and the handler of jobs  *)
(* that failed for good.  Every await of the code is a step of its own, so     *)
(* jobs of one reference interleave at any of them; a step may throw (a        *)
(* database or queue error) and the worker process may die between two steps.  *)
EXTENDS Naturals, Sequences, FiniteSets

CONSTANTS
  Route,        \* the providers the routing resolves to, in order (a sequence without repeats)
  Services,     \* the services bought: "vtu" (vtu-purchase worker), "airtime" (airtime worker)
  Slots,        \* bound: jobs and detached engine executions that exist at one time
  MaxAttempts,  \* attempts of a queued job (defaultJobOptions)
  MaxPolls,     \* polls of a pending purchase (MAX_ATTEMPTS of the verify worker)
  Eligible,     \* the sets of providers that may be usable when an execution resolves them
  Answers,      \* the answers each provider may give in this instance
  Dedupe,       \* the providers that treat the reference as an idempotency key
  LostByReference, \* the providers whose query by our reference may miss the order (VTpass)
  LostByOrderId,   \* ... whose query by the id they gave it may (VTpass, ClubKonnect)
  Mishaps,      \* what may go wrong: "fault" (a database or queue error), "crash" (of a process)
  MaxMishaps,   \* bound: mishaps in a behaviour
  NoProvider

Providers == {Route[i] : i \in DOMAIN Route}
KnownAnswers == {"ok", "pending", "timeout", "error", "invalid", "blank"}

ASSUME RouteAssumption ==
  /\ Route \in Seq(Providers) /\ NoProvider \notin Providers
  /\ \A i, j \in DOMAIN Route : Route[i] = Route[j] => i = j
ASSUME SettingsAssumption ==
  /\ Services \subseteq {"vtu", "airtime"} /\ Services # {}
  /\ Answers \in [Providers -> SUBSET KnownAnswers]
  /\ Eligible \subseteq SUBSET Providers /\ Dedupe \subseteq Providers
  /\ LostByReference \subseteq Providers /\ LostByOrderId \subseteq Providers
  /\ MaxAttempts \in Nat \ {0} /\ MaxPolls \in Nat \ {0}
  /\ Mishaps \subseteq {"fault", "crash"} /\ MaxMishaps \in Nat

VARIABLES
  service,   \* the service bought, which says which worker takes the job
  api,       \* where the controller is
  tx,        \* the row of the reference in transactions: status and provider
  ledger,    \* the batches the ledger holds for this purchase
  attempts,  \* provider_attempts of the reference, in order: provider and classification
  orders,    \* external: what each provider made of the calls it received
  proc,      \* the jobs (waiting or running) and the executions a timeout detached
  deadLetter, \* failed_jobs holds a job of this purchase
  mishaps,   \* how many faults and crashes there were
  misread    \* history, which no step reads: the providers of whose order an adapter said
             \* "failed" when the provider had not refused it

kept == <<service, deadLetter, mishaps, misread>>
vars == <<api, tx, ledger, attempts, orders, proc, kept>>

Final  == {"successful", "failed"}
Status == {"none", "pending", "processing", "requires_review"} \union Final

Free == [kind |-> "free", pc |-> "free", made |-> 0, stalled |-> FALSE, detached |-> FALSE,
         polls |-> 0, at |-> NoProvider, cands |-> <<>>, unsure |-> FALSE, answer |-> "none",
         max |-> 0]

\* A job as the queue holds it before a worker takes it.
PurchaseJob(max) == [Free EXCEPT !.kind = "purchase", !.pc = "waiting", !.max = max]
VerifyJob(p, polls) ==
  [Free EXCEPT !.kind = "verify", !.pc = "waiting", !.max = MaxAttempts, !.at = p, !.polls = polls]

\* The steps of an execution that run inside the engine.
EnginePc == {"findSuccess", "replayRead", "replayWrite", "resolve", "call", "record", "succeed",
             "pend", "enqueue", "review", "refund", "fail", "complete"}
\* The awaits whose rejection leaves the processor, and those caught on the spot.
Throwing == {"load", "mark", "findSuccess", "replayWrite", "resolve", "succeed", "pend",
             "enqueue", "review", "fail", "netWrite", "verifySucceed", "requeue",
             "verifyReview", "verifyFail"}
CaughtReads == {"replayRead", "netRead", "timeoutRead", "deadRead", "verifyLoad"}

Init ==
  /\ api = "debit" /\ ledger = {} /\ attempts = <<>>
  /\ tx = [status |-> "none", provider |-> NoProvider]
  /\ orders = [p \in Providers |-> <<>>]
  /\ proc = [s \in Slots |-> Free]
  /\ service \in Services /\ deadLetter = FALSE
  /\ mishaps = [fault |-> 0, crash |-> 0] /\ misread = {}

-----------------------------------------------------------------------------
\* Faulty variants named Bug... are the mutations the checks are tried against.
BugRefundKey(s) == <<"refund", proc[s].made>>
\* WalletService.transfer under an idempotency key (see WalletLedger).
RefundKey(s) == <<"refund">>
Post(key, kind) ==
  ledger' = IF \E b \in ledger : b.key = key THEN ledger
            ELSE ledger \union {[key |-> key, kind |-> kind]}

SetStatus(status) == tx' = [tx EXCEPT !.status = status]
SetOutcome(status, p) == tx' = [status |-> status, provider |-> p]

Goto(s, pc) == proc' = [proc EXCEPT ![s].pc = pc]

\* The job slot s leaves the queue.
Finish(s) == proc' = [proc EXCEPT ![s] = Free]

\* A job goes back to the queue as it was added, with its counters.
Requeued(p) == [Free EXCEPT !.kind = p.kind, !.pc = "waiting", !.made = p.made, !.max = p.max,
                            !.stalled = p.stalled, !.at = p.at, !.polls = p.polls]

\* The processor of s rejects: BullMQ counts the attempt and either queues the
\* job again or fails it for good.  Only the purchase workers have a handler
\* for that.  A detached execution rejects into the settled Promise.race.
Rejected(p) ==
  LET counted == [p EXCEPT !.made = p.made + 1] IN
  IF p.detached THEN Free
  ELSE IF counted.made < p.max THEN Requeued(counted)
  ELSE IF p.kind = "purchase" THEN [Requeued(counted) EXCEPT !.pc = "deadRecord"]
  ELSE Free
Throw(s) == proc' = [proc EXCEPT ![s] = Rejected(proc[s])]

\* One of the things that may go wrong in this instance.
MishapCount == mishaps.fault + mishaps.crash
Mishap(kind) ==
  /\ kind \in Mishaps /\ MishapCount < MaxMishaps
  /\ mishaps' = [mishaps EXCEPT ![kind] = mishaps[kind] + 1]

FreeSlots == {t \in Slots : proc[t] = Free}
FreeSlot == CHOOSE t \in Slots : proc[t] = Free

-----------------------------------------------------------------------------
\* The API process: POST /purchase.

Debit ==
  /\ api = "debit"
  /\ \/ Post(<<"debit">>, "debit") /\ api' = "row"
     \/ api' = "refused" /\ UNCHANGED ledger      \* overdraft, wallet locked
  /\ UNCHANGED <<tx, attempts, orders, proc, kept>>

CreateTransaction ==
  /\ api = "row" /\ api' = "add"
  /\ SetStatus("pending")
  /\ UNCHANGED <<ledger, attempts, orders, proc, kept>>

AddJob ==
  /\ api = "add" /\ api' = "done"
  /\ FreeSlots # {}
  /\ proc' = [proc EXCEPT ![FreeSlot] = PurchaseJob(MaxAttempts)]
  /\ UNCHANGED <<tx, ledger, attempts, orders, kept>>

\* createTransaction or queue.add rejects, or the API process dies there.
RequestLost ==
  /\ api \in {"row", "add"} /\ (Mishap("fault") \/ Mishap("crash"))
  /\ api' = "lost"
  /\ UNCHANGED <<service, deadLetter, misread, tx, ledger, attempts, orders, proc>>

-----------------------------------------------------------------------------
\* The purchase workers, up to the engine.

\* A worker takes a waiting job.
Start(s) ==
  /\ proc[s].pc = "waiting"
  /\ Goto(s, IF proc[s].kind = "verify" THEN "verifyLoad" ELSE "load")
  /\ UNCHANGED <<api, tx, ledger, attempts, orders, kept>>

BugSkippable == {"failed"}
Skippable == Final

LoadTransaction(s) ==
  /\ proc[s].pc = "load"
  /\ \/ tx.status = "none" /\ Throw(s)
     \/ tx.status \in Skippable /\ Finish(s)
     \/ tx.status \notin Skippable \union {"none"} /\ Goto(s, "mark")
  /\ UNCHANGED <<api, tx, ledger, attempts, orders, kept>>

MarkProcessing(s) ==
  /\ proc[s].pc = "mark"
  /\ SetStatus("processing") /\ Goto(s, "findSuccess")
  /\ UNCHANGED <<api, ledger, attempts, orders, kept>>

-----------------------------------------------------------------------------
\* ProviderExecutionEngine.executeWithFailover.

Attempts == {attempts[i] : i \in DOMAIN attempts}
SuccessfulAttempt == \E a \in Attempts : a.class = "SUCCESS"
BugFailedClass == {"PROVIDER_ERROR", "VALIDATION_ERROR"}
\* The SQL condition error_classification <> 'PENDING' does not hold of a NULL,
\* so a failure without a message ("NULL") is not among the failed attempts.
FailedClass == {"TIMEOUT", "PROVIDER_ERROR", "VALIDATION_ERROR"}
FailedCodes == {a.provider : a \in {b \in Attempts : b.class \in FailedClass}}

BugAfterFindSuccess == IF SuccessfulAttempt THEN "complete" ELSE "resolve"
AfterFindSuccess == IF SuccessfulAttempt THEN "replayRead" ELSE "resolve"

FindSuccess(s) ==
  /\ proc[s].pc = "findSuccess" /\ Goto(s, AfterFindSuccess)
  /\ UNCHANGED <<api, tx, ledger, attempts, orders, kept>>

ReplayRead(s) ==
  /\ proc[s].pc = "replayRead"
  /\ Goto(s, IF tx.status \in Final THEN "complete" ELSE "replayWrite")
  /\ UNCHANGED <<api, tx, ledger, attempts, orders, kept>>

ReplayWrite(s) ==
  /\ proc[s].pc = "replayWrite"
  /\ \E a \in Attempts : a.class = "SUCCESS" /\ SetOutcome("successful", a.provider)
  /\ Goto(s, "complete")
  /\ UNCHANGED <<api, ledger, attempts, orders, kept>>

\* The candidates are the routed providers that were not tried before and that
\* the configuration, the circuit breaker, the registry and the plan mapping let
\* through, in the order of the route.
CandidateLists == UNION {[1..n -> Providers] : n \in 0..Len(Route)}
InRouteOrder(list) ==
  \A i, j \in DOMAIN list : i < j =>
    \E k, l \in DOMAIN Route : k < l /\ list[i] = Route[k] /\ list[j] = Route[l]
Candidates(usable) ==
  {list \in CandidateLists : {list[i] : i \in DOMAIN list} = usable /\ InRouteOrder(list)}

\* A provider tried before makes the outcome ambiguous.
Resolve(s) ==
  /\ proc[s].pc = "resolve"
  /\ \E eligible \in Eligible : \E cands \in Candidates(eligible \ FailedCodes) :
       LET unsure == FailedCodes # {} IN
       proc' = [proc EXCEPT ![s].cands = cands, ![s].unsure = unsure,
                  ![s].pc = IF cands # <<>> THEN "call"
                            ELSE IF unsure THEN "review" ELSE "refund"]
  /\ UNCHANGED <<api, tx, ledger, attempts, orders, kept>>

\* What the order may be when the adapter has given its answer.  "ok" is an order
\* that was delivered, "pending" and "timeout" leave one whose fate is open.  The
\* other answers are failures the adapter takes for definite: it says so of an
\* order that was refused, and just as well of a 5xx or a body that is no JSON,
\* behind which there may be an order.
Fates(a) == CASE a = "ok" -> {"delivered"} [] a \in {"pending", "timeout"} -> {"open"}
              [] OTHER -> {"rejected", "open", "delivered"}
Again(fate) == CASE fate = "delivered" -> "ok" [] fate = "open" -> "pending" [] OTHER -> "error"

\* Every attempt sends the same reference.  External: a provider in Dedupe answers
\* one it has seen with the state of the order it holds.
Seen(p) == p \in Dedupe /\ orders[p] # <<>>

MisreadAnswer(p, a, fate) ==
  misread' = IF a \notin {"ok", "pending", "timeout"} /\ fate # "rejected" THEN misread \union {p} ELSE misread

Call(s) ==
  /\ proc[s].pc = "call"
  /\ LET p == Head(proc[s].cands) IN
       \/ /\ Seen(p)
          /\ proc' = [proc EXCEPT ![s].pc = "record", ![s].answer = Again(orders[p][1])]
          /\ UNCHANGED <<orders, misread>>
       \/ /\ ~Seen(p)
          /\ \E a \in Answers[p] : \E fate \in Fates(a) :
               /\ proc' = [proc EXCEPT ![s].pc = "record", ![s].answer = a]
               /\ orders' = [orders EXCEPT ![p] = Append(@, fate)]
               /\ MisreadAnswer(p, a, fate)
  /\ UNCHANGED <<api, tx, ledger, attempts, service, deadLetter, mishaps>>

\* External: an order whose fate is open is delivered or refused.
Settle(p, i) ==
  /\ orders[p][i] = "open"
  /\ \E fate \in {"delivered", "rejected"} : orders' = [orders EXCEPT ![p][i] = fate]
  /\ UNCHANGED <<api, tx, ledger, attempts, proc, kept>>

Class(a) == CASE a = "ok" -> "SUCCESS" [] a = "pending" -> "PENDING" [] a = "timeout" -> "TIMEOUT"
              [] a = "invalid" -> "VALIDATION_ERROR" [] a = "blank" -> "NULL" [] OTHER -> "PROVIDER_ERROR"

BugAmbiguous(a) == FALSE
\* TIMEOUT also stands for NETWORK_ERROR: an outcome the provider never confirmed.
Ambiguous(a) == Class(a) = "TIMEOUT"

\* After an answer: finish, wait for the verification worker, or go on with the
\* next candidate; the last one, or an input no provider accepts, ends the loop.
Outcome(p, unsure) ==
  CASE p.answer = "ok" -> [p EXCEPT !.pc = "succeed"]
    [] p.answer = "pending" -> [p EXCEPT !.pc = "pend"]
    [] p.answer \notin {"ok", "pending"} /\ (p.answer = "invalid" \/ Tail(p.cands) = <<>>) ->
         [p EXCEPT !.pc = IF unsure THEN "review" ELSE "refund"]
    [] OTHER -> [p EXCEPT !.pc = "call", !.cands = Tail(p.cands), !.unsure = unsure, !.answer = "none"]
BugLastAnswerDecides(p) == Outcome(p, Ambiguous(p.answer))
BugPendingIsFailure(p) ==
  Outcome(IF p.answer = "pending" THEN [p EXCEPT !.answer = "error"] ELSE p, p.unsure)
Decide(p) == Outcome(p, p.unsure \/ Ambiguous(p.answer))

\* recordProviderAttempt, whose error is logged and ignored, and the decision.
RecordAttempt(s) ==
  /\ proc[s].pc = "record"
  /\ \/ /\ attempts' = Append(attempts, [provider |-> Head(proc[s].cands),
                                          class |-> Class(proc[s].answer)])
        /\ UNCHANGED mishaps
     \/ Mishap("fault") /\ UNCHANGED attempts
  /\ proc' = [proc EXCEPT ![s] = Decide(proc[s])]
  /\ UNCHANGED <<service, deadLetter, misread, api, tx, ledger, orders>>

HandleSuccess(s) ==
  /\ proc[s].pc = "succeed"
  /\ SetOutcome("successful", Head(proc[s].cands)) /\ Goto(s, "complete")
  /\ UNCHANGED <<api, ledger, attempts, orders, kept>>

HandlePending(s) ==
  /\ proc[s].pc = "pend"
  /\ SetOutcome("processing", Head(proc[s].cands)) /\ Goto(s, "enqueue")
  /\ UNCHANGED <<api, ledger, attempts, orders, kept>>

EnqueueVerify(s) ==
  /\ proc[s].pc = "enqueue" /\ FreeSlots # {}
  /\ proc' = [proc EXCEPT ![s].pc = "complete",
                          ![FreeSlot] = VerifyJob(Head(proc[s].cands), 0)]
  /\ UNCHANGED <<api, tx, ledger, attempts, orders, kept>>

BugReviewRefunds(s) ==
  /\ proc[s].pc = "review"
  /\ SetStatus("requires_review") /\ Post(RefundKey(s), "refund") /\ Goto(s, "complete")
  /\ UNCHANGED <<api, attempts, orders, kept>>
HandleRequiresReview(s) ==
  /\ proc[s].pc = "review"
  /\ SetStatus("requires_review") /\ Goto(s, "complete")
  /\ UNCHANGED <<api, ledger, attempts, orders, kept>>

\* handleAllFailed: the refund debits the settlement wallet, whose lock another
\* transfer may hold; the error is caught and the status is written all the same.
Refund(s, next) ==
  /\ Post(RefundKey(s), "refund") \/ UNCHANGED ledger
  /\ Goto(s, next)
  /\ UNCHANGED <<api, tx, attempts, orders, kept>>

HandleAllFailed(s) == proc[s].pc = "refund" /\ Refund(s, "fail")

MarkFailed(s) ==
  /\ proc[s].pc = "fail"
  /\ SetStatus("failed") /\ Goto(s, "complete")
  /\ UNCHANGED <<api, ledger, attempts, orders, kept>>

\* The engine returns: the VTU job is done, the airtime job looks once more at a
\* purchase that is not pending.
Complete(s) ==
  /\ proc[s].pc = "complete"
  /\ IF service = "airtime" /\ ~proc[s].detached /\ proc[s].answer # "pending"
     THEN Goto(s, "netRead") ELSE Finish(s)
  /\ UNCHANGED <<api, tx, ledger, attempts, orders, kept>>

-----------------------------------------------------------------------------
\* The airtime worker around the engine.

\* A purchase left in "processing" is failed before the job completes.
SafetyNetRead(s) ==
  /\ proc[s].pc = "netRead"
  /\ IF tx.status = "processing" THEN Goto(s, "netWrite") ELSE Finish(s)
  /\ UNCHANGED <<api, tx, ledger, attempts, orders, kept>>

SafetyNetWrite(s) ==
  /\ proc[s].pc = "netWrite"
  /\ SetStatus("failed") /\ Finish(s)
  /\ UNCHANGED <<api, ledger, attempts, orders, kept>>

\* WORKER_TIMEOUT_MS passes: Promise.race rejects, and the engine runs on by itself.
Timeout(s) ==
  /\ service = "airtime" /\ proc[s].pc \in EnginePc /\ ~proc[s].detached
  /\ FreeSlots # {}
  /\ proc' = [proc EXCEPT ![FreeSlot] = [proc[s] EXCEPT !.detached = TRUE],
                          ![s] = [Requeued(proc[s]) EXCEPT !.pc = "timeoutRead"]]
  /\ UNCHANGED <<api, tx, ledger, attempts, orders, kept>>

TimeoutRead(s) ==
  /\ proc[s].pc = "timeoutRead"
  /\ IF tx.status \in Final THEN Throw(s) ELSE Goto(s, "timeoutWrite")
  /\ UNCHANGED <<api, tx, ledger, attempts, orders, kept>>

TimeoutWrite(s) ==
  /\ proc[s].pc = "timeoutWrite"
  /\ SetStatus("failed") /\ Throw(s)
  /\ UNCHANGED <<api, ledger, attempts, orders, kept>>

-----------------------------------------------------------------------------
\* The "failed" handler of the purchase workers, once the attempts are used up.

RecordFailedJob(s) ==
  /\ proc[s].pc = "deadRecord" /\ Goto(s, "deadRead")
  /\ deadLetter' = TRUE
  /\ UNCHANGED <<service, mishaps, misread, api, tx, ledger, attempts, orders>>

DeadLetterRead(s) ==
  /\ proc[s].pc = "deadRead"
  /\ IF tx.status \in Final \union {"none"} THEN Finish(s) ELSE Goto(s, "deadWrite")
  /\ UNCHANGED <<api, tx, ledger, attempts, orders, kept>>

DeadLetterWrite(s) ==
  /\ proc[s].pc = "deadWrite"
  /\ SetStatus("failed") /\ Finish(s)
  /\ UNCHANGED <<api, ledger, attempts, orders, kept>>

-----------------------------------------------------------------------------
\* The verification worker.

VerifyLoad(s) ==
  /\ proc[s].pc = "verifyLoad"
  /\ IF tx.status \in Final \union {"requires_review", "none"} THEN Finish(s)
     ELSE Goto(s, "verify")
  /\ UNCHANGED <<api, tx, ledger, attempts, orders, kept>>

\* What verifyTransaction may say of the order at p.  An order that is open, and
\* any query error or missing support, reads as pending.  One that is not found
\* reads as failed: because there is none, or because the query asks for it under
\* another id than the purchase gave it, which it may at the providers in lost.
Held(p) == {orders[p][i] : i \in DOMAIN orders[p]}
Verdicts(p, lost) ==
  {"pending"} \union (Held(p) \ {"open"})
              \union (IF Held(p) = {} \/ p \in lost THEN {"rejected"} ELSE {})

MisreadVerdict(p, verdict) ==
  misread' = IF verdict = "rejected" /\ "rejected" \notin Held(p) THEN misread \union {p} ELSE misread

LastPoll(polls) == polls + 1 >= MaxPolls

AfterPoll(verdict, polls) ==
  CASE verdict = "delivered" -> "verifySucceed"
    [] verdict = "rejected" -> "verifyRefund"
    [] verdict = "pending" /\ LastPoll(polls) -> "verifyReview"
    [] OTHER -> "requeue"

VerifyTransaction(s) ==
  /\ proc[s].pc = "verify"
  /\ \E verdict \in Verdicts(proc[s].at, LostByReference) :
       /\ Goto(s, AfterPoll(verdict, proc[s].polls))
       /\ MisreadVerdict(proc[s].at, verdict)
  /\ UNCHANGED <<api, tx, ledger, attempts, orders, service, deadLetter, mishaps>>

VerifySucceeded(s) ==
  /\ proc[s].pc = "verifySucceed"
  /\ SetOutcome("successful", proc[s].at) /\ Finish(s)
  /\ UNCHANGED <<api, ledger, attempts, orders, kept>>

BugRequeueVerify(s) ==
  /\ proc[s].pc = "requeue" /\ Finish(s)
  /\ UNCHANGED <<api, tx, ledger, attempts, orders, kept>>
\* vtuVerifyPendingQueue.add with the next attempt count; the job that adds it completes.
RequeueVerify(s) ==
  /\ proc[s].pc = "requeue"
  /\ proc' = [proc EXCEPT ![s] = VerifyJob(proc[s].at, proc[s].polls + 1)]
  /\ UNCHANGED <<api, tx, ledger, attempts, orders, kept>>

FinalizeRequiresReview(s) ==
  /\ proc[s].pc = "verifyReview"
  /\ SetStatus("requires_review") /\ Finish(s)
  /\ UNCHANGED <<api, ledger, attempts, orders, kept>>

FinalizeFailed(s) == proc[s].pc = "verifyRefund" /\ Refund(s, "verifyFail")

VerifyFailed(s) ==
  /\ proc[s].pc = "verifyFail"
  /\ SetStatus("failed") /\ Finish(s)
  /\ UNCHANGED <<api, ledger, attempts, orders, kept>>

-----------------------------------------------------------------------------
\* What goes wrong.

\* A database or queue call of s rejects; the reads caught on the spot yield null.
AfterCaughtRead(p) ==
  CASE p.pc = "replayRead" -> [p EXCEPT !.pc = "complete"]
    [] p.pc = "timeoutRead" -> Rejected(p)
    [] OTHER -> Free

CallFails(s) ==
  /\ Mishap("fault")
  /\ \/ proc[s].pc \in Throwing /\ Throw(s)
     \/ proc[s].pc \in CaughtReads /\ proc' = [proc EXCEPT ![s] = AfterCaughtRead(proc[s])]
     \/ proc[s].pc = "timeoutWrite" /\ Throw(s)
     \/ proc[s].pc \in {"deadRecord", "deadWrite"} /\ Finish(s)
  /\ UNCHANGED <<service, deadLetter, misread, api, tx, ledger, attempts, orders>>

\* The worker process dies.  BullMQ queues a job whose lock expired once more
\* (maxStalledCount), without counting an attempt; a second time it fails the job.
AfterCrash(p) ==
  IF p.pc \in {"free", "waiting"} THEN p
  ELSE IF p.detached \/ p.stalled \/ p.pc \in {"deadRecord", "deadRead", "deadWrite"} THEN Free
  ELSE [Requeued(p) EXCEPT !.stalled = TRUE]

WorkerCrash ==
  /\ Mishap("crash")
  /\ proc' = [s \in Slots |-> AfterCrash(proc[s])]
  /\ proc' # proc
  /\ UNCHANGED <<service, deadLetter, misread, api, tx, ledger, attempts, orders>>

-----------------------------------------------------------------------------
Controller == Debit \/ CreateTransaction \/ AddJob

Worker(s) ==
  \/ Start(s) \/ LoadTransaction(s) \/ MarkProcessing(s)
  \/ FindSuccess(s) \/ ReplayRead(s) \/ ReplayWrite(s) \/ Resolve(s) \/ Call(s)
  \/ RecordAttempt(s) \/ HandleSuccess(s) \/ HandlePending(s) \/ EnqueueVerify(s)
  \/ HandleRequiresReview(s) \/ HandleAllFailed(s) \/ MarkFailed(s) \/ Complete(s)
  \/ SafetyNetRead(s) \/ SafetyNetWrite(s) \/ TimeoutRead(s) \/ TimeoutWrite(s)
  \/ RecordFailedJob(s) \/ DeadLetterRead(s) \/ DeadLetterWrite(s)
  \/ VerifyLoad(s) \/ VerifyTransaction(s) \/ VerifySucceeded(s) \/ RequeueVerify(s)
  \/ FinalizeRequiresReview(s) \/ FinalizeFailed(s) \/ VerifyFailed(s)

Next ==
  \/ Controller \/ RequestLost \/ WorkerCrash
  \/ \E s \in Slots : Worker(s) \/ Timeout(s) \/ CallFails(s)
  \/ \E p \in Providers : \E i \in DOMAIN orders[p] : Settle(p, i)

Spec == Init /\ [][Next]_vars

\* A request runs to its end and a worker that is up takes jobs and finishes them;
\* nothing makes a provider settle, a clock expire or a call fail.
FairSpec == Spec /\ WF_vars(Controller) /\ \A s \in Slots : WF_vars(Worker(s))

-----------------------------------------------------------------------------
\* Properties.

Pcs == EnginePc \union {"free", "waiting", "load", "mark", "netRead", "netWrite", "timeoutRead",
         "timeoutWrite", "deadRecord", "deadRead", "deadWrite", "verifyLoad", "verify",
         "verifySucceed", "requeue", "verifyReview", "verifyRefund", "verifyFail"}
Jobs == [kind : {"free", "purchase", "verify"}, pc : Pcs, made : 0..MaxAttempts, stalled : BOOLEAN,
         detached : BOOLEAN, polls : 0..(MaxPolls - 1), at : Providers \union {NoProvider},
         cands : Seq(Providers), unsure : BOOLEAN, answer : KnownAnswers \union {"none"},
         max : 0..MaxAttempts]

\* Every variable keeps its type; a poll count stays below the limit and an
\* attempt count within it.
TypeOK ==
  /\ api \in {"debit", "row", "add", "done", "refused", "lost"}
  /\ tx \in [status : Status, provider : Providers \union {NoProvider}]
  /\ \A b \in ledger : b.kind \in {"debit", "refund"}
  /\ attempts \in Seq([provider : Providers,
                        class : FailedClass \union {"SUCCESS", "PENDING", "NULL"}])
  /\ orders \in [Providers -> Seq({"open", "delivered", "rejected"})]
  /\ proc \in [Slots -> Jobs]
  /\ service \in Services /\ deadLetter \in BOOLEAN /\ mishaps \in [fault : 0..MaxMishaps, crash : 0..MaxMishaps]
  /\ misread \subseteq Providers

Batches(kind) == {b \in ledger : b.kind = kind}
Delivered(p) == \E i \in DOMAIN orders[p] : orders[p][i] = "delivered"
Refused(p)   == \A i \in DOMAIN orders[p] : orders[p][i] = "rejected"
\* The provider refused whatever it got, or its adapter said that it had.
Declined(p)  == Refused(p) \/ p \in misread
Quiet == api = "done" /\ \A s \in Slots : proc[s] = Free

\* The customer is refunded at most once, and only what was taken, whichever of
\* the engine, its retries and the verification worker refunds.
RefundOnce == Cardinality(Batches("refund")) <= Cardinality(Batches("debit"))

\* No money goes back while some provider delivered the order, or still may, unless
\* that provider's adapter said that the order had failed: nobody refunds on a
\* timeout, on silence, or on what another provider said.
NoRefundOfDelivered == Batches("refund") # {} => \A p \in Providers : Declined(p)

\* When every job is done, the status is an end the customer can rely on as far as
\* the adapters can be: successful means that an order was delivered and is paid
\* for; failed means that every provider refused it, or was said to have refused
\* it by its adapter; nothing is left in flight.
StatusIsTrue ==
  Quiet =>
    /\ tx.status \in Final \union {"requires_review"}
    /\ tx.status = "successful" =>
         Batches("refund") = {} /\ \E p \in Providers : Delivered(p)
    /\ tx.status = "failed" => \A p \in Providers : Declined(p)

\* One mishap, wherever it strikes, strands nobody: when every job is done the
\* purchase has ended, or it is in processing at a known provider because its polling
\* broke off, where the scans go on (PickedUp).  Two may strand it (README).
NothingStuck ==
  Quiet /\ MishapCount <= 1 =>
    \/ tx.status \in Final \union {"requires_review"}
    \/ tx.status = "processing" /\ tx.provider # NoProvider

\* A provider whose delivery, refusal or timeout is on record is not asked again for
\* the same purchase, wherever the job before broke off.  (A "pending" answer or one
\* without a message is not looked at, and the engine an airtime timeout abandoned
\* records its answer while the next attempt is already past its look: README.)
NoRepeatOfRecorded ==
  \A s \in Slots, a \in Attempts :
    service = "vtu" /\ proc[s].pc = "call" /\ a.provider = Head(proc[s].cands)
      => a.class \in {"PENDING", "NULL"}

\* What the customer was told is a success stays one, also when a resumed job or
\* the dead-letter handler acts on a status it read earlier.  Two cases are excepted,
\* which the code does not keep (README): an airtime purchase, whose abandoned engine
\* may finish in between, and a success found by polling, which a purchase job that
\* crashed at its very end and is resumed may overwrite.
SuccessIsFinal ==
  [][ /\ service = "vtu" /\ tx.status = "successful"
      /\ MishapCount <= 1 /\ \A a \in Attempts : a.class # "PENDING"
      => tx'.status = "successful" ]_vars

\* A purchase whose job was queued reaches an end, through crashes too, as long as no
\* call of the database or the queue fails: a failed read ends its polling (PickedUp).
PurchaseSettles ==
  (api = "done") ~> (mishaps.fault > 0 \/ tx.status \in Final \union {"requires_review"})

\* The saga implements the customer's contract.
Contract == INSTANCE PurchaseContract WITH
  money <- IF Batches("refund") # {} THEN "refunded"
           ELSE IF Batches("debit") # {} THEN "charged" ELSE "unpaid",
  outcome <- IF tx.status \in {"pending", "processing"} THEN "open" ELSE tx.status
ImplementsContract == Contract!CSpec
=============================================================================
