------------------------ MODULE NotificationDelivery ------------------------
(* One in-app broadcast: its row in notification_jobs, the queue jobs that     *)
(* deliver it and the notifications they write, five hundred recipients to an  *)
(* insert.  A queue job is repeated by BullMQ when it fails, and an            *)
(* administrator may add another one for the same row at any time, so several  *)
(* may deliver at once; none of them knows which recipients have been served.  *)
EXTENDS Naturals

CONSTANTS
  QueueJobs,        \* the queue jobs that may be added for the row
  LastBatch,        \* the number of inserts that serve every active user
  AttemptsPerJob,   \* defaultJobOptions.attempts
  MaxRetries        \* notification_jobs.max_retries

ASSUME DeliveryAssumption ==
  /\ LastBatch \in Nat /\ AttemptsPerJob \in Nat \ {0} /\ MaxRetries \in Nat

VARIABLES
  notice,           \* the row: status ("none" before and after it exists) and retry_count,
                    \* which is counted up to MaxRetries, all that is asked of it
  worker,           \* where each queue job is
  received,         \* external: the notifications written for a batch, counted to two
  disturbed         \* ghost: an attempt failed or died, or an administrator asked for a retry

deliveryVars == <<notice, worker, received, disturbed>>

Unused == [pc |-> "unused", made |-> 0, batch |-> 1, stalled |-> FALSE]
Queued == [Unused EXCEPT !.pc = "waiting"]

DeliveryInit ==
  /\ notice = [status |-> "none", retries |-> 0]
  /\ worker = [q \in QueueJobs |-> Unused]
  /\ received = [b \in 1..LastBatch |-> 0]
  /\ disturbed = FALSE

Unstarted == \A q \in QueueJobs : worker[q].pc = "unused"

\* enqueue; its error is swallowed, and then nothing is queued.
EnqueueNotice ==
  \/ \E q \in QueueJobs : worker[q].pc = "unused" /\ worker' = [worker EXCEPT ![q] = Queued]
  \/ UNCHANGED worker

CreateNotificationJob ==
  /\ notice.status = "none" /\ Unstarted
  /\ notice' = [status |-> "pending", retries |-> 0]
  /\ EnqueueNotice
  /\ UNCHANGED <<received, disturbed>>

DeleteNotificationJob ==
  /\ notice.status # "none" /\ notice' = [notice EXCEPT !.status = "none"]
  /\ UNCHANGED <<worker, received, disturbed>>

\* Also for a row whose queue job waits, for its time or for its next attempt.
RetryNotificationJob ==
  /\ notice.status \in {"pending", "failed"} /\ notice.retries < MaxRetries
  /\ notice' = [notice EXCEPT !.status = "pending"]
  /\ EnqueueNotice /\ disturbed' = TRUE
  /\ UNCHANGED received

-----------------------------------------------------------------------------
\* The worker.

\* An attempt rejects: BullMQ repeats the job while it has attempts.
Again(q) ==
  worker' = [worker EXCEPT ![q] =
    IF worker[q].made + 1 < AttemptsPerJob
    THEN [Queued EXCEPT !.made = worker[q].made + 1, !.stalled = worker[q].stalled]
    ELSE [Unused EXCEPT !.pc = "done"]]

Skipped(status) == status = "sent"

LoadNotice(q) ==
  /\ worker[q].pc = "waiting"
  /\ \/ notice.status = "none" /\ Again(q) /\ disturbed' = TRUE     \* not found
     \/ Skipped(notice.status) /\ worker' = [worker EXCEPT ![q] = [Unused EXCEPT !.pc = "done"]]
        /\ UNCHANGED disturbed
     \/ notice.status # "none" /\ ~Skipped(notice.status)
        /\ worker' = [worker EXCEPT ![q].pc = "mark"] /\ UNCHANGED disturbed
  /\ UNCHANGED <<notice, received>>

\* Writes to a row: without effect when it has been deleted.
Write(status, retries) ==
  notice' = IF notice.status = "none" THEN notice ELSE [status |-> status, retries |-> retries]

MarkProcessing(q) ==
  /\ worker[q].pc = "mark"
  /\ Write("processing", IF notice.retries < MaxRetries THEN notice.retries + 1 ELSE MaxRetries)
  /\ worker' = [worker EXCEPT ![q].pc = "deliver"]
  /\ UNCHANGED <<received, disturbed>>

BugFollowing(b) == b + 2
\* i += BATCH
Following(b) == b + 1

DeliverBatch(q) ==
  LET b == worker[q].batch IN
  /\ worker[q].pc = "deliver" /\ b \in 1..LastBatch
  /\ received' = [received EXCEPT ![b] = IF received[b] < 2 THEN received[b] + 1 ELSE 2]
  /\ worker' = [worker EXCEPT ![q].batch = Following(b)]
  /\ UNCHANGED <<notice, disturbed>>

MarkSent(q) ==
  /\ worker[q].pc = "deliver" /\ worker[q].batch > LastBatch
  /\ Write("sent", notice.retries)
  /\ worker' = [worker EXCEPT ![q] = [Unused EXCEPT !.pc = "done"]]
  /\ UNCHANGED <<received, disturbed>>

\* A statement rejects; from the fan-out on the row becomes failed, whatever it is.
DeliveryFails(q) ==
  /\ worker[q].pc \in {"waiting", "mark", "deliver"} /\ Again(q) /\ disturbed' = TRUE
  /\ IF worker[q].pc = "deliver" THEN Write("failed", notice.retries) ELSE UNCHANGED notice
  /\ UNCHANGED received

\* The process dies: the job is queued once more, and fails the second time.
WorkerDies(q) ==
  /\ worker[q].pc \in {"mark", "deliver"} /\ disturbed' = TRUE
  /\ worker' = [worker EXCEPT ![q] =
       IF worker[q].stalled THEN [Unused EXCEPT !.pc = "done"]
       ELSE [Queued EXCEPT !.made = worker[q].made, !.stalled = TRUE]]
  /\ UNCHANGED <<notice, received>>

DeliveryNext ==
  \/ CreateNotificationJob \/ DeleteNotificationJob \/ RetryNotificationJob
  \/ \E q \in QueueJobs :
       \/ LoadNotice(q) \/ MarkProcessing(q) \/ DeliverBatch(q) \/ MarkSent(q)
       \/ DeliveryFails(q) \/ WorkerDies(q)

DeliverySpec == DeliveryInit /\ [][DeliveryNext]_deliveryVars

-----------------------------------------------------------------------------
JobStates == [pc : {"unused", "waiting", "mark", "deliver", "done"},
              made : 0..(AttemptsPerJob - 1), batch : 1..(LastBatch + 1), stalled : BOOLEAN]

\* Row, queue jobs and notifications keep their types.
DeliveryTypeOK ==
  /\ notice \in [status : {"none", "pending", "processing", "sent", "failed"},
                 retries : 0..MaxRetries]
  /\ worker \in [QueueJobs -> JobStates]
  /\ received \in [1..LastBatch -> 0..2] /\ disturbed \in BOOLEAN

\* A broadcast shown as sent was written for every recipient, however often its
\* delivery broke off and whoever delivered it; and while nothing has failed and
\* nobody asked for a retry, for none of them twice.
SentToAll ==
  /\ notice.status = "sent" => \A b \in 1..LastBatch : received[b] >= 1
  /\ ~disturbed => \A b \in 1..LastBatch : received[b] <= 1
=============================================================================
