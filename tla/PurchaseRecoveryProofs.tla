----------------------- MODULE PurchaseRecoveryProofs ------------------------
(* The purchase saga with the scans and the administrators, for every number of *)
(* them: the metadata keep their types and what is paid back stays bounded; and, *)
(* with one provider and nobody interfering, what the workers and the scans      *)
(* agree on is what the provider did.                                            *)
EXTENDS PurchaseRecovery, PurchaseSagaProofs

Notes == [count : 0..MaxScans, mark : {"open", "repaired", "refunded"}, refunded : BOOLEAN]
ScanRecords ==
  [pc : {"idle", "lastAttempt", "query", "stamp", "live", "stampRepaired",
         "heal", "refund", "fail"},
   status : Status, at : Providers \union {NoProvider}, id : {"reference", "orderId"},
   count : 0..(MaxScans - 1), refunded : BOOLEAN, paid : BOOLEAN]
\* A scan asks only a provider.
ScanJobs == {j \in ScanRecords : j.pc = "query" => j.at \in Providers}
Requests == [pc : {"idle", "retryWrite", "retryAdd", "stuckWrite", "repairVerify", "repairWrite"},
             at : Providers \union {NoProvider}]

Ready == TypeOK /\ JobsOK
Noted ==
  /\ note \in Notes /\ scan \in [Scans -> ScanJobs] /\ desk \in [Admins -> Requests]
  /\ interventions \in 0..MaxInterventions

LEMMA NotedParts == TypeOK /\ Noted => RTypeOK
BY DEF RTypeOK, Noted, Notes, ScanJobs, ScanRecords, Requests

-----------------------------------------------------------------------------
(* The steps of the saga, as this module takes them.                           *)

LEMMA ReadyKept == ASSUME Ready, [Next]_vars PROVE Ready'
<1>1. /\ api \in Stations /\ tx \in Row /\ \A b \in ledger : b.kind \in {"debit", "refund"}
      /\ attempts \in Seq(Record) /\ OrdersOK /\ service \in Services /\ deadLetter \in BOOLEAN
      /\ mishaps \in MishapCounts /\ misread \subseteq Providers /\ JobsOK
  BY TypeOKParts DEF Ready
<1>2. JobsOK' BY <1>1, JobsPreserved
<1>3. api' \in Stations
  BY <1>1, JobsComeFrom
     DEF Controller, Debit, CreateTransaction, AddJob, RequestLost, Stations
<1>4. \A b \in ledger' : b.kind \in {"debit", "refund"}
  BY <1>1, LedgerSteps DEF Debited, Refunded
<1>5. tx' \in Row BY <1>1, RowPreserved
<1>6. attempts' \in Seq(Record) BY <1>1, AttemptsPreserved
<1>7. OrdersOK' BY <1>1, OrdersPreserved
<1>8. /\ service' \in Services /\ deadLetter' \in BOOLEAN /\ mishaps' \in MishapCounts
      /\ misread' \subseteq Providers
  BY <1>1, CountersPreserved, MisreadGrows
<1>9. proc' \in [Slots -> Jobs] BY <1>2 DEF JobsOK
<1>10. TypeOK' BY <1>3, <1>4, <1>5, <1>6, <1>7, <1>8, <1>9
          DEF TypeOK, Stations, Row, Record, OrdersOK, OrderStates, MishapCounts
<1> QED BY <1>2, <1>10 DEF Ready

LEMMA ReadyUntouched == ASSUME Ready, UNCHANGED vars PROVE Ready'
BY ReadyKept DEF vars

\* A step that leaves all but the row, the ledger, the jobs and the mishap count alone.
LEMMA ReadyChanged ==
  ASSUME Ready, UNCHANGED <<api, attempts, orders, service, deadLetter>>,
         tx' = tx \/ tx' \in Row, UNCHANGED ledger \/ \A b \in ledger' : b.kind \in {"debit", "refund"},
         UNCHANGED proc \/ JobsOK', UNCHANGED mishaps \/ mishaps' \in MishapCounts,
         UNCHANGED misread \/ misread' \subseteq Providers
  PROVE  Ready'
<1>1. /\ api \in Stations /\ tx \in Row /\ \A b \in ledger : b.kind \in {"debit", "refund"}
      /\ attempts \in Seq(Record) /\ OrdersOK /\ service \in Services /\ deadLetter \in BOOLEAN
      /\ mishaps \in MishapCounts /\ misread \subseteq Providers /\ JobsOK
  BY TypeOKParts DEF Ready
<1>2. JobsOK' BY <1>1 DEF JobsOK
<1>3. proc' \in [Slots -> Jobs] BY <1>2 DEF JobsOK
<1>4. TypeOK' BY <1>1, <1>3 DEF TypeOK, Stations, Row, Record, OrdersOK, OrderStates, MishapCounts
<1> QED BY <1>2, <1>4 DEF Ready

LEMMA PostKinds ==
  ASSUME Ready, NEW key, Post(key, "refund") PROVE \A b \in ledger' : b.kind \in {"debit", "refund"}
<1>1. \A b \in ledger : b.kind \in {"debit", "refund"} BY TypeOKParts DEF Ready
<1>2. [key |-> key, kind |-> "refund"].kind = "refund" OBVIOUS
<1> QED BY <1>1, <1>2, Posts

-----------------------------------------------------------------------------
(* What a scan is at: the steps of the others leave it alone.                   *)

LEMMA ScanBounds ==
  /\ 0 \in 0..MaxScans /\ 0 \in 0..(MaxScans - 1) /\ MaxScans \in Nat
  /\ \A n \in 0..(MaxScans - 1) : n + 1 \in 0..MaxScans
BY RecoveryAssumption

LEMMA IdleSound == Idle \in ScanJobs /\ NoRequest \in Requests
BY ScanBounds DEF Idle, NoRequest, ScanJobs, ScanRecords, Requests, Status

LEMMA LeaveIs ==
  ASSUME Noted, NEW c \in Scans, Leave(c)
  PROVE  /\ scan' \in [Scans -> ScanJobs] /\ scan'[c] = Idle
         /\ \A d \in Scans : d # c => scan'[d] = scan[d]
BY IdleSound DEF Leave, Noted

LEMMA StepIs ==
  ASSUME Noted, NEW c \in Scans, NEW pc, Step(c, pc),
         pc \in {"stamp", "live", "stampRepaired", "heal", "refund", "fail"}
  PROVE  /\ scan' \in [Scans -> ScanJobs]
         /\ scan'[c].pc = pc /\ scan'[c].at = scan[c].at /\ scan'[c].status = scan[c].status
         /\ scan'[c].count = scan[c].count /\ scan'[c].refunded = scan[c].refunded
         /\ scan'[c].paid = scan[c].paid
         /\ \A d \in Scans : d # c => scan'[d] = scan[d]
<1>1. scan[c] \in ScanJobs BY DEF Noted
<1>2. [scan[c] EXCEPT !.pc = pc] \in ScanJobs BY <1>1 DEF ScanJobs, ScanRecords
<1>3. scan' = [scan EXCEPT ![c] = [scan[c] EXCEPT !.pc = pc]] BY DEF Step
<1> QED BY <1>1, <1>2, <1>3 DEF Noted, ScanJobs, ScanRecords

LEMMA StampIs ==
  ASSUME Noted, NEW c \in Scans, NEW mark \in {"open", "repaired", "refunded"},
         NEW refunded \in BOOLEAN, Stamp(c, mark, refunded)
  PROVE  note' \in Notes
<1>1. scan[c].count \in 0..(MaxScans - 1) BY DEF Noted, ScanJobs, ScanRecords
<1> QED BY <1>1, ScanBounds DEF Stamp, Notes

LEMMA SelectIs ==
  ASSUME Noted, tx \in Row, NEW c \in Scans, ScanSelect(c)
  PROVE  /\ scan' \in [Scans -> ScanJobs] /\ tx.status # "none"
         /\ scan'[c].pc \in {"lastAttempt", "query"} /\ scan'[c].at = tx.provider
         /\ scan'[c].status = tx.status /\ (scan'[c].pc = "query" => tx.provider # NoProvider)
         /\ \A d \in Scans : d # c => scan'[d] = scan[d]
<1> DEFINE j == [pc |-> IF tx.provider = NoProvider THEN "lastAttempt" ELSE "query",
                 status |-> tx.status, at |-> tx.provider,
                 id |-> IF tx.provider = NoProvider THEN "reference" ELSE "orderId",
                 count |-> note.count, refunded |-> note.refunded, paid |-> FALSE]
<1>1. note.count \in 0..(MaxScans - 1)
  BY ScanBounds DEF ScanSelect, Candidate, Noted, Notes
<1>2. j \in ScanJobs BY <1>1 DEF ScanJobs, ScanRecords, Noted, Notes, Row
<1>3. /\ j.pc \in {"lastAttempt", "query"} /\ j.at = tx.provider /\ j.status = tx.status
      /\ j.pc = "query" => tx.provider # NoProvider
  OBVIOUS
<1>4. scan' = [scan EXCEPT ![c] = j] BY DEF ScanSelect
<1>5. tx.status # "none" BY DEF ScanSelect, Candidate
<1> HIDE DEF j
<1> QED BY <1>2, <1>3, <1>4, <1>5 DEF Noted

LEMMA LastAttemptIs ==
  ASSUME Noted, attempts \in Seq(Record), NEW c \in Scans, ScanLastAttempt(c)
  PROVE  /\ scan' \in [Scans -> ScanJobs]
         /\ scan'[c].pc \in {"stamp", "query"} /\ scan'[c].status = scan[c].status
         /\ scan'[c].pc = "query" => scan'[c].at \in Providers
         /\ \A d \in Scans : d # c => scan'[d] = scan[d]
<1>1. scan[c] \in ScanJobs BY DEF Noted
<1>2. CASE attempts = <<>>
  <2>1. Step(c, "stamp") BY <1>2 DEF ScanLastAttempt, Step
  <2> QED BY <2>1, StepIs
<1>3. CASE attempts # <<>>
  <2> DEFINE p == attempts[Len(attempts)].provider
  <2>1. p \in Providers
    <3>1. Len(attempts) \in 1..Len(attempts) BY <1>3, EmptySeq, LenProperties
    <3>2. attempts[Len(attempts)] \in Record BY <3>1, ElementOfSeq
    <3> QED BY <3>2 DEF Record
  <2>2. scan' = [scan EXCEPT ![c].pc = "query", ![c].at = p] BY <1>3 DEF ScanLastAttempt
  <2> HIDE DEF p
  <2>3. scan'[c] = [scan[c] EXCEPT !.pc = "query", !.at = p] BY <1>1, <2>2 DEF Noted
  <2>4. scan'[c] \in ScanJobs BY <1>1, <2>1, <2>3 DEF ScanJobs, ScanRecords
  <2>5. scan'[c].pc = "query" /\ scan'[c].at = p /\ scan'[c].status = scan[c].status
    BY <1>1, <2>3 DEF ScanJobs, ScanRecords
  <2>6. \A d \in Scans : d # c => scan'[d] = scan[d] BY <2>2 DEF Noted
  <2>7. scan' \in [Scans -> ScanJobs] BY <2>2, <2>4, <2>6 DEF Noted
  <2> QED BY <2>1, <2>5, <2>6, <2>7
<1> QED BY <1>2, <1>3

LEMMA ScanQueryIs ==
  ASSUME NEW c \in Scans, ScanQuery(c)
  PROVE  \E verdict \in Verdicts(scan[c].at, Lost(scan[c].id)) :
           Step(c, AfterQuery(c, verdict)) /\ MisreadVerdict(scan[c].at, verdict)
BY DEF ScanQuery

LEMMA RefundIs ==
  ASSUME Noted, NEW c \in Scans, ScanRefund(c)
  PROVE  /\ scan' \in [Scans -> ScanJobs] /\ scan[c].pc = "refund" /\ scan'[c].pc = "fail"
         /\ scan'[c].at = scan[c].at /\ scan'[c].status = scan[c].status
         /\ \A d \in Scans : d # c => scan'[d] = scan[d]
         /\ UNCHANGED ledger \/ Post(<<"refund">>, "refund")
<1>1. scan[c] \in ScanJobs BY DEF Noted
<1>2. CASE Step(c, "fail") /\ UNCHANGED ledger BY <1>2, StepIs DEF ScanRefund
<1>3. CASE Post(ScanKey(c), "refund") /\ scan' = [scan EXCEPT ![c].pc = "fail", ![c].paid = TRUE]
  <2>1. scan'[c] = [scan[c] EXCEPT !.pc = "fail", !.paid = TRUE] BY <1>1, <1>3 DEF Noted
  <2>2. scan'[c] \in ScanJobs BY <1>1, <2>1 DEF ScanJobs, ScanRecords
  <2>3. scan'[c].pc = "fail" /\ scan'[c].at = scan[c].at /\ scan'[c].status = scan[c].status
    BY <1>1, <2>1 DEF ScanJobs, ScanRecords
  <2>4. \A d \in Scans : d # c => scan'[d] = scan[d] BY <1>3 DEF Noted
  <2>5. scan' \in [Scans -> ScanJobs] BY <1>3, <2>2, <2>4 DEF Noted
  <2> QED BY <1>3, <2>3, <2>4, <2>5 DEF ScanRefund, ScanKey
<1> QED BY <1>2, <1>3 DEF ScanRefund

-----------------------------------------------------------------------------
(* Every step keeps the types.                                                  *)

LEMMA ScanTypes ==
  ASSUME Ready, Noted, NEW c \in Scans, Reconcile(c) \/ ScanFails(c) \/ ScanCrash(c)
  PROVE  Ready' /\ Noted'
<1>1. tx \in Row /\ attempts \in Seq(Record) /\ mishaps \in MishapCounts /\ orders \in [Providers -> Seq(OrderStates)]
  BY TypeOKParts DEF Ready, OrdersOK
<1>2. scan[c] \in ScanJobs BY DEF Noted
<1>3. CASE ScanSelect(c)
  BY <1>1, <1>3, SelectIs, ReadyUntouched DEF ScanSelect, Noted
<1>4. CASE ScanLastAttempt(c)
  BY <1>1, <1>4, LastAttemptIs, ReadyUntouched DEF ScanLastAttempt, Noted
<1>5. CASE ScanQuery(c)
  <2>1. PICK verdict : Step(c, AfterQuery(c, verdict)) /\ MisreadVerdict(scan[c].at, verdict)
    BY <1>5, ScanQueryIs
  <2>2. AfterQuery(c, verdict) \in {"live", "fail", "refund", "stamp"} BY DEF AfterQuery
  <2>3. scan[c].at \in Providers BY <1>2, <1>5 DEF ScanJobs, ScanQuery
  <2>4. misread' \subseteq Providers
    BY <2>1, <2>3, TypeOKParts DEF MisreadVerdict, Ready
  <2>5. Ready' BY <1>5, <2>4, ReadyChanged DEF ScanQuery
  <2> QED BY <1>5, <2>1, <2>2, <2>5, StepIs DEF ScanQuery, Noted
<1>6. CASE ScanStamp(c) \/ ScanStampRepaired(c)
  <2>1. note.refunded \in BOOLEAN BY DEF Noted, Notes
  <2>2. note' \in Notes BY <1>6, <2>1, StampIs DEF ScanStamp, ScanStampRepaired
  <2> QED BY <1>6, <2>2, LeaveIs, ReadyUntouched DEF ScanStamp, ScanStampRepaired, Noted
<1>7. CASE ScanLive(c)
  BY <1>7, StepIs, ReadyUntouched DEF ScanLive, Noted
<1>8. CASE ScanHeal(c)
  <2>1. note.refunded \in BOOLEAN BY DEF Noted, Notes
  <2>2. note' \in Notes BY <1>8, <2>1, StampIs DEF ScanHeal
  <2>3. tx' \in Row BY <1>2, <1>8 DEF ScanHeal, SetOutcome, Row, ScanJobs, ScanRecords, Status, Final
  <2>4. Ready' BY <1>8, <2>3, ReadyChanged DEF ScanHeal, kept
  <2> QED BY <1>8, <2>2, <2>4, LeaveIs DEF ScanHeal, Noted
<1>9. CASE ScanRefund(c)
  <2>1. Ready' BY <1>9, RefundIs, PostKinds, ReadyChanged DEF ScanRefund, kept
  <2> QED BY <1>9, <2>1, RefundIs DEF ScanRefund, Noted
<1>10. CASE ScanFail(c)
  <2>1. scan[c].paid \in BOOLEAN BY <1>2 DEF ScanJobs, ScanRecords
  <2>2. note' \in Notes BY <1>10, <2>1, StampIs DEF ScanFail
  <2>3. tx' = tx \/ tx' \in Row BY <1>2, <1>10 DEF ScanFail, SetOutcome, Row, ScanJobs, ScanRecords, Status, Final
  <2>4. Ready' BY <1>10, <2>3, ReadyChanged DEF ScanFail, kept
  <2> QED BY <1>10, <2>2, <2>4, LeaveIs DEF ScanFail, Noted
<1>11. CASE ScanFails(c)
  <2>1. note.mark \in {"open", "repaired", "refunded"} /\ note.refunded \in BOOLEAN
    BY DEF Noted, Notes
  <2>2. note' \in Notes BY <1>11, <2>1, StampIs DEF ScanFails, Noted
  <2>3. Ready' BY <1>1, <1>11, MishapCounted, ReadyChanged DEF ScanFails
  <2> QED BY <1>11, <2>2, <2>3, LeaveIs DEF ScanFails, Noted
<1>12. CASE ScanCrash(c)
  <2>1. Ready' BY <1>1, <1>12, MishapCounted, ReadyChanged DEF ScanCrash
  <2> QED BY <1>12, <2>1, LeaveIs DEF ScanCrash, Noted
<1> QED BY <1>3, <1>4, <1>5, <1>6, <1>7, <1>8, <1>9, <1>10, <1>11, <1>12 DEF Reconcile

LEMMA TakeIs ==
  ASSUME Noted, NEW a \in Admins, NEW pc, NEW p \in Providers \union {NoProvider},
         pc \in {"retryWrite", "stuckWrite", "repairVerify", "repairWrite"}, Take(a, pc, p)
  PROVE  /\ desk' \in [Admins -> Requests] /\ interventions' \in 0..MaxInterventions
         /\ interventions' = interventions + 1
<1>1. [pc |-> pc, at |-> p] \in Requests BY DEF Requests
<1>2. interventions \in 0..MaxInterventions /\ interventions < MaxInterventions
  BY DEF Take, Noted
<1>3. interventions + 1 \in 0..MaxInterventions BY <1>2, RecoveryAssumption
<1> QED BY <1>1, <1>3 DEF Take, Noted

LEMMA CloseIs == ASSUME Noted, NEW a \in Admins, Close(a) PROVE desk' \in [Admins -> Requests]
BY IdleSound DEF Close, Noted

LEMMA DeskTypes ==
  ASSUME Ready, Noted, NEW a \in Admins, Intervene(a) \/ Proceed(a) \/ RequestFails(a)
  PROVE  Ready' /\ Noted'
<1>1. tx \in Row /\ JobsOK /\ mishaps \in MishapCounts BY TypeOKParts DEF Ready
<1>2. desk[a] \in Requests BY DEF Noted
<1>3. CASE RetryRead(a) \/ MarkStuckRead(a)
  BY <1>3, TakeIs, ReadyUntouched DEF RetryRead, MarkStuckRead, Noted
<1>4. CASE RepairFind(a)
  <2>1. PICK p \in Providers : Take(a, "repairVerify", p) BY <1>4 DEF RepairFind
  <2> QED BY <1>4, <2>1, TakeIs, ReadyUntouched DEF RepairFind, Noted
<1>5. CASE RepairWithToken(a)
  <2>1. PICK p \in Providers : Take(a, "repairWrite", p) BY <1>5 DEF RepairWithToken
  <2> QED BY <1>5, <2>1, TakeIs, ReadyUntouched DEF RepairWithToken, Noted
<1>6. CASE RetryFailedJob(a)
  <2>1. JobsOK' BY <1>1, <1>6, Bounds, PurchaseJobSound, Enqueued DEF RetryFailedJob
  <2>2. Ready' BY <1>6, <2>1, ReadyChanged DEF RetryFailedJob, kept
  <2>3. interventions + 1 \in 0..MaxInterventions
    BY <1>6, RecoveryAssumption DEF RetryFailedJob, Noted
  <2> QED BY <1>6, <2>2, <2>3 DEF RetryFailedJob, Noted
<1>7. CASE IssueManualRefund(a)
  <2>1. Ready' BY <1>7, PostKinds, ReadyChanged DEF IssueManualRefund, kept
  <2>2. interventions + 1 \in 0..MaxInterventions
    BY <1>7, RecoveryAssumption DEF IssueManualRefund, Noted
  <2> QED BY <1>7, <2>1, <2>2 DEF IssueManualRefund, Noted
<1>8. CASE RetryWrite(a)
  <2>1. tx' \in Row BY <1>1, <1>8, StatusSet DEF RetryWrite, Status
  <2>2. Ready' BY <1>8, <2>1, ReadyChanged DEF RetryWrite, kept
  <2>3. [desk[a] EXCEPT !.pc = "retryAdd"] \in Requests BY <1>2 DEF Requests
  <2> QED BY <1>8, <2>2, <2>3 DEF RetryWrite, Noted
<1>9. CASE RetryAdd(a)
  <2>1. JobsOK' BY <1>1, <1>9, Bounds, PurchaseJobSound, Enqueued DEF RetryAdd
  <2>2. Ready' BY <1>9, <2>1, ReadyChanged DEF RetryAdd, kept
  <2> QED BY <1>9, <2>2, CloseIs DEF RetryAdd, Noted
<1>10. CASE MarkStuckTransactionFailed(a)
  <2>1. tx' \in Row BY <1>1, <1>10, StatusSet DEF MarkStuckTransactionFailed, Status, Final
  <2>2. Ready' BY <1>10, <2>1, ReadyChanged DEF MarkStuckTransactionFailed, kept
  <2> QED BY <1>10, <2>2, CloseIs DEF MarkStuckTransactionFailed, Noted
<1>11. CASE RepairVerify(a)
  <2>1. [desk[a] EXCEPT !.pc = "repairWrite"] \in Requests BY <1>2 DEF Requests
  <2>2. desk' = [desk EXCEPT ![a].pc = "repairWrite"] \/ Close(a) BY <1>11 DEF RepairVerify
  <2>3. desk' \in [Admins -> Requests] BY <2>1, <2>2, CloseIs DEF Noted
  <2> QED BY <1>11, <2>3, ReadyUntouched DEF RepairVerify, Noted
<1>12. CASE RepairProviderSuccess(a)
  <2>1. tx' \in Row BY <1>2, <1>12 DEF RepairProviderSuccess, SetOutcome, Row, Requests, Status, Final
  <2>2. Ready' BY <1>12, <2>1, ReadyChanged DEF RepairProviderSuccess, kept
  <2> QED BY <1>12, <2>2, CloseIs DEF RepairProviderSuccess, Noted
<1>13. CASE RequestFails(a)
  <2>1. Ready' BY <1>1, <1>13, MishapCounted, ReadyChanged DEF RequestFails
  <2> QED BY <1>13, <2>1, CloseIs DEF RequestFails, Noted
<1> QED BY <1>3, <1>4, <1>5, <1>6, <1>7, <1>8, <1>9, <1>10, <1>11, <1>12, <1>13
     DEF Intervene, Proceed

LEMMA RecoveryStarts == RInit => Ready /\ Noted
<1> SUFFICES ASSUME RInit PROVE Ready /\ Noted OBVIOUS
<1>1. Ready BY SagaStarts DEF RInit, SoundInv, Ready
<1>2. Noted BY ScanBounds, IdleSound, RecoveryAssumption DEF RInit, Noted, Notes
<1> QED BY <1>1, <1>2

LEMMA RecoverySound == Ready /\ Noted /\ [RNext]_rvars => Ready' /\ Noted'
<1> SUFFICES ASSUME Ready, Noted, [RNext]_rvars PROVE Ready' /\ Noted' OBVIOUS
<1>1. CASE UNCHANGED rvars BY <1>1, ReadyUntouched DEF rvars, recovery, Noted
<1>2. CASE Saga BY <1>2, ReadyKept DEF Saga, recovery, Noted
<1>3. ASSUME NEW c \in Scans, Reconcile(c) \/ ScanFails(c) \/ ScanCrash(c)
      PROVE  Ready' /\ Noted'
  BY <1>3, ScanTypes
<1>4. ASSUME NEW a \in Admins, Intervene(a) \/ Proceed(a) \/ RequestFails(a)
      PROVE  Ready' /\ Noted'
  BY <1>4, DeskTypes
<1> QED BY <1>1, <1>2, <1>3, <1>4 DEF RNext

\* The row, the metadata the scans keep in it, the jobs and the requests in progress
\* keep their types, whoever retries, repairs or marks what: reconciliation_attempts
\* stays within its limit although it is the count the candidate query saw, plus one.
THEOREM RecoveryTypeCorrect == RSpec => []RTypeOK
<1>1. Ready /\ Noted => RTypeOK BY NotedParts DEF Ready
<1> QED BY <1>1, RecoveryStarts, RecoverySound, PTL DEF RSpec

-----------------------------------------------------------------------------
(* What is paid back.                                                           *)

Granted(a) == [key |-> ManualKey(a), kind |-> "refund"]

\* Besides the debit the ledger holds one refund of the machinery at most, and one
\* of each administrator.
Booked == ledger \subseteq {Debited, Refunded} \union {Granted(a) : a \in Admins}

LEMMA ScanLedger ==
  ASSUME NEW c \in Scans, Reconcile(c) \/ ScanFails(c) \/ ScanCrash(c)
  PROVE  \/ UNCHANGED ledger
         \/ scan[c].pc = "refund" /\ ledger' = ledger \union {Refunded}
<1>1. CASE ScanRefund(c)
  BY <1>1, Posts DEF ScanRefund, ScanKey, Refunded
<1>2. CASE ~ScanRefund(c)
  BY <1>2 DEF Reconcile, ScanSelect, ScanLastAttempt, ScanQuery, ScanStamp, ScanLive,
     ScanStampRepaired, ScanHeal, ScanFail, ScanFails, ScanCrash, vars
<1> QED BY <1>1, <1>2

LEMMA DeskLedger ==
  ASSUME NEW a \in Admins, Intervene(a) \/ Proceed(a) \/ RequestFails(a)
  PROVE  UNCHANGED ledger \/ ledger' = ledger \union {Granted(a)}
<1>1. CASE IssueManualRefund(a)
  BY <1>1, Posts DEF IssueManualRefund, Granted
<1>2. CASE ~IssueManualRefund(a)
  BY <1>2 DEF Intervene, Proceed, RequestFails, RetryRead, RetryFailedJob, MarkStuckRead,
     RepairFind, RepairWithToken, RetryWrite, RetryAdd, MarkStuckTransactionFailed,
     RepairVerify, RepairProviderSuccess, vars
<1> QED BY <1>1, <1>2

\* Engine, verification worker and scans refund a purchase once between them, and each
\* administrator once at most, through every retry, repair and mishap.
THEOREM RefundsStayBounded == RSpec => []RefundsBounded
<1>1. RInit => Booked BY DEF RInit, Init, Booked
<1>2. Booked /\ [RNext]_rvars => Booked'
  <2> SUFFICES ASSUME Booked, [RNext]_rvars PROVE Booked' OBVIOUS
  <2>1. CASE UNCHANGED rvars BY <2>1 DEF rvars, vars, Booked
  <2>2. CASE Saga BY <2>2, LedgerSteps DEF Saga, Booked
  <2>3. ASSUME NEW c \in Scans, Reconcile(c) \/ ScanFails(c) \/ ScanCrash(c) PROVE Booked'
    BY <2>3, ScanLedger DEF Booked
  <2>4. ASSUME NEW a \in Admins, Intervene(a) \/ Proceed(a) \/ RequestFails(a) PROVE Booked'
    BY <2>4, DeskLedger DEF Booked
  <2> QED BY <2>1, <2>2, <2>3, <2>4 DEF RNext
<1>3. Booked => RefundsBounded
  <2> SUFFICES ASSUME Booked PROVE RefundsBounded OBVIOUS
  <2> DEFINE own == {b \in Batches("refund") : b.key[1] # "manual"}
             by(a) == {b \in Batches("refund") : b.key[1] = "manual" /\ b.key[2] = a}
  <2>1. Debited.kind = "debit" /\ Refunded.key[1] = "refund" BY DEF Debited, Refunded
  <2>2. \A a \in Admins : Granted(a).key[1] = "manual" /\ Granted(a).key[2] = a
    BY DEF Granted, ManualKey
  <2>3. own \subseteq {Refunded} BY <2>1, <2>2 DEF Booked, Batches
  <2>4. \A a \in Admins : by(a) \subseteq {Granted(a)} BY <2>1, <2>2 DEF Booked, Batches
  <2>5. \A x : \A S \in SUBSET {x} : Cardinality(S) <= 1
    <3> SUFFICES ASSUME NEW x, NEW S \in SUBSET {x} PROVE Cardinality(S) <= 1 OBVIOUS
    <3>1. S = {} \/ S = {x} OBVIOUS
    <3>2. Cardinality({}) = 0 /\ Cardinality({x}) = 1 BY FS_Singleton, FS_EmptySet
    <3> QED BY <3>1, <3>2
  <2> HIDE DEF own, by
  <2>6. Cardinality(own) <= 1 /\ \A a \in Admins : Cardinality(by(a)) <= 1
    BY <2>3, <2>4, <2>5
  <2> QED BY <2>6 DEF RefundsBounded, own, by
<1> QED BY <1>1, <1>2, <1>3, PTL DEF RSpec

-----------------------------------------------------------------------------
(* With one provider and nobody interfering, what is agreed on is true.         *)

\* VTU purchases from one provider that deduplicates, whose jobs have more attempts
\* than there are mishaps to use them up.
Sheltered == SoleProvider /\ Services = {"vtu"} /\ MaxMishaps < MaxAttempts

Arrived == \E p \in Providers : Delivered(p)

\* Where a job is that will say something about the order, and where only a job
\* without attempts left, or one of the airtime worker, comes.
Beyond == DeadPc \union {"netRead", "netWrite", "timeoutRead", "timeoutWrite"}
Tame(s) ==
  /\ proc[s].pc \notin Beyond
  /\ proc[s].kind = "purchase" => proc[s].made <= mishaps.fault /\ proc[s].max = MaxAttempts
  /\ proc[s].pc # "free" => tx.status # "none"
  /\ proc[s].pc \in {"fail", "verifyFail"} => Denial
  /\ proc[s].pc \in {"succeed", "verifySucceed"} => Arrived
  /\ proc[s].pc = "record" /\ proc[s].answer = "ok" => Arrived

\* The same of a scan, and of the row and the attempts on record.
Faithful(c) ==
  /\ scan[c].pc = "query" => scan[c].at \in Providers
  /\ scan[c].pc \in {"refund", "fail"} => Denial
  /\ scan[c].pc \in {"live", "heal", "stampRepaired"} => Arrived
RowTrue ==
  /\ tx.status = "successful" => Arrived
  /\ tx.status = "failed" => Denial
  /\ SuccessfulAttempt => Arrived
  /\ api = "add" => tx.status # "none"

SagaTrue == WarrantInv /\ OneOfEach /\ RowTrue /\ \A s \in Slots : Tame(s)
Agreed ==
  interventions = 0 =>
    /\ SagaTrue
    /\ \A c \in Scans : Faithful(c)
    /\ \A a \in Admins : desk[a].pc = "idle"

\* An order that was delivered stays delivered.
LEMMA ArrivedStays == ASSUME JobsOK, OrdersOK, [Next]_vars, Arrived PROVE Arrived'
<1>1. PICK p \in Providers : Delivered(p) BY DEF Arrived
<1>2. PICK i \in DOMAIN orders[p] : orders[p][i] = "delivered" BY <1>1 DEF Delivered
<1>3. orders[p] \in Seq(OrderStates) /\ i \in 1..Len(orders[p]) BY <1>2 DEF OrdersOK
<1>4. CASE UNCHANGED orders BY <1>1, <1>4 DEF Arrived, Delivered
<1>5. ASSUME NEW s \in Slots, Call(s) PROVE Arrived'
  <2>1. CASE UNCHANGED orders BY <1>4, <2>1
  <2>2. CASE ~UNCHANGED orders
    <3>1. PICK fate : orders' = [orders EXCEPT ![Head(proc[s].cands)] = Append(@, fate)]
      BY <1>5, <2>2 DEF Call
    <3>2. CASE p = Head(proc[s].cands)
      <4>1. orders'[p] = Append(orders[p], fate) BY <3>1, <3>2 DEF OrdersOK
      <4>2. i \in DOMAIN orders'[p] /\ orders'[p][i] = orders[p][i] BY <1>3, <4>1
      <4> QED BY <1>2, <4>2 DEF Arrived, Delivered
    <3>3. CASE p # Head(proc[s].cands)
      <4>1. orders'[p] = orders[p] BY <3>1, <3>3 DEF OrdersOK
      <4> QED BY <1>2, <4>1 DEF Arrived, Delivered
    <3> QED BY <3>2, <3>3
  <2> QED BY <2>1, <2>2
<1>6. ASSUME NEW q \in Providers, NEW j \in DOMAIN orders[q], Settle(q, j) PROVE Arrived'
  <2>1. PICK fate \in {"delivered", "rejected"} : orders' = [orders EXCEPT ![q][j] = fate]
    BY <1>6 DEF Settle
  <2>2. q # p \/ j # i BY <1>2, <1>6 DEF Settle
  <2>3. i \in DOMAIN orders'[p] /\ orders'[p][i] = orders[p][i]
    BY <1>3, <2>1, <2>2 DEF OrdersOK
  <2> QED BY <1>2, <2>3 DEF Arrived, Delivered
<1> QED BY <1>4, <1>5, <1>6, Untouched

\* What the one provider says of its one order is what it did.
LEMMA VerdictIsTrue ==
  ASSUME SoleProvider, OrdersOK, NEW p \in Providers, Len(orders[p]) <= 1, NEW lost,
         NEW verdict \in Verdicts(p, lost)
  PROVE  /\ verdict = "rejected" /\ MisreadVerdict(p, verdict) /\ UNCHANGED orders => Denial'
         /\ verdict = "delivered" => Arrived
<1>1. orders[p] \in Seq(OrderStates) BY DEF OrdersOK
<1>2. verdict = "delivered" => Arrived BY VerdictsAre DEF Arrived
<1>3. MisreadVerdict(p, "rejected") =>
        p \in misread' \/ \E i \in DOMAIN orders[p] : orders[p][i] = "rejected"
  BY VerdictsAre
<1>4. (\E i \in DOMAIN orders[p] : orders[p][i] = "rejected") => orders[p] = <<"rejected">>
  BY <1>1
<1>5. \A q \in Providers : q = p BY OneProvider
<1> QED BY <1>2, <1>3, <1>4, <1>5 DEF Denial, Rejection

\* Denied and delivered, it was misread.
LEMMA Apart == Denial /\ Arrived => misread # {}
<1>1. \A i \in DOMAIN <<"rejected">> : <<"rejected">>[i] = "rejected" OBVIOUS
<1> QED BY <1>1 DEF Denial, Rejection, Arrived, Delivered

-----------------------------------------------------------------------------
(* How often a job was tried.                                                   *)

SameCount(s) ==
  proc'[s].kind = "purchase" =>
    proc[s].kind = "purchase" /\ proc'[s].made = proc[s].made /\ proc'[s].max = proc[s].max

LEMMA GotoCount == ASSUME JobsOK, NEW s \in Slots, NEW pc, Goto(s, pc) PROVE SameCount(s)
<1>1. proc[s] \in Jobs BY DEF JobsOK
<1>2. proc'[s] = [proc[s] EXCEPT !.pc = pc] BY DEF Goto, JobsOK
<1> QED BY <1>1, <1>2 DEF SameCount, Jobs
LEMMA FinishCount == ASSUME JobsOK, NEW s \in Slots, Finish(s) PROVE SameCount(s)
BY FinishIs, FreeIs DEF SameCount

LEMMA ThrowCount ==
  ASSUME JobsOK, NEW s \in Slots, Throw(s), proc'[s].kind = "purchase"
  PROVE  /\ proc[s].kind = "purchase" /\ proc'[s].made = proc[s].made + 1
         /\ proc'[s].max = proc[s].max
         /\ \/ proc'[s].pc = "waiting"
            \/ proc'[s].pc = "deadRecord" /\ ~(proc[s].made + 1 < proc[s].max)
<1> DEFINE p == proc[s]
           counted == [p EXCEPT !.made = p.made + 1]
           r == Requeued(counted)
           d == [r EXCEPT !.pc = "deadRecord"]
<1>1. p \in Jobs /\ proc'[s] = Rejected(p) BY DEF JobsOK, Throw
<1>2. counted.kind = p.kind /\ counted.made = p.made + 1 /\ counted.max = p.max BY <1>1 DEF Jobs
<1>3. r.kind = p.kind /\ r.pc = "waiting" /\ r.made = p.made + 1 /\ r.max = p.max
  BY <1>2 DEF Requeued, Free
<1>4. d.kind = p.kind /\ d.pc = "deadRecord" /\ d.made = p.made + 1 /\ d.max = p.max
  BY <1>3 DEF Requeued, Free
<1>5. \/ Rejected(p) = Free \/ Rejected(p) = r
      \/ Rejected(p) = d /\ ~(counted.made < p.max)
  <2> HIDE DEF r, d
  <2>1. Rejected(p) = IF p.detached THEN Free ELSE IF counted.made < p.max THEN r
                      ELSE IF p.kind = "purchase" THEN d ELSE Free
    BY DEF Rejected, r, d
  <2> QED BY <2>1
<1>6. Rejected(p) # Free BY <1>1, FreeIs
<1> HIDE DEF r, d
<1> QED BY <1>1, <1>2, <1>3, <1>4, <1>5, <1>6

\* Attempts are counted by what rejects, and by nothing else.
LEMMA CountKept ==
  ASSUME JobsOK, NEW s \in Slots, Worker(s) \/ CallFails(s)
  PROVE  \/ SameCount(s)
         \/ CallFails(s) /\ Throw(s)
         \/ proc[s].pc = "load" /\ tx.status = "none"
         \/ proc[s].pc \in {"timeoutRead", "timeoutWrite"}
<1>0. proc[s] \in Jobs /\ proc \in [Slots -> Jobs] BY DEF JobsOK
<1> USE GotoCount, FinishCount
<1>1. CASE \/ Start(s) \/ MarkProcessing(s) \/ ReplayRead(s) \/ ReplayWrite(s) \/ HandleSuccess(s)
           \/ HandlePending(s) \/ HandleRequiresReview(s) \/ HandleAllFailed(s) \/ MarkFailed(s)
           \/ RecordFailedJob(s) \/ FinalizeFailed(s) \/ FindSuccess(s)
  BY <1>1 DEF Start, MarkProcessing, ReplayRead, ReplayWrite, HandleSuccess,
     HandlePending, HandleRequiresReview, HandleAllFailed, MarkFailed, RecordFailedJob,
     FinalizeFailed, Refund, FindSuccess
<1>2. CASE VerifyTransaction(s) BY <1>2 DEF VerifyTransaction
<1>3. CASE \/ SafetyNetWrite(s) \/ DeadLetterWrite(s) \/ VerifySucceeded(s)
           \/ FinalizeRequiresReview(s) \/ VerifyFailed(s)
  BY <1>3 DEF SafetyNetWrite, DeadLetterWrite, VerifySucceeded,
     FinalizeRequiresReview, VerifyFailed
<1>4. CASE Complete(s) \/ SafetyNetRead(s) \/ DeadLetterRead(s) \/ VerifyLoad(s)
  BY <1>4 DEF Complete, SafetyNetRead, DeadLetterRead, VerifyLoad
<1>5. CASE LoadTransaction(s) \/ TimeoutRead(s) \/ TimeoutWrite(s)
  BY <1>5 DEF LoadTransaction, TimeoutRead, TimeoutWrite
<1>6. CASE RequeueVerify(s)
  <2>1. \A q, n : VerifyJob(q, n).kind = "verify" BY DEF VerifyJob, Free
  <2> QED BY <1>0, <1>6, <2>1 DEF RequeueVerify, SameCount
<1>7. CASE CallFails(s)
  <2>1. CASE Throw(s) BY <1>7, <2>1
  <2>2. CASE Finish(s) BY <2>2
  <2>3. CASE proc[s].pc \in CaughtReads /\ proc' = [proc EXCEPT ![s] = AfterCaughtRead(proc[s])]
    <3>1. Goto(s, "complete") \/ Throw(s) \/ Finish(s)
      BY <2>3 DEF AfterCaughtRead, Goto, Throw, Finish, CaughtReads
    <3> QED BY <1>7, <3>1
  <2> QED BY <1>7, <2>1, <2>2, <2>3 DEF CallFails
<1>8. CASE Resolve(s)
  <2>1. PICK eligible \in Eligible : \E cands \in Candidates(eligible \ FailedCodes) :
          LET unsure == FailedCodes # {} IN
          proc' = [proc EXCEPT ![s].cands = cands, ![s].unsure = unsure,
                     ![s].pc = IF cands # <<>> THEN "call"
                               ELSE IF unsure THEN "review" ELSE "refund"]
    BY <1>8 DEF Resolve
  <2>2. PICK cands \in Candidates(eligible \ FailedCodes) :
          proc' = [proc EXCEPT ![s].cands = cands, ![s].unsure = (FailedCodes # {}),
                     ![s].pc = IF cands # <<>> THEN "call"
                               ELSE IF FailedCodes # {} THEN "review" ELSE "refund"]
    BY <2>1
  <2> DEFINE pc == IF cands # <<>> THEN "call" ELSE IF FailedCodes # {} THEN "review" ELSE "refund"
             unsure == FailedCodes # {}
  <2>3. proc' = [proc EXCEPT ![s].cands = cands, ![s].unsure = unsure, ![s].pc = pc] BY <2>2
  <2> HIDE DEF pc, unsure
  <2> QED BY <1>0, <2>3 DEF Jobs, SameCount
<1>9. CASE Call(s)
  <2>1. \E a : proc' = [proc EXCEPT ![s].pc = "record", ![s].answer = a] BY <1>9 DEF Call
  <2>2. PICK a : proc' = [proc EXCEPT ![s].pc = "record", ![s].answer = a] BY <2>1
  <2> QED BY <1>0, <2>2 DEF SameCount, Jobs
<1>10. CASE RecordAttempt(s)
  <2>1. proc' = [proc EXCEPT ![s] = Decide(proc[s])] BY <1>10 DEF RecordAttempt
  <2>2. Decide(proc[s]).made = proc[s].made /\ Decide(proc[s]).max = proc[s].max
    BY <1>0 DEF Decide, Outcome, Jobs
  <2>3. Decide(proc[s]).kind = proc[s].kind BY <1>0, DecideIs
  <2> QED BY <1>0, <2>1, <2>2, <2>3 DEF SameCount
<1>11. CASE EnqueueVerify(s)
  <2>1. FreeSlot # s BY <1>11, EnqueueVerifyIs
  <2>2. proc'[s] = [proc[s] EXCEPT !.pc = "complete"] BY <1>0, <1>11, <2>1 DEF EnqueueVerify
  <2> QED BY <1>0, <2>2 DEF SameCount, Jobs
<1> QED BY <1>1, <1>2, <1>3, <1>4, <1>5, <1>6, <1>7, <1>8, <1>9, <1>10, <1>11 DEF Worker

LEMMA Faults ==
  ASSUME mishaps \in MishapCounts
  PROVE  /\ mishaps.fault \in Nat
         /\ \A kind : Mishap(kind) => mishaps'.fault \in Nat /\ mishaps'.fault >= mishaps.fault
         /\ Mishap("fault") => mishaps'.fault = mishaps.fault + 1
<1>0. mishaps.fault \in Nat /\ mishaps.crash \in Nat BY SettingsAssumption DEF MishapCounts
<1>1. Mishap("fault") => mishaps'.fault = mishaps.fault + 1 BY DEF Mishap, MishapCounts
<1>2. Mishap("crash") => mishaps'.fault = mishaps.fault BY DEF Mishap, MishapCounts
<1>3. \A kind : Mishap(kind) => kind \in {"fault", "crash"} BY SettingsAssumption DEF Mishap
<1> QED BY <1>0, <1>1, <1>2, <1>3

LEMMA FaultsGrow ==
  ASSUME mishaps \in MishapCounts, [Next]_vars
  PROVE  mishaps.fault \in Nat /\ mishaps'.fault \in Nat /\ mishaps'.fault >= mishaps.fault
<1>1. mishaps.fault \in Nat BY Faults
<1>2. UNCHANGED mishaps \/ \E kind : Mishap(kind)
  <2>1. CASE RequestLost \/ WorkerCrash BY <2>1 DEF RequestLost, WorkerCrash
  <2>2. ASSUME NEW s \in Slots, CallFails(s) \/ RecordAttempt(s)
        PROVE  UNCHANGED mishaps \/ \E kind : Mishap(kind)
    BY <2>2 DEF CallFails, RecordAttempt
  <2>3. ASSUME NEW s \in Slots, Worker(s) \/ Timeout(s), ~RecordAttempt(s) PROVE UNCHANGED mishaps
    BY <2>3 DEF Worker, Timeout, Start, LoadTransaction, MarkProcessing, FindSuccess,
       ReplayRead, ReplayWrite, Resolve, Call, HandleSuccess, HandlePending,
       EnqueueVerify, HandleRequiresReview, HandleAllFailed, MarkFailed, Complete, SafetyNetRead,
       SafetyNetWrite, TimeoutRead, TimeoutWrite, RecordFailedJob, DeadLetterRead, DeadLetterWrite,
       VerifyLoad, VerifyTransaction, VerifySucceeded, RequeueVerify,
       FinalizeRequiresReview, FinalizeFailed, VerifyFailed, Refund, kept
  <2>4. Controller \/ UNCHANGED vars \/ (\E p \in Providers : \E i \in DOMAIN orders[p] : Settle(p, i))
          => UNCHANGED mishaps
    BY DEF Controller, Debit, CreateTransaction, AddJob, Settle, vars, kept
  <2> QED BY <2>1, <2>2, <2>3, <2>4 DEF Next
<1>3. \A kind : Mishap(kind) => mishaps'.fault \in Nat /\ mishaps'.fault >= mishaps.fault
  BY Faults
<1> QED BY <1>1, <1>2, <1>3

-----------------------------------------------------------------------------
(* The steps of the saga keep it true.                                          *)

\* Which step brings a job to a place where it will say something about the order.
Telling == {"record", "succeed", "verifySucceed", "fail", "verifyFail"}

LEMMA Reached ==
  ASSUME JobsOK, NEW s \in Slots, Worker(s) \/ CallFails(s)
  PROVE  \/ proc'[s].pc \notin Telling
         \/ Call(s) /\ proc'[s].pc = "record"
         \/ RecordAttempt(s) /\ proc'[s].pc = "succeed"
         \/ VerifyTransaction(s) /\ proc'[s].pc = "verifySucceed"
         \/ HandleAllFailed(s) /\ proc'[s].pc = "fail"
         \/ FinalizeFailed(s) /\ proc'[s].pc = "verifyFail"
<1> USE DEF Telling
<1>1. CASE \/ Start(s) \/ MarkProcessing(s) \/ ReplayRead(s) \/ ReplayWrite(s) \/ HandleSuccess(s)
           \/ HandlePending(s) \/ HandleRequiresReview(s) \/ HandleAllFailed(s) \/ MarkFailed(s)
           \/ RecordFailedJob(s) \/ FinalizeFailed(s)
  BY <1>1, GotoIs DEF Start, MarkProcessing, ReplayRead, ReplayWrite, HandleSuccess,
     HandlePending, HandleRequiresReview, HandleAllFailed, MarkFailed, RecordFailedJob,
     FinalizeFailed, Refund
<1>2. CASE VerifyTransaction(s)
  BY <1>2, GotoIs DEF VerifyTransaction, AfterPoll
<1>3. CASE \/ SafetyNetWrite(s) \/ DeadLetterWrite(s) \/ VerifySucceeded(s)
           \/ FinalizeRequiresReview(s) \/ VerifyFailed(s)
  BY <1>3, FinishIs, FreeIs DEF SafetyNetWrite, DeadLetterWrite, VerifySucceeded,
     FinalizeRequiresReview, VerifyFailed
<1>4. CASE Complete(s) \/ SafetyNetRead(s) \/ DeadLetterRead(s) \/ VerifyLoad(s)
  BY <1>4, GotoIs, FinishIs, FreeIs DEF Complete, SafetyNetRead, DeadLetterRead, VerifyLoad
<1>5. CASE LoadTransaction(s) \/ TimeoutRead(s) \/ TimeoutWrite(s)
  BY <1>5, GotoIs, FinishIs, ThrowIs, FreeIs DEF LoadTransaction, TimeoutRead, TimeoutWrite
<1>6. CASE RequeueVerify(s)
  <2>1. \A q, n : VerifyJob(q, n).pc = "waiting" BY DEF VerifyJob, Free
  <2> QED BY <1>6, <2>1 DEF RequeueVerify, JobsOK
<1>7. CASE CallFails(s)
  <2>1. CASE Throw(s) \/ Finish(s) BY <2>1, ThrowIs, FinishIs, FreeIs
  <2>2. CASE proc[s].pc \in CaughtReads /\ proc' = [proc EXCEPT ![s] = AfterCaughtRead(proc[s])]
    <3>1. Goto(s, "complete") \/ Throw(s) \/ Finish(s)
      BY <2>2 DEF AfterCaughtRead, Goto, Throw, Finish, CaughtReads
    <3> QED BY <3>1, GotoIs, ThrowIs, FinishIs, FreeIs
  <2> QED BY <1>7, <2>1, <2>2 DEF CallFails
<1>8. CASE Looking(s) BY <1>8, LookingIs DEF Looking
<1>9. CASE EnqueueVerify(s) BY <1>9, EnqueueVerifyIs
<1> QED BY <1>1, <1>2, <1>3, <1>4, <1>5, <1>6, <1>7, <1>8, <1>9 DEF Worker, Looking

\* What a provider answers, a job tells: a delivery only when there was one.
LEMMA AnswerIsTrue ==
  ASSUME SoleProvider, JobsOK, OrdersOK, WarrantInv, NEW s \in Slots, Call(s), proc'[s].answer = "ok"
  PROVE  Arrived'
<1> DEFINE h == Head(proc[s].cands)
<1>1. h \in Providers BY InHand DEF Call, HeadPc
<1>2. proc[s] \in Jobs /\ proc \in [Slots -> Jobs] BY DEF JobsOK
<1>3. CASE Seen(h)
  <2>1. proc' = [proc EXCEPT ![s].pc = "record", ![s].answer = Again(orders[h][1])]
        /\ UNCHANGED orders
    BY <1>3 DEF Call
  <2>2. proc'[s].answer = Again(orders[h][1]) BY <1>2, <2>1 DEF Jobs
  <2>3. orders[h] \in Seq(OrderStates) /\ orders[h] # <<>> BY <1>1, <1>3 DEF Seen, OrdersOK
  <2>4. 1 \in DOMAIN orders[h] /\ orders[h][1] = "delivered" BY <2>2, <2>3 DEF Again, OrderStates
  <2>5. 1 \in DOMAIN orders'[h] /\ orders'[h][1] = "delivered" BY <2>1, <2>4
  <2> QED BY <1>1, <2>5 DEF Arrived, Delivered
<1>4. CASE ~Seen(h)
  <2>1. orders[h] = <<>> BY <1>1, <1>4 DEF Seen, SoleProvider
  <2>2. PICK a \in Answers[h] :
          proc'[s].answer = a /\ \E fate \in Fates(a) : orders'[h] = <<fate>>
    BY <2>1, CallIs
  <2>3. orders'[h] = <<"delivered">> BY <2>2 DEF Fates
  <2>4. 1 \in DOMAIN orders'[h] /\ orders'[h][1] = "delivered" BY <2>3
  <2> QED BY <1>1, <2>4 DEF Arrived, Delivered
<1> QED BY <1>3, <1>4

\* The job a step is a step of.
LEMMA TameOwn ==
  ASSUME Sheltered, Ready, SagaTrue, NEW s \in Slots, Worker(s) \/ CallFails(s)
  PROVE  Tame(s)'
<1>1. /\ tx \in Row /\ OrdersOK /\ mishaps \in MishapCounts /\ service = "vtu" /\ JobsOK
      /\ SoleProvider /\ attempts \in Seq(Record)
  BY TypeOKParts DEF Ready, Sheltered
<1>2. Tame(s) /\ Warranted(s) /\ WarrantInv BY DEF SagaTrue, WarrantInv
<1>3. [Next]_vars BY DEF Next
<1>4. (Denial => Denial') /\ (Arrived => Arrived')
  BY <1>1, <1>2, <1>3, DenialStays, ArrivedStays DEF WarrantInv
<1>5. /\ mishaps.fault \in Nat /\ mishaps'.fault \in Nat /\ mishaps'.fault >= mishaps.fault
      /\ mishaps' \in MishapCounts
  BY <1>1, <1>3, FaultsGrow, CountersPreserved, TypeOKParts DEF Ready
<1>6. proc[s].pc # "free" /\ tx.status # "none" BY <1>2, Busy DEF Tame
<1>7. proc[s] \in Jobs /\ proc'[s] \in Jobs BY <1>1, <1>3, JobsPreserved DEF JobsOK
<1>8. proc[s].made \in Nat BY <1>7, Bounds DEF Jobs
<1>9. proc'[s].kind = "purchase" => /\ proc'[s].made <= mishaps'.fault /\ proc'[s].max = MaxAttempts
                                    /\ CallFails(s) /\ Throw(s) => proc'[s].pc = "waiting"
  <2>1. CASE CallFails(s) /\ Throw(s)
    <3>1. mishaps'.fault = mishaps.fault + 1 BY <1>1, <2>1, Faults DEF CallFails
    <3>2. mishaps'.fault <= MaxMishaps BY <1>5, SettingsAssumption DEF MishapCounts
    <3>3. mishaps'.fault < MaxAttempts
      BY <1>5, <3>2, Bounds, SettingsAssumption DEF Sheltered
    <3> QED BY <1>2, <1>5, <1>8, <1>1, <2>1, <3>1, <3>3, Bounds, ThrowCount DEF Tame
  <2>2. CASE ~(CallFails(s) /\ Throw(s))
    <3>1. SameCount(s) BY <1>1, <1>2, <1>6, <2>2, CountKept DEF Tame, Beyond
    <3> QED BY <1>2, <1>5, <1>8, <2>2, <3>1 DEF Tame, SameCount
  <2> QED BY <2>1, <2>2
<1>10. proc'[s].pc \notin Beyond
  <2>1. CASE Worker(s)
    <3>1. Reads(s) \/ Writes(s) BY <1>1, <2>1, WorkerMoves
    <3>2. proc[s].pc \notin Beyond BY <1>2 DEF Tame
    <3>3. Reads(s) => proc'[s].pc \notin Beyond
      BY <1>1, <1>6, <3>2 DEF Reads, Beyond, DeadPc, VerifyPc, AfterFindSuccess
    <3>4. Writes(s) => proc'[s].pc \notin Beyond
      BY <3>2 DEF Writes, Beyond, DeadPc, VerifyPc
    <3> QED BY <3>1, <3>3, <3>4
  <2>2. CASE CallFails(s)
    <3>1. CASE Throw(s)
      <4>1. proc'[s] = Free \/ proc'[s].pc \in {"waiting", "deadRecord"} BY <1>1, <3>1, ThrowIs
      <4>2. proc'[s].pc = "deadRecord" => proc'[s].kind = "purchase"
        BY <1>1, <1>3, JobsPreserved DEF JobsOK, JobOK, PurchasePc, DeadPc
      <4> QED BY <1>9, <2>2, <3>1, <4>1, <4>2, FreeIs DEF Beyond, DeadPc
    <3>2. CASE ~Throw(s)
      BY <1>1, <2>2, <3>2, FailMoves DEF Beyond, DeadPc
    <3> QED BY <3>1, <3>2
  <2> QED BY <2>1, <2>2
<1>11. tx'.status # "none"
  <2>1. CASE Worker(s)
    <3>1. Reads(s) \/ Writes(s) BY <1>1, <2>1, WorkerMoves
    <3> QED BY <1>6, <3>1 DEF Reads, Writes, Ended, Final
  <2>2. CASE CallFails(s) BY <1>6, <2>2 DEF CallFails
  <2> QED BY <2>1, <2>2
<1>12. proc'[s].pc \in {"fail", "verifyFail"} => Denial'
  <2>1. HandleAllFailed(s) \/ FinalizeFailed(s) => Denial
    BY <1>2 DEF HandleAllFailed, FinalizeFailed, Warranted
  <2> QED BY <1>1, <1>4, <2>1, Reached DEF Telling
<1>13. proc'[s].pc \in {"succeed", "verifySucceed"} => Arrived'
  <2>1. RecordAttempt(s) /\ proc'[s].pc = "succeed" => Arrived
    <3> SUFFICES ASSUME RecordAttempt(s), proc'[s].pc = "succeed" PROVE Arrived OBVIOUS
    <3>1. proc'[s] = Decide(proc[s]) /\ proc[s].pc = "record" BY <1>1 DEF RecordAttempt, JobsOK
    <3>2. proc[s].answer = "ok" BY <1>7, <3>1, DecideIs
    <3> QED BY <1>2, <3>1, <3>2 DEF Tame
  <2>2. VerifyTransaction(s) /\ proc'[s].pc = "verifySucceed" => Arrived
    <3> SUFFICES ASSUME VerifyTransaction(s), proc'[s].pc = "verifySucceed" PROVE Arrived OBVIOUS
    <3>1. PICK verdict \in Verdicts(proc[s].at, LostByReference) :
            Goto(s, AfterPoll(verdict, proc[s].polls))
      BY VerifyTransactionIs
    <3>2. proc[s].at \in Providers BY <1>1, InHand DEF VerifyTransaction, VerifyPc
    <3>3. proc'[s].pc = AfterPoll(verdict, proc[s].polls) BY <1>1, <3>1, GotoIs
    <3>4. verdict = "delivered" BY <3>3 DEF AfterPoll
    <3> QED BY <1>1, <1>2, <3>2, <3>4, VerdictIsTrue DEF WarrantInv
  <2> QED BY <1>1, <1>4, <2>1, <2>2, Reached DEF Telling
<1>14. proc'[s].pc = "record" /\ proc'[s].answer = "ok" => Arrived'
  BY <1>1, <1>2, Reached, AnswerIsTrue DEF Telling
<1> QED BY <1>9, <1>10, <1>11, <1>12, <1>13, <1>14 DEF Tame

\* A job that no step is a step of.
LEMMA TameKept ==
  ASSUME NEW t \in Slots, Tame(t), Denial => Denial', Arrived => Arrived',
         tx.status # "none" => tx'.status # "none",
         mishaps.fault \in Nat, mishaps'.fault \in Nat, mishaps'.fault >= mishaps.fault,
         proc[t] \in Jobs, proc'[t] = proc[t]
  PROVE  Tame(t)'
<1>1. proc[t].made \in Nat BY Bounds DEF Jobs
<1>2. proc'[t].kind = "purchase" => proc'[t].made <= mishaps'.fault /\ proc'[t].max = MaxAttempts
  BY <1>1 DEF Tame
<1> QED BY <1>2 DEF Tame

\* A job that was just queued, or queued again.
LEMMA TameQueued ==
  ASSUME NEW t \in Slots, proc'[t].pc \in {"waiting", "free"}, tx'.status # "none",
         proc'[t].kind = "purchase" =>
           proc'[t].made <= mishaps'.fault /\ proc'[t].max = MaxAttempts
  PROVE  Tame(t)'
BY DEF Tame, Beyond, DeadPc

LEMMA CrashCount ==
  ASSUME JobsOK, WorkerCrash, NEW t \in Slots
  PROVE  \/ proc'[t] = proc[t]
         \/ proc'[t] = Free
         \/ /\ proc'[t].pc = "waiting" /\ proc'[t].kind = proc[t].kind
            /\ proc'[t].made = proc[t].made /\ proc'[t].max = proc[t].max
            /\ proc[t].pc # "free"
<1>1. proc'[t] = AfterCrash(proc[t]) BY DEF WorkerCrash
<1> DEFINE r == [Requeued(proc[t]) EXCEPT !.stalled = TRUE]
<1>2. r.kind = proc[t].kind /\ r.pc = "waiting" /\ r.made = proc[t].made /\ r.max = proc[t].max
  BY DEF Requeued, Free
<1>3. proc'[t] \in {proc[t], Free, r} BY <1>1 DEF AfterCrash
<1>4. proc[t].pc = "free" => proc'[t] = proc[t] BY <1>1 DEF AfterCrash
<1> HIDE DEF r
<1> QED BY <1>2, <1>3, <1>4

\* A row that is there stays there.
LEMMA RowStays ==
  ASSUME JobsOK, tx \in Row, [Next]_vars, tx.status # "none" PROVE tx'.status # "none"
<1>1. ASSUME NEW s \in Slots, Worker(s) PROVE tx'.status # "none"
  BY <1>1, WorkerMoves DEF Reads, Writes, Ended, Final
<1>2. ASSUME NEW s \in Slots, Timeout(s) \/ CallFails(s) PROVE UNCHANGED tx
  BY <1>2 DEF Timeout, CallFails
<1>3. CASE CreateTransaction BY <1>3, Written DEF CreateTransaction
<1>4. CASE Debit \/ AddJob \/ RequestLost \/ WorkerCrash \/ UNCHANGED vars
  BY <1>4 DEF Debit, AddJob, RequestLost, WorkerCrash, vars
<1>5. CASE \E p \in Providers : \E i \in DOMAIN orders[p] : Settle(p, i) BY <1>5 DEF Settle
<1> QED BY <1>1, <1>2, <1>3, <1>4, <1>5 DEF Next, Controller

LEMMA TameStays ==
  ASSUME Sheltered, Ready, SagaTrue, [Next]_vars, NEW t \in Slots
  PROVE  Tame(t)'
<1>1. /\ tx \in Row /\ OrdersOK /\ mishaps \in MishapCounts /\ service = "vtu" /\ JobsOK
      /\ SoleProvider /\ WarrantInv
  BY TypeOKParts DEF Ready, Sheltered, SagaTrue
<1>2. Tame(t) BY DEF SagaTrue
<1>3. (Denial => Denial') /\ (Arrived => Arrived')
  BY <1>1, DenialStays, ArrivedStays DEF WarrantInv
<1>4. mishaps.fault \in Nat /\ mishaps'.fault \in Nat /\ mishaps'.fault >= mishaps.fault
  BY <1>1, FaultsGrow
<1>5. tx.status # "none" => tx'.status # "none" BY <1>1, RowStays
<1>6. proc[t] \in Jobs BY <1>1 DEF JobsOK
<1>7. proc'[t] = proc[t] => Tame(t)' BY <1>2, <1>3, <1>4, <1>5, <1>6, TameKept
<1>8. CASE AddJob
  <2>1. FreeSlot \in Slots /\ proc' = [proc EXCEPT ![FreeSlot] = PurchaseJob(MaxAttempts)]
    BY <1>8, FreeSlotIs DEF AddJob
  <2> DEFINE j == PurchaseJob(MaxAttempts)
  <2>2. j.pc = "waiting" /\ j.made = 0 /\ j.max = MaxAttempts BY DEF PurchaseJob, Free
  <2> HIDE DEF j
  <2>3. proc'[t] = proc[t] \/ proc'[t] = j BY <1>1, <2>1 DEF JobsOK, j
  <2>4. tx.status # "none" BY <1>8 DEF AddJob, SagaTrue, RowTrue
  <2>5. proc'[t] = j => Tame(t)' BY <1>4, <1>5, <2>2, <2>4, TameQueued
  <2> QED BY <1>7, <2>3, <2>5
<1>9. CASE WorkerCrash
  <2>1. Free.pc = "free" /\ Free.kind = "free" BY FreeIs
  <2>2. CASE proc'[t] = Free BY <2>1, <2>2 DEF Tame, Beyond, DeadPc
  <2>3. CASE /\ proc'[t].pc = "waiting" /\ proc'[t].kind = proc[t].kind
             /\ proc'[t].made = proc[t].made /\ proc'[t].max = proc[t].max
             /\ proc[t].pc # "free"
    <3>1. proc[t].made \in Nat BY <1>6, Bounds DEF Jobs
    <3>2. tx'.status # "none" BY <1>2, <1>5, <2>3 DEF Tame
    <3>3. proc'[t].kind = "purchase" =>
            proc'[t].made <= mishaps'.fault /\ proc'[t].max = MaxAttempts
      BY <1>2, <1>4, <2>3, <3>1 DEF Tame
    <3> QED BY <2>3, <3>2, <3>3, TameQueued
  <2> QED BY <1>1, <1>7, <1>9, <2>2, <2>3, CrashCount
<1>10. ASSUME NEW s \in Slots, Timeout(s) PROVE FALSE
  BY <1>1, <1>10 DEF Timeout
<1>11. ASSUME NEW s \in Slots, Worker(s) \/ CallFails(s) PROVE Tame(t)'
  <2>1. CASE t = s BY <1>11, <2>1, TameOwn
  <2>2. CASE t # s /\ EnqueueVerify(s)
    <3>1. PICK f \in Slots : /\ proc'[f].kind = "verify" /\ proc'[f].pc = "waiting"
                             /\ \A u \in Slots : u \notin {s, f} => proc'[u] = proc[u]
      BY <1>1, <2>2, EnqueueIs
    <3>2. tx'.status # "none"
      BY <1>5, <1>11, Busy DEF SagaTrue, Tame
    <3> QED BY <1>7, <2>2, <3>1, <3>2, TameQueued
  <2>3. CASE t # s /\ ~EnqueueVerify(s)
    <3>1. proc'[t] = proc[t] BY <1>1, <1>11, <2>3, LookingIs, Elsewhere
    <3> QED BY <1>7, <3>1
  <2> QED BY <2>1, <2>2, <2>3
<1>12. CASE \/ Debit \/ CreateTransaction \/ RequestLost \/ UNCHANGED vars
            \/ \E p \in Providers : \E i \in DOMAIN orders[p] : Settle(p, i)
  BY <1>7, <1>12 DEF Debit, CreateTransaction, RequestLost, vars, Settle
<1> QED BY <1>8, <1>9, <1>10, <1>11, <1>12 DEF Next, Controller

\* The attempt a job puts on record as a success was one.
LEMMA RecordIsTrue ==
  ASSUME Ready, SagaTrue, NEW s \in Slots, RecordAttempt(s), SuccessfulAttempt' PROVE Arrived
<1>1. CASE SuccessfulAttempt BY <1>1 DEF SagaTrue, RowTrue
<1>2. CASE ~SuccessfulAttempt
  <2> DEFINE r == [provider |-> Head(proc[s].cands), class |-> Class(proc[s].answer)]
  <2>1. attempts \in Seq(Record) BY TypeOKParts DEF Ready
  <2>2. attempts' = Append(attempts, r)
    BY <1>2 DEF RecordAttempt, SuccessfulAttempt, Attempts
  <2>3. r.class = Class(proc[s].answer) OBVIOUS
  <2> HIDE DEF r
  <2>4. PICK i \in DOMAIN attempts' : attempts'[i].class = "SUCCESS"
    BY DEF SuccessfulAttempt, Attempts
  <2>5. i \in DOMAIN attempts => attempts'[i] = attempts[i] BY <2>1, <2>2
  <2>6. i \notin DOMAIN attempts BY <1>2, <2>4, <2>5 DEF SuccessfulAttempt, Attempts
  <2>7. attempts'[i] = r BY <2>1, <2>2, <2>6
  <2>8. proc[s].pc = "record" /\ proc[s].answer \in KnownAnswers
    BY DEF RecordAttempt, SagaTrue, WarrantInv, Warranted
  <2>9. proc[s].answer = "ok" BY <2>3, <2>4, <2>7, <2>8 DEF Class, KnownAnswers
  <2> QED BY <2>8, <2>9 DEF SagaTrue, Tame
<1> QED BY <1>1, <1>2

LEMMA RowTrueKept ==
  ASSUME Sheltered, Ready, SagaTrue, [Next]_vars PROVE RowTrue'
<1>1. /\ tx \in Row /\ OrdersOK /\ JobsOK /\ SoleProvider /\ WarrantInv
  BY TypeOKParts DEF Ready, Sheltered, SagaTrue
<1>2. (Denial => Denial') /\ (Arrived => Arrived')
  BY <1>1, DenialStays, ArrivedStays DEF WarrantInv
<1>3. tx.status # "none" => tx'.status # "none" BY <1>1, RowStays
<1>4. SuccessfulAttempt' => Arrived'
  <2>1. CASE UNCHANGED attempts
    BY <1>2, <2>1 DEF SagaTrue, RowTrue, SuccessfulAttempt, Attempts
  <2>2. CASE \E s \in Slots : RecordAttempt(s) BY <1>2, <2>2, RecordIsTrue
  <2> QED BY <2>1, <2>2, Untouched
<1>5. api' = "add" => tx'.status # "none"
  <2>1. CASE CreateTransaction BY <1>1, <2>1, Written DEF CreateTransaction
  <2>2. CASE Debit \/ AddJob \/ RequestLost BY <2>2 DEF Debit, AddJob, RequestLost
  <2>3. CASE api' = api BY <1>3, <2>3 DEF SagaTrue, RowTrue
  <2> QED BY <2>1, <2>2, <2>3, JobsComeFrom DEF Controller
<1>6. (tx'.status = "successful" => Arrived') /\ (tx'.status = "failed" => Denial')
  <2>1. CASE UNCHANGED tx BY <1>2, <2>1 DEF SagaTrue, RowTrue
  <2>2. ASSUME NEW s \in Slots, Worker(s), tx' # tx
        PROVE  (tx'.status = "successful" => Arrived') /\ (tx'.status = "failed" => Denial')
    <3>1. Tame(s) BY DEF SagaTrue
    <3>2. CASE MarkProcessing(s) \/ HandlePending(s)
      BY <1>1, <3>2, Written DEF MarkProcessing, HandlePending
    <3>3. CASE HandleRequiresReview(s) \/ FinalizeRequiresReview(s)
      BY <1>1, <3>3, Written DEF HandleRequiresReview, FinalizeRequiresReview
    <3>4. CASE ReplayWrite(s)
      <4>1. SuccessfulAttempt /\ tx'.status = "successful"
        BY <1>1, <3>4, Written DEF ReplayWrite, SuccessfulAttempt
      <4> QED BY <1>2, <4>1 DEF SagaTrue, RowTrue
    <3>5. CASE HandleSuccess(s) \/ VerifySucceeded(s)
      <4>1. tx'.status = "successful" BY <1>1, <3>5, Written DEF HandleSuccess, VerifySucceeded
      <4>2. Arrived BY <3>1, <3>5 DEF HandleSuccess, VerifySucceeded, Tame
      <4> QED BY <1>2, <4>1, <4>2
    <3>6. CASE MarkFailed(s) \/ VerifyFailed(s)
      <4>1. tx'.status = "failed" BY <1>1, <3>6, Written DEF MarkFailed, VerifyFailed
      <4>2. Denial BY <3>1, <3>6 DEF MarkFailed, VerifyFailed, Tame
      <4> QED BY <1>2, <4>1, <4>2
    <3>7. ~(SafetyNetWrite(s) \/ TimeoutWrite(s) \/ DeadLetterWrite(s))
      BY <3>1 DEF SafetyNetWrite, TimeoutWrite, DeadLetterWrite, Tame, Beyond, DeadPc
    <3> QED BY <2>2, <3>2, <3>3, <3>4, <3>5, <3>6, <3>7, RowWriters
  <2>3. CASE CreateTransaction BY <1>1, <2>3, Written DEF CreateTransaction
  <2>4. CASE \/ Debit \/ AddJob \/ RequestLost \/ WorkerCrash \/ UNCHANGED vars
             \/ \E p \in Providers : \E i \in DOMAIN orders[p] : Settle(p, i)
    BY <2>1, <2>4 DEF Debit, AddJob, RequestLost, WorkerCrash, vars, Settle
  <2>5. ASSUME NEW s \in Slots, Timeout(s) \/ CallFails(s) PROVE UNCHANGED tx
    BY <2>5 DEF Timeout, CallFails
  <2> QED BY <2>1, <2>2, <2>3, <2>4, <2>5 DEF Next, Controller
<1> QED BY <1>4, <1>5, <1>6 DEF RowTrue

LEMMA SagaTrueKept ==
  ASSUME Sheltered, Ready, SagaTrue, [Next]_vars PROVE SagaTrue'
<1>1. OrdersOK /\ JobsOK /\ SoleProvider /\ WarrantInv /\ TypeOK
  BY TypeOKParts DEF Ready, Sheltered, SagaTrue
<1>2. WarrantInv' BY <1>1, WarrantPreserved
<1>3. OneOfEach' BY LedgerSteps DEF SagaTrue, OneOfEach
<1>4. RowTrue' BY RowTrueKept
<1>5. \A t \in Slots : Tame(t)' BY TameStays
<1> QED BY <1>2, <1>3, <1>4, <1>5 DEF SagaTrue

-----------------------------------------------------------------------------
(* So do the scans; the administrators are out of it by assumption.             *)

\* The invariant, for a step that leaves the jobs and the orders alone.
LEMMA TrueBeside ==
  ASSUME Ready, SagaTrue, UNCHANGED <<api, attempts, orders, proc>>, misread \subseteq misread',
         mishaps'.fault >= mishaps.fault, mishaps'.fault \in Nat,
         tx' = tx \/ (tx'.status = "successful" /\ Arrived) \/ (tx'.status = "failed" /\ Denial),
         UNCHANGED ledger \/ (Denial /\ ledger' = ledger \union {Refunded})
  PROVE  SagaTrue' /\ (Denial => Denial') /\ (Arrived' <=> Arrived)
<1>1. JobsOK /\ mishaps \in MishapCounts BY TypeOKParts DEF Ready
<1>2. (Denial => Denial') /\ (Arrived' <=> Arrived) BY DEF Denial, Rejection, Arrived, Delivered
<1>3. WarrantInv'
  <2>1. \A s \in Slots : Warranted(s)' BY <1>2 DEF SagaTrue, WarrantInv, Warranted
  <2>2. Refunded \in ledger' => Denial' BY <1>2 DEF SagaTrue, WarrantInv
  <2> QED BY <2>1, <2>2 DEF SagaTrue, WarrantInv
<1>4. OneOfEach' BY DEF SagaTrue, OneOfEach
<1>5. SuccessfulAttempt' => Arrived'
  BY <1>2 DEF SagaTrue, RowTrue, SuccessfulAttempt, Attempts
<1>6. RowTrue' BY <1>2, <1>5 DEF SagaTrue, RowTrue
<1>7. ASSUME NEW t \in Slots PROVE Tame(t)'
  <2>1. Tame(t) /\ proc[t] \in Jobs /\ proc'[t] = proc[t] BY <1>1 DEF SagaTrue, JobsOK
  <2>2. mishaps.fault \in Nat BY <1>1, Faults
  <2>3. tx.status # "none" => tx'.status # "none" OBVIOUS
  <2> QED BY <1>2, <2>1, <2>2, <2>3, TameKept
<1> QED BY <1>2, <1>3, <1>4, <1>6, <1>7 DEF SagaTrue

LEMMA ScanTrue ==
  ASSUME Sheltered, Ready, Noted, SagaTrue, \A d \in Scans : Faithful(d),
         NEW c \in Scans, Reconcile(c) \/ ScanFails(c) \/ ScanCrash(c)
  PROVE  SagaTrue' /\ \A d \in Scans : Faithful(d)'
<1>1. /\ tx \in Row /\ OrdersOK /\ mishaps \in MishapCounts /\ attempts \in Seq(Record)
      /\ SoleProvider /\ WarrantInv
  BY TypeOKParts DEF Ready, Sheltered, SagaTrue
<1>2. Faithful(c) OBVIOUS
<1>3. mishaps.fault \in Nat BY <1>1, Faults
<1>0. misread \subseteq misread'
  <2>1. CASE ScanQuery(c) BY <2>1, ScanQueryIs DEF MisreadVerdict
  <2>2. CASE ~ScanQuery(c)
    BY <2>2 DEF Reconcile, ScanSelect, ScanLastAttempt, ScanStamp, ScanLive,
       ScanStampRepaired, ScanHeal, ScanRefund, ScanFail, ScanFails, ScanCrash, vars, kept
  <2> QED BY <2>1, <2>2
<1>4. /\ UNCHANGED <<api, attempts, orders, proc>>
      /\ mishaps'.fault \in Nat /\ mishaps'.fault >= mishaps.fault
  <2>1. ScanFails(c) \/ ScanCrash(c) => /\ UNCHANGED <<api, attempts, orders, proc>>
                                       /\ mishaps'.fault \in Nat /\ mishaps'.fault >= mishaps.fault
    BY <1>1, Faults DEF ScanFails, ScanCrash
  <2>2. Reconcile(c) => UNCHANGED <<api, attempts, orders, proc, mishaps>>
    BY DEF Reconcile, ScanSelect, ScanLastAttempt, ScanQuery, ScanStamp, ScanLive,
       ScanStampRepaired, ScanHeal, ScanRefund, ScanFail, vars, kept
  <2> QED BY <1>3, <2>1, <2>2
<1>5. \/ tx' = tx
      \/ tx'.status = "successful" /\ Arrived
      \/ tx'.status = "failed" /\ Denial
  <2>1. CASE ScanHeal(c) BY <1>1, <1>2, <2>1, Written DEF ScanHeal, Faithful
  <2>2. CASE ScanFail(c) BY <1>1, <1>2, <2>2, Written DEF ScanFail, Faithful
  <2>3. CASE ~ScanHeal(c) /\ ~ScanFail(c)
    BY <2>3 DEF Reconcile, ScanSelect, ScanLastAttempt, ScanQuery, ScanStamp, ScanLive,
       ScanStampRepaired, ScanRefund, ScanFails, ScanCrash, vars
  <2> QED BY <2>1, <2>2, <2>3
<1>6. UNCHANGED ledger \/ (Denial /\ ledger' = ledger \union {Refunded})
  BY <1>2, ScanLedger DEF Faithful
<1>7. SagaTrue' /\ (Denial => Denial') /\ (Arrived' <=> Arrived)
  BY <1>0, <1>4, <1>5, <1>6, TrueBeside
<1>8. Faithful(c)' /\ \A d \in Scans : d # c => scan'[d] = scan[d]
  <2>1. CASE ScanSelect(c)
    BY <1>1, <2>1, SelectIs DEF Faithful, Row
  <2>2. CASE ScanLastAttempt(c) BY <1>1, <2>2, LastAttemptIs DEF Faithful
  <2>3. CASE ScanQuery(c)
    <3>1. PICK verdict \in Verdicts(scan[c].at, Lost(scan[c].id)) :
            Step(c, AfterQuery(c, verdict)) /\ MisreadVerdict(scan[c].at, verdict)
      BY <2>3, ScanQueryIs
    <3>2. scan[c].at \in Providers BY <1>2, <2>3 DEF ScanQuery, Faithful
    <3>3. (verdict = "rejected" => Denial') /\ (verdict = "delivered" => Arrived)
      BY <1>1, <1>4, <3>1, <3>2, VerdictIsTrue DEF WarrantInv
    <3>4. /\ AfterQuery(c, verdict) \in {"live", "fail", "refund", "stamp"}
          /\ AfterQuery(c, verdict) = "live" => verdict = "delivered"
          /\ AfterQuery(c, verdict) \in {"fail", "refund"} => verdict = "rejected"
      BY DEF AfterQuery
    <3>5. /\ scan'[c].pc = AfterQuery(c, verdict)
          /\ \A d \in Scans : d # c => scan'[d] = scan[d]
      BY <3>1, <3>4, StepIs
    <3> QED BY <1>7, <3>3, <3>4, <3>5 DEF Faithful
  <2>4. CASE ScanLive(c)
    <3>1. scan[c].pc = "live" /\ Step(c, IF tx.status = "successful" THEN "stampRepaired" ELSE "heal")
      BY <2>4 DEF ScanLive
    <3> QED BY <1>2, <1>7, <3>1, StepIs DEF Faithful
  <2>5. CASE ScanRefund(c) BY <1>2, <1>7, <2>5, RefundIs DEF Faithful
  <2>6. CASE Leave(c)
    <3>1. Idle.pc = "idle" BY DEF Idle
    <3> QED BY <2>6, <3>1, LeaveIs DEF Faithful
  <2>7. ScanStamp(c) \/ ScanStampRepaired(c) \/ ScanHeal(c) \/ ScanFail(c) \/ ScanFails(c)
          \/ ScanCrash(c) => Leave(c)
    BY DEF ScanStamp, ScanStampRepaired, ScanHeal, ScanFail, ScanFails, ScanCrash
  <2> QED BY <2>1, <2>2, <2>3, <2>4, <2>5, <2>6, <2>7 DEF Reconcile
<1>9. ASSUME NEW d \in Scans PROVE Faithful(d)'
  <2>1. CASE d = c BY <1>8, <2>1
  <2>2. CASE d # c
    <3>1. Faithful(d) /\ scan'[d] = scan[d] BY <1>8, <2>2
    <3> QED BY <1>7, <3>1 DEF Faithful
  <2> QED BY <2>1, <2>2
<1> QED BY <1>7, <1>9

\* An administrator who acts is counted.
LEMMA DeskCounted ==
  ASSUME Noted, NEW a \in Admins, desk[a].pc = "idle",
         Intervene(a) \/ Proceed(a) \/ RequestFails(a)
  PROVE  interventions' # 0
<1>1. interventions \in Nat BY RecoveryAssumption DEF Noted
<1>2. CASE Intervene(a)
  <2>1. interventions' = interventions + 1
    BY <1>2 DEF Intervene, RetryRead, RetryFailedJob, MarkStuckRead, IssueManualRefund,
       RepairFind, RepairWithToken, Take
  <2> QED BY <1>1, <2>1
<1>3. CASE Proceed(a) \/ RequestFails(a)
  BY <1>3 DEF Proceed, RetryWrite, RetryAdd, MarkStuckTransactionFailed, RepairVerify,
     RepairProviderSuccess, RequestFails
<1> QED BY <1>2, <1>3

LEMMA AgreedStep ==
  ASSUME Sheltered, Ready, Noted, Agreed, [RNext]_rvars PROVE Agreed'
<1> SUFFICES ASSUME interventions' = 0
             PROVE  /\ SagaTrue' /\ \A c \in Scans : Faithful(c)'
                    /\ \A a \in Admins : desk'[a].pc = "idle"
  BY DEF Agreed
<1>1. interventions \in Nat BY RecoveryAssumption DEF Noted
<1>2. interventions = 0 => /\ SagaTrue /\ \A c \in Scans : Faithful(c)
                           /\ \A a \in Admins : desk[a].pc = "idle"
  BY DEF Agreed
<1>3. CASE [Next]_vars /\ UNCHANGED recovery
  <2>1. UNCHANGED <<scan, desk, interventions>> BY <1>3 DEF recovery
  <2>2. OrdersOK /\ JobsOK /\ SoleProvider /\ WarrantInv
    BY <1>2, <2>1, TypeOKParts DEF Ready, Sheltered, SagaTrue
  <2>3. (Denial => Denial') /\ (Arrived => Arrived')
    BY <1>3, <2>2, DenialStays, ArrivedStays DEF WarrantInv
  <2>4. SagaTrue' BY <1>2, <1>3, <2>1, SagaTrueKept
  <2> QED BY <1>2, <2>1, <2>3, <2>4 DEF Faithful
<1>4. ASSUME NEW c \in Scans, Reconcile(c) \/ ScanFails(c) \/ ScanCrash(c)
      PROVE  /\ SagaTrue' /\ \A d \in Scans : Faithful(d)'
             /\ \A a \in Admins : desk'[a].pc = "idle"
  <2>1. UNCHANGED <<desk, interventions>>
    BY <1>4 DEF Reconcile, ScanSelect, ScanLastAttempt, ScanQuery, ScanStamp, ScanLive,
       ScanStampRepaired, ScanHeal, ScanRefund, ScanFail, ScanFails, ScanCrash
  <2> QED BY <1>2, <1>4, <2>1, ScanTrue
<1>5. ASSUME NEW a \in Admins, Intervene(a) \/ Proceed(a) \/ RequestFails(a) PROVE FALSE
  <2>1. interventions' >= interventions
    BY <1>1, <1>5 DEF Intervene, Proceed, RequestFails, RetryRead, RetryFailedJob, MarkStuckRead,
       IssueManualRefund, RepairFind, RepairWithToken, Take, RetryWrite, RetryAdd,
       MarkStuckTransactionFailed, RepairVerify, RepairProviderSuccess
  <2>2. interventions = 0 BY <1>1, <2>1
  <2> QED BY <1>2, <1>5, <2>2, DeskCounted
<1>6. CASE UNCHANGED rvars BY <1>3, <1>6 DEF rvars, vars
<1> QED BY <1>3, <1>4, <1>5, <1>6 DEF RNext, Saga

\* VTU purchases from one provider that deduplicates, with fewer mishaps than a job has
\* attempts and no administrator at work: a purchase that the workers and the scans call
\* successful was delivered and is paid for, one they call failed was refused, and none
\* is refunded that was, or may still be, delivered -- unless the adapter called the order
\* failed: then it may be failed and refunded, and one that a scan still finds delivered
\* is successful beside the refund.  The hypothesis bounds only what may go wrong; it
\* says nothing of the number of jobs, scans or polls, nor of what the queries miss.
THEOREM AgreedOutcomeIsTrue == ASSUME Sheltered PROVE RSpec => []OutcomeIsTrue
<1>1. RInit => Agreed
  <2> SUFFICES ASSUME RInit PROVE Agreed OBVIOUS
  <2>1. Free.pc = "free" /\ Free.kind = "free" /\ Idle.pc = "idle" /\ NoRequest.pc = "idle"
    BY DEF Free, Idle, NoRequest
  <2>2. WarrantInv
    <3>1. Len(<<>>) <= 1 OBVIOUS
    <3> QED BY <2>1, <3>1 DEF RInit, Init, WarrantInv, Warranted
  <2>3. RowTrue BY DEF RInit, Init, RowTrue, SuccessfulAttempt, Attempts
  <2>4. \A s \in Slots : Tame(s) BY <2>1 DEF RInit, Init, Tame, Beyond, DeadPc
  <2>5. OneOfEach BY DEF RInit, Init, OneOfEach
  <2>6. \A c \in Scans : Faithful(c) BY <2>1 DEF RInit, Faithful
  <2>7. \A a \in Admins : desk[a].pc = "idle" BY <2>1 DEF RInit
  <2> QED BY <2>2, <2>3, <2>4, <2>5, <2>6, <2>7 DEF Agreed, SagaTrue
<1>2. Ready /\ Noted /\ Agreed /\ [RNext]_rvars => Agreed' BY AgreedStep
<1>3. Ready /\ Agreed => OutcomeIsTrue
  <2> SUFFICES ASSUME Ready, Agreed, interventions = 0
               PROVE  /\ NoRefundOfDelivered
                      /\ tx.status = "successful" =>
                           Arrived /\ (Batches("refund") = {} \/ misread # {})
                      /\ tx.status = "failed" => \A p \in Providers : Declined(p)
    BY DEF OutcomeIsTrue, Arrived
  <2>1. SagaTrue BY DEF Agreed
  <2>2. Batches("refund") # {} => Denial
    BY <2>1 DEF SagaTrue, OneOfEach, Batches, Debited, Refunded, WarrantInv
  <2>3. Denial => \A p \in Providers : Declined(p)
    <3>1. \A i \in DOMAIN <<"rejected">> : <<"rejected">>[i] = "rejected" OBVIOUS
    <3>2. misread \subseteq Providers BY TypeOKParts DEF Ready
    <3>3. misread # {} => \A p \in Providers : p \in misread
      BY <3>2, OneProvider DEF Sheltered
    <3> QED BY <3>1, <3>3 DEF Denial, Rejection, Declined, Refused
  <2>4. tx.status = "successful" => Arrived BY <2>1 DEF SagaTrue, RowTrue
  <2>5. tx.status = "failed" => Denial BY <2>1 DEF SagaTrue, RowTrue
  <2> QED BY <2>2, <2>3, <2>4, <2>5, Apart DEF NoRefundOfDelivered
<1> QED BY <1>1, <1>2, <1>3, RecoveryStarts, RecoverySound, PTL DEF RSpec
=============================================================================
