---------------------------- MODULE CreditProofs ----------------------------
(* Theorems about the ways money is promised to a wallet.  WalletFunding, for  *)
(* every number of requests, of attempts and of mishaps: the flag, the credit  *)
(* and the replies agree.  VirtualAccounts: every visit shows the one account  *)
(* that is recorded.  ReferralReward, for any number of referred users, calls  *)
(* and tiers: the rewards shown are paid, those paid are earned, and no        *)
(* milestone is missed; the invariant has a part for each mode, and a call     *)
(* disturbs one of them at a time.                                             *)
EXTENDS WalletFunding, VirtualAccounts, ReferralReward, FiniteSetTheorems, TLAPS

-----------------------------------------------------------------------------
\* The payment.

\* What a payment must be before any actor is on its way to crediting it: a job
\* exists only for a payment that was announced, and whoever is past the gateway
\* deals with a payment that was made to a known account.
Announced ==
  /\ hook # "idle" => paid
  /\ at[Job].pc # "absent" => paid
  /\ kind = "stray" => row.status = "none"
  /\ \A a \in Actors : at[a].pc \in {"verify", "unpaid", "create"} => kind # "stray"
  /\ \A a \in Actors :
       at[a].pc \in {"create", "credit", "historyRead", "historyWrite", "mark"} =>
         paid /\ kind # "stray"

\* What each actor has done by the time it is where it is.
Progress ==
  \A a \in Actors :
    /\ at[a].pc \in {"historyRead", "historyWrite", "mark"} => credits # {}
    /\ at[a].pc = "mark" => history
    /\ at[a].reply = "success" => credits # {} /\ history

OneKey == credits \subseteq {<<"credit">>} /\ (credits # {} => paid /\ kind # "stray")

FInv == FTypeOK /\ Announced /\ Progress /\ OneKey /\ VerifiedIsFunded

-----------------------------------------------------------------------------
-----------------------------------------------------------------------------
\* The states an actor begins in, and those a webhook job is put back into.
LEMMA FreshStates ==
  /\ Absent \in States /\ Absent.pc = "absent" /\ Absent.reply = "none"
  /\ Waiting \in States /\ Waiting.pc = "waiting" /\ Waiting.reply = "none"
<1>1. 0 \in 0..(MaxAttempts - 1) BY FundingAssumption
<1> QED BY <1>1 DEF Absent, Waiting, States

LEMMA InitEstablishes == Init => FInv
<1> SUFFICES ASSUME Init PROVE FInv OBVIOUS
<1>1. /\ at \in [Actors -> States]
      /\ at[Job] = Absent
      /\ \A a \in Actors : at[a].pc \in {"absent", "waiting"} /\ at[a].reply = "none"
  BY FreshStates DEF Init, Actors
<1>2. FTypeOK
  <2>1. deliveries \in 0..MaxDeliveries /\ mishaps \in 0..MaxMishaps
    BY FundingAssumption DEF Init
  <2> QED BY <1>1, <2>1 DEF Init, FTypeOK
<1>3. Announced BY <1>1, FreshStates DEF Init, Announced
<1>4. Progress BY <1>1 DEF Init, Progress
<1> QED BY <1>2, <1>3, <1>4 DEF Init, FInv, OneKey, VerifiedIsFunded

\* What a rejected actor becomes: a waiting or dead job, or a request that is over
\* without success.
LEMMA RejectedState ==
  ASSUME FTypeOK, NEW a \in Actors
  PROVE  /\ Rejected(a) \in States
         /\ Rejected(a).pc \in {"waiting", "dead", "done"}
         /\ Rejected(a).reply # "success"
<1>1. at[a] \in States BY DEF FTypeOK
<1>2. CASE a # Job
  BY <1>1, <1>2 DEF Rejected, States
<1>3. CASE a = Job /\ Retries(at[a].made + 1)
  <2>1. /\ at[a].made + 1 \in 0..(MaxAttempts - 1) /\ at[a].stalled \in BOOLEAN
    BY <1>1, <1>3, FundingAssumption DEF States, Retries
  <2>2. Rejected(a) = [Waiting EXCEPT !.made = at[a].made + 1, !.stalled = at[a].stalled]
    BY <1>3 DEF Rejected
  <2> QED BY <2>1, <2>2 DEF States, Waiting, Absent
<1>4. CASE a = Job /\ ~Retries(at[a].made + 1)
  <2>1. Rejected(a) = [Absent EXCEPT !.pc = "dead"] BY <1>4 DEF Rejected
  <2> QED BY <2>1, FreshStates DEF States
<1> QED BY <1>2, <1>3, <1>4

\* An actor whose call was rejected leaves everything else as it was.
LEMMA RejectionPreserves ==
  ASSUME FInv, NEW a \in Actors, at[a].pc \in Running, at' = [at EXCEPT ![a] = Rejected(a)],
         UNCHANGED <<row, history, credits, mishaps, outside>>
  PROVE  FInv'
<1>1. /\ Rejected(a) \in States /\ Rejected(a).pc \in {"waiting", "dead", "done"}
      /\ Rejected(a).reply # "success"
  BY RejectedState DEF FInv
<1>2. at[a].pc # "absent" BY DEF Running
<1> QED
  BY <1>1, <1>2
  DEF outside, FInv, FTypeOK, Announced, Progress, OneKey, VerifiedIsFunded

LEMMA InitializePreserves ==
  ASSUME FInv, Initialize PROVE FInv'
  BY DEF Initialize, outside,
     FInv, FTypeOK, Announced, Progress, OneKey, VerifiedIsFunded

LEMMA PayPreserves ==
  ASSUME FInv, Pay PROVE FInv'
  BY DEF Pay,
     FInv, FTypeOK, Announced, Progress, OneKey, VerifiedIsFunded

LEMMA DeliverPreserves ==
  ASSUME FInv, Deliver PROVE FInv'
  BY FundingAssumption DEF Deliver,
     FInv, FTypeOK, Announced, Progress, OneKey, VerifiedIsFunded

LEMMA StoreWebhookEventPreserves ==
  ASSUME FInv, StoreWebhookEvent PROVE FInv'
  BY DEF StoreWebhookEvent,
     FInv, FTypeOK, Announced, Progress, OneKey, VerifiedIsFunded

LEMMA AddWebhookJobPreserves ==
  ASSUME FInv, AddWebhookJob PROVE FInv'
<1>1. CASE at[Job].pc = "absent"
  <2>1. at' = [at EXCEPT ![Job] = Waiting] BY <1>1 DEF AddWebhookJob
  <2>2. Job \in Actors BY DEF Actors
  <2>3. FTypeOK' BY <2>1, FreshStates DEF AddWebhookJob, FInv, FTypeOK
  <2>4. Announced' BY <2>1, <2>2, FreshStates DEF AddWebhookJob, FInv, FTypeOK, Announced
  <2>5. Progress' BY <2>1, <2>2, FreshStates DEF AddWebhookJob, FInv, Progress
  <2> QED BY <2>3, <2>4, <2>5 DEF AddWebhookJob, FInv, OneKey, VerifiedIsFunded
<1>2. CASE at[Job].pc # "absent"
  BY <1>2 DEF AddWebhookJob, FInv, FTypeOK, Announced, Progress, OneKey, VerifiedIsFunded
<1> QED BY <1>1, <1>2

LEMMA WebhookFailsPreserves ==
  ASSUME FInv, WebhookFails PROVE FInv'
  BY FundingAssumption DEF WebhookFails, Mishap,
     FInv, FTypeOK, Announced, Progress, OneKey, VerifiedIsFunded

LEMMA ForgetPreserves ==
  ASSUME FInv, Forget PROVE FInv'
  BY FundingAssumption DEF Forget, Absent, outside,
     FInv, FTypeOK, Announced, Progress, OneKey, VerifiedIsFunded, States, Actors

LEMMA StartPreserves ==
  ASSUME FInv, NEW a \in Actors, Start(a) PROVE FInv'
  BY DEF Start, Goto, outside,
     FInv, FTypeOK, Announced, Progress, OneKey, VerifiedIsFunded, States, Running

LEMMA LoadPreserves ==
  ASSUME FInv, NEW a \in Actors, Load(a) PROVE FInv'
  BY DEF Load, Verified, Finish, Goto, AfterLoad, outside,
     FInv, FTypeOK, Announced, Progress, OneKey, VerifiedIsFunded, States, Running, Actors

LEMMA AskPreserves ==
  ASSUME FInv, NEW a \in Actors, Verify(a) PROVE FInv'
  BY DEF Verify, Unpaid, Goto, outside,
     FInv, FTypeOK, Announced, Progress, OneKey, VerifiedIsFunded, States, Running, Actors

LEMMA WriteUnpaidPreserves ==
  ASSUME FInv, NEW a \in Actors, WriteUnpaid(a) PROVE FInv'
  BY DEF WriteUnpaid, Finish, outside,
     FInv, FTypeOK, Announced, Progress, OneKey, VerifiedIsFunded, States, Actors

LEMMA CreateFundingTransactionPreserves ==
  ASSUME FInv, NEW a \in Actors, CreateFundingTransaction(a) PROVE FInv'
<1>1. CASE row.status = "none"
  <2>1. /\ row' = [status |-> "pending", verified |-> FALSE]
        /\ at' = [at EXCEPT ![a].pc = "credit"]
        /\ UNCHANGED <<history, credits, mishaps, kind, paid, hook, acked, deliveries>>
    BY <1>1 DEF CreateFundingTransaction, Goto, outside
  <2>2. at[a].pc = "create" BY DEF CreateFundingTransaction
  <2>3. FTypeOK' BY <2>1 DEF FInv, FTypeOK, States, Running
  <2>4. Announced' BY <2>1, <2>2 DEF FInv, FTypeOK, States, Announced
  <2>5. Progress' BY <2>1, <2>2 DEF FInv, Progress
  <2> QED BY <2>1, <2>3, <2>4, <2>5 DEF FInv, OneKey, VerifiedIsFunded
<1>2. CASE row.status # "none"
  <2>1. at' = [at EXCEPT ![a] = Rejected(a)] BY <1>2 DEF CreateFundingTransaction, Reject
  <2>2. UNCHANGED <<row, history, credits, mishaps, outside>> BY <1>2 DEF CreateFundingTransaction
  <2>3. at[a].pc \in Running BY DEF CreateFundingTransaction, Running
  <2> QED BY <2>1, <2>2, <2>3, RejectionPreserves
<1> QED BY <1>1, <1>2

LEMMA CreditPreserves ==
  ASSUME FInv, NEW a \in Actors, Credit(a) PROVE FInv'
<1>1. credits' = credits \union {<<"credit">>} /\ paid /\ kind # "stray"
  BY DEF Credit, CreditKey, FInv, Announced
<1>2. FTypeOK'
  BY <1>1 DEF Credit, AfterCredit, Goto, outside, FInv, FTypeOK, States, Running
<1>3. Announced'
  BY DEF Credit, AfterCredit, outside, FInv, Announced
<1>4. Progress' /\ OneKey' /\ VerifiedIsFunded'
  BY <1>1 DEF Credit, AfterCredit, Goto, outside, FInv, Progress, OneKey, VerifiedIsFunded
<1> QED BY <1>2, <1>3, <1>4 DEF FInv

LEMMA HistoryReadPreserves ==
  ASSUME FInv, NEW a \in Actors, HistoryRead(a) PROVE FInv'
  BY FundingAssumption DEF HistoryRead, Goto, Mishap, outside,
     FInv, FTypeOK, Announced, Progress, OneKey, VerifiedIsFunded, States, Running

LEMMA HistoryWritePreserves ==
  ASSUME FInv, NEW a \in Actors, HistoryWrite(a) PROVE FInv'
  BY RejectedState DEF HistoryWrite, Goto, outside, Reject,
     FInv, FTypeOK, Announced, Progress, OneKey, VerifiedIsFunded, States, Running

LEMMA MarkVerifiedPreserves ==
  ASSUME FInv, NEW a \in Actors, MarkVerified(a) PROVE FInv'
  BY DEF MarkVerified, Finish, outside,
     FInv, FTypeOK, Announced, Progress, OneKey, VerifiedIsFunded, States

LEMMA CallFailsPreserves ==
  ASSUME FInv, NEW a \in Actors, CallFails(a) PROVE FInv'
  BY FundingAssumption, RejectedState DEF CallFails, Mishap, outside, Reject,
     FInv, FTypeOK, Announced, Progress, OneKey, VerifiedIsFunded, Running

LEMMA ProcessDiesPreserves ==
  ASSUME FInv, NEW a \in Actors, ProcessDies(a) PROVE FInv'
<1> DEFINE s == IF a # Job THEN [at[a] EXCEPT !.pc = "done", !.reply = "error"]
                ELSE IF at[a].stalled THEN [Absent EXCEPT !.pc = "dead"]
                ELSE [Waiting EXCEPT !.made = at[a].made, !.stalled = TRUE]
<1>1. at' = [at EXCEPT ![a] = s] /\ s \in States
      /\ s.pc \in {"waiting", "dead", "done"} /\ s.reply # "success"
  <2>1. at[a] \in States BY DEF FInv, FTypeOK
  <2>2. at' = [at EXCEPT ![a] = s] BY DEF ProcessDies
  <2>3. CASE a # Job BY <2>1, <2>2, <2>3 DEF States
  <2>4. CASE a = Job /\ at[a].stalled
    BY <2>2, <2>4, FreshStates DEF States
  <2>5. CASE a = Job /\ ~at[a].stalled
    <3>1. s = [Waiting EXCEPT !.made = at[a].made, !.stalled = TRUE] BY <2>5
    <3>2. s \in States BY <2>1, <3>1, FreshStates DEF States
    <3>3. s.pc = "waiting" /\ s.reply = "none" BY <3>1 DEF Waiting, Absent
    <3> QED BY <2>2, <3>2, <3>3
  <2> QED BY <2>2, <2>3, <2>4, <2>5
<1>2. UNCHANGED <<row, history, credits, kind, paid, hook, acked, deliveries>>
  BY DEF ProcessDies, outside
<1>3. mishaps' \in 0..MaxMishaps
  BY FundingAssumption DEF ProcessDies, Mishap, FInv, FTypeOK
<1>4. at[a].pc # "absent" BY DEF ProcessDies, Running
<1> HIDE DEF s
<1> QED
  BY <1>1, <1>2, <1>3, <1>4
  DEF FInv, FTypeOK, Announced, Progress, OneKey, VerifiedIsFunded

LEMMA FundingStep == FInv /\ [Next]_vars => FInv'
<1> SUFFICES ASSUME FInv, [Next]_vars PROVE FInv' OBVIOUS
<1>1. CASE UNCHANGED vars
  BY <1>1 DEF vars, FInv, FTypeOK, Announced, Progress, OneKey, VerifiedIsFunded
<1>2. CASE Initialize \/ Pay \/ Deliver \/ Webhook \/ WebhookFails \/ Forget
  BY <1>2, InitializePreserves, PayPreserves, DeliverPreserves, StoreWebhookEventPreserves,
     AddWebhookJobPreserves, WebhookFailsPreserves, ForgetPreserves DEF Webhook
<1>3. ASSUME NEW a \in Actors, Step(a) \/ CallFails(a) \/ ProcessDies(a) PROVE FInv'
  BY <1>3, StartPreserves, LoadPreserves, AskPreserves, WriteUnpaidPreserves,
     CreateFundingTransactionPreserves, CreditPreserves, HistoryReadPreserves,
     HistoryWritePreserves, MarkVerifiedPreserves, CallFailsPreserves, ProcessDiesPreserves
     DEF Step
<1> QED BY <1>1, <1>2, <1>3 DEF Next

THEOREM FInvariant == Spec => []FInv
BY InitEstablishes, FundingStep, PTL DEF Spec

\* Every variable keeps its type, and the job's attempts stay within their limit.
THEOREM FundingTypeCorrect == Spec => []FTypeOK
<1>1. FInv => FTypeOK BY DEF FInv
<1> QED BY <1>1, FInvariant, PTL

\* What the invariant says of the wallet: one credit at most, and nothing said of
\* money that did not arrive.
LEMMA FundingKeeps == FInv => FundedOnce /\ FundingIsTrue
<1> SUFFICES ASSUME FInv PROVE FundedOnce /\ FundingIsTrue OBVIOUS
<1>1. credits = {} \/ credits = {<<"credit">>} BY DEF FInv, OneKey
<1>2. Cardinality({}) = 0 BY FS_EmptySet
<1>3. Cardinality({<<"credit">>}) = 1 BY FS_Singleton
<1>4. FundedOnce BY <1>1, <1>2, <1>3 DEF FInv, OneKey, FundedOnce
<1>5. VerifiedIsFunded BY DEF FInv
<1>6. SuccessIsFunded BY DEF FInv, Progress, SuccessIsFunded, Actors
<1> QED BY <1>4, <1>5, <1>6 DEF FundingIsTrue

\* However many verify requests race with the job and its retries, the wallet is
\* credited once at most, and only for a payment made to a known account.
THEOREM FundingOnce == Spec => []FundedOnce
BY FInvariant, FundingKeeps, PTL

\* The flag that ends the handling of a payment is set after the credit and the
\* history, by whichever actor sets it, and a request answered "success" is about
\* money that is in the wallet: neither speaks of money that did not arrive.
THEOREM FundingTruthful == Spec => []FundingIsTrue
BY FInvariant, FundingKeeps, PTL

-----------------------------------------------------------------------------
\* The customer's account.

\* Where a visit is tells what it heard, what it was told of and what it showed.
VisitsTrue ==
  \A v \in Visits :
    /\ visit[v].pc \in {"find", "check", "ask"} => visit[v].heard = "nothing"
    /\ visit[v].pc = "create" => visit[v].heard \in {"none", "error"}
    /\ visit[v].pc = "insert" => visit[v].number \in 1..opened
    /\ visit[v].pc = "reread" => accountRow # 0
    /\ visit[v].shown # 0 => visit[v].shown = accountRow

\* An account is there because a creation's answer was lost, or because a visit that
\* heard of none went on to create one.
Opener(v) ==
  visit[v].lost \/ (visit[v].heard \in {"none", "error"} /\ visit[v].pc # "create")

OpenedByOne == opened >= 1 => \E v \in Visits : Opener(v)
SpareHasCause == opened > 1 => SpareExplained

AccountInv == AccountTypeOK /\ VisitsTrue /\ OpenedByOne /\ SpareHasCause

LEMMA AccountStarts == AccountInit => AccountInv
<1> SUFFICES ASSUME AccountInit PROVE AccountInv OBVIOUS
<1>1. AccountTypeOK BY DEF AccountInit, AccountTypeOK, VisitStates
<1>2. VisitsTrue BY DEF AccountInit, VisitsTrue
<1>3. OpenedByOne /\ SpareHasCause BY DEF AccountInit, OpenedByOne, SpareHasCause
<1> QED BY <1>1, <1>2, <1>3 DEF AccountInv

\* A step of a visit that opens nothing: what it heard and lost only grows.
LEMMA QuietStep ==
  ASSUME AccountInv, NEW v \in Visits, opened' = opened,
         \A w \in Visits : w # v => visit'[w] = visit[w],
         visit[v].heard # "nothing" => visit'[v].heard = visit[v].heard,
         visit[v].lost => visit'[v].lost,
         visit[v].pc # "create" => visit'[v].pc # "create" \/ visit[v].heard = "nothing"
  PROVE  OpenedByOne' /\ SpareHasCause'
<1>1. \A w \in Visits : Opener(w) => Opener(w)' BY DEF Opener
<1>2. OpenedByOne' BY <1>1 DEF AccountInv, OpenedByOne
<1>3. SpareExplained => SpareExplained' BY DEF SpareExplained
<1> QED BY <1>2, <1>3 DEF AccountInv, SpareHasCause

\* An account more: its opener has heard of none, or lost the answer.
LEMMA SpareStep ==
  ASSUME AccountInv, NEW v \in Visits, visit[v].pc = "create", opened' = opened + 1,
         \A w \in Visits : w # v => visit'[w] = visit[w],
         visit'[v].heard = visit[v].heard, visit[v].lost => visit'[v].lost,
         visit'[v].lost \/ visit'[v].pc # "create"
  PROVE  OpenedByOne' /\ SpareHasCause'
<1>1. visit[v].heard \in {"none", "error"} BY DEF AccountInv, VisitsTrue
<1>2. OpenedByOne' BY <1>1 DEF OpenedByOne, Opener
<1>3. CASE opened = 0 BY <1>2, <1>3 DEF SpareHasCause
<1>4. CASE opened # 0
  <2>1. opened \in Nat /\ opened >= 1 BY <1>4 DEF AccountInv, AccountTypeOK
  <2>2. PICK w \in Visits : Opener(w) BY <2>1 DEF AccountInv, OpenedByOne
  <2>3. CASE visit[w].lost
    <3>1. visit'[w].lost BY <2>3
    <3>2. SpareExplained' BY <3>1 DEF SpareExplained
    <3> QED BY <1>2, <3>2 DEF SpareHasCause
  <2>4. CASE ~visit[w].lost
    <3>1. w # v /\ visit[w].heard \in {"none", "error"} BY <2>2, <2>4 DEF Opener
    <3>2. visit'[w] = visit[w] BY <3>1
    <3>3. SpareExplained' BY <1>1, <3>1, <3>2 DEF SpareExplained
    <3> QED BY <1>2, <3>3 DEF SpareHasCause
  <2> QED BY <2>3, <2>4
<1> QED BY <1>2, <1>3, <1>4

LEMMA VisitPreserves ==
  ASSUME AccountInv, NEW v \in Visits,
         \/ FindRow(v) \/ CheckProfile(v) \/ FetchAccount(v) \/ CreateAccount(v)
         \/ CreationFails(v) \/ InsertRow(v) \/ RereadRow(v) \/ VisitFails(v)
  PROVE  AccountInv'
<1>a. /\ accountGateway \in {"paystack", "squad"} /\ opened \in Nat /\ accountRow \in 0..opened
      /\ visit \in [Visits -> VisitStates]
  BY DEF AccountInv, AccountTypeOK
<1>b. VisitsTrue BY DEF AccountInv
<1>1. CASE FindRow(v)
  <2>1. AccountTypeOK' /\ VisitsTrue'
    BY <1>1, <1>a, <1>b DEF FindRow, VisitAt, Show, AccountTypeOK, VisitsTrue, VisitStates
  <2>2. OpenedByOne' /\ SpareHasCause'
    BY <1>1, <1>a, QuietStep DEF FindRow, VisitAt, Show, VisitStates
  <2> QED BY <2>1, <2>2 DEF AccountInv
<1>2. CASE CheckProfile(v)
  <2>1. AccountTypeOK' /\ VisitsTrue'
    BY <1>2, <1>a, <1>b DEF CheckProfile, VisitAt, AccountTypeOK, VisitsTrue, VisitStates
  <2>2. OpenedByOne' /\ SpareHasCause'
    BY <1>2, <1>a, QuietStep DEF CheckProfile, VisitAt, VisitStates
  <2> QED BY <2>1, <2>2 DEF AccountInv
<1>3. CASE FetchAccount(v)
  <2> DEFINE Told(pc, n, heard) ==
        visit' = [visit EXCEPT ![v].pc = pc, ![v].number = n, ![v].heard = heard]
  <2>1. \/ \E n \in 1..opened : Told("insert", n, "found")
        \/ \E h \in {"none", "error"} : Told("create", visit[v].number, h)
    BY <1>3, <1>a DEF FetchAccount, VisitStates
  <2>2. /\ visit[v].heard = "nothing" /\ visit[v].pc = "ask"
        /\ UNCHANGED <<accountGateway, opened, accountRow>>
    BY <1>3, <1>b DEF FetchAccount, VisitsTrue
  <2>3. ASSUME NEW n \in Nat, NEW h \in {"none", "error", "found"}, NEW pc \in {"create", "insert"},
               pc = "insert" => n \in 1..opened, pc = "create" => h # "found", Told(pc, n, h)
        PROVE  AccountInv'
    <3>1. AccountTypeOK' BY <1>a, <2>2, <2>3 DEF AccountTypeOK, VisitStates
    <3>2. VisitsTrue' BY <1>a, <1>b, <2>2, <2>3 DEF VisitsTrue, VisitStates
    <3>3. OpenedByOne' /\ SpareHasCause' BY <1>a, <2>2, <2>3, QuietStep DEF VisitStates
    <3> QED BY <3>1, <3>2, <3>3 DEF AccountInv
  <2>4. visit[v].number \in Nat BY <1>a DEF VisitStates
  <2>5. \A n \in 1..opened : n \in Nat BY <1>a
  <2> HIDE DEF Told
  <2>6. ASSUME NEW n \in 1..opened, Told("insert", n, "found") PROVE AccountInv'
    BY <2>3, <2>5, <2>6
  <2>7. ASSUME NEW h \in {"none", "error"}, Told("create", visit[v].number, h) PROVE AccountInv'
    BY <2>3, <2>4, <2>7
  <2> QED BY <2>1, <2>6, <2>7
<1>4. CASE CreateAccount(v)
  <2>a. AccountTypeOK'
    <3>1. opened + 1 \in Nat /\ accountRow \in 0..(opened + 1) BY <1>a
    <3>2. [visit[v] EXCEPT !.pc = "insert", !.number = opened + 1] \in VisitStates
      BY <1>a, <3>1 DEF VisitStates
    <3>3. visit' = [visit EXCEPT ![v] = [visit[v] EXCEPT !.pc = "insert", !.number = opened + 1]]
      BY <1>4, <1>a DEF CreateAccount
    <3>4. visit' \in [Visits -> VisitStates] BY <1>a, <3>2, <3>3
    <3> QED BY <1>4, <1>a, <3>1, <3>4 DEF CreateAccount, AccountTypeOK
  <2>1. VisitsTrue' BY <1>4, <1>a, <1>b DEF CreateAccount, VisitsTrue, VisitStates
  <2>2. OpenedByOne' /\ SpareHasCause'
    BY <1>4, <1>a, SpareStep DEF CreateAccount, VisitStates
  <2> QED BY <2>a, <2>1, <2>2 DEF AccountInv
<1>5. CASE CreationFails(v)
  <2> DEFINE more == visit[v].bank < Banks
  <2>1. PICK lost \in BOOLEAN :
          /\ opened' = IF lost THEN opened + 1 ELSE opened
          /\ visit' = [visit EXCEPT
               ![v].pc = IF more THEN "create" ELSE "done",
               ![v].bank = IF more THEN visit[v].bank + 1 ELSE visit[v].bank,
               ![v].lost = lost \/ visit[v].lost]
    BY <1>5 DEF CreationFails
  <2>2. Banks \in 1..2 /\ visit[v].bank \in 1..2 BY <1>a DEF Banks, VisitStates
  <2>3. (IF more THEN visit[v].bank + 1 ELSE visit[v].bank) \in 1..2 BY <2>2
  <2> DEFINE s == [visit[v] EXCEPT !.pc = IF more THEN "create" ELSE "done",
                                   !.bank = IF more THEN visit[v].bank + 1 ELSE visit[v].bank,
                                   !.lost = lost \/ visit[v].lost]
  <2>a. visit' = [visit EXCEPT ![v] = s] BY <1>a, <2>1
  <2>b. /\ s \in VisitStates /\ s.pc \in {"create", "done"} /\ s.heard = visit[v].heard
        /\ s.shown = visit[v].shown /\ s.lost = (lost \/ visit[v].lost)
    <3>1. visit[v] \in VisitStates BY <1>a
    <3>2. (IF more THEN "create" ELSE "done") \in {"create", "done"} OBVIOUS
    <3>3. (lost \/ visit[v].lost) \in BOOLEAN OBVIOUS
    <3> HIDE DEF more
    <3> QED BY <2>3, <3>1, <3>2, <3>3 DEF VisitStates
  <2> HIDE DEF s
  <2>4. /\ visit'[v].pc \in {"create", "done"} /\ visit'[v].heard = visit[v].heard
        /\ visit'[v].shown = visit[v].shown /\ visit'[v].lost = (lost \/ visit[v].lost)
        /\ \A w \in Visits : w # v => visit'[w] = visit[w]
        /\ visit' \in [Visits -> VisitStates]
    BY <1>a, <2>a, <2>b
  <2>5. visit[v].pc = "create" /\ UNCHANGED <<accountGateway, accountRow>>
    BY <1>5 DEF CreationFails
  <2>c. opened' \in Nat /\ opened' >= opened BY <1>a, <2>1
  <2>6. AccountTypeOK' BY <1>a, <2>4, <2>5, <2>c DEF AccountTypeOK
  <2>7. VisitsTrue' BY <1>a, <1>b, <2>4, <2>5, <2>c DEF VisitsTrue, VisitStates
  <2>8. OpenedByOne' /\ SpareHasCause'
    <3>1. CASE lost
      <4>1. opened' = opened + 1 BY <2>1, <3>1
      <4>2. visit'[v].lost BY <2>4, <3>1
      <4> QED BY <2>4, <2>5, <4>1, <4>2, SpareStep
    <3>2. CASE ~lost
      <4>1. opened' = opened BY <2>1, <3>2
      <4> QED BY <2>4, <2>5, <4>1, QuietStep
    <3> QED BY <3>1, <3>2
  <2> QED BY <2>6, <2>7, <2>8 DEF AccountInv
<1>6. CASE InsertRow(v)
  <2>1. AccountTypeOK'
    BY <1>6, <1>a, <1>b DEF InsertRow, VisitAt, AccountTypeOK, VisitsTrue, VisitStates
  <2>2. VisitsTrue'
    <3>1. CASE /\ accountRow = 0 /\ accountRow' = visit[v].number
               /\ visit' = [visit EXCEPT ![v].pc = "done", ![v].shown = visit[v].number]
      <4>1. \A w \in Visits : visit[w].shown = 0 BY <1>b, <3>1 DEF VisitsTrue
      <4>2. \A w \in Visits : visit[w].pc # "reread" BY <1>b, <3>1 DEF VisitsTrue
      <4> QED BY <1>6, <1>a, <1>b, <3>1, <4>1, <4>2 DEF InsertRow, VisitsTrue, VisitStates
    <3>2. CASE accountRow # 0 /\ UNCHANGED accountRow
      BY <1>6, <1>a, <1>b, <3>2 DEF InsertRow, VisitAt, VisitsTrue, VisitStates
    <3> QED BY <1>6, <3>1, <3>2 DEF InsertRow
  <2>3. OpenedByOne' /\ SpareHasCause'
    BY <1>6, <1>a, QuietStep DEF InsertRow, VisitAt, VisitStates
  <2> QED BY <2>1, <2>2, <2>3 DEF AccountInv
<1>7. CASE RereadRow(v)
  <2>a. AccountTypeOK'
    <3>1. accountRow \in Nat BY <1>a
    <3>2. visit' \in [Visits -> VisitStates] BY <1>7, <1>a, <3>1 DEF RereadRow, Show, VisitStates
    <3> QED BY <1>7, <1>a, <3>2 DEF RereadRow, AccountTypeOK
  <2>1. VisitsTrue' BY <1>7, <1>a, <1>b DEF RereadRow, Show, VisitsTrue, VisitStates
  <2>2. OpenedByOne' /\ SpareHasCause'
    BY <1>7, <1>a, QuietStep DEF RereadRow, Show, VisitStates
  <2> QED BY <2>a, <2>1, <2>2 DEF AccountInv
<1>8. CASE VisitFails(v)
  <2>1. AccountTypeOK' /\ VisitsTrue'
    BY <1>8, <1>a, <1>b DEF VisitFails, VisitAt, AccountTypeOK, VisitsTrue, VisitStates
  <2>2. OpenedByOne' /\ SpareHasCause'
    BY <1>8, <1>a, QuietStep DEF VisitFails, VisitAt, VisitStates
  <2> QED BY <2>1, <2>2 DEF AccountInv
<1> QED BY <1>1, <1>2, <1>3, <1>4, <1>5, <1>6, <1>7, <1>8

LEMMA AccountPreserved == AccountInv /\ [AccountNext]_accountVars => AccountInv'
<1> SUFFICES ASSUME AccountInv, [AccountNext]_accountVars PROVE AccountInv' OBVIOUS
<1>1. CASE UNCHANGED accountVars
  BY <1>1 DEF accountVars, AccountInv, AccountTypeOK, VisitsTrue, OpenedByOne, Opener,
     SpareHasCause, SpareExplained
<1> QED BY <1>1, VisitPreserves DEF AccountNext

LEMMA AccountsKeep == AccountInv => AccountsAgree
BY DEF AccountInv, AccountTypeOK, VisitsTrue, SpareHasCause, AccountsAgree

\* However many visits overlap, and wherever they break off, each shows the recorded
\* account, and an account nobody was told of has a cause.
THEOREM OneAccountShown == AccountSpec => []AccountsAgree
BY AccountsKeep, AccountStarts, AccountPreserved, PTL DEF AccountSpec

-----------------------------------------------------------------------------
\* The rewards.

Paying == {"settlement", "creditReferrer", "creditReferred", "close"}
AtTier == {"payTier", "closeTier"}
InTiers == {"tiers"} \union AtTier
Active == InPerReferral \union {"event"} \union InMilestones

-----------------------------------------------------------------------------
\* The per-referral part.

\* The call that inserted a referral's row is the only one that works on it, and the
\* row says how far it is.
PayingCalls ==
  \A c \in Calls :
    /\ call[c].pc \in Active => User(c) \in Referred
    /\ call[c].pc \in Paying =>
         reward[User(c)].status = "processing" /\ reward[User(c)].mode = "per_referral"
    /\ call[c].pc \in {"settlement", "creditReferrer"} => <<User(c), "referrer">> \notin bonus
    /\ call[c].pc \in {"creditReferred", "close"} /\ call[c].complete =>
         <<User(c), "referrer">> \in bonus
    /\ \A d \in Calls :
         call[c].pc \in Paying /\ call[d].pc \in Paying /\ User(c) = User(d) => c = d

BonusesEarned ==
  \A b \in bonus : reward[b[1]].status # "none" /\ reward[b[1]].mode = "per_referral"

BonusesTrue ==
  \A u \in Referred : reward[u].mode = "per_referral" =>
    /\ reward[u].status = "completed" => <<u, "referrer">> \in bonus
    /\ reward[u].status = "failed" => <<u, "referrer">> \notin bonus

BonusInv == PayingCalls /\ BonusesEarned /\ BonusesTrue

-----------------------------------------------------------------------------
\* The milestone part.

\* The call that inserted a tier's row is the only one that works on it.
TierCalls ==
  \A c \in Calls :
    /\ call[c].pc \in InTiers => call[c].counted <= Cardinality(Rewarded)
    /\ \A n \in Tiers : call[c].pc \in AtTier /\ IsNext(c, n) =>
         /\ payout[n] = "processing" /\ call[c].counted >= n
         /\ call[c].pc = "payTier" <=> n \notin lumpSums
         /\ \A d \in Calls : call[d].pc \in AtTier /\ IsNext(d, n) => c = d

SumsEarned == \A n \in lumpSums : payout[n] # "none" /\ Cardinality(Rewarded) >= n

SumsTrue ==
  \A n \in Tiers : /\ payout[n] = "completed" => n \in lumpSums
                   /\ payout[n] = "failed" => n \notin lumpSums

\* Call c will still count the events, or deal with tier n having counted enough.
WillPay(c, n) ==
  \/ call[c].pc = "count"
  \/ call[c].pc \in InTiers /\ n \in call[c].left /\ call[c].counted >= n

\* A tier that the recorded events reach has its payout, or a call that will see to it.
NoneMissed ==
  ~gap => \A n \in Tiers :
    n <= Cardinality(MilestoneEvents) /\ payout[n] = "none" => \E c \in Calls : WillPay(c, n)

MilestoneInv == TierCalls /\ SumsEarned /\ SumsTrue /\ NoneMissed

RewardInv == ReferralTypeOK /\ BonusInv /\ MilestoneInv

-----------------------------------------------------------------------------
LEMMA RewardsStart == ReferralInit => RewardInv
<1> SUFFICES ASSUME ReferralInit PROVE RewardInv
  OBVIOUS
<1>1. ReferralTypeOK
  BY DEF ReferralInit, ReferralTypeOK, Modes, Statuses, NotCalled, CallStates
<1>2. BonusInv
  BY DEF ReferralInit, BonusInv, PayingCalls, BonusesEarned, BonusesTrue, NotCalled, Active,
         Paying, InPerReferral, InMilestones
<1>3. MilestoneEvents = {} BY DEF ReferralInit, MilestoneEvents, Rewarded
<1>4. MilestoneInv
  BY <1>3, FS_EmptySet, ReferralAssumption
  DEF ReferralInit, MilestoneInv, TierCalls, SumsEarned, SumsTrue, NoneMissed, NotCalled,
      InTiers, AtTier
<1> QED BY <1>1, <1>2, <1>4 DEF RewardInv

\* The rewarded users are counted, and a reward's row once written stays.
LEMMA RewardedCounted ==
  ASSUME ReferralTypeOK
  PROVE  /\ IsFiniteSet(Rewarded) /\ Cardinality(Rewarded) \in Nat
         /\ Cardinality(MilestoneEvents) \in Nat
         /\ Cardinality(MilestoneEvents) <= Cardinality(Rewarded)
<1>1. Rewarded \subseteq Referred /\ MilestoneEvents \subseteq Rewarded
  BY DEF Rewarded, MilestoneEvents
<1>2. IsFiniteSet(Rewarded) BY <1>1, ReferralAssumption, FS_Subset
<1> QED BY <1>1, <1>2, FS_Subset, FS_CardinalityType

LEMMA CountGrows ==
  ASSUME ReferralTypeOK', Rewarded \subseteq Rewarded'
  PROVE  Cardinality(Rewarded) <= Cardinality(Rewarded')
<1>1. Rewarded' \subseteq Referred BY DEF Rewarded
<1> QED BY <1>1, ReferralAssumption, FS_Subset

\* A step of a call that leaves it as x outside milestone mode keeps the milestone
\* part, if no event is added.
LEMMA MilestonesKept ==
  ASSUME RewardInv, ReferralTypeOK', NEW c \in Calls, NEW x \in CallStates,
         call' = [call EXCEPT ![c] = x],
         call[c].pc \notin InMilestones, x.pc \notin InMilestones,
         Rewarded \subseteq Rewarded', MilestoneEvents' = MilestoneEvents,
         UNCHANGED <<payout, lumpSums, gap>>
  PROVE  MilestoneInv'
<1>1. /\ call \in [Calls -> CallStates] /\ call'[c] = x
      /\ \A d \in Calls : d # c => call'[d] = call[d]
  BY DEF RewardInv, ReferralTypeOK
<1>2. Cardinality(Rewarded) <= Cardinality(Rewarded') BY CountGrows
<1>3. Cardinality(Rewarded) \in Nat /\ Cardinality(Rewarded') \in Nat
  <2>1. Rewarded' \subseteq Referred BY DEF Rewarded
  <2> QED BY <2>1, RewardedCounted, ReferralAssumption, FS_Subset, FS_CardinalityType DEF RewardInv
<1>4. \A d \in Calls : call[d].counted \in Nat BY <1>1 DEF CallStates
<1>5. TierCalls'
  BY <1>1, <1>2, <1>3, <1>4
  DEF RewardInv, MilestoneInv, TierCalls, InTiers, AtTier, IsNext, InMilestones
<1>6. SumsEarned'
  BY <1>2, <1>3, ReferralAssumption DEF RewardInv, MilestoneInv, SumsEarned, ReferralTypeOK
<1>7. SumsTrue' BY DEF RewardInv, MilestoneInv, SumsTrue
<1>8. NoneMissed'
  BY <1>1 DEF RewardInv, MilestoneInv, NoneMissed, WillPay, InTiers, AtTier, InMilestones
<1> QED BY <1>5, <1>6, <1>7, <1>8 DEF MilestoneInv

\* A step of a call outside the payment of a referral keeps the per-referral part.
LEMMA BonusesKept ==
  ASSUME RewardInv, NEW c \in Calls, NEW x \in CallStates,
         call' = [call EXCEPT ![c] = x],
         x.pc \notin Paying, x.pc \in Active => x.user \in Referred,
         UNCHANGED <<reward, bonus>>
  PROVE  BonusInv'
<1>1. /\ call \in [Calls -> CallStates] /\ call'[c] = x
      /\ \A d \in Calls : d # c => call'[d] = call[d]
  BY DEF RewardInv, ReferralTypeOK
<1>2. PayingCalls' BY <1>1 DEF RewardInv, BonusInv, PayingCalls, User, Paying
<1>3. BonusesEarned' /\ BonusesTrue'
  BY DEF RewardInv, BonusInv, BonusesEarned, BonusesTrue
<1> QED BY <1>2, <1>3 DEF BonusInv

\* A call whose record changes to x, field by field.
LEMMA CallRecord ==
  ASSUME ReferralTypeOK, NEW c \in Calls
  PROVE  /\ call \in [Calls -> CallStates] /\ call[c] \in CallStates
         /\ call[c].counted \in Nat /\ call[c].left \subseteq Tiers
         /\ call[c].pc \in {"idle", "event", "done"} \union InPerReferral \union InMilestones
BY DEF ReferralTypeOK, CallStates

\* A step that touches neither rows nor credits: the call only moves on.
LEMMA Moves ==
  ASSUME RewardInv, NEW c \in Calls, NEW pc, Enter(c, pc),
         UNCHANGED <<rewardMode, reward, payout, bonus, lumpSums>>,
         gap' \in BOOLEAN,
         \/ pc = "done" /\ call[c].pc \in Active
              /\ (gap' \/ (gap' = gap /\ call[c].pc \notin InMilestones \ {"tiers"}
                           /\ (call[c].pc = "tiers" => call[c].left = {})))
         \/ pc = "creditReferrer" /\ call[c].pc = "settlement" /\ gap' = gap
  PROVE  RewardInv'
<1> DEFINE x == [call[c] EXCEPT !.pc = pc]
<1>1. /\ call \in [Calls -> CallStates] /\ call[c] \in CallStates
  BY CallRecord DEF RewardInv
<1>2. x \in CallStates BY <1>1 DEF CallStates, InPerReferral
<1>3. call' = [call EXCEPT ![c] = x] BY <1>1 DEF Enter
<1>4. x.pc = pc /\ x.user = call[c].user /\ x.complete = call[c].complete
  BY <1>1 DEF CallStates
<1> HIDE DEF x
<1>5. ReferralTypeOK' BY <1>1, <1>2, <1>3 DEF RewardInv, ReferralTypeOK
<1>6. /\ call'[c] = x /\ \A d \in Calls : d # c => call'[d] = call[d]
      /\ Rewarded' = Rewarded /\ MilestoneEvents' = MilestoneEvents
  BY <1>1, <1>3 DEF Rewarded, MilestoneEvents
<1>7. BonusInv'
  <2>1. PayingCalls'
    BY <1>4, <1>6 DEF RewardInv, BonusInv, PayingCalls, User, Paying, Active, InPerReferral
  <2> QED BY <2>1 DEF RewardInv, BonusInv, BonusesEarned, BonusesTrue
<1>8. MilestoneInv'
  <2>1. TierCalls'
    BY <1>4, <1>6 DEF RewardInv, MilestoneInv, TierCalls, InTiers, AtTier, IsNext
  <2>2. SumsEarned' /\ SumsTrue' BY <1>6 DEF RewardInv, MilestoneInv, SumsEarned, SumsTrue
  <2>3. NoneMissed'
    BY <1>4, <1>6 DEF RewardInv, MilestoneInv, NoneMissed, WillPay, InTiers, AtTier, InMilestones
  <2> QED BY <2>1, <2>2, <2>3 DEF MilestoneInv
<1> QED BY <1>5, <1>7, <1>8 DEF RewardInv

LEMMA ProcessPreserves ==
  ASSUME RewardInv, NEW c \in Calls, ProcessReferralReward(c)
  PROVE  RewardInv'
<1>1. PICK u \in Referred :
        call' = [call EXCEPT ![c].user = u,
                   ![c].pc = IF rewardMode = "milestone" THEN "event" ELSE "reward"]
  BY DEF ProcessReferralReward
<1> DEFINE pc == IF rewardMode = "milestone" THEN "event" ELSE "reward"
           x == [call[c] EXCEPT !.user = u, !.pc = pc]
<1>2. call \in [Calls -> CallStates] /\ call[c] \in CallStates BY CallRecord DEF RewardInv
<1>3. pc \in {"event", "reward"} OBVIOUS
<1>4. call' = [call EXCEPT ![c] = x] BY <1>1, <1>2
<1> HIDE DEF pc
<1>5. x \in CallStates /\ x.pc = pc /\ x.user = u
  BY <1>2, <1>3 DEF CallStates, InPerReferral
<1> HIDE DEF x
<1>6. ReferralTypeOK'
  BY <1>2, <1>4, <1>5 DEF RewardInv, ReferralTypeOK, ProcessReferralReward
<1>7. BonusInv'
  BY <1>3, <1>4, <1>5, BonusesKept DEF ProcessReferralReward, Paying
<1>8. MilestoneInv'
  BY <1>3, <1>4, <1>5, <1>6, MilestonesKept
  DEF ProcessReferralReward, Rewarded, MilestoneEvents, InMilestones
<1> QED BY <1>6, <1>7, <1>8 DEF RewardInv

\* The row was not there: nobody was working on it, and nothing was paid for it.
LEMMA InsertRewardPreserves ==
  ASSUME RewardInv, NEW c \in Calls, InsertReward(c)
  PROVE  RewardInv'
<1>1. call[c].pc = "reward" /\ User(c) \in Referred
  BY DEF InsertReward, RewardInv, BonusInv, PayingCalls, Active, InPerReferral
<1>2. CASE reward[User(c)].status # "none"
  BY <1>1, <1>2, Moves DEF InsertReward, Leave, Active, InPerReferral, InMilestones, RewardInv, ReferralTypeOK
<1>3. CASE reward[User(c)].status = "none"
  <2> DEFINE x == [call[c] EXCEPT !.pc = "settlement"]
             entry == [status |-> "processing", mode |-> "per_referral"]
  <2>1. call \in [Calls -> CallStates] /\ call[c] \in CallStates BY CallRecord DEF RewardInv
  <2>2. /\ x \in CallStates /\ x.pc = "settlement" /\ x.user = User(c)
        /\ call' = [call EXCEPT ![c] = x]
    BY <1>3, <2>1 DEF CallStates, InPerReferral, InsertReward, Enter, User
  <2>3. reward' = [reward EXCEPT ![User(c)] = entry] BY <1>3 DEF InsertReward
  <2>4. entry \in [status : Statuses, mode : Modes] /\ entry.status = "processing"
        /\ entry.mode = "per_referral"
    BY DEF Statuses, Modes
  <2> HIDE DEF x, entry
  <2>5. ReferralTypeOK'
    BY <1>1, <2>1, <2>2, <2>3, <2>4 DEF RewardInv, ReferralTypeOK, InsertReward
  <2>6. /\ call'[c] = x /\ \A d \in Calls : d # c => call'[d] = call[d]
        /\ reward'[User(c)] = entry
        /\ \A u \in Referred : u # User(c) => reward'[u] = reward[u]
    BY <1>1, <2>1, <2>2, <2>3 DEF RewardInv, ReferralTypeOK
  <2>7. \A r \in Recipients : <<User(c), r>> \notin bonus
    BY <1>3 DEF RewardInv, BonusInv, BonusesEarned
  <2>8. "referrer" \in Recipients BY ReferralAssumption
  <2>9. PayingCalls'
    BY <1>1, <1>3, <2>2, <2>4, <2>6, <2>7, <2>8
    DEF RewardInv, BonusInv, PayingCalls, User, Paying, InsertReward, Active, InPerReferral,
        InMilestones
  <2>10. BonusesEarned'
    BY <2>4, <2>6 DEF RewardInv, BonusInv, BonusesEarned, InsertReward, ReferralTypeOK
  <2>11. BonusesTrue'
    BY <2>4, <2>6 DEF RewardInv, BonusInv, BonusesTrue, InsertReward
  <2>12. Rewarded \subseteq Rewarded' /\ MilestoneEvents' = MilestoneEvents
    BY <1>3, <2>4, <2>6 DEF Rewarded, MilestoneEvents
  <2>13. MilestoneInv'
    BY <1>1, <2>2, <2>5, <2>12, MilestonesKept DEF InsertReward, InMilestones
  <2> QED BY <2>5, <2>9, <2>10, <2>11, <2>13 DEF RewardInv, BonusInv
<1> QED BY <1>2, <1>3 DEF RewardInv, ReferralTypeOK

\* The call that works on a row leaves it with a status that is true of the credit.
LEMMA RowEnds ==
  ASSUME RewardInv, NEW c \in Calls, Leave(c), call[c].pc \in Paying,
         NEW status \in {"processing", "completed", "failed"},
         reward' = [reward EXCEPT ![User(c)].status = status],
         status = "completed" => <<User(c), "referrer">> \in bonus,
         status = "failed" => <<User(c), "referrer">> \notin bonus,
         UNCHANGED <<rewardMode, payout, bonus, lumpSums, gap>>
  PROVE  RewardInv'
<1> DEFINE x == [call[c] EXCEPT !.pc = "done"]
           entry == [reward[User(c)] EXCEPT !.status = status]
<1>1. /\ call \in [Calls -> CallStates] /\ call[c] \in CallStates /\ User(c) \in Referred
      /\ reward \in [Referred -> [status : Statuses, mode : Modes]]
  BY CallRecord
  DEF RewardInv, ReferralTypeOK, BonusInv, PayingCalls, Active, Paying, InPerReferral
<1>2. /\ x \in CallStates /\ x.pc = "done" /\ x.user = User(c)
      /\ call' = [call EXCEPT ![c] = x]
  BY <1>1 DEF CallStates, Leave, Enter, User
<1>3. /\ entry \in [status : Statuses, mode : Modes] /\ entry.status = status
      /\ entry.mode = reward[User(c)].mode /\ reward' = [reward EXCEPT ![User(c)] = entry]
  BY <1>1 DEF Statuses
<1> HIDE DEF x, entry
<1>4. ReferralTypeOK' BY <1>1, <1>2, <1>3 DEF RewardInv, ReferralTypeOK
<1>5. /\ call'[c] = x /\ \A d \in Calls : d # c => call'[d] = call[d]
      /\ reward'[User(c)] = entry
      /\ \A u \in Referred : u # User(c) => reward'[u] = reward[u]
  BY <1>1, <1>2, <1>3
<1>6. reward[User(c)].status = "processing"
  BY DEF RewardInv, BonusInv, PayingCalls
<1>7. PayingCalls'
  <2>1. \A d \in Calls : d # c /\ call[d].pc \in Paying => User(d) # User(c)
    BY DEF RewardInv, BonusInv, PayingCalls
  <2> QED BY <1>2, <1>5, <2>1
    DEF RewardInv, BonusInv, PayingCalls, User, Paying, Active, InPerReferral, InMilestones
<1>8. BonusesEarned'
  BY <1>3, <1>5 DEF RewardInv, BonusInv, BonusesEarned, ReferralTypeOK
<1>9. BonusesTrue' BY <1>3, <1>5 DEF RewardInv, BonusInv, BonusesTrue
<1>10. Rewarded \subseteq Rewarded' /\ MilestoneEvents' = MilestoneEvents
  BY <1>3, <1>5, <1>6 DEF Rewarded, MilestoneEvents
<1>11. MilestoneInv'
  BY <1>2, <1>4, <1>10, MilestonesKept DEF InMilestones, Paying
<1> QED BY <1>4, <1>7, <1>8, <1>9, <1>11 DEF RewardInv, BonusInv

\* A credit for a referral, or its omission.
LEMMA CreditStep ==
  ASSUME RewardInv, NEW c \in Calls, NEW x \in CallStates,
         call' = [call EXCEPT ![c] = x], x.user = User(c),
         bonus \subseteq bonus', bonus' \subseteq bonus \union ({User(c)} \X Recipients),
         \/ /\ call[c].pc = "creditReferrer" /\ x.pc = "creditReferred"
            /\ x.complete => <<User(c), "referrer">> \in bonus'
         \/ call[c].pc = "creditReferred" /\ x.pc = "close" /\ x.complete = call[c].complete,
         UNCHANGED <<rewardMode, reward, payout, lumpSums, gap>>
  PROVE  RewardInv'
<1>1. /\ call \in [Calls -> CallStates] /\ User(c) \in Referred
      /\ call[c].pc \in Paying
  BY CallRecord DEF RewardInv, BonusInv, PayingCalls, Active, Paying, InPerReferral
<1>2. ReferralTypeOK' BY <1>1 DEF RewardInv, ReferralTypeOK
<1>3. call'[c] = x /\ \A d \in Calls : d # c => call'[d] = call[d] BY <1>1
<1>4. \A b \in bonus' : b \notin bonus => b[1] = User(c) OBVIOUS
<1>5. /\ reward[User(c)].status = "processing" /\ reward[User(c)].mode = "per_referral"
      /\ \A d \in Calls : d # c /\ call[d].pc \in Paying => User(d) # User(c)
  BY <1>1 DEF RewardInv, BonusInv, PayingCalls
<1>6. \A u \in Referred : u # User(c) =>
        (<<u, "referrer">> \in bonus' <=> <<u, "referrer">> \in bonus)
  OBVIOUS
<1>7. PayingCalls'
  BY <1>1, <1>3, <1>5, <1>6
  DEF RewardInv, BonusInv, PayingCalls, User, Paying, Active, InPerReferral, InMilestones
<1>8. BonusesEarned' BY <1>4, <1>5 DEF RewardInv, BonusInv, BonusesEarned
<1>9. BonusesTrue' BY <1>5, <1>6 DEF RewardInv, BonusInv, BonusesTrue
<1>10. Rewarded \subseteq Rewarded' /\ MilestoneEvents' = MilestoneEvents
  BY DEF Rewarded, MilestoneEvents
<1>11. MilestoneInv'
  BY <1>1, <1>2, <1>10, MilestonesKept DEF InMilestones, Paying
<1> QED BY <1>2, <1>7, <1>8, <1>9, <1>11 DEF RewardInv, BonusInv

LEMMA BonusPreserves ==
  ASSUME RewardInv, NEW c \in Calls, CreditReferrer(c) \/ CreditReferred(c)
  PROVE  RewardInv'
<1>1. call \in [Calls -> CallStates] /\ call[c] \in CallStates BY CallRecord DEF RewardInv
<1>2. "referrer" \in Recipients BY ReferralAssumption
<1>3. CASE CreditReferrer(c) /\ bonus' = bonus \union {<<User(c), "referrer">>}
                             /\ Enter(c, "creditReferred")
  <2> DEFINE x == [call[c] EXCEPT !.pc = "creditReferred"]
  <2>1. /\ x \in CallStates /\ x.pc = "creditReferred" /\ x.user = User(c)
        /\ call' = [call EXCEPT ![c] = x]
    BY <1>1, <1>3 DEF CallStates, InPerReferral, Enter, User
  <2> HIDE DEF x
  <2>2. /\ bonus \subseteq bonus' /\ bonus' \subseteq bonus \union ({User(c)} \X Recipients)
        /\ <<User(c), "referrer">> \in bonus'
    BY <1>2, <1>3
  <2>3. /\ call[c].pc = "creditReferrer"
        /\ UNCHANGED <<rewardMode, reward, payout, lumpSums, gap>>
    BY <1>3 DEF CreditReferrer
  <2> QED BY <2>1, <2>2, <2>3, CreditStep
<1>4. CASE /\ CreditReferrer(c) /\ UNCHANGED bonus
           /\ call' = [call EXCEPT ![c].pc = "creditReferred", ![c].complete = Complete]
  <2> DEFINE x == [call[c] EXCEPT !.pc = "creditReferred", !.complete = FALSE]
  <2>1. /\ x \in CallStates /\ x.pc = "creditReferred" /\ x.user = User(c) /\ x.complete = FALSE
        /\ call' = [call EXCEPT ![c] = x]
    BY <1>1, <1>4 DEF CallStates, InPerReferral, User, Complete
  <2> HIDE DEF x
  <2> QED BY <1>4, <2>1, CreditStep DEF CreditReferrer
<1>5. CASE CreditReferred(c)
  <2> DEFINE x == [call[c] EXCEPT !.pc = "close"]
  <2>1. /\ x \in CallStates /\ x.pc = "close" /\ x.user = User(c)
        /\ x.complete = call[c].complete /\ call' = [call EXCEPT ![c] = x]
    BY <1>1, <1>5 DEF CallStates, InPerReferral, CreditReferred, Enter, User
  <2> HIDE DEF x
  <2>2. bonus \subseteq bonus' /\ bonus' \subseteq bonus \union ({User(c)} \X Recipients)
    BY <1>5 DEF CreditReferred
  <2>3. /\ call[c].pc = "creditReferred"
        /\ UNCHANGED <<rewardMode, reward, payout, lumpSums, gap>>
    BY <1>5 DEF CreditReferred
  <2> QED BY <2>1, <2>2, <2>3, CreditStep
<1> QED BY <1>3, <1>4, <1>5 DEF CreditReferrer

-----------------------------------------------------------------------------
\* The tier that a step leaves the call working on is its own.
Takes(c, x) ==
  \A n \in Tiers : x.pc \in AtTier /\ n \in x.left /\ (\A m \in x.left : n <= m) =>
    /\ payout'[n] = "processing" /\ x.counted >= n
    /\ x.pc = "payTier" <=> n \notin lumpSums'
    /\ payout[n] = "none" \/ (call[c].pc \in AtTier /\ IsNext(c, n))

\* What the others work on the step leaves alone.
Spares(c) ==
  \A n \in Tiers : (payout'[n] # payout[n] \/ (n \in lumpSums' <=> n \notin lumpSums)) =>
    \/ payout[n] = "none" /\ payout'[n] = "processing" /\ n \notin lumpSums'
    \/ call[c].pc \in AtTier /\ IsNext(c, n)

\* The payouts' rows stay, and are true of sums that are earned.
PayoutsTrue ==
  /\ payout' \in [Tiers -> Statuses] /\ lumpSums' \subseteq Tiers
  /\ \A n \in Tiers : payout[n] # "none" => payout'[n] # "none"
  /\ \A n \in lumpSums' : payout'[n] # "none" /\ Cardinality(Rewarded) >= n
  /\ \A n \in Tiers : /\ payout'[n] = "completed" => n \in lumpSums'
                      /\ payout'[n] = "failed" => n \notin lumpSums'

\* A tier that the call was to see to it has dealt with, or will.
StillPays(c, x) ==
  \A n \in Tiers : payout'[n] = "none" /\ n <= Cardinality(Rewarded) /\ WillPay(c, n) =>
    x.pc \in InTiers /\ n \in x.left /\ x.counted >= n

\* A step of a call in milestone mode that writes no event.
LEMMA TierStep ==
  ASSUME RewardInv, NEW c \in Calls, NEW x \in CallStates,
         call' = [call EXCEPT ![c] = x], x.user = User(c),
         call[c].pc \in InMilestones, x.pc \in InTiers \union {"done"},
         x.pc \in InTiers => x.counted <= Cardinality(Rewarded),
         UNCHANGED <<rewardMode, reward, bonus>>, gap' \in {gap, TRUE},
         Takes(c, x), Spares(c), PayoutsTrue, ~gap' => StillPays(c, x)
  PROVE  RewardInv'
<1>1. /\ call \in [Calls -> CallStates] /\ User(c) \in Referred
  BY CallRecord DEF RewardInv, BonusInv, PayingCalls, Active
<1>2. ReferralTypeOK' BY <1>1 DEF RewardInv, ReferralTypeOK, PayoutsTrue
<1>3. call'[c] = x /\ \A d \in Calls : d # c => call'[d] = call[d] BY <1>1
<1>4. Rewarded' = Rewarded /\ MilestoneEvents' = MilestoneEvents
  BY DEF Rewarded, MilestoneEvents
<1>5. BonusInv'
  BY <1>1, BonusesKept DEF InTiers, AtTier, Paying
<1>6. TierCalls'
  <2>1. ASSUME NEW d \in Calls, NEW n \in Tiers, d # c, call[d].pc \in AtTier, IsNext(d, n)
        PROVE  /\ payout'[n] = payout[n] /\ (n \in lumpSums' <=> n \in lumpSums)
               /\ ~(x.pc \in AtTier /\ n \in x.left /\ (\A m \in x.left : n <= m))
    BY <2>1 DEF RewardInv, MilestoneInv, TierCalls, Spares, Takes
  <2>2. \A d \in Calls : call'[d].pc \in InTiers => call'[d].counted <= Cardinality(Rewarded')
    BY <1>3, <1>4 DEF RewardInv, MilestoneInv, TierCalls
  <2>3. ASSUME NEW d \in Calls, NEW n \in Tiers, call'[d].pc \in AtTier, IsNext(d, n)'
        PROVE  /\ payout'[n] = "processing" /\ call'[d].counted >= n
               /\ call'[d].pc = "payTier" <=> n \notin lumpSums'
               /\ \A e \in Calls : call'[e].pc \in AtTier /\ IsNext(e, n)' => d = e
    <3>1. CASE d = c
      BY <1>3, <2>1, <2>3, <3>1 DEF IsNext, Takes
    <3>2. CASE d # c
      BY <1>3, <2>1, <2>3, <3>2 DEF IsNext, RewardInv, MilestoneInv, TierCalls
    <3> QED BY <3>1, <3>2
  <2> QED BY <2>2, <2>3 DEF TierCalls
<1>7. SumsEarned' /\ SumsTrue' BY <1>4 DEF SumsEarned, SumsTrue, PayoutsTrue
<1>8. NoneMissed'
  <2> SUFFICES ASSUME ~gap', NEW n \in Tiers, n <= Cardinality(MilestoneEvents),
                      payout'[n] = "none"
               PROVE  \E d \in Calls : WillPay(d, n)'
    BY <1>4 DEF NoneMissed
  <2> ~gap OBVIOUS
  <2>1. n <= Cardinality(Rewarded) BY RewardedCounted, ReferralAssumption DEF RewardInv
  <2>2. payout[n] = "none" BY DEF PayoutsTrue
  <2>3. PICK d \in Calls : WillPay(d, n)
    BY <2>2 DEF RewardInv, MilestoneInv, NoneMissed
  <2>4. CASE d = c BY <1>3, <2>1, <2>3, <2>4 DEF WillPay, StillPays
  <2>5. CASE d # c BY <1>3, <2>3, <2>5 DEF WillPay
  <2> QED BY <2>4, <2>5
<1> QED BY <1>2, <1>5, <1>6, <1>7, <1>8 DEF RewardInv, MilestoneInv

\* The count is of all events recorded so far, and at least of this call's own.
LEMMA CountPreserves ==
  ASSUME RewardInv, NEW c \in Calls, CountEvents(c)
  PROVE  RewardInv'
<1>1. call \in [Calls -> CallStates] /\ call[c] \in CallStates /\ call[c].pc = "count"
  BY CallRecord DEF RewardInv, CountEvents
<1>2. CASE Leave(c) /\ gap' = TRUE
  BY <1>1, <1>2, Moves DEF CountEvents, Leave, Active, InMilestones
<1>3. ASSUME NEW found \in BOOLEAN, gap' = gap,
             call' = [call EXCEPT ![c].pc = "tiers", ![c].counted = QualifiedCount(c),
                                  ![c].left = Tiers, ![c].wallet = found]
      PROVE  RewardInv'
  <2> DEFINE x == [call[c] EXCEPT !.pc = "tiers", !.counted = QualifiedCount(c),
                                  !.left = Tiers, !.wallet = found]
  <2>1. QualifiedCount(c) = Cardinality(Rewarded) /\ QualifiedCount(c) \in Nat
    BY RewardedCounted DEF RewardInv, QualifiedCount
  <2>2. /\ x \in CallStates /\ x.pc = "tiers" /\ x.user = User(c)
        /\ x.counted = Cardinality(Rewarded) /\ x.left = Tiers
        /\ call' = [call EXCEPT ![c] = x]
    BY <1>1, <1>3, <2>1 DEF CallStates, InMilestones, User
  <2> HIDE DEF x
  <2>3. UNCHANGED <<rewardMode, reward, payout, bonus, lumpSums, gap>>
    BY <1>3 DEF CountEvents
  <2>4. /\ payout \in [Tiers -> Statuses] /\ lumpSums \subseteq Tiers
        /\ \A n \in lumpSums : payout[n] # "none" /\ Cardinality(Rewarded) >= n
        /\ \A n \in Tiers : /\ payout[n] = "completed" => n \in lumpSums
                            /\ payout[n] = "failed" => n \notin lumpSums
    BY DEF RewardInv, ReferralTypeOK, MilestoneInv, SumsEarned, SumsTrue
  <2>5. Cardinality(Rewarded) \in Nat BY RewardedCounted DEF RewardInv
  <2>6. \A n \in Tiers : n \in Nat BY ReferralAssumption
  <2>7. Takes(c, x) /\ Spares(c) BY <2>2, <2>3 DEF Takes, Spares, AtTier
  <2>8. PayoutsTrue BY <2>3, <2>4 DEF PayoutsTrue
  <2>9. StillPays(c, x) BY <2>2, <2>5, <2>6 DEF StillPays, InTiers
  <2>10. /\ x.counted <= Cardinality(Rewarded) /\ x.pc \in InTiers \union {"done"}
         /\ call[c].pc \in InMilestones
    BY <1>1, <2>2, <2>5 DEF InMilestones, InTiers
  <2> QED BY <2>2, <2>3, <2>7, <2>8, <2>9, <2>10, TierStep
<1> QED BY <1>2, <1>3 DEF CountEvents

\* The call deals with the tier it comes to next.
LEMMA TierPreserves ==
  ASSUME RewardInv, NEW c \in Calls, NEW n \in Tiers,
         \/ InsertPayout(c, n) \/ InsertPayoutFails(c, n)
         \/ CreditMilestone(c, n) \/ ClosePayout(c, n)
  PROVE  RewardInv'
<1> DEFINE y(pc) == [call[c] EXCEPT !.pc = pc]
           z == [call[c] EXCEPT !.pc = "tiers", !.left = call[c].left \ {n}]
<1>1. /\ call \in [Calls -> CallStates] /\ call[c] \in CallStates
      /\ call[c].pc \in InTiers /\ IsNext(c, n) /\ call[c].pc \in InMilestones
  BY CallRecord
  DEF RewardInv, InsertPayout, InsertPayoutFails, CreditMilestone, ClosePayout, InTiers, AtTier,
      InMilestones
<1>2. /\ payout \in [Tiers -> Statuses] /\ lumpSums \subseteq Tiers
      /\ \A m \in lumpSums : payout[m] # "none" /\ Cardinality(Rewarded) >= m
      /\ \A m \in Tiers : /\ payout[m] = "completed" => m \in lumpSums
                          /\ payout[m] = "failed" => m \notin lumpSums
  BY DEF RewardInv, ReferralTypeOK, MilestoneInv, SumsEarned, SumsTrue
<1>3. /\ Cardinality(Rewarded) \in Nat /\ call[c].counted \in Nat
      /\ call[c].counted <= Cardinality(Rewarded) /\ \A m \in Tiers : m \in Nat
  BY <1>1, RewardedCounted, CallRecord, ReferralAssumption DEF RewardInv, MilestoneInv, TierCalls
<1>4. \A m \in Tiers : m \in call[c].left /\ (\A k \in call[c].left : m <= k) => m = n
  BY <1>1, <1>3, CallRecord DEF IsNext, RewardInv
<1>5. /\ \A pc \in InTiers :
           /\ y(pc) \in CallStates /\ y(pc).pc = pc /\ y(pc).user = User(c)
           /\ y(pc).left = call[c].left /\ y(pc).counted = call[c].counted
           /\ Enter(c, pc) => call' = [call EXCEPT ![c] = y(pc)]
      /\ z \in CallStates /\ z.pc = "tiers" /\ z.user = User(c)
      /\ z.left = call[c].left \ {n} /\ z.counted = call[c].counted
      /\ Dealt(c, n) => call' = [call EXCEPT ![c] = z]
  BY <1>1 DEF CallStates, InTiers, AtTier, InMilestones, User, Enter, Dealt
<1> HIDE DEF y, z
<1>6. CASE InsertPayout(c, n)
  <2>1. CASE Reached(c, n) /\ payout[n] = "none"
    <3>1. /\ call' = [call EXCEPT ![c] = y("payTier")]
          /\ payout' = [payout EXCEPT ![n] = "processing"]
          /\ UNCHANGED <<rewardMode, reward, bonus, lumpSums, gap>>
      BY <1>5, <1>6, <2>1 DEF InsertPayout, InTiers, AtTier
    <3>2. call[c].counted >= n /\ n \notin lumpSums /\ call[c].pc = "tiers"
      BY <1>2, <1>6, <2>1 DEF Reached, InsertPayout
    <3>3. payout' \in [Tiers -> Statuses] /\ payout'[n] = "processing"
          /\ \A m \in Tiers : m # n => payout'[m] = payout[m]
      BY <1>2, <3>1 DEF Statuses
    <3> DEFINE x == y("payTier")
    <3>4. /\ x \in CallStates /\ x.pc = "payTier" /\ x.user = User(c)
          /\ x.left = call[c].left /\ x.counted = call[c].counted
      BY <1>5 DEF InTiers, AtTier
    <3> HIDE DEF x
    <3>5. Takes(c, x) BY <1>4, <2>1, <3>1, <3>2, <3>3, <3>4 DEF Takes
    <3>6. Spares(c) BY <2>1, <3>1, <3>2, <3>3 DEF Spares
    <3>7. PayoutsTrue BY <1>2, <2>1, <3>1, <3>3 DEF PayoutsTrue
    <3>8. StillPays(c, x)
      BY <3>2, <3>4 DEF StillPays, WillPay, InTiers, AtTier
    <3> QED BY <1>1, <1>3, <3>1, <3>4, <3>5, <3>6, <3>7, <3>8, TierStep DEF x, InTiers, AtTier
  <2>2. CASE ~(Reached(c, n) /\ payout[n] = "none")
    <3>1. /\ call' = [call EXCEPT ![c] = z] /\ call[c].pc = "tiers"
          /\ UNCHANGED <<rewardMode, reward, payout, bonus, lumpSums, gap>>
      BY <1>5, <1>6, <2>2 DEF InsertPayout
    <3>2. Takes(c, z) /\ Spares(c) BY <1>5, <3>1 DEF Takes, Spares, AtTier
    <3>3. PayoutsTrue BY <1>2, <3>1 DEF PayoutsTrue
    <3>4. StillPays(c, z)
      BY <1>5, <2>2, <3>1 DEF StillPays, WillPay, InTiers, Reached
    <3> QED BY <1>1, <1>3, <1>5, <3>1, <3>2, <3>3, <3>4, TierStep DEF InTiers
  <2> QED BY <2>1, <2>2
<1>7. CASE CreditMilestone(c, n) \/ ClosePayout(c, n)
  <2>1. call[c].pc \in AtTier BY <1>7 DEF CreditMilestone, ClosePayout, AtTier
  <2>2. /\ payout[n] = "processing" /\ call[c].counted >= n
        /\ call[c].pc = "payTier" <=> n \notin lumpSums
    BY <1>1, <2>1 DEF RewardInv, MilestoneInv, TierCalls
  <2>3. CASE /\ call[c].pc = "payTier" /\ Enter(c, "closeTier")
             /\ lumpSums' = lumpSums \union {n}
             /\ UNCHANGED <<rewardMode, reward, payout, bonus, gap>>
    <3> DEFINE x == y("closeTier")
    <3>1. /\ x \in CallStates /\ x.pc = "closeTier" /\ x.user = User(c)
          /\ x.left = call[c].left /\ x.counted = call[c].counted
          /\ call' = [call EXCEPT ![c] = x]
      BY <1>5, <2>3 DEF InTiers, AtTier
    <3> HIDE DEF x
    <3>2. Takes(c, x) BY <1>1, <1>4, <2>1, <2>2, <2>3, <3>1 DEF Takes
    <3>3. Spares(c) BY <1>1, <2>1, <2>3 DEF Spares
    <3>4. PayoutsTrue BY <1>2, <1>3, <2>2, <2>3 DEF PayoutsTrue
    <3>5. StillPays(c, x) BY <2>1, <3>1 DEF StillPays, WillPay, InTiers, AtTier
    <3> QED BY <1>1, <1>3, <2>3, <3>1, <3>2, <3>3, <3>4, <3>5, TierStep DEF InTiers, AtTier
  <2>4. ASSUME NEW status \in {"completed", "failed"},
               payout' = [payout EXCEPT ![n] = status], Dealt(c, n),
               UNCHANGED <<rewardMode, reward, lumpSums, bonus, gap>>,
               status = "completed" <=> n \in lumpSums
        PROVE  RewardInv'
    <3>1. call' = [call EXCEPT ![c] = z] BY <1>5, <2>4
    <3>2. /\ payout' \in [Tiers -> Statuses] /\ payout'[n] = status
          /\ \A m \in Tiers : m # n => payout'[m] = payout[m]
      BY <1>2, <2>4 DEF Statuses
    <3>3. Takes(c, z) BY <1>5 DEF Takes, AtTier
    <3>4. Spares(c) BY <1>1, <2>1, <2>4, <3>2 DEF Spares
    <3>5. PayoutsTrue BY <1>2, <2>4, <3>2 DEF PayoutsTrue
    <3>6. StillPays(c, z)
      BY <1>5, <2>1, <2>4, <3>2 DEF StillPays, WillPay, InTiers, AtTier
    <3> QED BY <1>1, <1>3, <1>5, <2>4, <3>1, <3>3, <3>4, <3>5, <3>6, TierStep DEF InTiers
  <2> QED BY <1>7, <2>2, <2>3, <2>4 DEF CreditMilestone, ClosePayout
<1>8. CASE InsertPayoutFails(c, n)
  <2>1. /\ call' = [call EXCEPT ![c] = z] /\ call[c].pc = "tiers" /\ gap' = TRUE
        /\ UNCHANGED <<rewardMode, reward, bonus, lumpSums>>
    BY <1>5, <1>8 DEF InsertPayoutFails
  <2>2. /\ payout' \in [Tiers -> Statuses]
        /\ \A m \in Tiers : \/ payout'[m] = payout[m]
                            \/ m = n /\ payout[m] = "none" /\ payout'[m] = "processing"
    BY <1>2, <1>8 DEF InsertPayoutFails, Statuses
  <2>3. Takes(c, z) BY <1>5 DEF Takes, AtTier
  <2>4. Spares(c) BY <1>2, <2>1, <2>2 DEF Spares
  <2>5. PayoutsTrue BY <1>2, <2>1, <2>2 DEF PayoutsTrue
  <2> QED BY <1>1, <1>3, <1>5, <2>1, <2>3, <2>4, <2>5, TierStep DEF InTiers
<1> QED BY <1>6, <1>7, <1>8

\* The first event of a user in milestone mode; the call will count it.
LEMMA InsertEventPreserves ==
  ASSUME RewardInv, NEW c \in Calls, InsertEvent(c)
  PROVE  RewardInv'
<1>1. call[c].pc = "event" /\ User(c) \in Referred
  BY DEF InsertEvent, RewardInv, BonusInv, PayingCalls, Active
<1>2. CASE reward[User(c)].status # "none"
  BY <1>1, <1>2, Moves
  DEF InsertEvent, Leave, Active, InMilestones, RewardInv, ReferralTypeOK
<1>3. CASE reward[User(c)].status = "none"
  <2> DEFINE x == [call[c] EXCEPT !.pc = "count"]
             entry == [status |-> "completed", mode |-> "milestone"]
  <2>1. call \in [Calls -> CallStates] /\ call[c] \in CallStates BY CallRecord DEF RewardInv
  <2>2. /\ x \in CallStates /\ x.pc = "count" /\ x.user = User(c)
        /\ call' = [call EXCEPT ![c] = x]
    BY <1>3, <2>1 DEF CallStates, InMilestones, InsertEvent, Enter, User
  <2>3. reward' = [reward EXCEPT ![User(c)] = entry] BY <1>3 DEF InsertEvent
  <2>4. entry \in [status : Statuses, mode : Modes] /\ entry.status = "completed"
        /\ entry.mode = "milestone"
    BY DEF Statuses, Modes
  <2> HIDE DEF x, entry
  <2>5. ReferralTypeOK'
    BY <1>1, <1>3, <2>1, <2>2, <2>3, <2>4 DEF RewardInv, ReferralTypeOK, InsertEvent
  <2>6. /\ call'[c] = x /\ \A d \in Calls : d # c => call'[d] = call[d]
        /\ reward'[User(c)] = entry
        /\ \A u \in Referred : u # User(c) => reward'[u] = reward[u]
    BY <1>1, <2>1, <2>2, <2>3 DEF RewardInv, ReferralTypeOK
  <2>7. \A r \in Recipients : <<User(c), r>> \notin bonus
    BY <1>3 DEF RewardInv, BonusInv, BonusesEarned
  <2>8. PayingCalls'
    BY <1>1, <1>3, <2>2, <2>4, <2>6
    DEF RewardInv, BonusInv, PayingCalls, User, Paying, InsertEvent, Active, InPerReferral,
        InMilestones
  <2>9. BonusesEarned'
    BY <1>3, <2>4, <2>6 DEF RewardInv, BonusInv, BonusesEarned, InsertEvent, ReferralTypeOK
  <2>10. BonusesTrue'
    BY <2>4, <2>6 DEF RewardInv, BonusInv, BonusesTrue, InsertEvent
  <2>11. Cardinality(Rewarded) <= Cardinality(Rewarded')
    <3>1. Rewarded \subseteq Rewarded' BY <2>4, <2>6 DEF Rewarded
    <3> QED BY <2>5, <3>1, CountGrows
  <2>12. Cardinality(Rewarded) \in Nat /\ Cardinality(Rewarded') \in Nat
    <3>1. Rewarded' \subseteq Referred BY DEF Rewarded
    <3> QED BY <3>1, RewardedCounted, ReferralAssumption, FS_Subset, FS_CardinalityType DEF RewardInv
  <2>13. \A d \in Calls : call[d].counted \in Nat BY CallRecord DEF RewardInv
  <2>14. UNCHANGED <<payout, lumpSums>> BY DEF InsertEvent
  <2>15. TierCalls'
    BY <2>2, <2>6, <2>11, <2>12, <2>13, <2>14
    DEF RewardInv, MilestoneInv, TierCalls, InTiers, AtTier, IsNext
  <2>16. SumsEarned' /\ SumsTrue'
    BY <2>11, <2>12, <2>14, ReferralAssumption
    DEF RewardInv, MilestoneInv, SumsEarned, SumsTrue, ReferralTypeOK
  <2>17. NoneMissed' BY <2>2, <2>6 DEF NoneMissed, WillPay
  <2> QED BY <2>5, <2>8, <2>9, <2>10, <2>15, <2>16, <2>17 DEF RewardInv, BonusInv, MilestoneInv
<1> QED BY <1>2, <1>3

LEMMA CallDiesPreserves ==
  ASSUME RewardInv, NEW c \in Calls, CallDies(c)
  PROVE  RewardInv'
<1>1. gap \in BOOLEAN BY DEF RewardInv, ReferralTypeOK
<1>2. CASE call[c].pc \in InMilestones
  <2>1. gap' = TRUE BY <1>2 DEF CallDies
  <2> QED BY <2>1, Moves DEF CallDies, Leave, Active
<1>3. CASE call[c].pc \notin InMilestones
  <2>1. gap' = gap BY <1>1, <1>3 DEF CallDies
  <2> QED BY <1>1, <1>3, <2>1, Moves DEF CallDies, Leave, Active, InMilestones
<1> QED BY <1>2, <1>3

LEMMA ReferralStep == RewardInv /\ [ReferralNext]_referralVars => RewardInv'
<1> SUFFICES ASSUME RewardInv, [ReferralNext]_referralVars PROVE RewardInv'
  OBVIOUS
<1>1. ASSUME UpdateReferralSettings \/ UNCHANGED referralVars PROVE RewardInv'
  <2>1. rewardMode' \in Modes /\ UNCHANGED <<reward, payout, bonus, lumpSums, call, gap>>
    BY <1>1 DEF UpdateReferralSettings, referralVars, RewardInv, ReferralTypeOK
  <2>2. ReferralTypeOK' BY <2>1 DEF RewardInv, ReferralTypeOK
  <2>3. BonusInv'
    BY <2>1 DEF RewardInv, BonusInv, PayingCalls, BonusesEarned, BonusesTrue, User
  <2>4. Rewarded' = Rewarded /\ MilestoneEvents' = MilestoneEvents
    BY <2>1 DEF Rewarded, MilestoneEvents
  <2>5. MilestoneInv'
    BY <2>1, <2>4
    DEF RewardInv, MilestoneInv, TierCalls, SumsEarned, SumsTrue, NoneMissed, WillPay, IsNext
  <2> QED BY <2>2, <2>3, <2>5 DEF RewardInv
<1>2. ASSUME NEW c \in Calls, RewardStep(c) PROVE RewardInv'
  <2>1. CASE ProcessReferralReward(c) BY <2>1, ProcessPreserves
  <2>2. CASE InsertReward(c) BY <2>2, InsertRewardPreserves
  <2>3. CASE FindSettlementWallet(c)
    <3>1. call[c].pc = "settlement" /\ UNCHANGED <<rewardMode, payout, bonus, lumpSums, gap>>
      BY <2>3 DEF FindSettlementWallet
    <3>2. <<User(c), "referrer">> \notin bonus
      BY <3>1 DEF RewardInv, BonusInv, PayingCalls
    <3>3. gap' = gap /\ gap \in BOOLEAN BY <3>1 DEF RewardInv, ReferralTypeOK
    <3>4. CASE Enter(c, "creditReferrer") /\ UNCHANGED reward
      BY <3>1, <3>3, <3>4, Moves
    <3>5. CASE reward' = [reward EXCEPT ![User(c)].status = "failed"] /\ Leave(c)
      BY <3>1, <3>2, <3>5, RowEnds DEF Paying
    <3> QED BY <2>3, <3>4, <3>5 DEF FindSettlementWallet
  <2>4. CASE CreditReferrer(c) \/ CreditReferred(c) BY <2>4, BonusPreserves
  <2>5. CASE CloseReward(c)
    <3> DEFINE status == IF call[c].complete THEN "completed" ELSE "processing"
    <3>1. /\ call[c].pc = "close" /\ Leave(c)
          /\ reward' = [reward EXCEPT ![User(c)].status = status]
          /\ UNCHANGED <<rewardMode, payout, bonus, lumpSums, gap>>
      BY <2>5 DEF CloseReward
    <3>2. status = "completed" => <<User(c), "referrer">> \in bonus
      BY <3>1 DEF RewardInv, BonusInv, PayingCalls
    <3>3. status \in {"processing", "completed"} OBVIOUS
    <3> HIDE DEF status
    <3> QED BY <3>1, <3>2, <3>3, RowEnds DEF Paying
  <2>6. CASE InsertEvent(c) BY <2>6, InsertEventPreserves
  <2>7. CASE CountEvents(c) BY <2>7, CountPreserves
  <2>8. CASE TiersEnd(c)
    BY <2>8, Moves DEF TiersEnd, Leave, Active, InMilestones, RewardInv, ReferralTypeOK
  <2>9. CASE CallDies(c) BY <2>9, CallDiesPreserves
  <2>10. CASE \E n \in Tiers : \/ InsertPayout(c, n) \/ InsertPayoutFails(c, n)
                               \/ CreditMilestone(c, n) \/ ClosePayout(c, n)
    BY <2>10, TierPreserves
  <2> QED BY <1>2, <2>1, <2>2, <2>3, <2>4, <2>5, <2>6, <2>7, <2>8, <2>9, <2>10 DEF RewardStep
<1> QED BY <1>1, <1>2 DEF ReferralNext

THEOREM ReferralInvariant == ReferralSpec => []RewardInv
BY RewardsStart, ReferralStep, PTL DEF ReferralSpec

LEMMA RewardsKeep == RewardInv => RewardsAreTrue /\ RewardsAreEarned /\ MilestonesReached
<1>1. RewardInv => RewardsAreTrue
  BY DEF RewardInv, BonusInv, MilestoneInv, BonusesTrue, SumsTrue, RewardsAreTrue
<1>2. RewardInv => RewardsAreEarned
  BY DEF RewardInv, BonusInv, MilestoneInv, BonusesEarned, SumsEarned, RewardsAreEarned
<1>3. RewardInv => MilestonesReached
  BY DEF RewardInv, MilestoneInv, NoneMissed, WillPay, MilestonesReached, InTiers, AtTier,
         InMilestones
<1> QED BY <1>1, <1>2, <1>3

\* A reward or milestone shown as completed was paid and one shown as failed was not,
\* whichever calls raced, died or met another mode.
THEOREM RewardsTruthful == ReferralSpec => []RewardsAreTrue
BY ReferralInvariant, RewardsKeep, PTL

\* What is paid was earned.
THEOREM RewardsEarned == ReferralSpec => []RewardsAreEarned
BY ReferralInvariant, RewardsKeep, PTL

\* However closely the events of a referrer fall together, some call counts them all.
THEOREM NoMilestoneMissed == ReferralSpec => []MilestonesReached
BY ReferralInvariant, RewardsKeep, PTL
=============================================================================
