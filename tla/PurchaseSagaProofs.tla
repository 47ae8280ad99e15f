------------------------- MODULE PurchaseSagaProofs --------------------------
(* The purchase saga, for every route, number of slots, attempts, polls and    *)
(* mishaps: the jobs keep their shape, the customer is refunded once, nobody   *)
(* with an answer on record is asked again, a success stays one, one mishap    *)
(* strands nobody.  Without mishaps the saga keeps the customer's contract and *)
(* ends in a true status; with one provider nothing delivered is refunded.     *)
EXTENDS PurchaseSaga, FiniteSetTheorems, SequenceTheorems, TLAPS

DeadPc     == {"deadRecord", "deadRead", "deadWrite"}
PurchasePc == EnginePc \union DeadPc \union
                {"load", "mark", "netRead", "netWrite", "timeoutRead", "timeoutWrite"}
VerifyPc   == {"verifyLoad", "verify", "verifySucceed", "requeue", "verifyReview",
               "verifyRefund", "verifyFail"}
\* Where an execution has a candidate in hand.
HeadPc     == {"call", "record", "succeed", "pend", "enqueue"}

\* What holds of a job besides its type: its kind fits its place, a verification
\* knows the provider it polls, an attempt is left unless the job failed for
\* good, there is a candidate where one is used, and a poll that is repeated was
\* not the last.
JobOK(p) ==
  /\ p.kind = "free" => p = Free
  /\ p.pc = "free" => p.kind = "free"
  /\ p.pc \in PurchasePc => p.kind = "purchase"
  /\ p.pc \in VerifyPc => p.kind = "verify"
  /\ p.kind = "verify" => p.at \in Providers
  /\ p.kind # "free" /\ p.pc \notin DeadPc => p.made < p.max
  /\ p.pc \in HeadPc => p.cands # <<>>
  /\ p.pc = "requeue" => p.polls + 1 < MaxPolls
  /\ p.detached => p.pc \in EnginePc

JobsOK == proc \in [Slots -> Jobs] /\ \A s \in Slots : JobOK(proc[s])

-----------------------------------------------------------------------------
(* The jobs the actions make are sound.                                        *)

LEMMA Bounds ==
  /\ MaxAttempts \in Nat /\ MaxPolls \in Nat /\ 0 \in 0..MaxAttempts /\ 0 \in 0..(MaxPolls - 1)
  /\ 1 \in 1..MaxAttempts /\ MaxAttempts \in 1..MaxAttempts
  /\ \A n \in 1..MaxAttempts : n \in 0..MaxAttempts
BY SettingsAssumption

LEMMA FreeSound == Free \in Jobs /\ JobOK(Free)
<1>1. Free \in Jobs BY Bounds DEF Free, Jobs, Pcs
<1>2. JobOK(Free) BY DEF Free, JobOK, EnginePc, PurchasePc, VerifyPc, DeadPc, HeadPc
<1> QED BY <1>1, <1>2

LEMMA QueuedSound ==
  ASSUME NEW p \in Jobs, p.pc = "waiting", p.kind # "free", ~p.detached, p.made < p.max,
         p.kind = "verify" => p.at \in Providers
  PROVE  JobOK(p)
BY DEF JobOK, EnginePc, PurchasePc, VerifyPc, DeadPc, HeadPc

LEMMA PurchaseJobSound ==
  ASSUME NEW max \in 1..MaxAttempts
  PROVE  PurchaseJob(max) \in Jobs /\ JobOK(PurchaseJob(max))
<1>1. PurchaseJob(max) \in Jobs BY FreeSound, Bounds DEF PurchaseJob, Jobs, Pcs
<1>2. /\ PurchaseJob(max).kind = "purchase" /\ PurchaseJob(max).pc = "waiting"
      /\ PurchaseJob(max).made = 0 /\ PurchaseJob(max).max = max /\ ~PurchaseJob(max).detached
  BY DEF PurchaseJob, Free
<1> QED BY <1>1, <1>2, QueuedSound

LEMMA VerifyJobSound ==
  ASSUME NEW q \in Providers, NEW polls \in 0..(MaxPolls - 1)
  PROVE  VerifyJob(q, polls) \in Jobs /\ JobOK(VerifyJob(q, polls))
<1>1. VerifyJob(q, polls) \in Jobs BY FreeSound, Bounds DEF VerifyJob, Jobs, Pcs
<1>2. /\ VerifyJob(q, polls).kind = "verify" /\ VerifyJob(q, polls).pc = "waiting"
      /\ VerifyJob(q, polls).made = 0 /\ VerifyJob(q, polls).max = MaxAttempts
      /\ ~VerifyJob(q, polls).detached /\ VerifyJob(q, polls).at = q
  BY DEF VerifyJob, Free
<1> QED BY <1>1, <1>2, Bounds, QueuedSound

LEMMA RequeuedIs ==
  ASSUME NEW p \in Jobs
  PROVE  /\ Requeued(p) \in Jobs
         /\ Requeued(p).kind = p.kind /\ Requeued(p).pc = "waiting" /\ Requeued(p).made = p.made
         /\ Requeued(p).max = p.max /\ Requeued(p).at = p.at /\ ~Requeued(p).detached
<1>1. Requeued(p) \in Jobs BY FreeSound DEF Requeued, Jobs, Pcs
<1> QED BY <1>1 DEF Requeued, Free

LEMMA RequeuedSound ==
  ASSUME NEW p \in Jobs, p.made < p.max, p.kind # "free", p.kind = "verify" => p.at \in Providers
  PROVE  Requeued(p) \in Jobs /\ JobOK(Requeued(p))
BY RequeuedIs, QueuedSound

LEMMA MovedIs ==
  ASSUME NEW p \in Jobs, NEW pc \in Pcs
  PROVE  /\ [p EXCEPT !.pc = pc] \in Jobs
         /\ [p EXCEPT !.pc = pc].pc = pc /\ [p EXCEPT !.pc = pc].kind = p.kind
         /\ [p EXCEPT !.pc = pc].detached = p.detached
BY DEF Jobs

\* A job at another place: what the place asks of it has to be there.
LEMMA MovedSound ==
  ASSUME NEW p \in Jobs, NEW pc \in Pcs \ {"free", "waiting"}, JobOK(p), p.kind # "free",
         pc \in PurchasePc => p.kind = "purchase",
         pc \in VerifyPc => p.kind = "verify",
         pc \in HeadPc => p.cands # <<>>,
         pc = "requeue" => p.polls + 1 < MaxPolls,
         p.detached => pc \in EnginePc,
         p.pc \in DeadPc => pc \in DeadPc
  PROVE  [p EXCEPT !.pc = pc] \in Jobs /\ JobOK([p EXCEPT !.pc = pc])
<1> DEFINE q == [p EXCEPT !.pc = pc]
<1>1. q \in Jobs BY DEF Jobs
<1>2. /\ q.kind = p.kind /\ q.pc = pc /\ q.at = p.at /\ q.made = p.made /\ q.max = p.max
      /\ q.cands = p.cands /\ q.polls = p.polls /\ q.detached = p.detached
  BY DEF Jobs
<1>3. JobOK(q) BY <1>2 DEF JobOK
<1> QED BY <1>1, <1>3

LEMMA RejectedSound ==
  ASSUME NEW p \in Jobs, JobOK(p), p.kind # "free", p.pc \notin DeadPc
  PROVE  Rejected(p) \in Jobs /\ JobOK(Rejected(p))
<1> DEFINE counted == [p EXCEPT !.made = p.made + 1]
<1>1. p.made < p.max /\ p.made \in 0..MaxAttempts /\ p.max \in 0..MaxAttempts
  BY DEF JobOK, Jobs
<1>2. p.made + 1 \in 0..MaxAttempts BY <1>1, Bounds
<1>3. /\ counted.made = p.made + 1 /\ counted.max = p.max /\ counted.kind = p.kind
      /\ counted.at = p.at /\ counted.detached = p.detached
  BY DEF Jobs
<1>4. counted \in Jobs BY <1>2 DEF Jobs
<1>5. CASE p.detached BY <1>5, FreeSound DEF Rejected
<1>6. CASE ~p.detached /\ counted.made < p.max
  BY <1>3, <1>4, <1>6, RequeuedSound DEF Rejected, JobOK
<1>7. CASE ~p.detached /\ ~(counted.made < p.max) /\ p.kind = "purchase"
  <2>1. Rejected(p) = [Requeued(counted) EXCEPT !.pc = "deadRecord"] BY <1>7 DEF Rejected
  <2>2. Requeued(counted) \in Jobs /\ Requeued(counted).kind = "purchase"
        /\ ~Requeued(counted).detached
    BY <1>3, <1>4, <1>7, RequeuedIs
  <2>4. "deadRecord" \in Pcs BY DEF Pcs
  <2>5. /\ Rejected(p) \in Jobs /\ Rejected(p).kind = "purchase"
        /\ Rejected(p).pc = "deadRecord" /\ ~Rejected(p).detached
    BY <2>1, <2>2, <2>4, MovedIs
  <2>6. JobOK(Rejected(p))
    BY <2>5 DEF JobOK, EnginePc, PurchasePc, VerifyPc, DeadPc, HeadPc
  <2> QED BY <2>5, <2>6
<1>8. CASE ~p.detached /\ ~(counted.made < p.max) /\ p.kind # "purchase"
  BY <1>8, FreeSound DEF Rejected
<1> QED BY <1>5, <1>6, <1>7, <1>8

LEMMA Replaced ==
  ASSUME JobsOK, NEW s \in Slots, NEW p \in Jobs, JobOK(p), proc' = [proc EXCEPT ![s] = p]
  PROVE  JobsOK'
BY DEF JobsOK

LEMMA Moved ==
  ASSUME JobsOK, NEW s \in Slots, NEW pc \in Pcs \ {"free", "waiting"}, Goto(s, pc),
         proc[s].pc # "free",
         pc \in PurchasePc => proc[s].kind = "purchase",
         pc \in VerifyPc => proc[s].kind = "verify",
         pc \in HeadPc => proc[s].cands # <<>>,
         pc = "requeue" => proc[s].polls + 1 < MaxPolls,
         proc[s].detached => pc \in EnginePc,
         proc[s].pc \in DeadPc => pc \in DeadPc
  PROVE  JobsOK'
<1>1. proc[s] \in Jobs /\ JobOK(proc[s]) BY DEF JobsOK
<1>2. proc[s].kind # "free" BY <1>1 DEF JobOK, Free
<1>3. proc' = [proc EXCEPT ![s] = [proc[s] EXCEPT !.pc = pc]] BY DEF Goto
<1>4. [proc[s] EXCEPT !.pc = pc] \in Jobs /\ JobOK([proc[s] EXCEPT !.pc = pc])
  BY <1>1, <1>2, MovedSound
<1> QED BY <1>3, <1>4, Replaced

LEMMA Thrown ==
  ASSUME JobsOK, NEW s \in Slots, proc[s].pc \notin DeadPc \union {"free"}, Throw(s)
  PROVE  JobsOK'
<1>1. proc[s] \in Jobs /\ JobOK(proc[s]) /\ proc[s].kind # "free"
  BY DEF JobsOK, JobOK, Free
<1> QED BY <1>1, RejectedSound, Replaced DEF Throw

LEMMA Finished ==
  ASSUME JobsOK, NEW s \in Slots, Finish(s) PROVE JobsOK'
BY FreeSound, Replaced DEF Finish

-----------------------------------------------------------------------------
(* Every action keeps the jobs sound.                                          *)

LEMMA PcSets ==
  /\ PurchasePc \subseteq Pcs \ {"free", "waiting"} /\ VerifyPc \subseteq Pcs \ {"free", "waiting"}
  /\ HeadPc \subseteq EnginePc /\ EnginePc \subseteq PurchasePc /\ DeadPc \subseteq PurchasePc
  /\ EnginePc \cap DeadPc = {} /\ PurchasePc \cap VerifyPc = {}
  /\ Pcs = PurchasePc \union VerifyPc \union {"free", "waiting"}
BY DEF PurchasePc, VerifyPc, HeadPc, DeadPc, EnginePc, Pcs

\* The steps that only move on, from one place of a purchase to the next.
LEMMA PurchaseMoves ==
  ASSUME JobsOK, NEW s \in Slots, NEW from \in PurchasePc, NEW to \in PurchasePc,
         proc[s].pc = from, Goto(s, to),
         to \in HeadPc => from \in HeadPc,
         from \in EnginePc => to \in EnginePc \/ ~proc[s].detached,
         from \in DeadPc => to \in DeadPc
  PROVE  JobsOK'
<1>1. JobOK(proc[s]) BY DEF JobsOK
<1>2. proc[s].kind = "purchase" /\ (from \in HeadPc => proc[s].cands # <<>>)
      /\ (proc[s].detached => from \in EnginePc)
  BY <1>1 DEF JobOK
<1>3. to \in Pcs \ {"free", "waiting"} /\ to \notin VerifyPc /\ to # "requeue"
      /\ from # "free"
  BY PcSets DEF VerifyPc
<1> QED BY <1>2, <1>3, Moved

LEMMA VerifyMoves ==
  ASSUME JobsOK, NEW s \in Slots, NEW from \in VerifyPc, NEW to \in VerifyPc,
         proc[s].pc = from, Goto(s, to), to = "requeue" => proc[s].polls + 1 < MaxPolls
  PROVE  JobsOK'
<1>1. JobOK(proc[s]) BY DEF JobsOK
<1>2. proc[s].kind = "verify" /\ ~proc[s].detached
  BY <1>1, PcSets DEF JobOK
<1>3. to \in Pcs \ {"free", "waiting"} /\ to \notin PurchasePc /\ to \notin HeadPc
      /\ from # "free" /\ from \notin DeadPc
  BY PcSets
<1> QED BY <1>2, <1>3, Moved

LEMMA FreeSlotIs == FreeSlots # {} => FreeSlot \in Slots /\ proc[FreeSlot] = Free
BY DEF FreeSlots, FreeSlot

LEMMA Enqueued ==
  ASSUME JobsOK, NEW p \in Jobs, JobOK(p), FreeSlots # {}, proc' = [proc EXCEPT ![FreeSlot] = p]
  PROVE  JobsOK'
BY FreeSlotIs, Replaced

LEMMA TwoReplaced ==
  ASSUME JobsOK, NEW s \in Slots, NEW t \in Slots, NEW p \in Jobs, NEW q \in Jobs,
         JobOK(p), JobOK(q), proc' = [proc EXCEPT ![s] = p, ![t] = q]
  PROVE  JobsOK'
BY DEF JobsOK

LEMMA ResolveJobs == ASSUME JobsOK, NEW s \in Slots, Resolve(s) PROVE JobsOK'
<1>1. PICK eligible \in Eligible : \E cands \in Candidates(eligible \ FailedCodes) :
        LET unsure == FailedCodes # {} IN
        proc' = [proc EXCEPT ![s].cands = cands, ![s].unsure = unsure,
                   ![s].pc = IF cands # <<>> THEN "call"
                             ELSE IF unsure THEN "review" ELSE "refund"]
  BY DEF Resolve
<1>2. PICK cands \in Candidates(eligible \ FailedCodes) :
        proc' = [proc EXCEPT ![s].cands = cands, ![s].unsure = (FailedCodes # {}),
                   ![s].pc = IF cands # <<>> THEN "call"
                             ELSE IF FailedCodes # {} THEN "review" ELSE "refund"]
  BY <1>1
<1> DEFINE pc == IF cands # <<>> THEN "call" ELSE IF FailedCodes # {} THEN "review" ELSE "refund"
           p  == [proc[s] EXCEPT !.cands = cands, !.unsure = (FailedCodes # {}), !.pc = pc]
<1>3. proc[s] \in Jobs /\ JobOK(proc[s]) /\ proc[s].pc = "resolve" BY DEF JobsOK, Resolve
<1>4. cands \in Seq(Providers)
  <2>1. PICK n \in 0..Len(Route) : cands \in [1..n -> Providers]
    BY DEF Candidates, CandidateLists
  <2> QED BY <2>1, RouteAssumption, SeqDef
<1>5. pc \in {"call", "review", "refund"} /\ (pc = "call" => cands # <<>>) /\ pc \in Pcs
  BY DEF Pcs, EnginePc
<1>6. (FailedCodes # {}) \in BOOLEAN OBVIOUS
<1>7. /\ p.pc = pc /\ p.cands = cands /\ p.kind = proc[s].kind /\ p.made = proc[s].made
      /\ p.max = proc[s].max /\ p.detached = proc[s].detached /\ p.at = proc[s].at
  BY <1>3 DEF Jobs
<1>8. p \in Jobs
  <2> HIDE DEF pc
  <2> QED BY <1>3, <1>4, <1>5, <1>6 DEF Jobs
<1>9. JobOK(p)
  <2>1. proc[s].kind = "purchase" /\ proc[s].made < proc[s].max
    BY <1>3 DEF JobOK, PurchasePc, EnginePc, DeadPc, Free
  <2> HIDE DEF p, pc
  <2> QED BY <1>5, <1>7, <2>1 DEF JobOK, EnginePc, PurchasePc, VerifyPc, DeadPc, HeadPc
<1>10. proc' = [proc EXCEPT ![s] = p] BY <1>2
<1> QED BY <1>8, <1>9, <1>10, Replaced

LEMMA CallJobs == ASSUME JobsOK, NEW s \in Slots, Call(s) PROVE JobsOK'
<1>1. proc[s] \in Jobs /\ JobOK(proc[s]) /\ proc[s].pc = "call" BY DEF JobsOK, Call
<1>2. PICK a \in KnownAnswers : proc' = [proc EXCEPT ![s].pc = "record", ![s].answer = a]
  <2>1. Head(proc[s].cands) \in Providers
    BY <1>1 DEF JobOK, HeadPc, Jobs
  <2>2. Answers[Head(proc[s].cands)] \subseteq KnownAnswers BY <2>1, SettingsAssumption
  <2>3. \A fate : Again(fate) \in KnownAnswers BY DEF Again, KnownAnswers
  <2> QED BY <2>2, <2>3 DEF Call
<1> DEFINE p == [proc[s] EXCEPT !.pc = "record", !.answer = a]
<1>3. "record" \in Pcs BY DEF Pcs, EnginePc
<1>4. p \in Jobs BY <1>1, <1>3 DEF Jobs
<1>5. /\ p.pc = "record" /\ p.cands = proc[s].cands /\ p.kind = proc[s].kind
      /\ p.made = proc[s].made /\ p.max = proc[s].max
  BY <1>1 DEF Jobs
<1>6. JobOK(p)
  <2>1. proc[s].kind = "purchase" /\ proc[s].made < proc[s].max /\ proc[s].cands # <<>>
    BY <1>1 DEF JobOK, PurchasePc, EnginePc, DeadPc, HeadPc, Free
  <2> HIDE DEF p
  <2> QED BY <1>5, <2>1 DEF JobOK, EnginePc, PurchasePc, VerifyPc, DeadPc, HeadPc
<1>7. proc' = [proc EXCEPT ![s] = p] BY <1>2
<1> QED BY <1>4, <1>6, <1>7, Replaced

LEMMA DecideSound ==
  ASSUME NEW p \in Jobs, JobOK(p), p.pc = "record"
  PROVE  Decide(p) \in Jobs /\ JobOK(Decide(p))
<1> DEFINE unsure == p.unsure \/ Ambiguous(p.answer)
<1>1. p.kind = "purchase" /\ p.made < p.max /\ p.cands # <<>> /\ p.cands \in Seq(Providers)
  BY DEF JobOK, PurchasePc, EnginePc, DeadPc, HeadPc, Free, Jobs
<1>2. unsure \in BOOLEAN BY DEF Ambiguous, Jobs
<1>3. ASSUME NEW pc \in {"succeed", "pend", "review", "refund"}
      PROVE  [p EXCEPT !.pc = pc] \in Jobs /\ JobOK([p EXCEPT !.pc = pc])
  <2>1. pc \in EnginePc /\ pc \in PurchasePc /\ pc \in Pcs \ {"free", "waiting"}
        /\ pc \notin VerifyPc /\ pc # "requeue" /\ p.pc \notin DeadPc /\ p.kind # "free"
    BY <1>1 DEF EnginePc, PurchasePc, Pcs, VerifyPc, DeadPc
  <2> QED BY <1>1, <2>1, MovedSound
<1> DEFINE q == [p EXCEPT !.pc = "call", !.cands = Tail(p.cands), !.unsure = unsure,
                          !.answer = "none"]
<1>4. Tail(p.cands) \in Seq(Providers) BY <1>1
<1>5. q \in Jobs
  <2>1. "call" \in Pcs BY DEF Pcs, EnginePc
  <2> HIDE DEF unsure
  <2> QED BY <1>2, <1>4, <2>1 DEF Jobs
<1>6. /\ q.pc = "call" /\ q.kind = p.kind /\ q.cands = Tail(p.cands) /\ q.made = p.made
      /\ q.max = p.max
  BY DEF Jobs
<1>7. ASSUME Tail(p.cands) # <<>> PROVE JobOK(q)
  <2> HIDE DEF q
  <2> QED BY <1>1, <1>6, <1>7 DEF JobOK, EnginePc, PurchasePc, VerifyPc, DeadPc, HeadPc
<1> HIDE DEF unsure
<1>8. Decide(p) = Outcome(p, unsure) BY DEF Decide, unsure
<1>9. CASE p.answer = "ok" BY <1>3, <1>8, <1>9 DEF Outcome
<1>10. CASE p.answer = "pending" BY <1>3, <1>8, <1>10 DEF Outcome
<1>11. CASE /\ p.answer \notin {"ok", "pending"}
            /\ p.answer = "invalid" \/ Tail(p.cands) = <<>>
  <2>1. Outcome(p, unsure) = [p EXCEPT !.pc = IF unsure THEN "review" ELSE "refund"]
    BY <1>11 DEF Outcome
  <2> QED BY <1>3, <1>8, <2>1
<1>12. CASE /\ p.answer \notin {"ok", "pending"}
            /\ ~(p.answer = "invalid" \/ Tail(p.cands) = <<>>)
  <2>1. Outcome(p, unsure) = q BY <1>12 DEF Outcome
  <2> QED BY <1>5, <1>7, <1>8, <1>12, <2>1
<1> QED BY <1>9, <1>10, <1>11, <1>12

LEMMA RecordJobs == ASSUME JobsOK, NEW s \in Slots, RecordAttempt(s) PROVE JobsOK'
<1>1. proc[s] \in Jobs /\ JobOK(proc[s]) /\ proc[s].pc = "record" BY DEF JobsOK, RecordAttempt
<1>2. proc' = [proc EXCEPT ![s] = Decide(proc[s])] BY DEF RecordAttempt
<1> QED BY <1>1, <1>2, DecideSound, Replaced

LEMMA EnqueueVerifyJobs == ASSUME JobsOK, NEW s \in Slots, EnqueueVerify(s) PROVE JobsOK'
<1>1. proc[s] \in Jobs /\ JobOK(proc[s]) /\ proc[s].pc = "enqueue"
  BY DEF JobsOK, EnqueueVerify
<1> DEFINE p == [proc[s] EXCEPT !.pc = "complete"]
           v == VerifyJob(Head(proc[s].cands), 0)
<1>2. p \in Jobs /\ JobOK(p)
  <2>1. proc[s].kind = "purchase" BY <1>1 DEF JobOK, PurchasePc, EnginePc
  <2>2. /\ "complete" \in Pcs \ {"free", "waiting"} /\ "complete" \notin VerifyPc
        /\ "complete" \notin HeadPc /\ "complete" \in EnginePc /\ "enqueue" \notin DeadPc
    BY DEF Pcs, EnginePc, VerifyPc, HeadPc, DeadPc
  <2> QED BY <1>1, <2>1, <2>2, MovedSound
<1>3. v \in Jobs /\ JobOK(v)
  <2>1. Head(proc[s].cands) \in Providers BY <1>1 DEF JobOK, HeadPc, Jobs
  <2> QED BY <2>1, Bounds, VerifyJobSound
<1>4. FreeSlot \in Slots /\ FreeSlot # s
  <2>1. FreeSlots # {} BY DEF EnqueueVerify
  <2> QED BY <1>1, <2>1, FreeSlotIs DEF Free
<1>5. proc' = [proc EXCEPT ![s] = p, ![FreeSlot] = v] BY <1>1, <1>4 DEF EnqueueVerify, JobsOK
<1> QED BY <1>2, <1>3, <1>4, <1>5, TwoReplaced

LEMMA TimeoutJobs == ASSUME JobsOK, NEW s \in Slots, Timeout(s) PROVE JobsOK'
<1>1. proc[s] \in Jobs /\ JobOK(proc[s]) /\ proc[s].pc \in EnginePc
  BY DEF JobsOK, Timeout
<1>2. proc[s].kind = "purchase" /\ proc[s].made < proc[s].max
  BY <1>1, PcSets DEF JobOK, Free, EnginePc, DeadPc
<1> DEFINE d == [proc[s] EXCEPT !.detached = TRUE]
           r == Requeued(proc[s])
           q == [r EXCEPT !.pc = "timeoutRead"]
<1>3. d \in Jobs /\ JobOK(d)
  <2>1. d \in Jobs BY <1>1 DEF Jobs
  <2>2. /\ d.kind = "purchase" /\ d.pc = proc[s].pc /\ d.cands = proc[s].cands
        /\ d.made = proc[s].made /\ d.max = proc[s].max
    BY <1>1, <1>2 DEF Jobs
  <2>3. d.pc \notin VerifyPc \union {"free", "requeue"} BY <1>1, <2>2, PcSets DEF VerifyPc, EnginePc
  <2> HIDE DEF d
  <2> QED BY <1>1, <1>2, <2>1, <2>2, <2>3 DEF JobOK
<1>4. r \in Jobs /\ JobOK(r) /\ r.kind = "purchase" /\ r.pc = "waiting" /\ ~r.detached
  BY <1>1, <1>2, RequeuedIs, RequeuedSound
<1>5. q \in Jobs /\ JobOK(q)
  <2>1. /\ "timeoutRead" \in Pcs \ {"free", "waiting"} /\ "timeoutRead" \notin VerifyPc
        /\ "timeoutRead" \notin HeadPc /\ "waiting" \notin DeadPc
    BY DEF Pcs, VerifyPc, HeadPc, DeadPc
  <2> HIDE DEF r
  <2> QED BY <1>4, <2>1, MovedSound
<1>6. FreeSlot \in Slots
  BY FreeSlotIs DEF Timeout
<1>7. proc' = [proc EXCEPT ![FreeSlot] = d, ![s] = q] BY DEF Timeout
<1> QED BY <1>3, <1>5, <1>6, <1>7, TwoReplaced

LEMMA AfterCrashSound ==
  ASSUME NEW p \in Jobs, JobOK(p) PROVE AfterCrash(p) \in Jobs /\ JobOK(AfterCrash(p))
<1>1. CASE p.pc \in {"free", "waiting"} BY <1>1 DEF AfterCrash
<1>2. CASE p.pc \notin {"free", "waiting"} /\ (p.detached \/ p.stalled \/ p.pc \in DeadPc)
  <2>1. AfterCrash(p) = Free BY <1>2 DEF AfterCrash, DeadPc
  <2> QED BY <2>1, FreeSound
<1>3. CASE p.pc \notin {"free", "waiting"} /\ ~(p.detached \/ p.stalled \/ p.pc \in DeadPc)
  <2> DEFINE r == Requeued(p)
             q == [r EXCEPT !.stalled = TRUE]
  <2>1. AfterCrash(p) = q BY <1>3 DEF AfterCrash, DeadPc
  <2>2. p.kind # "free" /\ p.made < p.max /\ (p.kind = "verify" => p.at \in Providers)
    BY <1>3 DEF JobOK, Free
  <2>3. /\ r \in Jobs /\ r.kind = p.kind /\ r.pc = "waiting" /\ r.made = p.made
        /\ r.max = p.max /\ r.at = p.at /\ ~r.detached
    BY RequeuedIs
  <2>4. /\ q \in Jobs /\ q.kind = p.kind /\ q.pc = "waiting" /\ q.made = p.made
        /\ q.max = p.max /\ q.at = p.at /\ ~q.detached
    <3> HIDE DEF r
    <3> QED BY <2>3 DEF Jobs
  <2> HIDE DEF q
  <2> QED BY <2>1, <2>2, <2>4, QueuedSound
<1> QED BY <1>1, <1>2, <1>3

LEMMA CallFailsJobs == ASSUME JobsOK, NEW s \in Slots, CallFails(s) PROVE JobsOK'
<1>1. proc[s] \in Jobs /\ JobOK(proc[s]) BY DEF JobsOK
<1>2. CASE proc[s].pc \in Throwing \union {"timeoutWrite"} /\ Throw(s)
  <2>1. proc[s].pc \notin DeadPc \union {"free"} BY <1>2 DEF Throwing, DeadPc
  <2> QED BY <1>2, <2>1, Thrown
<1>3. CASE proc[s].pc \in CaughtReads /\ proc' = [proc EXCEPT ![s] = AfterCaughtRead(proc[s])]
  <2>1. CASE proc[s].pc = "replayRead"
    <3>1. Goto(s, "complete") BY <1>3, <2>1 DEF AfterCaughtRead, Goto
    <3> QED BY <2>1, <3>1, PurchaseMoves DEF PurchasePc, HeadPc, EnginePc, DeadPc
  <2>2. CASE proc[s].pc = "timeoutRead"
    <3>1. Throw(s) BY <1>3, <2>2 DEF AfterCaughtRead, Throw
    <3> QED BY <2>2, <3>1, Thrown DEF DeadPc
  <2>3. CASE proc[s].pc \notin {"replayRead", "timeoutRead"}
    <3>1. Finish(s) BY <1>3, <2>3 DEF AfterCaughtRead, Finish
    <3> QED BY <3>1, Finished
  <2> QED BY <2>1, <2>2, <2>3
<1>4. CASE Finish(s) BY <1>4, Finished
<1> QED BY <1>2, <1>3, <1>4 DEF CallFails

OrderStates == {"open", "delivered", "rejected"}
OrdersOK == orders \in [Providers -> Seq(OrderStates)]

LEMMA VerdictsAre ==
  ASSUME OrdersOK, NEW p \in Providers, NEW lost
  PROVE  /\ Verdicts(p, lost) \subseteq {"pending", "delivered", "rejected"}
         /\ "delivered" \in Verdicts(p, lost) => Delivered(p)
         /\ MisreadVerdict(p, "rejected") =>
              p \in misread' \/ \E i \in DOMAIN orders[p] : orders[p][i] = "rejected"
<1>1. orders[p] \in Seq(OrderStates) BY DEF OrdersOK
<1>2. \A i \in DOMAIN orders[p] : orders[p][i] \in OrderStates BY <1>1
<1> QED BY <1>2 DEF Verdicts, Held, MisreadVerdict, Delivered, OrderStates

\* What a query says is taken as it is said.
LEMMA VerifyTransactionIs ==
  ASSUME NEW s \in Slots, VerifyTransaction(s)
  PROVE  \E verdict \in Verdicts(proc[s].at, LostByReference) :
           Goto(s, AfterPoll(verdict, proc[s].polls)) /\ MisreadVerdict(proc[s].at, verdict)
BY DEF VerifyTransaction

LEMMA VerifyTransactionJobs ==
  ASSUME JobsOK, OrdersOK, NEW s \in Slots, VerifyTransaction(s) PROVE JobsOK'
<1>1. PICK verdict \in Verdicts(proc[s].at, LostByReference) :
        Goto(s, AfterPoll(verdict, proc[s].polls))
  BY DEF VerifyTransaction
<1>2. proc[s] \in Jobs /\ JobOK(proc[s]) /\ proc[s].pc = "verify" BY DEF VerifyTransaction, JobsOK
<1>3. proc[s].polls \in Nat /\ proc[s].at \in Providers BY <1>2, PcSets DEF JobOK, Jobs, VerifyPc
<1>4. verdict \in {"pending", "delivered", "rejected"} BY <1>3, VerdictsAre
<1> DEFINE pc == AfterPoll(verdict, proc[s].polls)
<1>5. pc \in {"verifySucceed", "verifyRefund", "verifyReview", "requeue"} BY DEF AfterPoll
<1>6. pc = "requeue" => proc[s].polls + 1 < MaxPolls
  BY <1>3, <1>4, Bounds DEF AfterPoll, LastPoll
<1> QED BY <1>1, <1>2, <1>5, <1>6, VerifyMoves DEF VerifyPc

LEMMA JobsPreserved == ASSUME JobsOK, OrdersOK, [Next]_vars PROVE JobsOK'
<1> USE DEF PurchasePc, VerifyPc, HeadPc, EnginePc, DeadPc
<1>1. CASE UNCHANGED vars BY <1>1 DEF vars, JobsOK
<1>2. CASE Debit \/ CreateTransaction \/ RequestLost
  BY <1>2 DEF Debit, CreateTransaction, RequestLost, JobsOK
<1>3. CASE AddJob
  BY <1>3, Bounds, PurchaseJobSound, Enqueued DEF AddJob
<1>4. CASE WorkerCrash
  <2>1. proc' = [s \in Slots |-> AfterCrash(proc[s])] BY <1>4 DEF WorkerCrash
  <2> QED BY <2>1, AfterCrashSound DEF JobsOK
<1>5. ASSUME NEW p \in Providers, NEW i \in DOMAIN orders[p], Settle(p, i) PROVE JobsOK'
  BY <1>5 DEF Settle, JobsOK
<1>6. ASSUME NEW s \in Slots, Start(s) PROVE JobsOK'
  <2>1. proc[s] \in Jobs /\ JobOK(proc[s]) /\ proc[s].pc = "waiting" BY <1>6 DEF JobsOK, Start
  <2>2. proc[s].kind \in {"purchase", "verify"} /\ ~proc[s].detached
    BY <2>1 DEF JobOK, Jobs, Free
  <2>3. Goto(s, IF proc[s].kind = "verify" THEN "verifyLoad" ELSE "load") BY <1>6 DEF Start
  <2>4. {"load", "verifyLoad"} \subseteq Pcs BY DEF Pcs
  <2> QED BY <2>1, <2>2, <2>3, <2>4, Moved
<1>7. ASSUME NEW s \in Slots,
             LoadTransaction(s) \/ MarkProcessing(s) \/ FindSuccess(s) \/ ReplayRead(s) \/ ReplayWrite(s)
      PROVE JobsOK'
  <2>1. CASE LoadTransaction(s) BY <2>1, Thrown, Finished, PurchaseMoves DEF LoadTransaction
  <2>2. CASE MarkProcessing(s) BY <2>2, PurchaseMoves DEF MarkProcessing
  <2>3. CASE FindSuccess(s) BY <2>3, PurchaseMoves DEF FindSuccess, AfterFindSuccess
  <2>4. CASE ReplayRead(s) BY <2>4, PurchaseMoves DEF ReplayRead
  <2>5. CASE ReplayWrite(s) BY <2>5, PurchaseMoves DEF ReplayWrite
  <2> QED BY <1>7, <2>1, <2>2, <2>3, <2>4, <2>5
<1>8. ASSUME NEW s \in Slots, Resolve(s) \/ Call(s) \/ RecordAttempt(s) \/ EnqueueVerify(s)
                              \/ Timeout(s) \/ CallFails(s) \/ VerifyTransaction(s)
      PROVE JobsOK'
  BY <1>8, ResolveJobs, CallJobs, RecordJobs, EnqueueVerifyJobs, TimeoutJobs, CallFailsJobs,
     VerifyTransactionJobs
<1>9. ASSUME NEW s \in Slots,
             \/ HandleSuccess(s) \/ HandlePending(s) \/ HandleRequiresReview(s)
             \/ HandleAllFailed(s) \/ MarkFailed(s) \/ Complete(s)
      PROVE JobsOK'
  <2>1. CASE HandleSuccess(s) BY <2>1, PurchaseMoves DEF HandleSuccess
  <2>2. CASE HandlePending(s) BY <2>2, PurchaseMoves DEF HandlePending
  <2>3. CASE HandleRequiresReview(s) BY <2>3, PurchaseMoves DEF HandleRequiresReview
  <2>4. CASE HandleAllFailed(s) BY <2>4, PurchaseMoves DEF HandleAllFailed, Refund
  <2>5. CASE MarkFailed(s) BY <2>5, PurchaseMoves DEF MarkFailed
  <2>6. CASE Complete(s) BY <2>6, PurchaseMoves, Finished DEF Complete
  <2> QED BY <1>9, <2>1, <2>2, <2>3, <2>4, <2>5, <2>6
<1>10. ASSUME NEW s \in Slots,
              \/ SafetyNetRead(s) \/ SafetyNetWrite(s) \/ TimeoutRead(s) \/ TimeoutWrite(s)
              \/ RecordFailedJob(s) \/ DeadLetterRead(s) \/ DeadLetterWrite(s)
       PROVE JobsOK'
  <2>1. CASE SafetyNetRead(s) BY <2>1, PurchaseMoves, Finished DEF SafetyNetRead
  <2>2. CASE SafetyNetWrite(s) BY <2>2, Finished DEF SafetyNetWrite
  <2>3. CASE TimeoutRead(s) BY <2>3, PurchaseMoves, Thrown DEF TimeoutRead
  <2>4. CASE TimeoutWrite(s) BY <2>4, Thrown DEF TimeoutWrite
  <2>5. CASE RecordFailedJob(s) BY <2>5, PurchaseMoves DEF RecordFailedJob
  <2>6. CASE DeadLetterRead(s) BY <2>6, PurchaseMoves, Finished DEF DeadLetterRead
  <2>7. CASE DeadLetterWrite(s) BY <2>7, Finished DEF DeadLetterWrite
  <2> QED BY <1>10, <2>1, <2>2, <2>3, <2>4, <2>5, <2>6, <2>7
<1>11. ASSUME NEW s \in Slots,
              \/ VerifyLoad(s) \/ VerifySucceeded(s) \/ FinalizeRequiresReview(s)
              \/ FinalizeFailed(s) \/ VerifyFailed(s)
       PROVE JobsOK'
  <2>1. CASE VerifyLoad(s) BY <2>1, VerifyMoves, Finished DEF VerifyLoad
  <2>2. CASE VerifySucceeded(s) BY <2>2, Finished DEF VerifySucceeded
  <2>3. CASE FinalizeRequiresReview(s) BY <2>3, Finished DEF FinalizeRequiresReview
  <2>4. CASE FinalizeFailed(s) BY <2>4, VerifyMoves DEF FinalizeFailed, Refund
  <2>5. CASE VerifyFailed(s) BY <2>5, Finished DEF VerifyFailed
  <2> QED BY <1>11, <2>1, <2>2, <2>3, <2>4, <2>5
<1>12. ASSUME NEW s \in Slots, RequeueVerify(s) PROVE JobsOK'
  <2>1. proc[s] \in Jobs /\ JobOK(proc[s]) /\ proc[s].pc = "requeue" BY <1>12 DEF JobsOK, RequeueVerify
  <2>2. proc[s].at \in Providers /\ proc[s].polls + 1 \in 0..(MaxPolls - 1)
    BY <2>1, Bounds DEF JobOK, Jobs
  <2> QED BY <1>12, <2>2, VerifyJobSound, Replaced DEF RequeueVerify
<1> HIDE DEF PurchasePc, VerifyPc, HeadPc, EnginePc, DeadPc
<1>13. CASE Next
  BY <1>2, <1>3, <1>4, <1>5, <1>6, <1>7, <1>8, <1>9, <1>10, <1>11, <1>12, <1>13
     DEF Next, Controller, Worker
<1> QED BY <1>1, <1>13

-----------------------------------------------------------------------------
(* Every action keeps the row, the attempts, the orders and the counters typed. *)

Row == [status : Status, provider : Providers \union {NoProvider}]
Record == [provider : Providers, class : FailedClass \union {"SUCCESS", "PENDING", "NULL"}]

LEMMA StatusSet ==
  ASSUME tx \in Row, NEW status \in Status, SetStatus(status) PROVE tx' \in Row
BY DEF SetStatus, Row

LEMMA OutcomeSet ==
  ASSUME NEW status \in Status, NEW p \in Providers, SetOutcome(status, p) PROVE tx' \in Row
BY DEF SetOutcome, Row

LEMMA InHand ==
  ASSUME JobsOK, NEW s \in Slots
  PROVE  /\ proc[s].pc \in HeadPc => Head(proc[s].cands) \in Providers
         /\ proc[s].pc \in VerifyPc => proc[s].at \in Providers
<1>1. proc[s] \in Jobs /\ JobOK(proc[s]) BY DEF JobsOK
<1> QED BY <1>1 DEF JobOK, Jobs

\* What a step of a worker may write into the row.
LEMMA RowWorker ==
  ASSUME tx \in Row, JobsOK, attempts \in Seq(Record), NEW s \in Slots,
         Worker(s) \/ Timeout(s) \/ CallFails(s)
  PROVE  tx' \in Row
<1>0. {"pending", "processing", "successful", "failed", "requires_review"} \subseteq Status
  BY DEF Status, Final
<1>1. CASE ReplayWrite(s)
  <2>1. PICK a \in Attempts : SetOutcome("successful", a.provider) BY <1>1 DEF ReplayWrite
  <2>2. a.provider \in Providers
    <3>1. \A i \in DOMAIN attempts : attempts[i] \in Record OBVIOUS
    <3> QED BY <3>1 DEF Attempts, Record
  <2> QED BY <1>0, <2>1, <2>2, OutcomeSet
<1>2. CASE HandleSuccess(s) \/ HandlePending(s)
  BY <1>0, <1>2, InHand, OutcomeSet DEF HandleSuccess, HandlePending, HeadPc
<1>3. CASE VerifySucceeded(s)
  BY <1>0, <1>3, InHand, OutcomeSet DEF VerifySucceeded, VerifyPc
<1>4. CASE \/ MarkProcessing(s) \/ HandleRequiresReview(s) \/ MarkFailed(s) \/ SafetyNetWrite(s)
           \/ TimeoutWrite(s) \/ DeadLetterWrite(s) \/ FinalizeRequiresReview(s)
           \/ VerifyFailed(s)
  BY <1>0, <1>4, StatusSet
     DEF MarkProcessing, HandleRequiresReview, MarkFailed, SafetyNetWrite, TimeoutWrite,
         DeadLetterWrite, FinalizeRequiresReview, VerifyFailed
<1>5. CASE UNCHANGED tx BY <1>5
<1>6. CASE \/ Start(s) \/ LoadTransaction(s) \/ FindSuccess(s) \/ ReplayRead(s) \/ Resolve(s)
           \/ Call(s) \/ RecordAttempt(s) \/ EnqueueVerify(s) \/ HandleAllFailed(s)
           \/ Complete(s) \/ SafetyNetRead(s) \/ TimeoutRead(s) \/ RecordFailedJob(s)
           \/ DeadLetterRead(s) \/ VerifyLoad(s) \/ VerifyTransaction(s) \/ RequeueVerify(s)
           \/ FinalizeFailed(s) \/ Timeout(s) \/ CallFails(s)
  BY <1>6 DEF Start, LoadTransaction, FindSuccess, ReplayRead, Resolve, Call, RecordAttempt,
     EnqueueVerify, HandleAllFailed, Complete, SafetyNetRead, TimeoutRead, RecordFailedJob,
     DeadLetterRead, VerifyLoad, VerifyTransaction, RequeueVerify, FinalizeFailed, Refund,
     Timeout, CallFails
<1> QED BY <1>1, <1>2, <1>3, <1>4, <1>5, <1>6 DEF Worker

LEMMA RowPreserved ==
  ASSUME tx \in Row, JobsOK, attempts \in Seq(Record), [Next]_vars PROVE tx' \in Row
<1>1. CASE CreateTransaction BY <1>1, StatusSet DEF CreateTransaction, Status
<1>2. CASE Debit \/ AddJob \/ RequestLost \/ WorkerCrash \/ UNCHANGED vars
  BY <1>2 DEF Debit, AddJob, RequestLost, WorkerCrash, vars
<1>3. ASSUME NEW p \in Providers, NEW i \in DOMAIN orders[p], Settle(p, i) PROVE tx' \in Row
  BY <1>3 DEF Settle
<1> QED BY <1>1, <1>2, <1>3, RowWorker DEF Next, Controller

\* Which steps reach the records of the attempts and the orders.
LEMMA SlotUntouched ==
  ASSUME NEW s \in Slots, Worker(s) \/ Timeout(s) \/ CallFails(s)
  PROVE  (UNCHANGED attempts \/ RecordAttempt(s)) /\ (UNCHANGED orders \/ Call(s))
BY DEF Worker, Timeout, CallFails, Start, LoadTransaction, MarkProcessing, FindSuccess,
   ReplayRead, ReplayWrite, Resolve, Call, RecordAttempt, HandleSuccess, HandlePending,
   EnqueueVerify, HandleRequiresReview, HandleAllFailed, MarkFailed, Complete, SafetyNetRead,
   SafetyNetWrite, TimeoutRead, TimeoutWrite, RecordFailedJob, DeadLetterRead,
   DeadLetterWrite, VerifyLoad, VerifyTransaction, VerifySucceeded, RequeueVerify,
   FinalizeRequiresReview, FinalizeFailed, VerifyFailed, Refund

LEMMA Untouched ==
  ASSUME [Next]_vars
  PROVE  /\ UNCHANGED attempts \/ \E s \in Slots : RecordAttempt(s)
         /\ \/ UNCHANGED orders \/ \E s \in Slots : Call(s)
            \/ \E p \in Providers : \E i \in DOMAIN orders[p] : Settle(p, i)
<1>1. CASE UNCHANGED vars BY <1>1 DEF vars
<1>2. CASE Controller \/ RequestLost \/ WorkerCrash
  BY <1>2 DEF Controller, Debit, CreateTransaction, AddJob, RequestLost, WorkerCrash
<1>3. ASSUME NEW s \in Slots, Worker(s) \/ Timeout(s) \/ CallFails(s)
      PROVE  (UNCHANGED attempts \/ RecordAttempt(s)) /\ (UNCHANGED orders \/ Call(s))
  BY <1>3, SlotUntouched
<1>4. CASE \E p \in Providers : \E i \in DOMAIN orders[p] : Settle(p, i)
  BY <1>4 DEF Settle
<1> QED BY <1>1, <1>2, <1>3, <1>4 DEF Next

LEMMA AttemptsPreserved ==
  ASSUME attempts \in Seq(Record), JobsOK, [Next]_vars PROVE attempts' \in Seq(Record)
<1>1. ASSUME NEW s \in Slots, RecordAttempt(s) PROVE attempts' \in Seq(Record)
  <2>1. Head(proc[s].cands) \in Providers BY <1>1, InHand DEF RecordAttempt, HeadPc
  <2>2. Class(proc[s].answer) \in FailedClass \union {"SUCCESS", "PENDING", "NULL"}
    BY DEF Class, FailedClass
  <2>3. [provider |-> Head(proc[s].cands), class |-> Class(proc[s].answer)] \in Record
    BY <2>1, <2>2 DEF Record
  <2> QED BY <1>1, <2>3 DEF RecordAttempt
<1> QED BY <1>1, Untouched

LEMMA OrdersPreserved == ASSUME OrdersOK, JobsOK, [Next]_vars PROVE OrdersOK'
<1>1. ASSUME NEW s \in Slots, Call(s) PROVE OrdersOK'
  <2>1. CASE UNCHANGED orders BY <2>1 DEF OrdersOK
  <2>2. ASSUME NEW a, NEW fate \in Fates(a),
               orders' = [orders EXCEPT ![Head(proc[s].cands)] = Append(@, fate)]
        PROVE OrdersOK'
    <3>1. Head(proc[s].cands) \in Providers BY <1>1, InHand DEF Call, HeadPc
    <3>2. fate \in OrderStates BY DEF Fates, OrderStates
    <3>3. Append(orders[Head(proc[s].cands)], fate) \in Seq(OrderStates) BY <3>1, <3>2 DEF OrdersOK
    <3> QED BY <2>2, <3>3 DEF OrdersOK
  <2> QED BY <1>1, <2>1, <2>2 DEF Call
<1>2. ASSUME NEW p \in Providers, NEW i \in DOMAIN orders[p], Settle(p, i) PROVE OrdersOK'
  <2>1. PICK fate \in {"delivered", "rejected"} : orders' = [orders EXCEPT ![p][i] = fate]
    BY <1>2 DEF Settle
  <2>2. orders[p] \in Seq(OrderStates) /\ fate \in OrderStates BY DEF OrdersOK, OrderStates
  <2>3. i \in 1..Len(orders[p]) BY <2>2
  <2>4. [orders[p] EXCEPT ![i] = fate] \in Seq(OrderStates) BY <2>2, <2>3, ExceptSeq
  <2> QED BY <2>1, <2>4 DEF OrdersOK
<1> QED BY <1>1, <1>2, Untouched DEF OrdersOK

-----------------------------------------------------------------------------
(* The ledger of the purchase.                                                 *)

Debited  == [key |-> <<"debit">>, kind |-> "debit"]
Refunded == [key |-> <<"refund">>, kind |-> "refund"]

LEMMA Posts ==
  ASSUME NEW key, NEW kind, Post(key, kind)
  PROVE  /\ ledger' \in {ledger, ledger \union {[key |-> key, kind |-> kind]}}
         /\ \E b \in ledger' : b.key = key
<1>1. CASE \E b \in ledger : b.key = key BY <1>1 DEF Post
<1>2. CASE ~\E b \in ledger : b.key = key
  <2>1. ledger' = ledger \union {[key |-> key, kind |-> kind]} BY <1>2 DEF Post
  <2>2. [key |-> key, kind |-> kind].key = key OBVIOUS
  <2> QED BY <2>1, <2>2
<1> QED BY <1>1, <1>2

\* Money is taken by the controller alone, and given back by a job alone.
LEMMA LedgerSteps ==
  ASSUME [Next]_vars
  PROVE  \/ UNCHANGED ledger
         \/ api = "debit" /\ ledger' = ledger \union {Debited}
         \/ \E s \in Slots : /\ proc[s].pc \in {"refund", "verifyRefund"}
                            /\ ledger' = ledger \union {Refunded}
<1>1. CASE UNCHANGED vars BY <1>1 DEF vars
<1>2. CASE Debit BY <1>2, Posts DEF Debit, Debited
<1>3. CASE CreateTransaction \/ AddJob \/ RequestLost \/ WorkerCrash
  BY <1>3 DEF CreateTransaction, AddJob, RequestLost, WorkerCrash
<1>4. ASSUME NEW s \in Slots, HandleAllFailed(s) \/ FinalizeFailed(s)
      PROVE  \/ UNCHANGED ledger
             \/ /\ proc[s].pc \in {"refund", "verifyRefund"}
                /\ ledger' = ledger \union {Refunded}
  BY <1>4, Posts DEF HandleAllFailed, FinalizeFailed, Refund, RefundKey, Refunded
<1>5. ASSUME NEW s \in Slots, Worker(s) \/ Timeout(s) \/ CallFails(s)
      PROVE  UNCHANGED ledger \/ HandleAllFailed(s) \/ FinalizeFailed(s)
  BY <1>5 DEF Worker, Timeout, CallFails, Start, LoadTransaction, MarkProcessing, FindSuccess,
     ReplayRead, ReplayWrite, Resolve, Call, RecordAttempt, HandleSuccess, HandlePending,
     EnqueueVerify, HandleRequiresReview, MarkFailed, Complete, SafetyNetRead,
     SafetyNetWrite, TimeoutRead, TimeoutWrite, RecordFailedJob, DeadLetterRead,
     DeadLetterWrite, VerifyLoad, VerifyTransaction, VerifySucceeded, RequeueVerify,
     FinalizeRequiresReview, VerifyFailed
<1>6. ASSUME NEW p \in Providers, NEW i \in DOMAIN orders[p], Settle(p, i) PROVE UNCHANGED ledger
  BY <1>6 DEF Settle
<1> QED BY <1>1, <1>2, <1>3, <1>4, <1>5, <1>6 DEF Next, Controller

\* A step of a slot is a step of a job that is there, and leaves the controller alone.
LEMMA Busy ==
  ASSUME NEW s \in Slots, Worker(s) \/ Timeout(s) \/ CallFails(s)
  PROVE  proc[s].pc # "free" /\ UNCHANGED <<api, service>>
<1>1. CASE Worker(s)
  BY <1>1 DEF Worker, Start, LoadTransaction, MarkProcessing, FindSuccess,
     ReplayRead, ReplayWrite, Resolve, Call, RecordAttempt, HandleSuccess, HandlePending,
     EnqueueVerify, HandleRequiresReview, HandleAllFailed, MarkFailed, Complete, SafetyNetRead,
     SafetyNetWrite, TimeoutRead, TimeoutWrite, RecordFailedJob, DeadLetterRead,
     DeadLetterWrite, VerifyLoad, VerifyTransaction, VerifySucceeded, RequeueVerify,
     FinalizeRequiresReview, FinalizeFailed, VerifyFailed, Refund, kept
<1>2. CASE Timeout(s) \/ CallFails(s)
  BY <1>2 DEF Timeout, CallFails, EnginePc, Throwing, CaughtReads, kept
<1> QED BY <1>1, <1>2

\* The controller goes through its stations, and jobs come from it or from jobs.
LEMMA JobsComeFrom ==
  ASSUME [Next]_vars
  PROVE  /\ api' = api \/ Controller \/ RequestLost
         /\ \/ \A s \in Slots : proc[s].pc = "free" => proc'[s].pc = "free"
            \/ AddJob
            \/ \E s \in Slots : proc[s].pc # "free"
<1>1. CASE UNCHANGED vars BY <1>1 DEF vars
<1>2. CASE Controller \/ RequestLost
  BY <1>2 DEF Controller, Debit, CreateTransaction, RequestLost
<1>3. CASE WorkerCrash
  BY <1>3 DEF WorkerCrash, AfterCrash
<1>4. ASSUME NEW s \in Slots, Worker(s) \/ Timeout(s) \/ CallFails(s)
      PROVE  UNCHANGED api /\ proc[s].pc # "free"
  BY <1>4, Busy
<1>5. ASSUME NEW p \in Providers, NEW i \in DOMAIN orders[p], Settle(p, i)
      PROVE UNCHANGED <<api, proc>>
  BY <1>5 DEF Settle
<1> QED BY <1>1, <1>2, <1>3, <1>4, <1>5 DEF Next

\* Nothing is given back, and no job exists, unless the price was taken.
Stations == {"debit", "row", "add", "done", "refused", "lost"}
Taken ==
  /\ api \in Stations
  /\ \A b \in ledger : b.key = <<"debit">> => b = Debited
  /\ api \notin {"debit", "refused"} => Debited \in ledger
  /\ (\E s \in Slots : proc[s].pc # "free") => Debited \in ledger
  /\ Refunded \in ledger => Debited \in ledger

LEMMA TakenPreserved == ASSUME Taken, [Next]_vars PROVE Taken'
<1>1. Debited # Refunded /\ Refunded.key # <<"debit">> /\ Debited.key = <<"debit">>
  BY DEF Debited, Refunded
<1>2. \A b \in ledger' : b.key = <<"debit">> => b = Debited
  BY <1>1, LedgerSteps DEF Taken
<1>3. /\ api' \in Stations
      /\ api' \notin {"debit", "refused"} => Debited \in ledger'
  <2>1. CASE Debit
    <3>1. CASE api' = "row"
      <4>1. PICK b \in ledger' : b.key = <<"debit">> BY <2>1, <3>1, Posts DEF Debit
      <4> QED BY <1>2, <3>1, <4>1 DEF Stations
    <3>2. CASE api' = "refused" BY <3>2 DEF Stations
    <3> QED BY <2>1, <3>1, <3>2 DEF Debit
  <2>2. CASE CreateTransaction \/ AddJob \/ RequestLost
    BY <2>2 DEF CreateTransaction, AddJob, RequestLost, Taken, Stations
  <2>3. CASE api' = api BY <2>3, LedgerSteps DEF Taken
  <2> QED BY <2>1, <2>2, <2>3, JobsComeFrom DEF Controller
<1>4. (\E s \in Slots : proc'[s].pc # "free") => Debited \in ledger'
  <2>1. CASE AddJob BY <2>1 DEF AddJob, Taken
  <2>2. CASE \E s \in Slots : proc[s].pc # "free" BY <2>2, LedgerSteps DEF Taken
  <2> QED BY <2>1, <2>2, JobsComeFrom
<1>5. Refunded \in ledger' => Debited \in ledger'
  <2>1. ASSUME NEW s \in Slots, proc[s].pc \in {"refund", "verifyRefund"}
        PROVE Debited \in ledger
    BY <2>1 DEF Taken
  <2> QED BY <1>1, <2>1, LedgerSteps DEF Taken
<1> QED BY <1>2, <1>3, <1>4, <1>5 DEF Taken

\* Faults and crashes are counted up to their bound.
MishapCounts == [fault : 0..MaxMishaps, crash : 0..MaxMishaps]

LEMMA MishapCounted ==
  ASSUME mishaps \in MishapCounts, NEW kind, Mishap(kind) PROVE mishaps' \in MishapCounts
<1>1. kind \in {"fault", "crash"} BY SettingsAssumption DEF Mishap
<1>2. mishaps.fault \in Nat /\ mishaps.crash \in Nat /\ mishaps.fault + mishaps.crash < MaxMishaps
  BY DEF Mishap, MishapCount, MishapCounts
<1>3. mishaps.fault + 1 \in 0..MaxMishaps /\ mishaps.crash + 1 \in 0..MaxMishaps
  BY <1>2, SettingsAssumption
<1>4. CASE kind = "fault" BY <1>3, <1>4 DEF Mishap, MishapCounts
<1>5. CASE kind = "crash" BY <1>3, <1>5 DEF Mishap, MishapCounts
<1> QED BY <1>1, <1>4, <1>5

LEMMA CountersPreserved ==
  ASSUME mishaps \in MishapCounts, service \in Services, deadLetter \in BOOLEAN, [Next]_vars
  PROVE  mishaps' \in MishapCounts /\ service' \in Services /\ deadLetter' \in BOOLEAN
<1>1. CASE UNCHANGED <<service, deadLetter, mishaps>> BY <1>1
<1>2. CASE RequestLost BY <1>2, MishapCounted DEF RequestLost
<1>3. CASE WorkerCrash BY <1>3, MishapCounted DEF WorkerCrash
<1>4. ASSUME NEW s \in Slots, RecordAttempt(s) \/ CallFails(s) \/ RecordFailedJob(s)
      PROVE mishaps' \in MishapCounts /\ service' \in Services /\ deadLetter' \in BOOLEAN
  BY <1>4, MishapCounted DEF RecordAttempt, CallFails, RecordFailedJob
<1>5. ASSUME NEW s \in Slots, Worker(s) \/ Timeout(s)
      PROVE  UNCHANGED <<service, deadLetter, mishaps>> \/ RecordAttempt(s) \/ RecordFailedJob(s)
  BY <1>5 DEF kept, Worker, Timeout, Start, LoadTransaction, MarkProcessing, FindSuccess,
     ReplayRead, ReplayWrite, Resolve, Call, HandleSuccess, HandlePending,
     EnqueueVerify, HandleRequiresReview, HandleAllFailed, MarkFailed, Complete, SafetyNetRead,
     SafetyNetWrite, TimeoutRead, TimeoutWrite, DeadLetterRead,
     DeadLetterWrite, VerifyLoad, VerifyTransaction, VerifySucceeded, RequeueVerify,
     FinalizeRequiresReview, FinalizeFailed, VerifyFailed, Refund
<1>6. CASE Controller \/ UNCHANGED vars \/ \E p \in Providers : \E i \in DOMAIN orders[p] : Settle(p, i)
  BY <1>6 DEF Controller, Debit, CreateTransaction, AddJob, Settle, vars, kept
<1> QED BY <1>1, <1>2, <1>3, <1>4, <1>5, <1>6 DEF Next

\* Only a call and a query may misread, and what was misread stays so.
LEMMA MisreadGrows ==
  ASSUME [Next]_vars, JobsOK
  PROVE  misread \subseteq misread' /\ (misread \subseteq Providers => misread' \subseteq Providers)
<1>1. CASE UNCHANGED kept BY <1>1 DEF kept
<1>2. CASE RequestLost \/ WorkerCrash BY <1>2 DEF RequestLost, WorkerCrash
<1>3. ASSUME NEW s \in Slots, RecordAttempt(s) \/ CallFails(s) \/ RecordFailedJob(s) PROVE UNCHANGED misread
  BY <1>3 DEF RecordAttempt, CallFails, RecordFailedJob
<1>4. ASSUME NEW s \in Slots, Call(s)
      PROVE  misread \subseteq misread' /\ (misread \subseteq Providers => misread' \subseteq Providers)
  <2>1. Head(proc[s].cands) \in Providers BY <1>4, InHand DEF Call, HeadPc
  <2>2. UNCHANGED misread \/ \E a, fate : MisreadAnswer(Head(proc[s].cands), a, fate) BY <1>4 DEF Call
  <2> QED BY <2>1, <2>2 DEF MisreadAnswer
<1>5. ASSUME NEW s \in Slots, VerifyTransaction(s)
      PROVE  misread \subseteq misread' /\ (misread \subseteq Providers => misread' \subseteq Providers)
  <2>1. proc[s].at \in Providers BY <1>5, InHand DEF VerifyTransaction, VerifyPc
  <2>2. \E verdict : MisreadVerdict(proc[s].at, verdict) BY <1>5 DEF VerifyTransaction
  <2> QED BY <2>1, <2>2 DEF MisreadVerdict
<1>6. ASSUME NEW s \in Slots, Worker(s) \/ Timeout(s)
      PROVE  UNCHANGED kept \/ RecordAttempt(s) \/ RecordFailedJob(s) \/ Call(s) \/ VerifyTransaction(s)
  BY <1>6 DEF Worker, Timeout, Start, LoadTransaction, MarkProcessing, FindSuccess,
     ReplayRead, ReplayWrite, Resolve, HandleSuccess, HandlePending,
     EnqueueVerify, HandleRequiresReview, HandleAllFailed, MarkFailed, Complete, SafetyNetRead,
     SafetyNetWrite, TimeoutRead, TimeoutWrite, DeadLetterRead,
     DeadLetterWrite, VerifyLoad, VerifySucceeded, RequeueVerify,
     FinalizeRequiresReview, FinalizeFailed, VerifyFailed, Refund
<1>7. CASE Controller \/ UNCHANGED vars \/ \E p \in Providers : \E i \in DOMAIN orders[p] : Settle(p, i)
  BY <1>7 DEF Controller, Debit, CreateTransaction, AddJob, Settle, vars, kept
<1> QED BY <1>1, <1>2, <1>3, <1>4, <1>5, <1>6, <1>7 DEF Next

-----------------------------------------------------------------------------
(* The theorems that hold of every instance.                                   *)

SoundInv == TypeOK /\ JobsOK /\ Taken

LEMMA TypeOKParts ==
  TypeOK <=> /\ api \in Stations /\ tx \in Row /\ \A b \in ledger : b.kind \in {"debit", "refund"}
             /\ attempts \in Seq(Record) /\ OrdersOK /\ proc \in [Slots -> Jobs]
             /\ service \in Services /\ deadLetter \in BOOLEAN /\ mishaps \in MishapCounts
             /\ misread \subseteq Providers
BY DEF TypeOK, Stations, Row, Record, OrdersOK, OrderStates, MishapCounts

LEMMA SagaStarts == Init => SoundInv
<1> SUFFICES ASSUME Init PROVE SoundInv OBVIOUS
<1>1. JobsOK BY FreeSound DEF Init, JobsOK
<1>2. tx \in Row BY DEF Init, Row, Status
<1>3. mishaps \in MishapCounts BY SettingsAssumption DEF Init, MishapCounts
<1>4. attempts \in Seq(Record) /\ OrdersOK BY DEF Init, OrdersOK
<1>5. TypeOK BY <1>1, <1>2, <1>3, <1>4, TypeOKParts DEF Init, Stations, JobsOK
<1>6. Taken BY DEF Init, Taken, Stations, Free
<1> QED BY <1>1, <1>5, <1>6 DEF SoundInv

LEMMA SagaSound == SoundInv /\ [Next]_vars => SoundInv'
<1> SUFFICES ASSUME SoundInv, [Next]_vars PROVE SoundInv' OBVIOUS
<1>1. /\ api \in Stations /\ tx \in Row /\ \A b \in ledger : b.kind \in {"debit", "refund"}
      /\ attempts \in Seq(Record) /\ OrdersOK /\ service \in Services /\ deadLetter \in BOOLEAN
      /\ mishaps \in MishapCounts /\ misread \subseteq Providers /\ JobsOK /\ Taken
  BY TypeOKParts DEF SoundInv
<1>2. JobsOK' BY <1>1, JobsPreserved
<1>3. Taken' BY <1>1, TakenPreserved
<1>4. \A b \in ledger' : b.kind \in {"debit", "refund"}
  BY <1>1, LedgerSteps DEF Debited, Refunded
<1>5. tx' \in Row BY <1>1, RowPreserved
<1>6. attempts' \in Seq(Record) BY <1>1, AttemptsPreserved
<1>7. OrdersOK' BY <1>1, OrdersPreserved
<1>8. /\ service' \in Services /\ deadLetter' \in BOOLEAN /\ mishaps' \in MishapCounts
      /\ misread' \subseteq Providers
  BY <1>1, CountersPreserved, MisreadGrows
<1>9. api' \in Stations /\ proc' \in [Slots -> Jobs] BY <1>2, <1>3 DEF Taken, JobsOK
<1>10. TypeOK' BY <1>4, <1>5, <1>6, <1>7, <1>8, <1>9
          DEF TypeOK, Stations, Row, Record, OrdersOK, OrderStates, MishapCounts
<1> QED BY <1>2, <1>3, <1>10 DEF SoundInv

\* Every variable of the saga keeps its type: attempts stay within the limit of the
\* queue and polls below the limit of the verification worker.
THEOREM SagaTypeCorrect == Spec => []TypeOK
<1>1. SoundInv => TypeOK BY DEF SoundInv
<1> QED BY <1>1, SagaStarts, SagaSound, PTL DEF Spec

\* The ledger holds one debit and one refund of a purchase at most.
OneOfEach == ledger \subseteq {Debited, Refunded}

\* The engine, its retries, the detached executions and the verification worker
\* refund a purchase once between them, and only what was taken: for every number
\* of jobs and attempts, and whatever fails or dies.
THEOREM RefundedOnce == Spec => []RefundOnce
<1>1. Init => OneOfEach BY DEF Init, OneOfEach
<1>2. OneOfEach /\ [Next]_vars => OneOfEach' BY LedgerSteps DEF OneOfEach
<1>3. SoundInv /\ OneOfEach => RefundOnce
  <2> SUFFICES ASSUME SoundInv, OneOfEach PROVE RefundOnce OBVIOUS
  <2>1. Debited.kind = "debit" /\ Refunded.kind = "refund" BY DEF Debited, Refunded
  <2>2. Cardinality({Debited}) = 1 /\ Cardinality({Refunded}) = 1 /\ Cardinality({}) = 0
    BY FS_Singleton, FS_EmptySet
  <2>3. CASE Refunded \in ledger
    <3>1. Batches("refund") = {Refunded} /\ Batches("debit") = {Debited}
      BY <2>1, <2>3 DEF OneOfEach, SoundInv, Taken, Batches
    <3> QED BY <2>2, <3>1 DEF RefundOnce
  <2>4. CASE Refunded \notin ledger
    <3>1. Batches("refund") = {} /\ Batches("debit") \in {{}, {Debited}}
      BY <2>1, <2>4 DEF OneOfEach, Batches
    <3> QED BY <2>2, <3>1 DEF RefundOnce
  <2> QED BY <2>3, <2>4
<1> QED BY <1>1, <1>2, <1>3, SagaStarts, SagaSound, PTL DEF Spec

-----------------------------------------------------------------------------
(* Where the jobs go: what each step makes of the job it is a step of.         *)

LEMMA GotoIs ==
  ASSUME JobsOK, NEW s \in Slots, NEW pc, Goto(s, pc)
  PROVE  /\ proc'[s].pc = pc /\ proc'[s].kind = proc[s].kind
         /\ proc'[s].detached = proc[s].detached /\ proc'[s].cands = proc[s].cands
         /\ proc'[s].at = proc[s].at /\ proc'[s].answer = proc[s].answer
         /\ proc'[s].stalled = proc[s].stalled
         /\ \A t \in Slots : t # s => proc'[t] = proc[t]
<1>1. proc[s] \in Jobs BY DEF JobsOK
<1> QED BY <1>1 DEF Goto, JobsOK, Jobs

LEMMA FinishIs ==
  ASSUME JobsOK, NEW s \in Slots, Finish(s)
  PROVE  proc'[s] = Free /\ \A t \in Slots : t # s => proc'[t] = proc[t]
BY DEF Finish, JobsOK

LEMMA RejectedIs ==
  ASSUME NEW p \in Jobs
  PROVE  /\ \/ Rejected(p) = Free
            \/ /\ Rejected(p).kind = p.kind /\ ~Rejected(p).detached /\ ~p.detached
               /\ Rejected(p).at = p.at /\ Rejected(p).stalled = p.stalled
               /\ Rejected(p).answer = "none"
               /\ \/ Rejected(p).pc = "waiting"
                  \/ Rejected(p).pc = "deadRecord" /\ p.kind = "purchase"
         /\ p.kind = "purchase" /\ ~p.detached => Rejected(p).kind = "purchase"
<1> DEFINE counted == [p EXCEPT !.made = p.made + 1]
           r == Requeued(counted)
           d == [r EXCEPT !.pc = "deadRecord"]
<1>1. counted.kind = p.kind /\ counted.at = p.at /\ counted.stalled = p.stalled BY DEF Jobs
<1>2. /\ r.kind = p.kind /\ r.pc = "waiting" /\ ~r.detached /\ r.at = p.at
      /\ r.stalled = p.stalled /\ r.answer = "none"
  BY <1>1 DEF Requeued, Free
<1>3. /\ d.kind = p.kind /\ d.pc = "deadRecord" /\ ~d.detached /\ d.at = p.at
      /\ d.stalled = p.stalled /\ d.answer = "none"
  BY <1>2 DEF Requeued, Free
<1>4. /\ Rejected(p) \in {Free, r, d} /\ (p.detached => Rejected(p) = Free)
      /\ Rejected(p) = d => p.kind = "purchase" \/ Rejected(p) \in {Free, r}
      /\ p.kind = "purchase" /\ ~p.detached => Rejected(p) \in {r, d}
  <2> HIDE DEF r, d
  <2>1. Rejected(p) = IF p.detached THEN Free ELSE IF counted.made < p.max THEN r
                      ELSE IF p.kind = "purchase" THEN d ELSE Free
    BY DEF Rejected, r, d
  <2> QED BY <2>1
<1> HIDE DEF r, d
<1> QED BY <1>2, <1>3, <1>4

LEMMA ThrowIs ==
  ASSUME JobsOK, NEW s \in Slots, Throw(s)
  PROVE  /\ \/ proc'[s] = Free
            \/ /\ proc'[s].kind = proc[s].kind /\ ~proc'[s].detached /\ ~proc[s].detached
               /\ proc'[s].at = proc[s].at /\ proc'[s].stalled = proc[s].stalled
               /\ proc'[s].answer = "none"
               /\ \/ proc'[s].pc = "waiting"
                  \/ proc'[s].pc = "deadRecord" /\ proc[s].kind = "purchase"
         /\ proc[s].kind = "purchase" /\ ~proc[s].detached => proc'[s].kind = "purchase"
         /\ \A t \in Slots : t # s => proc'[t] = proc[t]
<1>1. proc[s] \in Jobs /\ proc'[s] = Rejected(proc[s]) BY DEF JobsOK, Throw
<1>2. \A t \in Slots : t # s => proc'[t] = proc[t] BY DEF JobsOK, Throw
<1> QED BY <1>1, <1>2, RejectedIs

\* What an execution does between its first look at the attempts on record and the
\* record of its own.
Looking(s) == FindSuccess(s) \/ Resolve(s) \/ Call(s) \/ RecordAttempt(s)
Critical == {"resolve", "call", "record"}

LEMMA ResolveIs ==
  ASSUME JobsOK, NEW s \in Slots, Resolve(s)
  PROVE  \E eligible \in Eligible : \E cands \in Candidates(eligible \ FailedCodes) :
           /\ proc'[s].cands = cands /\ proc'[s].unsure = (FailedCodes # {})
           /\ proc'[s].pc = IF cands # <<>> THEN "call"
                            ELSE IF FailedCodes # {} THEN "review" ELSE "refund"
           /\ proc'[s].kind = proc[s].kind /\ proc'[s].detached = proc[s].detached
           /\ \A t \in Slots : t # s => proc'[t] = proc[t]
<1>1. PICK eligible \in Eligible : \E cands \in Candidates(eligible \ FailedCodes) :
        LET unsure == FailedCodes # {} IN
        proc' = [proc EXCEPT ![s].cands = cands, ![s].unsure = unsure,
                   ![s].pc = IF cands # <<>> THEN "call"
                             ELSE IF unsure THEN "review" ELSE "refund"]
  BY DEF Resolve
<1>2. PICK cands \in Candidates(eligible \ FailedCodes) :
        proc' = [proc EXCEPT ![s].cands = cands, ![s].unsure = (FailedCodes # {}),
                   ![s].pc = IF cands # <<>> THEN "call"
                             ELSE IF FailedCodes # {} THEN "review" ELSE "refund"]
  BY <1>1
<1>3. proc[s] \in Jobs /\ proc \in [Slots -> Jobs] BY DEF JobsOK
<1> DEFINE pc == IF cands # <<>> THEN "call" ELSE IF FailedCodes # {} THEN "review" ELSE "refund"
           unsure == FailedCodes # {}
<1>4. proc' = [proc EXCEPT ![s].cands = cands, ![s].unsure = unsure, ![s].pc = pc] BY <1>2
<1>5. /\ proc'[s].cands = cands /\ proc'[s].unsure = unsure /\ proc'[s].pc = pc
      /\ proc'[s].kind = proc[s].kind /\ proc'[s].detached = proc[s].detached
      /\ \A t \in Slots : t # s => proc'[t] = proc[t]
  <2> HIDE DEF pc, unsure
  <2> QED BY <1>3, <1>4 DEF Jobs
<1> QED BY <1>5

LEMMA LookingIs ==
  ASSUME JobsOK, NEW s \in Slots, Looking(s)
  PROVE  /\ proc'[s].kind = proc[s].kind /\ proc'[s].detached = proc[s].detached
         /\ \A t \in Slots : t # s => proc'[t] = proc[t]
         /\ FindSuccess(s) => proc'[s].pc \in {"resolve", "replayRead"}
         /\ Resolve(s) => proc'[s].pc \in {"call", "review", "refund"}
         /\ Call(s) => proc'[s].pc = "record" /\ proc'[s].cands = proc[s].cands
         /\ RecordAttempt(s) => \/ proc'[s].pc \in {"succeed", "pend", "review", "refund"}
                                \/ proc'[s].pc = "call" /\ proc'[s].cands = Tail(proc[s].cands)
<1>1. proc[s] \in Jobs /\ proc \in [Slots -> Jobs] BY DEF JobsOK
<1>2. CASE FindSuccess(s)
  BY <1>2, GotoIs DEF FindSuccess, AfterFindSuccess, Resolve, Call, RecordAttempt
<1>3. CASE Resolve(s)
  BY <1>3, ResolveIs DEF FindSuccess, Resolve, Call, RecordAttempt
<1>4. CASE Call(s)
  BY <1>1, <1>4 DEF FindSuccess, Resolve, Call, RecordAttempt, Jobs
<1>5. CASE RecordAttempt(s)
  <2>1. proc' = [proc EXCEPT ![s] = Decide(proc[s])] BY <1>5 DEF RecordAttempt
  <2>2. /\ Decide(proc[s]).kind = proc[s].kind /\ Decide(proc[s]).detached = proc[s].detached
        /\ \/ Decide(proc[s]).pc \in {"succeed", "pend", "review", "refund"}
           \/ Decide(proc[s]).pc = "call" /\ Decide(proc[s]).cands = Tail(proc[s].cands)
    BY <1>1 DEF Decide, Outcome, Jobs
  <2> QED BY <1>1, <1>5, <2>1, <2>2 DEF FindSuccess, Resolve, Call, RecordAttempt
<1> QED BY <1>2, <1>3, <1>4, <1>5 DEF Looking

LEMMA EnqueueVerifyIs ==
  ASSUME JobsOK, NEW s \in Slots, EnqueueVerify(s)
  PROVE  /\ FreeSlot \in Slots /\ FreeSlot # s /\ proc[FreeSlot] = Free
         /\ proc'[s].pc = "complete" /\ proc'[s].kind = proc[s].kind
         /\ proc'[s].detached = proc[s].detached
         /\ proc'[FreeSlot].pc = "waiting" /\ proc'[FreeSlot].kind = "verify"
         /\ ~proc'[FreeSlot].detached /\ proc'[FreeSlot].at = Head(proc[s].cands)
         /\ \A t \in Slots : t \notin {s, FreeSlot} => proc'[t] = proc[t]
<1>1. proc[s] \in Jobs /\ proc \in [Slots -> Jobs] BY DEF JobsOK
<1>2. FreeSlot \in Slots /\ FreeSlot # s /\ proc[FreeSlot] = Free
  BY FreeSlotIs DEF EnqueueVerify, Free
<1>3. proc' = [proc EXCEPT ![s].pc = "complete", ![FreeSlot] = VerifyJob(Head(proc[s].cands), 0)]
  BY DEF EnqueueVerify
<1>4. \A q : /\ VerifyJob(q, 0).pc = "waiting" /\ VerifyJob(q, 0).kind = "verify"
             /\ ~VerifyJob(q, 0).detached /\ VerifyJob(q, 0).at = q
  BY DEF VerifyJob, Free
<1> QED BY <1>1, <1>2, <1>3, <1>4 DEF Jobs

\* The other steps of a slot leave the other slots alone, and do not lead to a call.
LEMMA Elsewhere ==
  ASSUME JobsOK, NEW s \in Slots, Worker(s) \/ CallFails(s), ~Looking(s), ~EnqueueVerify(s)
  PROVE  /\ proc'[s].kind \in {proc[s].kind, "free"} /\ proc'[s].pc \notin Critical
         /\ proc'[s].detached => proc[s].detached
         /\ \A t \in Slots : t # s => proc'[t] = proc[t]
<1> USE DEF Critical
<1>1. CASE \/ Start(s) \/ MarkProcessing(s) \/ ReplayRead(s) \/ ReplayWrite(s) \/ HandleSuccess(s)
           \/ HandlePending(s) \/ HandleRequiresReview(s) \/ HandleAllFailed(s) \/ MarkFailed(s)
           \/ RecordFailedJob(s) \/ FinalizeFailed(s)
  BY <1>1, GotoIs DEF Start, MarkProcessing, ReplayRead, ReplayWrite, HandleSuccess,
     HandlePending, HandleRequiresReview, HandleAllFailed, MarkFailed, RecordFailedJob,
     FinalizeFailed, Refund
<1>2. CASE VerifyTransaction(s)
  BY <1>2, GotoIs DEF VerifyTransaction, AfterPoll
<1>3. Free.kind = "free" /\ Free.pc = "free" /\ ~Free.detached BY DEF Free
<1>4. CASE \/ SafetyNetWrite(s) \/ DeadLetterWrite(s) \/ VerifySucceeded(s)
           \/ FinalizeRequiresReview(s) \/ VerifyFailed(s)
  BY <1>3, <1>4, FinishIs DEF SafetyNetWrite, DeadLetterWrite, VerifySucceeded,
     FinalizeRequiresReview, VerifyFailed
<1>5. CASE Complete(s) \/ SafetyNetRead(s) \/ DeadLetterRead(s) \/ VerifyLoad(s)
  BY <1>3, <1>5, FinishIs, GotoIs DEF Complete, SafetyNetRead, DeadLetterRead, VerifyLoad
<1>6. CASE LoadTransaction(s) \/ TimeoutRead(s) \/ TimeoutWrite(s)
  BY <1>3, <1>6, FinishIs, GotoIs, ThrowIs DEF LoadTransaction, TimeoutRead, TimeoutWrite
<1>7. CASE RequeueVerify(s)
  <2>1. proc[s] \in Jobs /\ JobOK(proc[s]) /\ proc[s].pc = "requeue" BY <1>7 DEF JobsOK, RequeueVerify
  <2>2. proc[s].kind = "verify" BY <2>1 DEF JobOK, VerifyPc
  <2>3. \A q, n : VerifyJob(q, n).kind = "verify" /\ VerifyJob(q, n).pc = "waiting"
                 /\ ~VerifyJob(q, n).detached
    BY DEF VerifyJob, Free
  <2> QED BY <1>7, <2>2, <2>3 DEF RequeueVerify, JobsOK
<1>8. CASE CallFails(s)
  <2>1. CASE Throw(s) BY <1>3, <2>1, ThrowIs
  <2>2. CASE Finish(s) BY <1>3, <2>2, FinishIs
  <2>3. CASE proc[s].pc \in CaughtReads /\ proc' = [proc EXCEPT ![s] = AfterCaughtRead(proc[s])]
    <3>1. CASE proc[s].pc = "replayRead"
      <4>1. Goto(s, "complete") BY <2>3, <3>1 DEF AfterCaughtRead, Goto
      <4> QED BY <4>1, GotoIs
    <3>2. CASE proc[s].pc = "timeoutRead"
      <4>1. Throw(s) BY <2>3, <3>2 DEF AfterCaughtRead, Throw
      <4> QED BY <1>3, <4>1, ThrowIs
    <3>3. CASE proc[s].pc \notin {"replayRead", "timeoutRead"}
      <4>1. Finish(s) BY <2>3, <3>3 DEF AfterCaughtRead, Finish
      <4> QED BY <1>3, <4>1, FinishIs
    <3> QED BY <3>1, <3>2, <3>3
  <2> QED BY <1>8, <2>1, <2>2, <2>3 DEF CallFails
<1> QED BY <1>1, <1>2, <1>4, <1>5, <1>6, <1>7, <1>8 DEF Worker, Looking

-----------------------------------------------------------------------------
(* Nobody is asked again.                                                      *)

\* Only the airtime worker lets go of an execution that goes on: a purchase the
\* other worker runs has one job, which comes from the controller.
Single ==
  service = "vtu" =>
    /\ \A s \in Slots : ~proc[s].detached
    /\ \A s, t \in Slots : proc[s].kind = "purchase" /\ proc[t].kind = "purchase" => s = t
    /\ api # "done" => \A s \in Slots : proc[s].kind = "free"

LEMMA SingleKept ==
  ASSUME Single, service' = service, api' = api \/ (api # "done" /\ api' # "done"),
         \A s \in Slots : /\ proc'[s].kind \in {proc[s].kind, "free"}
                          /\ proc'[s].detached => proc[s].detached
  PROVE  Single'
BY DEF Single

LEMMA SinglePreserved == ASSUME Single, JobsOK, [Next]_vars PROVE Single'
<1>1. CASE UNCHANGED vars BY <1>1, SingleKept DEF vars, kept
<1>2. CASE Debit \/ CreateTransaction \/ RequestLost
  BY <1>2, SingleKept DEF Debit, CreateTransaction, RequestLost, kept
<1>3. CASE AddJob
  <2>1. FreeSlot \in Slots /\ proc' = [proc EXCEPT ![FreeSlot] = PurchaseJob(MaxAttempts)]
    BY <1>3, FreeSlotIs DEF AddJob
  <2>2. ~PurchaseJob(MaxAttempts).detached BY DEF PurchaseJob, Free
  <2>3. proc'[FreeSlot] = PurchaseJob(MaxAttempts)
        /\ \A t \in Slots : t # FreeSlot => proc'[t] = proc[t]
    BY <2>1 DEF JobsOK
  <2>4. api = "add" /\ api' = "done" /\ service' = service BY <1>3 DEF AddJob, kept
  <2> QED BY <2>2, <2>3, <2>4 DEF Single
<1>4. CASE WorkerCrash
  <2>1. \A s \in Slots : /\ proc'[s].kind \in {proc[s].kind, "free"}
                         /\ proc'[s].detached => proc[s].detached
    <3> SUFFICES ASSUME NEW s \in Slots
                 PROVE  /\ proc'[s].kind \in {proc[s].kind, "free"}
                        /\ proc'[s].detached => proc[s].detached
      OBVIOUS
    <3>1. proc'[s] = AfterCrash(proc[s]) /\ proc[s] \in Jobs BY <1>4 DEF WorkerCrash, JobsOK
    <3> DEFINE r == [Requeued(proc[s]) EXCEPT !.stalled = TRUE]
    <3>2. r.kind = proc[s].kind /\ ~r.detached /\ Free.kind = "free" /\ ~Free.detached
      BY DEF Requeued, Free
    <3>3. proc'[s] \in {proc[s], Free, r} BY <3>1 DEF AfterCrash
    <3> HIDE DEF r
    <3> QED BY <3>2, <3>3
  <2> QED BY <1>4, <2>1, SingleKept DEF WorkerCrash
<1>5. ASSUME NEW p \in Providers, NEW i \in DOMAIN orders[p], Settle(p, i) PROVE Single'
  BY <1>5, SingleKept DEF Settle, kept
<1>6. ASSUME NEW s \in Slots, Timeout(s) PROVE Single'
  BY <1>6 DEF Timeout, Single, kept
<1>7. ASSUME NEW s \in Slots, Worker(s) \/ CallFails(s) PROVE Single'
  <2>1. proc[s].pc # "free" /\ api' = api /\ service' = service BY <1>7, Busy
  <2>2. CASE EnqueueVerify(s)
    <3>1. api # "done" => service # "vtu"
      <4>1. JobOK(proc[s]) BY DEF JobsOK
      <4> QED BY <2>1, <4>1 DEF Single, JobOK, Free
    <3> QED BY <2>1, <2>2, <3>1, EnqueueVerifyIs DEF Single, Free
  <2>3. CASE Looking(s) BY <2>1, <2>3, LookingIs, SingleKept
  <2>4. CASE ~Looking(s) /\ ~EnqueueVerify(s)
    BY <1>7, <2>1, <2>4, Elsewhere, SingleKept
  <2> QED BY <2>2, <2>3, <2>4
<1> QED BY <1>1, <1>2, <1>3, <1>4, <1>5, <1>6, <1>7 DEF Next, Controller

\* What an execution has looked up is still so when it acts on it: no success is on
\* record, and no definite answer of a provider it has yet to ask.
Informed(s) ==
  /\ proc[s].pc = "resolve" => \A a \in Attempts : a.class # "SUCCESS"
  /\ proc[s].pc \in {"call", "record"} =>
       \A i, j \in DOMAIN proc[s].cands : proc[s].cands[i] = proc[s].cands[j] => i = j
  /\ proc[s].pc \in {"call", "record"} =>
       \A i \in DOMAIN proc[s].cands : \A a \in Attempts :
         (i > 1 \/ proc[s].pc = "call") /\ a.provider = proc[s].cands[i]
           => a.class \in {"PENDING", "NULL"}

AllInformed == service = "vtu" => \A s \in Slots : Informed(s)

\* A slot whose job did not move, or moved to a place where nothing is looked up.
LEMMA InformedKept ==
  ASSUME NEW s \in Slots, Informed(s), attempts' = attempts,
         proc'[s] = proc[s] \/ proc'[s].pc \notin Critical
  PROVE  Informed(s)'
BY DEF Informed, Critical, Attempts

\* The candidates were neither refused nor timed out before, and are different providers.
LEMMA CandidatesAre ==
  ASSUME NEW usable, NEW cands \in Candidates(usable)
  PROVE  /\ cands \in Seq(Providers) /\ \A i \in DOMAIN cands : cands[i] \in usable
         /\ \A i, j \in DOMAIN cands : cands[i] = cands[j] => i = j
<1>1. PICK n \in 0..Len(Route) : cands \in [1..n -> Providers]
  BY DEF Candidates, CandidateLists
<1>2. n \in Nat BY <1>1, RouteAssumption
<1>3. cands \in Seq(Providers) /\ DOMAIN cands = 1..n BY <1>1, <1>2, SeqDef
<1>4. \A i \in DOMAIN cands : cands[i] \in usable BY DEF Candidates
<1>5. ASSUME NEW i \in DOMAIN cands, NEW j \in DOMAIN cands, i < j PROVE cands[i] # cands[j]
  <2>1. PICK k, l \in DOMAIN Route : k < l /\ cands[i] = Route[k] /\ cands[j] = Route[l]
    BY <1>5 DEF Candidates, InRouteOrder
  <2>2. DOMAIN Route = 1..Len(Route) /\ Len(Route) \in Nat BY RouteAssumption
  <2> QED BY <2>1, <2>2, RouteAssumption
<1>6. ASSUME NEW i \in DOMAIN cands, NEW j \in DOMAIN cands, cands[i] = cands[j] PROVE i = j
  BY <1>2, <1>3, <1>5, <1>6
<1> QED BY <1>3, <1>4, <1>6

LEMMA LookingInformed ==
  ASSUME JobsOK, attempts \in Seq(Record), NEW s \in Slots, Looking(s), Informed(s)
  PROVE  Informed(s)'
<1>1. proc[s] \in Jobs /\ JobOK(proc[s]) BY DEF JobsOK
<1>2. CASE FindSuccess(s)
  <2>1. attempts' = attempts /\ Goto(s, AfterFindSuccess) BY <1>2 DEF FindSuccess
  <2>2. proc'[s].pc = AfterFindSuccess BY <2>1, GotoIs
  <2>3. proc'[s].pc = "resolve" => \A a \in Attempts' : a.class # "SUCCESS"
    BY <2>1, <2>2 DEF AfterFindSuccess, SuccessfulAttempt, Attempts
  <2>4. proc'[s].pc \in {"resolve", "replayRead"} BY <2>2 DEF AfterFindSuccess
  <2> QED BY <2>3, <2>4 DEF Informed
<1>3. CASE Resolve(s)
  <2>0. PICK eligible \in Eligible : \E cands \in Candidates(eligible \ FailedCodes) :
          proc'[s].cands = cands
          /\ proc'[s].pc = IF cands # <<>> THEN "call"
                           ELSE IF FailedCodes # {} THEN "review" ELSE "refund"
    BY <1>3, ResolveIs
  <2>1. PICK cands \in Candidates(eligible \ FailedCodes) :
          proc'[s].cands = cands
          /\ proc'[s].pc = IF cands # <<>> THEN "call"
                           ELSE IF FailedCodes # {} THEN "review" ELSE "refund"
    BY <2>0
  <2>2. /\ \A i \in DOMAIN cands : cands[i] \notin FailedCodes
        /\ \A i, j \in DOMAIN cands : cands[i] = cands[j] => i = j
    BY CandidatesAre
  <2>3. \A a \in Attempts : a.class \in FailedClass \union {"SUCCESS", "PENDING", "NULL"}
    <3>1. \A i \in DOMAIN attempts : attempts[i] \in Record OBVIOUS
    <3> QED BY <3>1 DEF Attempts, Record
  <2>4. \A a \in Attempts : a.class # "SUCCESS" BY <1>3 DEF Resolve, Informed
  <2>5. \A i \in DOMAIN cands : \A a \in Attempts :
          a.provider = cands[i] => a.class \in {"PENDING", "NULL"}
    BY <2>2, <2>3, <2>4 DEF FailedCodes
  <2>6. Attempts' = Attempts BY <1>3 DEF Resolve, Attempts
  <2>7. proc'[s].pc # "resolve" BY <2>1
  <2> QED BY <2>1, <2>2, <2>5, <2>6, <2>7 DEF Informed
<1>4. CASE Call(s)
  <2>1. proc'[s].pc = "record" /\ proc'[s].cands = proc[s].cands /\ proc[s].pc = "call"
    BY <1>4, LookingIs DEF Call
  <2>2. Attempts' = Attempts BY <1>4 DEF Call, Attempts
  <2> QED BY <2>1, <2>2 DEF Informed
<1>5. CASE RecordAttempt(s)
  <2>1. CASE proc'[s].pc # "call"
    BY <1>5, <2>1, LookingIs DEF Informed
  <2>2. CASE proc'[s].pc = "call"
    <3>1. proc'[s].cands = Tail(proc[s].cands) /\ proc[s].pc = "record"
      BY <1>5, <2>2, LookingIs DEF RecordAttempt
    <3>2. proc[s].cands \in Seq(Providers) /\ proc[s].cands # <<>>
      BY <1>1, <3>1 DEF JobOK, HeadPc, Jobs
    <3>3. DOMAIN proc[s].cands = 1..Len(proc[s].cands) /\ Len(proc[s].cands) \in Nat
      BY <3>2
    <3>4. /\ DOMAIN Tail(proc[s].cands) = 1..(Len(proc[s].cands) - 1)
          /\ \A i \in DOMAIN Tail(proc[s].cands) :
               Tail(proc[s].cands)[i] = proc[s].cands[i + 1] /\ i + 1 \in DOMAIN proc[s].cands
               /\ i \in Nat /\ i + 1 > 1
      BY <3>2, <3>3
    <3>5. Head(proc[s].cands) = proc[s].cands[1] /\ 1 \in DOMAIN proc[s].cands BY <3>2, <3>3
    <3>6. \A a \in Attempts' : a \in Attempts \/ a.provider = proc[s].cands[1]
      <4>1. CASE attempts' = attempts BY <4>1 DEF Attempts
      <4>2. CASE attempts' = Append(attempts, [provider |-> Head(proc[s].cands),
                                               class |-> Class(proc[s].answer)])
        BY <3>5, <4>2 DEF Attempts
      <4> QED BY <1>5, <4>1, <4>2 DEF RecordAttempt
    <3>7. \A i, j \in DOMAIN proc'[s].cands : proc'[s].cands[i] = proc'[s].cands[j] => i = j
      <4> SUFFICES ASSUME NEW i \in DOMAIN proc'[s].cands, NEW j \in DOMAIN proc'[s].cands,
                          proc'[s].cands[i] = proc'[s].cands[j]
                   PROVE i = j
        OBVIOUS
      <4>1. /\ i + 1 \in DOMAIN proc[s].cands /\ j + 1 \in DOMAIN proc[s].cands
            /\ proc[s].cands[i + 1] = proc[s].cands[j + 1] /\ i \in Nat /\ j \in Nat
        BY <3>1, <3>4
      <4>2. i + 1 = j + 1 BY <3>1, <4>1 DEF Informed
      <4> QED BY <4>1, <4>2
    <3>8. ASSUME NEW i \in DOMAIN proc'[s].cands, NEW a \in Attempts', a.provider = proc'[s].cands[i]
          PROVE  a.class \in {"PENDING", "NULL"}
      <4>1. a.provider = proc[s].cands[i + 1] /\ i + 1 \in DOMAIN proc[s].cands /\ i + 1 > 1
            /\ i + 1 # 1
        BY <3>1, <3>4, <3>8
      <4>2. a.provider # proc[s].cands[1] BY <3>1, <3>5, <4>1 DEF Informed
      <4>3. a \in Attempts BY <3>6, <4>2
      <4> QED BY <3>1, <4>1, <4>3 DEF Informed
    <3> QED BY <2>2, <3>7, <3>8 DEF Informed
  <2> QED BY <2>1, <2>2
<1> QED BY <1>2, <1>3, <1>4, <1>5 DEF Looking

LEMMA ServiceStays == ASSUME [Next]_vars PROVE service' = service
<1>1. CASE UNCHANGED kept \/ UNCHANGED vars BY <1>1 DEF kept, vars
<1>2. CASE Controller \/ RequestLost \/ WorkerCrash
  BY <1>2 DEF Controller, Debit, CreateTransaction, AddJob, RequestLost, WorkerCrash, kept
<1>3. CASE \E p \in Providers : \E i \in DOMAIN orders[p] : Settle(p, i)
  BY <1>3 DEF Settle, kept
<1> QED BY <1>1, <1>2, <1>3, Busy DEF Next

LEMMA AllInformedPreserved ==
  ASSUME JobsOK, Single, AllInformed, attempts \in Seq(Record), [Next]_vars
  PROVE  AllInformed'
<1> SUFFICES ASSUME service' = "vtu", NEW t \in Slots PROVE Informed(t)'
  BY DEF AllInformed
<1>1. service' = service BY ServiceStays
<1>2. Informed(t) /\ service = "vtu" BY <1>1 DEF AllInformed
<1>3. CASE UNCHANGED vars \/ Debit \/ CreateTransaction \/ RequestLost
  BY <1>2, <1>3, InformedKept DEF vars, Debit, CreateTransaction, RequestLost
<1>4. CASE AddJob
  <2>1. FreeSlot \in Slots /\ proc' = [proc EXCEPT ![FreeSlot] = PurchaseJob(MaxAttempts)]
        /\ attempts' = attempts
    BY <1>4, FreeSlotIs DEF AddJob
  <2>2. PurchaseJob(MaxAttempts).pc = "waiting" BY DEF PurchaseJob, Free
  <2>3. proc'[t] = proc[t] \/ proc'[t].pc = "waiting" BY <2>1, <2>2 DEF JobsOK
  <2> QED BY <1>2, <2>1, <2>3, InformedKept DEF Critical
<1>5. CASE WorkerCrash
  <2>1. proc'[t] = AfterCrash(proc[t]) /\ attempts' = attempts BY <1>5 DEF WorkerCrash
  <2> DEFINE r == [Requeued(proc[t]) EXCEPT !.stalled = TRUE]
  <2>2. proc'[t] \in {proc[t], Free, r} BY <2>1 DEF AfterCrash
  <2>3. r.pc = "waiting" /\ Free.pc = "free" BY DEF Requeued, Free
  <2> HIDE DEF r
  <2> QED BY <1>2, <2>1, <2>2, <2>3, InformedKept DEF Critical
<1>6. ASSUME NEW p \in Providers, NEW i \in DOMAIN orders[p], Settle(p, i) PROVE Informed(t)'
  BY <1>2, <1>6, InformedKept DEF Settle
<1>7. ASSUME NEW s \in Slots, Timeout(s) PROVE Informed(t)'
  BY <1>2, <1>7 DEF Timeout
<1>8. ASSUME NEW s \in Slots, Worker(s) \/ CallFails(s) PROVE Informed(t)'
  <2>1. CASE Looking(s)
    <3>1. CASE t = s BY <1>2, <2>1, <3>1, LookingInformed
    <3>2. CASE t # s
      <4>1. proc'[t] = proc[t] BY <2>1, <3>2, LookingIs
      <4>2. JobOK(proc[t]) /\ JobOK(proc[s]) BY DEF JobsOK
      <4>3. proc[s].kind = "purchase"
        BY <2>1, <4>2 DEF JobOK, PurchasePc, EnginePc, Looking, FindSuccess, Resolve, Call, RecordAttempt
      <4>4. proc[t].kind # "purchase" BY <1>2, <3>2, <4>3 DEF Single
      <4>5. proc[t].pc \notin Critical
        BY <4>2, <4>4 DEF JobOK, PurchasePc, EnginePc, Critical
      <4> QED BY <4>1, <4>5 DEF Informed, Critical
    <3> QED BY <3>1, <3>2
  <2>2. attempts' = attempts \/ Looking(s) BY <1>8, SlotUntouched DEF Looking
  <2>3. CASE EnqueueVerify(s)
    <3>1. proc'[t] = proc[t] \/ proc'[t].pc \in {"complete", "waiting"}
      BY <2>3, EnqueueVerifyIs
    <3>2. attempts' = attempts BY <2>3 DEF EnqueueVerify
    <3> QED BY <1>2, <3>1, <3>2, InformedKept DEF Critical
  <2>4. CASE ~Looking(s) /\ ~EnqueueVerify(s)
    BY <1>2, <1>8, <2>2, <2>4, Elsewhere, InformedKept
  <2> QED BY <2>1, <2>3, <2>4
<1> QED BY <1>3, <1>4, <1>5, <1>6, <1>7, <1>8 DEF Next, Controller

\* A provider whose delivery, refusal or timeout is on record is not asked again for
\* the same data purchase, wherever a job before broke off: for every route, every
\* choice of usable providers and every number of attempts and mishaps.
THEOREM NotAskedAgain == Spec => []NoRepeatOfRecorded
<1>1. Init => Single /\ AllInformed
  BY DEF Init, Single, AllInformed, Informed, Free
<1>2. SoundInv /\ Single /\ AllInformed /\ [Next]_vars => Single' /\ AllInformed'
  BY SinglePreserved, AllInformedPreserved, TypeOKParts DEF SoundInv
<1>3. SoundInv /\ AllInformed => NoRepeatOfRecorded
  <2> SUFFICES ASSUME SoundInv, AllInformed, service = "vtu", NEW s \in Slots, NEW a \in Attempts,
                      proc[s].pc = "call", a.provider = Head(proc[s].cands)
               PROVE  a.class \in {"PENDING", "NULL"}
    BY DEF NoRepeatOfRecorded
  <2>1. proc[s] \in Jobs /\ JobOK(proc[s]) BY DEF SoundInv, JobsOK
  <2>2. proc[s].cands \in Seq(Providers) /\ proc[s].cands # <<>>
    BY <2>1 DEF JobOK, HeadPc, Jobs
  <2>3. 1 \in DOMAIN proc[s].cands /\ Head(proc[s].cands) = proc[s].cands[1] BY <2>2
  <2>4. Informed(s) BY DEF AllInformed
  <2> QED BY <2>3, <2>4 DEF Informed
<1> QED BY <1>1, <1>2, <1>3, SagaStarts, SagaSound, PTL DEF Spec

-----------------------------------------------------------------------------
(* Without mishaps the saga keeps the customer's contract.                     *)

\* Data purchases, and no call of the database or the queue fails.
Calm == Services = {"vtu"} /\ Mishaps = {}

InFlight == {"pending", "processing"}
Ended    == Final \union {"requires_review"}
Resting  == {"free", "complete"}
Astray   == DeadPc \union {"netRead", "netWrite", "timeoutRead", "timeoutWrite"}

\* One job at a time has something to do, as long as the purchase is in flight, and
\* what it may pay back was not paid back yet.
InTurn ==
  /\ \A s, t \in Slots : proc[s].pc \notin Resting /\ proc[t].pc \notin Resting => s = t
  /\ \A s \in Slots : proc[s].pc \notin Resting =>
       /\ proc[s].pc \notin Astray /\ tx.status \in InFlight
       /\ proc[s].pc \notin {"fail", "verifyFail"} => Refunded \notin ledger
  /\ api # "done" => Refunded \notin ledger /\ \A s \in Slots : proc[s] = Free
  /\ api \in {"debit", "refused"} => ledger = {}
  /\ api \in {"debit", "refused", "row"} => tx.status = "none"
  /\ api = "add" => tx.status = "pending"
  /\ api # "lost"

\* What a step of a worker may then be: the end of the purchase; a step on its way,
\* which may be the refund; the change from the purchase job to a verification; and
\* the end of a job that has nothing left to do.
Ends(s) ==
  /\ proc[s].pc \notin Resting /\ proc'[s].pc \in Resting /\ UNCHANGED ledger
  /\ \/ tx'.status = "failed"
     \/ tx'.status \in Ended /\ proc[s].pc \notin {"fail", "verifyFail"}
GoesOn(s) ==
  /\ proc[s].pc \notin Resting \union {"fail", "verifyFail"}
  /\ proc'[s].pc \notin Resting \union Astray /\ tx'.status \in InFlight
  /\ \/ UNCHANGED ledger
     \/ ledger' = ledger \union {Refunded} /\ proc'[s].pc \in {"fail", "verifyFail"}
HandsOver(s) == EnqueueVerify(s)
Leaves(s) == proc[s].pc = "complete" /\ proc'[s].pc = "free" /\ UNCHANGED <<tx, ledger>>

LEMMA Written ==
  ASSUME tx \in Row
  PROVE  /\ \A status : SetStatus(status) => tx'.status = status /\ tx'.provider = tx.provider
         /\ \A status, p : SetOutcome(status, p) => tx'.status = status /\ tx'.provider = p
BY DEF SetStatus, SetOutcome, Row

LEMMA CalmStep ==
  ASSUME Calm, JobsOK, OrdersOK, tx \in Row, InTurn, service = "vtu", NEW s \in Slots, Worker(s)
  PROVE  /\ Ends(s) \/ GoesOn(s) \/ HandsOver(s) \/ Leaves(s)
         /\ HandsOver(s) \/ \A t \in Slots : t # s => proc'[t] = proc[t]
<1>1. proc[s].pc \notin Resting =>
        /\ proc[s].pc \notin Astray /\ tx.status \in InFlight
        /\ proc[s].pc \notin {"fail", "verifyFail"} => Refunded \notin ledger
  BY DEF InTurn
<1>2. proc[s] \in Jobs /\ JobOK(proc[s]) BY DEF JobsOK
<1>3. proc[s].pc \notin Astray BY <1>1 DEF Astray, Resting, DeadPc
<1> USE DEF Resting, InFlight, Final, Ended
<1>4. CASE Start(s) \/ FindSuccess(s) \/ VerifyTransaction(s)
  <2>1. CASE Start(s)
    BY <1>1, <2>1, GotoIs DEF Start, GoesOn, Astray, DeadPc
  <2>2. CASE FindSuccess(s)
    BY <1>1, <2>2, GotoIs DEF FindSuccess, AfterFindSuccess, GoesOn, Astray, DeadPc
  <2>3. CASE VerifyTransaction(s)
    <3>1. PICK verdict \in Verdicts(proc[s].at, LostByReference) :
            Goto(s, AfterPoll(verdict, proc[s].polls))
      BY <2>3 DEF VerifyTransaction
    <3>2. AfterPoll(verdict, proc[s].polls)
            \in {"verifySucceed", "verifyRefund", "verifyReview", "requeue"}
      BY DEF AfterPoll
    <3> QED BY <1>1, <2>3, <3>1, <3>2, GotoIs DEF VerifyTransaction, GoesOn, Astray, DeadPc
  <2> QED BY <1>4, <2>1, <2>2, <2>3
<1>5. CASE Resolve(s) \/ Call(s) \/ RecordAttempt(s)
  <2>1. UNCHANGED <<tx, ledger>> /\ proc[s].pc \in Critical
    BY <1>5 DEF Resolve, Call, RecordAttempt, Critical
  <2>2. /\ proc'[s].pc \in {"call", "review", "refund", "record", "succeed", "pend"}
        /\ \A t \in Slots : t # s => proc'[t] = proc[t]
    BY <1>5, LookingIs DEF Looking
  <2> QED BY <1>1, <2>1, <2>2 DEF GoesOn, Astray, DeadPc, Critical
<1>6. CASE LoadTransaction(s) \/ VerifyLoad(s)
  <2>1. CASE LoadTransaction(s)
    BY <1>1, <2>1, GotoIs DEF LoadTransaction, Skippable, GoesOn, Astray, DeadPc
  <2>2. CASE VerifyLoad(s)
    BY <1>1, <2>2, GotoIs DEF VerifyLoad, GoesOn, Astray, DeadPc
  <2> QED BY <1>6, <2>1, <2>2
<1>7. CASE MarkProcessing(s) \/ HandlePending(s)
  <2>1. CASE MarkProcessing(s)
    BY <2>1, GotoIs, Written DEF MarkProcessing, GoesOn, Astray, DeadPc
  <2>2. CASE HandlePending(s)
    BY <2>2, GotoIs, Written DEF HandlePending, GoesOn, Astray, DeadPc
  <2> QED BY <1>7, <2>1, <2>2
<1>8. CASE ReplayRead(s) BY <1>1, <1>8, GotoIs DEF ReplayRead, GoesOn, Astray, DeadPc
<1>9. CASE ReplayWrite(s)
  BY <1>9, GotoIs, Written DEF ReplayWrite, Ends
<1>10. CASE HandleSuccess(s) \/ HandleRequiresReview(s) \/ MarkFailed(s)
  BY <1>10, GotoIs, Written DEF HandleSuccess, HandleRequiresReview, MarkFailed, Ends
<1>11. CASE VerifySucceeded(s) \/ FinalizeRequiresReview(s) \/ VerifyFailed(s)
  <2>1. Free.pc = "free" BY DEF Free
  <2> QED BY <1>11, <2>1, FinishIs, Written DEF VerifySucceeded, FinalizeRequiresReview, VerifyFailed, Ends
<1>12. CASE HandleAllFailed(s) \/ FinalizeFailed(s)
  BY <1>1, <1>12, GotoIs, Posts
     DEF HandleAllFailed, FinalizeFailed, Refund, RefundKey, Refunded, GoesOn, Astray, DeadPc
<1>13. CASE Complete(s)
  <2>1. Free.pc = "free" BY DEF Free
  <2> QED BY <1>13, <2>1, FinishIs DEF Complete, Leaves
<1>14. CASE RequeueVerify(s)
  <2>1. \A q, n : VerifyJob(q, n).pc = "waiting" BY DEF VerifyJob, Free
  <2> QED BY <1>1, <1>14, <2>1 DEF RequeueVerify, GoesOn, JobsOK, Astray, DeadPc
<1>15. CASE EnqueueVerify(s) BY <1>15 DEF HandsOver
<1>16. CASE \/ SafetyNetRead(s) \/ SafetyNetWrite(s) \/ TimeoutRead(s) \/ TimeoutWrite(s)
            \/ RecordFailedJob(s) \/ DeadLetterRead(s) \/ DeadLetterWrite(s)
  BY <1>3, <1>16 DEF SafetyNetRead, SafetyNetWrite, TimeoutRead, TimeoutWrite, RecordFailedJob,
     DeadLetterRead, DeadLetterWrite, Astray, DeadPc
<1> QED BY <1>4, <1>5, <1>6, <1>7, <1>8, <1>9, <1>10, <1>11, <1>12, <1>13, <1>14, <1>15, <1>16
        DEF Worker

LEMMA CalmSteps ==
  ASSUME Calm, service = "vtu", [Next]_vars
  PROVE  \/ UNCHANGED vars \/ Controller
         \/ \E s \in Slots : Worker(s)
         \/ UNCHANGED <<api, tx, ledger, proc>>
<1>1. \A kind : ~Mishap(kind) BY DEF Calm, Mishap
<1>2. ~RequestLost /\ ~WorkerCrash /\ \A s \in Slots : ~CallFails(s)
  BY <1>1 DEF RequestLost, WorkerCrash, CallFails
<1>3. \A s \in Slots : ~Timeout(s) BY DEF Timeout
<1>4. ASSUME NEW p \in Providers, NEW i \in DOMAIN orders[p], Settle(p, i)
      PROVE UNCHANGED <<api, tx, ledger, proc>>
  BY <1>4 DEF Settle
<1> QED BY <1>2, <1>3, <1>4 DEF Next

LEMMA InTurnWorker ==
  ASSUME Calm, JobsOK, OrdersOK, tx \in Row, InTurn, service = "vtu", NEW s \in Slots, Worker(s)
  PROVE  InTurn'
<1>1. proc[s].pc # "free" /\ api' = api BY Busy
<1>2. api = "done" BY <1>1 DEF InTurn, Free
<1>3. \A t \in Slots : t # s /\ proc[s].pc \notin Resting => proc[t].pc \in Resting
  BY DEF InTurn
<1>0. ~HandsOver(s) => \A t \in Slots : t # s => proc'[t] = proc[t] BY CalmStep
<1>4. CASE Ends(s) /\ ~HandsOver(s)
  <2>1. \A t \in Slots : proc'[t].pc \in Resting
    BY <1>0, <1>3, <1>4 DEF Ends
  <2> QED BY <1>1, <1>2, <2>1 DEF InTurn
<1>5. CASE GoesOn(s) /\ ~HandsOver(s)
  <2>1. \A t \in Slots : t # s => proc'[t].pc \in Resting
    BY <1>0, <1>3, <1>5 DEF GoesOn
  <2>2. proc'[s].pc \notin Astray /\ tx'.status \in InFlight BY <1>5 DEF GoesOn
  <2>3. proc'[s].pc \notin {"fail", "verifyFail"} => Refunded \notin ledger'
    BY <1>5 DEF GoesOn, InTurn
  <2> QED BY <1>1, <1>2, <2>1, <2>2, <2>3 DEF InTurn
<1>6. CASE Leaves(s) /\ ~HandsOver(s)
  <2>1. \A t \in Slots : proc'[t].pc \in Resting \/ proc'[t] = proc[t]
    BY <1>0, <1>6 DEF Leaves, Resting
  <2> QED BY <1>1, <1>2, <1>6, <2>1 DEF InTurn, Leaves
<1>7. CASE HandsOver(s)
  <2>1. proc[s].pc = "enqueue" /\ UNCHANGED <<tx, ledger>> BY <1>7 DEF HandsOver, EnqueueVerify
  <2>2. /\ FreeSlot \in Slots /\ proc'[s].pc = "complete" /\ proc'[FreeSlot].pc = "waiting"
        /\ \A t \in Slots : t \notin {s, FreeSlot} => proc'[t] = proc[t]
    BY <1>7, EnqueueVerifyIs DEF HandsOver
  <2>3. \A t \in Slots : t # FreeSlot => proc'[t].pc \in Resting
    BY <1>3, <2>1, <2>2 DEF Resting
  <2>4. tx.status \in InFlight /\ Refunded \notin ledger BY <2>1 DEF InTurn, Resting
  <2> QED BY <1>1, <1>2, <2>1, <2>2, <2>3, <2>4 DEF InTurn, Astray, DeadPc
<1> QED BY <1>4, <1>5, <1>6, <1>7, CalmStep

LEMMA InTurnPreserved ==
  ASSUME Calm, SoundInv, InTurn, service = "vtu", [Next]_vars PROVE InTurn'
<1>1. JobsOK /\ OrdersOK /\ tx \in Row BY TypeOKParts DEF SoundInv
<1>0. Free.pc = "free" BY DEF Free
<1>2. CASE UNCHANGED vars \/ UNCHANGED <<api, tx, ledger, proc>>
  BY <1>2 DEF vars, InTurn
<1>3. CASE Debit
  <2>1. /\ api = "debit" /\ UNCHANGED <<tx, proc>>
        /\ \/ api' = "row" /\ ledger' \in {ledger, ledger \union {Debited}}
           \/ api' = "refused" /\ UNCHANGED ledger
    BY <1>3, Posts DEF Debit, Debited
  <2>2. Debited # Refunded BY DEF Debited, Refunded
  <2>3. \A s \in Slots : proc[s] = Free /\ proc[s].pc \in Resting
    BY <1>0, <2>1 DEF InTurn, Resting
  <2>4. Refunded \notin ledger' /\ tx.status = "none" BY <2>1, <2>2 DEF InTurn
  <2>5. api' = "refused" => ledger' = {} BY <2>1 DEF InTurn
  <2> QED BY <2>1, <2>3, <2>4, <2>5 DEF InTurn
<1>4. CASE CreateTransaction
  <2>1. api = "row" /\ api' = "add" /\ tx'.status = "pending" /\ UNCHANGED <<ledger, proc>>
    BY <1>1, <1>4, Written DEF CreateTransaction
  <2>2. \A s \in Slots : proc[s] = Free /\ proc[s].pc \in Resting
    BY <1>0, <2>1 DEF InTurn, Resting
  <2> QED BY <2>1, <2>2 DEF InTurn
<1>5. CASE AddJob
  <2>1. /\ api = "add" /\ api' = "done" /\ UNCHANGED <<tx, ledger>> /\ FreeSlot \in Slots
        /\ proc' = [proc EXCEPT ![FreeSlot] = PurchaseJob(MaxAttempts)]
    BY <1>5, FreeSlotIs DEF AddJob
  <2>2. PurchaseJob(MaxAttempts).pc = "waiting" BY DEF PurchaseJob, Free
  <2>3. proc'[FreeSlot].pc = "waiting"
        /\ \A t \in Slots : t # FreeSlot => proc'[t] = Free
    BY <1>1, <2>1, <2>2 DEF InTurn, JobsOK
  <2>4. tx.status \in InFlight /\ Refunded \notin ledger BY <2>1 DEF InTurn, InFlight
  <2> QED BY <2>1, <2>3, <2>4 DEF InTurn, Astray, DeadPc, Resting, Free
<1>6. ASSUME NEW s \in Slots, Worker(s) PROVE InTurn'
  BY <1>1, <1>6, InTurnWorker
<1> QED BY <1>2, <1>3, <1>4, <1>5, <1>6, CalmSteps DEF Controller

\* The money and the outcome of the contract, as the saga's state gives them.
MoneyOf(rows) == IF {b \in rows : b.kind = "refund"} # {} THEN "refunded"
                 ELSE IF {b \in rows : b.kind = "debit"} # {} THEN "charged" ELSE "unpaid"
Money == MoneyOf(ledger)
Shown == IF tx.status \in {"pending", "processing"} THEN "open" ELSE tx.status

LEMMA MoneyIs ==
  ASSUME NEW rows \in SUBSET {Debited, Refunded}
  PROVE  MoneyOf(rows) = IF Refunded \in rows THEN "refunded"
                         ELSE IF Debited \in rows THEN "charged" ELSE "unpaid"
<1>1. Debited.kind = "debit" /\ Refunded.kind = "refund" BY DEF Debited, Refunded
<1>2. {b \in rows : b.kind = "refund"} # {} <=> Refunded \in rows BY <1>1
<1>3. {b \in rows : b.kind = "debit"} # {} <=> Debited \in rows BY <1>1
<1> QED BY <1>2, <1>3 DEF MoneyOf

\* What the theorem carries along.
ContractInv == SoundInv /\ OneOfEach /\ InTurn

LEMMA ContractStep ==
  ASSUME Calm, ContractInv, ContractInv', service = "vtu", [Next]_vars
  PROVE  [Contract!CNext]_(Contract!cvars)
<1> USE DEF Contract!CNext, Contract!cvars, Contract!Charge, Contract!Open, Contract!Refund,
            Contract!CloseKeepingMoney, Contract!CloseAsFailed
<1>1. Money = (IF Refunded \in ledger THEN "refunded"
               ELSE IF Debited \in ledger THEN "charged" ELSE "unpaid")
  BY MoneyIs DEF ContractInv, OneOfEach, Money
<1>2. Money' = (IF Refunded \in ledger' THEN "refunded"
                ELSE IF Debited \in ledger' THEN "charged" ELSE "unpaid")
  BY MoneyIs DEF ContractInv, OneOfEach, Money
<1>3. Debited # Refunded BY DEF Debited, Refunded
<1>4. JobsOK /\ OrdersOK /\ tx \in Row /\ Taken BY TypeOKParts DEF ContractInv, SoundInv
<1>5. SUFFICES \/ Money' = Money /\ Shown' = Shown
               \/ Money = "unpaid" /\ Money' = "charged" /\ Shown' = Shown
               \/ Money = "charged" /\ Money' = Money /\ Shown = "none" /\ Shown' = "open"
               \/ Money = "charged" /\ Shown = "open" /\ Money' = "refunded" /\ Shown' = Shown
               \/ /\ Money = "charged" /\ Shown = "open" /\ Money' = Money
                  /\ Shown' \in {"successful", "requires_review"}
               \/ Shown = "open" /\ Shown' = "failed" /\ Money' = Money
  BY DEF Money, MoneyOf, Shown, Batches
<1>6. CASE UNCHANGED vars \/ UNCHANGED <<api, tx, ledger, proc>>
  BY <1>1, <1>2, <1>6 DEF vars, Shown
<1>7. CASE Debit
  <2>1. /\ api = "debit" /\ UNCHANGED tx
        /\ ledger' \in {ledger, ledger \union {Debited}}
    BY <1>7, Posts DEF Debit, Debited
  <2> QED BY <1>1, <1>2, <1>3, <2>1 DEF Shown, ContractInv, InTurn
<1>8. CASE CreateTransaction
  <2>1. api = "row" /\ tx'.status = "pending" /\ UNCHANGED ledger
    BY <1>4, <1>8, Written DEF CreateTransaction
  <2>2. tx.status = "none" /\ Refunded \notin ledger /\ Debited \in ledger
    BY <1>4, <2>1 DEF ContractInv, InTurn, Taken
  <2> QED BY <1>1, <1>2, <2>1, <2>2 DEF Shown
<1>9. CASE AddJob BY <1>1, <1>2, <1>9 DEF AddJob, Shown
<1>10. ASSUME NEW s \in Slots, Worker(s)
       PROVE  \/ Money' = Money /\ Shown' = Shown
              \/ Money = "charged" /\ Shown = "open" /\ Money' = "refunded" /\ Shown' = Shown
              \/ /\ Money = "charged" /\ Shown = "open" /\ Money' = Money
                 /\ Shown' \in {"successful", "requires_review"}
              \/ Shown = "open" /\ Shown' = "failed" /\ Money' = Money
  <2>1. Debited \in ledger BY <1>4, <1>10, Busy DEF Taken
  <2>2. proc[s].pc \notin Resting =>
          /\ tx.status \in InFlight /\ Shown = "open"
          /\ proc[s].pc \notin {"fail", "verifyFail"} => Refunded \notin ledger
    BY DEF ContractInv, InTurn, InFlight, Shown
  <2>3. CASE Ends(s)
    <3>1. tx'.status \in Ended /\ Shown' = tx'.status BY <2>3 DEF Ends, Ended, Final, Shown
    <3>2. Money' = Money /\ proc[s].pc \notin Resting BY <1>1, <1>2, <2>3 DEF Ends
    <3>3. proc[s].pc \notin {"fail", "verifyFail"} => Money = "charged" BY <1>1, <2>1, <2>2, <3>2
    <3> QED BY <2>2, <2>3, <3>1, <3>2, <3>3 DEF Ends, Ended, Final
  <2>4. CASE GoesOn(s)
    <3>1. Shown' = "open" BY <2>4 DEF GoesOn, InFlight, Shown
    <3>2. Money = "charged" /\ Shown = "open" BY <1>1, <2>1, <2>2, <2>4 DEF GoesOn
    <3>3. Money' \in {"charged", "refunded"} BY <1>2, <2>1, <2>4 DEF GoesOn
    <3> QED BY <3>1, <3>2, <3>3
  <2>5. CASE HandsOver(s) BY <1>1, <1>2, <2>5 DEF HandsOver, EnqueueVerify, Shown
  <2>6. CASE Leaves(s) BY <1>1, <1>2, <2>6 DEF Leaves, Shown
  <2> QED BY <1>4, <1>10, <2>3, <2>4, <2>5, <2>6, CalmStep DEF ContractInv
<1> QED BY <1>6, <1>7, <1>8, <1>9, <1>10, CalmSteps DEF Controller

\* As long as no call fails and no process dies, a data purchase keeps the contract:
\* the price is taken once, the purchase is opened and closed once, and only a
\* purchase that is open is refunded -- for every route, answer and number of polls.
THEOREM CalmSagaKeepsContract == ASSUME Calm PROVE Spec => ImplementsContract
<1>1. Init => ContractInv
  <2>1. Init => InTurn
    <3>1. Free.pc = "free" BY DEF Free
    <3> QED BY <3>1 DEF Init, InTurn, Resting
  <2> QED BY <2>1, SagaStarts DEF ContractInv, Init, OneOfEach
<1>2. TypeOK => service = "vtu" BY DEF TypeOK, Calm
<1>3. ContractInv /\ [Next]_vars => ContractInv'
  <2> SUFFICES ASSUME ContractInv, [Next]_vars PROVE ContractInv' OBVIOUS
  <2>1. service = "vtu" BY <1>2 DEF ContractInv, SoundInv
  <2>2. OneOfEach' BY LedgerSteps DEF OneOfEach, ContractInv
  <2> QED BY <2>1, <2>2, SagaSound, InTurnPreserved DEF ContractInv
<1>4. Init => Contract!CInit
  BY DEF Init, Contract!CInit, Batches
<1>5. ContractInv /\ ContractInv' /\ [Next]_vars => [Contract!CNext]_(Contract!cvars)
  <2> SUFFICES ASSUME ContractInv, ContractInv', [Next]_vars
               PROVE [Contract!CNext]_(Contract!cvars)
    OBVIOUS
  <2>1. service = "vtu" BY <1>2 DEF ContractInv, SoundInv
  <2> QED BY <2>1, ContractStep
<1> QED BY <1>1, <1>3, <1>4, <1>5, PTL DEF Spec, ImplementsContract, Contract!CSpec
-----------------------------------------------------------------------------
(* Without mishaps, what the customer is told in the end is true.              *)

\* No provider is asked that may say "pending" behind one that may time out: the
\* one case the code gets wrong without a mishap (run purchase_blind).
NoBlindWait ==
  \A i, j \in DOMAIN Route :
    i < j /\ "timeout" \in Answers[Route[i]] => "pending" \notin Answers[Route[j]]

Unasked == attempts = <<>> /\ \A p \in Providers : orders[p] = <<>>
AskedOnce == \A p \in Providers : \A i \in DOMAIN orders[p] : i = 1
AllDeclined == \A p \in Providers : Declined(p)
OthersDeclined(q) == \A p \in Providers : p # q => Declined(p)

\* What an execution may rely on where it stands: before the first call nobody was
\* asked; the candidates it has left were not asked; as long as it is sure, everyone
\* asked has declined, and once it is not, nobody left to ask may say "pending".
Aware(s) ==
  /\ proc[s].kind = "purchase" /\ proc[s].pc = "waiting" => Unasked
  /\ proc[s].pc \in {"load", "mark", "findSuccess", "resolve"} => Unasked
  /\ proc[s].pc \notin {"replayRead", "replayWrite"}
  /\ proc[s].pc \in {"call", "record"} =>
       /\ InRouteOrder(proc[s].cands)
       /\ \A i \in DOMAIN proc[s].cands :
            /\ i > 1 \/ proc[s].pc = "call" => orders[proc[s].cands[i]] = <<>>
            /\ proc[s].unsure => "pending" \notin Answers[proc[s].cands[i]]
  /\ proc[s].pc = "call" => proc[s].unsure \/ AllDeclined
  /\ proc[s].pc = "record" =>
       /\ proc[s].answer \in Answers[Head(proc[s].cands)]
       /\ proc[s].unsure \/ OthersDeclined(Head(proc[s].cands))
       /\ proc[s].answer = "ok" => Delivered(Head(proc[s].cands))
       /\ proc[s].answer \in {"error", "invalid", "blank"} => Declined(Head(proc[s].cands))
  /\ proc[s].pc = "succeed" => Delivered(Head(proc[s].cands))
  /\ proc[s].pc \in {"pend", "enqueue"} => OthersDeclined(Head(proc[s].cands))
  /\ proc[s].kind = "verify" => OthersDeclined(proc[s].at)
  /\ proc[s].pc = "verifySucceed" => Delivered(proc[s].at)
  /\ proc[s].pc \in {"refund", "fail", "verifyRefund", "verifyFail"} => AllDeclined

\* What the row says is so.
Truthful ==
  /\ tx.status = "successful" => Refunded \notin ledger /\ \E p \in Providers : Delivered(p)
  /\ tx.status = "failed" => AllDeclined
  /\ api = "done" /\ (\A s \in Slots : proc[s].pc \in Resting) => tx.status \in Ended

TruthInv ==
  AskedOnce /\ (\A s \in Slots : Aware(s)) /\ Truthful /\ (api # "done" => Unasked)

\* A slot at rest relies on nothing.
LEMMA AtRest ==
  ASSUME JobsOK', NEW s \in Slots, proc'[s].pc \in Resting PROVE Aware(s)'
<1>1. JobOK(proc[s])' BY DEF JobsOK
<1>2. proc'[s].kind # "verify"
  BY <1>1 DEF JobOK, Resting, PurchasePc, EnginePc, Free
<1> QED BY <1>2 DEF Aware, Resting

\* What was delivered or refused stays so, and a settled order is the one that was open.
LEMMA SettleIs ==
  ASSUME OrdersOK, NEW p \in Providers, NEW i \in DOMAIN orders[p], Settle(p, i)
  PROVE  /\ \A q \in Providers : DOMAIN orders'[q] = DOMAIN orders[q]
         /\ \A q \in Providers : Refused(q) => Refused(q)' /\ orders'[q] = orders[q]
         /\ \A q \in Providers : Declined(q) => Declined(q)'
         /\ \A q \in Providers : Delivered(q) => Delivered(q)'
         /\ \A q \in Providers : orders[q] = <<>> => orders'[q] = <<>>
<1>1. PICK fate \in {"delivered", "rejected"} : orders' = [orders EXCEPT ![p][i] = fate]
  BY DEF Settle
<1>2. orders[p][i] = "open" BY DEF Settle
<1>3. \A q \in Providers : q # p => orders'[q] = orders[q] BY <1>1 DEF OrdersOK
<1>4. orders'[p] = [orders[p] EXCEPT ![i] = fate] BY <1>1 DEF OrdersOK
<1>5. orders[p] \in Seq(OrderStates) BY DEF OrdersOK
<1>6. DOMAIN orders'[p] = DOMAIN orders[p] BY <1>4
<1>7. \A j \in DOMAIN orders[p] : j # i => orders'[p][j] = orders[p][j] BY <1>4
<1>8. ~Refused(p) /\ orders[p] # <<>> BY <1>2 DEF Refused
<1>9. Delivered(p) => Delivered(p)' BY <1>2, <1>6, <1>7 DEF Delivered
<1>10. \A q \in Providers : Refused(q) => orders'[q] = orders[q] BY <1>3, <1>8
<1>11. \A q \in Providers : Refused(q) => Refused(q)' BY <1>10 DEF Refused
<1>12. \A q \in Providers : Delivered(q) => Delivered(q)' BY <1>3, <1>9 DEF Delivered
<1>13. UNCHANGED misread BY DEF Settle, kept
<1>14. \A q \in Providers : Declined(q) => Declined(q)' BY <1>11, <1>13 DEF Declined
<1> QED BY <1>3, <1>6, <1>8, <1>10, <1>11, <1>12, <1>14

\* Nothing that is relied on is lost when an order settles, or when nothing but
\* the controller moves.
LEMMA AwareKept ==
  ASSUME NEW s \in Slots, Aware(s), JobsOK, UNCHANGED attempts, proc'[s] = proc[s],
         \A q \in Providers : Declined(q) => Declined(q)',
         \A q \in Providers : Delivered(q) => Delivered(q)',
         \A q \in Providers : orders[q] = <<>> => orders'[q] = <<>>
  PROVE  Aware(s)'
<1>1. proc[s] \in Jobs /\ JobOK(proc[s]) BY DEF JobsOK
<1>2. Unasked => Unasked' BY DEF Unasked
<1>3. AllDeclined => AllDeclined' BY DEF AllDeclined
<1>4. \A q : OthersDeclined(q) => OthersDeclined(q)' BY DEF OthersDeclined
<1>5. proc[s].pc \in HeadPc => Head(proc[s].cands) \in Providers BY InHand
<1>6. proc[s].pc = "verifySucceed" => proc[s].at \in Providers BY InHand DEF VerifyPc
<1>7. proc[s].pc \in {"call", "record"} => \A i \in DOMAIN proc[s].cands : proc[s].cands[i] \in Providers
  BY <1>1 DEF Jobs
<1> QED BY <1>2, <1>3, <1>4, <1>5, <1>6, <1>7 DEF Aware, HeadPc

LEMMA TruthSettled ==
  ASSUME TruthInv, JobsOK, OrdersOK, NEW p \in Providers, NEW i \in DOMAIN orders[p], Settle(p, i)
  PROVE  TruthInv'
<1>1. UNCHANGED <<api, tx, ledger, attempts, proc>> BY DEF Settle
<1>2. \A s \in Slots : Aware(s)' BY <1>1, SettleIs, AwareKept DEF TruthInv
<1>3. AskedOnce' BY SettleIs DEF TruthInv, AskedOnce
<1>4. Truthful'
  <2>1. AllDeclined => AllDeclined' BY SettleIs DEF AllDeclined
  <2>2. (\E q \in Providers : Delivered(q)) => \E q \in Providers : Delivered(q)' BY SettleIs
  <2> QED BY <1>1, <2>1, <2>2 DEF TruthInv, Truthful
<1>5. (api # "done" => Unasked)' BY <1>1, SettleIs DEF TruthInv, Unasked
<1> QED BY <1>2, <1>3, <1>4, <1>5 DEF TruthInv

\* What the steps make of the orders: a call adds one to a provider that was not
\* asked before, and an answer that is known says what became of it.
LEMMA CallIs ==
  ASSUME JobsOK, OrdersOK, NEW s \in Slots, Call(s), orders[Head(proc[s].cands)] = <<>>
  PROVE  \E a \in Answers[Head(proc[s].cands)] :
           /\ proc'[s].pc = "record" /\ proc'[s].answer = a /\ proc'[s].cands = proc[s].cands
           /\ proc'[s].unsure = proc[s].unsure /\ proc'[s].kind = proc[s].kind
           /\ \E fate \in Fates(a) : /\ orders'[Head(proc[s].cands)] = <<fate>>
                                    /\ MisreadAnswer(Head(proc[s].cands), a, fate)
           /\ \A q \in Providers : q # Head(proc[s].cands) => orders'[q] = orders[q]
<1>1. proc[s] \in Jobs /\ proc \in [Slots -> Jobs] BY DEF JobsOK
<1>2. ~Seen(Head(proc[s].cands)) BY DEF Seen
<1>3. PICK a \in Answers[Head(proc[s].cands)] :
        /\ proc' = [proc EXCEPT ![s].pc = "record", ![s].answer = a]
        /\ \E fate \in Fates(a) : /\ orders' = [orders EXCEPT ![Head(proc[s].cands)] = Append(@, fate)]
                                 /\ MisreadAnswer(Head(proc[s].cands), a, fate)
  BY <1>2 DEF Call
<1>0. PICK fate \in Fates(a) : /\ orders' = [orders EXCEPT ![Head(proc[s].cands)] = Append(@, fate)]
                              /\ MisreadAnswer(Head(proc[s].cands), a, fate)
  BY <1>3
<1>4. Head(proc[s].cands) \in Providers BY InHand DEF Call, HeadPc
<1>5. Append(<<>>, fate) = <<fate>> OBVIOUS
<1>6. orders'[Head(proc[s].cands)] = <<fate>>
      /\ \A q \in Providers : q # Head(proc[s].cands) => orders'[q] = orders[q]
  BY <1>0, <1>4, <1>5 DEF OrdersOK
<1>7. /\ proc'[s].pc = "record" /\ proc'[s].answer = a /\ proc'[s].cands = proc[s].cands
      /\ proc'[s].unsure = proc[s].unsure /\ proc'[s].kind = proc[s].kind
  BY <1>1, <1>3 DEF Jobs
<1> QED BY <1>0, <1>6, <1>7

LEMMA RouteOrderTail ==
  ASSUME NEW list \in Seq(Providers), list # <<>>, InRouteOrder(list)
  PROVE  /\ InRouteOrder(Tail(list))
         /\ \A i \in DOMAIN Tail(list) : /\ Tail(list)[i] = list[i + 1] /\ i + 1 \in DOMAIN list
                                         /\ i + 1 > 1
         /\ Head(list) = list[1] /\ 1 \in DOMAIN list
<1>1. /\ DOMAIN list = 1..Len(list) /\ Len(list) \in Nat \ {0}
      /\ DOMAIN Tail(list) = 1..(Len(list) - 1)
  OBVIOUS
<1>2. \A i \in DOMAIN Tail(list) :
        Tail(list)[i] = list[i + 1] /\ i + 1 \in DOMAIN list /\ i \in Nat /\ i + 1 > 1
  BY <1>1
<1>3. ASSUME NEW i \in DOMAIN Tail(list), NEW j \in DOMAIN Tail(list), i < j
      PROVE  \E k, l \in DOMAIN Route : k < l /\ Tail(list)[i] = Route[k] /\ Tail(list)[j] = Route[l]
  <2>1. i + 1 < j + 1 BY <1>2, <1>3
  <2> QED BY <1>2, <2>1 DEF InRouteOrder
<1>4. InRouteOrder(Tail(list)) BY <1>3 DEF InRouteOrder
<1> QED BY <1>1, <1>2, <1>4

\* Before the first call: the executions that look at what was asked find nothing.
LEMMA AwareLooking ==
  ASSUME JobsOK, OrdersOK, TypeOK, JobsOK', NEW s \in Slots, Aware(s),
         FindSuccess(s) \/ Resolve(s)
  PROVE  Aware(s)'
<1>1. Unasked /\ UNCHANGED <<attempts, orders>> /\ Unasked'
  BY DEF Aware, FindSuccess, Resolve, Unasked
<1>2. Attempts = {} /\ FailedCodes = {} /\ ~SuccessfulAttempt
  BY <1>1 DEF Unasked, Attempts, FailedCodes, SuccessfulAttempt
<1>3. AllDeclined' /\ \A q \in Providers : orders'[q] = <<>>
  BY <1>1 DEF AllDeclined, Declined, Refused, Unasked
<1>4. proc[s].kind = "purchase"
  <2>1. JobOK(proc[s]) BY DEF JobsOK
  <2> QED BY <2>1 DEF JobOK, FindSuccess, Resolve, PurchasePc, EnginePc
<1>5. CASE FindSuccess(s)
  <2>1. proc'[s].pc = "resolve" /\ proc'[s].kind = "purchase"
    BY <1>2, <1>4, <1>5, GotoIs DEF FindSuccess, AfterFindSuccess
  <2> QED BY <1>1, <2>1 DEF Aware
<1>6. CASE Resolve(s)
  <2>1. PICK eligible \in Eligible : \E cands \in Candidates(eligible \ FailedCodes) :
          /\ proc'[s].cands = cands /\ proc'[s].unsure = FALSE
          /\ proc'[s].pc \in {"call", "refund"} /\ proc'[s].kind = proc[s].kind
    BY <1>2, <1>6, ResolveIs
  <2>2. PICK cands \in Candidates(eligible \ FailedCodes) :
          /\ proc'[s].cands = cands /\ proc'[s].unsure = FALSE
          /\ proc'[s].pc \in {"call", "refund"} /\ proc'[s].kind = proc[s].kind
    BY <2>1
  <2>3. InRouteOrder(cands) BY DEF Candidates
  <2>4. \A i \in DOMAIN cands : cands[i] \in Providers
    <3>1. cands \in Seq(Providers) BY CandidatesAre
    <3> QED BY <3>1
  <2> QED BY <1>3, <1>4, <2>2, <2>3, <2>4 DEF Aware
<1> QED BY <1>5, <1>6

LEMMA AwareCall ==
  ASSUME JobsOK, OrdersOK, NEW s \in Slots, Aware(s), Call(s)
  PROVE  Aware(s)'
<1> DEFINE h == Head(proc[s].cands)
<1>1. proc[s] \in Jobs /\ JobOK(proc[s]) /\ proc[s].pc = "call" BY DEF JobsOK, Call
<1>2. proc[s].kind = "purchase" /\ proc[s].cands # <<>> /\ proc[s].cands \in Seq(Providers)
  BY <1>1 DEF JobOK, Jobs, HeadPc, PurchasePc, EnginePc
<1>3. InRouteOrder(proc[s].cands) BY <1>1 DEF Aware
<1>4. h = proc[s].cands[1] /\ 1 \in DOMAIN proc[s].cands /\ h \in Providers
  BY <1>2, <1>3, RouteOrderTail
<1>5. orders[h] = <<>> BY <1>1, <1>4 DEF Aware
<1>6. PICK a \in Answers[h] :
        /\ proc'[s].pc = "record" /\ proc'[s].answer = a /\ proc'[s].cands = proc[s].cands
        /\ proc'[s].unsure = proc[s].unsure /\ proc'[s].kind = proc[s].kind
        /\ \E fate \in Fates(a) : orders'[h] = <<fate>> /\ MisreadAnswer(h, a, fate)
        /\ \A q \in Providers : q # h => orders'[q] = orders[q]
  BY <1>5, CallIs
<1>0. PICK fate \in Fates(a) : orders'[h] = <<fate>> /\ MisreadAnswer(h, a, fate) BY <1>6
<1>7. \A i \in DOMAIN proc[s].cands : i > 1 => proc[s].cands[i] # h
  <2>1. \A i \in DOMAIN proc[s].cands : i > 1 =>
          \E k, l \in DOMAIN Route : k < l /\ h = Route[k] /\ proc[s].cands[i] = Route[l]
    BY <1>3, <1>4 DEF InRouteOrder
  <2>2. DOMAIN Route = 1..Len(Route) /\ Len(Route) \in Nat BY RouteAssumption
  <2> QED BY <2>1, <2>2, RouteAssumption
<1>8. \A i \in DOMAIN proc[s].cands : i > 1 => orders'[proc[s].cands[i]] = <<>>
  <2>1. \A i \in DOMAIN proc[s].cands : proc[s].cands[i] \in Providers BY <1>2
  <2> QED BY <1>1, <1>6, <1>7, <2>1 DEF Aware
<1>9. proc[s].unsure \/ OthersDeclined(h)'
  <2>1. proc[s].unsure \/ AllDeclined BY <1>1 DEF Aware
  <2>2. misread \subseteq misread' BY <1>0 DEF MisreadAnswer
  <2> QED BY <1>6, <2>1, <2>2 DEF AllDeclined, OthersDeclined, Declined, Refused
<1>10. a = "ok" => Delivered(h)'
  <2>1. a = "ok" => orders'[h] = <<"delivered">> BY <1>0 DEF Fates
  <2>2. 1 \in DOMAIN <<"delivered">> /\ <<"delivered">>[1] = "delivered" OBVIOUS
  <2> QED BY <1>6, <2>1, <2>2 DEF Delivered
<1>11. a \in {"error", "invalid", "blank"} => Declined(h)'
  <2>1. CASE fate = "rejected"
    <3>1. orders'[h] = <<"rejected">> BY <1>0, <2>1
    <3>2. \A i \in DOMAIN <<"rejected">> : <<"rejected">>[i] = "rejected" OBVIOUS
    <3> QED BY <1>6, <3>1, <3>2 DEF Declined, Refused
  <2>2. CASE fate # "rejected"
    <3>1. a \in {"error", "invalid", "blank"} => h \in misread'
      BY <1>0, <2>2 DEF MisreadAnswer
    <3> QED BY <1>6, <3>1 DEF Declined
  <2> QED BY <2>1, <2>2
<1>12. \A i \in DOMAIN proc[s].cands : proc[s].unsure => "pending" \notin Answers[proc[s].cands[i]]
  BY <1>1 DEF Aware
<1> QED BY <1>2, <1>3, <1>6, <1>8, <1>9, <1>10, <1>11, <1>12 DEF Aware

\* What the engine decides after an answer.
LEMMA DecideIs ==
  ASSUME NEW p \in Jobs
  PROVE  LET unsure == p.unsure \/ Ambiguous(p.answer) IN
         /\ Decide(p).kind = p.kind /\ Decide(p).detached = p.detached
         /\ \/ p.answer = "ok" /\ Decide(p).pc = "succeed" /\ Decide(p).cands = p.cands
            \/ p.answer = "pending" /\ Decide(p).pc = "pend" /\ Decide(p).cands = p.cands
            \/ /\ p.answer \notin {"ok", "pending"} /\ (p.answer = "invalid" \/ Tail(p.cands) = <<>>)
               /\ Decide(p).pc = IF unsure THEN "review" ELSE "refund"
            \/ /\ p.answer \notin {"ok", "pending"} /\ Tail(p.cands) # <<>>
               /\ Decide(p).pc = "call" /\ Decide(p).cands = Tail(p.cands)
               /\ Decide(p).unsure = unsure
<1> DEFINE unsure == p.unsure \/ Ambiguous(p.answer)
<1> HIDE DEF unsure
<1>1. Decide(p) = Outcome(p, unsure) BY DEF Decide, unsure
<1>2. CASE p.answer = "ok"
  <2>1. Outcome(p, unsure) = [p EXCEPT !.pc = "succeed"] BY <1>2 DEF Outcome
  <2> QED BY <1>1, <1>2, <2>1 DEF Jobs
<1>3. CASE p.answer = "pending"
  <2>1. Outcome(p, unsure) = [p EXCEPT !.pc = "pend"] BY <1>3 DEF Outcome
  <2> QED BY <1>1, <1>3, <2>1 DEF Jobs
<1>4. CASE p.answer \notin {"ok", "pending"} /\ (p.answer = "invalid" \/ Tail(p.cands) = <<>>)
  <2>1. Outcome(p, unsure) = [p EXCEPT !.pc = IF unsure THEN "review" ELSE "refund"]
    BY <1>4 DEF Outcome
  <2> QED BY <1>1, <1>4, <2>1 DEF Jobs, unsure
<1>5. CASE p.answer \notin {"ok", "pending"} /\ ~(p.answer = "invalid" \/ Tail(p.cands) = <<>>)
  <2>1. Outcome(p, unsure) =
          [p EXCEPT !.pc = "call", !.cands = Tail(p.cands), !.unsure = unsure, !.answer = "none"]
    BY <1>5 DEF Outcome
  <2>2. unsure \in BOOLEAN BY DEF unsure, Ambiguous, Jobs
  <2>3. /\ Decide(p).pc = "call" /\ Decide(p).cands = Tail(p.cands) /\ Decide(p).unsure = unsure
        /\ Decide(p).kind = p.kind /\ Decide(p).detached = p.detached
    BY <1>1, <2>1, <2>2 DEF Jobs
  <2> QED BY <1>5, <2>3 DEF unsure
<1> QED BY <1>2, <1>3, <1>4, <1>5

LEMMA AwareRecord ==
  ASSUME NoBlindWait, JobsOK, NEW s \in Slots, Aware(s), RecordAttempt(s)
  PROVE  Aware(s)'
<1> DEFINE h == Head(proc[s].cands)
           rest == Tail(proc[s].cands)
           unsure == proc[s].unsure \/ Ambiguous(proc[s].answer)
<1>1. proc[s] \in Jobs /\ JobOK(proc[s]) /\ proc[s].pc = "record" BY DEF JobsOK, RecordAttempt
<1>2. proc[s].kind = "purchase" /\ proc[s].cands # <<>> /\ proc[s].cands \in Seq(Providers)
  BY <1>1 DEF JobOK, Jobs, HeadPc, PurchasePc, EnginePc
<1>3. /\ InRouteOrder(proc[s].cands) /\ InRouteOrder(rest)
      /\ \A i \in DOMAIN rest : /\ rest[i] = proc[s].cands[i + 1] /\ i + 1 \in DOMAIN proc[s].cands
                                /\ i + 1 > 1
      /\ h = proc[s].cands[1] /\ 1 \in DOMAIN proc[s].cands
  BY <1>1, <1>2, RouteOrderTail DEF Aware
<1>4. proc'[s] = Decide(proc[s]) /\ UNCHANGED <<orders, misread>>
  BY DEF RecordAttempt, JobsOK
<1>5. /\ proc[s].answer \in Answers[h] /\ (proc[s].unsure \/ OthersDeclined(h))
      /\ proc[s].answer = "ok" => Delivered(h)
      /\ proc[s].answer \in {"error", "invalid", "blank"} => Declined(h)
      /\ proc[s].unsure => "pending" \notin Answers[h]
  BY <1>1, <1>3 DEF Aware
<1>6. h \in Providers /\ proc[s].answer \in KnownAnswers
  <2>1. h \in Providers BY <1>2
  <2> QED BY <1>5, <2>1, SettingsAssumption
<1>7. ~unsure /\ proc[s].answer \notin {"ok", "pending"} => AllDeclined
  BY <1>5, <1>6 DEF KnownAnswers, Ambiguous, Class, AllDeclined, OthersDeclined
<1>8. unsure => \A i \in DOMAIN rest : "pending" \notin Answers[rest[i]]
  <2>1. CASE proc[s].unsure BY <1>1, <1>3, <2>1 DEF Aware
  <2>2. CASE proc[s].answer = "timeout"
    <3>1. ASSUME NEW i \in DOMAIN rest PROVE "pending" \notin Answers[rest[i]]
      <4>1. PICK k, l \in DOMAIN Route : k < l /\ h = Route[k] /\ rest[i] = Route[l]
        BY <1>3 DEF InRouteOrder
      <4> QED BY <1>5, <2>2, <4>1 DEF NoBlindWait
    <3> QED BY <3>1
  <2> QED BY <1>6, <2>1, <2>2 DEF Ambiguous, Class, KnownAnswers
<1>9. \A i \in DOMAIN rest : orders[rest[i]] = <<>> BY <1>1, <1>3 DEF Aware
<1>10. AllDeclined' <=> AllDeclined BY <1>4 DEF AllDeclined, Declined, Refused
<1>11. \A q : (OthersDeclined(q)' <=> OthersDeclined(q)) /\ (Delivered(q)' <=> Delivered(q))
  BY <1>4 DEF OthersDeclined, Declined, Refused, Delivered
<1>12. /\ proc'[s].kind = "purchase"
       /\ \/ proc[s].answer = "ok" /\ proc'[s].pc = "succeed" /\ proc'[s].cands = proc[s].cands
          \/ proc[s].answer = "pending" /\ proc'[s].pc = "pend" /\ proc'[s].cands = proc[s].cands
          \/ /\ proc[s].answer \notin {"ok", "pending"}
             /\ proc'[s].pc = IF unsure THEN "review" ELSE "refund"
          \/ /\ proc[s].answer \notin {"ok", "pending"}
             /\ proc'[s].pc = "call" /\ proc'[s].cands = rest /\ proc'[s].unsure = unsure
  BY <1>1, <1>2, <1>4, DecideIs
<1> HIDE DEF unsure, rest
<1>13. CASE proc[s].answer = "ok" /\ proc'[s].pc = "succeed" /\ proc'[s].cands = proc[s].cands
  BY <1>5, <1>11, <1>12, <1>13 DEF Aware
<1>14. CASE proc[s].answer = "pending" /\ proc'[s].pc = "pend" /\ proc'[s].cands = proc[s].cands
  BY <1>5, <1>11, <1>12, <1>14 DEF Aware
<1>15. CASE /\ proc[s].answer \notin {"ok", "pending"}
            /\ proc'[s].pc = IF unsure THEN "review" ELSE "refund"
  BY <1>7, <1>10, <1>12, <1>15 DEF Aware
<1>16. CASE /\ proc[s].answer \notin {"ok", "pending"}
            /\ proc'[s].pc = "call" /\ proc'[s].cands = rest /\ proc'[s].unsure = unsure
  BY <1>3, <1>4, <1>7, <1>8, <1>9, <1>10, <1>12, <1>16 DEF Aware
<1> QED BY <1>12, <1>13, <1>14, <1>15, <1>16

LEMMA AwareWorker ==
  ASSUME Calm, NoBlindWait, JobsOK, JobsOK', OrdersOK, TypeOK, tx \in Row, InTurn,
         AskedOnce, \A s \in Slots : Aware(s), service = "vtu", NEW s \in Slots, Worker(s)
  PROVE  Aware(s)' /\ (EnqueueVerify(s) => \A t \in Slots : t = FreeSlot => Aware(t)')
<1>1. proc[s] \in Jobs /\ JobOK(proc[s]) /\ Aware(s) BY DEF JobsOK
<1>2. proc[s].pc \notin Resting => proc[s].pc \notin Astray /\ tx.status \in InFlight
  BY DEF InTurn
<1>3. proc[s].pc \notin Astray BY <1>2 DEF Astray, Resting, DeadPc
<1>4. UNCHANGED orders => /\ AllDeclined => AllDeclined'
                          /\ \A q : OthersDeclined(q) => OthersDeclined(q)'
                          /\ \A q : Delivered(q)' <=> Delivered(q)
  <2>1. misread \subseteq misread' BY MisreadGrows DEF Next
  <2> QED BY <2>1 DEF AllDeclined, OthersDeclined, Declined, Refused, Delivered
<1>5. UNCHANGED <<orders, attempts>> => (Unasked' <=> Unasked) BY DEF Unasked
<1>6. Free.pc = "free" BY DEF Free
<1>7. CASE Start(s)
  <2>1. /\ proc[s].pc = "waiting" /\ Goto(s, IF proc[s].kind = "verify" THEN "verifyLoad" ELSE "load")
        /\ UNCHANGED <<orders, attempts>>
    BY <1>7 DEF Start
  <2>2. /\ proc'[s].pc = IF proc[s].kind = "verify" THEN "verifyLoad" ELSE "load"
        /\ proc'[s].kind = proc[s].kind /\ proc'[s].at = proc[s].at
    BY <2>1, GotoIs
  <2>3. proc[s].kind \in {"purchase", "verify"} BY <1>1, <2>1 DEF JobOK, Jobs, Free
  <2> QED BY <1>1, <1>4, <1>5, <1>7, <2>1, <2>2, <2>3 DEF Aware, EnqueueVerify
<1>8. CASE LoadTransaction(s) \/ MarkProcessing(s)
  <2>1. UNCHANGED <<orders, attempts>> /\ proc[s].pc \in {"load", "mark"}
    BY <1>8 DEF LoadTransaction, MarkProcessing
  <2>2. Goto(s, "mark") \/ Goto(s, "findSuccess")
    BY <1>2, <1>8 DEF LoadTransaction, MarkProcessing, Skippable, InFlight, Final, Resting
  <2>3. proc'[s].pc \in {"mark", "findSuccess"} /\ proc'[s].kind = proc[s].kind
    BY <2>2, GotoIs
  <2>4. proc[s].kind = "purchase" BY <1>1, <2>1 DEF JobOK, PurchasePc
  <2> QED BY <1>1, <1>5, <2>1, <2>3, <2>4 DEF Aware, EnqueueVerify
<1>9. CASE FindSuccess(s) \/ Resolve(s) BY <1>1, <1>9, AwareLooking DEF FindSuccess, Resolve, EnqueueVerify
<1>10. CASE Call(s) BY <1>1, <1>10, AwareCall DEF Call, EnqueueVerify
<1>11. CASE RecordAttempt(s) BY <1>1, <1>11, AwareRecord DEF RecordAttempt, EnqueueVerify
<1>12. CASE ReplayRead(s) \/ ReplayWrite(s) BY <1>1, <1>12 DEF ReplayRead, ReplayWrite, Aware
<1>13. CASE HandleSuccess(s) \/ HandleRequiresReview(s) \/ MarkFailed(s)
  BY <1>13, GotoIs, AtRest
     DEF HandleSuccess, HandleRequiresReview, MarkFailed, Resting, EnqueueVerify
<1>14. CASE HandlePending(s) \/ HandleAllFailed(s)
  <2>1. UNCHANGED orders /\ proc[s].pc \in {"pend", "refund"}
    BY <1>14 DEF HandlePending, HandleAllFailed, Refund
  <2>2. /\ proc'[s].pc = IF proc[s].pc = "pend" THEN "enqueue" ELSE "fail"
        /\ proc'[s].kind = proc[s].kind /\ proc'[s].cands = proc[s].cands
    BY <1>14, GotoIs DEF HandlePending, HandleAllFailed, Refund
  <2>3. proc[s].kind = "purchase" BY <1>1, <2>1 DEF JobOK, PurchasePc, EnginePc
  <2> QED BY <1>1, <1>4, <2>1, <2>2, <2>3 DEF Aware, EnqueueVerify
<1>15. CASE EnqueueVerify(s)
  <2>1. UNCHANGED orders /\ proc[s].pc = "enqueue" BY <1>15 DEF EnqueueVerify
  <2>2. /\ FreeSlot \in Slots /\ proc'[s].pc = "complete"
        /\ proc'[FreeSlot].pc = "waiting" /\ proc'[FreeSlot].kind = "verify"
        /\ proc'[FreeSlot].at = Head(proc[s].cands)
    BY <1>15, EnqueueVerifyIs
  <2>3. Aware(s)' BY <2>2, AtRest DEF Resting
  <2> DEFINE t == FreeSlot
             h == Head(proc[s].cands)
  <2>4. t \in Slots /\ proc'[t].pc = "waiting" /\ proc'[t].kind = "verify" /\ proc'[t].at = h
    BY <2>2
  <2>5. OthersDeclined(h) BY <1>1, <2>1 DEF Aware
  <2>6. \A q : OthersDeclined(q) => OthersDeclined(q)' BY <1>4, <2>1
  <2> HIDE DEF t, h
  <2>7. \A u \in Slots : u = t => Aware(u)' BY <2>4, <2>5, <2>6 DEF Aware
  <2> QED BY <2>3, <2>4, <2>7 DEF t
<1>16. CASE Complete(s)
  <2>1. proc'[s].pc = "free" BY <1>6, <1>16, FinishIs DEF Complete
  <2> QED BY <1>16, <2>1, AtRest DEF Resting, Complete, EnqueueVerify
<1>17. CASE VerifySucceeded(s) \/ FinalizeRequiresReview(s) \/ VerifyFailed(s)
  <2>1. proc'[s].pc = "free"
    BY <1>6, <1>17, FinishIs DEF VerifySucceeded, FinalizeRequiresReview, VerifyFailed
  <2> QED BY <1>17, <2>1, AtRest
          DEF Resting, VerifySucceeded, FinalizeRequiresReview, VerifyFailed, EnqueueVerify
<1>18. CASE VerifyLoad(s) \/ FinalizeFailed(s)
  <2>1. UNCHANGED orders /\ proc[s].pc \in {"verifyLoad", "verifyRefund"}
    BY <1>18 DEF VerifyLoad, FinalizeFailed, Refund
  <2>2. Goto(s, IF proc[s].pc = "verifyLoad" THEN "verify" ELSE "verifyFail")
    BY <1>2, <1>18 DEF VerifyLoad, FinalizeFailed, Refund, InFlight, Final, Resting
  <2>3. /\ proc'[s].pc = IF proc[s].pc = "verifyLoad" THEN "verify" ELSE "verifyFail"
        /\ proc'[s].kind = proc[s].kind /\ proc'[s].at = proc[s].at
    BY <2>2, GotoIs
  <2>4. proc[s].kind = "verify" BY <1>1, <2>1 DEF JobOK, VerifyPc
  <2> QED BY <1>1, <1>4, <2>1, <2>3, <2>4 DEF Aware, EnqueueVerify
<1>19. CASE VerifyTransaction(s)
  <2>1. PICK verdict \in Verdicts(proc[s].at, LostByReference) :
          Goto(s, AfterPoll(verdict, proc[s].polls)) /\ MisreadVerdict(proc[s].at, verdict)
    BY <1>19, VerifyTransactionIs
  <2>2. UNCHANGED orders /\ proc[s].pc = "verify" BY <1>19 DEF VerifyTransaction
  <2>3. proc[s].kind = "verify" /\ proc[s].at \in Providers BY <1>1, <2>2 DEF JobOK, VerifyPc
  <2>4. /\ proc'[s].pc = AfterPoll(verdict, proc[s].polls)
        /\ proc'[s].kind = "verify" /\ proc'[s].at = proc[s].at
    BY <2>1, <2>3, GotoIs
  <2>5. OthersDeclined(proc[s].at) BY <1>1, <2>3 DEF Aware
  <2>6. verdict = "delivered" => Delivered(proc[s].at)
    BY <2>1, <2>3, VerdictsAre
  <2>7. verdict = "rejected" => AllDeclined'
    <3>1. verdict = "rejected" => Declined(proc[s].at)'
      <4>1. verdict = "rejected" =>
              \/ proc[s].at \in misread'
              \/ \E i \in DOMAIN orders[proc[s].at] : orders[proc[s].at][i] = "rejected"
        BY <2>1, <2>3, VerdictsAre
      <4>2. \A i \in DOMAIN orders[proc[s].at] : i = 1 BY <2>3 DEF AskedOnce
      <4> QED BY <2>2, <2>4, <4>1, <4>2 DEF Declined, Refused
    <3>2. OthersDeclined(proc[s].at)'
      <4>1. misread \subseteq misread' BY MisreadGrows DEF Next
      <4> QED BY <2>2, <2>4, <2>5, <4>1 DEF OthersDeclined, Declined, Refused
    <3> QED BY <3>1, <3>2 DEF AllDeclined, OthersDeclined
  <2>8. /\ proc'[s].pc \in {"verifySucceed", "verifyRefund", "verifyReview", "requeue"}
        /\ proc'[s].pc = "verifySucceed" => verdict = "delivered"
        /\ proc'[s].pc = "verifyRefund" => verdict = "rejected"
    BY <2>4 DEF AfterPoll
  <2> QED BY <1>4, <1>19, <2>2, <2>4, <2>5, <2>6, <2>7, <2>8 DEF Aware, EnqueueVerify
<1>20. CASE RequeueVerify(s)
  <2>1. UNCHANGED orders /\ proc[s].pc = "requeue" BY <1>20 DEF RequeueVerify
  <2>2. proc[s].kind = "verify" BY <1>1, <2>1 DEF JobOK, VerifyPc
  <2>3. \A q, n : VerifyJob(q, n).kind = "verify" /\ VerifyJob(q, n).pc = "waiting"
                  /\ VerifyJob(q, n).at = q
    BY DEF VerifyJob, Free
  <2>4. proc'[s].kind = "verify" /\ proc'[s].pc = "waiting" /\ proc'[s].at = proc[s].at
    BY <1>20, <2>3 DEF RequeueVerify, JobsOK
  <2> QED BY <1>1, <1>4, <2>1, <2>2, <2>4 DEF Aware, EnqueueVerify
<1>21. CASE \/ SafetyNetRead(s) \/ SafetyNetWrite(s) \/ TimeoutRead(s) \/ TimeoutWrite(s)
            \/ RecordFailedJob(s) \/ DeadLetterRead(s) \/ DeadLetterWrite(s)
  BY <1>3, <1>21 DEF SafetyNetRead, SafetyNetWrite, TimeoutRead, TimeoutWrite, RecordFailedJob,
     DeadLetterRead, DeadLetterWrite, Astray, DeadPc
<1> QED BY <1>7, <1>8, <1>9, <1>10, <1>11, <1>12, <1>13, <1>14, <1>15, <1>16, <1>17, <1>18,
           <1>19, <1>20, <1>21 DEF Worker

\* The steps of a worker that write the row.
LEMMA RowWriters ==
  ASSUME NEW s \in Slots, Worker(s)
  PROVE  \/ UNCHANGED tx
         \/ MarkProcessing(s) \/ HandlePending(s)
         \/ ReplayWrite(s) \/ HandleSuccess(s) \/ HandleRequiresReview(s) \/ MarkFailed(s)
         \/ VerifySucceeded(s) \/ FinalizeRequiresReview(s) \/ VerifyFailed(s)
         \/ SafetyNetWrite(s) \/ TimeoutWrite(s) \/ DeadLetterWrite(s)
BY DEF Worker, Start, LoadTransaction, FindSuccess, ReplayRead, Resolve, Call, RecordAttempt,
   EnqueueVerify, HandleAllFailed, Complete, SafetyNetRead, TimeoutRead, RecordFailedJob,
   DeadLetterRead, VerifyLoad, VerifyTransaction, RequeueVerify, FinalizeFailed, Refund

LEMMA TruthfulWorker ==
  ASSUME Calm, JobsOK, OrdersOK, TypeOK, tx \in Row, InTurn, Truthful,
         \A s \in Slots : Aware(s), service = "vtu", NEW s \in Slots, Worker(s)
  PROVE  Truthful'
<1> USE DEF InFlight, Ended, Final
<1>1. proc[s] \in Jobs /\ JobOK(proc[s]) /\ Aware(s) BY DEF JobsOK
<1>2. proc[s].pc \notin Resting => proc[s].pc \notin Astray /\ tx.status \in InFlight
  BY DEF InTurn
<1>3. CASE Ends(s) /\ ~HandsOver(s)
  <2>1. /\ tx.status \in InFlight /\ tx'.status \in Ended /\ UNCHANGED ledger
        /\ proc[s].pc \notin Astray
    BY <1>2, <1>3 DEF Ends
  <2>2. \/ HandleSuccess(s) \/ HandleRequiresReview(s) \/ MarkFailed(s)
        \/ VerifySucceeded(s) \/ FinalizeRequiresReview(s) \/ VerifyFailed(s)
    <3>1. tx' # tx BY <2>1
    <3>2. ~ReplayWrite(s) BY <1>1 DEF ReplayWrite, Aware
    <3>3. ~SafetyNetWrite(s) /\ ~TimeoutWrite(s) /\ ~DeadLetterWrite(s)
      BY <2>1 DEF SafetyNetWrite, TimeoutWrite, DeadLetterWrite, Astray, DeadPc
    <3>4. ~MarkProcessing(s) /\ ~HandlePending(s)
      BY <2>1, Written DEF MarkProcessing, HandlePending
    <3> QED BY <3>1, <3>2, <3>3, <3>4, RowWriters
  <2>3. CASE HandleSuccess(s) \/ VerifySucceeded(s)
    <3>1. tx'.status = "successful" /\ UNCHANGED orders
      BY <2>3, Written DEF HandleSuccess, VerifySucceeded
    <3>2. \E p \in Providers : Delivered(p)
      <4>1. CASE HandleSuccess(s)
        BY <1>1, <4>1, InHand DEF HandleSuccess, Aware, HeadPc
      <4>2. CASE VerifySucceeded(s)
        BY <1>1, <4>2, InHand DEF VerifySucceeded, Aware, VerifyPc
      <4> QED BY <2>3, <4>1, <4>2
    <3>3. Refunded \notin ledger
      BY <1>3, <2>3 DEF Ends, InTurn, HandleSuccess, VerifySucceeded
    <3> QED BY <2>1, <3>1, <3>2, <3>3 DEF Truthful, Delivered
  <2>4. CASE MarkFailed(s) \/ VerifyFailed(s)
    <3>1. tx'.status = "failed" /\ UNCHANGED orders
      BY <2>4, Written DEF MarkFailed, VerifyFailed
    <3>2. AllDeclined BY <1>1, <2>4 DEF MarkFailed, VerifyFailed, Aware
    <3>3. misread \subseteq misread' BY MisreadGrows DEF Next
    <3> QED BY <2>1, <3>1, <3>2, <3>3 DEF Truthful, AllDeclined, Declined, Refused
  <2>5. CASE HandleRequiresReview(s) \/ FinalizeRequiresReview(s)
    <3>1. tx'.status = "requires_review"
      BY <2>5, Written DEF HandleRequiresReview, FinalizeRequiresReview
    <3> QED BY <3>1 DEF Truthful
  <2> QED BY <2>2, <2>3, <2>4, <2>5
<1>4. CASE GoesOn(s)
  <2>1. tx'.status \in InFlight /\ proc'[s].pc \notin Resting BY <1>4 DEF GoesOn
  <2> QED BY <2>1 DEF Truthful
<1>5. CASE HandsOver(s)
  <2>1. proc[s].pc = "enqueue" /\ UNCHANGED tx BY <1>5 DEF HandsOver, EnqueueVerify
  <2>2. tx'.status \in InFlight BY <1>2, <2>1 DEF Resting
  <2>3. FreeSlot \in Slots /\ proc'[FreeSlot].pc = "waiting"
    BY <1>5, EnqueueVerifyIs DEF HandsOver
  <2> DEFINE t == FreeSlot
  <2>4. t \in Slots /\ proc'[t].pc \notin Resting BY <2>3 DEF Resting
  <2> HIDE DEF t
  <2> QED BY <2>2, <2>4 DEF Truthful
<1>6. CASE Leaves(s) /\ ~HandsOver(s)
  <2>1. UNCHANGED <<tx, ledger>> /\ proc[s].pc \in Resting /\ proc'[s].pc \in Resting
    BY <1>6 DEF Leaves, Resting
  <2>2. \A t \in Slots : t # s => proc'[t] = proc[t] BY <1>6, CalmStep
  <2>3. UNCHANGED <<orders, api>>
    <3>1. ~Call(s) BY <1>6 DEF Leaves, Call
    <3>2. UNCHANGED orders BY <3>1, SlotUntouched
    <3> QED BY <3>2, Busy
  <2>4. (\A t \in Slots : proc'[t].pc \in Resting) => \A t \in Slots : proc[t].pc \in Resting
    BY <2>1, <2>2
  <2>5. (\E p \in Providers : Delivered(p)) => (\E p \in Providers : Delivered(p))'
    BY <2>3 DEF Delivered
  <2>6. AllDeclined => AllDeclined'
    <3>1. misread \subseteq misread' BY MisreadGrows DEF Next
    <3> QED BY <2>3, <3>1 DEF AllDeclined, Declined, Refused
  <2> QED BY <2>1, <2>3, <2>4, <2>5, <2>6 DEF Truthful
<1> QED BY <1>3, <1>4, <1>5, <1>6, CalmStep

LEMMA AskedOnceKept ==
  ASSUME JobsOK, OrdersOK, AskedOnce, NEW s \in Slots, Worker(s), Aware(s) PROVE AskedOnce'
<1>1. CASE Call(s)
  <2>1. proc[s] \in Jobs /\ JobOK(proc[s]) /\ proc[s].pc = "call" BY <1>1 DEF JobsOK, Call
  <2>2. proc[s].cands # <<>> /\ proc[s].cands \in Seq(Providers)
    BY <2>1 DEF JobOK, Jobs, HeadPc
  <2>3. Head(proc[s].cands) = proc[s].cands[1] /\ 1 \in DOMAIN proc[s].cands BY <2>2
  <2>4. orders[Head(proc[s].cands)] = <<>> BY <2>1, <2>3 DEF Aware
  <2>5. PICK fate : orders'[Head(proc[s].cands)] = <<fate>>
                    /\ \A q \in Providers : q # Head(proc[s].cands) => orders'[q] = orders[q]
    BY <1>1, <2>4, CallIs
  <2>6. \A i \in DOMAIN <<fate>> : i = 1 OBVIOUS
  <2> QED BY <2>5, <2>6 DEF AskedOnce
<1>2. CASE ~Call(s)
  <2>1. UNCHANGED orders BY <1>2, SlotUntouched
  <2> QED BY <2>1 DEF AskedOnce
<1> QED BY <1>1, <1>2

LEMMA TruthWorker ==
  ASSUME Calm, NoBlindWait, JobsOK, JobsOK', OrdersOK, TypeOK, tx \in Row, InTurn, TruthInv,
         service = "vtu", NEW s \in Slots, Worker(s)
  PROVE  TruthInv'
<1>1. api = "done" /\ api' = "done"
  <2>1. proc[s].pc # "free" /\ api' = api BY Busy
  <2> QED BY <2>1 DEF InTurn, Free
<1>2. AskedOnce' BY AskedOnceKept DEF TruthInv
<1>3. Truthful' BY TruthfulWorker DEF TruthInv
<1>4. ASSUME NEW t \in Slots PROVE Aware(t)'
  <2>1. CASE t = s BY <2>1, AwareWorker DEF TruthInv
  <2>2. CASE t = FreeSlot /\ EnqueueVerify(s) BY <2>2, AwareWorker DEF TruthInv
  <2>3. CASE t # s /\ ~(t = FreeSlot /\ EnqueueVerify(s))
    <3>1. proc'[t] = proc[t]
      BY <2>3, CalmStep, EnqueueVerifyIs DEF HandsOver
    <3>2. CASE proc[s].pc \notin Resting
      BY <2>3, <3>1, <3>2, AtRest DEF InTurn
    <3>3. CASE proc[s].pc \in Resting
      <4>1. UNCHANGED <<orders, attempts>>
        BY <3>3, SlotUntouched DEF Call, RecordAttempt, Resting
      <4>2. \A q \in Providers : (Declined(q) => Declined(q)') /\ (Delivered(q) => Delivered(q)')
        <5>1. misread \subseteq misread' BY MisreadGrows DEF Next
        <5> QED BY <4>1, <5>1 DEF Declined, Refused, Delivered
      <4>3. Aware(t) /\ JobOK(proc[t]) /\ proc[t] \in Jobs BY DEF TruthInv, JobsOK
      <4> QED BY <3>1, <4>1, <4>2, <4>3, AwareKept
    <3> QED BY <3>2, <3>3
  <2> QED BY <2>1, <2>2, <2>3
<1> QED BY <1>1, <1>2, <1>3, <1>4 DEF TruthInv

LEMMA TruthPreserved ==
  ASSUME Calm, NoBlindWait, SoundInv, SoundInv', InTurn, TruthInv, service = "vtu", [Next]_vars
  PROVE  TruthInv'
<1>1. JobsOK /\ JobsOK' /\ OrdersOK /\ TypeOK /\ tx \in Row BY TypeOKParts DEF SoundInv
<1>2. ASSUME UNCHANGED <<orders, attempts>>, NEW t \in Slots, proc'[t] = proc[t] PROVE Aware(t)'
  <2>1. \A q \in Providers : (Declined(q) => Declined(q)') /\ (Delivered(q) => Delivered(q)')
    BY <1>1, <1>2, MisreadGrows DEF Declined, Refused, Delivered
  <2>2. Aware(t) /\ JobOK(proc[t]) /\ proc[t] \in Jobs BY <1>1 DEF TruthInv, JobsOK
  <2> QED BY <1>1, <1>2, <2>1, <2>2, AwareKept
<1>3. UNCHANGED <<orders, attempts>> =>
        /\ AskedOnce' /\ (Unasked' <=> Unasked) /\ (AllDeclined => AllDeclined')
        /\ (\E p \in Providers : Delivered(p))' <=> \E p \in Providers : Delivered(p)
  BY <1>1, MisreadGrows DEF TruthInv, AskedOnce, Unasked, AllDeclined, Declined, Refused, Delivered
<1>4. CASE UNCHANGED vars
  BY <1>2, <1>3, <1>4 DEF vars, TruthInv, Truthful
<1>5. CASE Debit \/ CreateTransaction
  <2>1. /\ api # "done" /\ api' # "done" /\ UNCHANGED <<orders, attempts, proc>>
        /\ tx'.status \in {"none", "pending"}
    <3>1. CASE Debit
      BY <3>1 DEF Debit, InTurn
    <3>2. CASE CreateTransaction
      BY <1>1, <3>2, Written DEF CreateTransaction
    <3> QED BY <1>5, <3>1, <3>2
  <2>2. Truthful' BY <2>1 DEF Truthful
  <2> QED BY <1>2, <1>3, <2>1, <2>2 DEF TruthInv
<1>6. CASE AddJob
  <2>1. /\ UNCHANGED <<tx, orders, attempts, ledger>> /\ FreeSlot \in Slots /\ api = "add"
        /\ proc' = [proc EXCEPT ![FreeSlot] = PurchaseJob(MaxAttempts)]
    BY <1>6, FreeSlotIs DEF AddJob
  <2> DEFINE f == FreeSlot
  <2>2. /\ f \in Slots /\ proc'[f].pc = "waiting" /\ proc'[f].kind = "purchase"
        /\ \A t \in Slots : t # f => proc'[t] = proc[t]
    BY <1>1, <2>1 DEF JobsOK, PurchaseJob, Free
  <2> HIDE DEF f
  <2>3. Unasked' BY <1>3, <2>1 DEF TruthInv
  <2>4. \A t \in Slots : t = f => Aware(t)' BY <2>2, <2>3 DEF Aware
  <2>5. \A t \in Slots : Aware(t)' BY <1>2, <2>1, <2>2, <2>4
  <2>6. Truthful'
    <3>1. tx'.status = "pending" BY <2>1 DEF InTurn
    <3>2. proc'[f].pc \notin Resting BY <2>2 DEF Resting
    <3> QED BY <2>2, <3>1, <3>2 DEF Truthful
  <2>7. api' = "done" BY <1>6 DEF AddJob
  <2> QED BY <1>3, <2>1, <2>5, <2>6, <2>7 DEF TruthInv
<1>7. ASSUME NEW s \in Slots, Worker(s) PROVE TruthInv' BY <1>1, <1>7, TruthWorker
<1>8. CASE \E p \in Providers : \E i \in DOMAIN orders[p] : Settle(p, i)
  BY <1>1, <1>8, TruthSettled
<1>9. ~RequestLost /\ ~WorkerCrash /\ \A s \in Slots : ~CallFails(s) /\ ~Timeout(s)
  BY DEF Calm, Mishap, RequestLost, WorkerCrash, CallFails, Timeout
<1> QED BY <1>4, <1>5, <1>6, <1>7, <1>8, <1>9 DEF Next, Controller

\* As long as no call fails and no process dies, and nobody who may say "pending" is
\* asked behind somebody who may time out, the last status of a data purchase is
\* true: successful was delivered and is paid for; failed was refused by everyone,
\* but for those whose adapter said that they had refused it when they had not.
THEOREM CalmStatusIsTrue == ASSUME Calm, NoBlindWait PROVE Spec => []StatusIsTrue
<1> DEFINE Inv == ContractInv /\ TruthInv
<1>1. Init => Inv
  <2> SUFFICES ASSUME Init PROVE Inv OBVIOUS
  <2>1. Free.pc = "free" /\ Free.kind = "free" BY DEF Free
  <2>2. InTurn BY <2>1 DEF Init, InTurn, Resting
  <2>3. ContractInv BY <2>2, SagaStarts DEF ContractInv, Init, OneOfEach
  <2>4. Unasked BY DEF Init, Unasked
  <2>5. AskedOnce BY <2>4 DEF Unasked, AskedOnce
  <2>6. \A s \in Slots : Aware(s) BY <2>1 DEF Init, Aware
  <2>7. Truthful BY DEF Init, Truthful
  <2> QED BY <2>3, <2>4, <2>5, <2>6, <2>7 DEF TruthInv
<1>2. Inv /\ [Next]_vars => Inv'
  <2> SUFFICES ASSUME Inv, [Next]_vars PROVE Inv' OBVIOUS
  <2>1. service = "vtu" BY DEF ContractInv, SoundInv, TypeOK, Calm
  <2>2. OneOfEach' BY LedgerSteps DEF OneOfEach, ContractInv
  <2>3. ContractInv' BY <2>1, <2>2, SagaSound, InTurnPreserved DEF ContractInv
  <2>4. TruthInv' BY <2>1, <2>3, TruthPreserved DEF ContractInv
  <2> QED BY <2>3, <2>4
<1>3. Inv => StatusIsTrue
  <2> SUFFICES ASSUME Inv, Quiet PROVE StatusIsTrue BY DEF StatusIsTrue
  <2>1. \A s \in Slots : proc[s].pc \in Resting BY DEF Quiet, Resting, Free
  <2>2. Refunded \notin ledger => Batches("refund") = {}
    BY DEF ContractInv, OneOfEach, Batches, Debited, Refunded
  <2> QED BY <2>1, <2>2 DEF TruthInv, Truthful, Quiet, StatusIsTrue, Ended, AllDeclined
<1> QED BY <1>1, <1>2, <1>3, PTL DEF Spec

-----------------------------------------------------------------------------
(* With one provider that deduplicates, no mishap gets a delivery refunded.    *)

\* One provider, always usable, which takes the reference for an idempotency key.
SoleProvider == Len(Route) = 1 /\ Eligible = {Providers} /\ Dedupe = Providers

\* The provider has refused the one order it received.
Rejection == \A p \in Providers : orders[p] = <<"rejected">>
\* ... or its adapter said so when it had not.
Denial == Rejection \/ misread # {}

\* A job is about to refund, or about to record a refusal, only when there was one.
Warranted(s) ==
  /\ proc[s].pc \in {"refund", "verifyRefund"} => Denial
  /\ proc[s].pc = "record" =>
       /\ proc[s].answer \in KnownAnswers
       /\ proc[s].answer \notin {"ok", "pending", "timeout"} => Denial
  /\ proc[s].pc \in {"call", "record"} => Len(proc[s].cands) <= 1

WarrantInv ==
  /\ \A p \in Providers : Len(orders[p]) <= 1
  /\ \A s \in Slots : Warranted(s)
  /\ Refunded \in ledger => Denial

LEMMA OneProvider ==
  ASSUME SoleProvider
  PROVE  /\ Providers = {Route[1]} /\ Route[1] \in Providers
         /\ \A usable : \A cands \in Candidates(usable) : Len(cands) <= 1
<1>1. DOMAIN Route = {1} BY RouteAssumption DEF SoleProvider
<1>2. Providers = {Route[1]} BY <1>1 DEF Providers
<1>3. ASSUME NEW usable, NEW cands \in Candidates(usable) PROVE Len(cands) <= 1
  <2>1. PICK n \in 0..Len(Route) : cands \in [1..n -> Providers]
    BY DEF Candidates, CandidateLists
  <2>2. n \in 0..1 BY <2>1 DEF SoleProvider
  <2>3. Len(cands) = n BY <2>1, <2>2
  <2> QED BY <2>2, <2>3
<1> QED BY <1>2, <1>3

\* A refusal is the end of it: the provider answers the reference with it again.
LEMMA RejectionStays ==
  ASSUME SoleProvider, JobsOK, OrdersOK, \A p \in Providers : Len(orders[p]) <= 1, [Next]_vars
  PROVE  (Rejection => Rejection') /\ \A p \in Providers : Len(orders'[p]) <= 1
<1>1. CASE UNCHANGED orders BY <1>1 DEF Rejection
<1>2. ASSUME NEW s \in Slots, Call(s)
      PROVE  (Rejection => Rejection') /\ \A p \in Providers : Len(orders'[p]) <= 1
  <2>1. Head(proc[s].cands) \in Providers BY <1>2, InHand DEF Call, HeadPc
  <2>2. CASE Seen(Head(proc[s].cands)) BY <1>1, <1>2, <2>2 DEF Call
  <2>3. CASE ~Seen(Head(proc[s].cands))
    <3>1. orders[Head(proc[s].cands)] = <<>> BY <2>1, <2>3 DEF Seen, SoleProvider
    <3>2. PICK fate : orders' = [orders EXCEPT ![Head(proc[s].cands)] = Append(@, fate)]
      BY <1>2, <2>3 DEF Call
    <3>3. orders'[Head(proc[s].cands)] = <<fate>>
          /\ \A q \in Providers : q # Head(proc[s].cands) => orders'[q] = orders[q]
      BY <2>1, <3>1, <3>2 DEF OrdersOK
    <3>4. \A f : Len(<<f>>) <= 1 OBVIOUS
    <3>5. ~Rejection BY <2>1, <3>1 DEF Rejection
    <3>6. \A q \in Providers : Len(orders'[q]) <= 1
      <4> SUFFICES ASSUME NEW q \in Providers PROVE Len(orders'[q]) <= 1 OBVIOUS
      <4>1. CASE q = Head(proc[s].cands) BY <3>3, <3>4, <4>1
      <4>2. CASE q # Head(proc[s].cands) BY <3>3, <4>2
      <4> QED BY <4>1, <4>2
    <3> QED BY <3>5, <3>6
  <2> QED BY <2>2, <2>3
<1>3. ASSUME NEW p \in Providers, NEW i \in DOMAIN orders[p], Settle(p, i)
      PROVE  (Rejection => Rejection') /\ \A q \in Providers : Len(orders'[q]) <= 1
  <2>1. ~Rejection
    <3>1. orders[p][i] = "open" BY <1>3 DEF Settle
    <3>2. \A j \in DOMAIN <<"rejected">> : <<"rejected">>[j] = "rejected" OBVIOUS
    <3> QED BY <3>1, <3>2 DEF Rejection
  <2>2. PICK fate \in {"delivered", "rejected"} : orders' = [orders EXCEPT ![p][i] = fate]
    BY <1>3 DEF Settle
  <2>3. \A q \in Providers : Len(orders'[q]) = Len(orders[q])
    BY <2>2 DEF OrdersOK
  <2> QED BY <2>1, <2>3
<1> QED BY <1>1, <1>2, <1>3, Untouched

LEMMA DenialStays ==
  ASSUME SoleProvider, JobsOK, OrdersOK, \A p \in Providers : Len(orders[p]) <= 1, [Next]_vars
  PROVE  Denial => Denial'
BY RejectionStays, MisreadGrows DEF Denial

\* The places where a refund may be due are reached from a look or from a poll.
LEMMA WarrantMoves ==
  ASSUME SoleProvider, JobsOK, OrdersOK, TypeOK, NEW s \in Slots, WarrantInv,
         Looking(s) \/ VerifyTransaction(s)
  PROVE  Warranted(s)'
<1>1. proc[s] \in Jobs /\ JobOK(proc[s]) BY DEF JobsOK
<1>2. CASE FindSuccess(s)
  BY <1>2, LookingIs DEF Looking, Warranted
<1>3. CASE Resolve(s)
  <2>0. PICK eligible \in Eligible : \E cands \in Candidates(eligible \ FailedCodes) :
          proc'[s].cands = cands
          /\ proc'[s].pc = IF cands # <<>> THEN "call"
                           ELSE IF FailedCodes # {} THEN "review" ELSE "refund"
    BY <1>3, ResolveIs
  <2>1. PICK cands \in Candidates(eligible \ FailedCodes) :
          proc'[s].cands = cands
          /\ proc'[s].pc = IF cands # <<>> THEN "call"
                           ELSE IF FailedCodes # {} THEN "review" ELSE "refund"
    BY <2>0
  <2>2. Len(cands) <= 1 BY OneProvider
  <2>3. FailedCodes = {} => cands # <<>>
    <3>1. eligible = Providers /\ Providers # {} BY OneProvider DEF SoleProvider
    <3>2. {cands[i] : i \in DOMAIN cands} = eligible \ FailedCodes BY DEF Candidates
    <3>3. DOMAIN <<>> = {} OBVIOUS
    <3> QED BY <3>1, <3>2, <3>3
  <2> QED BY <2>1, <2>2, <2>3 DEF Warranted
<1>4. CASE Call(s)
  <2> DEFINE h == Head(proc[s].cands)
  <2>1. proc'[s].pc = "record" /\ proc'[s].cands = proc[s].cands /\ proc[s].pc = "call"
    BY <1>4, LookingIs DEF Call, Looking
  <2>2. h \in Providers BY <1>4, InHand DEF Call, HeadPc
  <2>3. Providers = {h} BY <2>2, OneProvider
  <2>4. CASE Seen(h)
    <3>1. proc' = [proc EXCEPT ![s].pc = "record", ![s].answer = Again(orders[h][1])]
          /\ UNCHANGED orders
      BY <1>4, <2>4 DEF Call
    <3>2. proc'[s].answer = Again(orders[h][1]) BY <1>1, <3>1 DEF JobsOK, Jobs
    <3>3. orders[h] \in Seq(OrderStates) /\ orders[h] # <<>> /\ Len(orders[h]) <= 1
      BY <2>2, <2>4 DEF Seen, OrdersOK, WarrantInv
    <3>4. orders[h] = <<orders[h][1]>> /\ orders[h][1] \in OrderStates BY <3>3
    <3>5. orders[h][1] = "rejected" => Denial' BY <2>3, <3>1, <3>4 DEF Denial, Rejection
    <3> QED BY <2>1, <3>2, <3>4, <3>5 DEF Warranted, WarrantInv, Again, KnownAnswers, OrderStates
  <2>5. CASE ~Seen(h)
    <3>1. orders[h] = <<>> BY <2>2, <2>5 DEF Seen, SoleProvider
    <3>2. PICK a \in Answers[h] :
            /\ proc'[s].answer = a
            /\ \E fate \in Fates(a) : orders'[h] = <<fate>> /\ MisreadAnswer(h, a, fate)
      BY <1>4, <3>1, CallIs
    <3>3. a \in KnownAnswers BY <2>2, SettingsAssumption
    <3>4. a \notin {"ok", "pending", "timeout"} => Denial'
      BY <2>3, <3>2 DEF Denial, Rejection, MisreadAnswer
    <3> QED BY <2>1, <3>2, <3>3, <3>4 DEF Warranted, WarrantInv
  <2> QED BY <2>4, <2>5
<1>5. CASE RecordAttempt(s)
  <2>1. proc'[s] = Decide(proc[s]) /\ UNCHANGED <<orders, misread>> /\ proc[s].pc = "record"
    BY <1>5 DEF RecordAttempt, JobsOK
  <2>2. /\ proc[s].answer \in KnownAnswers /\ Len(proc[s].cands) <= 1
        /\ proc[s].answer \notin {"ok", "pending", "timeout"} => Denial
    BY <2>1 DEF WarrantInv, Warranted
  <2>3. Tail(proc[s].cands) = <<>>
    <3>1. proc[s].cands \in Seq(Providers) /\ proc[s].cands # <<>>
      BY <1>1, <2>1 DEF JobOK, HeadPc, Jobs
    <3> QED BY <2>2, <3>1
  <2>4. /\ proc'[s].pc \in {"succeed", "pend", "review", "refund"}
        /\ proc'[s].pc = "refund" =>
             proc[s].answer \notin {"ok", "pending"} /\ ~Ambiguous(proc[s].answer)
    BY <1>1, <2>1, <2>3, DecideIs
  <2>5. proc'[s].pc = "refund" => Denial'
    BY <2>1, <2>2, <2>4 DEF Ambiguous, Class, Denial, Rejection
  <2> QED BY <2>4, <2>5 DEF Warranted
<1>6. CASE VerifyTransaction(s)
  <2>1. PICK verdict \in Verdicts(proc[s].at, LostByReference) :
          Goto(s, AfterPoll(verdict, proc[s].polls)) /\ MisreadVerdict(proc[s].at, verdict)
    BY <1>6, VerifyTransactionIs
  <2>2. UNCHANGED orders /\ proc[s].at \in Providers
    BY <1>1, <1>6, InHand DEF VerifyTransaction, VerifyPc
  <2>3. verdict = "rejected" => Denial'
    <3>1. orders[proc[s].at] \in Seq(OrderStates) /\ Len(orders[proc[s].at]) <= 1
      BY <2>2 DEF OrdersOK, WarrantInv
    <3>2. verdict = "rejected" =>
            \/ proc[s].at \in misread'
            \/ \E i \in DOMAIN orders[proc[s].at] : orders[proc[s].at][i] = "rejected"
      BY <2>1, <2>2, VerdictsAre
    <3>3. verdict = "rejected" => proc[s].at \in misread' \/ orders[proc[s].at] = <<"rejected">>
      BY <3>1, <3>2
    <3>4. \A p \in Providers : p = proc[s].at BY <2>2, OneProvider
    <3> QED BY <2>2, <3>3, <3>4 DEF Denial, Rejection
  <2>4. /\ proc'[s].pc = AfterPoll(verdict, proc[s].polls)
    BY <2>1, GotoIs
  <2>5. proc'[s].pc \in {"verifySucceed", "verifyRefund", "verifyReview", "requeue"}
        /\ (proc'[s].pc = "verifyRefund" => verdict = "rejected")
    BY <2>4 DEF AfterPoll
  <2> QED BY <2>3, <2>5 DEF Warranted
<1> QED BY <1>2, <1>3, <1>4, <1>5, <1>6 DEF Looking

LEMMA WarrantKept ==
  ASSUME NEW s \in Slots, Warranted(s), Denial => Denial',
         proc'[s] = proc[s] \/ proc'[s].pc \notin {"refund", "verifyRefund", "call", "record"}
  PROVE  Warranted(s)'
BY DEF Warranted

\* No other step leads to a refund or to a call.
LEMMA WarrantElsewhere ==
  ASSUME JobsOK, NEW s \in Slots, Worker(s) \/ CallFails(s), ~Looking(s), ~VerifyTransaction(s)
  PROVE  proc'[s].pc \notin {"refund", "verifyRefund", "call", "record"}
<1>1. CASE EnqueueVerify(s) BY <1>1, EnqueueVerifyIs
<1>2. CASE ~EnqueueVerify(s)
  <2>1. proc'[s].pc \notin Critical BY <1>2, Elsewhere
  <2>2. proc'[s].pc \notin {"refund", "verifyRefund"}
    <3> USE DEF Critical
    <3>1. CASE \/ Start(s) \/ MarkProcessing(s) \/ ReplayRead(s) \/ ReplayWrite(s)
               \/ HandleSuccess(s) \/ HandlePending(s) \/ HandleRequiresReview(s)
               \/ HandleAllFailed(s) \/ MarkFailed(s) \/ RecordFailedJob(s) \/ FinalizeFailed(s)
      BY <3>1, GotoIs DEF Start, MarkProcessing, ReplayRead, ReplayWrite, HandleSuccess,
         HandlePending, HandleRequiresReview, HandleAllFailed, MarkFailed, RecordFailedJob,
         FinalizeFailed, Refund
    <3>2. Free.pc = "free" BY DEF Free
    <3>3. CASE \/ SafetyNetWrite(s) \/ DeadLetterWrite(s) \/ VerifySucceeded(s)
               \/ FinalizeRequiresReview(s) \/ VerifyFailed(s)
      BY <3>2, <3>3, FinishIs DEF SafetyNetWrite, DeadLetterWrite, VerifySucceeded,
         FinalizeRequiresReview, VerifyFailed
    <3>4. CASE Complete(s) \/ SafetyNetRead(s) \/ DeadLetterRead(s) \/ VerifyLoad(s)
      BY <3>2, <3>4, FinishIs, GotoIs DEF Complete, SafetyNetRead, DeadLetterRead, VerifyLoad
    <3>5. CASE LoadTransaction(s) \/ TimeoutRead(s) \/ TimeoutWrite(s)
      BY <3>2, <3>5, FinishIs, GotoIs, ThrowIs DEF LoadTransaction, TimeoutRead, TimeoutWrite
    <3>6. CASE RequeueVerify(s)
      <4>1. \A q, n : VerifyJob(q, n).pc = "waiting" BY DEF VerifyJob, Free
      <4> QED BY <3>6, <4>1 DEF RequeueVerify, JobsOK
    <3>7. CASE CallFails(s)
      <4>1. CASE Throw(s) \/ Finish(s) BY <3>2, <4>1, ThrowIs, FinishIs
      <4>2. CASE proc[s].pc \in CaughtReads /\ proc' = [proc EXCEPT ![s] = AfterCaughtRead(proc[s])]
        <5>1. Goto(s, "complete") \/ Throw(s) \/ Finish(s)
          BY <4>2 DEF AfterCaughtRead, Goto, Throw, Finish, CaughtReads
        <5> QED BY <3>2, <5>1, GotoIs, ThrowIs, FinishIs
      <4> QED BY <3>7, <4>1, <4>2 DEF CallFails
    <3> QED BY <1>2, <3>1, <3>3, <3>4, <3>5, <3>6, <3>7 DEF Worker, Looking
  <2> QED BY <2>1, <2>2 DEF Critical
<1> QED BY <1>1, <1>2

LEMMA TimeoutIs ==
  ASSUME JobsOK, NEW s \in Slots, Timeout(s)
  PROVE  /\ FreeSlot \in Slots /\ FreeSlot # s
         /\ proc'[FreeSlot] = [proc[s] EXCEPT !.detached = TRUE] /\ proc'[s].pc = "timeoutRead"
         /\ \A t \in Slots : t \notin {s, FreeSlot} => proc'[t] = proc[t]
<1>1. proc[s] \in Jobs /\ proc \in [Slots -> Jobs] BY DEF JobsOK
<1>2. FreeSlot \in Slots /\ FreeSlot # s BY FreeSlotIs DEF Timeout, Free, EnginePc
<1>3. proc' = [proc EXCEPT ![FreeSlot] = [proc[s] EXCEPT !.detached = TRUE],
                           ![s] = [Requeued(proc[s]) EXCEPT !.pc = "timeoutRead"]]
  BY DEF Timeout
<1>4. [Requeued(proc[s]) EXCEPT !.pc = "timeoutRead"].pc = "timeoutRead"
  BY <1>1, RequeuedIs DEF Requeued, Free
<1> QED BY <1>1, <1>2, <1>3, <1>4

LEMMA WarrantPreserved ==
  ASSUME SoleProvider, JobsOK, OrdersOK, TypeOK, WarrantInv, [Next]_vars PROVE WarrantInv'
<1>1. (Denial => Denial') /\ \A p \in Providers : Len(orders'[p]) <= 1
  BY RejectionStays, DenialStays DEF WarrantInv
<1>2. Refunded \in ledger' => Denial'
  <2>1. Debited # Refunded BY DEF Debited, Refunded
  <2> QED BY <1>1, <2>1, LedgerSteps DEF WarrantInv, Warranted
<1>3. ASSUME NEW t \in Slots PROVE Warranted(t)'
  <2>1. Warranted(t) BY DEF WarrantInv
  <2>2. CASE UNCHANGED proc BY <1>1, <2>1, <2>2, WarrantKept
  <2>3. CASE AddJob
    <3>1. FreeSlot \in Slots /\ proc' = [proc EXCEPT ![FreeSlot] = PurchaseJob(MaxAttempts)]
      BY <2>3, FreeSlotIs DEF AddJob
    <3>2. PurchaseJob(MaxAttempts).pc = "waiting" BY DEF PurchaseJob, Free
    <3>3. proc'[t] = proc[t] \/ proc'[t].pc = "waiting" BY <3>1, <3>2 DEF JobsOK
    <3> QED BY <1>1, <2>1, <3>3, WarrantKept
  <2>4. CASE WorkerCrash
    <3>1. proc'[t] = AfterCrash(proc[t]) BY <2>4 DEF WorkerCrash
    <3> DEFINE r == [Requeued(proc[t]) EXCEPT !.stalled = TRUE]
    <3>2. proc'[t] \in {proc[t], Free, r} BY <3>1 DEF AfterCrash
    <3>3. r.pc = "waiting" /\ Free.pc = "free" BY DEF Requeued, Free
    <3> HIDE DEF r
    <3> QED BY <1>1, <2>1, <3>2, <3>3, WarrantKept
  <2>5. ASSUME NEW s \in Slots, Timeout(s) PROVE Warranted(t)'
    <3>1. CASE t = FreeSlot
      <4>1. proc[s] \in Jobs /\ Warranted(s) BY DEF JobsOK, WarrantInv
      <4>2. proc'[t] = [proc[s] EXCEPT !.detached = TRUE] BY <2>5, <3>1, TimeoutIs
      <4>3. /\ proc'[t].pc = proc[s].pc /\ proc'[t].answer = proc[s].answer
            /\ proc'[t].cands = proc[s].cands
        BY <4>1, <4>2 DEF Jobs
      <4> QED BY <1>1, <4>1, <4>3 DEF Warranted
    <3>2. CASE t # FreeSlot
      <4>1. proc'[t] = proc[t] \/ proc'[t].pc = "timeoutRead" BY <2>5, <3>2, TimeoutIs
      <4> QED BY <1>1, <2>1, <4>1, WarrantKept
    <3> QED BY <3>1, <3>2
  <2>6. ASSUME NEW s \in Slots, Worker(s) \/ CallFails(s) PROVE Warranted(t)'
    <3>1. CASE t = s /\ (Looking(s) \/ VerifyTransaction(s)) BY <3>1, WarrantMoves
    <3>2. CASE t = s /\ ~Looking(s) /\ ~VerifyTransaction(s)
      BY <1>1, <2>1, <2>6, <3>2, WarrantElsewhere, WarrantKept
    <3>3. CASE t # s
      <4>1. proc'[t] = proc[t] \/ proc'[t].pc = "waiting"
        BY <2>6, <3>3, LookingIs, EnqueueVerifyIs, Elsewhere
      <4> QED BY <1>1, <2>1, <4>1, WarrantKept
    <3> QED BY <3>1, <3>2, <3>3
  <2>7. ASSUME NEW p \in Providers, NEW i \in DOMAIN orders[p], Settle(p, i) PROVE UNCHANGED proc
    BY <2>7 DEF Settle
  <2>8. Debit \/ CreateTransaction \/ RequestLost \/ UNCHANGED vars => UNCHANGED proc
    BY DEF Debit, CreateTransaction, RequestLost, vars
  <2> QED BY <2>2, <2>3, <2>4, <2>5, <2>6, <2>7, <2>8 DEF Next, Controller
<1> QED BY <1>1, <1>2, <1>3 DEF WarrantInv

\* With one provider that takes the reference for an idempotency key, no refund goes
\* out while the order was delivered or still may be, unless the adapter called it
\* failed: through every number of faults, crashes, retries and executions that a
\* timeout let go of, for both workers, and whatever the queries miss.
THEOREM SoleProviderRefundsNoDelivery == ASSUME SoleProvider PROVE Spec => []NoRefundOfDelivered
<1>1. Init => WarrantInv
  <2> SUFFICES ASSUME Init PROVE WarrantInv OBVIOUS
  <2>1. Free.pc = "free" BY DEF Free
  <2>2. Len(<<>>) <= 1 OBVIOUS
  <2> QED BY <2>1, <2>2 DEF Init, WarrantInv, Warranted
<1>2. SoundInv /\ WarrantInv /\ [Next]_vars => WarrantInv'
  BY WarrantPreserved, TypeOKParts DEF SoundInv
<1>3. SoundInv /\ OneOfEach /\ WarrantInv => NoRefundOfDelivered
  <2> SUFFICES ASSUME SoundInv, OneOfEach, WarrantInv, Batches("refund") # {}
               PROVE  \A p \in Providers : Declined(p)
    BY DEF NoRefundOfDelivered
  <2>1. Refunded \in ledger BY DEF OneOfEach, Batches, Debited, Refunded
  <2>2. \A i \in DOMAIN <<"rejected">> : <<"rejected">>[i] = "rejected" OBVIOUS
  <2>3. misread # {} => \A p \in Providers : p \in misread
    BY OneProvider, TypeOKParts DEF SoundInv
  <2> QED BY <2>1, <2>2, <2>3 DEF WarrantInv, Denial, Rejection, Refused, Declined
<1>4. Init => OneOfEach BY DEF Init, OneOfEach
<1>5. OneOfEach /\ [Next]_vars => OneOfEach' BY LedgerSteps DEF OneOfEach
<1> QED BY <1>1, <1>2, <1>3, <1>4, <1>5, SagaStarts, SagaSound, PTL DEF Spec

-----------------------------------------------------------------------------
(* What the customer was told is a success stays one.                          *)

\* The only purchase job comes from the controller, and the row from it too.
RowInv ==
  /\ api \in {"debit", "row", "refused"} => tx.status = "none"
  /\ api = "add" => tx.status = "pending"
  /\ api = "done" => tx.status # "none"
  /\ api # "done" => \A s \in Slots : proc[s].pc = "free"

LEMMA RowInvPreserved == ASSUME RowInv, JobsOK, tx \in Row, [Next]_vars PROVE RowInv'
<1>1. CASE UNCHANGED vars BY <1>1 DEF vars, RowInv
<1>2. CASE Debit \/ RequestLost BY <1>2 DEF Debit, RequestLost, RowInv
<1>3. CASE CreateTransaction
  <2>1. api = "row" /\ api' = "add" /\ tx'.status = "pending" /\ UNCHANGED proc
    BY <1>3, Written DEF CreateTransaction
  <2> QED BY <2>1 DEF RowInv
<1>4. CASE AddJob BY <1>4 DEF AddJob, RowInv
<1>5. CASE WorkerCrash
  <2>1. UNCHANGED <<api, tx>> /\ proc' = [s \in Slots |-> AfterCrash(proc[s])]
    BY <1>5 DEF WorkerCrash
  <2>2. \A s \in Slots : proc[s].pc = "free" => proc'[s].pc = "free" BY <2>1 DEF AfterCrash
  <2> QED BY <2>1, <2>2 DEF RowInv
<1>6. ASSUME NEW s \in Slots, Worker(s) \/ Timeout(s) \/ CallFails(s) PROVE RowInv'
  <2>1. proc[s].pc # "free" /\ api' = api BY <1>6, Busy
  <2>2. api = "done" BY <2>1 DEF RowInv
  <2>3. tx' = tx \/ tx'.status \in {"processing"} \union Ended
    <3>1. CASE Worker(s)
      <4>1. MarkProcessing(s) \/ HandlePending(s) => tx'.status = "processing"
        BY Written DEF MarkProcessing, HandlePending
      <4>2. \/ ReplayWrite(s) \/ HandleSuccess(s) \/ HandleRequiresReview(s) \/ MarkFailed(s)
            \/ VerifySucceeded(s) \/ FinalizeRequiresReview(s) \/ VerifyFailed(s)
            \/ SafetyNetWrite(s) \/ TimeoutWrite(s) \/ DeadLetterWrite(s)
            => tx'.status \in Ended
        BY Written DEF ReplayWrite, HandleSuccess, HandleRequiresReview, MarkFailed,
           VerifySucceeded, FinalizeRequiresReview, VerifyFailed, SafetyNetWrite, TimeoutWrite,
           DeadLetterWrite, Ended, Final
      <4> QED BY <3>1, <4>1, <4>2, RowWriters
    <3>2. CASE Timeout(s) \/ CallFails(s) BY <3>2 DEF Timeout, CallFails
    <3> QED BY <1>6, <3>1, <3>2
  <2> QED BY <2>1, <2>2, <2>3 DEF RowInv, Ended, Final
<1>7. CASE \E p \in Providers : \E i \in DOMAIN orders[p] : Settle(p, i)
  BY <1>7 DEF Settle, RowInv
<1> QED BY <1>1, <1>2, <1>3, <1>4, <1>5, <1>6, <1>7 DEF Next, Controller

\* Where a job writes nothing before it has read the status again.
Harmless == {"free", "waiting", "load", "complete", "deadRecord", "deadRead"}
NoPending == \A a \in Attempts : a.class # "PENDING"

\* With one mishap at most and no "pending" on record, a verification can only exist
\* because the record of the answer failed, and then nothing else is under way; and
\* after a success no job is where it would write without looking.
FinalParts ==
  /\ \A s \in Slots : proc[s].pc \in {"pend", "enqueue"} \/ proc[s].kind = "verify" => MishapCount = 1
  /\ \A s, t \in Slots : proc[s].kind = "verify" /\ s # t => proc[t].pc \in {"free", "complete"}
  /\ tx.status = "successful" => \A s \in Slots : proc[s].pc \in Harmless /\ proc[s].kind # "verify"
FinalInv == service = "vtu" /\ MishapCount <= 1 /\ NoPending => FinalParts

\* A mishap is counted, and its count never sinks.
LEMMA MishapsGrow ==
  ASSUME mishaps \in MishapCounts, [Next]_vars
  PROVE  /\ MishapCount \in Nat /\ MishapCount' \in Nat
         /\ \/ MishapCount' = MishapCount
            \/ /\ MishapCount' = MishapCount + 1
               /\ \/ RequestLost \/ WorkerCrash
                  \/ \E s \in Slots : CallFails(s) \/ (RecordAttempt(s) /\ UNCHANGED attempts)
         /\ WorkerCrash \/ (\E s \in Slots : CallFails(s)) => MishapCount' = MishapCount + 1
<1>0. mishaps.fault \in Nat /\ mishaps.crash \in Nat BY SettingsAssumption DEF MishapCounts
<1>1. \A kind : Mishap(kind) => MishapCount' = MishapCount + 1
  <2> SUFFICES ASSUME NEW kind, Mishap(kind) PROVE MishapCount' = MishapCount + 1 OBVIOUS
  <2>1. kind \in {"fault", "crash"} BY SettingsAssumption DEF Mishap
  <2> QED BY <1>0, <2>1 DEF Mishap, MishapCount, MishapCounts
<1>2. UNCHANGED mishaps => MishapCount' = MishapCount BY DEF MishapCount
<1>3. MishapCount \in Nat BY <1>0 DEF MishapCount
<1>4. RequestLost \/ WorkerCrash => MishapCount' = MishapCount + 1
  BY <1>1 DEF RequestLost, WorkerCrash
<1>5. ASSUME NEW s \in Slots, CallFails(s) PROVE MishapCount' = MishapCount + 1
  BY <1>1, <1>5 DEF CallFails
<1>6. ASSUME NEW s \in Slots, RecordAttempt(s)
      PROVE  MishapCount' = MishapCount \/ (MishapCount' = MishapCount + 1 /\ UNCHANGED attempts)
  BY <1>1, <1>2, <1>6 DEF RecordAttempt
<1>7. ASSUME NEW s \in Slots, Worker(s) \/ Timeout(s), ~RecordAttempt(s) PROVE UNCHANGED mishaps
  BY <1>7 DEF Worker, Timeout, Start, LoadTransaction, MarkProcessing, FindSuccess,
     ReplayRead, ReplayWrite, Resolve, Call, HandleSuccess, HandlePending,
     EnqueueVerify, HandleRequiresReview, HandleAllFailed, MarkFailed, Complete, SafetyNetRead,
     SafetyNetWrite, TimeoutRead, TimeoutWrite, RecordFailedJob, DeadLetterRead, DeadLetterWrite,
     VerifyLoad, VerifyTransaction, VerifySucceeded, RequeueVerify,
     FinalizeRequiresReview, FinalizeFailed, VerifyFailed, Refund, kept
<1>8. Controller \/ UNCHANGED vars \/ (\E p \in Providers : \E i \in DOMAIN orders[p] : Settle(p, i))
        => UNCHANGED mishaps
  BY DEF Controller, Debit, CreateTransaction, AddJob, Settle, vars, kept
<1>9. /\ \/ MishapCount' = MishapCount
         \/ /\ MishapCount' = MishapCount + 1
            /\ \/ RequestLost \/ WorkerCrash
               \/ \E s \in Slots : CallFails(s) \/ (RecordAttempt(s) /\ UNCHANGED attempts)
  BY <1>2, <1>4, <1>5, <1>6, <1>7, <1>8 DEF Next
<1> QED BY <1>3, <1>4, <1>5, <1>9

LEMMA FinalKept ==
  ASSUME FinalParts, NEW s \in Slots, MishapCount = 1 => MishapCount' = 1,
         \A t \in Slots : t # s => proc'[t] = proc[t],
         proc'[s].kind \in {proc[s].kind, "free"},
         proc'[s].pc \in {"pend", "enqueue"} => proc[s].pc \in {"pend", "enqueue"} \/ MishapCount' = 1,
         proc[s].pc \in {"free", "complete"} => proc'[s].pc \in {"free", "complete"},
         tx'.status = "successful" =>
           /\ tx.status = "successful"
           /\ proc[s].pc \in Harmless /\ proc[s].kind # "verify" => proc'[s].pc \in Harmless
  PROVE  FinalParts'
<1>1. (\A t \in Slots : proc[t].pc \in {"pend", "enqueue"} \/ proc[t].kind = "verify" => MishapCount = 1)'
  BY DEF FinalParts
<1>2. (\A r, t \in Slots : proc[r].kind = "verify" /\ r # t => proc[t].pc \in {"free", "complete"})'
  BY DEF FinalParts
<1>3. (tx.status = "successful" => \A t \in Slots : proc[t].pc \in Harmless /\ proc[t].kind # "verify")'
  BY DEF FinalParts
<1> QED BY <1>1, <1>2, <1>3 DEF FinalParts

\* The steps that neither write the row nor begin a verification.
LEMMA FinalQuiet ==
  ASSUME JobsOK, tx \in Row, FinalParts, service = "vtu", NEW s \in Slots,
         Worker(s) \/ CallFails(s), UNCHANGED tx, ~EnqueueVerify(s), ~Looking(s),
         ~HandlePending(s), tx.status # "none", MishapCount = 1 => MishapCount' = 1
  PROVE  FinalParts'
<1>1. /\ proc'[s].kind \in {proc[s].kind, "free"}
      /\ \A t \in Slots : t # s => proc'[t] = proc[t]
  BY Elsewhere
<1>2. proc[s] \in Jobs /\ JobOK(proc[s]) BY DEF JobsOK
<1>3. Free.pc = "free" BY DEF Free
<1> SUFFICES /\ proc'[s].pc \notin {"pend", "enqueue"}
             /\ proc[s].pc \in {"free", "complete"} => proc'[s].pc \in {"free", "complete"}
             /\ tx.status = "successful" /\ proc[s].pc \in Harmless /\ proc[s].kind # "verify"
                  => proc'[s].pc \in Harmless
  BY <1>1, FinalKept
<1> USE DEF Harmless
<1>4. CASE Start(s)
  BY <1>4, GotoIs DEF Start
<1>5. CASE LoadTransaction(s)
  BY <1>3, <1>5, FinishIs, GotoIs DEF LoadTransaction, Skippable, Final
<1>6. CASE \/ MarkProcessing(s) \/ ReplayRead(s) \/ ReplayWrite(s) \/ HandleSuccess(s)
           \/ HandleRequiresReview(s) \/ HandleAllFailed(s) \/ MarkFailed(s)
           \/ RecordFailedJob(s) \/ FinalizeFailed(s)
  BY <1>6, GotoIs DEF MarkProcessing, ReplayRead, ReplayWrite, HandleSuccess,
     HandleRequiresReview, HandleAllFailed, MarkFailed, RecordFailedJob, FinalizeFailed, Refund
<1>7. CASE VerifyTransaction(s)
  BY <1>7, GotoIs DEF VerifyTransaction, AfterPoll
<1>8. CASE \/ SafetyNetWrite(s) \/ DeadLetterWrite(s) \/ VerifySucceeded(s)
           \/ FinalizeRequiresReview(s) \/ VerifyFailed(s) \/ Complete(s)
  BY <1>3, <1>8, FinishIs DEF SafetyNetWrite, DeadLetterWrite, VerifySucceeded,
     FinalizeRequiresReview, VerifyFailed, Complete
<1>9. CASE SafetyNetRead(s) \/ DeadLetterRead(s) \/ VerifyLoad(s)
  BY <1>3, <1>9, FinishIs, GotoIs DEF SafetyNetRead, DeadLetterRead, VerifyLoad, Final
<1>10. CASE TimeoutRead(s) \/ TimeoutWrite(s)
  BY <1>3, <1>10, GotoIs, ThrowIs DEF TimeoutRead, TimeoutWrite
<1>11. CASE RequeueVerify(s)
  <2>1. \A q, n : VerifyJob(q, n).pc = "waiting" BY DEF VerifyJob, Free
  <2> QED BY <1>11, <2>1 DEF RequeueVerify, JobsOK
<1>12. CASE CallFails(s)
  <2>1. CASE Throw(s) /\ proc[s].pc \in Throwing \union {"timeoutWrite"}
    BY <1>3, <2>1, ThrowIs DEF Throwing
  <2>2. CASE Finish(s) BY <1>3, <2>2, FinishIs
  <2>3. CASE proc[s].pc \in CaughtReads /\ proc' = [proc EXCEPT ![s] = AfterCaughtRead(proc[s])]
    <3>1. Goto(s, "complete") \/ Throw(s) \/ Finish(s)
      BY <2>3 DEF AfterCaughtRead, Goto, Throw, Finish, CaughtReads
    <3> QED BY <1>3, <2>3, <3>1, GotoIs, ThrowIs, FinishIs DEF CaughtReads
  <2> QED BY <1>12, <2>1, <2>2, <2>3 DEF CallFails
<1> QED BY <1>4, <1>5, <1>6, <1>7, <1>8, <1>9, <1>10, <1>11, <1>12 DEF Worker, Looking

LEMMA FinalLooking ==
  ASSUME JobsOK, attempts \in Seq(Record), mishaps \in MishapCounts, FinalParts,
         NEW s \in Slots, Looking(s), NoPending', MishapCount' <= 1, [Next]_vars
  PROVE  FinalParts'
<1>1. /\ MishapCount \in Nat /\ MishapCount' \in Nat
      /\ MishapCount' = MishapCount \/ MishapCount' = MishapCount + 1
  BY MishapsGrow
<1>2. /\ proc'[s].kind = proc[s].kind
      /\ \A t \in Slots : t # s => proc'[t] = proc[t]
  BY LookingIs
<1>3. proc[s].pc \notin Harmless /\ UNCHANGED tx
  BY DEF Looking, FindSuccess, Resolve, Call, RecordAttempt, Harmless
<1>4. proc'[s].pc \in {"pend", "enqueue"} => MishapCount' = 1
  <2>1. ~RecordAttempt(s) => proc'[s].pc \notin {"pend", "enqueue"}
    BY LookingIs DEF Looking
  <2>2. CASE RecordAttempt(s)
    <3>1. proc'[s] = Decide(proc[s]) /\ proc[s] \in Jobs BY <2>2 DEF RecordAttempt, JobsOK
    <3>2. proc'[s].pc \in {"pend", "enqueue"} => Class(proc[s].answer) = "PENDING"
      BY <3>1, DecideIs DEF Class
    <3>3. CASE attempts' = Append(attempts, [provider |-> Head(proc[s].cands),
                                             class |-> Class(proc[s].answer)])
      <4> DEFINE r == [provider |-> Head(proc[s].cands), class |-> Class(proc[s].answer)]
      <4>1. Len(attempts) + 1 \in DOMAIN Append(attempts, r)
            /\ Append(attempts, r)[Len(attempts) + 1] = r
        OBVIOUS
      <4>2. r \in Attempts' BY <3>3, <4>1 DEF Attempts
      <4>3. r.class # "PENDING" BY <4>2 DEF NoPending
      <4> QED BY <3>2, <4>3
    <3>4. CASE Mishap("fault")
      <4>1. MishapCount' = MishapCount + 1
        BY <3>4, SettingsAssumption DEF Mishap, MishapCount, MishapCounts
      <4> QED BY <1>1, <4>1
    <3> QED BY <2>2, <3>3, <3>4 DEF RecordAttempt
  <2> QED BY <2>1, <2>2
<1>5. MishapCount = 1 => MishapCount' = 1 BY <1>1
<1> QED BY <1>2, <1>3, <1>4, <1>5, FinalKept DEF Harmless

\* The steps that write the row.
LEMMA FinalWriters ==
  ASSUME JobsOK, tx \in Row, FinalParts, Single, service = "vtu", NEW s \in Slots, Worker(s),
         tx' # tx \/ HandlePending(s), ~EnqueueVerify(s), MishapCount = 1 => MishapCount' = 1
  PROVE  FinalParts'
<1>1. ~Looking(s) BY DEF Looking, FindSuccess, Resolve, Call, RecordAttempt, HandlePending
<1>2. /\ proc'[s].kind \in {proc[s].kind, "free"}
      /\ \A t \in Slots : t # s => proc'[t] = proc[t]
  BY <1>1, Elsewhere
<1>3. proc[s] \in Jobs /\ \A t \in Slots : JobOK(proc[t]) BY DEF JobsOK
<1>4. Free.pc = "free" /\ Free.kind = "free" BY DEF Free
<1>5. CASE MarkProcessing(s) \/ HandlePending(s) \/ HandleRequiresReview(s) \/ MarkFailed(s)
  <2>1. tx'.status # "successful"
    BY <1>5, Written DEF MarkProcessing, HandlePending, HandleRequiresReview, MarkFailed
  <2>2. /\ proc'[s].pc \in {"pend", "enqueue"} => proc[s].pc \in {"pend", "enqueue"}
        /\ proc[s].pc \notin {"free", "complete"}
    BY <1>5, GotoIs DEF MarkProcessing, HandlePending, HandleRequiresReview, MarkFailed
  <2> QED BY <1>2, <2>1, <2>2, FinalKept
<1>6. CASE \/ DeadLetterWrite(s) \/ FinalizeRequiresReview(s) \/ VerifyFailed(s)
           \/ SafetyNetWrite(s)
  <2>1. tx'.status # "successful"
    BY <1>6, Written DEF DeadLetterWrite, FinalizeRequiresReview, VerifyFailed, SafetyNetWrite
  <2>2. proc'[s].pc = "free" /\ proc[s].pc \notin {"free", "complete"}
    BY <1>4, <1>6, FinishIs
       DEF DeadLetterWrite, FinalizeRequiresReview, VerifyFailed, SafetyNetWrite
  <2> QED BY <1>2, <2>1, <2>2, FinalKept
<1>7. CASE TimeoutWrite(s)
  <2>1. tx'.status # "successful" BY <1>7, Written DEF TimeoutWrite
  <2>2. proc'[s].pc \notin {"pend", "enqueue"} /\ proc[s].pc \notin {"free", "complete"}
    BY <1>4, <1>7, ThrowIs DEF TimeoutWrite
  <2> QED BY <1>2, <2>1, <2>2, FinalKept
<1>8. CASE HandleSuccess(s) \/ ReplayWrite(s)
  <2>1. /\ proc[s].pc \in {"succeed", "replayWrite"}
        /\ proc'[s].pc = "complete" /\ proc'[s].kind = proc[s].kind
    BY <1>8, GotoIs DEF HandleSuccess, ReplayWrite
  <2>2. proc[s].kind = "purchase" BY <1>3, <2>1 DEF JobOK, PurchasePc, EnginePc
  <2>3. \A t \in Slots : t # s => proc[t].kind = "free"
    <3> SUFFICES ASSUME NEW t \in Slots, t # s PROVE proc[t].kind = "free" OBVIOUS
    <3>1. proc[t].kind # "purchase" BY <2>2 DEF Single
    <3>2. proc[t].kind # "verify" BY <2>1 DEF FinalParts
    <3>3. proc[t] \in Jobs BY DEF JobsOK
    <3> QED BY <3>1, <3>2, <3>3 DEF Jobs
  <2>4. \A t \in Slots : t # s => proc'[t].pc = "free" /\ proc'[t].kind = "free"
    BY <1>2, <1>3, <1>4, <2>3 DEF JobOK
  <2> QED BY <2>1, <2>2, <2>4 DEF FinalParts, Harmless
<1>9. CASE VerifySucceeded(s)
  <2>1. proc[s].pc = "verifySucceed" /\ proc'[s] = Free BY <1>9, FinishIs DEF VerifySucceeded
  <2>2. proc[s].kind = "verify" BY <1>3, <2>1 DEF JobOK, VerifyPc
  <2>3. \A t \in Slots : t # s => proc[t].pc \in {"free", "complete"} BY <2>2 DEF FinalParts
  <2>4. \A t \in Slots : t # s => proc[t].kind # "verify"
    BY <1>3, <1>4, <2>3 DEF JobOK, PurchasePc, EnginePc
  <2> QED BY <1>2, <1>4, <2>1, <2>3, <2>4 DEF FinalParts, Harmless
<1> QED BY <1>5, <1>6, <1>7, <1>8, <1>9, RowWriters

LEMMA FinalPreserved ==
  ASSUME SoundInv, Single, RowInv, FinalInv, [Next]_vars PROVE FinalInv'
<1> SUFFICES ASSUME service' = "vtu", MishapCount' <= 1, NoPending' PROVE FinalParts'
  BY DEF FinalInv
<1>1. /\ JobsOK /\ OrdersOK /\ tx \in Row /\ attempts \in Seq(Record)
      /\ mishaps \in MishapCounts
  BY TypeOKParts DEF SoundInv
<1>2. /\ MishapCount \in Nat /\ MishapCount' \in Nat
      /\ MishapCount' = MishapCount \/ MishapCount' = MishapCount + 1
      /\ WorkerCrash \/ (\E s \in Slots : CallFails(s)) => MishapCount' = MishapCount + 1
  BY <1>1, MishapsGrow
<1>3. service = "vtu" BY ServiceStays
<1>4. NoPending
  <2>1. CASE UNCHANGED attempts BY <2>1 DEF NoPending, Attempts
  <2>2. ASSUME NEW r, attempts' = Append(attempts, r) PROVE NoPending
    <3>1. \A i \in DOMAIN attempts : i \in DOMAIN attempts' /\ attempts'[i] = attempts[i]
      BY <1>1, <2>2
    <3> QED BY <3>1 DEF NoPending, Attempts
  <2> QED BY <2>1, <2>2, Untouched DEF RecordAttempt
<1>5. FinalParts BY <1>2, <1>3, <1>4 DEF FinalInv
<1>6. MishapCount = 1 => MishapCount' = 1 BY <1>2
<1>7. CASE UNCHANGED <<tx, proc>>
  BY <1>5, <1>6, <1>7 DEF FinalParts
<1>8. CASE CreateTransaction
  <2>1. api = "row" /\ tx'.status = "pending" /\ UNCHANGED proc
    BY <1>1, <1>8, Written DEF CreateTransaction
  <2> QED BY <1>5, <1>6, <2>1 DEF FinalParts
<1>9. CASE AddJob
  <2>1. /\ api = "add" /\ UNCHANGED tx /\ FreeSlot \in Slots
        /\ proc' = [proc EXCEPT ![FreeSlot] = PurchaseJob(MaxAttempts)]
    BY <1>9, FreeSlotIs DEF AddJob
  <2>2. tx'.status = "pending" /\ \A s \in Slots : proc[s].kind # "verify" /\ proc[s].pc = "free"
    BY <1>1, <2>1 DEF RowInv, JobsOK, JobOK, Free
  <2>3. PurchaseJob(MaxAttempts).pc = "waiting" /\ PurchaseJob(MaxAttempts).kind = "purchase"
    BY DEF PurchaseJob, Free
  <2>4. \A s \in Slots : proc'[s].kind # "verify" /\ proc'[s].pc \in {"free", "waiting"}
    BY <1>1, <2>1, <2>2, <2>3 DEF JobsOK
  <2> QED BY <2>2, <2>4 DEF FinalParts
<1>10. CASE WorkerCrash
  <2>1. MishapCount # 1 BY <1>2, <1>10
  <2>2. \A s \in Slots : proc[s].kind # "verify" /\ proc[s].pc \notin {"pend", "enqueue"}
    BY <1>5, <2>1 DEF FinalParts
  <2>3. UNCHANGED tx /\ proc' = [s \in Slots |-> AfterCrash(proc[s])] BY <1>10 DEF WorkerCrash
  <2>4. ASSUME NEW s \in Slots
        PROVE  proc'[s].kind # "verify" /\ proc'[s].pc \in {"free", "waiting"}
    <3>1. proc'[s] = AfterCrash(proc[s]) /\ proc[s] \in Jobs BY <1>1, <2>3 DEF JobsOK
    <3> DEFINE r == [Requeued(proc[s]) EXCEPT !.stalled = TRUE]
    <3>2. r.kind = proc[s].kind /\ r.pc = "waiting" /\ Free.kind = "free" /\ Free.pc = "free"
      BY DEF Requeued, Free
    <3>3. \/ proc'[s] = proc[s] /\ proc[s].pc \in {"free", "waiting"}
          \/ proc'[s] \in {Free, r}
      BY <3>1 DEF AfterCrash
    <3> HIDE DEF r
    <3> QED BY <2>2, <3>2, <3>3
  <2> QED BY <2>4 DEF FinalParts, Harmless
<1>11. ASSUME NEW s \in Slots, Worker(s) \/ CallFails(s) PROVE FinalParts'
  <2>1. CASE Looking(s) BY <1>1, <1>2, <1>5, <2>1, FinalLooking
  <2>2. CASE EnqueueVerify(s)
    <3>1. proc[s].pc = "enqueue" /\ UNCHANGED tx BY <2>2 DEF EnqueueVerify
    <3>2. MishapCount' = 1 BY <1>5, <1>6, <3>1 DEF FinalParts
    <3>3. \A t \in Slots : t # s => proc[t].pc = "free"
      <4> SUFFICES ASSUME NEW t \in Slots, t # s PROVE proc[t].pc = "free" OBVIOUS
      <4>1. JobOK(proc[s]) /\ JobOK(proc[t]) /\ proc[t] \in Jobs BY <1>1 DEF JobsOK
      <4>2. proc[s].kind = "purchase" BY <3>1, <4>1 DEF JobOK, PurchasePc, EnginePc
      <4>3. proc[t].kind # "purchase" BY <1>3, <4>2 DEF Single
      <4>4. proc[t].kind # "verify" BY <1>5, <3>1 DEF FinalParts
      <4>5. Free.pc = "free" BY DEF Free
      <4> QED BY <4>1, <4>3, <4>4, <4>5 DEF Jobs, JobOK
    <3>4. /\ FreeSlot \in Slots /\ FreeSlot # s
          /\ proc'[s].pc = "complete" /\ proc'[s].kind = proc[s].kind
          /\ proc'[FreeSlot].pc = "waiting"
          /\ \A t \in Slots : t \notin {s, FreeSlot} => proc'[t] = proc[t]
      BY <1>1, <2>2, EnqueueVerifyIs
    <3>5. tx.status # "successful" BY <1>5, <3>1 DEF FinalParts, Harmless
    <3>6. proc[s].kind # "verify"
      BY <1>1, <3>1 DEF JobsOK, JobOK, PurchasePc, EnginePc
    <3>7. \A t \in Slots : t \notin {s, FreeSlot} => proc'[t].kind # "verify" /\ proc'[t].pc = "free"
      BY <1>1, <3>3, <3>4 DEF JobsOK, JobOK, Free
    <3> DEFINE f == FreeSlot
    <3>8. \A r, t \in Slots : proc'[r].kind = "verify" /\ r # t => proc'[t].pc \in {"free", "complete"}
      BY <3>4, <3>6, <3>7
    <3>9. tx'.status # "successful" BY <3>1, <3>5
    <3> QED BY <3>2, <3>8, <3>9 DEF FinalParts
  <2>3. CASE ~Looking(s) /\ ~EnqueueVerify(s) /\ UNCHANGED tx /\ ~HandlePending(s)
    <3>1. tx.status # "none"
      BY <1>11, Busy DEF RowInv
    <3> QED BY <1>1, <1>3, <1>5, <1>6, <1>11, <2>3, <3>1, FinalQuiet
  <2>4. CASE ~EnqueueVerify(s) /\ (tx' # tx \/ HandlePending(s))
    <3>1. Worker(s) BY <1>11, <2>4 DEF CallFails, Worker
    <3> QED BY <1>1, <1>3, <1>5, <1>6, <2>4, <3>1, FinalWriters
  <2> QED BY <2>1, <2>2, <2>3, <2>4
<1>12. \A s \in Slots : ~Timeout(s) BY <1>3 DEF Timeout
<1>13. ASSUME NEW p \in Providers, NEW i \in DOMAIN orders[p], Settle(p, i) PROVE UNCHANGED <<tx, proc>>
  BY <1>13 DEF Settle
<1>14. Debit \/ RequestLost \/ UNCHANGED vars => UNCHANGED <<tx, proc>>
  BY DEF Debit, RequestLost, vars
<1> QED BY <1>7, <1>8, <1>9, <1>10, <1>11, <1>12, <1>13, <1>14 DEF Next, Controller

\* What a customer was told is a success stays one: no step of any job takes it back
\* from a data purchase, as long as there was one mishap at most and nobody
\* answered "pending" -- for every route and every number of attempts.
THEOREM SuccessStays == Spec => SuccessIsFinal
<1>1. Init => Single /\ RowInv /\ FinalInv
  <2> SUFFICES ASSUME Init PROVE Single /\ RowInv /\ FinalInv OBVIOUS
  <2>1. Free.kind = "free" /\ Free.pc = "free" /\ ~Free.detached BY DEF Free
  <2>2. \A s \in Slots : proc[s] = Free /\ tx.status = "none" BY DEF Init
  <2> QED BY <2>1, <2>2 DEF Init, Single, RowInv, FinalInv, FinalParts
<1>2. SoundInv /\ Single /\ RowInv /\ FinalInv /\ [Next]_vars => Single' /\ RowInv' /\ FinalInv'
  BY SinglePreserved, RowInvPreserved, FinalPreserved, TypeOKParts DEF SoundInv
<1>3. SoundInv /\ RowInv /\ FinalInv /\ [Next]_vars =>
        [ /\ service = "vtu" /\ tx.status = "successful"
          /\ MishapCount <= 1 /\ \A a \in Attempts : a.class # "PENDING"
          => tx'.status = "successful" ]_vars
  <2> SUFFICES ASSUME SoundInv, RowInv, FinalInv, [Next]_vars, service = "vtu",
                      tx.status = "successful", MishapCount <= 1, NoPending
               PROVE  tx'.status = "successful"
    BY DEF NoPending
  <2>1. \A s \in Slots : proc[s].pc \in Harmless BY DEF FinalInv, FinalParts
  <2>2. ~CreateTransaction BY DEF CreateTransaction, RowInv
  <2>3. ASSUME NEW s \in Slots, Worker(s) PROVE UNCHANGED tx
    <3>1. proc[s].pc \in Harmless BY <2>1
    <3> QED BY <2>3, <3>1, RowWriters DEF Harmless, MarkProcessing, HandlePending, ReplayWrite,
            HandleSuccess, HandleRequiresReview, MarkFailed, VerifySucceeded,
            FinalizeRequiresReview, VerifyFailed, SafetyNetWrite, TimeoutWrite, DeadLetterWrite
  <2>4. ASSUME NEW s \in Slots, Timeout(s) \/ CallFails(s) PROVE UNCHANGED tx
    BY <2>4 DEF Timeout, CallFails
  <2>5. Debit \/ AddJob \/ RequestLost \/ WorkerCrash \/ UNCHANGED vars => UNCHANGED tx
    BY DEF Debit, AddJob, RequestLost, WorkerCrash, vars
  <2>6. (\E p \in Providers : \E i \in DOMAIN orders[p] : Settle(p, i)) => UNCHANGED tx
    BY DEF Settle
  <2> QED BY <2>2, <2>3, <2>4, <2>5, <2>6 DEF Next, Controller
<1> QED BY <1>1, <1>2, <1>3, SagaStarts, SagaSound, PTL DEF Spec, SuccessIsFinal
-----------------------------------------------------------------------------
(* One mishap strands nobody.                                                  *)

\* A job is over, or is still the job it was: what it is, who ran it, and whether
\* it was resumed before.
SameJob(s) ==
  \/ /\ proc'[s].kind = "free" /\ proc'[s].pc = "free" /\ ~proc'[s].detached
     /\ ~proc'[s].stalled /\ proc'[s].answer = "none"
  \/ /\ proc'[s].kind = proc[s].kind /\ (proc'[s].detached <=> proc[s].detached)
     /\ proc'[s].stalled => proc[s].stalled
     /\ \/ proc'[s].answer = "none"
        \/ proc'[s].answer = proc[s].answer /\ proc'[s].pc # "waiting"
        \/ proc'[s].pc = "record"

LEMMA FreeIs ==
  /\ Free.kind = "free" /\ Free.pc = "free" /\ ~Free.detached /\ ~Free.stalled
  /\ Free.answer = "none"
BY DEF Free

LEMMA GotoSameJob ==
  ASSUME JobsOK, NEW s \in Slots, NEW pc, pc # "waiting", Goto(s, pc)
  PROVE  SameJob(s)
BY GotoIs DEF SameJob
LEMMA FinishSameJob == ASSUME JobsOK, NEW s \in Slots, Finish(s) PROVE SameJob(s)
BY FinishIs, FreeIs DEF SameJob
LEMMA ThrowSameJob == ASSUME JobsOK, NEW s \in Slots, Throw(s) PROVE SameJob(s)
BY ThrowIs, FreeIs DEF SameJob

LEMMA LookingSameJob == ASSUME JobsOK, NEW s \in Slots, Looking(s) PROVE SameJob(s)
<1>1. proc[s] \in Jobs /\ proc \in [Slots -> Jobs] BY DEF JobsOK
<1>2. CASE FindSuccess(s) BY <1>2, GotoSameJob DEF FindSuccess, AfterFindSuccess
<1>3. CASE Resolve(s)
  <2>1. PICK eligible \in Eligible : \E cands \in Candidates(eligible \ FailedCodes) :
          LET unsure == FailedCodes # {} IN
          proc' = [proc EXCEPT ![s].cands = cands, ![s].unsure = unsure,
                     ![s].pc = IF cands # <<>> THEN "call"
                               ELSE IF unsure THEN "review" ELSE "refund"]
    BY <1>3 DEF Resolve
  <2>2. PICK cands \in Candidates(eligible \ FailedCodes) :
          proc' = [proc EXCEPT ![s].cands = cands, ![s].unsure = (FailedCodes # {}),
                     ![s].pc = IF cands # <<>> THEN "call"
                               ELSE IF FailedCodes # {} THEN "review" ELSE "refund"]
    BY <2>1
  <2> DEFINE pc == IF cands # <<>> THEN "call" ELSE IF FailedCodes # {} THEN "review" ELSE "refund"
             unsure == FailedCodes # {}
  <2>3. proc' = [proc EXCEPT ![s].cands = cands, ![s].unsure = unsure, ![s].pc = pc] BY <2>2
  <2> HIDE DEF pc, unsure
  <2>4. proc'[s].pc # "waiting" BY <1>3, LookingIs DEF Looking
  <2> QED BY <1>1, <2>3, <2>4 DEF Jobs, SameJob
<1>4. CASE Call(s)
  <2>1. \E a : proc' = [proc EXCEPT ![s].pc = "record", ![s].answer = a] BY <1>4 DEF Call
  <2>2. PICK a : proc' = [proc EXCEPT ![s].pc = "record", ![s].answer = a] BY <2>1
  <2> QED BY <1>1, <2>2 DEF SameJob, Jobs
<1>5. CASE RecordAttempt(s)
  <2>1. proc' = [proc EXCEPT ![s] = Decide(proc[s])] BY <1>5 DEF RecordAttempt
  <2>2. /\ Decide(proc[s]).stalled = proc[s].stalled
        /\ Decide(proc[s]).answer \in {proc[s].answer, "none"}
    BY <1>1 DEF Decide, Outcome, Jobs
  <2>3. Decide(proc[s]).kind = proc[s].kind /\ Decide(proc[s]).detached = proc[s].detached
    BY <1>1, DecideIs
  <2>4. proc'[s].pc # "waiting" BY <1>5, LookingIs DEF Looking
  <2> QED BY <1>1, <2>1, <2>2, <2>3, <2>4 DEF SameJob
<1> QED BY <1>2, <1>3, <1>4, <1>5 DEF Looking

LEMMA WorkerSameJob ==
  ASSUME JobsOK, NEW s \in Slots, Worker(s) \/ CallFails(s), ~EnqueueVerify(s) PROVE SameJob(s)
<1> USE GotoSameJob, FinishSameJob, ThrowSameJob
<1>1. CASE \/ Start(s) \/ MarkProcessing(s) \/ ReplayRead(s) \/ ReplayWrite(s) \/ HandleSuccess(s)
           \/ HandlePending(s) \/ HandleRequiresReview(s) \/ HandleAllFailed(s) \/ MarkFailed(s)
           \/ RecordFailedJob(s) \/ FinalizeFailed(s)
  BY <1>1 DEF Start, MarkProcessing, ReplayRead, ReplayWrite, HandleSuccess,
     HandlePending, HandleRequiresReview, HandleAllFailed, MarkFailed, RecordFailedJob,
     FinalizeFailed, Refund
<1>2. CASE VerifyTransaction(s)
  BY <1>2 DEF VerifyTransaction, AfterPoll
<1>4. CASE \/ SafetyNetWrite(s) \/ DeadLetterWrite(s) \/ VerifySucceeded(s)
           \/ FinalizeRequiresReview(s) \/ VerifyFailed(s)
  BY <1>4 DEF SafetyNetWrite, DeadLetterWrite, VerifySucceeded,
     FinalizeRequiresReview, VerifyFailed
<1>5. CASE Complete(s) \/ SafetyNetRead(s) \/ DeadLetterRead(s) \/ VerifyLoad(s)
  BY <1>5 DEF Complete, SafetyNetRead, DeadLetterRead, VerifyLoad
<1>6. CASE LoadTransaction(s) \/ TimeoutRead(s) \/ TimeoutWrite(s)
  BY <1>6 DEF LoadTransaction, TimeoutRead, TimeoutWrite
<1>7. CASE RequeueVerify(s)
  <2>1. proc[s] \in Jobs /\ JobOK(proc[s]) /\ proc[s].pc = "requeue" BY <1>7 DEF JobsOK, RequeueVerify
  <2>2. proc[s].kind = "verify" /\ ~proc[s].detached BY <2>1 DEF JobOK, VerifyPc, EnginePc, Jobs
  <2>3. \A q, n : /\ VerifyJob(q, n).kind = "verify" /\ ~VerifyJob(q, n).detached
                  /\ ~VerifyJob(q, n).stalled /\ VerifyJob(q, n).answer = "none"
    BY DEF VerifyJob, Free
  <2>4. proc'[s] = VerifyJob(proc[s].at, proc[s].polls + 1) BY <1>7 DEF RequeueVerify, JobsOK
  <2>5. /\ proc'[s].kind = "verify" /\ ~proc'[s].detached
        /\ ~proc'[s].stalled /\ proc'[s].answer = "none"
    BY <2>3, <2>4
  <2>6. proc[s].detached = FALSE BY <2>1, <2>2 DEF Jobs
  <2>7. proc'[s].detached = FALSE
    <3>1. \A q, n : VerifyJob(q, n).detached = FALSE BY DEF VerifyJob, Free
    <3> QED BY <2>4, <3>1
  <2> QED BY <2>2, <2>5, <2>6, <2>7 DEF SameJob
<1>8. CASE CallFails(s)
  <2>1. CASE Throw(s) \/ Finish(s) BY <2>1
  <2>2. CASE proc[s].pc \in CaughtReads /\ proc' = [proc EXCEPT ![s] = AfterCaughtRead(proc[s])]
    <3>1. Goto(s, "complete") \/ Throw(s) \/ Finish(s)
      BY <2>2 DEF AfterCaughtRead, Goto, Throw, Finish, CaughtReads
    <3> QED BY <3>1
  <2> QED BY <1>8, <2>1, <2>2 DEF CallFails
<1>9. CASE Looking(s) BY <1>9, LookingSameJob
<1> QED BY <1>1, <1>2, <1>4, <1>5, <1>6, <1>7, <1>8, <1>9 DEF Worker, Looking

\* The ways of a job through its steps: without a write of the row, ...
Reads(s) ==
  LET from == proc[s].pc
      to   == proc'[s].pc IN
  /\ UNCHANGED tx
  /\ \/ from = "waiting" /\ to = IF proc[s].kind = "verify" THEN "verifyLoad" ELSE "load"
     \/ from = "load" /\ tx.status = "none" /\ to \in {"free", "waiting", "deadRecord"}
     \/ from = "load" /\ tx.status \in Final /\ to = "free"
     \/ from = "load" /\ to = "mark"
     \/ from = "findSuccess" /\ to = AfterFindSuccess
     \/ from = "replayRead" /\ to = IF tx.status \in Final THEN "complete" ELSE "replayWrite"
     \/ from = "resolve" /\ to \in {"call", "review", "refund"}
     \/ from = "call" /\ to = "record"
     \/ from = "record" /\ to \in {"call", "succeed", "pend", "review", "refund"}
     \/ from = "enqueue" /\ to = "complete"
     \/ from = "refund" /\ to = "fail"
     \/ from = "complete" /\ to = IF service = "airtime" /\ ~proc[s].detached /\ proc[s].answer # "pending"
                                  THEN "netRead" ELSE "free"
     \/ from = "netRead" /\ to = IF tx.status = "processing" THEN "netWrite" ELSE "free"
     \/ from = "timeoutRead" /\ tx.status \in Final /\ to \in {"free", "waiting", "deadRecord"}
     \/ from = "timeoutRead" /\ tx.status \notin Final /\ to = "timeoutWrite"
     \/ from = "deadRecord" /\ to = "deadRead"
     \/ from = "deadRead" /\ to = IF tx.status \in Final \union {"none"} THEN "free" ELSE "deadWrite"
     \/ from \in VerifyPc /\ to \in VerifyPc \union {"free", "waiting"}
\* ... and with one.
Writes(s) ==
  LET from == proc[s].pc
      to   == proc'[s].pc IN
  \/ from = "mark" /\ to = "findSuccess" /\ tx'.status = "processing" /\ tx'.provider = tx.provider
  \/ from = "pend" /\ to = "enqueue" /\ tx'.status = "processing" /\ tx'.provider \in Providers
  \/ /\ tx'.status \in Ended
     /\ \/ from \in {"replayWrite", "succeed", "review", "fail"} /\ to = "complete"
        \/ from \in {"netWrite", "deadWrite"} /\ to = "free"
        \/ from = "timeoutWrite" /\ to \in {"free", "waiting", "deadRecord"}
        \/ from \in VerifyPc /\ to = "free"

LEMMA WorkerMoves ==
  ASSUME JobsOK, tx \in Row, NEW s \in Slots, Worker(s) PROVE Reads(s) \/ Writes(s)
<1>1. proc[s] \in Jobs /\ JobOK(proc[s]) BY DEF JobsOK
<1>2. CASE Start(s) BY <1>2, GotoIs DEF Start, Reads
<1>3. CASE LoadTransaction(s)
  BY <1>3, FreeIs, GotoIs, FinishIs, ThrowIs DEF LoadTransaction, Reads, Skippable
<1>4. CASE MarkProcessing(s) BY <1>4, GotoIs, Written DEF MarkProcessing, Writes
<1>5. CASE Looking(s)
  <2>1. UNCHANGED tx BY <1>5 DEF Looking, FindSuccess, Resolve, Call, RecordAttempt
  <2>2. CASE FindSuccess(s) BY <2>1, <2>2, GotoIs DEF FindSuccess, Reads
  <2>3. CASE Resolve(s) BY <1>5, <2>1, <2>3, LookingIs DEF Resolve, Reads
  <2>4. CASE Call(s) BY <1>5, <2>1, <2>4, LookingIs DEF Call, Reads
  <2>5. CASE RecordAttempt(s) BY <1>5, <2>1, <2>5, LookingIs DEF RecordAttempt, Reads
  <2> QED BY <1>5, <2>2, <2>3, <2>4, <2>5 DEF Looking
<1>6. CASE ReplayRead(s) BY <1>6, GotoIs DEF ReplayRead, Reads
<1>7. CASE ReplayWrite(s) \/ HandleSuccess(s) \/ HandleRequiresReview(s) \/ MarkFailed(s)
  BY <1>7, GotoIs, Written
     DEF ReplayWrite, HandleSuccess, HandleRequiresReview, MarkFailed, Writes, Ended, Final
<1>8. CASE HandlePending(s)
  BY <1>8, GotoIs, Written, InHand DEF HandlePending, Writes, HeadPc
<1>9. CASE EnqueueVerify(s) BY <1>9, EnqueueVerifyIs DEF EnqueueVerify, Reads
<1>10. CASE HandleAllFailed(s) BY <1>10, GotoIs DEF HandleAllFailed, Refund, Reads
<1>11. CASE Complete(s)
  <2>1. CASE service = "airtime" /\ ~proc[s].detached /\ proc[s].answer # "pending"
    BY <1>11, <2>1, GotoIs DEF Complete, Reads
  <2>2. CASE ~(service = "airtime" /\ ~proc[s].detached /\ proc[s].answer # "pending")
    BY <1>11, <2>2, FinishIs, FreeIs DEF Complete, Reads
  <2> QED BY <2>1, <2>2
<1>12. CASE SafetyNetRead(s) BY <1>12, GotoIs, FinishIs, FreeIs DEF SafetyNetRead, Reads
<1>13. CASE SafetyNetWrite(s) \/ DeadLetterWrite(s)
  BY <1>13, FinishIs, FreeIs, Written DEF SafetyNetWrite, DeadLetterWrite, Writes, Ended, Final
<1>14. CASE TimeoutRead(s) BY <1>14, GotoIs, ThrowIs, FreeIs DEF TimeoutRead, Reads
<1>15. CASE TimeoutWrite(s)
  BY <1>15, ThrowIs, FreeIs, Written DEF TimeoutWrite, Writes, Ended, Final
<1>16. CASE RecordFailedJob(s) BY <1>16, GotoIs DEF RecordFailedJob, Reads
<1>17. CASE DeadLetterRead(s) BY <1>17, GotoIs, FinishIs, FreeIs DEF DeadLetterRead, Reads
<1>18. CASE VerifyLoad(s)
  BY <1>18, GotoIs, FinishIs, FreeIs DEF VerifyLoad, Reads, VerifyPc
<1>19. CASE VerifyTransaction(s)
  BY <1>19, GotoIs DEF VerifyTransaction, AfterPoll, Reads, VerifyPc
<1>20. CASE VerifySucceeded(s) \/ FinalizeRequiresReview(s) \/ VerifyFailed(s)
  BY <1>20, FinishIs, FreeIs, Written
     DEF VerifySucceeded, FinalizeRequiresReview, VerifyFailed, Writes, VerifyPc, Ended, Final
<1>21. CASE RequeueVerify(s)
  <2>1. \A q, n : VerifyJob(q, n).pc = "waiting" BY DEF VerifyJob, Free
  <2> QED BY <1>21, <2>1 DEF RequeueVerify, JobsOK, Reads, VerifyPc
<1>22. CASE FinalizeFailed(s) BY <1>22, GotoIs DEF FinalizeFailed, Refund, Reads, VerifyPc
<1> QED BY <1>2, <1>3, <1>4, <1>5, <1>6, <1>7, <1>8, <1>9, <1>10, <1>11, <1>12, <1>13, <1>14,
           <1>15, <1>16, <1>17, <1>18, <1>19, <1>20, <1>21, <1>22 DEF Worker, Looking

\* Where a job is after an error: out, queued again, with the dead letters, or, when
\* it looked at the status of a recorded success, at its end.
LEMMA FailMoves ==
  ASSUME JobsOK, NEW s \in Slots, CallFails(s)
  PROVE  /\ UNCHANGED tx
         /\ \/ proc[s].pc = "replayRead" /\ proc'[s].pc = "complete"
            \/ /\ proc[s].pc \in {"netRead", "deadRecord", "deadRead", "deadWrite", "verifyLoad"}
               /\ proc'[s].pc = "free"
            \/ /\ proc[s].pc \in Throwing \union {"timeoutRead", "timeoutWrite"}
               /\ Throw(s)
<1>1. UNCHANGED tx BY DEF CallFails
<1>2. CASE proc[s].pc \in Throwing \union {"timeoutWrite"} /\ Throw(s) BY <1>1, <1>2
<1>3. CASE proc[s].pc \in {"deadRecord", "deadWrite"} /\ Finish(s)
  BY <1>1, <1>3, FinishIs, FreeIs
<1>4. CASE proc[s].pc \in CaughtReads /\ proc' = [proc EXCEPT ![s] = AfterCaughtRead(proc[s])]
  <2>1. CASE proc[s].pc = "replayRead"
    <3>1. Goto(s, "complete") BY <1>4, <2>1 DEF AfterCaughtRead, Goto
    <3> QED BY <1>1, <2>1, <3>1, GotoIs
  <2>2. CASE proc[s].pc = "timeoutRead"
    <3>1. Throw(s) BY <1>4, <2>2 DEF AfterCaughtRead, Throw
    <3> QED BY <1>1, <2>2, <3>1
  <2>3. CASE proc[s].pc \notin {"replayRead", "timeoutRead"}
    <3>1. Finish(s) BY <1>4, <2>3 DEF AfterCaughtRead, Finish
    <3>2. proc[s].pc \in {"netRead", "deadRead", "verifyLoad"} BY <1>4, <2>3 DEF CaughtReads
    <3> QED BY <1>1, <3>1, <3>2, FinishIs, FreeIs
  <2> QED BY <2>1, <2>2, <2>3
<1> QED BY <1>2, <1>3, <1>4 DEF CallFails

\* The job that BullMQ answers for, as opposed to an execution a timeout abandoned.
Main(s) == proc[s].kind = "purchase" /\ ~proc[s].detached
\* The purchase has ended, or a provider is known to ask about it.
Settled == tx.status \in Ended \/ tx.provider # NoProvider

PastMark == EnginePc \union {"netRead", "netWrite", "timeoutRead", "timeoutWrite"}
\* Where the job will come to the row again.
Carrying == (PastMark \ {"enqueue", "complete"}) \union DeadPc \union {"waiting", "load", "mark"}
Carrier(s) ==
  /\ Main(s)
  /\ \/ proc[s].pc \in Carrying
     \/ proc[s].pc = "complete" /\ service = "airtime" /\ proc[s].answer # "pending"

\* There is one such job; the row is in "processing" once it passed its mark; and it
\* has no answer in hand before it asks.
PlaceInv ==
  /\ \A s, t \in Slots : Main(s) /\ Main(t) => s = t
  /\ tx.provider # NoProvider => tx.status \notin {"none", "pending"}
  /\ \A s \in Slots :
       /\ proc[s].pc \in PastMark => tx.status \notin {"none", "pending"}
       /\ proc[s].pc \in {"waiting", "load", "mark", "findSuccess", "replayRead"} =>
            proc[s].answer = "none"
       /\ proc[s].pc \in {"timeoutRead", "timeoutWrite"} => service = "airtime"
  /\ api # "done" => attempts = <<>>

\* Before the first mishap: no job was resumed, one that is about to leave has
\* settled the purchase, and a data purchase meets no attempt of a predecessor.
Fresh(s) ==
  /\ ~proc[s].stalled
  /\ Main(s) /\ proc[s].pc \in DeadPc \union {"complete", "netRead", "netWrite", "enqueue"} => Settled
  /\ service = "vtu" /\ Main(s) /\ proc[s].pc \in {"waiting", "load", "mark", "findSuccess"} =>
       attempts = <<>>
  /\ service = "vtu" => proc[s].pc \notin {"replayRead", "replayWrite"}
FreshInv == MishapCount = 0 => \A s \in Slots : Fresh(s)

\* After one mishap at most, the purchase is settled or some job carries it on.
CarriedInv == MishapCount <= 1 /\ api = "done" => Settled \/ \E s \in Slots : Carrier(s)

LEMMA TimeoutJob ==
  ASSUME JobsOK, NEW s \in Slots, Timeout(s)
  PROVE  /\ service = "airtime" /\ UNCHANGED <<tx, attempts, service, api, mishaps>>
         /\ proc[s].pc \in EnginePc /\ Main(s)
         /\ FreeSlot \in Slots /\ FreeSlot # s /\ proc[FreeSlot] = Free
         /\ proc'[FreeSlot] = [proc[s] EXCEPT !.detached = TRUE]
         /\ proc'[s].pc = "timeoutRead" /\ proc'[s].kind = "purchase" /\ ~proc'[s].detached
         /\ proc'[s].stalled = proc[s].stalled
         /\ \A t \in Slots : t \notin {s, FreeSlot} => proc'[t] = proc[t]
<1>1. proc[s] \in Jobs /\ JobOK(proc[s]) /\ proc \in [Slots -> Jobs] BY DEF JobsOK
<1>2. /\ service = "airtime" /\ UNCHANGED <<tx, attempts, service, api, mishaps>>
      /\ proc[s].pc \in EnginePc /\ ~proc[s].detached /\ FreeSlots # {}
  BY DEF Timeout, kept
<1>3. Main(s) BY <1>1, <1>2 DEF Main, JobOK, PurchasePc
<1>4. FreeSlot # s /\ FreeSlot \in Slots /\ proc[FreeSlot] = Free BY <1>2, FreeSlotIs DEF Free, EnginePc
<1> DEFINE r == [Requeued(proc[s]) EXCEPT !.pc = "timeoutRead"]
<1>5. /\ r.pc = "timeoutRead" /\ r.kind = proc[s].kind /\ ~r.detached
      /\ r.stalled = proc[s].stalled
  BY DEF Requeued, Free
<1>6. proc' = [proc EXCEPT ![FreeSlot] = [proc[s] EXCEPT !.detached = TRUE], ![s] = r]
  BY DEF Timeout
<1> HIDE DEF r
<1> QED BY <1>1, <1>2, <1>3, <1>4, <1>5, <1>6 DEF Main

LEMMA CrashIs ==
  ASSUME JobsOK, WorkerCrash, NEW s \in Slots
  PROVE  \/ proc'[s] = proc[s]
         \/ proc'[s] = Free /\ (proc[s].detached \/ proc[s].stalled \/ proc[s].pc \in DeadPc)
         \/ /\ proc'[s].kind = proc[s].kind /\ proc'[s].pc = "waiting" /\ ~proc'[s].detached
            /\ ~proc[s].detached /\ proc'[s].answer = "none"
<1>1. proc'[s] = AfterCrash(proc[s]) BY DEF WorkerCrash
<1> DEFINE r == [Requeued(proc[s]) EXCEPT !.stalled = TRUE]
<1>2. r.kind = proc[s].kind /\ r.pc = "waiting" /\ ~r.detached /\ r.answer = "none"
  BY DEF Requeued, Free
<1>3. \/ proc'[s] = proc[s]
      \/ proc'[s] = Free /\ (proc[s].detached \/ proc[s].stalled \/ proc[s].pc \in DeadPc)
      \/ proc'[s] = r /\ ~proc[s].detached
  BY <1>1 DEF AfterCrash, DeadPc
<1> HIDE DEF r
<1> QED BY <1>2, <1>3

LEMMA AddJobIs ==
  ASSUME JobsOK, AddJob
  PROVE  \E f \in Slots :
           /\ proc'[f].kind = "purchase" /\ proc'[f].pc = "waiting" /\ ~proc'[f].detached
           /\ ~proc'[f].stalled /\ proc'[f].answer = "none"
           /\ \A t \in Slots : t # f => proc'[t] = proc[t]
<1>1. FreeSlot \in Slots /\ proc' = [proc EXCEPT ![FreeSlot] = PurchaseJob(MaxAttempts)]
  BY FreeSlotIs DEF AddJob
<1> DEFINE j == PurchaseJob(MaxAttempts)
<1>2. /\ j.kind = "purchase" /\ j.pc = "waiting" /\ ~j.detached
      /\ ~j.stalled /\ j.answer = "none"
  BY DEF PurchaseJob, Free
<1> HIDE DEF j
<1>3. proc'[FreeSlot] = j /\ \A t \in Slots : t # FreeSlot => proc'[t] = proc[t]
  BY <1>1 DEF JobsOK, j
<1> QED BY <1>1, <1>2, <1>3

LEMMA EnqueueIs ==
  ASSUME JobsOK, NEW s \in Slots, EnqueueVerify(s)
  PROVE  \E f \in Slots :
           /\ f # s /\ proc[f] = Free /\ proc'[f].kind = "verify" /\ proc'[f].pc = "waiting"
           /\ ~proc'[f].detached /\ ~proc'[f].stalled /\ proc'[f].answer = "none"
           /\ \A t \in Slots : t \notin {s, f} => proc'[t] = proc[t]
           /\ proc'[s].kind = proc[s].kind /\ proc'[s].detached = proc[s].detached
           /\ proc'[s].stalled = proc[s].stalled /\ proc'[s].pc = "complete"
<1>1. FreeSlot \in Slots /\ FreeSlot # s /\ proc[FreeSlot] = Free BY EnqueueVerifyIs
<1>2. proc' = [proc EXCEPT ![s].pc = "complete", ![FreeSlot] = VerifyJob(Head(proc[s].cands), 0)]
  BY DEF EnqueueVerify
<1> DEFINE j == VerifyJob(Head(proc[s].cands), 0)
<1>3. j.kind = "verify" /\ j.pc = "waiting" /\ ~j.detached /\ ~j.stalled /\ j.answer = "none"
  BY DEF VerifyJob, Free
<1> HIDE DEF j
<1>4. proc'[FreeSlot] = j /\ \A t \in Slots : t \notin {s, FreeSlot} => proc'[t] = proc[t]
  BY <1>1, <1>2 DEF JobsOK, j
<1>5. proc[s] \in Jobs BY DEF JobsOK
<1>6. proc'[s] = [proc[s] EXCEPT !.pc = "complete"] BY <1>1, <1>2 DEF JobsOK
<1>7. /\ proc'[s].kind = proc[s].kind /\ proc'[s].detached = proc[s].detached
      /\ proc'[s].stalled = proc[s].stalled /\ proc'[s].pc = "complete"
  BY <1>5, <1>6 DEF Jobs
<1> QED BY <1>1, <1>3, <1>4, <1>7

\* A step of a worker or an error, as the invariants see it.
LEMMA MainStays ==
  ASSUME NEW s \in Slots, SameJob(s), \A t \in Slots : t # s => proc'[t] = proc[t],
         NEW t \in Slots, Main(t)'
  PROVE  Main(t)
<1>1. proc'[t].kind = "purchase" /\ ~proc'[t].detached BY DEF Main
<1>2. CASE t # s BY <1>1, <1>2 DEF Main
<1>3. CASE t = s
  <2>1. proc'[s].kind # "free" BY <1>1, <1>3
  <2>2. proc'[s].kind = proc[s].kind /\ (proc'[s].detached <=> proc[s].detached)
    BY <2>1 DEF SameJob
  <2> QED BY <1>1, <1>3, <2>2 DEF Main
<1> QED BY <1>2, <1>3

LEMMA PlaceKept ==
  ASSUME PlaceInv, NEW s \in Slots, SameJob(s), \A t \in Slots : t # s => proc'[t] = proc[t],
         api' = "done", service' = service,
         tx' = tx \/ tx'.status \notin {"none", "pending"},
         proc'[s].pc \in PastMark => proc[s].pc \in PastMark \/ tx'.status \notin {"none", "pending"},
         proc'[s].pc \in {"load", "mark", "findSuccess", "replayRead"} =>
           proc[s].pc \in {"waiting", "load", "mark", "findSuccess"},
         proc'[s].pc \in {"timeoutRead", "timeoutWrite"} => proc[s].pc = "timeoutRead"
  PROVE  PlaceInv'
<1>1. \A r, t \in Slots : Main(r)' /\ Main(t)' => r = t BY MainStays DEF PlaceInv
<1>2. tx'.provider # NoProvider => tx'.status \notin {"none", "pending"} BY DEF PlaceInv
<1>3. ASSUME NEW t \in Slots
      PROVE  /\ proc'[t].pc \in PastMark => tx'.status \notin {"none", "pending"}
             /\ proc'[t].pc \in {"waiting", "load", "mark", "findSuccess", "replayRead"} =>
                  proc'[t].answer = "none"
             /\ proc'[t].pc \in {"timeoutRead", "timeoutWrite"} => service' = "airtime"
  <2>1. CASE t # s BY <2>1 DEF PlaceInv
  <2>2. CASE t = s
    <3>1. proc'[s].pc \in PastMark => tx'.status \notin {"none", "pending"} BY DEF PlaceInv
    <3>2. proc'[s].pc \in {"timeoutRead", "timeoutWrite"} => service' = "airtime" BY DEF PlaceInv
    <3>3. proc'[s].pc \in {"waiting", "load", "mark", "findSuccess", "replayRead"} =>
            proc'[s].answer = "none"
      BY DEF PlaceInv, SameJob
    <3> QED BY <2>2, <3>1, <3>2, <3>3
  <2> QED BY <2>1, <2>2
<1>4. (api # "done" => attempts = <<>>)' OBVIOUS
<1> QED BY <1>1, <1>2, <1>3, <1>4 DEF PlaceInv

\* Without jobs, and for the steps that leave them alone.
LEMMA PlaceSame ==
  ASSUME PlaceInv, proc' = proc, service' = service, attempts' = attempts,
         api' = "done" => api = "done" \/ attempts = <<>>, api' # "done" => api # "done",
         \/ tx' = tx
         \/ tx'.provider = NoProvider /\ \A s \in Slots : proc[s].pc = "free"
  PROVE  PlaceInv'
BY DEF PlaceInv, Main, PastMark, EnginePc

LEMMA PlaceSlot ==
  ASSUME PlaceInv, RowInv, JobsOK, tx \in Row, NEW s \in Slots, Worker(s) \/ CallFails(s),
         ~EnqueueVerify(s)
  PROVE  PlaceInv'
<1>1. /\ proc[s].pc # "free" /\ api' = api /\ service' = service BY Busy
<1>2. api' = "done" BY <1>1 DEF RowInv
<1>3. \A t \in Slots : t # s => proc'[t] = proc[t]
  BY LookingIs, Elsewhere
<1>4. SameJob(s) BY WorkerSameJob
<1> SUFFICES /\ tx' = tx \/ tx'.status \notin {"none", "pending"}
             /\ proc'[s].pc \in PastMark =>
                  proc[s].pc \in PastMark \/ tx'.status \notin {"none", "pending"}
             /\ proc'[s].pc \in {"load", "mark", "findSuccess", "replayRead"} =>
                  proc[s].pc \in {"waiting", "load", "mark", "findSuccess"}
             /\ proc'[s].pc \in {"timeoutRead", "timeoutWrite"} => proc[s].pc = "timeoutRead"
  BY <1>1, <1>2, <1>3, <1>4, PlaceKept
<1>5. CASE Worker(s)
  <2>1. CASE Reads(s) BY <2>1 DEF Reads, PastMark, EnginePc, VerifyPc, AfterFindSuccess
  <2>2. CASE Writes(s) BY <2>2 DEF Writes, PastMark, EnginePc, VerifyPc, Ended, Final
  <2> QED BY <1>5, <2>1, <2>2, WorkerMoves
<1>6. CASE CallFails(s)
  BY <1>6, FailMoves, ThrowIs, FreeIs DEF PastMark, EnginePc
<1> QED BY <1>5, <1>6

LEMMA PlacePreserved ==
  ASSUME PlaceInv, RowInv, JobsOK, tx \in Row, [Next]_vars PROVE PlaceInv'
<1>1. CASE Debit \/ RequestLost \/ UNCHANGED vars
  BY <1>1, PlaceSame DEF Debit, RequestLost, vars, kept
<1>2. CASE CreateTransaction
  <2>1. /\ api = "row" /\ api' = "add" /\ UNCHANGED <<proc, service, attempts>>
        /\ tx'.provider = tx.provider
    BY <1>2, Written DEF CreateTransaction, kept
  <2>2. tx.status = "none" /\ \A s \in Slots : proc[s].pc = "free" BY <2>1 DEF RowInv
  <2>3. tx.provider = NoProvider BY <2>2 DEF PlaceInv
  <2> QED BY <2>1, <2>2, <2>3, PlaceSame
<1>3. CASE AddJob
  <2>1. /\ api = "add" /\ api' = "done" /\ UNCHANGED <<tx, attempts, service>>
    BY <1>3 DEF AddJob, kept
  <2>2. PICK f \in Slots : /\ proc'[f].kind = "purchase" /\ proc'[f].pc = "waiting"
                           /\ proc'[f].answer = "none"
                           /\ \A t \in Slots : t # f => proc'[t] = proc[t]
    BY <1>3, AddJobIs
  <2>3. \A s \in Slots : proc[s].pc = "free" /\ proc[s].kind = "free"
    BY <2>1 DEF RowInv, JobsOK, JobOK
  <2>4. \A s, t \in Slots : Main(s)' /\ Main(t)' => s = t BY <2>2, <2>3 DEF Main
  <2>5. \A s \in Slots : proc'[s].pc \in {"free", "waiting"} BY <2>2, <2>3
  <2>6. \A s \in Slots : proc'[s].pc = "waiting" => proc'[s].answer = "none" BY <2>2, <2>3
  <2>7. (tx.provider # NoProvider => tx.status \notin {"none", "pending"})' BY <2>1 DEF PlaceInv
  <2> QED BY <2>1, <2>4, <2>5, <2>6, <2>7 DEF PlaceInv, PastMark, EnginePc
<1>4. CASE WorkerCrash
  <2>1. UNCHANGED <<tx, attempts, service, api>> BY <1>4 DEF WorkerCrash
  <2>2. ASSUME NEW s \in Slots
        PROVE  /\ Main(s)' => Main(s)
               /\ \/ proc'[s] = proc[s]
                  \/ proc'[s].pc \in {"free", "waiting"} /\ proc'[s].answer = "none"
    BY <1>4, CrashIs, FreeIs DEF Main
  <2>3. \A s, t \in Slots : Main(s)' /\ Main(t)' => s = t BY <2>2 DEF PlaceInv
  <2>4. ASSUME NEW s \in Slots
        PROVE  /\ proc'[s].pc \in PastMark => tx'.status \notin {"none", "pending"}
               /\ proc'[s].pc \in {"waiting", "load", "mark", "findSuccess", "replayRead"} =>
                    proc'[s].answer = "none"
               /\ proc'[s].pc \in {"timeoutRead", "timeoutWrite"} => service' = "airtime"
    BY <2>1, <2>2 DEF PlaceInv, PastMark, EnginePc
  <2> QED BY <2>1, <2>3, <2>4 DEF PlaceInv
<1>5. ASSUME NEW p \in Providers, NEW i \in DOMAIN orders[p], Settle(p, i) PROVE PlaceInv'
  BY <1>5, PlaceSame DEF Settle, kept
<1>6. ASSUME NEW s \in Slots, EnqueueVerify(s) PROVE PlaceInv'
  <2>1. /\ UNCHANGED <<tx, attempts, service, api>> /\ proc[s].pc = "enqueue"
    BY <1>6 DEF EnqueueVerify, kept
  <2>2. PICK f \in Slots :
          /\ f # s /\ proc'[f].kind = "verify" /\ proc'[f].pc = "waiting"
          /\ proc'[f].answer = "none"
          /\ \A t \in Slots : t \notin {s, f} => proc'[t] = proc[t]
          /\ proc'[s].kind = proc[s].kind /\ proc'[s].detached = proc[s].detached
          /\ proc'[s].pc = "complete"
    BY <1>6, EnqueueIs
  <2>3. \A t \in Slots : Main(t)' => Main(t) BY <2>2 DEF Main
  <2>4. \A r, t \in Slots : Main(r)' /\ Main(t)' => r = t BY <2>3 DEF PlaceInv
  <2>5. ASSUME NEW t \in Slots
        PROVE  /\ proc'[t].pc \in PastMark => tx'.status \notin {"none", "pending"}
               /\ proc'[t].pc \in {"waiting", "load", "mark", "findSuccess", "replayRead"} =>
                    proc'[t].answer = "none"
               /\ proc'[t].pc \in {"timeoutRead", "timeoutWrite"} => service' = "airtime"
    BY <2>1, <2>2 DEF PlaceInv, PastMark, EnginePc
  <2> QED BY <2>1, <2>4, <2>5 DEF PlaceInv
<1>7. ASSUME NEW s \in Slots, Timeout(s) PROVE PlaceInv'
  <2>1. PICK f \in Slots :
          /\ f # s /\ proc'[f] = [proc[s] EXCEPT !.detached = TRUE]
          /\ \A t \in Slots : t \notin {s, f} => proc'[t] = proc[t]
    BY <1>7, TimeoutJob
  <2>2. proc[s] \in Jobs BY DEF JobsOK
  <2>3. /\ proc'[f].detached /\ proc'[f].pc = proc[s].pc /\ proc'[f].answer = proc[s].answer
    BY <2>1, <2>2 DEF Jobs
  <2>4. /\ service = "airtime" /\ UNCHANGED <<tx, attempts, service, api>> /\ Main(s)
        /\ proc[s].pc \in EnginePc /\ proc'[s].pc = "timeoutRead"
    BY <1>7, TimeoutJob
  <2>5. \A t \in Slots : Main(t)' => Main(t) BY <2>1, <2>3, <2>4 DEF Main
  <2>6. \A r, t \in Slots : Main(r)' /\ Main(t)' => r = t BY <2>5 DEF PlaceInv
  <2>7. ASSUME NEW t \in Slots
        PROVE  /\ proc'[t].pc \in PastMark => tx'.status \notin {"none", "pending"}
               /\ proc'[t].pc \in {"waiting", "load", "mark", "findSuccess", "replayRead"} =>
                    proc'[t].answer = "none"
               /\ proc'[t].pc \in {"timeoutRead", "timeoutWrite"} => service' = "airtime"
    BY <2>1, <2>3, <2>4 DEF PlaceInv, PastMark
  <2> QED BY <2>4, <2>6, <2>7 DEF PlaceInv
<1>8. ASSUME NEW s \in Slots, (Worker(s) \/ CallFails(s)) /\ ~EnqueueVerify(s) PROVE PlaceInv'
  BY <1>8, PlaceSlot
<1> QED BY <1>1, <1>2, <1>3, <1>4, <1>5, <1>6, <1>7, <1>8 DEF Next, Controller

\* Only a job at its mark makes a settled purchase open again.
LEMMA SettledStays ==
  ASSUME JobsOK, tx \in Row, Settled, NEW s \in Slots, Worker(s) \/ Timeout(s) \/ CallFails(s),
         proc[s].pc # "mark" \/ CallFails(s)
  PROVE  Settled'
<1>1. CASE UNCHANGED tx BY <1>1 DEF Settled
<1>2. CASE Worker(s)
  <2>1. CASE Reads(s) BY <1>1, <2>1 DEF Reads
  <2>2. CASE Writes(s) /\ proc[s].pc # "mark" BY <2>2, RouteAssumption DEF Writes, Settled
  <2>3. CASE CallFails(s) BY <1>1, <2>3 DEF CallFails
  <2> QED BY <1>2, <2>1, <2>2, <2>3, WorkerMoves
<1>3. CASE Timeout(s) \/ CallFails(s) BY <1>1, <1>3 DEF Timeout, CallFails
<1> QED BY <1>2, <1>3

LEMMA AtMark ==
  ASSUME JobsOK, NEW s \in Slots, proc[s].pc = "mark" PROVE Main(s)
BY DEF JobsOK, JobOK, PurchasePc, EnginePc, Main

\* The other jobs, when the step of a worker is not theirs.
LEMMA FreshElsewhere ==
  ASSUME JobsOK, tx \in Row, PlaceInv, Single, NEW s \in Slots, Worker(s) \/ Timeout(s),
         service' = service, NEW u \in Slots, u # s, proc'[u] = proc[u], Fresh(u)
  PROVE  Fresh(u)'
<1>1. ~proc'[u].stalled BY DEF Fresh
<1>2. (Main(u) /\ proc[u].pc \in DeadPc \union {"complete", "netRead", "netWrite", "enqueue"} => Settled)'
  <2> SUFFICES ASSUME Main(u), proc[u].pc \in DeadPc \union {"complete", "netRead", "netWrite", "enqueue"}
               PROVE  Settled'
    BY DEF Main
  <2>1. Settled BY DEF Fresh
  <2>2. proc[s].pc # "mark" BY AtMark DEF PlaceInv
  <2> QED BY <2>1, <2>2, SettledStays
<1>3. (service = "vtu" /\ Main(u) /\ proc[u].pc \in {"waiting", "load", "mark", "findSuccess"} =>
        attempts = <<>>)'
  <2> SUFFICES ASSUME service = "vtu", Main(u), proc[u].pc \in {"waiting", "load", "mark", "findSuccess"}
               PROVE  attempts' = <<>>
    BY DEF Main
  <2>1. attempts = <<>> BY DEF Fresh
  <2>2. ~RecordAttempt(s)
    BY DEF RecordAttempt, JobsOK, JobOK, PurchasePc, EnginePc, Single, Main
  <2> QED BY <2>1, <2>2, SlotUntouched
<1>4. (service = "vtu" => proc[u].pc \notin {"replayRead", "replayWrite"})' BY DEF Fresh
<1> QED BY <1>1, <1>2, <1>3, <1>4 DEF Fresh

\* The job of the step.
LEMMA FreshOwn ==
  ASSUME JobsOK, tx \in Row, PlaceInv, RowInv, Single, NEW s \in Slots, Worker(s),
         ~EnqueueVerify(s), service' = service, service \in Services, Fresh(s)
  PROVE  Fresh(s)'
<1>1. SameJob(s) /\ proc[s] \in Jobs /\ JobOK(proc[s]) BY WorkerSameJob DEF JobsOK
<1>2. (Reads(s) \/ Writes(s)) /\ tx.status # "none"
  <2>1. proc[s].pc # "free" BY Busy
  <2> QED BY <2>1, WorkerMoves DEF RowInv
<1>3. Main(s)' => Main(s)
  <2>1. CASE proc'[s].kind = "free" BY <2>1 DEF Main
  <2>2. CASE proc'[s].kind # "free" BY <1>1, <2>2 DEF Main, SameJob
  <2> QED BY <2>1, <2>2
<1>4. ~proc'[s].stalled BY <1>1 DEF SameJob, Fresh
<1>5. ASSUME Main(s)', proc'[s].pc \in DeadPc \union {"complete", "netRead", "netWrite", "enqueue"}
      PROVE  Settled'
  <2>1. Main(s) BY <1>3, <1>5
  <2>2. CASE Writes(s) BY <1>5, <2>2, RouteAssumption DEF Writes, Settled, DeadPc
  <2>3. CASE Reads(s)
    <3>1. CASE proc[s].pc \in DeadPc \union {"complete", "netRead", "netWrite"}
      <4>1. Settled BY <2>1, <3>1 DEF Fresh
      <4> QED BY <2>3, <4>1 DEF Reads, Settled
    <3>2. CASE proc[s].pc \notin DeadPc \union {"complete", "netRead", "netWrite"}
      <4>1. proc[s].pc # "enqueue"
        <5>1. ASSUME proc[s].pc = "enqueue" PROVE EnqueueVerify(s)
          BY <5>1 DEF Worker, Start, LoadTransaction, MarkProcessing, FindSuccess, ReplayRead,
             ReplayWrite, Resolve, Call, RecordAttempt, HandleSuccess, HandlePending,
             HandleRequiresReview, HandleAllFailed, MarkFailed, Complete, SafetyNetRead,
             SafetyNetWrite, TimeoutRead, TimeoutWrite, RecordFailedJob, DeadLetterRead,
             DeadLetterWrite, VerifyLoad, VerifyTransaction, VerifySucceeded, RequeueVerify,
             FinalizeRequiresReview, FinalizeFailed, VerifyFailed
        <5> QED BY <5>1
      <4>2. tx.status \in Final
        BY <1>2, <1>5, <2>3, <3>2, <4>1 DEF Reads, DeadPc, VerifyPc, AfterFindSuccess
      <4> QED BY <2>3, <4>2 DEF Reads, Settled, Ended
    <3> QED BY <3>1, <3>2
  <2> QED BY <1>2, <2>2, <2>3
<1>6. ASSUME service = "vtu", Main(s)', proc'[s].pc \in {"waiting", "load", "mark", "findSuccess"}
      PROVE  attempts' = <<>>
  <2>1. Main(s) BY <1>3, <1>6
  <2>2. proc[s].pc \notin {"timeoutRead", "timeoutWrite"} BY <1>6 DEF PlaceInv
  <2>3. proc[s].pc \notin VerifyPc BY <1>1, <2>1 DEF Main, JobOK
  <2>4. proc[s].pc \in {"waiting", "load", "mark"}
    BY <1>2, <1>6, <2>2, <2>3 DEF Reads, Writes, AfterFindSuccess
  <2>5. attempts = <<>> BY <1>6, <2>1, <2>4 DEF Fresh
  <2>6. ~RecordAttempt(s) BY <2>4 DEF RecordAttempt
  <2> QED BY <2>5, <2>6, SlotUntouched
<1>7. ASSUME service = "vtu" PROVE proc'[s].pc \notin {"replayRead", "replayWrite"}
  <2>1. CASE proc[s].pc = "findSuccess"
    <3>1. Main(s) BY <1>1, <1>7, <2>1 DEF Main, Single, JobOK, PurchasePc, EnginePc
    <3>2. attempts = <<>> BY <1>7, <2>1, <3>1 DEF Fresh
    <3>3. AfterFindSuccess = "resolve"
      BY <3>2 DEF AfterFindSuccess, SuccessfulAttempt, Attempts
    <3> QED BY <1>2, <2>1, <3>3 DEF Reads, Writes, VerifyPc
  <2>2. CASE proc[s].pc # "findSuccess"
    BY <1>2, <1>7, <2>2 DEF Reads, Writes, Fresh, VerifyPc
  <2> QED BY <2>1, <2>2
<1> QED BY <1>4, <1>5, <1>6, <1>7 DEF Fresh

LEMMA FreshQuiet ==
  ASSUME NEW s \in Slots, Fresh(s), proc'[s] = proc[s], UNCHANGED <<tx, attempts, service>>
  PROVE  Fresh(s)'
BY DEF Fresh, Main, Settled

LEMMA FreshPreserved ==
  ASSUME SoundInv, PlaceInv, RowInv, Single, FreshInv, [Next]_vars
  PROVE  FreshInv'
<1>1. /\ JobsOK /\ tx \in Row /\ mishaps \in MishapCounts /\ service \in Services
  BY TypeOKParts DEF SoundInv
<1> SUFFICES ASSUME MishapCount' = 0, NEW u \in Slots PROVE Fresh(u)' BY DEF FreshInv
<1>2. /\ MishapCount = 0 /\ ~WorkerCrash /\ \A s \in Slots : ~CallFails(s)
  BY <1>1, MishapsGrow
<1>3. \A s \in Slots : Fresh(s) BY <1>2 DEF FreshInv
<1>4. service' = service BY ServiceStays
<1>5. CASE Debit \/ RequestLost \/ UNCHANGED vars
  BY <1>3, <1>5, FreshQuiet DEF Debit, RequestLost, vars, kept
<1>6. CASE CreateTransaction
  <2>1. api = "row" /\ UNCHANGED <<proc, attempts, service>> BY <1>6 DEF CreateTransaction, kept
  <2>2. proc'[u].pc = "free" /\ ~proc'[u].stalled BY <1>3, <2>1 DEF RowInv, Fresh
  <2> QED BY <2>2 DEF Fresh, DeadPc
<1>7. CASE AddJob
  <2>1. PICK f \in Slots : /\ proc'[f].pc = "waiting" /\ ~proc'[f].stalled
                           /\ \A t \in Slots : t # f => proc'[t] = proc[t]
    BY <1>1, <1>7, AddJobIs
  <2>2. api = "add" /\ UNCHANGED <<tx, attempts, service>> BY <1>7 DEF AddJob, kept
  <2>3. attempts' = <<>> BY <2>2 DEF PlaceInv
  <2>4. CASE u = f BY <2>1, <2>3, <2>4 DEF Fresh, DeadPc
  <2>5. CASE u # f BY <1>3, <2>1, <2>2, <2>5, FreshQuiet
  <2> QED BY <2>4, <2>5
<1>8. ASSUME NEW p \in Providers, NEW i \in DOMAIN orders[p], Settle(p, i) PROVE Fresh(u)'
  BY <1>3, <1>8, FreshQuiet DEF Settle, kept
<1>9. ASSUME NEW s \in Slots, EnqueueVerify(s) PROVE Fresh(u)'
  <2>1. UNCHANGED <<tx, attempts, service>> /\ proc[s].pc = "enqueue"
    BY <1>9 DEF EnqueueVerify, kept
  <2>2. PICK f \in Slots :
          /\ f # s /\ proc'[f].kind = "verify" /\ proc'[f].pc = "waiting" /\ ~proc'[f].stalled
          /\ \A t \in Slots : t \notin {s, f} => proc'[t] = proc[t]
          /\ proc'[s].kind = proc[s].kind /\ proc'[s].detached = proc[s].detached
          /\ proc'[s].stalled = proc[s].stalled /\ proc'[s].pc = "complete"
    BY <1>1, <1>9, EnqueueIs
  <2>3. CASE u = f BY <2>2, <2>3 DEF Fresh, Main, DeadPc
  <2>4. CASE u = s BY <1>3, <2>1, <2>2, <2>4 DEF Fresh, Main, Settled
  <2>5. CASE u \notin {s, f} BY <1>3, <2>1, <2>2, <2>5, FreshQuiet
  <2> QED BY <2>3, <2>4, <2>5
<1>10. ASSUME NEW s \in Slots, Timeout(s) PROVE Fresh(u)'
  <2>1. /\ service = "airtime" /\ UNCHANGED <<tx, attempts, service>>
        /\ proc[s].pc \in EnginePc
    BY <1>1, <1>10, TimeoutJob
  <2>2. PICK f \in Slots :
          /\ f # s /\ proc'[f] = [proc[s] EXCEPT !.detached = TRUE]
          /\ proc'[s].pc = "timeoutRead" /\ proc'[s].stalled = proc[s].stalled
          /\ \A t \in Slots : t \notin {s, f} => proc'[t] = proc[t]
    BY <1>1, <1>10, TimeoutJob
  <2>3. CASE u = f
    <3>1. proc'[f].detached /\ proc'[f].stalled = proc[s].stalled BY <1>1, <2>2 DEF JobsOK, Jobs
    <3> QED BY <1>3, <2>1, <2>3, <3>1 DEF Fresh, Main
  <2>4. CASE u = s BY <1>3, <2>1, <2>2, <2>4 DEF Fresh, DeadPc
  <2>5. CASE u \notin {s, f} BY <1>3, <2>1, <2>2, <2>5, FreshQuiet
  <2> QED BY <2>3, <2>4, <2>5
<1>11. ASSUME NEW s \in Slots, Worker(s), ~EnqueueVerify(s) PROVE Fresh(u)'
  <2>1. CASE u = s BY <1>1, <1>3, <1>4, <1>11, <2>1, FreshOwn
  <2>2. CASE u # s
    <3>1. proc'[u] = proc[u] BY <1>1, <1>11, <2>2, LookingIs, Elsewhere
    <3> QED BY <1>1, <1>3, <1>4, <1>11, <2>2, <3>1, FreshElsewhere
  <2> QED BY <2>1, <2>2
<1> QED BY <1>2, <1>5, <1>6, <1>7, <1>8, <1>9, <1>10, <1>11 DEF Next, Controller

\* The job that carries the purchase goes on carrying it until it has settled it.
LEMMA CarrierStep ==
  ASSUME SoundInv, PlaceInv, RowInv, NEW s \in Slots, Worker(s) \/ Timeout(s) \/ CallFails(s),
         Carrier(s), ~Settled, CallFails(s) => Fresh(s), service' = service
  PROVE  Settled' \/ Carrier(s)'
<1>1. /\ JobsOK /\ tx \in Row /\ service \in Services BY TypeOKParts DEF SoundInv
<1>2. proc[s] \in Jobs /\ JobOK(proc[s]) /\ Main(s) BY <1>1 DEF JobsOK, Carrier
<1>3. proc[s].pc # "free" /\ tx.status # "none" BY Busy DEF RowInv
<1>4. CASE Worker(s)
  <2>1. ~EnqueueVerify(s) BY DEF EnqueueVerify, Carrier, Carrying, DeadPc
  <2>2. SameJob(s) BY <1>1, <1>4, <2>1, WorkerSameJob
  <2>3. proc[s].pc \notin VerifyPc BY <1>2 DEF Main, JobOK
  <2>4. CASE Writes(s)
    <3>1. CASE proc[s].pc = "mark"
      <4>1. proc'[s].pc = "findSuccess" BY <2>3, <2>4, <3>1 DEF Writes
      <4>2. proc'[s].kind # "free" /\ Main(s)'
        <5>1. proc'[s].pc # "free" BY <4>1
        <5> QED BY <1>2, <2>2, <5>1 DEF SameJob, Main
      <4> QED BY <4>1, <4>2 DEF Carrier, Carrying, PastMark, EnginePc
    <3>2. CASE proc[s].pc # "mark"
      BY <2>4, <3>2, RouteAssumption DEF Writes, Settled
    <3> QED BY <3>1, <3>2
  <2>5. CASE Reads(s)
    <3>1. tx.status \notin Final BY DEF Settled, Ended
    <3>2. proc[s].pc = "netRead" => tx.status = "processing"
      BY <1>1 DEF PlaceInv, PastMark, Settled, Ended, Row, Status
    <3>3. ~proc[s].detached /\ proc[s].kind # "verify" BY <1>2 DEF Main
    <3>4. proc'[s].pc \in Carrying
      BY <1>3, <2>3, <2>5, <3>1, <3>2, <3>3
         DEF Reads, Carrier, Carrying, PastMark, EnginePc, DeadPc, AfterFindSuccess
    <3>5. Main(s)'
      <4>1. proc'[s].pc # "free" BY <3>4 DEF Carrying, PastMark, EnginePc, DeadPc
      <4> QED BY <1>2, <2>2, <4>1 DEF SameJob, Main
    <3> QED BY <3>4, <3>5 DEF Carrier
  <2> QED BY <1>1, <1>4, <2>4, <2>5, WorkerMoves
<1>5. CASE Timeout(s)
  <2>1. proc'[s].pc = "timeoutRead" /\ Main(s)' BY <1>1, <1>5, TimeoutJob DEF Main
  <2> QED BY <2>1 DEF Carrier, Carrying, PastMark
<1>6. CASE CallFails(s)
  <2>1. Fresh(s) BY <1>6
  <2>2. proc[s].pc \notin {"netRead", "deadRecord", "deadRead", "deadWrite", "verifyLoad"}
    BY <1>2, <2>1 DEF Fresh, DeadPc, Main, JobOK, VerifyPc
  <2>3. CASE Throw(s)
    <3>1. proc'[s].kind = "purchase" BY <1>1, <1>2, <2>3, ThrowIs DEF Main
    <3>2. ~proc'[s].detached /\ proc'[s].pc \in {"waiting", "deadRecord"}
      BY <1>1, <2>3, <3>1, ThrowIs, FreeIs
    <3> QED BY <3>1, <3>2 DEF Carrier, Carrying, Main, DeadPc
  <2>4. CASE proc[s].pc = "replayRead" /\ proc'[s].pc = "complete"
    <3>1. service = "airtime" BY <1>1, <2>1, <2>4, SettingsAssumption DEF Fresh
    <3>2. proc[s].answer = "none" BY <2>4 DEF PlaceInv
    <3>3. ~EnqueueVerify(s) BY <2>4 DEF EnqueueVerify
    <3>4. SameJob(s) BY <1>1, <1>6, <3>3, WorkerSameJob
    <3>5. Main(s)' /\ proc'[s].answer = "none"
      BY <1>2, <2>4, <3>2, <3>4 DEF SameJob, Main
    <3> QED BY <2>4, <3>1, <3>5 DEF Carrier
  <2> QED BY <1>1, <1>6, <2>2, <2>3, <2>4, FailMoves
<1> QED BY <1>4, <1>5, <1>6

LEMMA CarriedPreserved ==
  ASSUME SoundInv, PlaceInv, RowInv, FreshInv, CarriedInv, [Next]_vars PROVE CarriedInv'
<1> SUFFICES ASSUME MishapCount' <= 1, api' = "done", ~Settled'
             PROVE  \E s \in Slots : Carrier(s)'
  BY DEF CarriedInv
<1>1. JobsOK /\ tx \in Row /\ mishaps \in MishapCounts BY TypeOKParts DEF SoundInv
<1>2. /\ MishapCount \in Nat /\ MishapCount' \in Nat
      /\ MishapCount' = MishapCount \/ MishapCount' = MishapCount + 1
      /\ WorkerCrash \/ (\E s \in Slots : CallFails(s)) => MishapCount' = MishapCount + 1
  BY <1>1, MishapsGrow
<1>3. MishapCount <= 1 /\ service' = service BY <1>2, ServiceStays
<1>4. ASSUME NEW s \in Slots, Carrier(s), proc'[s] = proc[s] PROVE Carrier(s)'
  BY <1>3, <1>4 DEF Carrier, Main
<1>5. CASE UNCHANGED <<api, tx, proc>>
  <2>1. PICK s \in Slots : Carrier(s) BY <1>3, <1>5 DEF CarriedInv, Settled
  <2> QED BY <1>4, <1>5, <2>1
<1>6. CASE AddJob
  <2>1. PICK f \in Slots : /\ proc'[f].kind = "purchase" /\ proc'[f].pc = "waiting"
                           /\ ~proc'[f].detached
    BY <1>1, <1>6, AddJobIs
  <2> QED BY <2>1 DEF Carrier, Carrying, Main
<1>7. CASE WorkerCrash
  <2>1. MishapCount = 0 /\ UNCHANGED <<api, tx>> BY <1>2, <1>7 DEF WorkerCrash
  <2>2. ~Settled BY <2>1 DEF Settled
  <2>3. PICK s \in Slots : Carrier(s) BY <1>3, <2>1, <2>2 DEF CarriedInv
  <2>4. Fresh(s) /\ Main(s) BY <2>1, <2>3 DEF FreshInv, Carrier
  <2>5. ~(proc[s].detached \/ proc[s].stalled \/ proc[s].pc \in DeadPc)
    BY <2>2, <2>4 DEF Fresh, Main
  <2>6. \/ proc'[s] = proc[s]
        \/ /\ proc'[s].kind = proc[s].kind /\ proc'[s].pc = "waiting" /\ ~proc'[s].detached
    BY <1>1, <1>7, <2>5, CrashIs
  <2>7. CASE proc'[s] = proc[s] BY <1>4, <2>3, <2>7
  <2>8. CASE /\ proc'[s].kind = proc[s].kind /\ proc'[s].pc = "waiting" /\ ~proc'[s].detached
    BY <2>4, <2>8 DEF Carrier, Carrying, Main
  <2> QED BY <2>6, <2>7, <2>8
<1>8. ASSUME NEW s \in Slots, Worker(s) \/ Timeout(s) \/ CallFails(s)
      PROVE  \E t \in Slots : Carrier(t)'
  <2>1. api = "done" BY <1>8, Busy
  <2>2. CallFails(s) => Fresh(s) BY <1>2 DEF FreshInv
  <2>3. CASE Settled
    <3>1. proc[s].pc = "mark" /\ ~CallFails(s) BY <1>1, <1>8, <2>3, SettledStays
    <3>2. ~Timeout(s) BY <3>1 DEF Timeout, EnginePc
    <3>3. Worker(s) BY <1>8, <3>1, <3>2
    <3>4. MarkProcessing(s)
      BY <3>1, <3>3 DEF Worker, Start, LoadTransaction, FindSuccess, ReplayRead,
         ReplayWrite, Resolve, Call, RecordAttempt, HandleSuccess, HandlePending, EnqueueVerify,
         HandleRequiresReview, HandleAllFailed, MarkFailed, Complete, SafetyNetRead,
         SafetyNetWrite, TimeoutRead, TimeoutWrite, RecordFailedJob, DeadLetterRead,
         DeadLetterWrite, VerifyLoad, VerifyTransaction, VerifySucceeded, RequeueVerify,
         FinalizeRequiresReview, FinalizeFailed, VerifyFailed
    <3>5. /\ proc'[s].pc = "findSuccess" /\ proc'[s].kind = proc[s].kind
          /\ proc'[s].detached = proc[s].detached
      BY <1>1, <3>4, GotoIs DEF MarkProcessing
    <3>6. Main(s) BY <1>1, <3>1, AtMark
    <3> QED BY <3>5, <3>6 DEF Carrier, Main, Carrying, PastMark, EnginePc
  <2>4. CASE ~Settled
    <3>1. PICK c \in Slots : Carrier(c) BY <1>3, <2>1, <2>4 DEF CarriedInv
    <3>2. CASE c = s BY <1>3, <1>8, <2>2, <2>4, <3>1, <3>2, CarrierStep
    <3>3. CASE c # s
      <4>1. proc[c] # Free BY <3>1, FreeIs DEF Carrier, Main
      <4>2. proc'[c] = proc[c]
        <5>1. CASE Timeout(s)
          <6>1. PICK f \in Slots : proc[f] = Free /\ \A t \in Slots : t \notin {s, f} => proc'[t] = proc[t]
            BY <1>1, <5>1, TimeoutJob
          <6> QED BY <3>3, <4>1, <6>1
        <5>2. CASE EnqueueVerify(s)
          <6>1. PICK f \in Slots : proc[f] = Free /\ \A t \in Slots : t \notin {s, f} => proc'[t] = proc[t]
            BY <1>1, <5>2, EnqueueIs
          <6> QED BY <3>3, <4>1, <6>1
        <5>3. CASE ~Timeout(s) /\ ~EnqueueVerify(s)
          BY <1>1, <1>8, <3>3, <5>3, LookingIs, Elsewhere
        <5> QED BY <5>1, <5>2, <5>3
      <4> QED BY <1>4, <3>1, <4>2
    <3> QED BY <3>2, <3>3
  <2> QED BY <2>3, <2>4
<1>9. ASSUME NEW p \in Providers, NEW i \in DOMAIN orders[p], Settle(p, i) PROVE UNCHANGED <<api, tx, proc>>
  BY <1>9 DEF Settle
<1>10. UNCHANGED vars => UNCHANGED <<api, tx, proc>> BY DEF vars
<1>11. ~Debit /\ ~CreateTransaction /\ ~RequestLost BY DEF Debit, CreateTransaction, RequestLost
<1> QED BY <1>5, <1>6, <1>7, <1>8, <1>9, <1>10, <1>11 DEF Next, Controller

\* One mishap, wherever it strikes, leaves no purchase without an end, a job or a
\* provider to ask about it: for either worker, every route and every limit, and
\* however often the airtime worker gives up an execution that goes on.
THEOREM OneMishapStrandsNobody == Spec => []NothingStuck
<1>1. Init => PlaceInv /\ FreshInv /\ CarriedInv /\ RowInv /\ Single
  <2> SUFFICES ASSUME Init PROVE PlaceInv /\ FreshInv /\ CarriedInv /\ RowInv /\ Single OBVIOUS
  <2>1. \A s \in Slots : proc[s] = Free BY DEF Init
  <2>2. tx.status = "none" /\ tx.provider = NoProvider /\ attempts = <<>> /\ api = "debit" BY DEF Init
  <2>3. PlaceInv BY <2>1, <2>2, FreeIs DEF PlaceInv, Main, PastMark, EnginePc
  <2>4. FreshInv BY <2>1, <2>2, FreeIs DEF FreshInv, Fresh, DeadPc
  <2>5. CarriedInv BY <2>2 DEF CarriedInv
  <2>6. RowInv /\ Single BY <2>1, <2>2, FreeIs DEF RowInv, Single
  <2> QED BY <2>3, <2>4, <2>5, <2>6
<1>2. SoundInv /\ PlaceInv /\ FreshInv /\ CarriedInv /\ RowInv /\ Single /\ [Next]_vars
        => PlaceInv' /\ FreshInv' /\ CarriedInv' /\ RowInv' /\ Single'
  BY PlacePreserved, FreshPreserved, CarriedPreserved, RowInvPreserved, SinglePreserved, TypeOKParts
     DEF SoundInv
<1>3. SoundInv /\ PlaceInv /\ CarriedInv => NothingStuck
  <2> SUFFICES ASSUME SoundInv, PlaceInv, CarriedInv, Quiet, MishapCount <= 1
               PROVE  \/ tx.status \in Ended
                      \/ tx.status = "processing" /\ tx.provider # NoProvider
    BY DEF NothingStuck, Ended
  <2>1. \A s \in Slots : ~Carrier(s) BY FreeIs DEF Quiet, Carrier, Main
  <2>2. Settled BY <2>1 DEF CarriedInv, Quiet
  <2>3. tx.status \in Status BY TypeOKParts DEF SoundInv, Row
  <2> QED BY <2>2, <2>3 DEF Settled, PlaceInv, Status, Ended
<1> QED BY <1>1, <1>2, <1>3, SagaStarts, SagaSound, PTL DEF Spec
=============================================================================
