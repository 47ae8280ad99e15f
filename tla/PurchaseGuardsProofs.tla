------------------------ MODULE PurchaseGuardsProofs ------------------------
(* The guards keep a submitted purchase from being charged again: for every    *)
(* number of submissions, keys, bodies and windows.  And the page of a         *)
(* purchase shows its end, for every number of polls.                          *)
EXTENDS PurchaseGuards, PurchasePage, TLAPS

\* The states that a submission reaches only as the owner of its key.
PastKey == {"pin", "dedup", "charge", "queue", "answer"}

\* Whoever is past the middleware, was charged or stores an answer has inserted
\* its key's row, which keeps its owner for good.
OwnsKey ==
  \A r \in Submissions :
    /\ request[r].pc \in InFlight => request[r].body \in Bodies /\ request[r].key # "none"
    /\ request[r].pc \in PastKey \union {"insert", "relook"} => request[r].key \in Keys
    /\ request[r].pc \in PastKey \/ request[r].charged \/ request[r].storing =>
         request[r].key \in Keys /\ keyRow[request[r].key].owner = r

\* How far a submission is, and what it was told.
Stages ==
  \A r \in Submissions :
    /\ request[r].pc \in {"unsent", "lookup", "insert", "relook", "pin", "dedup", "charge"} =>
         ~request[r].charged
    /\ request[r].pc \in InFlight \union {"unsent"} => request[r].reply = "none"
    /\ request[r].pc \in InFlight \union {"unsent"} => ~request[r].storing
    /\ request[r].pc \in {"queue", "answer"} => request[r].charged
    /\ request[r].pc = "answer" => request[r].queued
    /\ request[r].storing => request[r].charged /\ request[r].queued
    /\ request[r].pc = "unsent" => request[r].slot = 0 /\ ~request[r].queued
    /\ request[r].charged => request[r].pc # "unsent"

\* An answer is stored only for an owner that was charged and queued.
StoredAnswers ==
  \A k \in Keys : keyRow[k].stored =>
    /\ keyRow[k].owner \in Submissions
    /\ request[keyRow[k].owner].charged /\ request[keyRow[k].owner].queued
    /\ request[keyRow[k].owner].key = k

\* Each setting of the guard's Redis key has let one submission through.
SlotsApart ==
  \A r \in Submissions :
    /\ request[r].slot # 0 => request[r].body \in Bodies /\ request[r].slot <= window[request[r].body].count
    /\ request[r].pc \in {"unsent", "lookup", "insert", "relook", "pin", "dedup"} =>
         request[r].slot = 0
    /\ \A s \in Submissions :
         /\ request[r].slot # 0 /\ request[r].slot = request[s].slot
         /\ request[r].body = request[s].body
         => r = s

GuardInv ==
  /\ GuardTypeOK /\ OwnsKey /\ Stages /\ StoredAnswers /\ SlotsApart /\ AnswersMatchPurchases

LEMMA GuardsStart == GuardInit => GuardInv
BY GuardAssumption
DEF GuardInit, GuardInv, GuardTypeOK, OwnsKey, Stages, StoredAnswers, SlotsApart,
    AnswersMatchPurchases, SubmissionStates, Rows, Unsent, NoRow, InFlight, PastKey

-----------------------------------------------------------------------------
\* What a step of submission r that leaves it as x, and the rows and windows as
\* they then are, must keep for the invariant to hold after it.
StepKeeps(r, x) ==
  /\ keyRow' \in [Keys -> Rows] /\ window' \in [Bodies -> [open : BOOLEAN, count : Nat]]
  /\ \A k \in Keys : keyRow[k].owner # "nobody" => keyRow'[k].owner = keyRow[k].owner
  /\ \A k \in Keys : keyRow'[k].stored =>
       keyRow[k].stored \/ (keyRow'[k].owner = r /\ x.key = k /\ x.charged /\ x.queued)
  /\ \A b \in Bodies : window'[b].count >= window[b].count
  /\ request[r].charged => x.charged /\ x.key = request[r].key /\ x.body = request[r].body
  /\ request[r].queued => x.queued
  /\ \/ x.slot = 0
     \/ x.slot = request[r].slot /\ x.body = request[r].body
     \/ /\ x.body \in Bodies /\ x.slot = window[x.body].count + 1
        /\ window'[x.body].count = x.slot

Owned(r, x) ==
  /\ x.pc \in InFlight => x.body \in Bodies /\ x.key # "none"
  /\ x.pc \in PastKey \union {"insert", "relook"} => x.key \in Keys
  /\ x.pc \in PastKey \/ x.charged \/ x.storing => x.key \in Keys /\ keyRow'[x.key].owner = r

Staged(x) ==
  /\ x.pc \in {"unsent", "lookup", "insert", "relook", "pin", "dedup", "charge"} => ~x.charged
  /\ x.pc \in InFlight \union {"unsent"} => x.reply = "none" /\ ~x.storing
  /\ x.pc \in {"queue", "answer"} => x.charged
  /\ x.pc = "answer" => x.queued
  /\ x.storing => x.charged /\ x.queued
  /\ x.pc = "unsent" => x.slot = 0 /\ ~x.queued
  /\ x.pc \in {"unsent", "lookup", "insert", "relook", "pin", "dedup"} => x.slot = 0

AnswerTold(r, x) ==
  /\ x.reply \in {"bought", "replayed"} =>
       \/ x.told = r /\ x.charged /\ x.queued
       \/ /\ x.told \in Submissions \ {r}
          /\ request[x.told].charged /\ request[x.told].queued
          /\ request[x.told].key = x.key /\ HashedAlike(request[x.told].body, x.body)
  /\ x.reply \in {"missing", "conflict", "inProgress", "duplicate", "rejected"} => ~x.charged

LEMMA SubmissionPreserves ==
  ASSUME GuardInv, NEW r \in Submissions, NEW x \in SubmissionStates,
         request' = [request EXCEPT ![r] = x],
         StepKeeps(r, x), Owned(r, x), Staged(x), AnswerTold(r, x)
  PROVE  GuardInv'
<1>1. /\ request \in [Submissions -> SubmissionStates] /\ request[r] \in SubmissionStates
      /\ keyRow \in [Keys -> Rows] /\ window \in [Bodies -> [open : BOOLEAN, count : Nat]]
  BY DEF GuardInv, GuardTypeOK
<1>2. request'[r] = x /\ \A s \in Submissions : s # r => request'[s] = request[s]
  BY <1>1
<1>3. GuardTypeOK' BY <1>1 DEF GuardTypeOK, StepKeeps
<1>4. OwnsKey'
  <2>1. ASSUME NEW s \in Submissions, s # r, request[s].key \in Keys,
               keyRow[request[s].key].owner = s
        PROVE  keyRow'[request[s].key].owner = s
    BY <2>1, GuardAssumption DEF StepKeeps
  <2> QED BY <1>2, <2>1 DEF OwnsKey, Owned, GuardInv
<1>5. Stages' BY <1>2 DEF Stages, Staged, GuardInv, InFlight
<1>6. StoredAnswers'
  <2> SUFFICES ASSUME NEW k \in Keys, keyRow'[k].stored
               PROVE  /\ keyRow'[k].owner \in Submissions
                      /\ request'[keyRow'[k].owner].charged /\ request'[keyRow'[k].owner].queued
                      /\ request'[keyRow'[k].owner].key = k
    BY DEF StoredAnswers
  <2>1. CASE keyRow[k].stored
    <3>1. /\ keyRow[k].owner \in Submissions /\ request[keyRow[k].owner].charged
          /\ request[keyRow[k].owner].queued /\ request[keyRow[k].owner].key = k
      BY <2>1 DEF GuardInv, StoredAnswers
    <3>2. keyRow'[k].owner = keyRow[k].owner BY <3>1, GuardAssumption DEF StepKeeps
    <3> QED BY <1>2, <3>1, <3>2 DEF StepKeeps
  <2>2. CASE ~keyRow[k].stored BY <1>2, <2>2 DEF StepKeeps
  <2> QED BY <2>1, <2>2
<1>7. SlotsApart'
  <2>1. ASSUME NEW s \in Submissions, request'[s].slot # 0
        PROVE  request'[s].body \in Bodies /\ request'[s].slot <= window'[request'[s].body].count
    <3>1. CASE s # r
      <4>1. /\ request[s].body \in Bodies /\ request[s].slot <= window[request[s].body].count
            /\ request[s].slot \in Nat
        BY <1>1, <1>2, <2>1, <3>1 DEF GuardInv, SlotsApart, SubmissionStates
      <4>2. window[request[s].body].count \in Nat /\ window'[request[s].body].count \in Nat
        BY <1>1, <4>1 DEF StepKeeps
      <4> QED BY <1>2, <3>1, <4>1, <4>2 DEF StepKeeps
    <3>2. CASE s = r
      <4>1. x.slot # 0 /\ x.slot \in Nat BY <1>2, <2>1, <3>2 DEF SubmissionStates
      <4>2. CASE x.slot = request[r].slot /\ x.body = request[r].body
        <5>1. x.body \in Bodies /\ x.slot <= window[x.body].count
          BY <4>1, <4>2 DEF GuardInv, SlotsApart
        <5>2. window[x.body].count \in Nat /\ window'[x.body].count \in Nat
          BY <1>1, <5>1 DEF StepKeeps
        <5> QED BY <1>2, <3>2, <4>1, <5>1, <5>2 DEF StepKeeps
      <4>3. CASE x.body \in Bodies /\ window'[x.body].count = x.slot
        BY <1>2, <3>2, <4>1, <4>3
      <4> QED BY <4>1, <4>2, <4>3 DEF StepKeeps
    <3> QED BY <3>1, <3>2
  <2>2. ASSUME NEW s \in Submissions, s # r, x.slot # 0, x.slot = request[s].slot,
               x.body = request[s].body
        PROVE  FALSE
    <3>1. /\ request[s].body \in Bodies /\ request[s].slot <= window[request[s].body].count
          /\ request[s].slot \in Nat
      BY <1>1, <2>2 DEF GuardInv, SlotsApart, SubmissionStates
    <3>2. window[x.body].count \in Nat BY <1>1, <2>2, <3>1
    <3>3. CASE x.slot = request[r].slot /\ x.body = request[r].body
      BY <2>2, <3>3 DEF GuardInv, SlotsApart
    <3>4. CASE x.slot = window[x.body].count + 1 BY <2>2, <3>1, <3>2, <3>4
    <3> QED BY <2>2, <3>3, <3>4 DEF StepKeeps
  <2>3. \A s \in Submissions :
          request'[s].pc \in {"unsent", "lookup", "insert", "relook", "pin", "dedup"} =>
            request'[s].slot = 0
    BY <1>2 DEF GuardInv, SlotsApart, Staged
  <2>4. ASSUME NEW s \in Submissions, NEW t \in Submissions, request'[s].slot # 0,
               request'[s].slot = request'[t].slot, request'[s].body = request'[t].body
        PROVE  s = t
    BY <1>2, <2>2, <2>4 DEF GuardInv, SlotsApart
  <2> QED BY <2>1, <2>3, <2>4 DEF SlotsApart
<1>8. AnswersMatchPurchases'
  BY <1>2 DEF GuardInv, AnswersMatchPurchases, AnswerTold, StepKeeps, HashedAlike
<1> QED BY <1>3, <1>4, <1>5, <1>6, <1>7, <1>8 DEF GuardInv

-----------------------------------------------------------------------------
\* What the invariant says of one submission.
LEMMA Known ==
  ASSUME GuardInv, NEW r \in Submissions
  PROVE  /\ request \in [Submissions -> SubmissionStates] /\ request[r] \in SubmissionStates
         /\ keyRow \in [Keys -> Rows] /\ window \in [Bodies -> [open : BOOLEAN, count : Nat]]
         /\ request[r].pc \in PastKey \/ request[r].charged \/ request[r].storing =>
              request[r].key \in Keys /\ keyRow[request[r].key].owner = r
         /\ request[r].pc \in PastKey \union {"insert", "relook"} => request[r].key \in Keys
         /\ request[r].pc \in InFlight => request[r].body \in Bodies /\ request[r].key # "none"
         /\ request[r].pc \in {"unsent", "lookup", "insert", "relook", "pin", "dedup", "charge"} =>
              ~request[r].charged
         /\ request[r].pc \in InFlight \union {"unsent"} =>
              request[r].reply = "none" /\ ~request[r].storing
         /\ request[r].pc \in {"queue", "answer"} => request[r].charged
         /\ request[r].pc = "answer" => request[r].queued
         /\ request[r].storing => request[r].charged /\ request[r].queued
         /\ request[r].pc = "unsent" => request[r].slot = 0 /\ ~request[r].queued
         /\ request[r].pc \in {"unsent", "lookup", "insert", "relook", "pin", "dedup"} =>
              request[r].slot = 0
BY DEF GuardInv, GuardTypeOK, OwnsKey, Stages, SlotsApart

\* A submission that only moves on, no row or window changing.
LEMMA PassPreserves ==
  ASSUME GuardInv, NEW r \in Submissions, UNCHANGED <<keyRow, window>>,
         NEW pc, Pass(r, pc),
         \/ request[r].pc = "lookup" /\ pc = "insert" /\ request[r].key \in Keys
         \/ request[r].pc = "insert" /\ pc = "relook"
         \/ request[r].pc = "pin" /\ pc = "dedup"
         \/ request[r].pc = "dedup" /\ pc = "charge"
  PROVE  GuardInv'
<1> DEFINE x == [request[r] EXCEPT !.pc = pc]
<1>1. request[r] \in SubmissionStates /\ request \in [Submissions -> SubmissionStates]
  BY Known
<1>2. x \in SubmissionStates BY <1>1 DEF SubmissionStates, InFlight
<1>3. request' = [request EXCEPT ![r] = x] BY <1>1 DEF Pass
<1>4. /\ x.pc = pc /\ x.key = request[r].key /\ x.body = request[r].body
      /\ x.slot = request[r].slot /\ x.charged = request[r].charged
      /\ x.queued = request[r].queued /\ x.storing = request[r].storing
      /\ x.reply = request[r].reply /\ x.told = request[r].told
  BY <1>1 DEF SubmissionStates
<1> HIDE DEF x
<1>5. StepKeeps(r, x) BY <1>4, Known DEF StepKeeps
<1>6. Owned(r, x) BY <1>4, Known DEF Owned, PastKey, InFlight
<1>7. Staged(x) BY <1>4, Known DEF Staged, InFlight
<1>8. AnswerTold(r, x) BY <1>4, Known DEF AnswerTold, InFlight
<1> QED BY <1>2, <1>3, <1>5, <1>6, <1>7, <1>8, SubmissionPreserves

\* A submission that ends without a purchase.
LEMMA RefusePreserves ==
  ASSUME GuardInv, NEW r \in Submissions, UNCHANGED <<keyRow, window>>,
         NEW reply, Refuse(r, reply), request[r].pc \in InFlight,
         reply \in {"missing", "conflict", "inProgress", "duplicate", "rejected", "error"},
         request[r].charged => reply = "error"
  PROVE  GuardInv'
<1> DEFINE x == [request[r] EXCEPT !.pc = "done", !.reply = reply]
<1>1. request[r] \in SubmissionStates /\ request \in [Submissions -> SubmissionStates]
  BY Known
<1>2. x \in SubmissionStates BY <1>1 DEF SubmissionStates
<1>3. request' = [request EXCEPT ![r] = x] BY <1>1 DEF Refuse
<1>4. /\ x.pc = "done" /\ x.key = request[r].key /\ x.body = request[r].body
      /\ x.slot = request[r].slot /\ x.charged = request[r].charged
      /\ x.queued = request[r].queued /\ x.storing = request[r].storing
      /\ x.reply = reply
  BY <1>1 DEF SubmissionStates
<1> HIDE DEF x
<1>5. StepKeeps(r, x) BY <1>4, Known DEF StepKeeps
<1>6. Owned(r, x) BY <1>4, Known DEF Owned, PastKey, InFlight
<1>7. Staged(x) BY <1>4, Known DEF Staged, InFlight
<1>8. AnswerTold(r, x) BY <1>4 DEF AnswerTold
<1> QED BY <1>2, <1>3, <1>5, <1>6, <1>7, <1>8, SubmissionPreserves

LEMMA SendPreserves ==
  ASSUME GuardInv, NEW r \in Submissions, Send(r)
  PROVE  GuardInv'
<1>1. PICK k \in Keys \union {"missing"}, b \in Bodies :
        request' = [request EXCEPT ![r].pc = "lookup", ![r].key = k, ![r].body = b]
  BY DEF Send
<1> DEFINE x == [request[r] EXCEPT !.pc = "lookup", !.key = k, !.body = b]
<1>2. request[r] \in SubmissionStates /\ request \in [Submissions -> SubmissionStates]
  BY Known
<1>3. x \in SubmissionStates BY <1>2 DEF SubmissionStates, InFlight
<1>4. request' = [request EXCEPT ![r] = x] BY <1>1, <1>2
<1>5. /\ x.pc = "lookup" /\ x.key = k /\ x.body = b
      /\ x.slot = request[r].slot /\ x.charged = request[r].charged
      /\ x.queued = request[r].queued /\ x.storing = request[r].storing
      /\ x.reply = request[r].reply
  BY <1>2 DEF SubmissionStates
<1> HIDE DEF x
<1>6. StepKeeps(r, x) BY <1>5, Known DEF StepKeeps, Send
<1>7. Owned(r, x) BY <1>5, Known, GuardAssumption DEF Owned, PastKey, InFlight, Send
<1>8. Staged(x) BY <1>5, Known DEF Staged, InFlight, Send
<1>9. AnswerTold(r, x) BY <1>5, Known DEF AnswerTold, Send
<1> QED BY <1>3, <1>4, <1>6, <1>7, <1>8, <1>9, SubmissionPreserves

\* A replayed answer was stored for the owner of the row, which sent the same JSON.
LEMMA FindActiveKeyPreserves ==
  ASSUME GuardInv, NEW r \in Submissions, FindActiveKey(r)
  PROVE  GuardInv'
<1>1. /\ request[r] \in SubmissionStates /\ request \in [Submissions -> SubmissionStates]
      /\ request[r].pc = "lookup" /\ ~request[r].charged /\ UNCHANGED <<keyRow, window>>
  BY Known DEF FindActiveKey
<1>2. CASE request[r].key = "missing"
  BY <1>1, <1>2, RefusePreserves DEF FindActiveKey, InFlight
<1>3. request[r].key \in Keys \union {"none", "missing"} BY <1>1 DEF SubmissionStates
<1>4. CASE request[r].key # "missing" /\ ~RowOf(r).active
  <2>1. request[r].key \in Keys BY <1>1, <1>3, <1>4, Known DEF InFlight
  <2>2. Pass(r, "insert") BY <1>1, <1>4 DEF FindActiveKey
  <2> QED BY <1>1, <2>1, <2>2, PassPreserves
<1>5. CASE /\ request[r].key # "missing" /\ RowOf(r).active
           /\ ~SameHash(r) \/ ~RowOf(r).stored
  <2>1. Refuse(r, "conflict") \/ Refuse(r, "inProgress") BY <1>5 DEF FindActiveKey
  <2> QED BY <1>1, <2>1, RefusePreserves DEF InFlight
<1>6. CASE /\ request[r].key # "missing" /\ RowOf(r).active
           /\ SameHash(r) /\ RowOf(r).stored
  <2> DEFINE x == [request[r] EXCEPT !.pc = "done", !.reply = "replayed",
                                     !.told = RowOf(r).owner]
  <2>1. request[r].key \in Keys BY <1>1, <1>3, <1>6, Known DEF InFlight
  <2>2. /\ RowOf(r).owner \in Submissions
        /\ request[RowOf(r).owner].charged /\ request[RowOf(r).owner].queued
        /\ request[RowOf(r).owner].key = request[r].key
        /\ HashedAlike(request[RowOf(r).owner].body, request[r].body)
    BY <1>6, <2>1 DEF GuardInv, StoredAnswers, RowOf, SameHash
  <2>3. x \in SubmissionStates BY <1>1, <2>2 DEF SubmissionStates
  <2>4. request' = [request EXCEPT ![r] = x] BY <1>1, <1>6 DEF FindActiveKey
  <2>5. /\ x.pc = "done" /\ x.key = request[r].key /\ x.body = request[r].body
        /\ x.slot = request[r].slot /\ x.charged = request[r].charged
        /\ x.queued = request[r].queued /\ x.storing = request[r].storing
        /\ x.reply = "replayed" /\ x.told = RowOf(r).owner
    BY <1>1 DEF SubmissionStates
  <2> HIDE DEF x
  <2>6. StepKeeps(r, x) BY <1>1, <2>5, Known DEF StepKeeps
  <2>7. Owned(r, x) BY <1>1, <2>5, Known DEF Owned, PastKey, InFlight
  <2>8. Staged(x) BY <2>5, Known DEF Staged, InFlight
  <2>9. AnswerTold(r, x) BY <1>1, <2>2, <2>5 DEF AnswerTold
  <2> QED BY <2>3, <2>4, <2>6, <2>7, <2>8, <2>9, SubmissionPreserves
<1> QED BY <1>2, <1>4, <1>5, <1>6

-----------------------------------------------------------------------------
\* The key's row as an insert leaves it.
Inserted(r) ==
  keyRow' = [keyRow EXCEPT ![request[r].key] = [owner |-> r, stored |-> FALSE, active |-> TRUE]]

\* An insert, answered or not: only the one that wrote the row goes on to the PIN.
LEMMA InsertPreserves ==
  ASSUME GuardInv, NEW r \in Submissions, NEW pc, Pass(r, pc), request[r].pc = "insert",
         UNCHANGED window,
         \/ pc = "relook" /\ UNCHANGED keyRow
         \/ pc \in {"pin", "relook"} /\ ~Taken(r) /\ Inserted(r)
  PROVE  GuardInv'
<1>1. CASE pc = "relook" /\ UNCHANGED keyRow
  BY <1>1, PassPreserves
<1>2. CASE pc \in {"pin", "relook"} /\ ~Taken(r) /\ Inserted(r)
  <2> DEFINE x == [request[r] EXCEPT !.pc = pc]
  <2>1. /\ request[r] \in SubmissionStates /\ request \in [Submissions -> SubmissionStates]
        /\ request[r].key \in Keys /\ keyRow \in [Keys -> Rows]
        /\ keyRow[request[r].key].owner = "nobody"
    BY <1>2, Known DEF Taken, RowOf
  <2>2. x \in SubmissionStates BY <1>2, <2>1 DEF SubmissionStates, InFlight
  <2>3. request' = [request EXCEPT ![r] = x] BY <2>1 DEF Pass
  <2>4. /\ x.pc = pc /\ x.key = request[r].key /\ x.body = request[r].body
        /\ x.slot = request[r].slot /\ x.charged = request[r].charged
        /\ x.queued = request[r].queued /\ x.storing = request[r].storing
        /\ x.reply = request[r].reply
    BY <2>1 DEF SubmissionStates
  <2>5. /\ keyRow' \in [Keys -> Rows] /\ keyRow'[request[r].key].owner = r
        /\ ~keyRow'[request[r].key].stored
        /\ \A k \in Keys : k # request[r].key => keyRow'[k] = keyRow[k]
    BY <1>2, <2>1 DEF Inserted, Rows
  <2> HIDE DEF x
  <2>6. StepKeeps(r, x) BY <2>1, <2>4, <2>5, Known DEF StepKeeps
  <2>7. Owned(r, x) BY <1>2, <2>1, <2>4, <2>5, Known DEF Owned, PastKey, InFlight
  <2>8. Staged(x) BY <1>2, <2>4, Known DEF Staged, InFlight
  <2>9. AnswerTold(r, x) BY <2>4, Known DEF AnswerTold, InFlight
  <2> QED BY <2>2, <2>3, <2>6, <2>7, <2>8, <2>9, SubmissionPreserves
<1> QED BY <1>1, <1>2

\* The guard's Redis key was free, and this submission has set it.
LEMMA SlotPreserves ==
  ASSUME GuardInv, NEW r \in Submissions, request[r].pc = "dedup", DuplicatePurchaseGuard(r)
  PROVE  GuardInv'
<1> DEFINE b == request[r].body
<1>1. UNCHANGED keyRow /\ b \in Bodies BY Known DEF DuplicatePurchaseGuard, InFlight
<1>2. CASE Pass(r, "charge") /\ UNCHANGED window BY <1>1, <1>2, PassPreserves
<1>3. CASE Refuse(r, "duplicate") /\ UNCHANGED window
  BY <1>1, <1>3, RefusePreserves, Known DEF InFlight
<1>4. CASE
    /\ window' = [window EXCEPT ![b].open = TRUE, ![b].count = window[b].count + 1]
    /\ request' = [request EXCEPT ![r].pc = "charge", ![r].slot = window[b].count + 1]
  <2> DEFINE x == [request[r] EXCEPT !.pc = "charge", !.slot = window[b].count + 1]
  <2>1. /\ request[r] \in SubmissionStates /\ request \in [Submissions -> SubmissionStates]
        /\ window \in [Bodies -> [open : BOOLEAN, count : Nat]]
    BY Known
  <2>2. window[b].count \in Nat /\ window[b].count + 1 \in Nat BY <1>1, <2>1
  <2>3. x \in SubmissionStates BY <2>1, <2>2 DEF SubmissionStates, InFlight
  <2>4. request' = [request EXCEPT ![r] = x] BY <1>4, <2>1
  <2>5. /\ x.pc = "charge" /\ x.key = request[r].key /\ x.body = b
        /\ x.slot = window[b].count + 1 /\ x.charged = request[r].charged
        /\ x.queued = request[r].queued /\ x.storing = request[r].storing
        /\ x.reply = request[r].reply
    BY <2>1 DEF SubmissionStates
  <2>6. window' \in [Bodies -> [open : BOOLEAN, count : Nat]]
    BY <1>1, <1>4, <2>1, <2>2
  <2>7. /\ window'[b].count = window[b].count + 1
        /\ \A c \in Bodies : c # b => window'[c] = window[c]
    BY <1>1, <1>4, <2>1
  <2>8. \A c \in Bodies : window[c].count \in Nat BY <2>1
  <2> HIDE DEF x, b
  <2>9. \A c \in Bodies : window'[c].count >= window[c].count BY <2>2, <2>7, <2>8
  <2>10. StepKeeps(r, x) BY <1>1, <2>5, <2>6, <2>7, <2>9, Known DEF StepKeeps, b
  <2>11. Owned(r, x) BY <1>1, <2>5, Known DEF Owned, PastKey, InFlight
  <2>12. Staged(x) BY <2>5, Known DEF Staged, InFlight
  <2>13. AnswerTold(r, x) BY <2>5, Known DEF AnswerTold, InFlight
  <2> QED BY <2>3, <2>4, <2>10, <2>11, <2>12, <2>13, SubmissionPreserves
<1>5. ~Blocked(b) => WindowOf(b) = window[b].count + 1 BY DEF Blocked, WindowOf
<1> QED BY <1>2, <1>3, <1>4, <1>5 DEF DuplicatePurchaseGuard

-----------------------------------------------------------------------------
\* The controller, and the answer it stores.

\* The debit went through.
Debited(r) ==
  /\ request[r].pc = "charge" /\ UNCHANGED <<keyRow, window>>
  /\ request' = [request EXCEPT ![r].pc = "queue", ![r].charged = TRUE]

LEMMA DebitedPreserves ==
  ASSUME GuardInv, NEW r \in Submissions, Debited(r)
  PROVE  GuardInv'
<1> DEFINE x == [request[r] EXCEPT !.pc = "queue", !.charged = TRUE]
<1>1. /\ request[r] \in SubmissionStates /\ request \in [Submissions -> SubmissionStates]
      /\ keyRow \in [Keys -> Rows]
  BY Known
<1>2. x \in SubmissionStates BY <1>1 DEF SubmissionStates, InFlight
<1>3. request' = [request EXCEPT ![r] = x] BY <1>1 DEF Debited
<1>4. /\ x.pc = "queue" /\ x.key = request[r].key /\ x.body = request[r].body
      /\ x.slot = request[r].slot /\ x.charged = TRUE /\ x.queued = request[r].queued
      /\ x.storing = request[r].storing /\ x.reply = request[r].reply /\ x.told = request[r].told
  BY <1>1 DEF SubmissionStates
<1> HIDE DEF x
<1>6. StepKeeps(r, x) BY <1>1, <1>4, Known DEF StepKeeps, Debited
<1>7. Owned(r, x) BY <1>1, <1>4, Known DEF Owned, PastKey, InFlight, Debited
<1>8. Staged(x) BY <1>4, Known DEF Staged, InFlight, Debited
<1>9. AnswerTold(r, x)
  BY <1>4, Known DEF AnswerTold, GuardInv, AnswersMatchPurchases, InFlight, Debited
<1> QED BY <1>2, <1>3, <1>6, <1>7, <1>8, <1>9, SubmissionPreserves

LEMMA EnqueuePreserves ==
  ASSUME GuardInv, NEW r \in Submissions, Enqueue(r)
  PROVE  GuardInv'
<1> DEFINE x == [request[r] EXCEPT !.pc = "answer", !.queued = TRUE]
<1>1. /\ request[r] \in SubmissionStates /\ request \in [Submissions -> SubmissionStates]
      /\ keyRow \in [Keys -> Rows]
  BY Known
<1>2. x \in SubmissionStates BY <1>1 DEF SubmissionStates, InFlight
<1>3. request' = [request EXCEPT ![r] = x] BY <1>1 DEF Enqueue
<1>4. /\ x.pc = "answer" /\ x.key = request[r].key /\ x.body = request[r].body
      /\ x.slot = request[r].slot /\ x.charged = request[r].charged /\ x.queued = TRUE
      /\ x.storing = request[r].storing /\ x.reply = request[r].reply /\ x.told = request[r].told
  BY <1>1 DEF SubmissionStates
<1> HIDE DEF x
<1>6. StepKeeps(r, x) BY <1>1, <1>4, Known DEF StepKeeps, Enqueue
<1>7. Owned(r, x) BY <1>1, <1>4, Known DEF Owned, PastKey, InFlight, Enqueue
<1>8. Staged(x) BY <1>4, Known DEF Staged, InFlight, Enqueue
<1>9. AnswerTold(r, x)
  BY <1>4, Known DEF AnswerTold, GuardInv, AnswersMatchPurchases, InFlight, Enqueue
<1> QED BY <1>2, <1>3, <1>6, <1>7, <1>8, <1>9, SubmissionPreserves

LEMMA AnswerPurchasePreserves ==
  ASSUME GuardInv, NEW r \in Submissions, AnswerPurchase(r)
  PROVE  GuardInv'
<1> DEFINE x == [request[r] EXCEPT !.pc = "done", !.reply = "bought", !.told = r, !.storing = TRUE]
<1>1. /\ request[r] \in SubmissionStates /\ request \in [Submissions -> SubmissionStates]
      /\ keyRow \in [Keys -> Rows]
  BY Known
<1>2. x \in SubmissionStates BY <1>1 DEF SubmissionStates, InFlight
<1>3. request' = [request EXCEPT ![r] = x] BY <1>1 DEF AnswerPurchase
<1>4. /\ x.pc = "done" /\ x.key = request[r].key /\ x.body = request[r].body
      /\ x.slot = request[r].slot /\ x.charged = request[r].charged /\ x.queued = request[r].queued
      /\ x.storing = TRUE /\ x.reply = "bought" /\ x.told = r
  BY <1>1 DEF SubmissionStates
<1> HIDE DEF x
<1>6. StepKeeps(r, x) BY <1>1, <1>4, Known DEF StepKeeps, AnswerPurchase
<1>7. Owned(r, x) BY <1>1, <1>4, Known DEF Owned, PastKey, InFlight, AnswerPurchase
<1>8. Staged(x) BY <1>4, Known DEF Staged, InFlight, AnswerPurchase
<1>9. AnswerTold(r, x)
  BY <1>4, Known DEF AnswerTold, GuardInv, AnswersMatchPurchases, InFlight, AnswerPurchase
<1> QED BY <1>2, <1>3, <1>6, <1>7, <1>8, <1>9, SubmissionPreserves

\* The answer goes to the row that the submission owns.
LEMMA StorePreserves ==
  ASSUME GuardInv, NEW r \in Submissions, StoreIdempotencyResponse(r)
  PROVE  GuardInv'
<1> DEFINE x == [request[r] EXCEPT !.storing = FALSE]
<1>1. /\ request[r] \in SubmissionStates /\ request \in [Submissions -> SubmissionStates]
      /\ keyRow \in [Keys -> Rows]
  BY Known
<1>2. x \in SubmissionStates BY <1>1 DEF SubmissionStates, InFlight
<1>3. request' = [request EXCEPT ![r] = x] BY <1>1 DEF StoreIdempotencyResponse
<1>4. /\ x.pc = request[r].pc /\ x.key = request[r].key /\ x.body = request[r].body
      /\ x.slot = request[r].slot /\ x.charged = request[r].charged /\ x.queued = request[r].queued
      /\ x.storing = FALSE /\ x.reply = request[r].reply /\ x.told = request[r].told
  BY <1>1 DEF SubmissionStates
<1>5. /\ request[r].key \in Keys /\ keyRow[request[r].key].owner = r
      /\ keyRow' \in [Keys -> Rows] /\ keyRow'[request[r].key].owner = r
      /\ \A k \in Keys : k # request[r].key => keyRow'[k] = keyRow[k]
  <2>1. request[r].key \in Keys /\ keyRow[request[r].key].owner = r
    BY Known DEF StoreIdempotencyResponse
  <2>2. keyRow[request[r].key] \in Rows BY <1>1, <2>1
  <2>3. /\ [keyRow[request[r].key] EXCEPT !.stored = TRUE] \in Rows
        /\ [keyRow[request[r].key] EXCEPT !.stored = TRUE].owner = r
    BY <2>1, <2>2 DEF Rows
  <2> QED BY <1>1, <2>1, <2>2, <2>3 DEF StoreIdempotencyResponse
<1> HIDE DEF x
<1>6. StepKeeps(r, x) BY <1>1, <1>4, <1>5, Known DEF StepKeeps, StoreIdempotencyResponse
<1>7. Owned(r, x) BY <1>1, <1>4, <1>5, Known DEF Owned, PastKey, InFlight, StoreIdempotencyResponse
<1>8. Staged(x) BY <1>4, Known DEF Staged, InFlight, StoreIdempotencyResponse
<1>9. AnswerTold(r, x)
  BY <1>4, Known DEF AnswerTold, GuardInv, AnswersMatchPurchases, InFlight, StoreIdempotencyResponse
<1> QED BY <1>2, <1>3, <1>6, <1>7, <1>8, <1>9, SubmissionPreserves

LEMMA StoreFailsPreserves ==
  ASSUME GuardInv, NEW r \in Submissions, StoreFails(r)
  PROVE  GuardInv'
<1> DEFINE x == [request[r] EXCEPT !.storing = FALSE]
<1>1. /\ request[r] \in SubmissionStates /\ request \in [Submissions -> SubmissionStates]
      /\ keyRow \in [Keys -> Rows]
  BY Known
<1>2. x \in SubmissionStates BY <1>1 DEF SubmissionStates, InFlight
<1>3. request' = [request EXCEPT ![r] = x] BY <1>1 DEF StoreFails
<1>4. /\ x.pc = request[r].pc /\ x.key = request[r].key /\ x.body = request[r].body
      /\ x.slot = request[r].slot /\ x.charged = request[r].charged /\ x.queued = request[r].queued
      /\ x.storing = FALSE /\ x.reply = request[r].reply /\ x.told = request[r].told
  BY <1>1 DEF SubmissionStates
<1> HIDE DEF x
<1>6. StepKeeps(r, x) BY <1>1, <1>4, Known DEF StepKeeps, StoreFails
<1>7. Owned(r, x) BY <1>1, <1>4, Known DEF Owned, PastKey, InFlight, StoreFails
<1>8. Staged(x) BY <1>4, Known DEF Staged, InFlight, StoreFails
<1>9. AnswerTold(r, x)
  BY <1>4, Known DEF AnswerTold, GuardInv, AnswersMatchPurchases, InFlight, StoreFails
<1> QED BY <1>2, <1>3, <1>6, <1>7, <1>8, <1>9, SubmissionPreserves

\* An expired row keeps its owner, and a window that closes its count.
LEMMA EnvironmentPreserves ==
  ASSUME GuardInv,
         \/ \E k \in Keys : KeyExpires(k)
         \/ \E b \in Bodies : WindowCloses(b)
         \/ UNCHANGED guardVars
  PROVE  GuardInv'
<1>1. /\ keyRow \in [Keys -> Rows] /\ window \in [Bodies -> [open : BOOLEAN, count : Nat]]
  BY DEF GuardInv, GuardTypeOK
<1>2. /\ request' = request /\ keyRow' \in [Keys -> Rows]
      /\ window' \in [Bodies -> [open : BOOLEAN, count : Nat]]
      /\ \A k \in Keys : keyRow'[k].owner = keyRow[k].owner /\ keyRow'[k].stored = keyRow[k].stored
      /\ \A b \in Bodies : window'[b].count = window[b].count
  <2>1. ASSUME NEW k \in Keys, KeyExpires(k) PROVE <1>2!:
    BY <1>1, <2>1 DEF KeyExpires, Rows
  <2>2. ASSUME NEW b \in Bodies, WindowCloses(b) PROVE <1>2!:
    BY <1>1, <2>2 DEF WindowCloses
  <2>3. CASE UNCHANGED guardVars BY <1>1, <2>3 DEF guardVars
  <2> QED BY <2>1, <2>2, <2>3
<1>3. GuardTypeOK' BY <1>2 DEF GuardInv, GuardTypeOK
<1>4. OwnsKey' BY <1>2 DEF GuardInv, OwnsKey
<1>5. Stages' BY <1>2 DEF GuardInv, Stages
<1>6. StoredAnswers' BY <1>2 DEF GuardInv, StoredAnswers
<1>7. SlotsApart' BY <1>2 DEF GuardInv, SlotsApart
<1>8. AnswersMatchPurchases' BY <1>2 DEF GuardInv, AnswersMatchPurchases
<1> QED BY <1>3, <1>4, <1>5, <1>6, <1>7, <1>8 DEF GuardInv

\* One step for every action.
LEMMA GuardStep == GuardInv /\ [GuardNext]_guardVars => GuardInv'
<1> SUFFICES ASSUME GuardInv, [GuardNext]_guardVars PROVE GuardInv'
  OBVIOUS
<1>1. ASSUME NEW r \in Submissions, Submit(r) PROVE GuardInv'
  <2>1. CASE Send(r) BY <2>1, SendPreserves
  <2>2. CASE FindActiveKey(r) BY <2>2, FindActiveKeyPreserves
  <2>3. CASE CreateIdempotencyKey(r)
    BY <2>3, InsertPreserves DEF CreateIdempotencyKey, Inserted
  <2>4. CASE InsertFails(r) BY <2>4, InsertPreserves DEF InsertFails, Inserted
  <2>5. CASE FindRacedKey(r)
    BY <2>5, RefusePreserves, Known DEF FindRacedKey, InFlight
  <2>6. CASE RequirePin(r)
    BY <2>6, PassPreserves, RefusePreserves, Known DEF RequirePin, InFlight
  <2>7. CASE DuplicatePurchaseGuard(r) BY <2>7, SlotPreserves DEF DuplicatePurchaseGuard
  <2>8. CASE RedisFails(r) BY <2>8, PassPreserves DEF RedisFails
  <2>9. CASE Charge(r)
    BY <2>9, DebitedPreserves, RefusePreserves, Known DEF Charge, Debited, InFlight
  <2>10. CASE Enqueue(r) BY <2>10, EnqueuePreserves
  <2>11. CASE AnswerPurchase(r) BY <2>11, AnswerPurchasePreserves
  <2>12. CASE StoreIdempotencyResponse(r) BY <2>12, StorePreserves
  <2>13. CASE StoreFails(r) BY <2>13, StoreFailsPreserves
  <2>14. CASE SubmissionFails(r) BY <2>14, RefusePreserves DEF SubmissionFails
  <2> QED BY <1>1, <2>1, <2>2, <2>3, <2>4, <2>5, <2>6, <2>7, <2>8, <2>9, <2>10, <2>11, <2>12,
             <2>13, <2>14 DEF Submit
<1> QED BY <1>1, EnvironmentPreserves DEF GuardNext

\* Each setting of the guard's window, and each key's row, has one owner: the wallet
\* is charged once for it.
LEMMA GuardsKeep ==
  GuardInv => GuardTypeOK /\ OneChargePerKey /\ OneChargePerWindow /\ AnswersMatchPurchases
BY DEF GuardInv, OwnsKey, SlotsApart, OneChargePerKey, OneChargePerWindow

THEOREM GuardsInvariant == GuardSpec => []GuardInv
BY GuardsStart, GuardStep, PTL DEF GuardSpec

\* Under one idempotency key the wallet is charged once, however often, with
\* whatever body and how long after its expiry the key is sent.
THEOREM ChargedOncePerKey == GuardSpec => []OneChargePerKey
BY GuardsInvariant, GuardsKeep, PTL

\* Two charges of one order were let through by different windows of the guard.
THEOREM ChargedOncePerWindow == GuardSpec => []OneChargePerWindow
BY GuardsInvariant, GuardsKeep, PTL

\* A purchase that a client is told of was charged and queued for the key and the
\* JSON it sent.
THEOREM AnswersTruthful == GuardSpec => []AnswersMatchPurchases
BY GuardsInvariant, GuardsKeep, PTL

-----------------------------------------------------------------------------
(* The page on which the customer buys.                                        *)

\* A poll, and the page, know an outcome only from the server, which had it when it was read.
EndsTrue ==
  /\ \A k \in PollRequests :
       /\ poll[k].of <= submitted
       /\ poll[k].read # "sent" => poll[k].of # 0
       /\ poll[k].read \in Outcomes => poll[k].read \in server[poll[k].of].had
  /\ result.of <= submitted
  /\ result.status # "pending" => result.of # 0
  /\ result.status \in Outcomes => result.status \in server[result.of].had
  /\ \A n \in 1..LastPurchase : server[n].status \in Outcomes => server[n].status \in server[n].had

\* The timer runs for the purchase the page shows.
TimerOfShown == pollTimer # 0 => phase = "done" /\ pollTimer = submitted /\ pollCount = asked

\* Toasts follow what is shown of the purchase submitted last; it is polled once it is shown.
ToastsOfLast ==
  /\ \A n \in 1..LastPurchase : n > submitted => toasts[n] = 0
  /\ phase \in {"submitting", "done"} => submitted # 0
  /\ phase = "submitting" =>
       /\ toasts[submitted] = 0
       /\ \A k \in PollRequests : poll[k].of # submitted
       /\ ~overtaken => ~toastFired
  /\ phase = "done" /\ ~overtaken => (toastFired <=> result.status # "pending")

PageInv == PageTypeOK /\ EndsTrue /\ TimerOfShown /\ ToastsOfLast /\ PageShowsOutcome

LEMMA PageStarts == PageInit => PageInv
<1> SUFFICES ASSUME PageInit PROVE PageInv OBVIOUS
<1>0. toastFired \in BOOLEAN /\ overtaken \in BOOLEAN BY DEF PageInit
<1>1. PageTypeOK BY <1>0, PageAssumption DEF PageInit, PageTypeOK, NoPoll, ServerStates
<1>2. EndsTrue BY DEF PageInit, EndsTrue, Outcomes, NoPoll
<1>3. TimerOfShown /\ ToastsOfLast /\ PageShowsOutcome
  BY DEF PageInit, TimerOfShown, ToastsOfLast, PageShowsOutcome, Outcomes
<1> QED BY <1>1, <1>2, <1>3 DEF PageInv

LEMMA PagePreserved == PageInv /\ [PageNext]_pageVars => PageInv'
<1> SUFFICES ASSUME PageInv, [PageNext]_pageVars PROVE PageInv' OBVIOUS
<1> USE PageAssumption DEF PageInv
<1>1. CASE UNCHANGED pageVars
  BY <1>1 DEF pageVars, PageTypeOK, EndsTrue, Outcomes, TimerOfShown, ToastsOfLast, PageShowsOutcome
<1>2. ASSUME NEW n \in 1..LastPurchase, ServerMove(n) PROVE PageInv'
  <2>1. PICK status \in ServerStates :
          server' = [server EXCEPT ![n] = [status |-> status,
                                        had |-> server[n].had \union ({status} \intersect Outcomes)]]
    BY <1>2 DEF ServerMove
  <2>2. n <= submitted /\ UNCHANGED <<phase, submitted, result, pollTimer, pollCount, toastFired,
                                      poll, toasts, asked, overtaken>>
    BY <1>2 DEF ServerMove
  <2>3. /\ server'[n].status = status /\ server'[n].had = server[n].had \union ({status} \intersect Outcomes)
        /\ \A m \in 1..LastPurchase : m # n => server'[m] = server[m]
    BY <2>1 DEF PageTypeOK
  <2>4. server' \in [1..LastPurchase -> [status : ServerStates, had : SUBSET Outcomes]]
    <3>1. server[n].had \union ({status} \intersect Outcomes) \in SUBSET Outcomes BY DEF PageTypeOK
    <3> QED BY <2>1, <3>1 DEF PageTypeOK
  <2>5. PageTypeOK' BY <2>2, <2>4 DEF PageTypeOK
  <2>6. \A m \in 1..LastPurchase : server[m].had \subseteq server'[m].had BY <2>3
  <2>7. EndsTrue'
    <3>1. \A m \in 1..LastPurchase : server'[m].status \in Outcomes => server'[m].status \in server'[m].had
      BY <2>3 DEF EndsTrue
    <3>2. \A k \in PollRequests : poll[k].read \in Outcomes => poll[k].of \in 1..LastPurchase
      BY DEF EndsTrue, PageTypeOK, Outcomes
    <3>3. result.status \in Outcomes => result.of \in 1..LastPurchase
      BY DEF EndsTrue, PageTypeOK, Outcomes
    <3> QED BY <2>2, <2>6, <3>1, <3>2, <3>3 DEF EndsTrue
  <2>8. TimerOfShown' /\ ToastsOfLast' BY <2>2 DEF TimerOfShown, ToastsOfLast
  <2>9. PageShowsOutcome' BY <2>2, <2>7 DEF PageShowsOutcome, EndsTrue
  <2> QED BY <2>5, <2>7, <2>8, <2>9
<1>3. CASE Turn
  <2>1. phase \in {"idle", "confirm", "pin", "authorizing"} /\ phase' \in {"idle", "confirm", "pin", "authorizing"}
    BY <1>3 DEF Turn, Turns
  <2> QED BY <1>3, <2>1 DEF Turn, PageTypeOK, EndsTrue, Outcomes, TimerOfShown, ToastsOfLast, PageShowsOutcome
<1>4. CASE SubmitPurchase
  <2>1. pollTimer = 0 BY <1>4 DEF SubmitPurchase, TimerOfShown
  <2>0. toastFired' \in BOOLEAN /\ overtaken' \in BOOLEAN BY <1>4 DEF SubmitPurchase
  <2>01. submitted' \in 0..LastPurchase BY <1>4 DEF SubmitPurchase, PageTypeOK
  <2>2. PageTypeOK' BY <1>4, <2>0, <2>01 DEF SubmitPurchase, PageTypeOK
  <2>3. EndsTrue' BY <1>4 DEF SubmitPurchase, EndsTrue, Outcomes, PageTypeOK
  <2>4. TimerOfShown' BY <1>4, <2>1 DEF SubmitPurchase, TimerOfShown
  <2>5. ToastsOfLast'
    <3>1. submitted' \in 1..LastPurchase /\ submitted' > submitted
      BY <1>4 DEF SubmitPurchase, PageTypeOK
    <3>2. \A k \in PollRequests : poll'[k].of # submitted'
      BY <1>4 DEF SubmitPurchase, EndsTrue, Outcomes, PageTypeOK
    <3> QED BY <1>4, <3>1, <3>2 DEF SubmitPurchase, ToastsOfLast, PageTypeOK
  <2>6. PageShowsOutcome' BY <1>4 DEF SubmitPurchase, PageShowsOutcome, Outcomes
  <2> QED BY <2>2, <2>3, <2>4, <2>5, <2>6
<1>5. CASE SubmitSucceeds
  <2>1. PICK status \in {"pending", server[submitted].status} :
          /\ result' = [of |-> submitted, status |-> status]
          /\ IF status \in Ends
             THEN Toast(submitted) /\ UNCHANGED <<pollTimer, pollCount, asked>>
             ELSE /\ pollTimer' = submitted /\ pollCount' = 0 /\ asked' = 0
                  /\ UNCHANGED <<toastFired, toasts>>
    BY <1>5 DEF SubmitSucceeds
  <2>2. submitted \in 1..LastPurchase /\ status \in {"pending"} \union Ends /\ pollTimer = 0
    BY <1>5, <2>1 DEF SubmitSucceeds, ToastsOfLast, TimerOfShown, PageTypeOK, ServerStates
  <2>3. /\ phase = "submitting" /\ phase' = "done" /\ UNCHANGED <<submitted, server, poll, overtaken>>
    BY <1>5 DEF SubmitSucceeds
  <2>4. PageTypeOK'
    <3>0. toastFired' \in BOOLEAN BY <2>1 DEF PageTypeOK, Toast
    <3>1. toasts' \in [1..LastPurchase -> Nat] /\ toastFired' \in BOOLEAN
      BY <2>1, <2>2, <3>0 DEF PageTypeOK, Toast
    <3>2. /\ pollTimer' \in 0..LastPurchase /\ pollCount' \in 0..PollMaxAttempts
          /\ asked' \in 0..PollMaxAttempts
      BY <2>1, <2>2 DEF PageTypeOK
    <3>3. result' \in [of : 0..LastPurchase, status : {"pending"} \union Ends]
      BY <2>1, <2>2
    <3> QED BY <2>3, <3>1, <3>2, <3>3 DEF PageTypeOK
  <2>5. EndsTrue' BY <2>1, <2>2, <2>3 DEF EndsTrue, Outcomes, PageTypeOK, Ends
  <2>6. TimerOfShown' BY <2>1, <2>2, <2>3 DEF TimerOfShown, Ends
  <2>7. ToastsOfLast' BY <2>1, <2>2, <2>3 DEF ToastsOfLast, PageTypeOK, Toast, Ends
  <2>8. PageShowsOutcome'
    BY <2>1, <2>2, <2>3, <2>5 DEF PageShowsOutcome, EndsTrue, Outcomes, ToastsOfLast, PageTypeOK, Toast, Ends
  <2> QED BY <2>4, <2>5, <2>6, <2>7, <2>8
<1>6. CASE SubmitReturnsError
  BY <1>6 DEF SubmitReturnsError, PageTypeOK, EndsTrue, Outcomes, TimerOfShown, ToastsOfLast, PageShowsOutcome
<1>7. CASE ResetPurchase
  <2>0. /\ result' = [of |-> 0, status |-> "pending"] /\ pollTimer' = 0 /\ pollCount' = 0
        /\ toastFired' = FALSE /\ phase' = "idle"
        /\ UNCHANGED <<submitted, server, poll, toasts, asked, overtaken>>
    BY <1>7 DEF ResetPurchase, StopPolling
  <2>01. toastFired' \in BOOLEAN BY <2>0
  <2>1. PageTypeOK' BY <2>0, <2>01 DEF PageTypeOK
  <2> QED BY <1>7, <2>1 DEF ResetPurchase, StopPolling, EndsTrue, Outcomes, TimerOfShown, ToastsOfLast,
             PageShowsOutcome, PageTypeOK
<1>8. ASSUME NEW k \in PollRequests, PollTick(k) PROVE PageInv'
  <2>1. /\ pollTimer # 0 /\ pollTimer = submitted /\ pollCount = asked /\ phase = "done"
    BY <1>8 DEF PollTick, TimerOfShown
  <2>2. poll' = [poll EXCEPT ![k] = [of |-> submitted, read |-> "sent"]] BY <1>8, <2>1 DEF PollTick
  <2>3. /\ pollCount' \in 0..PollMaxAttempts /\ asked' = pollCount'
        /\ asked = PollMaxAttempts => asked' = PollMaxAttempts
    BY <1>8, <2>1 DEF PollTick, Counted, PageTypeOK
  <2>4. UNCHANGED <<phase, submitted, server, result, pollTimer, toastFired, toasts, overtaken>>
    BY <1>8 DEF PollTick
  <2>5. PageTypeOK' BY <2>2, <2>3, <2>4 DEF PageTypeOK
  <2>6. EndsTrue' BY <2>1, <2>2, <2>4 DEF EndsTrue, Outcomes, PageTypeOK
  <2>7. TimerOfShown' /\ ToastsOfLast' BY <2>1, <2>3, <2>4 DEF TimerOfShown, ToastsOfLast
  <2>8. PageShowsOutcome' BY <2>1, <2>3, <2>4 DEF PageShowsOutcome, Outcomes
  <2> QED BY <2>5, <2>6, <2>7, <2>8
<1>9. ASSUME NEW k \in PollRequests, ServerReads(k) PROVE PageInv'
  <2>1. poll[k].of \in 1..LastPurchase BY <1>9 DEF ServerReads, PageTypeOK
  <2>2. PageTypeOK' BY <1>9, <2>1 DEF ServerReads, PageTypeOK
  <2>3. EndsTrue' BY <1>9, <2>1 DEF ServerReads, EndsTrue, Outcomes, PageTypeOK
  <2>4. \A j \in PollRequests : poll'[j].of = poll[j].of BY <1>9 DEF ServerReads, PageTypeOK
  <2> QED BY <1>9, <2>2, <2>3, <2>4 DEF ServerReads, TimerOfShown, ToastsOfLast, PageShowsOutcome, Outcomes
<1>10. ASSUME NEW k \in PollRequests, PollShowsEnd(k) PROVE PageInv'
  <2> DEFINE n == poll[k].of
  <2>1. /\ n \in 1..LastPurchase /\ n <= submitted /\ poll[k].read \in Ends
        /\ poll[k].read # "pending" /\ submitted \in 1..LastPurchase
    BY <1>10 DEF PollShowsEnd, EndsTrue, Outcomes, PageTypeOK, Ends
  <2>2. /\ result' = [of |-> n, status |-> poll[k].read]
        /\ Toast(n) /\ pollTimer' = 0 /\ pollCount' = 0
        /\ poll' = [poll EXCEPT ![k] = NoPoll]
        /\ overtaken' = (overtaken \/ n # submitted)
        /\ UNCHANGED <<phase, submitted, server, asked>>
    BY <1>10 DEF PollShowsEnd, StopPolling
  <2>3. PageTypeOK' BY <2>1, <2>2 DEF PageTypeOK, Toast, NoPoll
  <2>4. EndsTrue' BY <2>1, <2>2 DEF EndsTrue, Outcomes, PageTypeOK, NoPoll
  <2>5. TimerOfShown' BY <2>2 DEF TimerOfShown
  <2>6. \A j \in PollRequests : poll'[j].of \in {0, poll[j].of} BY <2>2 DEF PageTypeOK, NoPoll
  <2>7. /\ \A m \in 1..LastPurchase : m # n => toasts'[m] = toasts[m]
        /\ toasts'[n] = (IF toastFired THEN toasts[n] ELSE toasts[n] + 1)
        /\ toastFired'
    BY <2>1, <2>2 DEF Toast, PageTypeOK
  <2>8. ToastsOfLast'
    <3>1. \A m \in 1..LastPurchase : m > submitted' => toasts'[m] = 0
      BY <2>1, <2>2, <2>7 DEF ToastsOfLast, PageTypeOK
    <3>2. phase = "submitting" => n # submitted BY DEF ToastsOfLast
    <3> QED BY <2>1, <2>2, <2>6, <2>7, <3>1, <3>2 DEF ToastsOfLast
  <2>9. PageShowsOutcome'
    <3>1. phase = "done" /\ ~overtaken' => toasts'[submitted] = 1
      <4> SUFFICES ASSUME phase = "done", ~overtaken' PROVE toasts'[submitted] = 1 OBVIOUS
      <4>1. ~overtaken /\ n = submitted BY <2>2
      <4>2. toastFired <=> result.status # "pending" BY <4>1 DEF ToastsOfLast
      <4>3. toasts[submitted] = (IF result.status = "pending" THEN 0 ELSE 1)
        BY <4>1 DEF PageShowsOutcome, Outcomes
      <4> QED BY <2>7, <4>1, <4>2, <4>3
    <3> QED BY <2>1, <2>2, <2>4, <3>1 DEF PageShowsOutcome, EndsTrue, Outcomes
  <2> QED BY <2>3, <2>4, <2>5, <2>8, <2>9
<1>11. ASSUME NEW k \in PollRequests, PollShowsNothing(k) PROVE PageInv'
  <2>1. /\ poll' = [poll EXCEPT ![k] = NoPoll]
        /\ UNCHANGED <<phase, submitted, server, result, toastFired, toasts, asked, overtaken>>
    BY <1>11 DEF PollShowsNothing
  <2>2. \/ UNCHANGED <<pollTimer, pollCount>>
        \/ pollTimer' = 0 /\ pollCount' = 0 /\ pollCount >= PollMaxAttempts
    BY <1>11 DEF PollShowsNothing, GivesUp, StopPolling
  <2>3. PageTypeOK' BY <2>1, <2>2 DEF PageTypeOK, NoPoll
  <2>4. EndsTrue' BY <2>1 DEF EndsTrue, Outcomes, PageTypeOK, NoPoll
  <2>5. TimerOfShown' BY <2>1, <2>2 DEF TimerOfShown
  <2>6. \A j \in PollRequests : poll'[j].of \in {0, poll[j].of} BY <2>1 DEF PageTypeOK, NoPoll
  <2>7. ToastsOfLast' BY <2>1, <2>6 DEF ToastsOfLast
  <2>8. PageShowsOutcome' BY <2>1, <2>2 DEF PageShowsOutcome, Outcomes, TimerOfShown, PageTypeOK
  <2> QED BY <2>3, <2>4, <2>5, <2>7, <2>8
<1> QED BY <1>1, <1>2, <1>3, <1>4, <1>5, <1>6, <1>7, <1>8, <1>9, <1>10, <1>11 DEF PageNext

\* However many polls overlap and in whatever order they answer, the page shows the end
\* of the purchase submitted last, once, unless a poll of an earlier one came late; and
\* it offers another try only after a purchase that failed.
THEOREM PageIsTrue == PageSpec => []PageShowsOutcome
<1>1. PageInv => PageShowsOutcome BY DEF PageInv
<1> QED BY <1>1, PageStarts, PagePreserved, PTL DEF PageSpec
=============================================================================
