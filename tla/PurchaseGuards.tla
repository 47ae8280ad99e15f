--------------------------- MODULE PurchaseGuards ---------------------------
(* What stands between a customer who submits a purchase, and perhaps submits  *)
(* it again, and the debit of his wallet: the idempotency middleware, the PIN, *)
(* the thirty-second guard against double taps and the purchase controller.    *)
(* Every submission passes them step by step, beside the others.               *)
EXTENDS Naturals

CONSTANTS
  Keys,           \* idempotency keys of one customer
  Bodies,         \* what may be bought: a route and the JSON sent to it
  SameJson,       \* sets of bodies that differ by their route only
  Fingerprinted,  \* the bodies whose route has the thirty-second guard
  Submissions,    \* the requests
  MaxWindows      \* bound: times the guard's Redis key of a body is set

ASSUME GuardAssumption ==
  /\ Fingerprinted \subseteq Bodies /\ SameJson \subseteq SUBSET Bodies /\ MaxWindows \in Nat
  /\ {"none", "missing"} \intersect Keys = {} /\ "none" \notin Bodies
  /\ "nobody" \notin Submissions

VARIABLES
  request,        \* where each submission is, and what became of it
  keyRow,         \* idempotency_keys; a row is never deleted
  window          \* Redis: is the guard's key of a body set; and (ghost) how many windows it made

guardVars == <<request, keyRow, window>>

Unsent == [pc |-> "unsent", key |-> "none", body |-> "none", slot |-> 0, charged |-> FALSE,
           queued |-> FALSE, storing |-> FALSE, reply |-> "none", told |-> "nobody"]
NoRow == [owner |-> "nobody", stored |-> FALSE, active |-> FALSE]

GuardInit ==
  /\ request = [r \in Submissions |-> Unsent]
  /\ keyRow = [k \in Keys |-> NoRow]
  /\ window = [b \in Bodies |-> [open |-> FALSE, count |-> 0]]

Pass(r, pc) == request' = [request EXCEPT ![r].pc = pc]
Refuse(r, reply) == request' = [request EXCEPT ![r].pc = "done", ![r].reply = reply]
RowOf(r) == keyRow[request[r].key]

\* The client sends a body under any key, or without one.
Send(r) ==
  /\ request[r].pc = "unsent"
  /\ \E k \in Keys \union {"missing"}, b \in Bodies :
       request' = [request EXCEPT ![r].pc = "lookup", ![r].key = k, ![r].body = b]
  /\ UNCHANGED <<keyRow, window>>

-----------------------------------------------------------------------------
\* The idempotency middleware.

\* The hash covers the JSON only; the row's endpoint is written and never read.
HashedAlike(b, c) == b = c \/ \E J \in SameJson : {b, c} \subseteq J

BugSameHash(r) == TRUE
SameHash(r) == HashedAlike(request[RowOf(r).owner].body, request[r].body)

\* findActiveKey, and what its answer leads to.
FindActiveKey(r) ==
  /\ request[r].pc = "lookup"
  /\ IF request[r].key = "missing" THEN Refuse(r, "missing")
     ELSE IF ~RowOf(r).active THEN Pass(r, "insert")
     ELSE IF ~SameHash(r) THEN Refuse(r, "conflict")
     ELSE IF ~RowOf(r).stored THEN Refuse(r, "inProgress")
     ELSE request' = [request EXCEPT ![r].pc = "done", ![r].reply = "replayed",
                                     ![r].told = RowOf(r).owner]
  /\ UNCHANGED <<keyRow, window>>

BugTaken(r) == RowOf(r).active
\* (user_id, idempotency_key) is unique, an expired row included.
Taken(r) == RowOf(r).owner # "nobody"

CreateIdempotencyKey(r) ==
  /\ request[r].pc = "insert"
  /\ IF Taken(r) THEN Pass(r, "relook") /\ UNCHANGED keyRow
     ELSE /\ keyRow' = [keyRow EXCEPT ![request[r].key] =
                          [owner |-> r, stored |-> FALSE, active |-> TRUE]]
          /\ Pass(r, "pin")
  /\ UNCHANGED window

\* Any error of the insert is taken for the race, whether the row was written or not.
InsertFails(r) ==
  /\ request[r].pc = "insert" /\ Pass(r, "relook")
  /\ \/ UNCHANGED keyRow
     \/ ~Taken(r) /\ keyRow' = [keyRow EXCEPT ![request[r].key] =
                                  [owner |-> r, stored |-> FALSE, active |-> TRUE]]
  /\ UNCHANGED window

FindRacedKey(r) ==
  /\ request[r].pc = "relook"
  /\ Refuse(r, IF RowOf(r).active THEN "inProgress" ELSE "error")
  /\ UNCHANGED <<keyRow, window>>

\* Twenty-four hours pass: the row is no longer found.
KeyExpires(k) ==
  /\ keyRow[k].active
  /\ keyRow' = [keyRow EXCEPT ![k].active = FALSE]
  /\ UNCHANGED <<request, window>>

-----------------------------------------------------------------------------
\* The PIN and the thirty-second guard.

RequirePin(r) ==
  /\ request[r].pc = "pin"
  /\ Pass(r, "dedup") \/ Refuse(r, "rejected")
  /\ UNCHANGED <<keyRow, window>>

BugBlocked(b) == FALSE
\* SET key 1 EX 30 NX answers null.
Blocked(b) == window[b].open

\* The number of the window in which the guard's key of b is set now.
WindowOf(b) == IF window[b].open THEN window[b].count ELSE window[b].count + 1

DuplicatePurchaseGuard(r) ==
  LET b == request[r].body IN
  /\ request[r].pc = "dedup"
  /\ \/ b \notin Fingerprinted /\ Pass(r, "charge") /\ UNCHANGED window
     \/ b \in Fingerprinted /\ Blocked(b) /\ Refuse(r, "duplicate") /\ UNCHANGED window
     \/ /\ b \in Fingerprinted /\ ~Blocked(b)
        /\ WindowOf(b) <= MaxWindows
        /\ window' = [window EXCEPT ![b].open = TRUE, ![b].count = WindowOf(b)]
        /\ request' = [request EXCEPT ![r].pc = "charge", ![r].slot = WindowOf(b)]
  /\ UNCHANGED keyRow

\* An error of Redis lets the submission through.
RedisFails(r) ==
  /\ request[r].pc = "dedup" /\ Pass(r, "charge")
  /\ UNCHANGED <<keyRow, window>>

\* The thirty seconds are over.
WindowCloses(b) ==
  /\ window[b].open
  /\ window' = [window EXCEPT ![b].open = FALSE]
  /\ UNCHANGED <<request, keyRow>>

-----------------------------------------------------------------------------
\* The controller: PurchaseSaga begins here.

Charge(r) ==
  /\ request[r].pc = "charge"
  /\ \/ request' = [request EXCEPT ![r].pc = "queue", ![r].charged = TRUE]
     \/ Refuse(r, "rejected")                     \* validation, overdraft
  /\ UNCHANGED <<keyRow, window>>

\* The transaction row and the job.
Enqueue(r) ==
  /\ request[r].pc = "queue"
  /\ request' = [request EXCEPT ![r].pc = "answer", ![r].queued = TRUE]
  /\ UNCHANGED <<keyRow, window>>

\* res.json, intercepted: the storing of the answer begins and is not awaited.
AnswerPurchase(r) ==
  /\ request[r].pc = "answer"
  /\ request' = [request EXCEPT ![r].pc = "done", ![r].reply = "bought", ![r].told = r,
                                ![r].storing = TRUE]
  /\ UNCHANGED <<keyRow, window>>

StoreIdempotencyResponse(r) ==
  /\ request[r].storing
  /\ request' = [request EXCEPT ![r].storing = FALSE]
  /\ keyRow' = [keyRow EXCEPT ![request[r].key].stored = TRUE]
  /\ UNCHANGED window

StoreFails(r) ==
  /\ request[r].storing
  /\ request' = [request EXCEPT ![r].storing = FALSE]
  /\ UNCHANGED <<keyRow, window>>

InFlight == {"lookup", "insert", "relook", "pin", "dedup", "charge", "queue", "answer"}

\* A call rejects, or the process dies and the client hears nothing; both leave the
\* key's row in progress.
SubmissionFails(r) ==
  /\ request[r].pc \in InFlight
  /\ Refuse(r, "error")
  /\ UNCHANGED <<keyRow, window>>

Submit(r) ==
  \/ Send(r) \/ FindActiveKey(r) \/ CreateIdempotencyKey(r) \/ InsertFails(r)
  \/ FindRacedKey(r) \/ RequirePin(r) \/ DuplicatePurchaseGuard(r) \/ RedisFails(r)
  \/ Charge(r) \/ Enqueue(r) \/ AnswerPurchase(r) \/ StoreIdempotencyResponse(r)
  \/ StoreFails(r) \/ SubmissionFails(r)

GuardNext ==
  \/ \E r \in Submissions : Submit(r)
  \/ \E k \in Keys : KeyExpires(k)
  \/ \E b \in Bodies : WindowCloses(b)

GuardSpec == GuardInit /\ [][GuardNext]_guardVars

-----------------------------------------------------------------------------
SubmissionStates == [pc : InFlight \union {"unsent", "done"}, key : Keys \union {"none", "missing"},
             body : Bodies \union {"none"}, slot : Nat, charged : BOOLEAN, queued : BOOLEAN,
             storing : BOOLEAN,
             reply : {"none", "bought", "replayed", "missing", "conflict", "inProgress",
                      "duplicate", "rejected", "error"},
             told : Submissions \union {"nobody"}]
Rows == [owner : Submissions \union {"nobody"}, stored : BOOLEAN, active : BOOLEAN]

\* Every submission, key row and window keeps its type.
GuardTypeOK ==
  /\ request \in [Submissions -> SubmissionStates]
  /\ keyRow \in [Keys -> Rows]
  /\ window \in [Bodies -> [open : BOOLEAN, count : Nat]]

\* However often and however close together a key is sent, before or after it
\* expired, with the same body or another, the wallet is charged once under it.
OneChargePerKey ==
  \A r, s \in Submissions :
    request[r].charged /\ request[s].charged /\ request[r].key = request[s].key => r = s

\* Two charges for the same order under different keys, a double tap, were let
\* through by different windows of the guard, or by an error of Redis.
OneChargePerWindow ==
  \A r, s \in Submissions :
    /\ request[r].charged /\ request[s].charged /\ request[r].body = request[s].body
    /\ request[r].slot # 0 /\ request[r].slot = request[s].slot
    => r = s

\* A client told of a purchase, its own or a stored one, is told of one that was
\* charged and queued for the key and the JSON it sent, on the same route unless
\* the client used the key for the same JSON on another; one that was refused was
\* not charged.
AnswersMatchPurchases ==
  \A r \in Submissions :
    /\ request[r].reply \in {"bought", "replayed"} =>
         /\ request[r].told \in Submissions
         /\ request[request[r].told].charged /\ request[request[r].told].queued
         /\ request[request[r].told].key = request[r].key
         /\ HashedAlike(request[request[r].told].body, request[r].body)
    /\ request[r].reply \in {"missing", "conflict", "inProgress", "duplicate", "rejected"}
         => ~request[r].charged
=============================================================================
