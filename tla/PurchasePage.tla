----------------------------- MODULE PurchasePage -----------------------------
(* The page on which a customer of the app buys something: form, review, PIN   *)
(* or fingerprint, request, and then a poll every two seconds until the        *)
(* purchase has an end.  The timer does not wait for its polls: several are on *)
(* their way at once, answer in any order, and may answer when the customer    *)
(* has gone on to another purchase.                                            *)
EXTENDS Naturals

CONSTANTS
  LastPurchase,     \* the page submits at most that many
  PollRequests,     \* the polls that can be on their way at one time
  PollMaxAttempts

ASSUME PageAssumption == LastPurchase \in Nat /\ PollMaxAttempts \in Nat \ {0}

VARIABLES
  phase,
  submitted,   \* the number of the purchase submitted last; each has an idempotency key of its own
  server,      \* external: the status of each purchase, and (ghost) the outcomes it has had
  result,      \* the purchase the page shows, or 0, and the status it shows
  pollTimer,   \* the purchase the timer asks about, or 0; isPolling
  pollCount,   \* counted up to PollMaxAttempts
  toastFired,
  poll,        \* each poll: its purchase, or 0; what the server read, or "sent"
  toasts,      \* ghost: the final toasts for each purchase
  asked,       \* ghost: the polls for the purchase polled last, counted as pollCount is
  overtaken    \* ghost: a poll of another purchase answered since the last was submitted

pageVars ==
  <<phase, submitted, server, result, pollTimer, pollCount, toastFired, poll, toasts, asked, overtaken>>

NoPoll == [of |-> 0, read |-> "sent"]

PageInit ==
  /\ phase = "idle" /\ submitted = 0
  /\ server = [n \in 1..LastPurchase |-> [status |-> "none", had |-> {}]]
  /\ result = [of |-> 0, status |-> "pending"]
  /\ pollTimer = 0 /\ pollCount = 0 /\ toastFired = FALSE
  /\ poll = [k \in PollRequests |-> NoPoll]
  /\ toasts = [n \in 1..LastPurchase |-> 0] /\ asked = 0 /\ overtaken = FALSE

Ends == {"success", "failed", "review"}
ServerStates == {"none", "refused", "pending"} \union Ends

Outcomes == {"success", "failed"}

\* External: a purchase that the server took is charged and settled; a review is decided;
\* a scan, or an engine that was given up, may then still heal a failed purchase or fail one
\* that went through.  (A retry by an administrator, pending again, is left out.)
ServerMoves ==
  ({"none"} \X {"refused", "pending"}) \union ({"pending"} \X Ends)
    \union ({"review"} \X Outcomes) \union {<<"failed", "success">>, <<"success", "failed">>}

ServerMove(n) ==
  /\ n <= submitted
  /\ \E status \in ServerStates :
       /\ <<server[n].status, status>> \in ServerMoves
       /\ server' = [server EXCEPT ![n] = [status |-> status,
                                          had |-> server[n].had \union ({status} \intersect Outcomes)]]
  /\ UNCHANGED <<phase, submitted, result, pollTimer, pollCount, toastFired, poll, toasts, asked, overtaken>>

\* The review and PIN windows; the answer of the fingerprint prompt.
Turns == {<<"idle", "confirm">>, <<"confirm", "idle">>, <<"confirm", "pin">>, <<"pin", "confirm">>,
          <<"confirm", "authorizing">>, <<"authorizing", "pin">>}

Turn ==
  /\ \E turn \in Turns : phase = turn[1] /\ phase' = turn[2]
  /\ UNCHANGED <<submitted, server, result, pollTimer, pollCount, toastFired, poll, toasts, asked, overtaken>>

SubmitPurchase ==
  /\ phase \in {"pin", "authorizing"} /\ submitted < LastPurchase
  /\ phase' = "submitting" /\ submitted' = submitted + 1
  /\ toastFired' = FALSE /\ overtaken' = FALSE
  /\ UNCHANGED <<server, result, pollTimer, pollCount, poll, toasts, asked>>

\* Show the outcome of purchase n, and toast it unless something was toasted before.
Toast(n) ==
  /\ toastFired' = TRUE
  /\ toasts' = IF toastFired THEN toasts ELSE [toasts EXCEPT ![n] = @ + 1]

SubmitSucceeds ==
  /\ phase = "submitting" /\ server[submitted].status \notin {"none", "refused"}
  /\ phase' = "done"
  /\ \E status \in {"pending", server[submitted].status} :
       /\ result' = [of |-> submitted, status |-> status]
       /\ IF status \in Ends
          THEN Toast(submitted) /\ UNCHANGED <<pollTimer, pollCount, asked>>
          ELSE /\ pollTimer' = submitted /\ pollCount' = 0 /\ asked' = 0
               /\ UNCHANGED <<toastFired, toasts>>
  /\ UNCHANGED <<submitted, server, poll, overtaken>>

\* Refused, the PIN for instance; or no answer within thirty seconds, whatever the server did.
SubmitReturnsError ==
  /\ phase = "submitting" /\ phase' \in {"idle"} \union {p \in {"pin"} : server[submitted].status = "refused"}
  /\ UNCHANGED <<submitted, server, result, pollTimer, pollCount, toastFired, poll, toasts, asked, overtaken>>

Counted(n) == IF n < PollMaxAttempts THEN n + 1 ELSE n

PollTick(k) ==
  /\ pollTimer # 0 /\ poll[k] = NoPoll
  /\ pollCount' = Counted(pollCount) /\ asked' = Counted(asked)
  /\ poll' = [poll EXCEPT ![k] = [of |-> pollTimer, read |-> "sent"]]
  /\ UNCHANGED <<phase, submitted, server, result, pollTimer, toastFired, toasts, overtaken>>

ServerReads(k) ==
  /\ poll[k].of # 0 /\ poll[k].read = "sent"
  /\ poll' = [poll EXCEPT ![k].read = server[poll[k].of].status]
  /\ UNCHANGED <<phase, submitted, server, result, pollTimer, pollCount, toastFired, toasts, asked, overtaken>>

StopPolling == pollTimer' = 0 /\ pollCount' = 0

BugGivesUp == pollCount + 1 >= PollMaxAttempts   \* one poll too early
GivesUp == pollCount >= PollMaxAttempts

\* An end is shown whatever the page has come to since; stopPolling stops whatever runs.
PollShowsEnd(k) ==
  /\ poll[k].read \in Ends
  /\ result' = [of |-> poll[k].of, status |-> poll[k].read]
  /\ Toast(poll[k].of) /\ StopPolling
  /\ poll' = [poll EXCEPT ![k] = NoPoll]
  /\ overtaken' = (overtaken \/ poll[k].of # submitted)
  /\ UNCHANGED <<phase, submitted, server, asked>>

\* Still pending, or the poll failed, as it does after thirty seconds.
PollShowsNothing(k) ==
  /\ poll[k].of # 0
  /\ IF GivesUp THEN StopPolling ELSE UNCHANGED <<pollTimer, pollCount>>
  /\ poll' = [poll EXCEPT ![k] = NoPoll]
  /\ UNCHANGED <<phase, submitted, server, result, toastFired, toasts, asked, overtaken>>

\* The button of a failed purchase.
ResetPurchase ==
  /\ phase = "done" /\ result.status = "failed"
  /\ StopPolling /\ toastFired' = FALSE /\ phase' = "idle"
  /\ result' = [of |-> 0, status |-> "pending"]
  /\ UNCHANGED <<submitted, server, poll, toasts, asked, overtaken>>

PageNext ==
  \/ Turn \/ SubmitPurchase \/ SubmitSucceeds \/ SubmitReturnsError \/ ResetPurchase
  \/ \E n \in 1..LastPurchase : ServerMove(n)
  \/ \E k \in PollRequests : PollTick(k) \/ ServerReads(k) \/ PollShowsEnd(k) \/ PollShowsNothing(k)

PageSpec == PageInit /\ [][PageNext]_pageVars

-----------------------------------------------------------------------------
\* Page, timer, polls and purchases keep their types.
PageTypeOK ==
  /\ phase \in {"idle", "confirm", "authorizing", "pin", "submitting", "done"}
  /\ submitted \in 0..LastPurchase /\ server \in [1..LastPurchase -> [status : ServerStates, had : SUBSET Outcomes]]
  /\ result \in [of : 0..LastPurchase, status : {"pending"} \union Ends]
  /\ pollTimer \in 0..LastPurchase
  /\ pollCount \in 0..PollMaxAttempts /\ asked \in 0..PollMaxAttempts
  /\ toastFired \in BOOLEAN /\ overtaken \in BOOLEAN
  /\ poll \in [PollRequests -> [of : 0..LastPurchase, read : {"sent"} \union ServerStates]]
  /\ toasts \in [1..LastPurchase -> Nat]

\* useServicePurchase.ts:75-127, ResultModal.tsx:77: what the customer is shown as the outcome
\* was one, so that "Try Again" is offered only for a purchase that has failed; it is his last
\* purchase that is shown, unless a poll of an earlier one answered late; the end is toasted
\* once; and a purchase shown without an end is polled, or was as often as the page polls.
PageShowsOutcome ==
  /\ result.status \in Outcomes => result.status \in server[result.of].had
  /\ phase = "done" /\ ~overtaken =>
       /\ result.of = submitted
       /\ toasts[submitted] = (IF result.status = "pending" THEN 0 ELSE 1)
  /\ phase = "done" /\ result.status = "pending" =>
       /\ result.of = submitted
       /\ pollTimer = submitted \/ asked = PollMaxAttempts
=============================================================================
