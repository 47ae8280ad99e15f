-------------------------- MODULE PurchaseContract --------------------------
(* What one purchase promises the customer, without queues, retries or        *)
(* providers: the price is taken once, the purchase is opened, and it is       *)
(* closed exactly once -- as a success or a review of a purchase that is still *)
(* paid for, or as a failure.  Only a purchase that is still open may be        *)
(* refunded, and at most once.                                                 *)
VARIABLES money, outcome

cvars == <<money, outcome>>

CInit == money = "unpaid" /\ outcome = "none"

Charge == money = "unpaid" /\ money' = "charged" /\ UNCHANGED outcome

Open == money = "charged" /\ outcome = "none" /\ outcome' = "open" /\ UNCHANGED money

Refund == money = "charged" /\ outcome = "open" /\ money' = "refunded" /\ UNCHANGED outcome

\* A success and a review keep the money; the customer of a review may have been served.
CloseKeepingMoney ==
  /\ money = "charged" /\ outcome = "open"
  /\ outcome' \in {"successful", "requires_review"}
  /\ UNCHANGED money

CloseAsFailed == outcome = "open" /\ outcome' = "failed" /\ UNCHANGED money

CNext == Charge \/ Open \/ Refund \/ CloseKeepingMoney \/ CloseAsFailed

CSpec == CInit /\ [][CNext]_cvars
=============================================================================
