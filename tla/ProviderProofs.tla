--------------------------- MODULE ProviderProofs ---------------------------
(* Proofs about the circuit of a provider and about the adapters.  Both        *)
(* invariants are inductive next to the types of a few variables.              *)
EXTENDS CircuitBreaker, ProviderAdapters, TLAPS

\* The circuit: the row keeps its type and OpenAfterThreshold.
CircuitInv == CircuitTypeOK /\ OpenAfterThreshold

LEMMA CircuitStarts == CircuitInit => CircuitInv
BY CircuitAssumption DEF CircuitInit, CircuitInv, CircuitTypeOK, OpenAfterThreshold

LEMMA RecordFailurePreserves ==
  ASSUME CircuitInv, NEW c \in Callers, RecordFailure(c) PROVE CircuitInv'
<1> DEFINE tripped == circuit.failures + 1 >= Threshold
<1>1. /\ circuit \in [open : BOOLEAN, failures : 0..Threshold]
      /\ openFor \in (0..Cooldown) \union {Never}
      /\ caller \in [Callers -> {"idle", "refused", "ordering", "succeeded", "failed"}]
      /\ circuit.open <=> circuit.failures >= Threshold
      /\ circuit.open <=> openFor # Never
  BY DEF CircuitInv, CircuitTypeOK, OpenAfterThreshold
<1>2. /\ circuit' = [open |-> tripped \/ circuit.open,
                     failures |-> IF tripped THEN Threshold ELSE circuit.failures + 1]
      /\ openFor' = IF tripped /\ ~circuit.open THEN 0 ELSE openFor
      /\ caller' = [caller EXCEPT ![c] = "idle"]
  BY DEF RecordFailure, OpenedAt, Move
<1>3. circuit.failures \in 0..Threshold BY <1>1
<1>4. CircuitTypeOK'
  BY <1>1, <1>2, <1>3, CircuitAssumption DEF CircuitTypeOK
<1>5. CASE tripped
  <2>1. (tripped \/ circuit.open) = TRUE BY <1>5
  <2>2. circuit' = [open |-> TRUE, failures |-> Threshold] BY <1>2, <1>5, <2>1
  <2>3. openFor' # Never
    <3>1. CASE circuit.open BY <1>1, <1>2, <3>1
    <3>2. CASE ~circuit.open BY <1>2, <1>5, <3>2, CircuitAssumption
    <3> QED BY <3>1, <3>2
  <2> QED BY <2>2, <2>3, <1>4, CircuitAssumption DEF CircuitInv, OpenAfterThreshold
<1>6. CASE ~tripped
  <2>1. circuit.open = FALSE BY <1>1, <1>3, <1>6, CircuitAssumption
  <2>2. (tripped \/ circuit.open) = FALSE BY <1>6, <2>1
  <2>3. circuit' = [open |-> FALSE, failures |-> circuit.failures + 1] BY <1>2, <1>6, <2>2
  <2>4. openFor' = Never BY <1>1, <1>2, <1>6, <2>1
  <2> QED BY <1>3, <1>6, <2>3, <2>4, <1>4, CircuitAssumption DEF CircuitInv, OpenAfterThreshold
<1> QED BY <1>5, <1>6

LEMMA CircuitPreserved == CircuitInv /\ [CircuitNext]_circuitVars => CircuitInv'
<1> SUFFICES ASSUME CircuitInv, [CircuitNext]_circuitVars PROVE CircuitInv' OBVIOUS
<1> USE CircuitAssumption DEF CircuitInv, CircuitTypeOK, OpenAfterThreshold
<1>1. CASE UNCHANGED circuitVars BY <1>1 DEF circuitVars
<1>2. ASSUME NEW c \in Callers, CheckCircuit(c) \/ TryAgain(c) \/ OrderEnds(c)
      PROVE CircuitInv'
  BY <1>2 DEF CheckCircuit, TryAgain, OrderEnds, Move
<1>3. ASSUME NEW c \in Callers, RecordSuccess(c) PROVE CircuitInv'
  BY <1>3 DEF RecordSuccess, FailuresLeft, Move
<1>4. ASSUME NEW c \in Callers, RecordFailure(c) PROVE CircuitInv'
  BY <1>4, RecordFailurePreserves
<1>5. ASSUME NEW c \in Callers, RecordLost(c) PROVE CircuitInv'
  BY <1>5 DEF RecordLost, Move
<1>6. CASE ResetCircuit BY <1>6 DEF ResetCircuit
<1>7. CASE CircuitTick BY <1>7 DEF CircuitTick
<1> QED BY <1>1, <1>2, <1>3, <1>4, <1>5, <1>6, <1>7 DEF CircuitNext

\* However many workers record their results in whatever order, the circuit is open
\* exactly when the last Threshold of them failed, and then its cool-down runs.
THEOREM CircuitTrips == CircuitSpec => []OpenAfterThreshold
<1>1. CircuitInv => OpenAfterThreshold BY DEF CircuitInv
<1> QED BY <1>1, CircuitStarts, CircuitPreserved, PTL DEF CircuitSpec

-----------------------------------------------------------------------------
\* The adapters: until the exchange is over nothing was ordered, asked or decided.
OrderOpen ==
  exchange \in {"build", "send", "refresh"} =>
    /\ stage = "buying" /\ stored = "reference"
    /\ order = [id |-> NoId, truth |-> "none"] /\ inquiry = [id |-> NoId, status |-> "none"]

AdapterInv ==
  /\ adapter \in Adapters
  /\ order = [id |-> order.id, truth |-> order.truth] /\ order.truth \in Truths
  /\ stored \in {"reference", "orderId"}
  /\ OrderOpen /\ CutOffIsReviewed /\ VerdictIsTrue

LEMMA AdapterStarts == AdapterInit => AdapterInv
BY DEF AdapterInit, AdapterInv, OrderOpen, CutOffIsReviewed, VerdictIsTrue, Truths, NoId

\* Each adapter calls an order successful only when the answer says it was
\* delivered, and pending only when it says it was accepted, and always then.
LEMMA ReadsAreFaithful ==
  ASSUME adapter \in Adapters, NEW http \in {"ok", "401", "403", "error"},
         NEW body \in BodiesOf(http), NEW words
  PROVE  LET said == Reads([http |-> http, body |-> body, words |-> words]).status IN
         /\ said = "successful" <=> body = "delivered"
         /\ said = "processing" <=> body = "accepted"
         /\ said \in {"successful", "processing", "failed"}
<1> DEFINE r == [http |-> http, body |-> body, words |-> words]
<1>1. r.http = http /\ r.body = body OBVIOUS
<1>2. \A w : Throws(w).status = "failed" BY DEF Throws
<1>3. \A s, w : Returns(s, w).status = s BY DEF Returns
<1>4. body \in {"delivered", "accepted"} => http = "ok"
  <2>1. CASE http \in {"401", "403"}
    <3>1. BodiesOf(http) = {"badkey"} BY <2>1 DEF BodiesOf
    <3> QED BY <3>1
  <2>2. CASE http = "error"
    <3>1. BodiesOf(http) = {"refused", "garbage"} BY <2>2 DEF BodiesOf
    <3> QED BY <3>1
  <2> QED BY <2>1, <2>2
<1>5. adapter \in Synchronous => body # "accepted"
  <2>1. CASE http = "ok" /\ adapter \in Synchronous
    <3>1. BodiesOf(http) = {"delivered", "refused", "garbage"} BY <2>1 DEF BodiesOf
    <3> QED BY <3>1
  <2> QED BY <1>4, <2>1
<1>6. adapter \in {"legitdataway", "networkdatasub", "edata", "maskawasub", "smshika",
                   "secureidverify", "vtpass", "clubkonnect"}
  BY AdapterAssumption DEF Synchronous
<1> HIDE DEF r
<1>7. CASE adapter = "vtpass"
  BY <1>1, <1>2, <1>3, <1>4, <1>7 DEF Reads, VTPassReads, StatusSaid
<1>8. CASE adapter = "clubkonnect"
  BY <1>1, <1>2, <1>3, <1>4, <1>8 DEF Reads, ClubKonnectReads, StatusSaid
<1>9. CASE adapter = "legitdataway"
  BY <1>1, <1>2, <1>3, <1>4, <1>5, <1>9 DEF Synchronous, Reads, LegitDataWayReads, StatusField
<1>10. CASE adapter = "networkdatasub"
  BY <1>1, <1>2, <1>3, <1>4, <1>5, <1>10 DEF Synchronous, Reads, NetworkDataSubReads, StatusField
<1>11. CASE adapter \in {"edata", "maskawasub", "smshika", "secureidverify"}
  BY <1>1, <1>2, <1>3, <1>4, <1>5, <1>11
     DEF Synchronous, Reads, EDataReads, MaskawasubReads, SMShikaReads, SecureIDVerifyReads, StatusField
<1> QED BY <1>6, <1>7, <1>8, <1>9, <1>10, <1>11 DEF r

LEMMA AnsweredPreserves ==
  ASSUME AdapterInv, Answered PROVE AdapterInv'
<1>a. PICK http \in {"ok", "401", "403", "error"}, words \in SomeWords :
        \E body \in BodiesOf(http) :
          /\ exchange' = IF body = "garbage" THEN "garbled" ELSE "answered"
          /\ \E truth \in TruthsBehind(body) : Sent(truth)
          /\ Conclude(Reads([http |-> http, body |-> body, words |-> words]))
  BY DEF Answered
<1>1. PICK body \in BodiesOf(http) :
        /\ exchange' = IF body = "garbage" THEN "garbled" ELSE "answered"
        /\ \E truth \in TruthsBehind(body) : Sent(truth)
        /\ Conclude(Reads([http |-> http, body |-> body, words |-> words]))
  BY <1>a
<1> DEFINE said == Reads([http |-> http, body |-> body, words |-> words])
<1>2. PICK truth \in TruthsBehind(body) : Sent(truth) BY <1>1
<1>3. /\ said.status = "successful" <=> body = "delivered"
      /\ said.status = "processing" <=> body = "accepted"
      /\ said.status \in {"successful", "processing", "failed"}
  BY ReadsAreFaithful DEF AdapterInv
<1>4. /\ body = "delivered" => truth = "delivered"
      /\ body = "accepted" => truth = "accepted"
      /\ body = "refused" => truth = "refused"
      /\ body = "badkey" => truth = "none"
      /\ truth \in Truths
  BY DEF TruthsBehind, Truths
<1>5. body \in {"delivered", "refused", "garbage", "accepted", "badkey"} BY DEF BodiesOf
<1>6. /\ stage' = "successful" <=> said.status = "successful"
      /\ stage' = "pending" <=> said.status = "processing"
      /\ stored' \in {"reference", "orderId"}
  <2>1. Conclude(said) /\ stored \in {"reference", "orderId"} BY <1>1 DEF AdapterInv
  <2> HIDE DEF said
  <2>2. CASE said.status = "successful" BY <2>1, <2>2 DEF Conclude
  <2>3. CASE said.status = "processing" BY <2>1, <2>3 DEF Conclude
  <2>4. CASE said.status = "failed"
    <3>1. stage' \in {"requires_review", "refunded"} BY <2>1, <2>4 DEF Conclude
    <3>2. stored' = stored BY <2>1, <2>4 DEF Conclude
    <3> QED BY <2>1, <2>4, <3>1, <3>2
  <2> QED BY <1>3, <2>2, <2>3, <2>4
<1>7. /\ order' = [id |-> order'.id, truth |-> truth] /\ order'.truth = truth
      /\ UNCHANGED <<adapter, inquiry>> /\ exchange' \in {"garbled", "answered"}
      /\ exchange' = "answered" => body # "garbage"
      /\ inquiry.status = "none"
  BY <1>1, <1>2 DEF Answered, Sent, AdapterInv, OrderOpen
<1> HIDE DEF said
<1> QED BY <1>3, <1>4, <1>5, <1>6, <1>7 DEF AdapterInv, OrderOpen, CutOffIsReviewed, VerdictIsTrue

LEMMA CutOffPreserves ==
  ASSUME AdapterInv, ExchangeCutOff PROVE AdapterInv'
<1>1. PICK truth \in Truths, word \in {"timeout", "network"} :
        Sent(truth) /\ Conclude(Throws({word}))
  BY DEF ExchangeCutOff
<1>2. /\ Throws({word}).status = "failed"
      /\ Classify(Throws({word}).words) \in {"TIMEOUT", "NETWORK_ERROR"}
  BY DEF Throws, Named, Classify
<1>3. stage' = "requires_review" /\ stored' = stored BY <1>1, <1>2 DEF Conclude
<1>4. /\ order' = [id |-> order'.id, truth |-> truth] /\ order'.truth = truth
      /\ UNCHANGED <<adapter, inquiry>> /\ exchange' = "cut" /\ inquiry.status = "none"
  BY <1>1 DEF ExchangeCutOff, Sent, AdapterInv, OrderOpen
<1> QED BY <1>3, <1>4 DEF AdapterInv, OrderOpen, CutOffIsReviewed, VerdictIsTrue

\* An attempt that ends before the order is placed.
LEMMA UnplacedPreserves ==
  ASSUME AdapterInv, NEW words, Conclude(Throws(words)),
         exchange \in {"build", "send", "refresh"}, exchange' \in {"unsent", "answered"},
         UNCHANGED <<adapter, order, inquiry>>
  PROVE  AdapterInv'
<1>1. Throws(words).status = "failed" BY DEF Throws
<1>2. stage' \in {"requires_review", "refunded"} /\ stored' = stored BY <1>1 DEF Conclude
<1> QED BY <1>2 DEF AdapterInv, OrderOpen, CutOffIsReviewed, VerdictIsTrue, NoId

LEMMA VerifyPreserves ==
  ASSUME AdapterInv, NEW asker \in Askers, VerifyTransaction(asker) PROVE AdapterInv'
<1> DEFINE id == AskedId(asker)
<1>1. PICK verdict \in Verdicts(id) :
        /\ inquiry' = [id |-> id, status |-> verdict]
        /\ stage' = CASE verdict = "failed" -> "refunded"
                      [] verdict = "successful" -> "successful" [] OTHER -> stage
  BY DEF VerifyTransaction
<1>2. id # NoId
  <2>1. id.base # "none" BY DEF AskedId, IdFor, AdapterInv
  <2> QED BY <2>1 DEF NoId
<1>3. /\ verdict = "successful" => id = order.id /\ order.truth = "delivered"
      /\ verdict = "failed" /\ id = order.id => order.truth = "refused"
      /\ verdict \in {"pending", "successful", "failed"}
  BY DEF Verdicts, StatusSaid, AdapterInv, Truths, VerifyTransaction, VerdictIsTrue
<1> QED
  BY <1>1, <1>2, <1>3
  DEF VerifyTransaction, AdapterInv, OrderOpen, CutOffIsReviewed, VerdictIsTrue

LEMMA AdapterPreserved == AdapterInv /\ [AdapterNext]_adapterVars => AdapterInv'
<1> SUFFICES ASSUME AdapterInv, [AdapterNext]_adapterVars PROVE AdapterInv' OBVIOUS
<1> USE DEF AdapterInv, OrderOpen, CutOffIsReviewed, VerdictIsTrue
<1>1. CASE UNCHANGED adapterVars BY <1>1 DEF adapterVars
<1>2. CASE RequestUnbuildable BY <1>2, UnplacedPreserves DEF RequestUnbuildable
<1>3. CASE RequestBuilt BY <1>3 DEF RequestBuilt
<1>4. CASE GenerateToken BY <1>4, UnplacedPreserves DEF GenerateToken
<1>5. CASE ExchangeCutOff BY <1>5, CutOffPreserves
<1>6. CASE TokenRejected BY <1>6, UnplacedPreserves DEF TokenRejected
<1>7. CASE Answered BY <1>7, AnsweredPreserves
<1>8. CASE ProviderSettles BY <1>8 DEF ProviderSettles, Truths
<1>9. CASE MinutePasses BY <1>9 DEF MinutePasses
<1>10. CASE PollsExhausted BY <1>10 DEF PollsExhausted
<1>11. ASSUME NEW asker \in Askers, VerifyTransaction(asker) PROVE AdapterInv'
  BY <1>11, VerifyPreserves
<1> QED BY <1>1, <1>2, <1>3, <1>4, <1>5, <1>6, <1>7, <1>8, <1>9, <1>10, <1>11 DEF AdapterNext

\* The types need nothing of the rest.
LEMMA AdapterTypesKept == AdapterTypeOK /\ [AdapterNext]_adapterVars => AdapterTypeOK'
<1> SUFFICES ASSUME AdapterTypeOK, [AdapterNext]_adapterVars PROVE AdapterTypeOK' OBVIOUS
<1> DEFINE Ids == [base : {"none", "reference", "orderId"}, minute : 0..LastMinute]
<1> USE AdapterAssumption DEF AdapterTypeOK
<1>1. \A base \in {"reference", "orderId"} : IdFor(base) \in Ids
  BY DEF IdFor
<1>2. NoId \in Ids BY DEF NoId
<1>3. ASSUME NEW result, Conclude(result)
      PROVE  /\ stage' \in {"buying", "pending", "successful", "requires_review", "refunded"}
             /\ stored' \in {"reference", "orderId"}
  BY <1>3 DEF Conclude
<1>4. ASSUME NEW truth \in Truths, Sent(truth) PROVE order' \in [id : Ids, truth : Truths]
  BY <1>1, <1>2, <1>4 DEF Sent
<1>5. \A http, body : TruthsBehind(body) \subseteq Truths
  BY DEF TruthsBehind, Truths
<1>6. CASE UNCHANGED adapterVars BY <1>6 DEF adapterVars
<1>7. CASE RequestUnbuildable BY <1>3, <1>7 DEF RequestUnbuildable
<1>8. CASE RequestBuilt BY <1>8 DEF RequestBuilt
<1>9. CASE GenerateToken BY <1>3, <1>9 DEF GenerateToken
<1>10. CASE ExchangeCutOff
  <2>1. order' \in [id : Ids, truth : Truths] BY <1>4, <1>10 DEF ExchangeCutOff
  <2> QED BY <1>3, <1>10, <2>1 DEF ExchangeCutOff
<1>11. CASE TokenRejected BY <1>3, <1>11 DEF TokenRejected
<1>12. CASE Answered
  <2>1. order' \in [id : Ids, truth : Truths] BY <1>4, <1>5, <1>12 DEF Answered
  <2> QED BY <1>3, <1>12, <2>1 DEF Answered
<1>13. CASE ProviderSettles BY <1>13 DEF ProviderSettles, Truths
<1>14. CASE MinutePasses BY <1>14 DEF MinutePasses
<1>15. CASE PollsExhausted BY <1>15 DEF PollsExhausted
<1>16. ASSUME NEW asker \in Askers, VerifyTransaction(asker) PROVE AdapterTypeOK'
  <2>1. AskedId(asker) \in Ids BY <1>1 DEF AskedId
  <2>2. \A verdict \in Verdicts(AskedId(asker)) : verdict \in {"pending", "successful", "failed"}
    BY DEF Verdicts, StatusSaid
  <2> QED BY <1>16, <2>1, <2>2 DEF VerifyTransaction
<1> QED
  BY <1>6, <1>7, <1>8, <1>9, <1>10, <1>11, <1>12, <1>13, <1>14, <1>15, <1>16 DEF AdapterNext

\* No adapter's wording of an exchange that was cut off leads to a refund.
THEOREM CutOffGoesToReview == AdapterSpec => []CutOffIsReviewed
<1>1. AdapterInv => CutOffIsReviewed BY DEF AdapterInv
<1> QED BY <1>1, AdapterStarts, AdapterPreserved, PTL DEF AdapterSpec

\* What is said of an order under its own id is true, through every adapter.
THEOREM VerdictsAreTrue == AdapterSpec => []VerdictIsTrue
<1>1. AdapterInv => VerdictIsTrue BY DEF AdapterInv
<1> QED BY <1>1, AdapterStarts, AdapterPreserved, PTL DEF AdapterSpec
=============================================================================
