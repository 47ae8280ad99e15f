-------------------------- MODULE ProviderAdapters ---------------------------
(* One order sent through the adapter of one provider, when no other provider  *)
(* is left to fail over to: what the adapter makes of each way the HTTP        *)
(* exchange can end, what the engine makes of that (PurchaseSaga gives the     *)
(* whole engine), and the queries which later ask the provider what became of  *)
(* an order it took.  The provider's own truth about the order is kept beside  *)
(* what the program believes.                                                  *)
(*                                                                             *)
(* A message is the set of the words in it that classifyError looks for; an    *)
(* answer of the provider may bring any words with it.                         *)
EXTENDS Naturals

CONSTANTS
  Adapters,   \* the adapters the order may go through
  Askers,     \* who asks for the outcome of a pending order: "worker", "reconciliation"
  LastMinute  \* bound: minutes that pass

Synchronous == {"legitdataway", "networkdatasub", "edata", "maskawasub", "smshika", "secureidverify"}

ASSUME AdapterAssumption ==
  /\ Adapters \subseteq Synchronous \union {"vtpass", "clubkonnect"}
  /\ Askers \subseteq {"worker", "reconciliation"} /\ LastMinute \in Nat

VARIABLES
  adapter,    \* the adapter of the order
  minute,     \* the clock, in minutes
  token,      \* legitdataway's access token: "none", "cached", "fresh" (this call's own)
  order,      \* the provider's truth: the id it knows the order by, and its state
  exchange,   \* where the purchase() call is, or how its exchange ended
  stage,      \* the transaction: "buying", "pending", "successful", "requires_review", "refunded"
  stored,     \* provider_reference: "reference" (ours) or "orderId" (theirs)
  inquiry     \* the last query: the id asked for, and what verifyTransaction said

adapterVars == <<adapter, minute, token, order, exchange, stage, stored, inquiry>>

NoId == [base |-> "none", minute |-> 0]
Truths == {"none", "accepted", "delivered", "refused"}
Words == {"timeout", "network", "auth", "validation"}

AdapterInit ==
  /\ adapter \in Adapters /\ minute = 0 /\ token \in {"none", "cached"}
  /\ order = [id |-> NoId, truth |-> "none"]
  /\ exchange = "build" /\ stage = "buying" /\ stored = "reference"
  /\ inquiry = [id |-> NoId, status |-> "none"]

-----------------------------------------------------------------------------
\* The errors.

BugClassify(words) ==
  IF "network" \in words THEN "NETWORK_ERROR"
  ELSE IF "auth" \in words THEN "AUTH_ERROR"
  ELSE IF "validation" \in words THEN "VALIDATION_ERROR" ELSE "PROVIDER_ERROR"
\* classifyError, in the order of its lists.
Classify(words) ==
  IF "timeout" \in words THEN "TIMEOUT"
  ELSE IF "network" \in words THEN "NETWORK_ERROR"
  ELSE IF "auth" \in words THEN "AUTH_ERROR"
  ELSE IF "validation" \in words THEN "VALIDATION_ERROR" ELSE "PROVIDER_ERROR"

\* Every message NetworkDataSub's adapter throws begins with its name, in which
\* the classifier finds "network".
Named(words) == IF adapter = "networkdatasub" THEN words \union {"network"} ELSE words

Throws(words) == [status |-> "failed", words |-> Named(words)]
Returns(status, words) == [status |-> status, words |-> words]

-----------------------------------------------------------------------------
\* What each adapter makes of an answer: its HTTP status ("ok", "401", "403",
\* "error"), what its body says, and the words in that.  "badkey" is a body that
\* rejects the credentials; a body that is no JSON or cannot be read is "garbage".
\* An adapter reads the answers of all its services alike: airtime, data, electricity,
\* cable TV.

BugStatusSaid(body) == IF body = "delivered" THEN "successful" ELSE "failed"
\* normalizeStatus, normalizePurchaseResponse.
StatusSaid(body) == CASE body = "delivered" -> "successful"
                      [] body = "accepted" -> "processing"
                      [] OTHER -> "failed"

VTPassReads(r) ==
  IF r.http \in {"401", "403"} THEN Throws({"auth"})
  ELSE IF r.http = "error" THEN Throws({})
  ELSE IF r.body = "garbage" THEN Throws(r.words)
  ELSE IF r.body = "badkey" THEN Throws({"auth"} \union r.words)
  ELSE Returns(StatusSaid(r.body), r.words)

\* Rejected credentials in the body are only logged: the order counts as failed.
ClubKonnectReads(r) ==
  IF r.http \in {"401", "403"} THEN Throws({"auth"})
  ELSE IF r.body = "garbage" THEN Throws(r.words)
  ELSE Returns(StatusSaid(r.body), r.words)

\* Anything but "success", "successful" or "delivered" has failed.
StatusField(body) == IF body = "delivered" THEN "successful" ELSE "failed"

\* The second answer: a first 401 or 403 is TokenRejected's.
LegitDataWayReads(r) ==
  IF r.http \in {"401", "403"} THEN Throws({"auth"} \union r.words)
  ELSE IF r.body = "garbage" THEN Throws(r.words)
  ELSE Returns(StatusField(r.body), r.words)

\* The `success` flag is all that is read; a 403 is read like any other body.
NetworkDataSubReads(r) ==
  IF r.http = "401" THEN Throws({"auth"})
  ELSE IF r.body = "garbage" THEN Throws(r.words)
  ELSE Returns(StatusField(r.body), r.words)

EDataReads(r) ==
  IF r.http \in {"401", "403"} THEN Throws({"auth"})
  ELSE IF r.body = "garbage" THEN Throws(r.words)
  ELSE Returns(StatusField(r.body), r.words)

\* The same of their services' own fields.
MaskawasubReads(r) == EDataReads(r)
SMShikaReads(r) == EDataReads(r)
SecureIDVerifyReads(r) == EDataReads(r)

Reads(r) == CASE adapter = "vtpass" -> VTPassReads(r)
              [] adapter = "clubkonnect" -> ClubKonnectReads(r)
              [] adapter = "legitdataway" -> LegitDataWayReads(r)
              [] adapter = "networkdatasub" -> NetworkDataSubReads(r)
              [] adapter = "edata" -> EDataReads(r)
              [] adapter = "maskawasub" -> MaskawasubReads(r)
              [] adapter = "smshika" -> SMShikaReads(r)
              [] adapter = "secureidverify" -> SecureIDVerifyReads(r)

\* External: the answers the provider may give, and what they say of the order.
\* A garbled answer, or one that never comes, says nothing of it.
BodiesOf(http) ==
  CASE http \in {"401", "403"} -> {"badkey"}
    [] http = "error" -> {"refused", "garbage"}
    [] http = "ok" -> {"delivered", "refused", "garbage"} \union
                      (IF adapter \in Synchronous THEN {} ELSE {"accepted", "badkey"})
TruthsBehind(body) == CASE body \in {"delivered", "accepted", "refused"} -> {body}
                        [] body = "badkey" -> {"none"}
                        [] OTHER -> Truths
SomeWords == {{}} \union {{w} : w \in Words}

-----------------------------------------------------------------------------
\* The purchase.

\* The engine's end of an attempt that was the last one, with no other provider
\* left: an outcome nobody confirmed goes to review, any other failure is refunded.
Conclude(result) ==
  /\ stage' = IF result.status = "successful" THEN "successful"
              ELSE IF result.status = "processing" THEN "pending"
              ELSE IF Classify(result.words) \in {"TIMEOUT", "NETWORK_ERROR"}
              THEN "requires_review" ELSE "refunded"
  /\ stored' = IF result.status = "processing" THEN "orderId" ELSE stored

\* Credentials, the service, the plan or the network code are missing, so nothing
\* is sent; the message may name any of them, "network" included.
RequestUnbuildable ==
  /\ exchange = "build" /\ exchange' = "unsent"
  /\ \E words \in SUBSET {"network", "auth"} : Conclude(Throws(words))
  /\ UNCHANGED <<adapter, minute, token, order, inquiry>>

RequestBuilt ==
  /\ exchange = "build" /\ (adapter = "legitdataway" => token = "cached")
  /\ exchange' = "send"
  /\ UNCHANGED <<adapter, minute, token, order, stage, stored, inquiry>>

\* resolveAuth with no token kept, and refreshToken after a 401 or 403: only
\* legitdataway has either.
GenerateToken ==
  /\ adapter = "legitdataway"
  /\ exchange = "refresh" \/ (exchange = "build" /\ token = "none")
  /\ \/ token' = (IF exchange = "refresh" THEN "fresh" ELSE "cached") /\ exchange' = "send"
        /\ UNCHANGED <<stage, stored>>
     \/ /\ exchange' = "unsent" /\ UNCHANGED token
        /\ \E words \in SomeWords : Conclude(Throws(words))
  /\ UNCHANGED <<adapter, minute, order, inquiry>>

\* The ids: ours, or vtpass's with the minute of the call in front of it.
IdFor(base) == [base |-> base, minute |-> IF adapter = "vtpass" THEN minute ELSE 0]

Sent(truth) ==
  order' = [id |-> IF truth = "none" THEN NoId ELSE IdFor("reference"), truth |-> truth]

\* The abort timer fires, or the connection breaks, before any header arrives.
ExchangeCutOff ==
  /\ exchange = "send" /\ exchange' = "cut"
  /\ \E truth \in Truths : Sent(truth)
  /\ \E word \in {"timeout", "network"} : Conclude(Throws({word}))
  /\ UNCHANGED <<adapter, minute, token, inquiry>>

\* legitdataway's first 401 or 403: a message that does not speak of the token is
\* a refused request, anything else gets a new token and one more try.
TokenRejected ==
  /\ adapter = "legitdataway" /\ token = "cached" /\ exchange = "send"
  /\ \/ exchange' = "refresh" /\ UNCHANGED <<stage, stored>>
     \/ /\ exchange' = "answered"
        /\ \E words \in SomeWords : Conclude(Throws(words))
  /\ UNCHANGED <<adapter, minute, token, order, inquiry>>

Answered ==
  /\ exchange = "send"
  /\ \E http \in {"ok", "401", "403", "error"}, words \in SomeWords :
       /\ adapter = "legitdataway" /\ http \in {"401", "403"} => token = "fresh"
       /\ \E body \in BodiesOf(http) :
            /\ exchange' = IF body = "garbage" THEN "garbled" ELSE "answered"
            /\ \E truth \in TruthsBehind(body) : Sent(truth)
            /\ Conclude(Reads([http |-> http, body |-> body, words |-> words]))
  /\ UNCHANGED <<adapter, minute, token, inquiry>>

-----------------------------------------------------------------------------
\* The query.

ProviderSettles ==
  /\ order.truth = "accepted"
  /\ \E truth \in {"delivered", "refused"} : order' = [order EXCEPT !.truth = truth]
  /\ UNCHANGED <<adapter, minute, token, exchange, stage, stored, inquiry>>

MinutePasses ==
  /\ minute < LastMinute /\ minute' = minute + 1
  /\ UNCHANGED <<adapter, token, order, exchange, stage, stored, inquiry>>

\* The worker asks under the reference, a reconciliation under the id that the
\* provider gave the order.
AskedId(asker) == IdFor(IF asker = "worker" THEN "reference" ELSE stored)

\* What verifyTransaction may say when asked for id: an error is thrown or given
\* as pending, and both leave the purchase as it is; an order that the provider
\* does not find under the id has failed.
Verdicts(id) ==
  {"pending", CASE StatusSaid(IF id = order.id THEN order.truth ELSE "none") = "processing" -> "pending"
                [] OTHER -> StatusSaid(IF id = order.id THEN order.truth ELSE "none")}

VerifyTransaction(asker) ==
  /\ stage = "pending"
  /\ \E verdict \in Verdicts(AskedId(asker)) :
       /\ inquiry' = [id |-> AskedId(asker), status |-> verdict]
       /\ stage' = CASE verdict = "failed" -> "refunded"
                     [] verdict = "successful" -> "successful"
                     [] OTHER -> stage
  /\ UNCHANGED <<adapter, minute, token, order, exchange, stored>>

\* The worker's last poll.
PollsExhausted ==
  /\ stage = "pending" /\ stage' = "requires_review"
  /\ UNCHANGED <<adapter, minute, token, order, exchange, stored, inquiry>>

AdapterNext ==
  \/ RequestUnbuildable \/ RequestBuilt \/ GenerateToken \/ ExchangeCutOff \/ TokenRejected
  \/ Answered \/ ProviderSettles \/ MinutePasses \/ PollsExhausted
  \/ \E asker \in Askers : VerifyTransaction(asker)

AdapterSpec == AdapterInit /\ [][AdapterNext]_adapterVars

-----------------------------------------------------------------------------
\* The order, the exchange and the inquiry keep their types.
AdapterTypeOK ==
  LET Ids == [base : {"none", "reference", "orderId"}, minute : 0..LastMinute] IN
  /\ adapter \in Adapters /\ minute \in 0..LastMinute /\ token \in {"none", "cached", "fresh"}
  /\ order \in [id : Ids, truth : Truths]
  /\ exchange \in {"build", "send", "refresh", "unsent", "cut", "garbled", "answered"}
  /\ stage \in {"buying", "pending", "successful", "requires_review", "refunded"}
  /\ stored \in {"reference", "orderId"}
  /\ inquiry \in [id : Ids, status : {"none", "pending", "successful", "failed"}]

\* An exchange that was cut off before an answer is refunded by no adapter's
\* wording of it: the words the adapters throw and the classifier reads agree.
CutOffIsReviewed == exchange = "cut" => stage = "requires_review"

\* Whatever is said under the id the order was placed with is true, at once and in
\* the end: the provider delivered what is called successful, still has what is
\* called pending, and refused what is called failed.
VerdictIsTrue ==
  /\ inquiry.id = order.id /\ inquiry.status = "failed" => order.truth = "refused"
  /\ stage = "successful" => order.truth = "delivered"
  /\ stage = "pending" => order.truth # "none"
  /\ exchange = "answered" /\ stage = "refunded" /\ inquiry.id \in {NoId, order.id}
       => order.truth \in {"none", "refused"}

\* The query must name the order as the purchase did: a purchase is called failed
\* only when the provider refused it.
VerdictIsConfirmed == inquiry.status = "failed" => order.truth = "refused"
=============================================================================
