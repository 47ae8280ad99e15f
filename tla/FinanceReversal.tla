--------------------------- MODULE FinanceReversal ---------------------------
(* An administrator's reversal or refund of one transaction: a check of its    *)
(* status, a look for an earlier record of the same kind, a new record, the    *)
(* status, the record again, each a statement of its own.  Several             *)
(* administrators may ask at once, and the process may die in between.         *)
CONSTANTS
  Interventions,  \* the administrators' calls
  LeftIn          \* what the purchase may have left the transaction in

ASSUME ReversalAssumption == LeftIn \intersect {"reversed", "refunded"} = {}

VARIABLES
  txStatus,       \* transactions.status
  record,         \* each call's row in reversals or refunds
  journal,        \* the calls that posted a credit to the customer's wallet
  doing,          \* where each call is
  overlap         \* ghost: a call began while another was under way

reversalVars == <<txStatus, record, journal, doing, overlap>>

SettlementKinds == {"reversal", "refund"}
NoRecord == [kind |-> "none", status |-> "none"]
Underway == {"find", "insert", "setStatus", "finalise"}

ReversalInit ==
  /\ txStatus \in LeftIn
  /\ record = [i \in Interventions |-> NoRecord]
  /\ journal = {} /\ overlap = FALSE
  /\ doing = [i \in Interventions |-> [pc |-> "idle", kind |-> "none"]]

Proceed(i, pc) == doing' = [doing EXCEPT ![i].pc = pc]

\* The columns that createTransaction gives a purchase's row.
Columns == {"user_id", "reference", "type", "status", "amount", "source_wallet_id",
            "destination_wallet_id", "provider", "metadata"}

BugAllowed(k) == IF k = "reversal" THEN {"successful", "refunded"} ELSE {"successful", "failed"}
\* The statuses a reversal and a refund start from.
Allowed(k) == IF k = "reversal" THEN {"successful"} ELSE {"successful", "failed"}
\* The status each leaves.
Outcome(k) == IF k = "reversal" THEN "reversed" ELSE "refunded"
\* The status of a record that is done.
Closed(k) == IF k = "reversal" THEN "completed" ELSE "processed"

CheckStatus(i) ==
  /\ doing[i].pc = "idle"
  /\ \E k \in SettlementKinds :
       doing' = [doing EXCEPT ![i] =
                   [kind |-> k, pc |-> IF txStatus \in Allowed(k) THEN "find" ELSE "refused"]]
  /\ overlap' = (overlap \/ \E j \in Interventions : doing[j].pc \in Underway)
  /\ UNCHANGED <<txStatus, record, journal>>

\* Any record of the kind blocks another, also one that was never finished: no
\* code sets a record to "failed".
FindExisting(i) ==
  /\ doing[i].pc = "find"
  /\ Proceed(i, IF \E j \in Interventions : record[j].kind = doing[i].kind
                THEN "refused" ELSE "insert")
  /\ UNCHANGED <<txStatus, record, journal, overlap>>

InsertRecord(i) ==
  /\ doing[i].pc = "insert" /\ Proceed(i, "setStatus")
  /\ record' = [record EXCEPT ![i] = [kind |-> doing[i].kind, status |-> "pending"]]
  /\ UNCHANGED <<txStatus, journal, overlap>>

\* The balancing journal entry is posted for a transaction that has a wallet_id,
\* and the status written whatever it has become.
SetTransactionStatus(i) ==
  /\ doing[i].pc = "setStatus" /\ Proceed(i, "finalise")
  /\ journal' = IF "wallet_id" \in Columns THEN journal \union {i} ELSE journal
  /\ txStatus' = Outcome(doing[i].kind)
  /\ UNCHANGED <<record, overlap>>

FinaliseRecord(i) ==
  /\ doing[i].pc = "finalise" /\ Proceed(i, "done")
  /\ record' = [record EXCEPT ![i].status = Closed(doing[i].kind)]
  /\ UNCHANGED <<txStatus, journal, overlap>>

\* A statement rejects, or the process dies.
InterventionFails(i) ==
  /\ doing[i].pc \in Underway /\ Proceed(i, "lost")
  /\ UNCHANGED <<txStatus, record, journal, overlap>>

Intervene(i) ==
  \/ CheckStatus(i) \/ FindExisting(i) \/ InsertRecord(i) \/ SetTransactionStatus(i)
  \/ FinaliseRecord(i) \/ InterventionFails(i)

ReversalNext == \E i \in Interventions : Intervene(i)

ReversalSpec == ReversalInit /\ [][ReversalNext]_reversalVars

-----------------------------------------------------------------------------
\* Status, records and calls keep their types.
ReversalTypeOK ==
  /\ txStatus \in LeftIn \union {"reversed", "refunded"}
  /\ record \in [Interventions -> [kind : SettlementKinds \union {"none"},
                                   status : {"none", "pending", "completed", "processed"}]]
  /\ journal \subseteq Interventions /\ overlap \in BOOLEAN
  /\ doing \in [Interventions -> [pc : Underway \union {"idle", "refused", "done", "lost"},
                                  kind : SettlementKinds \union {"none"}]]

Finished == {i \in Interventions : record[i].status \in {"completed", "processed"}}

\* Administrators who do not act at the same moment settle a transaction once, as a
\* reversal or as a refund, wherever earlier calls of theirs died; two who do may
\* each settle it, for the checks and the writes are not one transaction.  A settled
\* transaction has its record in any case.
SettledOnce ==
  /\ overlap \/ \A i, j \in Finished : i = j
  /\ \A k \in SettlementKinds :
       txStatus = Outcome(k) => \E i \in Interventions : record[i].kind = k

\* What the dashboard tells the administrator before he confirms: the wallet is
\* credited and the journal entries are made.
SettlementIsCredited == txStatus \in {"reversed", "refunded"} => journal # {}
=============================================================================
