--------------------------- MODULE VirtualAccounts ---------------------------
(* The bank account a customer pays into: he visits the page that shows its    *)
(* number, and the first visit opens the account at the gateway and writes it  *)
(* down.  Gateway and table cannot be written together, visits run side by     *)
(* side, and any of them may break off.  The two gateways are handled apart,   *)
(* Paystack by getOrCreateDedicatedAccount, Squad by                           *)
(* getOrCreateSquadVirtualAccount, and a behaviour is about one of them.       *)
EXTENDS Naturals

CONSTANT Visits  \* the customer's visits to the page

VARIABLES
  accountGateway,  \* "paystack" or "squad"
  opened,          \* external: the accounts opened for the customer are 1 to opened
  accountRow,      \* the row in dedicated_accounts or squad_virtual_accounts: the account, or 0
  visit            \* where each visit is; the bank it tries and the account it was told of; the
                   \* account it showed; (ghost) what it heard when it asked, and whether a
                   \* creation's answer was lost

accountVars == <<accountGateway, opened, accountRow, visit>>

AccountInit ==
  /\ accountGateway \in {"paystack", "squad"}
  /\ opened = 0 /\ accountRow = 0
  /\ visit = [v \in Visits |-> [pc |-> "find", bank |-> 1, number |-> 0, shown |-> 0,
                                heard |-> "nothing", lost |-> FALSE]]

VisitAt(v, pc) == visit' = [visit EXCEPT ![v].pc = pc]
Show(v) == visit' = [visit EXCEPT ![v].pc = "done", ![v].shown = accountRow]

FindRow(v) ==
  /\ visit[v].pc = "find"
  /\ IF accountRow = 0 THEN VisitAt(v, "check") ELSE Show(v)
  /\ UNCHANGED <<accountGateway, opened, accountRow>>

\* The profile has all the gateway asks for, or the customer is told what it lacks.
CheckProfile(v) ==
  /\ visit[v].pc = "check" /\ \E pc \in {"ask", "done"} : VisitAt(v, pc)
  /\ UNCHANGED <<accountGateway, opened, accountRow>>

\* Has the gateway an account already?  An error counts as no.
FetchAccount(v) ==
  /\ visit[v].pc = "ask"
  /\ \/ \E n \in 1..opened :
          visit' = [visit EXCEPT ![v].pc = "insert", ![v].number = n, ![v].heard = "found"]
     \/ /\ opened = 0
        /\ visit' = [visit EXCEPT ![v].pc = "create", ![v].heard = "none"]
     \/ visit' = [visit EXCEPT ![v].pc = "create", ![v].heard = "error"]
  /\ UNCHANGED <<accountGateway, opened, accountRow>>

CreateAccount(v) ==
  /\ visit[v].pc = "create" /\ opened' = opened + 1
  /\ visit' = [visit EXCEPT ![v].pc = "insert", ![v].number = opened + 1]
  /\ UNCHANGED <<accountGateway, accountRow>>

\* PREFERRED_BANKS; Squad has one.
Banks == IF accountGateway = "paystack" THEN 2 ELSE 1

\* The call is refused, or its answer is lost: the next bank, as long as there is one.
CreationFails(v) ==
  /\ visit[v].pc = "create"
  /\ \E lost \in BOOLEAN :
       /\ opened' = IF lost THEN opened + 1 ELSE opened
       /\ visit' = [visit EXCEPT
            ![v].pc = IF visit[v].bank < Banks THEN "create" ELSE "done",
            ![v].bank = IF visit[v].bank < Banks THEN visit[v].bank + 1 ELSE visit[v].bank,
            ![v].lost = lost \/ visit[v].lost]
  /\ UNCHANGED <<accountGateway, accountRow>>

BugInsertRow(v) ==   \* shows its own account, whoever was first
  /\ visit[v].pc = "insert"
  /\ accountRow' = IF accountRow = 0 THEN visit[v].number ELSE accountRow
  /\ visit' = [visit EXCEPT ![v].pc = "done", ![v].shown = visit[v].number]
  /\ UNCHANGED <<accountGateway, opened>>

\* user_id is unique.  When another visit was first, Squad's insert is ignored and
\* the row is read again; Paystack's rejects, and the customer gets an error.
InsertRow(v) ==
  /\ visit[v].pc = "insert"
  /\ \/ /\ accountRow = 0 /\ accountRow' = visit[v].number
        /\ visit' = [visit EXCEPT ![v].pc = "done", ![v].shown = visit[v].number]
     \/ /\ accountRow # 0 /\ VisitAt(v, IF accountGateway = "squad" THEN "reread" ELSE "done")
        /\ UNCHANGED accountRow
  /\ UNCHANGED <<accountGateway, opened>>

RereadRow(v) ==
  /\ visit[v].pc = "reread" /\ Show(v)
  /\ UNCHANGED <<accountGateway, opened, accountRow>>

\* A statement or a call fails for good, or the process dies.
VisitFails(v) ==
  /\ visit[v].pc # "done" /\ VisitAt(v, "done")
  /\ UNCHANGED <<accountGateway, opened, accountRow>>

AccountNext ==
  \E v \in Visits :
    \/ FindRow(v) \/ CheckProfile(v) \/ FetchAccount(v) \/ CreateAccount(v) \/ CreationFails(v)
    \/ InsertRow(v) \/ RereadRow(v) \/ VisitFails(v)

AccountSpec == AccountInit /\ [][AccountNext]_accountVars

-----------------------------------------------------------------------------
VisitStates == [pc : {"find", "check", "ask", "create", "insert", "reread", "done"}, bank : 1..2,
                number : Nat, shown : Nat, heard : {"nothing", "none", "found", "error"},
                lost : BOOLEAN]

\* Row, visits and the gateway's accounts keep their types.
AccountTypeOK ==
  /\ accountGateway \in {"paystack", "squad"}
  /\ opened \in Nat /\ accountRow \in 0..opened
  /\ visit \in [Visits -> VisitStates]

\* A lookup failed, a creation's answer was lost, or two visits both asked before
\* there was an account.
SpareExplained ==
  \/ \E v \in Visits : visit[v].heard = "error" \/ visit[v].lost
  \/ \E v, w \in Visits : v # w /\ visit[v].heard = "none" /\ visit[w].heard = "none"

\* Whatever visits overlap and wherever they break off, every visit shows the same
\* number, that of the recorded account; and a visit that dies between opening the
\* account and recording it makes the next one record that account, not open another.
AccountsAgree ==
  /\ \A v \in Visits : visit[v].shown # 0 => visit[v].shown = accountRow /\ accountRow <= opened
  /\ opened > 1 => SpareExplained
=============================================================================
