--------------------------- MODULE AdminProofs ------------------------------
(* The dashboard's page survives the rotations of its session that it causes:  *)
(* for every number of requests and of sessions.  And whoever is registered    *)
(* has an identity to log in with, for every number of requests side by side.  *)
(* A transaction is settled once unless two administrators act at the same     *)
(* moment, for every number of calls and wherever some of them die.  And a     *)
(* broadcast shown as sent reached everyone, and nobody twice while nothing    *)
(* failed: for every number of recipients, of queue jobs and of attempts.      *)
EXTENDS AdminSession, Registration, FinanceReversal, NotificationDelivery, TLAPS

Stations == {"idle", "sent", "served", "denied", "queued", "refresher", "dropped"}

\* One refresh at a time; whoever waits, waits for it.
OneRefresh ==
  /\ refreshing <=> refresh.pc # "none"
  /\ \A r \in Xhrs : xhr[r].pc \in {"queued", "refresher"} => refreshing
  /\ refresh.pc = "rotated" => refresh.token # 0

\* The page holds tokens until it goes to /login, and then no refresh is under way.
Holding ==
  /\ onLogin <=> tokens = 0
  /\ onLogin => ~refreshing

\* As long as no refresh call is interrupted the page's tokens, or those that an
\* answer carries to it, are those of the server's session.
InStep ==
  ~interrupted =>
    /\ onLogin => live = 0
    /\ refresh.pc \in {"sent", "found"} => refresh.token = tokens
    /\ refresh.pc = "refused" => live = 0
    /\ live # 0 /\ refresh.pc = "rotated" => refresh.token = live
    /\ live # 0 /\ refresh.pc # "rotated" => tokens = live

SessionInv == SessionTypeOK /\ OneRefresh /\ Holding /\ InStep /\ NoneGivenUp

LEMMA Zero == 0 \in 0..LastSession /\ 1 \in 1..LastSession /\ 1 \in 0..LastSession
BY SessionAssumption

LEMMA SessionStarts == SessionInit => SessionInv
<1> SUFFICES ASSUME SessionInit PROVE SessionInv
  OBVIOUS
<1>1. SessionTypeOK BY Zero DEF SessionInit, SessionTypeOK, Quiet, Fresh, Idle
<1>2. OneRefresh BY DEF SessionInit, OneRefresh, Quiet, Fresh, Idle
<1>3. Holding /\ InStep BY DEF SessionInit, Holding, InStep, Quiet
<1>4. NoneGivenUp BY DEF SessionInit, NoneGivenUp, Fresh, Idle
<1> QED BY <1>1, <1>2, <1>3, <1>4 DEF SessionInv

\* A request that moves from one state to another, and nothing else does.
LEMMA RequestMoves ==
  ASSUME SessionInv, NEW r \in Xhrs, NEW pc \in Stations, NEW token \in 0..LastSession,
         NEW waited \in BOOLEAN,
         xhr' = [xhr EXCEPT ![r] = [pc |-> pc, token |-> token, waited |-> waited]],
         pc \in {"queued", "refresher"} => refreshing,
         pc = "dropped" => onLogin \/ waited,
         UNCHANGED <<live, accessValid, created, tokens, refreshing, refresh, onLogin, interrupted>>
  PROVE  SessionInv'
<1>1. SessionTypeOK' BY DEF SessionInv, SessionTypeOK, Stations
<1>2. OneRefresh' BY DEF SessionInv, SessionTypeOK, OneRefresh
<1>3. Holding' /\ InStep' BY DEF SessionInv, Holding, InStep
<1>4. NoneGivenUp' BY DEF SessionInv, SessionTypeOK, NoneGivenUp
<1> QED BY <1>1, <1>2, <1>3, <1>4 DEF SessionInv

LEMMA SessionStep == SessionInv /\ [SessionNext]_sessionVars => SessionInv'
<1> SUFFICES ASSUME SessionInv, [SessionNext]_sessionVars PROVE SessionInv'
  OBVIOUS
<1>0. \A r \in Xhrs :
        /\ xhr[r].token \in 0..LastSession /\ xhr[r].pc \in Stations /\ xhr[r].waited \in BOOLEAN
        /\ \A pc \in Stations :
             [xhr[r] EXCEPT !.pc = pc] = [pc |-> pc, token |-> xhr[r].token, waited |-> xhr[r].waited]
  BY DEF SessionInv, SessionTypeOK, Stations
<1>1. \A pc \in {"found", "refused"} :
        [refresh EXCEPT !.pc = pc] = [pc |-> pc, token |-> refresh.token]
  BY DEF SessionInv, SessionTypeOK
<1>2. CASE FindSession
  <2>1. SessionTypeOK' /\ OneRefresh' /\ Holding' /\ InStep'
    BY <1>1, <1>2 DEF FindSession, SessionInv, SessionTypeOK, OneRefresh, Holding, InStep
  <2>2. NoneGivenUp' BY <1>2 DEF FindSession, SessionInv, NoneGivenUp
  <2> QED BY <2>1, <2>2 DEF SessionInv
<1>3. CASE RotateSession
  <2>1. SessionTypeOK' /\ OneRefresh' /\ Holding' /\ InStep'
    BY <1>3, SessionAssumption
    DEF RotateSession, SessionInv, SessionTypeOK, OneRefresh, Holding, InStep
  <2>2. NoneGivenUp' BY <1>3 DEF RotateSession, SessionInv, NoneGivenUp
  <2> QED BY <2>1, <2>2 DEF SessionInv
<1>4. CASE RefreshInterrupted
  <2>1. SessionTypeOK' /\ OneRefresh' /\ Holding' /\ InStep'
    BY <1>1, <1>4 DEF RefreshInterrupted, SessionInv, SessionTypeOK, OneRefresh, Holding, InStep
  <2>2. NoneGivenUp' BY <1>4 DEF RefreshInterrupted, SessionInv, NoneGivenUp
  <2> QED BY <2>1, <2>2 DEF SessionInv
<1>5. CASE AccessExpires \/ SessionEnds
  <2>1. SessionTypeOK' BY <1>5, Zero DEF AccessExpires, SessionEnds, SessionInv, SessionTypeOK
  <2>2. OneRefresh' BY <1>5 DEF AccessExpires, SessionEnds, SessionInv, OneRefresh
  <2>3. Holding' BY <1>5 DEF AccessExpires, SessionEnds, SessionInv, Holding
  <2>4. InStep' BY <1>5 DEF AccessExpires, SessionEnds, SessionInv, InStep
  <2>5. NoneGivenUp' BY <1>5 DEF AccessExpires, SessionEnds, SessionInv, NoneGivenUp
  <2> QED BY <2>1, <2>2, <2>3, <2>4, <2>5 DEF SessionInv
<1>6. CASE RefreshSucceeds 
  <2>1. refresh.pc = "rotated" /\ refresh.token \in 0..LastSession /\ refresh.token # 0
    BY <1>6 DEF RefreshSucceeds, SessionInv, SessionTypeOK, OneRefresh
  <2>2. /\ xhr' \in [Xhrs -> [pc : Stations, token : 0..LastSession, waited : BOOLEAN]]
        /\ \A r \in Xhrs : xhr'[r].pc \notin {"queued", "refresher"}
    BY <1>0, <1>6, <2>1 DEF RefreshSucceeds, Waiting401, SessionInv, SessionTypeOK, Stations
  <2>3. refresh' = [pc |-> "none", token |-> 0] BY <1>6 DEF RefreshSucceeds, Quiet
  <2>4. SessionTypeOK'
    <3>1. /\ live' \in 0..LastSession /\ created' \in 1..LastSession /\ tokens' \in 0..LastSession
          /\ refresh' \in [pc : {"none", "sent", "found", "rotated", "refused"},
                          token : 0..LastSession]
      BY <1>6, <2>1, <2>3, Zero DEF RefreshSucceeds, SessionInv, SessionTypeOK
    <3>2. /\ accessValid' \in BOOLEAN /\ refreshing' \in BOOLEAN
          /\ onLogin' \in BOOLEAN /\ interrupted' \in BOOLEAN
      BY <1>6 DEF RefreshSucceeds, SessionInv, SessionTypeOK
    <3> QED BY <2>2, <3>1, <3>2 DEF SessionTypeOK, Stations
  <2>5. OneRefresh' BY <1>6, <2>2, <2>3 DEF RefreshSucceeds, OneRefresh
  <2>6. Holding' BY <1>6, <2>1, <2>3 DEF RefreshSucceeds, SessionInv, OneRefresh, Holding
  <2>7. InStep' 
    BY <1>6, <2>1, <2>3
    DEF RefreshSucceeds, SessionInv, SessionTypeOK, OneRefresh, Holding, InStep
  <2>8. NoneGivenUp' BY <1>6 DEF RefreshSucceeds, Waiting401, SessionInv, NoneGivenUp
  <2> QED BY <2>4, <2>5, <2>6, <2>7, <2>8 DEF SessionInv
<1>7. CASE RefreshFails 
  <2>1. \A r \in Xhrs :
          AfterError(xhr[r]) \in [pc : {"idle", "dropped"}, token : 0..LastSession, waited : BOOLEAN]
    BY <1>0, Zero DEF AfterError, Idle, Stations
  <2>2. /\ xhr' \in [Xhrs -> [pc : Stations, token : 0..LastSession, waited : BOOLEAN]]
        /\ \A r \in Xhrs : xhr'[r].pc \notin {"queued", "refresher"}
    BY <1>7, <2>1 DEF RefreshFails, Waiting401, SessionInv, SessionTypeOK, Stations
  <2>3. refresh' = [pc |-> "none", token |-> 0] BY <1>7 DEF RefreshFails, Quiet
  <2>4. SessionTypeOK'
    <3>1. /\ live' \in 0..LastSession /\ created' \in 1..LastSession /\ tokens' \in 0..LastSession
          /\ refresh' \in [pc : {"none", "sent", "found", "rotated", "refused"},
                          token : 0..LastSession]
      BY <1>7, <2>3, Zero DEF RefreshFails, SessionInv, SessionTypeOK
    <3>2. /\ accessValid' \in BOOLEAN /\ refreshing' \in BOOLEAN
          /\ onLogin' \in BOOLEAN /\ interrupted' \in BOOLEAN
      BY <1>7 DEF RefreshFails, SessionInv, SessionTypeOK
    <3> QED BY <2>2, <3>1, <3>2 DEF SessionTypeOK, Stations
  <2>5. OneRefresh' BY <1>7, <2>2, <2>3 DEF RefreshFails, OneRefresh
  <2>6. Holding' BY <1>7, <2>3 DEF RefreshFails, SessionInv, OneRefresh, Holding
  <2>7. InStep' BY <1>7, <2>3 DEF RefreshFails, SessionInv, OneRefresh, Holding, InStep
  <2>8. NoneGivenUp' BY <1>7 DEF RefreshFails, NoneGivenUp
  <2> QED BY <2>4, <2>5, <2>6, <2>7, <2>8 DEF SessionInv
<1>8. CASE LogIn 
  <2>1. created' \in 1..LastSession /\ created' \in 0..LastSession /\ created' # 0
    BY <1>8, SessionAssumption DEF LogIn, SessionInv, SessionTypeOK
  <2>2. /\ xhr' \in [Xhrs -> [pc : Stations, token : 0..LastSession, waited : BOOLEAN]]
        /\ \A r \in Xhrs : xhr'[r].pc \notin {"queued", "refresher", "dropped"}
    BY <1>8, Zero DEF LogIn, Fresh, Idle, Stations
  <2>3. refresh' = [pc |-> "none", token |-> 0] BY <1>8 DEF LogIn, Quiet
  <2>4. SessionTypeOK'
    <3>1. /\ live' \in 0..LastSession /\ created' \in 1..LastSession /\ tokens' \in 0..LastSession
          /\ refresh' \in [pc : {"none", "sent", "found", "rotated", "refused"},
                          token : 0..LastSession]
      BY <1>8, <2>1, <2>3, Zero DEF LogIn, SessionInv, SessionTypeOK
    <3>2. /\ accessValid' \in BOOLEAN /\ refreshing' \in BOOLEAN
          /\ onLogin' \in BOOLEAN /\ interrupted' \in BOOLEAN
      BY <1>8 DEF LogIn, SessionInv, SessionTypeOK
    <3> QED BY <2>2, <3>1, <3>2 DEF SessionTypeOK, Stations
  <2>5. OneRefresh' BY <1>8, <2>2, <2>3 DEF LogIn, OneRefresh
  <2>6. Holding' BY <1>8, <2>1, <2>3 DEF LogIn, SessionInv, OneRefresh, Holding
  <2>7. InStep' BY <1>8, <2>1, <2>3 DEF LogIn, SessionInv, OneRefresh, Holding, InStep
  <2>8. NoneGivenUp' BY <2>2 DEF NoneGivenUp
  <2> QED BY <2>4, <2>5, <2>6, <2>7, <2>8 DEF SessionInv
<1>9. ASSUME NEW r \in Xhrs,
             \/ Authenticate(r) \/ SendXhr(r) \/ XhrServed(r) \/ XhrFails(r)
             \/ DeniedForGood(r) \/ DeniedWhileRefreshing(r) \/ StartRefresh(r)
      PROVE  SessionInv'
  <2>1. CASE Authenticate(r)
    <3>1. PICK pc \in {"served", "denied"} : xhr' = [xhr EXCEPT ![r].pc = pc]
      BY <2>1 DEF Authenticate
    <3>2. xhr' = [xhr EXCEPT ![r] = [pc |-> pc, token |-> xhr[r].token, waited |-> xhr[r].waited]]
      BY <1>0, <3>1 DEF Stations
    <3>3. /\ pc \in Stations /\ pc \notin {"queued", "refresher", "dropped"}
          /\ xhr[r].token \in 0..LastSession /\ xhr[r].waited \in BOOLEAN
      BY <1>0 DEF Stations
    <3>4. UNCHANGED <<live, accessValid, created, tokens, refreshing, refresh, onLogin, interrupted>>
      BY <2>1 DEF Authenticate
    <3> QED BY <3>2, <3>3, <3>4, RequestMoves
  <2>2. CASE SendXhr(r)
    BY <2>2, RequestMoves DEF SendXhr, SessionInv, SessionTypeOK, Stations
  <2>3. CASE XhrServed(r) BY <2>3, RequestMoves, Zero DEF XhrServed, Idle, Stations
  <2>4. CASE XhrFails(r)
    <3>1. CASE xhr[r].waited
      <4>1. xhr' = [xhr EXCEPT ![r] = [pc |-> "dropped", token |-> xhr[r].token, waited |-> xhr[r].waited]]
        BY <1>0, <2>4, <3>1 DEF XhrFails, AfterError, Stations
      <4>2. /\ "dropped" \in Stations
            /\ xhr[r].token \in 0..LastSession /\ xhr[r].waited \in BOOLEAN
        BY <1>0 DEF Stations
      <4>3. UNCHANGED <<live, accessValid, created, tokens, refreshing, refresh, onLogin, interrupted>>
        BY <2>4 DEF XhrFails
      <4> QED BY <3>1, <4>1, <4>2, <4>3, RequestMoves
    <3>2. CASE ~xhr[r].waited
      BY <2>4, <3>2, RequestMoves, Zero DEF XhrFails, AfterError, Idle, Stations
    <3> QED BY <3>1, <3>2
  <2>5. CASE DeniedForGood(r)
    <3>1. onLogin BY <2>5 DEF DeniedForGood, SessionInv, Holding
    <3>2. xhr' = [xhr EXCEPT ![r] =
                    [pc |-> "dropped", token |-> xhr[r].token, waited |-> xhr[r].waited]]
      BY <1>0, <2>5 DEF DeniedForGood, Stations
    <3>3. UNCHANGED <<live, accessValid, created, tokens, refreshing, refresh, onLogin, interrupted>>
      BY <2>5, <3>1 DEF DeniedForGood, SessionInv, SessionTypeOK
    <3>4. "dropped" \in Stations /\ xhr[r].token \in 0..LastSession /\ xhr[r].waited \in BOOLEAN
      BY <1>0 DEF Stations
    <3> QED BY <3>1, <3>2, <3>3, <3>4, RequestMoves
  <2>6. CASE DeniedWhileRefreshing(r)
    BY <1>0, <2>6, RequestMoves DEF DeniedWhileRefreshing, MustWait, Stations
  <2>7. CASE StartRefresh(r)
    <3>1. xhr' = [xhr EXCEPT ![r] =
                    [pc |-> "refresher", token |-> xhr[r].token, waited |-> xhr[r].waited]]
      BY <1>0, <2>7 DEF StartRefresh, Stations
    <3>2. SessionTypeOK'
      BY <1>0, <2>7, <3>1 DEF StartRefresh, SessionInv, SessionTypeOK
    <3>3. OneRefresh'
      BY <2>7, <3>1 DEF StartRefresh, MustWait, SessionInv, SessionTypeOK, OneRefresh
    <3>4. Holding' /\ InStep'
      BY <2>7 DEF StartRefresh, MustWait, SessionInv, OneRefresh, Holding, InStep
    <3>5. NoneGivenUp'
      BY <2>7, <3>1 DEF StartRefresh, SessionInv, SessionTypeOK, NoneGivenUp
    <3> QED BY <3>2, <3>3, <3>4, <3>5 DEF SessionInv
  <2> QED BY <1>9, <2>1, <2>2, <2>3, <2>4, <2>5, <2>6, <2>7
<1>10. CASE UNCHANGED sessionVars
  BY <1>10
  DEF sessionVars, SessionInv, SessionTypeOK, OneRefresh, Holding, InStep, NoneGivenUp
<1> QED BY <1>2, <1>3, <1>4, <1>5, <1>6, <1>7, <1>8, <1>9, <1>10 DEF SessionNext

LEMMA SessionKeeps == SessionInv => PageSurvivesRefresh
BY DEF SessionInv, OneRefresh, Holding, InStep, PageSurvivesRefresh, NobodyForgotten,
       Waiting401, Quiet

\* In whatever order refused requests, errors and refreshes are answered, no request
\* waits for a refresh that is over, none that did not have to wait is given up, and
\* the page leaves for /login only when its session is gone or a refresh call was
\* interrupted.
THEOREM PageKeepsUp == SessionSpec => []PageSurvivesRefresh
BY SessionKeeps, SessionStarts, SessionStep, PTL DEF SessionSpec

-----------------------------------------------------------------------------
\* What a request holds at each of its stations.
SignUpsTrue ==
  \A s \in SignUps :
    /\ signUp[s].id <= identities
    /\ signUp[s].pc \in {"check", "create", "recover"} => signUp[s].id = 0 /\ ~signUp[s].recovered
    /\ signUp[s].pc \in {"setUp", "cleanUp", "signIn", "session", "registered"} => signUp[s].id # 0
    /\ signUp[s].pc \in {"check", "create", "recover", "setUp"} => ~signUp[s].wrote
    /\ signUp[s].pc \in {"signIn", "session", "registered"} => signUp[s].wrote
    /\ signUp[s].wrote => owner # 0 /\ owner = signUp[s].id
    /\ signUp[s].pc \in {"cleanUp", "cleaned"} => ~signUp[s].recovered

OneCreator ==
  \A s, t \in SignUps :
    /\ signUp[s].id # 0 /\ signUp[s].id = signUp[t].id
    /\ ~signUp[s].recovered /\ ~signUp[t].recovered
    => s = t

Removed(i) == \E c \in SignUps : signUp[c].pc = "cleaned" /\ signUp[c].id = i /\ ~signUp[c].recovered

\* An identity that a request works with is there, or was removed by its creator.
Accounted == \A s \in SignUps : signUp[s].id # 0 => identity.id = signUp[s].id \/ Removed(signUp[s].id)

OwnerWritten == owner # 0 => \E s \in SignUps : signUp[s].wrote

RegistrationInv ==
  /\ RegistrationTypeOK /\ SignUpsTrue /\ OneCreator /\ Accounted /\ OwnerWritten
  /\ RegistrationsAgree

LEMMA RegistrationStarts == RegistrationInit => RegistrationInv
<1> SUFFICES ASSUME RegistrationInit PROVE RegistrationInv OBVIOUS
<1>1. \A s \in SignUps : /\ signUp[s].pc = "check" /\ signUp[s].id = 0
                         /\ ~signUp[s].recovered /\ ~signUp[s].wrote
  BY DEF RegistrationInit
<1>2. RegistrationTypeOK
  <2>0. \A p \in Passwords :
          [pc |-> "check", password |-> p, id |-> 0, recovered |-> FALSE, wrote |-> FALSE] \in SignUpStates
    BY DEF SignUpStates
  <2>1. signUp \in [SignUps -> SignUpStates] BY <2>0 DEF RegistrationInit
  <2> QED BY <2>1 DEF RegistrationInit, RegistrationTypeOK
<1>3. SignUpsTrue /\ OneCreator /\ Accounted /\ OwnerWritten /\ RegistrationsAgree
  BY <1>1 DEF RegistrationInit, SignUpsTrue, OneCreator, Accounted, OwnerWritten, RegistrationsAgree
<1> QED BY <1>2, <1>3 DEF RegistrationInv

SignUpPcs == {"check", "create", "recover", "setUp", "cleanUp", "signIn", "session"} \union SignUpEnds

\* A request goes on to another station, and nothing else changes.
LEMMA MovePreserves ==
  ASSUME RegistrationInv, NEW s \in SignUps, NEW pc \in SignUpPcs \ {"check", "setUp", "cleaned"},
         SignUpAt(s, pc), UNCHANGED <<identities, identity, owner>>,
         signUp[s].pc # "cleaned",
         pc \in {"create", "recover"} => signUp[s].pc \in {"check", "create"},
         pc = "cleanUp" => signUp[s].id # 0 /\ ~signUp[s].recovered,
         pc \in {"signIn", "session", "registered"} => signUp[s].wrote,
         signUp[s].pc \in {"setUp", "cleanUp", "failed"} => pc \in {"cleanUp", "failed"}
  PROVE  RegistrationInv'
<1> USE DEF RegistrationInv
<1>1. /\ signUp' = [signUp EXCEPT ![s].pc = pc] /\ signUp \in [SignUps -> SignUpStates]
  BY DEF SignUpAt, RegistrationTypeOK
<1>2. \A t \in SignUps :
        /\ signUp'[t].pc = IF t = s THEN pc ELSE signUp[t].pc
        /\ signUp'[t].id = signUp[t].id /\ signUp'[t].password = signUp[t].password
        /\ signUp'[t].recovered = signUp[t].recovered /\ signUp'[t].wrote = signUp[t].wrote
  BY <1>1 DEF SignUpStates
<1>3. RegistrationTypeOK'
  <2>1. signUp' \in [SignUps -> SignUpStates] BY <1>1 DEF SignUpStates, SignUpPcs
  <2> QED BY <2>1 DEF RegistrationTypeOK
<1>4. SignUpsTrue'
  <2> SUFFICES ASSUME NEW t \in SignUps PROVE SignUpsTrue!(t)' BY DEF SignUpsTrue
  <2>1. CASE t = s BY <1>2, <2>1 DEF SignUpsTrue, SignUpPcs, SignUpEnds
  <2>2. CASE t # s BY <1>2, <2>2 DEF SignUpsTrue
  <2> QED BY <2>1, <2>2
<1>5. OneCreator' BY <1>2 DEF OneCreator
<1>6. \A i : Removed(i) => Removed(i)' BY <1>2 DEF Removed
<1>7. Accounted' BY <1>2, <1>6 DEF Accounted
<1>8. OwnerWritten' BY <1>2 DEF OwnerWritten
<1>9. RemovedByCreator => RemovedByCreator' BY <1>2 DEF RemovedByCreator
<1>10. RegistrationsAgree'
  BY <1>2, <1>9 DEF RegistrationsAgree, SignUpsTrue
<1> QED BY <1>3, <1>4, <1>5, <1>7, <1>8, <1>10

LEMMA CreatePreserves ==
  ASSUME RegistrationInv, NEW s \in SignUps, CreateIdentity(s) PROVE RegistrationInv'
<1> USE DEF RegistrationInv
<1> DEFINE n == identities + 1
<1>1. /\ signUp \in [SignUps -> SignUpStates] /\ identities \in Nat
      /\ signUp[s].pc = "create" /\ identity.id = 0 /\ identities' = n
      /\ identity' = [id |-> n, password |-> signUp[s].password] /\ owner' = owner
      /\ owner \in 0..identities /\ signUp[s].password \in Passwords
  BY DEF CreateIdentity, RegistrationTypeOK, SignUpStates
<1>2. /\ signUp[s].id = 0 /\ ~signUp[s].recovered /\ ~signUp[s].wrote
      /\ \A t \in SignUps : signUp[t].id \in 0..identities
  BY <1>1 DEF SignUpsTrue, SignUpStates
<1>3. PICK pc \in {"setUp", "failed"}, i \in {0, n} :
        /\ signUp' = [signUp EXCEPT ![s].pc = pc, ![s].id = i]
        /\ pc = "setUp" <=> i = n
  <2>1. CASE signUp' = [signUp EXCEPT ![s].pc = "setUp", ![s].id = n] BY <1>1, <2>1
  <2>2. CASE SignUpAt(s, "failed")
    <3>1. signUp' = [signUp EXCEPT ![s].pc = "failed", ![s].id = 0]
      BY <1>1, <1>2, <2>2 DEF SignUpAt, SignUpStates
    <3> QED BY <1>1, <3>1
  <2> QED BY <2>1, <2>2 DEF CreateIdentity
<1>4. /\ \A t \in SignUps : t # s => signUp'[t] = signUp[t]
      /\ signUp'[s].pc = pc /\ signUp'[s].id = i /\ signUp'[s].password = signUp[s].password
      /\ ~signUp'[s].recovered /\ ~signUp'[s].wrote
  BY <1>1, <1>2, <1>3 DEF SignUpStates
<1>5. RegistrationTypeOK'
  <2>1. i \in Nat BY <1>1
  <2>2. signUp' \in [SignUps -> SignUpStates]
    BY <1>1, <1>3, <2>1 DEF SignUpStates, SignUpEnds
  <2> QED BY <1>1, <2>2 DEF RegistrationTypeOK
<1>6. SignUpsTrue'
  <2> SUFFICES ASSUME NEW t \in SignUps PROVE SignUpsTrue!(t)' BY DEF SignUpsTrue
  <2>1. CASE t = s BY <1>1, <1>3, <1>4, <2>1
  <2>2. CASE t # s BY <1>1, <1>2, <1>4, <2>2 DEF SignUpsTrue
  <2> QED BY <2>1, <2>2
<1>7. OneCreator' BY <1>1, <1>2, <1>3, <1>4 DEF OneCreator
<1>8. \A j : Removed(j) => Removed(j)' BY <1>1, <1>4 DEF Removed
<1>9. Accounted' BY <1>1, <1>2, <1>3, <1>4, <1>8 DEF Accounted
<1>10. OwnerWritten' BY <1>1, <1>2, <1>4 DEF OwnerWritten
<1>11. RemovedByCreator => RemovedByCreator' BY <1>1, <1>2, <1>4 DEF RemovedByCreator
<1>12. RegistrationsAgree'
  <2>1. owner' # 0 => RemovedByCreator' BY <1>1, <1>11 DEF RegistrationsAgree
  <2>2. signUp'[s].pc \in {"setUp", "cleanUp", "failed"} /\ ~signUp'[s].recovered
        /\ signUp'[s].id \in {0, identity'.id}
    BY <1>1, <1>3, <1>4
  <2>3. \A t \in SignUps : signUp'[t].pc = "registered" => owner' = signUp'[t].id
    BY <1>1, <1>3, <1>4 DEF RegistrationsAgree
  <2> QED BY <2>1, <2>2, <2>3 DEF RegistrationsAgree
<1> QED BY <1>5, <1>6, <1>7, <1>9, <1>10, <1>12

LEMMA RecoverPreserves ==
  ASSUME RegistrationInv, NEW s \in SignUps, RecoverIdentity(s), SignsIn(s)
  PROVE  RegistrationInv'
<1> USE DEF RegistrationInv
<1>1. /\ signUp \in [SignUps -> SignUpStates] /\ signUp[s].pc = "recover"
      /\ signUp' = [signUp EXCEPT ![s].pc = "setUp", ![s].id = identity.id, ![s].recovered = TRUE]
      /\ identity.id # 0 /\ identity.id \in 0..identities /\ identities \in Nat
      /\ UNCHANGED <<identities, identity, owner>>
  BY DEF RecoverIdentity, SignsIn, RegistrationTypeOK
<1>2. /\ \A t \in SignUps : t # s => signUp'[t] = signUp[t]
      /\ signUp'[s].pc = "setUp" /\ signUp'[s].id = identity.id /\ signUp'[s].recovered
      /\ signUp'[s].wrote = signUp[s].wrote /\ ~signUp[s].wrote
  BY <1>1 DEF SignUpStates, SignUpsTrue
<1>3. RegistrationTypeOK'
  <2>1. identity.id \in Nat BY <1>1
  <2>2. signUp' \in [SignUps -> SignUpStates] BY <1>1, <2>1 DEF SignUpStates
  <2> QED BY <1>1, <2>2 DEF RegistrationTypeOK
<1>4. SignUpsTrue'
  <2> SUFFICES ASSUME NEW t \in SignUps PROVE SignUpsTrue!(t)' BY DEF SignUpsTrue
  <2>1. CASE t = s BY <1>1, <1>2, <2>1
  <2>2. CASE t # s BY <1>1, <1>2, <2>2 DEF SignUpsTrue
  <2> QED BY <2>1, <2>2
<1>5. OneCreator' BY <1>2 DEF OneCreator
<1>6. \A j : Removed(j) => Removed(j)' BY <1>1, <1>2 DEF Removed
<1>7. Accounted' BY <1>1, <1>2, <1>6 DEF Accounted
<1>8. OwnerWritten' BY <1>1, <1>2 DEF OwnerWritten
<1>9. RemovedByCreator => RemovedByCreator'
  <2>1. \A t \in SignUps : signUp[t].wrote => t # s BY <1>2
  <2> QED BY <1>1, <1>2, <2>1 DEF RemovedByCreator
<1>10. RegistrationsAgree' BY <1>1, <1>2, <1>9 DEF RegistrationsAgree
<1> QED BY <1>3, <1>4, <1>5, <1>7, <1>8, <1>10

LEMMA SetUpPreserves ==
  ASSUME RegistrationInv, NEW s \in SignUps, SetUp(s) PROVE RegistrationInv'
<1> USE DEF RegistrationInv
<1>1. /\ signUp \in [SignUps -> SignUpStates] /\ signUp[s].pc = "setUp" /\ owner = 0
      /\ owner' = signUp[s].id /\ UNCHANGED <<identities, identity>>
      /\ identities \in Nat /\ signUp[s].id \in 1..identities
  BY DEF SetUp, RegistrationTypeOK, SignUpStates, SignUpsTrue
<1>2. PICK pc \in {"session", "signIn", "failed", "cleanUp"} :
        /\ signUp' = [signUp EXCEPT ![s].pc = pc, ![s].wrote = TRUE]
        /\ pc = "cleanUp" => ~signUp[s].recovered
  BY DEF SetUp, AfterRollback
<1>3. /\ \A t \in SignUps : t # s => signUp'[t] = signUp[t]
      /\ signUp'[s].pc = pc /\ signUp'[s].wrote /\ signUp'[s].id = signUp[s].id
      /\ signUp'[s].recovered = signUp[s].recovered
  BY <1>1, <1>2 DEF SignUpStates
<1>4. RegistrationTypeOK'
  <2>1. signUp' \in [SignUps -> SignUpStates] BY <1>1, <1>2 DEF SignUpStates, SignUpEnds
  <2> QED BY <1>1, <2>1 DEF RegistrationTypeOK
<1>5. SignUpsTrue'
  <2> SUFFICES ASSUME NEW t \in SignUps PROVE SignUpsTrue!(t)' BY DEF SignUpsTrue
  <2>1. CASE t = s BY <1>1, <1>2, <1>3, <2>1
  <2>2. CASE t # s BY <1>1, <1>3, <2>2 DEF SignUpsTrue
  <2> QED BY <2>1, <2>2
<1>6. OneCreator' BY <1>3 DEF OneCreator
<1>7. \A j : Removed(j) => Removed(j)' BY <1>1, <1>3 DEF Removed
<1>8. Accounted' BY <1>1, <1>3, <1>7 DEF Accounted
<1>9. OwnerWritten' BY <1>3 DEF OwnerWritten
<1>10. identity.id = signUp[s].id \/ RemovedByCreator'
  <2>1. SUFFICES ASSUME identity.id # signUp[s].id PROVE RemovedByCreator' OBVIOUS
  <2>2. PICK c \in SignUps : signUp[c].pc = "cleaned" /\ signUp[c].id = signUp[s].id
                              /\ ~signUp[c].recovered
    BY <1>1, <2>1 DEF Accounted, Removed
  <2>3. c # s /\ signUp[s].recovered BY <1>1, <2>2 DEF OneCreator
  <2>4. signUp'[c] = signUp[c] /\ signUp'[s].recovered /\ signUp'[s].wrote BY <1>3, <2>3
  <2>5. signUp'[c].pc = "cleaned" /\ signUp'[c].id = owner' /\ ~signUp'[c].recovered
    BY <1>1, <2>2, <2>4
  <2> QED BY <2>4, <2>5 DEF RemovedByCreator
<1>11. \A t \in SignUps : signUp'[t].pc = "registered" => owner' = signUp'[t].id
  BY <1>1, <1>2, <1>3 DEF SignUpsTrue
<1>12. RegistrationsAgree' BY <1>1, <1>10, <1>11 DEF RegistrationsAgree
<1> QED BY <1>4, <1>5, <1>6, <1>8, <1>9, <1>12

LEMMA CleanUpPreserves ==
  ASSUME RegistrationInv, NEW s \in SignUps, CleanUp(s) PROVE RegistrationInv'
<1> USE DEF RegistrationInv
<1>1. /\ signUp \in [SignUps -> SignUpStates] /\ signUp[s].pc = "cleanUp"
      /\ signUp' = [signUp EXCEPT ![s].pc = "cleaned"] /\ UNCHANGED <<identities, owner>>
      /\ identity \in [id : 0..identities, password : Passwords] /\ identities \in Nat
      /\ identity' = IF identity.id = signUp[s].id THEN [identity EXCEPT !.id = 0] ELSE identity
      /\ signUp[s].id # 0 /\ ~signUp[s].recovered
  BY DEF CleanUp, SignUpAt, RegistrationTypeOK, SignUpsTrue
<1>2. \A t \in SignUps :
        /\ signUp'[t].pc = IF t = s THEN "cleaned" ELSE signUp[t].pc
        /\ signUp'[t].id = signUp[t].id /\ signUp'[t].password = signUp[t].password
        /\ signUp'[t].recovered = signUp[t].recovered /\ signUp'[t].wrote = signUp[t].wrote
  BY <1>1 DEF SignUpStates
<1>3. RegistrationTypeOK'
  <2>1. signUp' \in [SignUps -> SignUpStates] BY <1>1 DEF SignUpStates, SignUpEnds
  <2>2. identity' \in [id : 0..identities, password : Passwords] BY <1>1
  <2> QED BY <1>1, <2>1, <2>2 DEF RegistrationTypeOK
<1>4. SignUpsTrue'
  <2> SUFFICES ASSUME NEW t \in SignUps PROVE SignUpsTrue!(t)' BY DEF SignUpsTrue
  <2>1. CASE t = s BY <1>1, <1>2, <2>1 DEF SignUpsTrue
  <2>2. CASE t # s BY <1>1, <1>2, <2>2 DEF SignUpsTrue
  <2> QED BY <2>1, <2>2
<1>5. OneCreator' BY <1>2 DEF OneCreator
<1>6. Removed(signUp[s].id)' BY <1>1, <1>2 DEF Removed
<1>7. \A j : Removed(j) => Removed(j)' BY <1>2 DEF Removed
<1>8. identity'.id = IF identity.id = signUp[s].id THEN 0 ELSE identity.id BY <1>1
<1>9. Accounted'
  <2> SUFFICES ASSUME NEW t \in SignUps, signUp'[t].id # 0
               PROVE  identity'.id = signUp'[t].id \/ Removed(signUp[t].id)'
    BY <1>2 DEF Accounted, Removed
  <2>1. CASE signUp[t].id = signUp[s].id BY <1>2, <1>6, <2>1 DEF Removed
  <2>2. CASE signUp[t].id # signUp[s].id BY <1>2, <1>7, <1>8, <2>2 DEF Accounted
  <2> QED BY <2>1, <2>2
<1>10. OwnerWritten' BY <1>1, <1>2 DEF OwnerWritten
<1>11. RemovedByCreator => RemovedByCreator' BY <1>1, <1>2 DEF RemovedByCreator
<1>12. owner' # 0 => identity'.id = owner' \/ RemovedByCreator'
  <2>1. SUFFICES ASSUME owner # 0, owner = signUp[s].id PROVE RemovedByCreator'
    BY <1>1, <1>8, <1>11 DEF RegistrationsAgree
  <2>2. PICK w \in SignUps : signUp[w].wrote BY <2>1 DEF OwnerWritten
  <2>3. signUp[s].wrote \/ signUp[w].recovered
    BY <1>1, <2>1, <2>2 DEF SignUpsTrue, OneCreator
  <2>4. /\ signUp'[s].pc = "cleaned" /\ signUp'[s].id = owner' /\ ~signUp'[s].recovered
        /\ signUp'[s].wrote \/ (signUp'[w].recovered /\ signUp'[w].wrote)
    BY <1>1, <1>2, <2>1, <2>2, <2>3
  <2> QED BY <2>4 DEF RemovedByCreator
<1>13. RegistrationsAgree'
  <2>1. owner' = 0 /\ identity'.id # 0 =>
          \E t \in SignUps : /\ signUp'[t].pc \in {"setUp", "cleanUp", "failed"}
                            /\ ~signUp'[t].recovered /\ signUp'[t].id \in {0, identity'.id}
    BY <1>1, <1>2, <1>8 DEF RegistrationsAgree
  <2>2. \A t \in SignUps : signUp'[t].pc = "registered" => owner' = signUp'[t].id
    BY <1>1, <1>2 DEF RegistrationsAgree
  <2> QED BY <1>12, <2>1, <2>2 DEF RegistrationsAgree
<1> QED BY <1>3, <1>4, <1>5, <1>9, <1>10, <1>13

LEMMA RegistrationPreserved == RegistrationInv /\ [RegistrationNext]_registrationVars => RegistrationInv'
<1> SUFFICES ASSUME RegistrationInv, [RegistrationNext]_registrationVars PROVE RegistrationInv'
  OBVIOUS
<1>1. CASE UNCHANGED registrationVars
  BY <1>1 DEF registrationVars, RegistrationInv, RegistrationTypeOK, SignUpsTrue, OneCreator,
     Accounted, Removed, OwnerWritten, RegistrationsAgree, RemovedByCreator
<1>2. ASSUME NEW s \in SignUps,
             \/ CheckEmail(s) \/ IdentityTaken(s) \/ SetUpFails(s)
             \/ SignIn(s) \/ CreateSession(s) \/ SignUpFails(s) \/ (RecoverIdentity(s) /\ ~SignsIn(s))
      PROVE  RegistrationInv'
  <2>1. PICK pc \in SignUpPcs \ {"check", "setUp", "cleaned"} :
          /\ SignUpAt(s, pc) /\ UNCHANGED <<identities, identity, owner>>
          /\ signUp[s].pc # "cleaned"
          /\ pc \in {"create", "recover"} => signUp[s].pc \in {"check", "create"}
          /\ pc = "cleanUp" => signUp[s].pc = "setUp" /\ ~signUp[s].recovered
          /\ pc = "session" => signUp[s].pc = "signIn"
          /\ pc = "registered" => signUp[s].pc = "session"
          /\ pc # "signIn"
          /\ signUp[s].pc \in {"setUp", "cleanUp", "failed"} => pc \in {"cleanUp", "failed"}
    BY <1>2 DEF CheckEmail, IdentityTaken, SetUpFails, SignIn, CreateSession, SignUpFails,
       RecoverIdentity, AfterRollback, SignUpPcs, SignUpEnds
  <2>2. /\ signUp[s].pc = "setUp" => signUp[s].id # 0
        /\ signUp[s].pc \in {"signIn", "session"} => signUp[s].wrote
    BY DEF RegistrationInv, SignUpsTrue
  <2> QED BY <2>1, <2>2, MovePreserves
<1> QED BY <1>1, <1>2, CreatePreserves, RecoverPreserves, SetUpPreserves, CleanUpPreserves
        DEF RegistrationNext

\* However many requests for one address run side by side, and wherever they break off,
\* a row names the identity Supabase has unless that identity's creator removed it, and
\* an identity nobody owns is one whose creator broke off.
THEOREM RegisteredCanLogIn == RegistrationSpec => []RegistrationsAgree
<1>1. RegistrationInv => RegistrationsAgree BY DEF RegistrationInv
<1> QED BY <1>1, RegistrationStarts, RegistrationPreserved, PTL DEF RegistrationSpec

-----------------------------------------------------------------------------
(* The settlement of a transaction (FinanceReversal).                          *)

Settled == txStatus \in {"reversed", "refunded"}

\* A call has its record exactly from the insert on, of the kind it was made for.
RecordsKept ==
  /\ \A i \in Interventions :
       doing[i].pc \in {"setStatus", "finalise", "done"} =>
         record[i].kind = doing[i].kind /\ doing[i].kind \in SettlementKinds
  /\ \A i \in Interventions :
       doing[i].pc \in {"idle", "find", "insert"} => record[i] = NoRecord
  /\ \A i \in Interventions :
       doing[i].pc \in {"find", "insert"} => doing[i].kind \in SettlementKinds
  /\ \A k \in SettlementKinds :
       txStatus = Outcome(k) => \E i \in Interventions : record[i].kind = k

\* Who is about to finish its record, or has, has written the status.
StatusFirst ==
  /\ \A i \in Interventions : doing[i].pc = "finalise" => Settled
  /\ Finished # {} => Settled

\* Without an overlap one call at most is under way, and only before any is finished.
OneAtATime ==
  ~overlap =>
    /\ \A i, j \in Interventions :
         doing[i].pc \in Underway /\ doing[j].pc \in Underway => i = j
    /\ (\E i \in Interventions : doing[i].pc \in Underway) => Finished = {}
    /\ \A i, j \in Finished : i = j

ReversalInv == ReversalTypeOK /\ RecordsKept /\ StatusFirst /\ OneAtATime

LEMMA ReversalStarts == ReversalInit => ReversalInv
<1> SUFFICES ASSUME ReversalInit PROVE ReversalInv OBVIOUS
<1>1. txStatus \notin {"reversed", "refunded"} BY ReversalAssumption DEF ReversalInit
<1>2. /\ \A i \in Interventions : doing[i] = [pc |-> "idle", kind |-> "none"]
      /\ \A i \in Interventions : record[i] = NoRecord
      /\ Finished = {}
  BY DEF ReversalInit, Finished, NoRecord
<1>3. ReversalTypeOK
  BY DEF ReversalInit, ReversalTypeOK, NoRecord, SettlementKinds, Underway
<1>4. RecordsKept BY <1>1, <1>2 DEF RecordsKept, Outcome
<1>5. StatusFirst /\ OneAtATime BY <1>2 DEF StatusFirst, OneAtATime, Underway
<1> QED BY <1>3, <1>4, <1>5 DEF ReversalInv

LEMMA InsertRecordPreserves ==
  ASSUME ReversalInv, NEW i \in Interventions, InsertRecord(i) PROVE ReversalInv'
<1>1. /\ record' = [record EXCEPT ![i] = [kind |-> doing[i].kind, status |-> "pending"]]
      /\ doing' = [doing EXCEPT ![i].pc = "setStatus"]
      /\ UNCHANGED <<txStatus, journal, overlap>> /\ doing[i].pc = "insert"
  BY DEF InsertRecord, Proceed
<1>2. /\ doing[i].kind \in SettlementKinds /\ record[i] = NoRecord
      /\ doing \in [Interventions -> [pc : Underway \union {"idle", "refused", "done", "lost"},
                                      kind : SettlementKinds \union {"none"}]]
      /\ record \in [Interventions -> [kind : SettlementKinds \union {"none"},
                                   status : {"none", "pending", "completed", "processed"}]]
  BY <1>1 DEF ReversalInv, ReversalTypeOK, RecordsKept
<1>3. /\ doing'[i].pc = "setStatus" /\ doing'[i].kind = doing[i].kind
      /\ record'[i].kind = doing[i].kind /\ record'[i].status = "pending"
      /\ \A j \in Interventions : j # i => doing'[j] = doing[j] /\ record'[j] = record[j]
  BY <1>1, <1>2
<1>4. record[i].status = "none" /\ record[i].kind = "none" BY <1>2 DEF NoRecord
<1>5. Finished' = Finished BY <1>3, <1>4 DEF Finished
<1>6. ReversalTypeOK' BY <1>1, <1>2 DEF ReversalInv, ReversalTypeOK, Underway
<1>7. RecordsKept'
  <2>1. ASSUME NEW k \in SettlementKinds, txStatus' = Outcome(k)
        PROVE \E j \in Interventions : record'[j].kind = k
    <3>1. PICK j \in Interventions : record[j].kind = k
      BY <1>1, <2>1 DEF ReversalInv, RecordsKept
    <3>2. j # i BY <1>4, <3>1 DEF SettlementKinds
    <3> QED BY <1>3, <3>1, <3>2
  <2> QED BY <1>1, <1>2, <1>3, <2>1 DEF ReversalInv, RecordsKept
<1>8. StatusFirst' BY <1>1, <1>3, <1>5 DEF ReversalInv, StatusFirst, Settled
<1>9. OneAtATime' BY <1>1, <1>3, <1>5 DEF ReversalInv, OneAtATime, Underway
<1> QED BY <1>6, <1>7, <1>8, <1>9 DEF ReversalInv

LEMMA CheckStatusPreserves ==
  ASSUME ReversalInv, NEW i \in Interventions, CheckStatus(i) PROVE ReversalInv'
<1>1. PICK k \in SettlementKinds :
        doing' = [doing EXCEPT ![i] =
                    [kind |-> k, pc |-> IF txStatus \in Allowed(k) THEN "find" ELSE "refused"]]
  BY DEF CheckStatus
<1>2. /\ doing \in [Interventions -> [pc : Underway \union {"idle", "refused", "done", "lost"},
                                      kind : SettlementKinds \union {"none"}]]
      /\ doing[i].pc = "idle" /\ UNCHANGED <<txStatus, record, journal>>
      /\ overlap \in BOOLEAN
      /\ overlap' = (overlap \/ \E j \in Interventions : doing[j].pc \in Underway)
  BY DEF CheckStatus, ReversalInv, ReversalTypeOK
<1>3. /\ doing'[i].kind = k /\ doing'[i].pc \in {"find", "refused"}
      /\ doing'[i].pc = "find" => txStatus \in Allowed(k)
      /\ \A j \in Interventions : j # i => doing'[j] = doing[j]
  BY <1>1, <1>2
<1>4. Finished' = Finished BY <1>2 DEF Finished
<1>5. doing'[i].pc = "find" => Finished = {}
  BY <1>3 DEF ReversalInv, StatusFirst, Settled, Allowed
<1>6. ReversalTypeOK'
  <2>1. (overlap \/ \E j \in Interventions : doing[j].pc \in Underway) \in BOOLEAN
    OBVIOUS
  <2> QED BY <1>1, <1>2, <1>3, <2>1 DEF ReversalInv, ReversalTypeOK, Underway
<1>7. RecordsKept' BY <1>2, <1>3 DEF ReversalInv, RecordsKept
<1>8. StatusFirst' BY <1>2, <1>3, <1>4 DEF ReversalInv, StatusFirst, Settled
<1>9. OneAtATime'
  <2> SUFFICES ASSUME ~overlap' PROVE OneAtATime' BY DEF OneAtATime
  <2>1. ~overlap /\ ~\E j \in Interventions : doing[j].pc \in Underway BY <1>2
  <2> QED BY <1>3, <1>4, <1>5, <2>1 DEF ReversalInv, OneAtATime, Underway
<1> QED BY <1>6, <1>7, <1>8, <1>9 DEF ReversalInv

LEMMA AdministratorPreserves ==
  ASSUME ReversalInv, NEW i \in Interventions,
         FindExisting(i) \/ InsertRecord(i) \/ SetTransactionStatus(i) \/ FinaliseRecord(i)
           \/ InterventionFails(i)
  PROVE  ReversalInv'
<1> USE DEF ReversalInv, ReversalTypeOK, RecordsKept, StatusFirst, OneAtATime, Settled, Finished,
            Underway, SettlementKinds, Proceed
<1>1. CASE FindExisting(i) BY <1>1 DEF FindExisting
<1>2. CASE InsertRecord(i) BY <1>2, InsertRecordPreserves
<1>3. CASE SetTransactionStatus(i) BY <1>3 DEF SetTransactionStatus, Outcome
<1>4. CASE FinaliseRecord(i) BY <1>4 DEF FinaliseRecord, Closed
<1>5. CASE InterventionFails(i) BY <1>5 DEF InterventionFails
<1> QED BY <1>1, <1>2, <1>3, <1>4, <1>5

LEMMA ReversalPreserved == ReversalInv /\ [ReversalNext]_reversalVars => ReversalInv'
<1> SUFFICES ASSUME ReversalInv, [ReversalNext]_reversalVars PROVE ReversalInv' OBVIOUS
<1>1. CASE UNCHANGED reversalVars
  BY <1>1 DEF reversalVars, ReversalInv, ReversalTypeOK, RecordsKept, StatusFirst, OneAtATime,
     Settled, Finished
<1>2. ASSUME NEW i \in Interventions, Intervene(i) PROVE ReversalInv'
  BY <1>2, CheckStatusPreserves, AdministratorPreserves DEF Intervene
<1> QED BY <1>1, <1>2 DEF ReversalNext

LEMMA ReversalKeeps == ReversalInv => SettledOnce
BY DEF ReversalInv, RecordsKept, OneAtATime, SettledOnce

\* Administrators who take turns settle a transaction once, whatever dies in
\* between, and a settled transaction has its record.
THEOREM SettlementOnce == ReversalSpec => []SettledOnce
BY ReversalKeeps, ReversalStarts, ReversalPreserved, PTL DEF ReversalSpec

-----------------------------------------------------------------------------
(* The broadcasts an administrator sends.                                      *)

Delivering(q) == worker[q].pc = "deliver"

\* What a delivering job has behind it, and what a row shown as sent stands for.
Served ==
  /\ \A q \in QueueJobs : Delivering(q) =>
       \A b \in 1..LastBatch : b < worker[q].batch => received[b] >= 1
  /\ notice.status = "sent" => \A b \in 1..LastBatch : received[b] >= 1

\* While nothing was disturbed one queue job at most was ever added, and what
\* lies ahead of it has not been written.
Undisturbed ==
  ~disturbed =>
    /\ \A q, r \in QueueJobs : worker[q].pc # "unused" /\ worker[r].pc # "unused" => q = r
    /\ \A b \in 1..LastBatch : received[b] <= 1
    /\ \A q \in QueueJobs : Delivering(q) =>
         \A b \in 1..LastBatch : b >= worker[q].batch => received[b] = 0
    /\ \A q \in QueueJobs : worker[q].pc \in {"waiting", "mark"} =>
         \A b \in 1..LastBatch : received[b] = 0
    /\ Unstarted => \A b \in 1..LastBatch : received[b] = 0

\* A job that is not delivering stands at the first batch.
AtStart == \A q \in QueueJobs : ~Delivering(q) => worker[q].batch = 1

DeliveryInv == DeliveryTypeOK /\ AtStart /\ Served /\ Undisturbed

LEMMA FreshJobs ==
  /\ Unused \in JobStates /\ Unused.pc = "unused" /\ Unused.batch = 1
  /\ Queued \in JobStates /\ Queued.pc = "waiting" /\ Queued.batch = 1
  /\ [Unused EXCEPT !.pc = "done"] \in JobStates
<1>1. 0 \in 0..(AttemptsPerJob - 1) /\ 1 \in 1..(LastBatch + 1) BY DeliveryAssumption
<1> QED BY <1>1 DEF Unused, Queued, JobStates

LEMMA DeliveryStarts == DeliveryInit => DeliveryInv
<1> SUFFICES ASSUME DeliveryInit PROVE DeliveryInv OBVIOUS
<1>1. /\ worker \in [QueueJobs -> JobStates]
      /\ \A q \in QueueJobs : worker[q].pc = "unused" /\ worker[q].batch = 1
  BY FreshJobs DEF DeliveryInit
<1>2. notice \in [status : {"none", "pending", "processing", "sent", "failed"},
                   retries : 0..MaxRetries]
  BY DeliveryAssumption DEF DeliveryInit
<1>3. \A b \in 1..LastBatch : received[b] = 0 BY DEF DeliveryInit
<1>4. DeliveryTypeOK
  <2>1. received \in [1..LastBatch -> 0..2] BY DEF DeliveryInit
  <2>2. disturbed \in BOOLEAN BY DEF DeliveryInit
  <2> QED BY <1>1, <1>2, <2>1, <2>2 DEF DeliveryTypeOK
<1>5. AtStart /\ Served /\ Undisturbed
  BY <1>1, <1>3 DEF DeliveryInit, AtStart, Served, Undisturbed, Delivering
<1> QED BY <1>4, <1>5 DEF DeliveryInv

\* The row may change, and a job be added, as long as a row is not called sent and
\* the second job counts as a disturbance.
LEMMA RowPreserves ==
  ASSUME DeliveryInv, CreateNotificationJob \/ DeleteNotificationJob \/ RetryNotificationJob
  PROVE  DeliveryInv'
<1> USE DEF DeliveryInv, DeliveryTypeOK, AtStart, Served, Undisturbed, Delivering, JobStates
<1>1. CASE CreateNotificationJob
  <2>1. /\ notice' = [status |-> "pending", retries |-> 0] /\ UNCHANGED <<received, disturbed>>
        /\ Unstarted
    BY <1>1 DEF CreateNotificationJob
  <2>2. CASE UNCHANGED worker
    BY <2>1, <2>2, DeliveryAssumption DEF Unstarted
  <2>3. ASSUME NEW q \in QueueJobs, worker' = [worker EXCEPT ![q] = Queued]
        PROVE DeliveryInv'
    BY <2>1, <2>3, FreshJobs, DeliveryAssumption DEF Unstarted
  <2> QED BY <1>1, <2>2, <2>3 DEF CreateNotificationJob, EnqueueNotice
<1>2. CASE DeleteNotificationJob BY <1>2 DEF DeleteNotificationJob, Unstarted
<1>3. CASE RetryNotificationJob
  <2>1. /\ notice' = [notice EXCEPT !.status = "pending"] /\ received' = received
        /\ disturbed' = TRUE
    BY <1>3 DEF RetryNotificationJob
  <2>2. CASE UNCHANGED worker BY <2>1, <2>2
  <2>3. ASSUME NEW q \in QueueJobs, worker' = [worker EXCEPT ![q] = Queued]
        PROVE DeliveryInv'
    BY <2>1, <2>3, FreshJobs
  <2> QED BY <1>3, <2>2, <2>3 DEF RetryNotificationJob, EnqueueNotice
<1> QED BY <1>1, <1>2, <1>3

\* What a failed attempt makes of its job.
LEMMA AgainStates ==
  ASSUME DeliveryInv, NEW q \in QueueJobs, Again(q)
  PROVE  /\ worker' \in [QueueJobs -> JobStates]
         /\ worker'[q].pc \in {"waiting", "done"} /\ worker'[q].batch = 1
         /\ \A r \in QueueJobs : r # q => worker'[r] = worker[r]
<1>1. worker \in [QueueJobs -> JobStates] BY DEF DeliveryInv, DeliveryTypeOK, JobStates
<1>2. CASE worker[q].made + 1 < AttemptsPerJob
  <2> DEFINE s == [Queued EXCEPT !.made = worker[q].made + 1, !.stalled = worker[q].stalled]
  <2>1. worker' = [worker EXCEPT ![q] = s] BY <1>2 DEF Again
  <2>2. s \in JobStates /\ s.pc = "waiting" /\ s.batch = 1
    <3>1. worker[q] \in JobStates BY <1>1
    <3>2. worker[q].made + 1 \in 0..(AttemptsPerJob - 1) /\ worker[q].stalled \in BOOLEAN
      BY <1>2, <3>1, DeliveryAssumption DEF JobStates
    <3> QED BY <3>2, FreshJobs DEF JobStates
  <2> HIDE DEF s
  <2> QED BY <1>1, <2>1, <2>2
<1>3. CASE ~(worker[q].made + 1 < AttemptsPerJob)
  <2> DEFINE s == [Unused EXCEPT !.pc = "done"]
  <2>1. worker' = [worker EXCEPT ![q] = s] BY <1>3 DEF Again
  <2>2. s \in JobStates /\ s.pc = "done" /\ s.batch = 1 BY FreshJobs DEF Unused
  <2> HIDE DEF s
  <2> QED BY <1>1, <2>1, <2>2
<1> QED BY <1>2, <1>3

\* Whatever a job is put back to once the disturbance is noted, as long as the row
\* does not become sent.
LEMMA PutBackPreserves ==
  ASSUME DeliveryInv, NEW q \in QueueJobs, worker' \in [QueueJobs -> JobStates],
         worker'[q].pc \in {"waiting", "done"}, worker'[q].batch = 1,
         \A r \in QueueJobs : r # q => worker'[r] = worker[r],
         disturbed' = TRUE, UNCHANGED received,
         notice' \in [status : {"none", "pending", "processing", "sent", "failed"},
                      retries : 0..MaxRetries],
         notice'.status = "sent" => notice.status = "sent"
  PROVE  DeliveryInv'
<1>1. DeliveryTypeOK' BY DEF DeliveryInv, DeliveryTypeOK
<1>2. AtStart' BY DEF DeliveryInv, AtStart, Delivering
<1>3. Served' BY DEF DeliveryInv, Served, Delivering
<1>4. Undisturbed' BY DEF Undisturbed
<1> QED BY <1>1, <1>2, <1>3, <1>4 DEF DeliveryInv

LEMMA WorkerPreserves ==
  ASSUME DeliveryInv, NEW q \in QueueJobs,
         \/ LoadNotice(q) \/ MarkProcessing(q) \/ DeliverBatch(q) \/ MarkSent(q)
         \/ DeliveryFails(q) \/ WorkerDies(q)
  PROVE  DeliveryInv'
<1>a. /\ worker \in [QueueJobs -> JobStates]
      /\ notice \in [status : {"none", "pending", "processing", "sent", "failed"},
                     retries : 0..MaxRetries]
  BY DEF DeliveryInv, DeliveryTypeOK, JobStates
<1> DEFINE Done == [Unused EXCEPT !.pc = "done"]
<1>b. Done \in JobStates /\ Done.pc = "done" /\ Done.batch = 1 BY FreshJobs DEF Unused
<1> HIDE DEF Done
<1>1. CASE LoadNotice(q)
  <2>1. CASE notice.status = "none" /\ Again(q) /\ disturbed' = TRUE
    BY <1>1, <1>a, <2>1, AgainStates, PutBackPreserves DEF LoadNotice
  <2>2. CASE worker' = [worker EXCEPT ![q] = Done] /\ UNCHANGED disturbed
    BY <1>1, <1>a, <1>b, <2>2
    DEF LoadNotice, DeliveryInv, DeliveryTypeOK, AtStart, Served, Undisturbed, Delivering, JobStates,
        Unstarted
  <2>3. CASE worker' = [worker EXCEPT ![q].pc = "mark"] /\ UNCHANGED disturbed
    BY <1>1, <1>a, <2>3
    DEF LoadNotice, DeliveryInv, DeliveryTypeOK, AtStart, Served, Undisturbed, Delivering, JobStates,
        Unstarted
  <2> QED BY <1>1, <2>1, <2>2, <2>3 DEF LoadNotice, Done
<1>2. CASE MarkProcessing(q)
  <2>1. /\ notice' \in [status : {"none", "pending", "processing", "sent", "failed"},
                        retries : 0..MaxRetries]
        /\ notice'.status # "sent"
    BY <1>2, <1>a, DeliveryAssumption, SMTT(30) DEF MarkProcessing, Write
  <2> QED
    BY <1>2, <1>a, <2>1, DeliveryAssumption
    DEF MarkProcessing, DeliveryInv, DeliveryTypeOK, AtStart, Served, Undisturbed, Delivering,
        JobStates, Unstarted
<1>3. CASE DeliverBatch(q)
  <2> DEFINE b == worker[q].batch
  <2>1. /\ b \in 1..LastBatch /\ received \in [1..LastBatch -> 0..2]
        /\ received' = [received EXCEPT ![b] = IF received[b] < 2 THEN received[b] + 1 ELSE 2]
        /\ worker' = [worker EXCEPT ![q].batch = b + 1]
        /\ UNCHANGED <<notice, disturbed>> /\ Delivering(q)
    BY <1>3 DEF DeliverBatch, Following, Delivering, DeliveryInv, DeliveryTypeOK
  <2>2. /\ received'[b] \in 1..2 /\ (received[b] = 0 => received'[b] = 1)
        /\ \A c \in 1..LastBatch : c # b => received'[c] = received[c]
        /\ received' \in [1..LastBatch -> 0..2]
    BY <2>1, DeliveryAssumption
  <2>3. /\ worker' \in [QueueJobs -> JobStates] /\ worker'[q].batch = b + 1
        /\ worker'[q].pc = "deliver"
        /\ \A r \in QueueJobs : r # q => worker'[r] = worker[r]
    <3>1. b + 1 \in 1..(LastBatch + 1) BY <2>1, DeliveryAssumption
    <3>2. [worker[q] EXCEPT !.batch = b + 1] \in JobStates BY <1>a, <3>1 DEF JobStates
    <3> HIDE DEF b
    <3> QED BY <1>a, <2>1, <3>2 DEF Delivering, JobStates
  <2> HIDE DEF b
  <2>4. DeliveryTypeOK' /\ AtStart'
    BY <1>a, <2>1, <2>2, <2>3 DEF DeliveryInv, DeliveryTypeOK, JobStates, AtStart, Delivering
  <2>5. Served'
    BY <1>a, <2>1, <2>2, <2>3, DeliveryAssumption
    DEF DeliveryInv, DeliveryTypeOK, Served, Delivering, JobStates, b
  <2>6. Undisturbed'
    BY <1>a, <2>1, <2>2, <2>3, DeliveryAssumption
    DEF DeliveryInv, DeliveryTypeOK, Undisturbed, Delivering, JobStates, Unstarted, b
  <2> QED BY <2>4, <2>5, <2>6 DEF DeliveryInv
<1>4. CASE MarkSent(q)
  <2>1. /\ worker' = [worker EXCEPT ![q] = Done] /\ UNCHANGED <<received, disturbed>>
        /\ worker[q].batch > LastBatch /\ Delivering(q)
    BY <1>4 DEF MarkSent, Done, Delivering
  <2>2. notice' \in [status : {"none", "pending", "processing", "sent", "failed"},
                     retries : 0..MaxRetries]
    BY <1>4, <1>a DEF MarkSent, Write
  <2>3. \A b \in 1..LastBatch : received[b] >= 1
    BY <1>a, <2>1, DeliveryAssumption DEF DeliveryInv, Served, JobStates
  <2> QED
    BY <1>a, <1>b, <2>1, <2>2, <2>3
    DEF DeliveryInv, DeliveryTypeOK, AtStart, Served, Undisturbed, Delivering, JobStates, Unstarted
<1>5. CASE DeliveryFails(q)
  <2>1. /\ notice' \in [status : {"none", "pending", "processing", "sent", "failed"},
                        retries : 0..MaxRetries]
        /\ notice'.status = "sent" => notice.status = "sent"
    BY <1>5, <1>a DEF DeliveryFails, Write
  <2> QED BY <1>5, <2>1, AgainStates, PutBackPreserves DEF DeliveryFails
<1>6. CASE WorkerDies(q)
  <2> DEFINE s == IF worker[q].stalled THEN Done
                  ELSE [Queued EXCEPT !.made = worker[q].made, !.stalled = TRUE]
  <2>1. worker' = [worker EXCEPT ![q] = s] /\ UNCHANGED <<notice, received>> /\ disturbed' = TRUE
    BY <1>6 DEF WorkerDies, Done
  <2>2. s \in JobStates /\ s.pc \in {"waiting", "done"} /\ s.batch = 1
    <3>1. CASE worker[q].stalled BY <1>b, <3>1
    <3>2. CASE ~worker[q].stalled BY <1>a, <3>2, FreshJobs DEF JobStates
    <3> QED BY <3>1, <3>2
  <2> HIDE DEF s
  <2> QED BY <1>a, <2>1, <2>2, PutBackPreserves
<1> QED BY <1>1, <1>2, <1>3, <1>4, <1>5, <1>6

LEMMA DeliveryPreserved == DeliveryInv /\ [DeliveryNext]_deliveryVars => DeliveryInv'
<1> SUFFICES ASSUME DeliveryInv, [DeliveryNext]_deliveryVars PROVE DeliveryInv' OBVIOUS
<1>1. CASE UNCHANGED deliveryVars
  BY <1>1 DEF deliveryVars, DeliveryInv, DeliveryTypeOK, AtStart, Served, Undisturbed, Delivering,
     Unstarted
<1> QED BY <1>1, RowPreserves, WorkerPreserves DEF DeliveryNext

LEMMA DeliveryKeeps == DeliveryInv => SentToAll
BY DEF DeliveryInv, Served, Undisturbed, SentToAll

\* A broadcast shown as sent was written for everyone, and for nobody twice as long
\* as no attempt failed and nobody asked for a retry.
THEOREM BroadcastReachesAll == DeliverySpec => []SentToAll
BY DeliveryKeeps, DeliveryStarts, DeliveryPreserved, PTL DEF DeliverySpec
=============================================================================
