---------------------------- MODULE AdminSession -----------------------------
(* One page of the admin dashboard and its session on the server: requests are *)
(* sent with the access token of the moment, a 401 starts a silent refresh     *)
(* which rotates the session, the 401s that arrive meanwhile wait in a queue,  *)
(* and everything that waited is sent again with the new token.  Answers       *)
(* arrive in any order, so a request may be refused with a token that another  *)
(* one has already replaced; an answer may also be an error.  Between two      *)
(* answers the page's code runs to its end, promise callbacks included.        *)
EXTENDS Naturals

CONSTANTS
  Xhrs,         \* the requests the page makes
  LastSession   \* bound: sessions that are created, by logins and rotations

ASSUME SessionAssumption == LastSession \in Nat \ {0}

VARIABLES
  live,         \* the server's session, by number, or 0; its tokens have its number
  accessValid,  \* its access token has not expired
  created,      \* the sessions created so far
  tokens,       \* the page's store: the session whose tokens it holds, or 0
  refreshing,   \* _isRefreshing
  refresh,      \* the refresh call: its refresh token and where it is
  xhr,          \* the page's requests: where each is, the token it carries, and whether it
                \* waited in the queue, where its promise got a catch that never settles
  onLogin,      \* the page went to /login
  interrupted   \* ghost: a refresh call failed or its answer was lost

sessionVars == <<live, accessValid, created, tokens, refreshing, refresh, xhr, onLogin, interrupted>>

Quiet == [pc |-> "none", token |-> 0]
Idle == [pc |-> "idle", token |-> 0, waited |-> FALSE]
Fresh == [r \in Xhrs |-> Idle]

SessionInit ==
  /\ live = 1 /\ accessValid = TRUE /\ created = 1 /\ tokens = 1
  /\ refreshing = FALSE /\ refresh = Quiet /\ xhr = Fresh
  /\ onLogin = FALSE /\ interrupted = FALSE

-----------------------------------------------------------------------------
\* The server.

\* authenticate: the token's session must be there.
Authenticate(r) ==
  /\ xhr[r].pc = "sent"
  /\ xhr' = [xhr EXCEPT ![r].pc = IF xhr[r].token = live /\ live # 0 /\ accessValid
                                  THEN "served" ELSE "denied"]
  /\ UNCHANGED <<live, accessValid, created, tokens, refreshing, refresh, onLogin, interrupted>>

\* refreshTokens: findSessionByRefreshToken.
FindSession ==
  /\ refresh.pc = "sent"
  /\ refresh' = [refresh EXCEPT !.pc = IF refresh.token = live /\ live # 0 THEN "found" ELSE "refused"]
  /\ UNCHANGED <<live, accessValid, created, tokens, refreshing, xhr, onLogin, interrupted>>

\* rotateSession: the old session is revoked, whatever it has become, and a new
\* one inserted.
RotateSession ==
  /\ refresh.pc = "found" /\ created < LastSession
  /\ created' = created + 1 /\ live' = created' /\ accessValid' = TRUE
  /\ refresh' = [pc |-> "rotated", token |-> created']
  /\ UNCHANGED <<tokens, refreshing, xhr, onLogin, interrupted>>

\* Supabase or the database fails, or the answer does not reach the page in time.
RefreshInterrupted ==
  /\ refresh.pc \in {"sent", "found", "rotated"}
  /\ refresh' = [refresh EXCEPT !.pc = "refused"] /\ interrupted' = TRUE
  /\ UNCHANGED <<live, accessValid, created, tokens, refreshing, xhr, onLogin>>

AccessExpires ==
  /\ accessValid /\ accessValid' = FALSE
  /\ UNCHANGED <<live, created, tokens, refreshing, refresh, xhr, onLogin, interrupted>>

\* A logout on another device, or the session's own end.
SessionEnds ==
  /\ live # 0 /\ live' = 0
  /\ UNCHANGED <<accessValid, created, tokens, refreshing, refresh, xhr, onLogin, interrupted>>

-----------------------------------------------------------------------------
\* The page.

SendXhr(r) ==
  /\ xhr[r].pc = "idle" /\ ~onLogin
  /\ xhr' = [xhr EXCEPT ![r] = [pc |-> "sent", token |-> tokens, waited |-> FALSE]]
  /\ UNCHANGED <<live, accessValid, created, tokens, refreshing, refresh, onLogin, interrupted>>

XhrServed(r) ==
  /\ xhr[r].pc = "served" /\ xhr' = [xhr EXCEPT ![r] = Idle]
  /\ UNCHANGED <<live, accessValid, created, tokens, refreshing, refresh, onLogin, interrupted>>

\* What becomes of a request whose promise would reject: its caller is told, unless
\* it waited in the queue before.
AfterError(x) == IF x.waited THEN [x EXCEPT !.pc = "dropped"] ELSE Idle

\* The answer is an error other than a 401, or does not come in time.
XhrFails(r) ==
  /\ xhr[r].pc = "sent" /\ xhr' = [xhr EXCEPT ![r] = AfterError(xhr[r])]
  /\ UNCHANGED <<live, accessValid, created, tokens, refreshing, refresh, onLogin, interrupted>>

\* A 401 with no refresh token left: redirectToLogin, and the promise never settles.
DeniedForGood(r) ==
  /\ xhr[r].pc = "denied" /\ tokens = 0
  /\ onLogin' = TRUE /\ xhr' = [xhr EXCEPT ![r].pc = "dropped"]
  /\ UNCHANGED <<live, accessValid, created, tokens, refreshing, refresh, interrupted>>

BugMustWait == FALSE
MustWait == refreshing

DeniedWhileRefreshing(r) ==
  /\ xhr[r].pc = "denied" /\ tokens # 0 /\ MustWait
  /\ xhr' = [xhr EXCEPT ![r] = [pc |-> "queued", token |-> xhr[r].token, waited |-> TRUE]]
  /\ UNCHANGED <<live, accessValid, created, tokens, refreshing, refresh, onLogin, interrupted>>

\* The refresh token is the store's, which may be newer than the token denied.
StartRefresh(r) ==
  /\ xhr[r].pc = "denied" /\ tokens # 0 /\ ~MustWait
  /\ refreshing' = TRUE
  /\ refresh' = [pc |-> "sent", token |-> tokens]
  /\ xhr' = [xhr EXCEPT ![r].pc = "refresher"]
  /\ UNCHANGED <<live, accessValid, created, tokens, onLogin, interrupted>>

Waiting401 == {r \in Xhrs : xhr[r].pc \in {"queued", "refresher"}}

\* setTokens, drainQueue, the replay of the request that started it.
RefreshSucceeds ==
  /\ refresh.pc = "rotated"
  /\ tokens' = refresh.token /\ refresh' = Quiet /\ refreshing' = FALSE
  /\ xhr' = [r \in Xhrs |->
               IF r \in Waiting401
               THEN [pc |-> "sent", token |-> refresh.token, waited |-> xhr[r].waited]
               ELSE xhr[r]]
  /\ UNCHANGED <<live, accessValid, created, onLogin, interrupted>>

\* Any error of the refresh call: the queue is drained and the page goes to /login.
RefreshFails ==
  /\ refresh.pc = "refused"
  /\ tokens' = 0 /\ refresh' = Quiet /\ refreshing' = FALSE /\ onLogin' = TRUE
  /\ xhr' = [r \in Xhrs |-> IF r \in Waiting401 THEN AfterError(xhr[r]) ELSE xhr[r]]
  /\ UNCHANGED <<live, accessValid, created, interrupted>>

\* A login loads the page anew.
LogIn ==
  /\ onLogin /\ created < LastSession
  /\ created' = created + 1 /\ live' = created' /\ tokens' = created' /\ accessValid' = TRUE
  /\ refreshing' = FALSE /\ refresh' = Quiet /\ xhr' = Fresh
  /\ onLogin' = FALSE /\ interrupted' = FALSE

SessionNext ==
  \/ FindSession \/ RotateSession \/ RefreshInterrupted \/ AccessExpires \/ SessionEnds
  \/ RefreshSucceeds \/ RefreshFails \/ LogIn
  \/ \E r \in Xhrs : \/ Authenticate(r) \/ SendXhr(r) \/ XhrServed(r) \/ XhrFails(r)
                     \/ DeniedForGood(r)
                     \/ DeniedWhileRefreshing(r) \/ StartRefresh(r)

SessionSpec == SessionInit /\ [][SessionNext]_sessionVars

-----------------------------------------------------------------------------
\* Sessions, tokens and requests keep their types.
SessionTypeOK ==
  /\ live \in 0..LastSession /\ created \in 1..LastSession /\ tokens \in 0..LastSession
  /\ accessValid \in BOOLEAN /\ refreshing \in BOOLEAN
  /\ onLogin \in BOOLEAN /\ interrupted \in BOOLEAN
  /\ refresh \in [pc : {"none", "sent", "found", "rotated", "refused"}, token : 0..LastSession]
  /\ xhr \in [Xhrs -> [pc : {"idle", "sent", "served", "denied", "queued", "refresher", "dropped"},
                       token : 0..LastSession, waited : BOOLEAN]]

\* Nobody waits for a refresh that is over.
NobodyForgotten == Waiting401 # {} => refreshing /\ refresh # Quiet

\* A request that never had to wait is answered, or the page is gone.  (One that did
\* wait is given up silently when its replay fails: README.)
NoneGivenUp == \A r \in Xhrs : xhr[r].pc = "dropped" => onLogin \/ xhr[r].waited

\* The page keeps up with the rotations it causes: in whatever order late 401s,
\* errors and refreshes arrive, no request waits for a refresh that is over, none
\* that did not wait is given up, and the page leaves for the login page only when
\* its session is gone or a refresh call was interrupted.
PageSurvivesRefresh ==
  /\ NobodyForgotten /\ NoneGivenUp
  /\ onLogin => live = 0 \/ interrupted
=============================================================================
