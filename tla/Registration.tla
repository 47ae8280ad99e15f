----------------------------- MODULE Registration -----------------------------
(* A customer opens his account: an identity at Supabase, which keeps the      *)
(* password, and a row in users that names the identity.  The two cannot be    *)
(* written together.  A request that dies in between leaves an identity that   *)
(* nobody owns, which the next request takes over if it knows the password;    *)
(* one that fails removes the identity it created.  The requests for one       *)
(* e-mail address run side by side: a second tap, a second device, a retry.    *)
EXTENDS Naturals

CONSTANTS SignUps, Passwords  \* the requests, and what the customer types

VARIABLES
  identities,  \* external: how many identities were created for the address
  identity,    \* external: the one Supabase has now, or 0, with its password
  owner,       \* the row in users: the identity it names, or 0
  signUp       \* where each request is; its password; the identity it works with and whether it
               \* found it there; (ghost) whether it wrote the row

registrationVars == <<identities, identity, owner, signUp>>

RegistrationInit ==
  /\ identities = 0 /\ owner = 0
  /\ \E p \in Passwords : identity = [id |-> 0, password |-> p]
  /\ signUp \in [SignUps -> {[pc |-> "check", password |-> p, id |-> 0, recovered |-> FALSE,
                              wrote |-> FALSE] : p \in Passwords}]

SignUpAt(s, pc) == signUp' = [signUp EXCEPT ![s].pc = pc]

CheckEmail(s) ==
  /\ signUp[s].pc = "check" /\ SignUpAt(s, IF owner = 0 THEN "create" ELSE "refused")
  /\ UNCHANGED <<identities, identity, owner>>

\* An address has one identity at a time.
CreateIdentity(s) ==
  /\ signUp[s].pc = "create" /\ identity.id = 0
  /\ identities' = identities + 1
  /\ identity' = [id |-> identities + 1, password |-> signUp[s].password]
  /\ \/ signUp' = [signUp EXCEPT ![s].pc = "setUp", ![s].id = identities + 1]
     \/ SignUpAt(s, "failed")  \* the answer is lost
  /\ UNCHANGED owner

IdentityTaken(s) ==
  /\ signUp[s].pc = "create" /\ identity.id # 0 /\ SignUpAt(s, "recover")
  /\ UNCHANGED <<identities, identity, owner>>

\* Whoever knows the password of an identity without a row may complete it.
SignsIn(s) == identity.id # 0 /\ identity.password = signUp[s].password

RecoverIdentity(s) ==
  /\ signUp[s].pc = "recover"
  /\ IF SignsIn(s)
     THEN signUp' = [signUp EXCEPT ![s].pc = "setUp", ![s].id = identity.id, ![s].recovered = TRUE]
     ELSE SignUpAt(s, "refused")
  /\ UNCHANGED <<identities, identity, owner>>

BugAfterRollback(s) == "cleanUp"   \* removes also what it did not create
AfterRollback(s) == IF signUp[s].recovered THEN "failed" ELSE "cleanUp"

\* users, profile, wallet and role in one transaction; email is unique.
SetUp(s) ==
  /\ signUp[s].pc = "setUp" /\ owner = 0
  /\ owner' = signUp[s].id
  /\ \E pc \in {IF signUp[s].recovered THEN "session" ELSE "signIn",
                AfterRollback(s)} :  \* committed, but the answer is lost
       signUp' = [signUp EXCEPT ![s].pc = pc, ![s].wrote = TRUE]
  /\ UNCHANGED <<identities, identity>>

\* The row of another request is there, or some statement fails.
SetUpFails(s) ==
  /\ signUp[s].pc = "setUp" /\ SignUpAt(s, AfterRollback(s))
  /\ UNCHANGED <<identities, identity, owner>>

CleanUp(s) ==
  /\ signUp[s].pc = "cleanUp" /\ SignUpAt(s, "cleaned")
  /\ identity' = IF identity.id = signUp[s].id THEN [identity EXCEPT !.id = 0] ELSE identity
  /\ UNCHANGED <<identities, owner>>

SignIn(s) ==
  /\ signUp[s].pc = "signIn" /\ SignUpAt(s, IF SignsIn(s) THEN "session" ELSE "failed")
  /\ UNCHANGED <<identities, identity, owner>>

CreateSession(s) ==
  /\ signUp[s].pc = "session" /\ SignUpAt(s, "registered")
  /\ UNCHANGED <<identities, identity, owner>>

SignUpEnds == {"refused", "cleaned", "failed", "registered"}

\* A call fails, the removal of the identity included, or the process dies.
SignUpFails(s) ==
  /\ signUp[s].pc \notin SignUpEnds /\ SignUpAt(s, "failed")
  /\ UNCHANGED <<identities, identity, owner>>

RegistrationNext ==
  \E s \in SignUps :
    \/ CheckEmail(s) \/ CreateIdentity(s) \/ IdentityTaken(s) \/ RecoverIdentity(s)
    \/ SetUp(s) \/ SetUpFails(s) \/ CleanUp(s) \/ SignIn(s) \/ CreateSession(s) \/ SignUpFails(s)

RegistrationSpec == RegistrationInit /\ [][RegistrationNext]_registrationVars

-----------------------------------------------------------------------------
SignUpStates ==
  [pc : {"check", "create", "recover", "setUp", "cleanUp", "signIn", "session"} \union SignUpEnds,
   password : Passwords, id : Nat, recovered : BOOLEAN, wrote : BOOLEAN]

\* Identity, row and requests keep their types.
RegistrationTypeOK ==
  /\ identities \in Nat /\ identity \in [id : 0..identities, password : Passwords]
  /\ owner \in 0..identities
  /\ signUp \in [SignUps -> SignUpStates]

\* The request that created the row's identity removed it, after another request had
\* taken the identity over, or after its own commit succeeded without an answer.
RemovedByCreator ==
  \E c \in SignUps :
    /\ signUp[c].pc = "cleaned" /\ signUp[c].id = owner /\ ~signUp[c].recovered
    /\ signUp[c].wrote \/ \E s \in SignUps : signUp[s].recovered /\ signUp[s].wrote

\* auth.service.ts:223-224, 269: whoever is registered can log in, and an identity that
\* is not registered leaves the address free.  A row names the identity Supabase has,
\* save where its creator removed it behind the row's back; an identity without a row
\* is one some request died over, and is taken over with its password; and a request
\* that succeeded is registered with the identity it worked with.
RegistrationsAgree ==
  /\ owner # 0 => identity.id = owner \/ RemovedByCreator
  /\ owner = 0 /\ identity.id # 0 =>
       \E s \in SignUps : /\ signUp[s].pc \in {"setUp", "cleanUp", "failed"} /\ ~signUp[s].recovered
                         /\ signUp[s].id \in {0, identity.id}
  /\ \A s \in SignUps : signUp[s].pc = "registered" => owner = signUp[s].id
=============================================================================
