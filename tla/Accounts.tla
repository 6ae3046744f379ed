------------------------------ MODULE Accounts ------------------------------
(***************************************************************************)
(* The account behind the sessions: AuthService::{signup_init,             *)
(* signup_complete, change_password} and the credentials that login checks *)
(* (features/auth/service.rs), for one email address.                      *)
(*                                                                         *)
(* Pending signups live in the memory of the server.  A signup_complete is *)
(* to the devices and sessions what a login with a new device is: one      *)
(* transaction that inserts both.                                          *)
(***************************************************************************)
EXTENDS Sessions, FiniteSets

CONSTANTS
    Token,      \* signup tokens
    AuthKey,    \* the auth keys of the passwords the user may choose
    Recovery    \* the auth key of the recovery phrase, which never changes

ASSUME AccountsAssumption ==
    /\ Null \notin Token \cup AuthKey
    /\ Recovery \notin AuthKey
    /\ Req # {} /\ IsFiniteSet(Req)    \* the pool of connections has a size

VARIABLES
    pendingSignups,  \* the tokens in AppState.pending_signups
    authKey,         \* users.auth_key_hash, Null while there is no row
    cred,            \* per request: the auth key a login was accepted with
    signup,          \* per request: the token of a signup_complete under way
    founders,        \* how many sessions a signup_complete has inserted (history)
    late             \* sessions opened with a replaced key since the last change (history)

accountVars == <<pendingSignups, authKey, cred, signup, founders, late>>
allVars == <<vars, accountVars>>

AccountsInit ==
    /\ Init
    /\ pendingSignups = {}
    /\ authKey = Null
    /\ cred = [r \in Req |-> Null]
    /\ signup = [r \in Req |-> Null]
    /\ founders = 0
    /\ late = 0

-----------------------------------------------------------------------------
(* Signup *)

\* The email is not registered yet.
SignupInit(t) ==
    /\ authKey = Null /\ t \notin pendingSignups
    /\ pendingSignups' = pendingSignups \cup {t}
    /\ UNCHANGED <<vars, authKey, cred, signup, founders, late>>

\* signup_complete of a token that is ten minutes old.
SignupExpired(t) ==
    /\ t \in pendingSignups
    /\ pendingSignups' = pendingSignups \ {t}
    /\ UNCHANGED <<vars, authKey, cred, signup, founders, late>>

\* signup_complete reads the pending signup ...
SignupGet(r, t) ==
    /\ t \in pendingSignups
    /\ LoginCheck(r, Null)
    /\ signup' = [signup EXCEPT ![r] = t]
    /\ UNCHANGED <<pendingSignups, authKey, cred, founders, late>>

\* ... removes it, if another request did not, before it looks at the keys that came with it ...
SignupRemove(r) ==
    /\ signup[r] \in pendingSignups
    /\ pendingSignups' = pendingSignups \ {signup[r]}
    /\ UNCHANGED <<vars, authKey, cred, signup, founders, late>>

\* Mutant: INSERT ... ON CONFLICT DO UPDATE.
SignupUpsert(r, d, s, k) ==
    /\ signup[r] # Null /\ signup[r] \notin pendingSignups
    /\ devSt[d] = "none"
    /\ LoginCommit(r, d, s)
    /\ authKey' = k
    /\ signup' = [signup EXCEPT ![r] = Null]
    /\ founders' = founders + 1
    /\ UNCHANGED <<pendingSignups, cred, late>>

\* ... and inserts the user, a device and a session in one transaction, which fails as a whole
\* when the email has a row (UNIQUE).
SignupInsert(r, d, s, k) ==
    /\ signup[r] # Null /\ signup[r] \notin pendingSignups
    /\ authKey = Null
    /\ devSt[d] = "none"
    /\ LoginCommit(r, d, s)
    /\ authKey' = k
    /\ signup' = [signup EXCEPT ![r] = Null]
    /\ founders' = founders + 1
    /\ UNCHANGED <<pendingSignups, cred, late>>

\* The server restarts after its last request has ended; what it kept in memory is lost.
Restart ==
    /\ \A r \in Req : Idle(r)
    /\ pendingSignups # {}
    /\ pendingSignups' = {}
    /\ UNCHANGED <<vars, authKey, cred, signup, founders, late>>

-----------------------------------------------------------------------------
(* Credentials *)

\* Mutant: logins under way for the same email share one read of its row.
LoginKeyShared(r, d, k) ==
    /\ authKey # Null
    /\ k \in {authKey, Recovery} \cup ({cred[q] : q \in Req} \ {Null})
    /\ LoginCheck(r, d)
    /\ cred' = [cred EXCEPT ![r] = k]
    /\ UNCHANGED <<pendingSignups, authKey, signup, founders, late>>

\* login: the key or the recovery key, as the row has them before the transaction begins.
LoginKey(r, d, k) ==
    /\ authKey # Null
    /\ k \in {authKey, Recovery}
    /\ LoginCheck(r, d)
    /\ cred' = [cred EXCEPT ![r] = k]
    /\ UNCHANGED <<pendingSignups, authKey, signup, founders, late>>

\* ... and the transaction that opens the session, which does not look at the key again.
LoginOpen(r, d, s) ==
    /\ cred[r] # Null
    /\ LoginCommit(r, d, s)
    /\ cred' = [cred EXCEPT ![r] = Null]
    /\ late' = IF cred[r] \in {authKey, Recovery} THEN late ELSE late + 1
    /\ UNCHANGED <<pendingSignups, authKey, signup, founders>>

\* change_password, for a request that require_auth admitted: the old key is not asked for and
\* sessions stay as they are.
ChangePassword(r, k) ==
    /\ req[r].at = "admitted"
    /\ authKey' = k
    /\ late' = 0
    /\ End(r)
    /\ UNCHANGED <<pendingSignups, cred, signup, founders>>

EndRequest(r) ==
    /\ End(r)
    /\ cred' = [cred EXCEPT ![r] = Null]
    /\ signup' = [signup EXCEPT ![r] = Null]
    /\ UNCHANGED <<pendingSignups, authKey, founders, late>>

-----------------------------------------------------------------------------
AccountStep(r) ==
    \/ \E t \in Token : SignupGet(r, t)
    \/ SignupRemove(r)
    \/ \E d \in Device, s \in Session, k \in AuthKey : SignupInsert(r, d, s, k)
    \/ \E d \in Device \cup {Null}, k \in AuthKey \cup {Recovery} : LoginKey(r, d, k)
    \/ \E d \in Device, s \in Session : LoginOpen(r, d, s)
    \/ \E k \in AuthKey : ChangePassword(r, k)
    \/ EndRequest(r)

AccountsNext ==
    \/ \E t \in Token : SignupInit(t) \/ SignupExpired(t)
    \/ Restart
    \/ \E r \in Req : AccountStep(r)
    \/ \E r \in Req : SessionStep(r) /\ UNCHANGED accountVars

AccountsSpec == AccountsInit /\ [][AccountsNext]_allVars

-----------------------------------------------------------------------------
(* Properties *)

\* However many signup_complete requests hold the same pending signup, or pending signups of the
\* same email, one of them makes the account; the others leave no device and no session behind.
SignupOnce ==
    /\ founders <= 1
    /\ \A s \in Session : Exists(s) => authKey # Null /\ founders = 1

\* Logins under way that were accepted with a key that has been replaced since.
StaleLogins == {r \in Req : cred[r] \notin {Null, Recovery, authKey}}

\* login compares the key before its transaction, so a change of password can be followed by
\* sessions opened with the old key, but only by the requests that were in flight beside it: the
\* ones already opened and the ones still to come are together fewer than the requests in flight.
LateLoginsBounded == late + Cardinality(StaleLogins) < Cardinality(Req)

\* Seen from the devices and sessions, a signup is a login and a change of password nothing:
\* what is proved of Sessions holds of the whole.
ImplementsSessions == Spec
=============================================================================
