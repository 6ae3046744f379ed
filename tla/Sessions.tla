------------------------------ MODULE Sessions ------------------------------
(***************************************************************************)
(* The devices and sessions of one user: AuthService::{login, refresh,     *)
(* logout} (features/auth/service.rs), DeviceService::revoke_device        *)
(* (features/devices/service.rs) and the require_auth middleware           *)
(* (core/middleware.rs), run by concurrent requests under READ COMMITTED.  *)
(*                                                                         *)
(* A token is the session it names: a refresh token carries its jti, an    *)
(* access token its sid.  Tokens do not expire here; expiry only refuses   *)
(* requests and changes no row.                                            *)
(***************************************************************************)
EXTENDS Naturals

CONSTANTS
    Device,    \* device ids; each is used by at most one INSERT
    Session,   \* session ids, likewise
    Req,       \* slots for requests in flight at the same time
    Null       \* SQL NULL, and "nobody" for a lock

ASSUME SessionsAssumption ==
    /\ Device \cap Session = {}
    /\ Null \notin Device \cup Session \cup Req

VARIABLES
    devSt,      \* row of devices: "none", "active", "revoked" (revoked_at set)
    deviceOf,   \* sessions.device_id, Null before the INSERT
    revoked,    \* sessions with revoked_at and revoked_reason set
    rotatedTo,  \* sessions.rotated_to
    root,       \* the login a session descends from (history; no column holds it)
    locks,      \* row locks on devices and sessions
    req         \* the requests in flight

rowVars == <<devSt, deviceOf, revoked, rotatedTo, root>>
vars == <<rowVars, locks, req>>

Exists(s) == deviceOf[s] # Null

\* A refresh with this token would be granted.
Usable(s) == Exists(s) /\ s \notin revoked /\ rotatedTo[s] = Null

IdleReq == [at |-> "idle", session |-> Null, device |-> Null, next |-> Null, rows |-> {}]

\* Where a request that passed require_auth's device check can be.
AuthPoints == {"auth_session", "admitted", "revoke_scan", "logout_scan", "revoke_commit",
               "logout_token"}

Request == [at : {"idle", "login", "refresh"} \cup AuthPoints,
            session : Session \cup {Null}, device : Device \cup {Null},
            next : Session \cup {Null}, rows : SUBSET Session]

Idle(r) == req[r].at = "idle"
Goto(r, q) == req' = [req EXCEPT ![r] = q]

\* No row in rows is locked by a transaction other than r's.
Available(r, rows) == \A x \in rows : locks[x] \in {Null, r}

Lock(r, rows) ==
    /\ Available(r, rows)
    /\ locks' = [x \in Device \cup Session |-> IF x \in rows THEN r ELSE locks[x]]

Finish(r) ==
    /\ locks' = [x \in Device \cup Session |-> IF locks[x] = r THEN Null ELSE locks[x]]
    /\ Goto(r, IdleReq)

Init ==
    /\ devSt = [d \in Device |-> "none"]
    /\ deviceOf = [s \in Session |-> Null]
    /\ revoked = {}
    /\ rotatedTo = [s \in Session |-> Null]
    /\ root = [s \in Session |-> Null]
    /\ locks = [x \in Device \cup Session |-> Null]
    /\ req = [r \in Req |-> IdleReq]

-----------------------------------------------------------------------------
(* login *)

\* Credentials accepted.  d is the device id the client sent, if that is an active device with
\* the same public key; Null, so that a new device will be inserted, in every other case.
LoginCheck(r, d) ==
    /\ Idle(r)
    /\ d # Null => devSt[d] = "active"
    /\ Goto(r, [IdleReq EXCEPT !.at = "login", !.device = d])
    /\ UNCHANGED <<rowVars, locks>>

\* UPDATE last_seen_at waits for the device row but does not look at revoked_at again.
LoginCommit(r, d, s) ==
    /\ req[r].at = "login"
    /\ \/ req[r].device = Null /\ devSt[d] = "none"
       \/ req[r].device = d /\ Available(r, {d})
    /\ devSt' = [devSt EXCEPT ![d] = IF @ = "none" THEN "active" ELSE @]
    /\ ~ Exists(s)
    /\ deviceOf' = [deviceOf EXCEPT ![s] = d]
    /\ root' = [root EXCEPT ![s] = s]
    /\ Finish(r)
    /\ UNCHANGED <<revoked, rotatedTo>>

-----------------------------------------------------------------------------
(* refresh *)

\* Mutant: the same SELECT without FOR UPDATE.
RefreshLookup(r, t) ==
    /\ Idle(r)
    /\ Exists(t) /\ t \notin revoked
    /\ Goto(r, [IdleReq EXCEPT !.at = "refresh", !.session = t, !.next = rotatedTo[t]])
    /\ UNCHANGED <<rowVars, locks>>

\* Mutant: revoked_at is not looked at.
RefreshLockRevoked(r, t) ==
    /\ Idle(r)
    /\ Exists(t)
    /\ Lock(r, {t})
    /\ Goto(r, [IdleReq EXCEPT !.at = "refresh", !.session = t, !.next = rotatedTo[t]])
    /\ UNCHANGED rowVars

\* SELECT ... WHERE refresh_token_jti = $1 FOR UPDATE OF s; a revoked session returns here.
RefreshLock(r, t) ==
    /\ Idle(r)
    /\ Exists(t) /\ t \notin revoked
    /\ Lock(r, {t})
    /\ Goto(r, [IdleReq EXCEPT !.at = "refresh", !.session = t, !.next = rotatedTo[t]])
    /\ UNCHANGED rowVars

\* Mutant: the old session is not marked as rotated.
RefreshRotateUnlinked(r, s) ==
    LET t == req[r].session
    IN  /\ req[r].at = "refresh" /\ req[r].next = Null
        /\ ~ Exists(s)
        /\ deviceOf' = [deviceOf EXCEPT ![s] = deviceOf[t]]
        /\ root' = [root EXCEPT ![s] = root[t]]
        /\ Finish(r)
        /\ UNCHANGED <<devSt, revoked, rotatedTo>>

\* The token was not rotated before: a new session takes over.  The device is not looked at.
RefreshRotate(r, s) ==
    LET t == req[r].session
    IN  /\ req[r].at = "refresh" /\ req[r].next = Null
        /\ ~ Exists(s)
        /\ deviceOf' = [deviceOf EXCEPT ![s] = deviceOf[t]]
        /\ root' = [root EXCEPT ![s] = root[t]]
        /\ rotatedTo' = [rotatedTo EXCEPT ![t] = s]
        /\ Finish(r)
        /\ UNCHANGED <<devSt, revoked>>

\* Mutant: a token that was not rotated is taken for a reused one.
RefreshReuseAlways(r) ==
    /\ req[r].at = "refresh"
    /\ revoked' = revoked \cup {req[r].session, req[r].next}
    /\ Finish(r)
    /\ UNCHANGED <<devSt, deviceOf, rotatedTo, root>>

\* The token was rotated before: its session and the one it was rotated to are revoked.
RefreshReuse(r) ==
    LET dead == {req[r].session, req[r].next}
    IN  /\ req[r].at = "refresh" /\ req[r].next # Null
        /\ Available(r, dead)
        /\ revoked' = revoked \cup dead
        /\ Finish(r)
        /\ UNCHANGED <<devSt, deviceOf, rotatedTo, root>>

-----------------------------------------------------------------------------
(* require_auth: two SELECTs without a transaction *)

\* Mutant: the device is not looked at, the revocation being trusted to have killed its sessions.
AuthSkipDevice(r, s) ==
    /\ Idle(r)
    /\ Exists(s)
    /\ Goto(r, [IdleReq EXCEPT !.at = "auth_session", !.session = s])
    /\ UNCHANGED <<rowVars, locks>>

AuthDevice(r, s) ==
    /\ Idle(r)
    /\ Exists(s) /\ devSt[deviceOf[s]] = "active"
    /\ Goto(r, [IdleReq EXCEPT !.at = "auth_session", !.session = s])
    /\ UNCHANGED <<rowVars, locks>>

AuthSession(r) ==
    /\ req[r].at = "auth_session"
    /\ req[r].session \notin revoked
    /\ Goto(r, [req[r] EXCEPT !.at = "admitted"])
    /\ UNCHANGED <<rowVars, locks>>

-----------------------------------------------------------------------------
(* logout and revoke_device, for a request that require_auth admitted *)

\* UPDATE devices SET revoked_at: seen by others when the transaction commits.
RevokeDeviceMark(r, d) ==
    /\ req[r].at = "admitted"
    /\ d # deviceOf[req[r].session]
    /\ devSt[d] = "active"
    /\ Lock(r, {d})
    /\ Goto(r, [req[r] EXCEPT !.at = "revoke_scan", !.device = d])
    /\ UNCHANGED rowVars

LogoutDeviceMark(r) ==
    LET d == deviceOf[req[r].session]
    IN  /\ req[r].at = "admitted"
        /\ Lock(r, {d})
        /\ Goto(r, [req[r] EXCEPT !.at = "logout_scan", !.device = d])
        /\ UNCHANGED rowVars

\* UPDATE sessions ... WHERE device_id = $1: the rows its snapshot has.  revoke_device skips
\* the ones already revoked.
RevokeScan(r) ==
    LET rows == {s \in Session : /\ deviceOf[s] = req[r].device
                                 /\ req[r].at = "revoke_scan" => s \notin revoked}
    IN  /\ req[r].at \in {"revoke_scan", "logout_scan"}
        /\ Goto(r, [req[r] EXCEPT !.at = "revoke_commit", !.rows = rows])
        /\ UNCHANGED <<rowVars, locks>>

\* ... it waits for each of them in turn, then the transaction commits.
RevokeCommit(r) ==
    /\ req[r].at = "revoke_commit"
    /\ Available(r, req[r].rows)
    /\ devSt' = [devSt EXCEPT ![req[r].device] = "revoked"]
    /\ revoked' = revoked \cup req[r].rows
    /\ Finish(r)
    /\ UNCHANGED <<deviceOf, rotatedTo, root>>

\* Two statements, each its own transaction: the session of the access token ...
LogoutSession(r) ==
    LET s == req[r].session
    IN  /\ req[r].at = "admitted"
        /\ Available(r, {s})
        /\ revoked' = revoked \cup {s}
        /\ \/ Finish(r)
           \/ /\ \E t \in Session : /\ Exists(t)
                                    /\ Goto(r, [req[r] EXCEPT !.at = "logout_token", !.next = t])
              /\ UNCHANGED locks
        /\ UNCHANGED <<devSt, deviceOf, rotatedTo, root>>

\* ... and that of the refresh token, when one is sent.
LogoutToken(r) ==
    /\ req[r].at = "logout_token"
    /\ Available(r, {req[r].next})
    /\ revoked' = revoked \cup {req[r].next}
    /\ Finish(r)
    /\ UNCHANGED <<devSt, deviceOf, rotatedTo, root>>

\* A request ends: any other handler, a refusal, a lost connection or a crash of the server.
End(r) ==
    /\ ~ Idle(r)
    /\ Finish(r)
    /\ UNCHANGED rowVars

-----------------------------------------------------------------------------
\* What a request does once it is past login, or without one.
SessionStep(r) ==
    \/ \E t \in Session : RefreshLock(r, t)
    \/ \E s \in Session : RefreshRotate(r, s)
    \/ RefreshReuse(r)
    \/ \E s \in Session : AuthDevice(r, s)
    \/ AuthSession(r)
    \/ \E d \in Device : RevokeDeviceMark(r, d)
    \/ LogoutDeviceMark(r)
    \/ RevokeScan(r)
    \/ RevokeCommit(r)
    \/ LogoutSession(r)
    \/ LogoutToken(r)

Next ==
    \E r \in Req :
        \/ \E d \in Device \cup {Null} : LoginCheck(r, d)
        \/ \E d \in Device, s \in Session : LoginCommit(r, d, s)
        \/ SessionStep(r)
        \/ End(r)

Spec == Init /\ [][Next]_vars

-----------------------------------------------------------------------------
(* Properties *)

\* Every row, lock and request is well formed.
TypeOK ==
    /\ devSt \in [Device -> {"none", "active", "revoked"}]
    /\ deviceOf \in [Session -> Device \cup {Null}]
    /\ revoked \subseteq Session
    /\ rotatedTo \in [Session -> Session \cup {Null}]
    /\ root \in [Session -> Session \cup {Null}]
    /\ locks \in [Device \cup Session -> Req \cup {Null}]
    /\ req \in [Req -> Request]

\* refresh rotates, it never forks: however many requests race with the same or with older
\* tokens, a login has at most one session whose token can still be exchanged.
OneUsableToken ==
    \A s, t \in Session : Usable(s) /\ Usable(t) /\ root[s] = root[t] => s = t

\* A revocation that has committed is never outrun by a refresh that started before it: a
\* session is rotated at most once, and never after it was revoked.
RotateOnce ==
    [][\A s \in Session : rotatedTo'[s] # rotatedTo[s] =>
          rotatedTo[s] = Null /\ s \notin revoked]_vars

\* Requests that act, or are about to act, for a device.
ActsFor(r, d) == req[r].at \in AuthPoints /\ deviceOf[req[r].session] = d

\* Once a device is revoked and its last request has ended, no request ever acts for it again,
\* although a session of it may have escaped the revocation and still be refreshed.
RevocationSilences ==
    [][\A d \in Device :
          devSt[d] = "revoked" /\ (\A r \in Req : ~ ActsFor(r, d)) =>
          (devSt[d] = "revoked" /\ (\A r \in Req : ~ ActsFor(r, d)))']_vars

\* "Revoke the entire chain": reuse of a rotated token revokes every session of its login.
ReuseRevokesChain ==
    [][\A r \in Req : RefreshReuse(r) =>
          \A t \in Session : root[t] = root[req[r].session] => t \in revoked']_vars

-----------------------------------------------------------------------------
(* The inductive strengthening of OneUsableToken *)

\* Rows of sessions: a session that exists has a root, and both its root and its successor exist.
ChainInv ==
    /\ \A s \in Session : Exists(s) <=> root[s] # Null
    /\ \A s \in Session : root[s] # Null => Exists(root[s])
    /\ \A s \in Session : rotatedTo[s] # Null => Exists(s) /\ Exists(rotatedTo[s])

\* Each login has one session that was not rotated, revoked or not.
LeafInv ==
    \A s, t \in Session :
        /\ Exists(s) /\ rotatedTo[s] = Null
        /\ Exists(t) /\ rotatedTo[t] = Null
        /\ root[s] = root[t]
        => s = t

\* What a refresh read under FOR UPDATE still holds at its commit.
RefreshHolds(r) ==
    req[r].at = "refresh" =>
        /\ req[r].session \in Session /\ Exists(req[r].session)
        /\ locks[req[r].session] = r
        /\ req[r].session \notin revoked
        /\ req[r].next = rotatedTo[req[r].session]

\* Requests act for sessions that exist, log in to and revoke devices that exist.
ActorHolds(r) ==
    /\ req[r].at \in AuthPoints => req[r].session \in Session /\ Exists(req[r].session)
    /\ req[r].at = "logout_token" => req[r].next \in Session
    /\ req[r].device \in Device => devSt[req[r].device] # "none"

RequestInv == \A r \in Req : RefreshHolds(r) /\ ActorHolds(r)

\* Sessions belong to devices that were inserted.
DeviceInv == \A s \in Session : Exists(s) => devSt[deviceOf[s]] # "none"

\* Checked by TLC as an invariant and proved inductive in AccountsProofs.
SessionsInv == ChainInv /\ LeafInv /\ RequestInv /\ DeviceInv
=============================================================================
