--------------------------- MODULE AccountsProofs ---------------------------
(***************************************************************************)
(* Proofs about Sessions and about Accounts, which extends it, for every   *)
(* number of devices, sessions, requests, tokens and keys.                 *)
(***************************************************************************)
EXTENDS Accounts, FiniteSetTheorems, TLAPS

-----------------------------------------------------------------------------
(* Sessions *)

\* The idle request is a request.
LEMMA IdleReqType == IdleReq \in Request
  BY DEF IdleReq, Request, AuthPoints

\* A request that has ended relies on nothing, and the others keep their locks.
LEMMA FinishHolds ==
  ASSUME TypeOK, NEW r \in Req, Finish(r)
  PROVE  /\ \A s \in Req \ {r} : req'[s] = req[s]
         /\ \A s \in Req \ {r} : \A x \in Device \cup Session : locks[x] = s => locks'[x] = s
         /\ RefreshHolds(r)' /\ ActorHolds(r)'
         /\ req' \in [Req -> Request] /\ locks' \in [Device \cup Session -> Req \cup {Null}]
  BY SessionsAssumption, IdleReqType
     DEF TypeOK, Finish, Goto, IdleReq, RefreshHolds, ActorHolds, AuthPoints

\* Rows may be added, rotated and revoked by r as long as nobody else has locked them.
LEMMA OthersKeep ==
  ASSUME TypeOK, RequestInv, NEW r \in Req,
         \A s \in Req \ {r} : req'[s] = req[s],
         \A s \in Req \ {r} : \A x \in Device \cup Session : locks[x] = s => locks'[x] = s,
         \A t \in Session : Exists(t) => deviceOf'[t] = deviceOf[t],
         \A t \in Session : locks[t] \in {Null, r}
                            \/ (rotatedTo'[t] = rotatedTo[t] /\ (t \in revoked' => t \in revoked)),
         \A d \in Device : devSt[d] # "none" => devSt'[d] # "none",
         RefreshHolds(r)', ActorHolds(r)'
  PROVE  RequestInv'
<1> SUFFICES ASSUME NEW s \in Req \ {r} PROVE RefreshHolds(s)' /\ ActorHolds(s)'
  BY DEF RequestInv
<1>1. RefreshHolds(s) /\ ActorHolds(s) /\ req'[s] = req[s] /\ s # Null
  BY SessionsAssumption DEF RequestInv
<1>2. RefreshHolds(s)'
  BY <1>1 DEF TypeOK, RefreshHolds, Exists
<1>3. ActorHolds(s)'
  BY <1>1 DEF TypeOK, ActorHolds, Exists
<1> QED
  BY <1>2, <1>3

\* A step of request r that writes no row.
LEMMA ReadStep ==
  ASSUME TypeOK, SessionsInv, NEW r \in Req, NEW q \in Request,
         UNCHANGED rowVars, Goto(r, q),
         locks' \in [Device \cup Session -> Req \cup {Null}],
         \A s \in Req \ {r} : \A x \in Device \cup Session : locks[x] = s => locks'[x] = s,
         RefreshHolds(r)', ActorHolds(r)'
  PROVE  TypeOK' /\ SessionsInv'
<1>1. TypeOK'
  BY DEF TypeOK, rowVars, Goto
<1>2. \A s \in Req \ {r} : req'[s] = req[s]
  BY DEF TypeOK, Goto
<1>3. RequestInv'
  BY <1>2, OthersKeep DEF rowVars, SessionsInv
<1>4. ChainInv' /\ LeafInv' /\ DeviceInv'
  BY DEF SessionsInv, rowVars, ChainInv, LeafInv, DeviceInv, Exists
<1> QED
  BY <1>1, <1>3, <1>4 DEF SessionsInv

\* Taking a free lock, or one's own, takes no other request's lock.
LEMMA LockKeeps ==
  ASSUME TypeOK, NEW r \in Req, NEW x \in Device \cup Session, Lock(r, {x})
  PROVE  /\ locks' \in [Device \cup Session -> Req \cup {Null}]
         /\ \A s \in Req \ {r} : \A y \in Device \cup Session : locks[y] = s => locks'[y] = s
         /\ locks'[x] = r
  BY SessionsAssumption DEF TypeOK, Lock, Available

\* The steps that only read, and the ones that only lock.
LEMMA ReadSteps ==
  ASSUME TypeOK, SessionsInv, NEW r \in Req,
         \/ \E d \in Device \cup {Null} : LoginCheck(r, d)
         \/ \E t \in Session : RefreshLock(r, t)
         \/ \E s \in Session : AuthDevice(r, s)
         \/ AuthSession(r)
         \/ \E d \in Device : RevokeDeviceMark(r, d)
         \/ LogoutDeviceMark(r)
         \/ RevokeScan(r)
         \/ End(r)
  PROVE  TypeOK' /\ SessionsInv'
<1> DEFINE Keeps == /\ locks' \in [Device \cup Session -> Req \cup {Null}]
                    /\ \A s \in Req \ {r} : \A y \in Device \cup Session :
                          locks[y] = s => locks'[y] = s
<1>0. /\ RefreshHolds(r) /\ ActorHolds(r) /\ ChainInv /\ DeviceInv
      /\ req[r] \in Request
  BY DEF TypeOK, SessionsInv, RequestInv
<1>u. ASSUME UNCHANGED locks PROVE Keeps
  BY <1>u DEF TypeOK
<1>1. ASSUME NEW d \in Device \cup {Null}, LoginCheck(r, d) PROVE TypeOK' /\ SessionsInv'
  <2> DEFINE q == [IdleReq EXCEPT !.at = "login", !.device = d]
  <2>1. q \in Request /\ Goto(r, q) /\ UNCHANGED rowVars /\ Keeps
    BY <1>1, <1>u DEF LoginCheck, IdleReq, Request
  <2>2. req'[r].at = "login" /\ req'[r].device = d
    BY <2>1 DEF TypeOK, Goto, IdleReq
  <2>3. RefreshHolds(r)' /\ ActorHolds(r)'
    BY <1>1, <2>2, SessionsAssumption DEF LoginCheck, rowVars, RefreshHolds, ActorHolds, AuthPoints
  <2> QED
    BY <2>1, <2>3, ReadStep
<1>2. ASSUME NEW t \in Session, RefreshLock(r, t) PROVE TypeOK' /\ SessionsInv'
  <2> DEFINE q == [IdleReq EXCEPT !.at = "refresh", !.session = t, !.next = rotatedTo[t]]
  <2>1. q \in Request /\ Goto(r, q) /\ UNCHANGED rowVars
    BY <1>2 DEF TypeOK, RefreshLock, IdleReq, Request
  <2>2. Keeps /\ locks'[t] = r
    BY <1>2, LockKeeps DEF RefreshLock
  <2>3. /\ req'[r].at = "refresh" /\ req'[r].session = t /\ req'[r].next = rotatedTo[t]
        /\ req'[r].device = Null
    BY <2>1 DEF TypeOK, Goto, IdleReq
  <2>4. RefreshHolds(r)' /\ ActorHolds(r)'
    BY <1>2, <2>1, <2>2, <2>3, SessionsAssumption
       DEF RefreshLock, rowVars, RefreshHolds, ActorHolds, AuthPoints, Exists
  <2> QED
    BY <2>1, <2>2, <2>4, ReadStep
<1>3. ASSUME NEW s \in Session, AuthDevice(r, s) PROVE TypeOK' /\ SessionsInv'
  <2> DEFINE q == [IdleReq EXCEPT !.at = "auth_session", !.session = s]
  <2>1. q \in Request /\ Goto(r, q) /\ UNCHANGED rowVars /\ Keeps
    BY <1>3, <1>u DEF AuthDevice, IdleReq, Request, AuthPoints
  <2>2. req'[r].at = "auth_session" /\ req'[r].session = s /\ req'[r].device = Null
    BY <2>1 DEF TypeOK, Goto, IdleReq
  <2>3. RefreshHolds(r)' /\ ActorHolds(r)'
    BY <1>3, <2>1, <2>2, SessionsAssumption DEF AuthDevice, rowVars, RefreshHolds, ActorHolds, Exists
  <2> QED
    BY <2>1, <2>3, ReadStep
<1>4. CASE AuthSession(r)
  <2> DEFINE q == [req[r] EXCEPT !.at = "admitted"]
  <2>1. q \in Request /\ Goto(r, q) /\ UNCHANGED rowVars /\ Keeps
    BY <1>0, <1>4, <1>u DEF AuthSession, Request, AuthPoints
  <2>2. /\ req'[r].at = "admitted" /\ req'[r].session = req[r].session
        /\ req'[r].device = req[r].device
    BY <1>0, <2>1 DEF TypeOK, Goto, Request
  <2>3. RefreshHolds(r)' /\ ActorHolds(r)'
    BY <1>0, <1>4, <2>1, <2>2 DEF AuthSession, rowVars, RefreshHolds, ActorHolds, AuthPoints, Exists
  <2> QED
    BY <2>1, <2>3, ReadStep
<1>5. ASSUME NEW d \in Device, RevokeDeviceMark(r, d) PROVE TypeOK' /\ SessionsInv'
  <2> DEFINE q == [req[r] EXCEPT !.at = "revoke_scan", !.device = d]
  <2>1. q \in Request /\ Goto(r, q) /\ UNCHANGED rowVars
    BY <1>0, <1>5 DEF RevokeDeviceMark, Request, AuthPoints
  <2>2. Keeps
    BY <1>5, LockKeeps DEF RevokeDeviceMark
  <2>3. /\ req'[r].at = "revoke_scan" /\ req'[r].session = req[r].session
        /\ req'[r].device = d
    BY <1>0, <2>1 DEF TypeOK, Goto, Request
  <2>4. RefreshHolds(r)' /\ ActorHolds(r)'
    BY <1>0, <1>5, <2>1, <2>3
       DEF RevokeDeviceMark, rowVars, RefreshHolds, ActorHolds, AuthPoints, Exists
  <2> QED
    BY <2>1, <2>2, <2>4, ReadStep
<1>6. CASE LogoutDeviceMark(r)
  <2> DEFINE d == deviceOf[req[r].session]
             q == [req[r] EXCEPT !.at = "logout_scan", !.device = d]
  <2>0. req[r].session \in Session /\ d \in Device /\ devSt[d] # "none"
    BY <1>0, <1>6 DEF TypeOK, LogoutDeviceMark, ActorHolds, AuthPoints, Exists, DeviceInv
  <2>1. q \in Request /\ Goto(r, q) /\ UNCHANGED rowVars
    BY <1>0, <1>6, <2>0 DEF LogoutDeviceMark, Request, AuthPoints
  <2>2. Keeps
    <3>1. Lock(r, {d})
      BY <1>6 DEF LogoutDeviceMark
    <3> HIDE DEF d
    <3> QED
      BY <2>0, <3>1, LockKeeps
  <2>3. /\ req'[r].at = "logout_scan" /\ req'[r].session = req[r].session
        /\ req'[r].device = d
    BY <1>0, <2>1 DEF TypeOK, Goto, Request
  <2>4. RefreshHolds(r)' /\ ActorHolds(r)'
    BY <1>0, <1>6, <2>0, <2>1, <2>3
       DEF LogoutDeviceMark, rowVars, RefreshHolds, ActorHolds, AuthPoints, Exists
  <2> QED
    BY <2>1, <2>2, <2>4, ReadStep
<1>7. CASE RevokeScan(r)
  <2> DEFINE rows == {s \in Session : /\ deviceOf[s] = req[r].device
                                      /\ req[r].at = "revoke_scan" => s \notin revoked}
             q == [req[r] EXCEPT !.at = "revoke_commit", !.rows = rows]
  <2>1. q \in Request /\ Goto(r, q) /\ UNCHANGED rowVars /\ Keeps
    BY <1>0, <1>7, <1>u DEF RevokeScan, Request, AuthPoints
  <2>2. /\ req'[r].at = "revoke_commit" /\ req'[r].session = req[r].session
        /\ req'[r].device = req[r].device
    BY <1>0, <2>1 DEF TypeOK, Goto, Request
  <2>3. RefreshHolds(r)' /\ ActorHolds(r)'
    BY <1>0, <1>7, <2>1, <2>2 DEF RevokeScan, rowVars, RefreshHolds, ActorHolds, AuthPoints, Exists
  <2> QED
    BY <2>1, <2>3, ReadStep
<1>8. CASE End(r)
  BY <1>8, FinishHolds, IdleReqType, ReadStep DEF End, Finish
<1> QED
  BY <1>1, <1>2, <1>3, <1>4, <1>5, <1>6, <1>7, <1>8

\* UPDATEs that revoke sessions nobody else has locked, and perhaps a device.
LEMMA RevokeStep ==
  ASSUME TypeOK, SessionsInv, NEW r \in Req, NEW rows \in SUBSET Session,
         Available(r, rows), revoked' = revoked \cup rows,
         UNCHANGED <<deviceOf, rotatedTo, root>>,
         devSt' \in [Device -> {"none", "active", "revoked"}],
         \A d \in Device : devSt[d] # "none" => devSt'[d] # "none",
         req' \in [Req -> Request], locks' \in [Device \cup Session -> Req \cup {Null}],
         \A s \in Req \ {r} : req'[s] = req[s],
         \A s \in Req \ {r} : \A x \in Device \cup Session : locks[x] = s => locks'[x] = s,
         RefreshHolds(r)', ActorHolds(r)'
  PROVE  TypeOK' /\ SessionsInv'
<1>1. TypeOK'
  BY DEF TypeOK
<1>2. \A t \in Session : locks[t] \in {Null, r}
                         \/ (rotatedTo'[t] = rotatedTo[t] /\ (t \in revoked' => t \in revoked))
  BY DEF Available
<1>3. RequestInv'
  BY <1>2, OthersKeep DEF SessionsInv
<1>4. ChainInv' /\ LeafInv' /\ DeviceInv'
  BY DEF TypeOK, SessionsInv, ChainInv, LeafInv, DeviceInv, Exists
<1> QED
  BY <1>1, <1>3, <1>4 DEF SessionsInv

\* Reuse detection, logout and device revocation.
LEMMA RevokeSteps ==
  ASSUME TypeOK, SessionsInv, NEW r \in Req,
         RefreshReuse(r) \/ RevokeCommit(r) \/ LogoutSession(r) \/ LogoutToken(r)
  PROVE  TypeOK' /\ SessionsInv'
<1>0. /\ RefreshHolds(r) /\ ActorHolds(r) /\ ChainInv /\ DeviceInv
      /\ req[r] \in Request
      /\ devSt \in [Device -> {"none", "active", "revoked"}]
  BY DEF TypeOK, SessionsInv, RequestInv
<1>1. CASE RefreshReuse(r)
  <2>1. {req[r].session, req[r].next} \in SUBSET Session
    BY <1>0, <1>1 DEF TypeOK, RefreshReuse, RefreshHolds
  <2> QED
    BY <1>0, <1>1, <2>1, FinishHolds, RevokeStep DEF RefreshReuse
<1>2. CASE RevokeCommit(r)
  <2>1. /\ devSt' \in [Device -> {"none", "active", "revoked"}]
        /\ \A d \in Device : devSt[d] # "none" => devSt'[d] # "none"
        /\ req[r].rows \in SUBSET Session
    BY <1>0, <1>2 DEF RevokeCommit, Request
  <2> QED
    BY <1>2, <2>1, FinishHolds, RevokeStep DEF RevokeCommit
<1>3. CASE LogoutSession(r)
  <2>1. /\ req[r].session \in Session /\ Exists(req[r].session)
        /\ {req[r].session} \in SUBSET Session
    BY <1>0, <1>3 DEF LogoutSession, ActorHolds, AuthPoints
  <2>2. CASE Finish(r)
    BY <1>0, <1>3, <2>1, <2>2, FinishHolds, RevokeStep DEF LogoutSession
  <2>3. ASSUME NEW t \in Session, UNCHANGED locks,
               Goto(r, [req[r] EXCEPT !.at = "logout_token", !.next = t])
        PROVE  TypeOK' /\ SessionsInv'
    <3>1. /\ req' \in [Req -> Request]
          /\ req'[r].at = "logout_token" /\ req'[r].session = req[r].session
          /\ req'[r].next = t /\ req'[r].device = req[r].device
          /\ \A s \in Req \ {r} : req'[s] = req[s]
      BY <1>0, <2>3 DEF TypeOK, Goto, Request, AuthPoints
    <3>2. RefreshHolds(r)' /\ ActorHolds(r)'
      BY <1>0, <1>3, <2>1, <3>1 DEF LogoutSession, RefreshHolds, ActorHolds, Exists
    <3>3. locks' \in [Device \cup Session -> Req \cup {Null}]
      BY <2>3 DEF TypeOK
    <3> QED
      BY <1>0, <1>3, <2>1, <2>3, <3>1, <3>2, <3>3, RevokeStep DEF LogoutSession
  <2> QED
    BY <1>3, <2>2, <2>3 DEF LogoutSession
<1>4. CASE LogoutToken(r)
  <2>1. {req[r].next} \in SUBSET Session
    BY <1>0, <1>4 DEF LogoutToken, ActorHolds
  <2> QED
    BY <1>0, <1>4, <2>1, FinishHolds, RevokeStep DEF LogoutToken
<1> QED
  BY <1>1, <1>2, <1>3, <1>4

\* A login starts a chain of its own.
LEMMA LoginStep ==
  ASSUME TypeOK, SessionsInv, NEW r \in Req, NEW d \in Device, NEW s \in Session,
         LoginCommit(r, d, s)
  PROVE  TypeOK' /\ SessionsInv'
<1> USE DEF TypeOK
<1>0. ActorHolds(r) /\ ChainInv /\ LeafInv /\ RequestInv /\ DeviceInv
  BY DEF SessionsInv, RequestInv
<1>1. /\ ~ Exists(s) /\ root[s] = Null /\ rotatedTo[s] = Null /\ rotatedTo' = rotatedTo
      /\ \A t \in Session : rotatedTo[t] # s
      /\ \A t \in Session : deviceOf'[t] = IF t = s THEN d ELSE deviceOf[t]
      /\ \A t \in Session : root'[t] = IF t = s THEN s ELSE root[t]
      /\ revoked' = revoked /\ Finish(r)
  BY <1>0, SessionsAssumption DEF LoginCommit, ChainInv
<1>2. /\ devSt' \in [Device -> {"none", "active", "revoked"}]
      /\ devSt'[d] # "none"
      /\ \A e \in Device : devSt[e] # "none" => devSt'[e] # "none"
  BY DEF LoginCommit
<1>3. TypeOK'
  <2>1. deviceOf' \in [Session -> Device \cup {Null}] /\ root' \in [Session -> Session \cup {Null}]
    BY DEF LoginCommit
  <2> QED
    BY <1>1, <1>2, <2>1, FinishHolds
<1>4. RequestInv'
  BY <1>0, <1>1, <1>2, FinishHolds, OthersKeep DEF Exists
<1>5. ChainInv'
  BY <1>0, <1>1, SessionsAssumption DEF ChainInv, Exists
<1>6. \A t \in Session : root[t] # s
  BY <1>0, <1>1, SessionsAssumption DEF ChainInv
<1>7. LeafInv'
  BY <1>0, <1>1, <1>6 DEF LeafInv, Exists
<1>8. DeviceInv'
  BY <1>0, <1>1, <1>2 DEF DeviceInv, Exists
<1> QED
  BY <1>3, <1>4, <1>5, <1>7, <1>8 DEF SessionsInv

\* A rotation moves the one unrotated session of a login to its successor.
LEMMA RotateStep ==
  ASSUME TypeOK, SessionsInv, NEW r \in Req, NEW s \in Session, RefreshRotate(r, s)
  PROVE  /\ TypeOK' /\ SessionsInv'
         /\ \A u \in Session : rotatedTo'[u] # rotatedTo[u] => rotatedTo[u] = Null /\ u \notin revoked
<1> USE DEF TypeOK
<1> DEFINE t == req[r].session
<1>0. RefreshHolds(r) /\ ChainInv /\ LeafInv /\ RequestInv /\ DeviceInv
  BY DEF SessionsInv, RequestInv
<1>1. /\ t \in Session /\ Exists(t) /\ locks[t] = r /\ t \notin revoked /\ rotatedTo[t] = Null
      /\ ~ Exists(s) /\ s # t
  BY <1>0 DEF RefreshRotate, RefreshHolds
<1>2. /\ \A u \in Session : deviceOf'[u] = IF u = s THEN deviceOf[t] ELSE deviceOf[u]
      /\ \A u \in Session : root'[u] = IF u = s THEN root[t] ELSE root[u]
      /\ \A u \in Session : rotatedTo'[u] = IF u = t THEN s ELSE rotatedTo[u]
      /\ revoked' = revoked /\ devSt' = devSt /\ Finish(r)
  BY <1>1 DEF RefreshRotate
<1>3. rotatedTo[s] = Null /\ root[s] = Null /\ \A u \in Session : rotatedTo[u] # s /\ root[u] # s
  BY <1>0, <1>1, SessionsAssumption DEF ChainInv
<1>4. TypeOK'
  <2>1. /\ deviceOf' \in [Session -> Device \cup {Null}] /\ root' \in [Session -> Session \cup {Null}]
        /\ rotatedTo' \in [Session -> Session \cup {Null}]
    BY <1>1 DEF RefreshRotate
  <2> QED
    BY <1>2, <2>1, FinishHolds
<1>5. RequestInv'
  <2>1. \A u \in Session : Exists(u) => deviceOf'[u] = deviceOf[u]
    BY <1>1, <1>2
  <2>2. \A u \in Session : locks[u] \in {Null, r}
                           \/ (rotatedTo'[u] = rotatedTo[u] /\ (u \in revoked' => u \in revoked))
    BY <1>1, <1>2
  <2> QED
    BY <1>0, <1>2, <2>1, <2>2, FinishHolds, OthersKeep
<1>6. ChainInv'
  BY <1>0, <1>1, <1>2, <1>3, SessionsAssumption DEF ChainInv, Exists
<1>7. LeafInv'
  <2> SUFFICES ASSUME NEW u \in Session, NEW w \in Session,
                      Exists(u)', rotatedTo'[u] = Null, Exists(w)', rotatedTo'[w] = Null,
                      root'[u] = root'[w]
               PROVE  u = w
    BY DEF LeafInv
  <2>1. u # t /\ w # t
    BY <1>1, <1>2, SessionsAssumption
  <2>2. \A x \in Session \ {s, t} : Exists(x)' /\ rotatedTo'[x] = Null => root'[x] # root[t]
    BY <1>0, <1>1, <1>2 DEF LeafInv, Exists
  <2>3. CASE u # s /\ w # s
    BY <1>0, <1>2, <2>1, <2>3 DEF LeafInv, Exists
  <2>4. CASE u = s \/ w = s
    BY <1>2, <2>1, <2>2, <2>4
  <2> QED
    BY <2>3, <2>4
<1>8. DeviceInv'
  BY <1>0, <1>1, <1>2 DEF DeviceInv, Exists
<1>9. \A u \in Session : rotatedTo'[u] # rotatedTo[u] => rotatedTo[u] = Null /\ u \notin revoked
  BY <1>1, <1>2
<1> QED
  BY <1>4, <1>5, <1>6, <1>7, <1>8, <1>9 DEF SessionsInv

\* TypeOK and SessionsInv together are inductive.
THEOREM SessionsInvCorrect == Spec => [](TypeOK /\ SessionsInv)
<1>1. Init => TypeOK /\ SessionsInv
  BY IdleReqType, SessionsAssumption
     DEF Init, TypeOK, SessionsInv, ChainInv, LeafInv, RequestInv, RefreshHolds, ActorHolds,
         DeviceInv, Exists, IdleReq, AuthPoints
<1>2. TypeOK /\ SessionsInv /\ [Next]_vars => (TypeOK /\ SessionsInv)'
  <2> SUFFICES ASSUME TypeOK, SessionsInv, [Next]_vars PROVE TypeOK' /\ SessionsInv'
    OBVIOUS
  <2>1. CASE Next
    BY <2>1, ReadSteps, RevokeSteps, LoginStep, RotateStep DEF Next, SessionStep
  <2>2. CASE UNCHANGED vars
    <3>1. TypeOK'
      BY <2>2 DEF vars, rowVars, TypeOK
    <3>2. ChainInv' /\ LeafInv' /\ DeviceInv'
      BY <2>2 DEF vars, rowVars, SessionsInv, ChainInv, LeafInv, DeviceInv, Exists
    <3>3. RequestInv'
      BY <2>2 DEF vars, rowVars, SessionsInv, RequestInv, RefreshHolds, ActorHolds, Exists
    <3> QED
      BY <3>1, <3>2, <3>3 DEF SessionsInv
  <2> QED
    BY <2>1, <2>2
<1> QED
  BY <1>1, <1>2, PTL DEF Spec

\* However many refreshes race, a login never has two tokens that can be exchanged.
THEOREM RotationNeverForks == Spec => []OneUsableToken
<1>1. SessionsInv => OneUsableToken
  BY DEF SessionsInv, LeafInv, OneUsableToken, Usable
<1> QED
  BY <1>1, SessionsInvCorrect, PTL

\* Every row, lock and request of the session machinery stays well formed.
THEOREM SessionsTypeCorrect == Spec => []TypeOK
  BY SessionsInvCorrect, PTL

\* A session is rotated at most once, and never after a logout or a revocation committed.
THEOREM RotationRespectsRevocation == Spec => RotateOnce
<1> DEFINE A == \A s \in Session : rotatedTo'[s] # rotatedTo[s] =>
                    rotatedTo[s] = Null /\ s \notin revoked
<1>1. TypeOK /\ SessionsInv /\ [Next]_vars => [A]_vars
  <2> SUFFICES ASSUME TypeOK, SessionsInv, Next PROVE A
    OBVIOUS
  <2>1. ASSUME NEW r \in Req, NEW s \in Session, RefreshRotate(r, s) PROVE A
    BY <2>1, RotateStep
  <2>2. CASE UNCHANGED rotatedTo
    BY <2>2
  <2> QED
    BY <2>1, <2>2 DEF Next, SessionStep, LoginCheck, LoginCommit, RefreshLock, RefreshReuse, AuthDevice,
       AuthSession, RevokeDeviceMark, LogoutDeviceMark, RevokeScan, RevokeCommit, LogoutSession,
       LogoutToken, End, rowVars
<1> QED
  BY <1>1, SessionsInvCorrect, PTL DEF Spec, RotateOnce

\* A revoked device stays revoked, and a request keeps acting for the device it acts for.
LEMMA ActorsStep ==
  ASSUME TypeOK, SessionsInv, NEW r \in Req, NEW d \in Device, devSt[d] = "revoked",
         \A s \in Req \ {r} : req'[s] = req[s],
         \A t \in Session : Exists(t) => deviceOf'[t] = deviceOf[t],
         devSt'[d] = "revoked",
         \A s \in Req : ~ ActsFor(s, d),
         req'[r].at \in AuthPoints =>
            \/ req[r].at \in AuthPoints /\ req'[r].session = req[r].session
            \/ /\ req'[r].session \in Session /\ Exists(req'[r].session)
               /\ deviceOf[req'[r].session] # d
  PROVE  (devSt[d] = "revoked" /\ \A s \in Req : ~ ActsFor(s, d))'
<1>1. \A s \in Req : req[s].at \in AuthPoints => req[s].session \in Session /\ Exists(req[s].session)
  BY DEF SessionsInv, RequestInv, ActorHolds
<1>2. ASSUME NEW s \in Req PROVE ~ ActsFor(s, d)'
  <2>1. CASE s = r
    BY <1>1, <2>1 DEF ActsFor
  <2>2. CASE s # r
    BY <1>1, <2>2 DEF ActsFor
  <2> QED
    BY <2>1, <2>2
<1> QED
  BY <1>2

\* Once a revoked device has no request in flight, require_auth admits none for it ever again.
THEOREM RevocationIsFinal == Spec => RevocationSilences
<1> DEFINE Silent(d) == devSt[d] = "revoked" /\ (\A r \in Req : ~ ActsFor(r, d))
<1>1. TypeOK /\ SessionsInv /\ [Next]_vars => [\A d \in Device : Silent(d) => Silent(d)']_vars
  <2> SUFFICES ASSUME TypeOK, SessionsInv, NEW r \in Req, NEW d \in Device, Silent(d),
                      \/ \E e \in Device \cup {Null} : LoginCheck(r, e)
                      \/ \E e \in Device, s \in Session : LoginCommit(r, e, s)
                      \/ \E t \in Session : RefreshLock(r, t)
                      \/ \E s \in Session : RefreshRotate(r, s)
                      \/ RefreshReuse(r)
                      \/ \E s \in Session : AuthDevice(r, s)
                      \/ AuthSession(r)
                      \/ \E e \in Device : RevokeDeviceMark(r, e)
                      \/ LogoutDeviceMark(r) \/ RevokeScan(r) \/ RevokeCommit(r)
                      \/ LogoutSession(r) \/ LogoutToken(r) \/ End(r)
               PROVE  Silent(d)'
    BY DEF Next, SessionStep
  <2> USE DEF TypeOK
  <2>0. req[r] \in Request
    OBVIOUS
  <2>1. ASSUME NEW e \in Device \cup {Null}, LoginCheck(r, e) PROVE Silent(d)'
    <3>1. /\ req'[r].at = "login" /\ \A o \in Req \ {r} : req'[o] = req[o]
          /\ UNCHANGED <<devSt, deviceOf>>
      BY <2>1 DEF LoginCheck, Goto, IdleReq, rowVars
    <3> QED
      BY <3>1, ActorsStep DEF AuthPoints
  <2>2. ASSUME NEW e \in Device, NEW s \in Session, LoginCommit(r, e, s) PROVE Silent(d)'
    <3>1. devSt'[d] = "revoked" /\ \A t \in Session : Exists(t) => deviceOf'[t] = deviceOf[t]
      BY <2>2 DEF LoginCommit
    <3>2. req'[r].at = "idle" /\ \A o \in Req \ {r} : req'[o] = req[o]
      BY <2>2 DEF LoginCommit, Finish, Goto, IdleReq
    <3> QED
      BY <3>1, <3>2, ActorsStep DEF AuthPoints
  <2>3. ASSUME NEW t \in Session, RefreshLock(r, t) PROVE Silent(d)'
    <3>1. /\ req'[r].at = "refresh" /\ \A o \in Req \ {r} : req'[o] = req[o]
          /\ UNCHANGED <<devSt, deviceOf>>
      BY <2>3 DEF RefreshLock, Goto, IdleReq, rowVars
    <3> QED
      BY <3>1, ActorsStep DEF AuthPoints
  <2>4. ASSUME NEW s \in Session, RefreshRotate(r, s) PROVE Silent(d)'
    <3>1. devSt'[d] = "revoked" /\ \A t \in Session : Exists(t) => deviceOf'[t] = deviceOf[t]
      BY <2>4 DEF RefreshRotate
    <3>2. (\A t \in Req \ {r} : req'[t] = req[t]) /\ req'[r].at \notin AuthPoints
      BY <2>4 DEF RefreshRotate, Finish, Goto, IdleReq, AuthPoints
    <3> QED
      BY <3>1, <3>2, ActorsStep
  <2>5. ASSUME NEW s \in Session, AuthDevice(r, s) PROVE Silent(d)'
    <3>1. /\ req'[r].session = s /\ Exists(s) /\ deviceOf[s] # d /\ UNCHANGED <<devSt, deviceOf>>
          /\ \A q \in Req \ {r} : req'[q] = req[q]
      BY <2>5 DEF AuthDevice, Goto, IdleReq, rowVars
    <3> QED
      BY <3>1, ActorsStep
  <2>6. CASE AuthSession(r) \/ RevokeScan(r) \/ LogoutDeviceMark(r)
    <3>1. /\ req[r].at \in AuthPoints /\ req'[r].session = req[r].session
          /\ UNCHANGED <<devSt, deviceOf>> /\ \A q \in Req \ {r} : req'[q] = req[q]
      <4>1. CASE AuthSession(r)
        BY <2>0, <4>1 DEF AuthSession, Goto, Request, AuthPoints, rowVars
      <4>2. CASE RevokeScan(r)
        BY <2>0, <4>2 DEF RevokeScan, Goto, Request, AuthPoints, rowVars
      <4>3. CASE LogoutDeviceMark(r)
        BY <2>0, <4>3 DEF LogoutDeviceMark, Goto, Request, AuthPoints, rowVars
      <4> QED
        BY <2>6, <4>1, <4>2, <4>3
    <3> QED
      BY <3>1, ActorsStep
  <2>7. ASSUME NEW e \in Device, RevokeDeviceMark(r, e) PROVE Silent(d)'
    <3>1. /\ req[r].at \in AuthPoints /\ req'[r].session = req[r].session
          /\ UNCHANGED <<devSt, deviceOf>> /\ \A q \in Req \ {r} : req'[q] = req[q]
      BY <2>0, <2>7 DEF RevokeDeviceMark, Goto, Request, AuthPoints, rowVars
    <3> QED
      BY <3>1, ActorsStep
  <2>8. CASE RefreshReuse(r) \/ RevokeCommit(r) \/ LogoutToken(r) \/ End(r)
    <3>1. Finish(r) /\ deviceOf' = deviceOf /\ devSt'[d] = "revoked"
      BY <2>8 DEF RefreshReuse, RevokeCommit, LogoutToken, End, rowVars
    <3> QED
      BY <3>1, ActorsStep DEF Finish, Goto, IdleReq, AuthPoints
  <2>9. CASE LogoutSession(r)
    <3>1. CASE Finish(r)
      BY <2>9, <3>1, ActorsStep DEF LogoutSession, Finish, Goto, IdleReq, AuthPoints
    <3>2. ASSUME NEW t \in Session, Goto(r, [req[r] EXCEPT !.at = "logout_token", !.next = t])
          PROVE  Silent(d)'
      <4>1. req'[r].session = req[r].session /\ \A q \in Req \ {r} : req'[q] = req[q]
        BY <2>0, <3>2 DEF Goto, Request
      <4> QED
        BY <2>9, <4>1, ActorsStep DEF LogoutSession, AuthPoints
    <3> QED
      BY <2>9, <3>1, <3>2 DEF LogoutSession
  <2> QED
    BY <2>1, <2>2, <2>3, <2>4, <2>5, <2>6, <2>7, <2>8, <2>9
<1> QED
  BY <1>1, SessionsInvCorrect, PTL DEF Spec, RevocationSilences

-----------------------------------------------------------------------------
(* Accounts *)

\* Every step of the accounts is, on devices and sessions, a step of Sessions or none at all.
LEMMA StepRefines ==
  ASSUME [AccountsNext]_allVars
  PROVE  [Next]_vars
<1>1. ASSUME NEW t \in Token, SignupInit(t) \/ SignupExpired(t) PROVE [Next]_vars
  BY <1>1 DEF SignupInit, SignupExpired
<1>2. CASE Restart
  BY <1>2 DEF Restart
<1>3. ASSUME NEW r \in Req, NEW t \in Token, SignupGet(r, t) PROVE Next
  BY <1>3 DEF SignupGet, Next
<1>4. ASSUME NEW r \in Req, SignupRemove(r) PROVE [Next]_vars
  BY <1>4 DEF SignupRemove
<1>5. ASSUME NEW r \in Req, NEW d \in Device, NEW s \in Session, NEW k, SignupInsert(r, d, s, k)
      PROVE  Next
  BY <1>5 DEF SignupInsert, Next
<1>6. ASSUME NEW r \in Req, NEW d \in Device \cup {Null}, NEW k, LoginKey(r, d, k) PROVE Next
  BY <1>6 DEF LoginKey, Next
<1>7. ASSUME NEW r \in Req, NEW d \in Device, NEW s \in Session, LoginOpen(r, d, s) PROVE Next
  BY <1>7 DEF LoginOpen, Next
<1>8. ASSUME NEW r \in Req, NEW k, ChangePassword(r, k) \/ EndRequest(r) PROVE Next
  BY <1>8 DEF ChangePassword, EndRequest, Next
<1>9. ASSUME NEW r \in Req, SessionStep(r) PROVE Next
  BY <1>9 DEF Next
<1>10. CASE UNCHANGED allVars
  BY <1>10 DEF allVars
<1> QED
  BY <1>1, <1>2, <1>3, <1>4, <1>5, <1>6, <1>7, <1>8, <1>9, <1>10 DEF AccountsNext, AccountStep

\* To its devices and sessions a signup is a login with a new device, and a change of password
\* is nothing: the whole account machinery implements Sessions.
THEOREM AccountsImplementSessions == AccountsSpec => ImplementsSessions
<1>1. AccountsInit => Init
  BY DEF AccountsInit
<1> QED
  BY <1>1, StepRefines, PTL DEF AccountsSpec, ImplementsSessions, Spec

\* Signup and change_password included, rotation never forks a login's chain of sessions.
THEOREM AccountsNeverFork == AccountsSpec => []OneUsableToken
  BY AccountsImplementSessions, RotationNeverForks, PTL DEF ImplementsSessions

-----------------------------------------------------------------------------
\* The strengthening of SignupOnce: the account and its first session come together, and
\* whoever is logged in or logging in has an account.
AccountInv ==
    /\ founders = IF authKey = Null THEN 0 ELSE 1
    /\ \A s \in Session : Exists(s) => authKey # Null
    /\ cred \in [Req -> AuthKey \cup {Recovery, Null}]
    /\ \A r \in Req : cred[r] # Null => authKey # Null

\* A step that inserts no session and leaves the account alone.
LEMMA QuietAccountStep ==
  ASSUME AccountInv, UNCHANGED <<authKey, founders>>,
         \A s \in Session : Exists(s)' => Exists(s),
         cred' \in [Req -> AuthKey \cup {Recovery, Null}],
         \A r \in Req : cred'[r] # Null => cred[r] # Null \/ authKey # Null
  PROVE  AccountInv'
  BY DEF AccountInv

\* A step of a session inserts one only where one exists already.
LEMMA SessionStepKeeps ==
  ASSUME TypeOK, SessionsInv, AccountInv, NEW r \in Req, SessionStep(r), UNCHANGED accountVars
  PROVE  AccountInv'
<1>1. ASSUME NEW s \in Session, RefreshRotate(r, s) PROVE AccountInv'
  <2>1. req[r].session \in Session /\ Exists(req[r].session)
    BY <1>1 DEF SessionsInv, RequestInv, RefreshHolds, RefreshRotate
  <2> QED
    BY <2>1 DEF AccountInv, accountVars
<1>2. CASE UNCHANGED deviceOf
  BY <1>2, QuietAccountStep DEF AccountInv, accountVars, Exists
<1> QED
  BY <1>1, <1>2 DEF SessionStep, RefreshLock, RefreshReuse, AuthDevice, AuthSession,
     RevokeDeviceMark, LogoutDeviceMark, RevokeScan, RevokeCommit, LogoutSession, LogoutToken, rowVars

\* AccountInv is inductive, given what is proved of Sessions.
LEMMA AccountInvStep ==
  ASSUME TypeOK, SessionsInv, AccountInv, [AccountsNext]_allVars
  PROVE  AccountInv'
<1>1. ASSUME NEW t \in Token, SignupInit(t) \/ SignupExpired(t) PROVE AccountInv'
  BY <1>1, QuietAccountStep DEF SignupInit, SignupExpired, AccountInv, vars, rowVars, Exists
<1>2. CASE Restart
  BY <1>2, QuietAccountStep DEF Restart, AccountInv, vars, rowVars, Exists
<1>3. ASSUME NEW r \in Req, NEW t \in Token, SignupGet(r, t) PROVE AccountInv'
  BY <1>3, QuietAccountStep DEF SignupGet, LoginCheck, AccountInv, rowVars, Exists
<1>4. ASSUME NEW r \in Req, SignupRemove(r) PROVE AccountInv'
  BY <1>4, QuietAccountStep DEF SignupRemove, AccountInv, vars, rowVars, Exists
<1>5. ASSUME NEW r \in Req, NEW d \in Device, NEW s \in Session, NEW k \in AuthKey,
             SignupInsert(r, d, s, k)
      PROVE  AccountInv'
  <2>1. authKey = Null /\ authKey' = k /\ founders' = founders + 1 /\ cred' = cred
    BY <1>5 DEF SignupInsert
  <2>2. k # Null /\ founders = 0
    BY <2>1, AccountsAssumption DEF AccountInv
  <2> QED
    BY <2>1, <2>2 DEF AccountInv
<1>6. ASSUME NEW r \in Req, NEW d \in Device \cup {Null}, NEW k \in AuthKey \cup {Recovery},
             LoginKey(r, d, k)
      PROVE  AccountInv'
  BY <1>6, QuietAccountStep DEF LoginKey, LoginCheck, AccountInv, rowVars, Exists
<1>7. ASSUME NEW r \in Req, NEW d \in Device, NEW s \in Session, LoginOpen(r, d, s)
      PROVE  AccountInv'
  BY <1>7 DEF LoginOpen, AccountInv
<1>8. ASSUME NEW r \in Req, NEW k \in AuthKey, ChangePassword(r, k) PROVE AccountInv'
  <2>1. req[r].session \in Session /\ Exists(req[r].session)
    BY <1>8 DEF ChangePassword, SessionsInv, RequestInv, ActorHolds, AuthPoints
  <2>2. authKey' = k /\ k # Null /\ UNCHANGED <<cred, founders, deviceOf>>
    BY <1>8, AccountsAssumption DEF ChangePassword, End, rowVars
  <2> QED
    BY <2>1, <2>2 DEF AccountInv
<1>9. ASSUME NEW r \in Req, EndRequest(r) PROVE AccountInv'
  BY <1>9, QuietAccountStep DEF EndRequest, End, AccountInv, rowVars, Exists
<1>10. ASSUME NEW r \in Req, SessionStep(r), UNCHANGED accountVars PROVE AccountInv'
  BY <1>10, SessionStepKeeps
<1>11. CASE UNCHANGED allVars
  BY <1>11, QuietAccountStep DEF allVars, accountVars, AccountInv, vars, rowVars, Exists
<1> QED
  BY <1>1, <1>2, <1>3, <1>4, <1>5, <1>6, <1>7, <1>8, <1>9, <1>10, <1>11
     DEF AccountsNext, AccountStep

\* What Sessions proves of itself, and the account invariant on top of it.
THEOREM AccountInvCorrect == AccountsSpec => [](TypeOK /\ SessionsInv /\ AccountInv)
<1>1. AccountsInit => AccountInv
  BY DEF AccountsInit, Init, AccountInv, Exists
<1>2. AccountsSpec => [](TypeOK /\ SessionsInv)
  BY AccountsImplementSessions, SessionsInvCorrect, PTL DEF ImplementsSessions
<1> QED
  BY <1>1, <1>2, AccountInvStep, PTL DEF AccountsSpec

\* However many signup_complete requests race, one makes the account and its first session.
THEOREM AccountCreatedOnce == AccountsSpec => []SignupOnce
<1>1. AccountInv => SignupOnce
  BY DEF AccountInv, SignupOnce
<1> QED
  BY <1>1, AccountInvCorrect, PTL

-----------------------------------------------------------------------------
\* The strengthening of LateLoginsBounded: a request holds an accepted key or a pending signup
\* only while it is logging in, and never both, so the one that changes the password holds none.
LoginInv ==
    /\ signup \in [Req -> Token \cup {Null}]
    /\ late \in Nat
    /\ \A r \in Req : cred[r] # Null => req[r].at = "login" /\ signup[r] = Null
    /\ \A r \in Req : signup[r] # Null => req[r].at = "login"
    /\ LateLoginsBounded

\* The logins with a replaced key can be counted.
LEMMA StaleCountable ==
  /\ IsFiniteSet(StaleLogins) /\ Cardinality(StaleLogins) \in Nat
  /\ IsFiniteSet(Req) /\ Cardinality(Req) \in Nat
<1>1. StaleLogins \subseteq Req
  BY DEF StaleLogins
<1> QED
  BY <1>1, AccountsAssumption, FS_Subset, FS_CardinalityType

\* Nothing is lost of the bound while no login becomes stale.
LEMMA NoNewStale ==
  ASSUME late \in Nat, late' = late, LateLoginsBounded, StaleLogins' \subseteq StaleLogins
  PROVE  LateLoginsBounded'
<1>1. /\ IsFiniteSet(StaleLogins') /\ Cardinality(StaleLogins') \in Nat
      /\ Cardinality(StaleLogins') <= Cardinality(StaleLogins)
  BY StaleCountable, FS_Subset, FS_CardinalityType
<1> QED
  BY <1>1, StaleCountable DEF LateLoginsBounded

\* A step of request r that leaves the password alone and accepts no other key than the current
\* ones keeps what the others hold.
LEMMA QuietLoginStep ==
  ASSUME AccountInv, LoginInv, NEW r \in Req, UNCHANGED <<authKey, late>>,
         cred' \in [Req -> AuthKey \cup {Recovery, Null}],
         signup' \in [Req -> Token \cup {Null}],
         \A q \in Req \ {r} : req'[q].at = req[q].at /\ cred'[q] = cred[q] /\ signup'[q] = signup[q],
         cred'[r] \in {cred[r], Null, Recovery, authKey},
         cred'[r] # Null => req'[r].at = "login" /\ signup'[r] = Null,
         signup'[r] # Null => req'[r].at = "login"
  PROVE  LoginInv'
<1>1. StaleLogins' \subseteq StaleLogins
  BY DEF StaleLogins
<1>2. LateLoginsBounded'
  BY <1>1, NoNewStale DEF LoginInv
<1>3. \A q \in Req : cred'[q] # Null => req'[q].at = "login" /\ signup'[q] = Null
  BY DEF LoginInv
<1>4. \A q \in Req : signup'[q] # Null => req'[q].at = "login"
  BY DEF LoginInv
<1> QED
  BY <1>2, <1>3, <1>4 DEF LoginInv

\* Requests other than the one that moves stay where they are.
LEMMA GotoOthers ==
  ASSUME TypeOK, NEW r \in Req, NEW q, Goto(r, q)
  PROVE  req'[r] = q /\ \A o \in Req \ {r} : req'[o] = req[o]
  BY DEF TypeOK, Goto

\* A session's step is not one of a request that is logging in.
LEMMA SessionStepLogin ==
  ASSUME TypeOK, AccountInv, LoginInv, NEW r \in Req, SessionStep(r), UNCHANGED accountVars
  PROVE  LoginInv'
<1>1. req[r].at # "login"
  BY DEF SessionStep, RefreshLock, RefreshRotate, RefreshReuse, AuthDevice, AuthSession,
     RevokeDeviceMark, LogoutDeviceMark, RevokeScan, RevokeCommit, LogoutSession, LogoutToken, Idle
<1>2. \A q \in Req \ {r} : req'[q] = req[q]
  BY GotoOthers DEF SessionStep, RefreshLock, RefreshRotate, RefreshReuse, AuthDevice, AuthSession,
     RevokeDeviceMark, LogoutDeviceMark, RevokeScan, RevokeCommit, LogoutSession, LogoutToken, Finish
<1>3. cred[r] = Null /\ signup[r] = Null
  BY <1>1 DEF LoginInv
<1> QED
  BY <1>2, <1>3, QuietLoginStep DEF accountVars, AccountInv, LoginInv

\* The session that a login opens with a replaced key leaves one such login fewer under way.
LEMMA LateLoginStep ==
  ASSUME TypeOK, AccountInv, LoginInv, NEW r \in Req, NEW d \in Device, NEW s \in Session,
         LoginOpen(r, d, s)
  PROVE  LoginInv'
<1>1. /\ cred' = [cred EXCEPT ![r] = Null] /\ UNCHANGED <<authKey, signup>>
      /\ Finish(r) /\ signup[r] = Null
      /\ late' = IF cred[r] \in {authKey, Recovery} THEN late ELSE late + 1
  BY DEF LoginOpen, LoginCommit, LoginInv
<1>2. /\ \A q \in Req \ {r} : req'[q] = req[q] /\ cred'[q] = cred[q]
      /\ cred'[r] = Null /\ cred' \in [Req -> AuthKey \cup {Recovery, Null}]
  BY <1>1, GotoOthers DEF Finish, AccountInv
<1>3. CASE cred[r] \in {authKey, Recovery}
  BY <1>1, <1>2, <1>3, QuietLoginStep DEF LoginInv
<1>4. CASE cred[r] \notin {authKey, Recovery}
  <2>1. r \in StaleLogins /\ StaleLogins' = StaleLogins \ {r}
    BY <1>1, <1>2, <1>4 DEF LoginOpen, StaleLogins
  <2>2. Cardinality(StaleLogins') = Cardinality(StaleLogins) - 1
    BY <2>1, StaleCountable, FS_RemoveElement
  <2>3. LateLoginsBounded' /\ late' \in Nat
    BY <1>1, <1>4, <2>2, StaleCountable DEF LoginInv, LateLoginsBounded
  <2>4. \A q \in Req : cred'[q] # Null => req'[q].at = "login" /\ signup'[q] = Null
    BY <1>1, <1>2 DEF LoginInv
  <2>5. \A q \in Req : signup'[q] # Null => req'[q].at = "login"
    BY <1>1, <1>2 DEF LoginInv
  <2> QED
    BY <1>1, <2>3, <2>4, <2>5 DEF LoginInv
<1> QED
  BY <1>3, <1>4

\* The request that changes the password is not a login: at most all the others are.
LEMMA ChangePasswordStep ==
  ASSUME TypeOK, AccountInv, LoginInv, NEW r \in Req, NEW k \in AuthKey, ChangePassword(r, k)
  PROVE  LoginInv'
<1>1. /\ req[r].at = "admitted" /\ late' = 0 /\ Finish(r) /\ UNCHANGED <<cred, signup>>
  BY DEF ChangePassword, End
<1>2. cred[r] = Null /\ signup[r] = Null
  BY <1>1 DEF LoginInv
<1>3. \A q \in Req \ {r} : req'[q] = req[q]
  BY <1>1, GotoOthers DEF Finish
<1>4. StaleLogins' \subseteq Req \ {r}
  BY <1>1, <1>2 DEF StaleLogins
<1>5. IsFiniteSet(Req \ {r}) /\ Cardinality(Req \ {r}) = Cardinality(Req) - 1
  BY StaleCountable, FS_RemoveElement
<1>6. Cardinality(StaleLogins') \in Nat /\ Cardinality(StaleLogins') <= Cardinality(Req) - 1
  BY <1>4, <1>5, FS_Subset, FS_CardinalityType
<1>7. LateLoginsBounded'
  BY <1>1, <1>6, StaleCountable DEF LateLoginsBounded
<1>8. \A q \in Req : cred'[q] # Null => req'[q].at = "login" /\ signup'[q] = Null
  BY <1>1, <1>2, <1>3 DEF LoginInv
<1>9. \A q \in Req : signup'[q] # Null => req'[q].at = "login"
  BY <1>1, <1>2, <1>3 DEF LoginInv
<1> QED
  BY <1>1, <1>7, <1>8, <1>9 DEF LoginInv

\* While there is no account nobody holds a key of it, so its first key makes none stale.
LEMMA SignupInsertStep ==
  ASSUME TypeOK, AccountInv, LoginInv, NEW r \in Req, NEW d \in Device, NEW s \in Session,
         NEW k \in AuthKey, SignupInsert(r, d, s, k)
  PROVE  LoginInv'
<1>1. /\ authKey = Null /\ Finish(r) /\ UNCHANGED <<cred, late>>
      /\ signup' = [signup EXCEPT ![r] = Null]
  BY DEF SignupInsert, LoginCommit
<1>2. \A q \in Req : cred[q] = Null
  BY <1>1 DEF AccountInv
<1>3. StaleLogins' \subseteq StaleLogins
  BY <1>1, <1>2 DEF StaleLogins
<1>4. LateLoginsBounded'
  BY <1>1, <1>3, NoNewStale DEF LoginInv
<1>5. /\ \A q \in Req \ {r} : req'[q] = req[q] /\ signup'[q] = signup[q]
      /\ signup'[r] = Null /\ signup' \in [Req -> Token \cup {Null}]
  BY <1>1, GotoOthers DEF Finish, LoginInv
<1>6. \A q \in Req : signup'[q] # Null => req'[q].at = "login"
  BY <1>5 DEF LoginInv
<1> QED
  BY <1>1, <1>2, <1>4, <1>5, <1>6 DEF LoginInv

\* LoginInv is inductive, given what is proved of Sessions and of the account.
LEMMA LoginInvStep ==
  ASSUME TypeOK, AccountInv, LoginInv, [AccountsNext]_allVars
  PROVE  LoginInv'
<1>1. CASE UNCHANGED <<req, authKey, cred, signup, late>>
  <2>1. StaleLogins' \subseteq StaleLogins
    BY <1>1 DEF StaleLogins
  <2> QED
    BY <1>1, <2>1, NoNewStale DEF LoginInv
<1>2. ASSUME NEW t \in Token, SignupInit(t) \/ SignupExpired(t) PROVE LoginInv'
  BY <1>1, <1>2 DEF SignupInit, SignupExpired, vars
<1>3. CASE Restart
  BY <1>1, <1>3 DEF Restart, vars
<1>4. ASSUME NEW r \in Req, NEW t \in Token, SignupGet(r, t) PROVE LoginInv'
  <2> DEFINE q == [IdleReq EXCEPT !.at = "login", !.device = Null]
  <2>1. /\ req[r].at = "idle" /\ Goto(r, q) /\ UNCHANGED <<authKey, late, cred>>
        /\ signup' = [signup EXCEPT ![r] = t]
    BY <1>4 DEF SignupGet, LoginCheck, Idle
  <2>2. req'[r] = q /\ \A o \in Req \ {r} : req'[o] = req[o]
    BY <2>1, GotoOthers
  <2>3. req'[r].at = "login" /\ cred[r] = Null
    BY <2>1, <2>2 DEF IdleReq, LoginInv
  <2> QED
    BY <2>1, <2>2, <2>3, QuietLoginStep DEF AccountInv, LoginInv
<1>5. ASSUME NEW r \in Req, SignupRemove(r) PROVE LoginInv'
  BY <1>1, <1>5 DEF SignupRemove, vars
<1>6. ASSUME NEW r \in Req, NEW d \in Device \cup {Null}, NEW k \in AuthKey \cup {Recovery},
             LoginKey(r, d, k)
      PROVE  LoginInv'
  <2> DEFINE q == [IdleReq EXCEPT !.at = "login", !.device = d]
  <2>1. /\ req[r].at = "idle" /\ Goto(r, q) /\ UNCHANGED <<authKey, late, signup>>
        /\ cred' = [cred EXCEPT ![r] = k] /\ k \in {authKey, Recovery}
    BY <1>6 DEF LoginKey, LoginCheck, Idle
  <2>2. req'[r] = q /\ \A o \in Req \ {r} : req'[o] = req[o]
    BY <2>1, GotoOthers
  <2>3. req'[r].at = "login" /\ signup[r] = Null
    BY <2>1, <2>2 DEF IdleReq, LoginInv
  <2>4. cred' \in [Req -> AuthKey \cup {Recovery, Null}] /\ cred'[r] = k
        /\ \A o \in Req \ {r} : cred'[o] = cred[o]
    BY <2>1 DEF AccountInv
  <2> QED
    BY <2>1, <2>2, <2>3, <2>4, QuietLoginStep DEF LoginInv
<1>7. ASSUME NEW r \in Req, EndRequest(r) PROVE LoginInv'
  <2>1. /\ Finish(r) /\ UNCHANGED <<authKey, late>>
        /\ cred' = [cred EXCEPT ![r] = Null] /\ signup' = [signup EXCEPT ![r] = Null]
    BY <1>7 DEF EndRequest, End
  <2>2. \A o \in Req \ {r} : req'[o] = req[o]
    BY <2>1, GotoOthers DEF Finish
  <2> QED
    BY <2>1, <2>2, QuietLoginStep DEF AccountInv, LoginInv
<1>8. CASE UNCHANGED allVars
  BY <1>1, <1>8 DEF allVars, vars, accountVars
<1> QED
  BY <1>2, <1>3, <1>4, <1>5, <1>6, <1>7, <1>8, SignupInsertStep, LateLoginStep, ChangePasswordStep,
     SessionStepLogin
     DEF AccountsNext, AccountStep

\* For any number of concurrent requests, a change of password is followed by fewer sessions of
\* the replaced key than there are requests, however logins, signups and changes interleave.
THEOREM LateLoginsAreBounded == AccountsSpec => []LateLoginsBounded
<1>1. AccountsInit => LoginInv
  <2> SUFFICES ASSUME AccountsInit PROVE LoginInv
    OBVIOUS
  <2>1. StaleLogins = {} /\ late = 0
    BY DEF AccountsInit, StaleLogins
  <2>2. Cardinality(StaleLogins) = 0 /\ Cardinality(Req) # 0
    BY <2>1, StaleCountable, AccountsAssumption, FS_EmptySet
  <2>3. LateLoginsBounded
    BY <2>1, <2>2, StaleCountable DEF LateLoginsBounded
  <2> QED
    BY <2>3 DEF AccountsInit, LoginInv
<1>2. LoginInv => LateLoginsBounded
  BY DEF LoginInv
<1> QED
  BY <1>1, <1>2, LoginInvStep, AccountInvCorrect, PTL DEF AccountsSpec
=============================================================================
