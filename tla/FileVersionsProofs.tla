------------------------- MODULE FileVersionsProofs -------------------------
(* Proofs about FileVersions, for every number of files, versions, chunks and requests. *)
EXTENDS FileVersions, TLAPS

\* The idle request is a request.
LEMMA IdleReqType == IdleReq \in Request
  BY DEF IdleReq, Request, Points

\* Every action keeps every variable in its type.
THEOREM TypeCorrect == Spec => []TypeOK
<1>1. Init => TypeOK
  BY IdleReqType DEF Init, TypeOK
<1>2. TypeOK /\ [Next]_vars => TypeOK'
  <2> SUFFICES ASSUME TypeOK, [Next]_vars PROVE TypeOK'
    OBVIOUS
  <2> USE IdleReqType DEF TypeOK
  <2>1. ASSUME NEW r \in Req, NEW c \in Content, CreateFileCheck(r, c) PROVE TypeOK'
    <3>1. PICK q \in Request : req' = [req EXCEPT ![r] = q]
      <4>1. CASE Goto(r, [IdleReq EXCEPT !.at = "create_insert", !.hash = c])
        BY <4>1 DEF Goto, IdleReq, Request, Points
      <4>2. ASSUME NEW f \in DedupCandidates(c),
                   Goto(r, [IdleReq EXCEPT !.at = "create_head", !.hash = c,
                                           !.file = f, !.version = current[f]])
            PROVE  \E q \in Request : req' = [req EXCEPT ![r] = q]
        BY <4>2 DEF Goto, IdleReq, Request, Points, DedupCandidates
      <4> QED
        BY <2>1, <4>1, <4>2 DEF CreateFileCheck
    <3> QED
      BY <2>1, <3>1 DEF CreateFileCheck, dbVars
  <2>2. ASSUME NEW r \in Req, CreateFileDedup(r) PROVE TypeOK'
    BY <2>2 DEF CreateFileDedup, Finish, Goto, dbVars
  <2>3. ASSUME NEW r \in Req, CreateFileGhost(r) PROVE TypeOK'
    BY <2>3 DEF CreateFileGhost, DeleteRows, Goto, IdleReq, Request, Points
  <2>4. ASSUME NEW r \in Req, NEW f \in File, NEW v \in Version, CreateFileInsert(r, f, v)
        PROVE  TypeOK'
    BY <2>4 DEF CreateFileInsert, InsertFile, InsertVersion, Finish, Goto, KeysOf, Key, Request
  <2>4a. ASSUME NEW r \in Req, NEW f \in File, NEW v \in Version, BulkInitUploads(r, f, v)
         PROVE  TypeOK'
    BY <2>4a DEF BulkInitUploads, InsertFile, InsertVersion, Finish, Goto, KeysOf, Key, Request
  <2>4b. ASSUME NEW r \in Req, NEW v \in Version, NEW c \in Content, BulkCompleteHash(r, v, c)
         PROVE  TypeOK'
    <3>1. req' \in [Req -> Request]
      BY <2>4b DEF BulkCompleteHash, Goto, IdleReq, Request, Points
    <3> QED
      BY <2>4b, <3>1 DEF BulkCompleteHash
  <2>4c. ASSUME NEW r \in Req, BulkCompleteFileHash(r) PROVE TypeOK'
    <3>1. [req[r] EXCEPT !.at = "bulk_complete"] \in Request
      BY DEF Request, Points
    <3>2. req' \in [Req -> Request]
      BY <2>4c, <3>1 DEF BulkCompleteFileHash, Goto
    <3>3. req[r].hash \in Content \cup {Null}
      BY DEF Request
    <3>4. fileHash' \in [File -> Content \cup {Null}]
      BY <2>4c, <3>3 DEF BulkCompleteFileHash
    <3> QED
      BY <2>4c, <3>2, <3>4 DEF BulkCompleteFileHash
  <2>5. ASSUME NEW r \in Req, NEW f \in File, NEW c \in Content, CreateVersionCheck(r, f, c)
        PROVE  TypeOK'
    <3>1. req' \in [Req -> Request]
      BY <2>5 DEF CreateVersionCheck, Goto, IdleReq, Request, Points
    <3> QED
      BY <2>5, <3>1 DEF CreateVersionCheck, dbVars
  <2>6. ASSUME NEW r \in Req, NEW v \in Version, CreateVersionInsert(r, v) PROVE TypeOK'
    BY <2>6 DEF CreateVersionInsert, InsertVersion, Finish, Goto, KeysOf, Key, Request
  <2>7. ASSUME NEW r \in Req, NEW k \in Key, VerifyChunkHead(r, k) PROVE TypeOK'
    <3>1. [IdleReq EXCEPT !.at = "verify_mark", !.keys = {k}] \in Request
      BY DEF IdleReq, Request, Points
    <3>2. req' \in [Req -> Request]
      BY <2>7, <3>1 DEF VerifyChunkHead, Goto
    <3> QED
      BY <2>7, <3>2 DEF VerifyChunkHead, dbVars
  <2>8. ASSUME NEW r \in Req, VerifyChunkMark(r) PROVE TypeOK'
    BY <2>8 DEF VerifyChunkMark, Finish, Goto
  <2>9. ASSUME NEW r \in Req, NEW v \in Version, NEW etags \in SUBSET KeysOf({v}),
               CompleteUploadLock(r, v, etags)
        PROVE  TypeOK'
    <3>1. [IdleReq EXCEPT !.at = "complete", !.file = fileOf[v], !.version = v,
                          !.keys = etags, !.stale = ActiveSiblings(v)] \in Request
      <4>1. fileOf[v] \in File \cup {Null} /\ etags \in SUBSET Key
        BY DEF KeysOf, Key
      <4>2. ActiveSiblings(v) \in SUBSET Version
        BY DEF ActiveSiblings, VersionsOf
      <4> HIDE DEF TypeOK
      <4> QED
        BY <4>1, <4>2 DEF IdleReq, Request, Points
    <3>2. req' \in [Req -> Request]
      BY <2>9, <3>1 DEF CompleteUploadLock, Goto
    <3> QED
      BY <2>9, <3>2 DEF CompleteUploadLock, LockVersion, Lock, dbVars
  <2>10. ASSUME NEW r \in Req, CompleteUploadCommit(r) PROVE TypeOK'
    BY <2>10 DEF CompleteUploadCommit, Activate, Finish, Goto, Request
  <2>11. ASSUME NEW r \in Req, NEW v \in Version, RestoreVersionLock(r, v) PROVE TypeOK'
    BY <2>11 DEF RestoreVersionLock, LockVersion, Lock, Goto, IdleReq, Request, Points,
                 ActiveSiblings, VersionsOf, dbVars
  <2>12. ASSUME NEW r \in Req, RestoreVersionCommit(r) PROVE TypeOK'
    BY <2>12 DEF RestoreVersionCommit, Activate, Finish, Goto, Request
  <2>13. ASSUME NEW r \in Req, NEW v \in Version, DeleteVersionLock(r, v) PROVE TypeOK'
    BY <2>13 DEF DeleteVersionLock, LockVersion, Lock, Goto, IdleReq, Request, Points, dbVars
  <2>14. ASSUME NEW r \in Req, DeleteVersionCommit(r) PROVE TypeOK'
    BY <2>14 DEF DeleteVersionCommit, DeleteRows, RowKeys, Finish, Goto
  <2>15. ASSUME NEW r \in Req, NEW v \in Version, CancelUploadCheck(r, v) PROVE TypeOK'
    <3>1. req' \in [Req -> Request]
      BY <2>15 DEF CancelUploadCheck, Goto, IdleReq, Request, Points
    <3> QED
      BY <2>15, <3>1 DEF CancelUploadCheck, dbVars
  <2>16. ASSUME NEW r \in Req, CancelUploadKeys(r) PROVE TypeOK'
    <3>0. RowKeys({req[r].version}) \in SUBSET Key /\ req[r] \in Request
      BY DEF RowKeys
    <3>1. [req[r] EXCEPT !.at = "cancel_commit", !.keys = RowKeys({req[r].version})] \in Request
      BY <3>0 DEF Request, Points
    <3>2. req' \in [Req -> Request]
      BY <2>16, <3>1 DEF CancelUploadKeys, Goto
    <3> QED
      BY <2>16, <3>2 DEF CancelUploadKeys, dbVars
  <2>17. ASSUME NEW r \in Req, CancelUploadCommit(r) PROVE TypeOK'
    <3>1. req[r].keys \in SUBSET Key
      BY DEF Request
    <3>2. req' \in [Req -> Request] /\ locks' \in [File \cup Version -> Req \cup {Null}]
      BY <2>17 DEF CancelUploadCommit, Finish, Goto
    <3>3. pending' \subseteq Key /\ spawned' \subseteq Key
      BY <2>17, <3>1 DEF CancelUploadCommit
    <3> QED
      BY <2>17, <3>2, <3>3 DEF CancelUploadCommit, DeleteRows
  <2>18. ASSUME NEW r \in Req, NEW f \in File, PermanentlyDeleteLock(r, f) PROVE TypeOK'
    BY <2>18 DEF PermanentlyDeleteLock, PurgeRequest, RowKeys, Lock, Goto, IdleReq, Request,
                 Points, dbVars
  <2>19. ASSUME NEW r \in Req, NEW F \in SUBSET File, BulkPurgeSelect(r, F) PROVE TypeOK'
    BY <2>19 DEF BulkPurgeSelect, PurgeRequest, RowKeys, Goto, IdleReq, Request, Points, dbVars
  <2>20. ASSUME NEW r \in Req, EmptyTrashSelect(r) PROVE TypeOK'
    BY <2>20 DEF EmptyTrashSelect, PurgeRequest, RowKeys, Goto, IdleReq, Request, Points, dbVars
  <2>21. ASSUME NEW r \in Req, NEW F \in SUBSET File, CleanupEndpointSelect(r, F) PROVE TypeOK'
    BY <2>21 DEF CleanupEndpointSelect, PurgeRequest, RowKeys, Goto, IdleReq, Request, Points,
                 dbVars
  <2>22. ASSUME NEW r \in Req, PurgeCommit(r) PROVE TypeOK'
    BY <2>22 DEF PurgeCommit, DeleteRows, RowKeys, Finish, Goto, Request
  <2>23. ASSUME NEW r \in Req, Abort(r) PROVE TypeOK'
    BY <2>23 DEF Abort, Finish, Goto, dbVars
  <2>24. CASE Environment
    BY <2>24 DEF Environment, PutChunk, TrashFile, RestoreFile, BestEffortDelete, Age, Crash, dbVars
  <2>25. CASE Background
    BY <2>25 DEF Background, SweepScan, SweepObjects, SweepRows, RetryFetch, RetryDelete,
                 RetryDeleteFails, RetryConfirm, DeleteRows, RowKeys, dbVars
  <2>26. CASE UNCHANGED vars
    BY <2>26 DEF vars, dbVars
  <2> QED
    BY <2>1, <2>2, <2>3, <2>4, <2>4a, <2>4b, <2>4c, <2>5, <2>6, <2>7, <2>8, <2>9, <2>10, <2>11, <2>12, <2>13,
       <2>14, <2>15, <2>16, <2>17, <2>18, <2>19, <2>20, <2>21, <2>22, <2>23, <2>24, <2>25,
       <2>26 DEF Next, Upload, Removal
<1> QED
  BY <1>1, <1>2, PTL DEF Spec

-----------------------------------------------------------------------------
(***************************************************************************)
(* Deleting rows under the locks the code takes or waits for keeps the     *)
(* foreign keys, the other requests' knowledge and the version pointer.    *)
(* r is the request that deletes, or Null for the background task.         *)
(***************************************************************************)
LEMMA DeleteRowsInv ==
  ASSUME TypeOK, RowInv, RequestInv, ActiveIsCurrent,
         NEW r \in Req \cup {Null},
         NEW F \in SUBSET File, NEW V \in SUBSET Version, NEW C \in SUBSET Version,
         DeleteRows(F, V, C),
         \A v \in V \cup VersionsOf(F) : locks[v] \in {Null, r},
         \A v \in V \cup VersionsOf(F) : verSt[v] = "active" => locks[fileOf[v]] \in {Null, r},
         \A s \in Req \ {r} : req'[s] = req[s],
         \A s \in Req \ {r} : \A x \in File \cup Version : locks[x] = s => locks'[x] = s,
         r \in Req => req'[r].at \in {"idle", "create_insert"}
  PROVE  RowInv' /\ RequestInv' /\ ActiveIsCurrent'
<1> USE DEF TypeOK, DeleteRows, VersionExists, FileExists
<1> DEFINE dead == V \cup VersionsOf(F)
<1>1. /\ \A v \in Version : verSt'[v] = IF v \in dead THEN "gone" ELSE verSt[v]
      /\ \A f \in File : fileSt'[f] = IF f \in F THEN "gone" ELSE fileSt[f]
      /\ \A f \in File : current'[f] = IF current[f] \in dead THEN Null ELSE current[f]
      /\ fileOf' = fileOf
  OBVIOUS
<1>2. \A v \in Version : VersionExists(v)' => v \notin dead /\ VersionExists(v) /\ fileOf[v] \notin F
  BY <1>1 DEF VersionsOf
<1>3. RowInv'
  <2>1. \A v \in Version : VersionExists(v)' => fileOf'[v] \in File /\ FileExists(fileOf[v])'
    BY <1>1, <1>2 DEF RowInv
  <2>2. \A v \in Version : verSt'[v] = "none" => fileOf'[v] = Null
    BY <1>1 DEF RowInv
  <2>3. \A k \in chunkRows' : VersionExists(k[1])'
    BY <1>1 DEF RowInv, Key
  <2>4. \A f \in File : current'[f] # Null =>
            VersionExists(current[f])' /\ fileOf'[current'[f]] = f /\ current'[f] = current[f]
    BY <1>1 DEF RowInv
  <2> QED
    BY <2>1, <2>2, <2>3, <2>4, <1>1 DEF RowInv
<1>4. ActiveIsCurrent'
  BY <1>1, <1>2 DEF ActiveIsCurrent, RowInv
<1>5. RequestInv'
  <2> SUFFICES ASSUME NEW s \in Req
               PROVE  (HoldsVersion(s) /\ HoldsFile(s) /\ KnowsUpload(s) /\ KnowsFiles(s))'
    BY DEF RequestInv
  <2>1. CASE s = r
    BY <2>1 DEF HoldsVersion, HoldsFile, KnowsUpload, KnowsFiles
  <2>2. CASE s # r
    <3>1. /\ req'[s] = req[s] /\ s # Null
          /\ HoldsVersion(s) /\ HoldsFile(s) /\ KnowsUpload(s) /\ KnowsFiles(s)
      BY <2>2, ConstantsAssumption DEF RequestInv
    <3>2. HoldsVersion(s)'
      BY <1>1, <2>2, <3>1 DEF HoldsVersion
    <3>3. HoldsFile(s)'
      BY <1>1, <2>2, <3>1 DEF HoldsFile
    <3>4. \A v \in Version : verSt[v] # "none" => verSt'[v] # "none"
      BY <1>1
    <3>5. KnowsUpload(s)'
      BY <1>1, <3>1, <3>4 DEF KnowsUpload
    <3>6. KnowsFiles(s)'
      BY <1>1, <3>1 DEF KnowsFiles, VersionsOf
    <3> QED
      BY <3>2, <3>3, <3>5, <3>6
  <2> QED
    BY <2>1, <2>2
<1> QED
  BY <1>3, <1>4, <1>5

\* A step of request r that writes no row keeps the invariant if what r now relies on holds.
LEMMA ReadStepInv ==
  ASSUME TypeOK, IndInv, NEW r \in Req,
         UNCHANGED <<fileSt, current, verSt, fileOf, chunkRows, pending, spawned>>,
         \A s \in Req \ {r} : req'[s] = req[s],
         \A s \in Req \ {r} : \A x \in File \cup Version : locks[x] = s => locks'[x] = s,
         (HoldsVersion(r) /\ HoldsFile(r) /\ KnowsUpload(r) /\ KnowsFiles(r))'
  PROVE  IndInv'
<1>1. ASSUME NEW s \in Req \ {r}
      PROVE  (HoldsVersion(s) /\ HoldsFile(s) /\ KnowsUpload(s) /\ KnowsFiles(s))'
  <2>1. HoldsVersion(s) /\ HoldsFile(s) /\ KnowsUpload(s) /\ KnowsFiles(s)
    BY DEF IndInv, RequestInv
  <2> QED
    BY <2>1 DEF HoldsVersion, HoldsFile, KnowsUpload, KnowsFiles, VersionsOf
<1>2. RequestInv'
  BY <1>1 DEF RequestInv
<1>3. RowInv' /\ QueueInv' /\ ActiveIsCurrent'
  BY DEF IndInv, RowInv, QueueInv, ActiveIsCurrent, VersionExists, FileExists
<1> QED
  BY <1>2, <1>3 DEF IndInv

\* A request that has ended relies on nothing, and the others keep their locks.
LEMMA FinishKnows ==
  ASSUME TypeOK, NEW r \in Req, Finish(r)
  PROVE  /\ \A s \in Req \ {r} : req'[s] = req[s]
         /\ \A s \in Req \ {r} : \A x \in File \cup Version : locks[x] = s => locks'[x] = s
         /\ req'[r].at = "idle"
         /\ (HoldsVersion(r) /\ HoldsFile(r) /\ KnowsUpload(r) /\ KnowsFiles(r))'
  BY DEF TypeOK, Finish, Goto, IdleReq, HoldsVersion, HoldsFile, KnowsUpload, KnowsFiles

\* Taking a free lock, or one's own, takes no other request's lock.
LEMMA LockKeepsOthers ==
  ASSUME TypeOK, NEW r \in Req, NEW rows \in SUBSET (File \cup Version), Lock(r, rows)
  PROVE  /\ \A s \in Req \ {r} : \A x \in File \cup Version : locks[x] = s => locks'[x] = s
         /\ \A x \in rows : locks'[x] = r
  BY ConstantsAssumption DEF TypeOK, Lock, Available

\* The reading steps of the upload operations.
LEMMA UploadReadsInv ==
  ASSUME TypeOK, IndInv, NEW r \in Req,
         \/ \E c \in Content : CreateFileCheck(r, c)
         \/ CreateFileDedup(r)
         \/ \E f \in File, c \in Content : CreateVersionCheck(r, f, c)
         \/ \E k \in Key : VerifyChunkHead(r, k)
         \/ VerifyChunkMark(r)
         \/ \E v \in Version, c \in Content : BulkCompleteHash(r, v, c)
         \/ BulkCompleteFileHash(r)
         \/ \E v \in Version : \E etags \in SUBSET KeysOf({v}) : CompleteUploadLock(r, v, etags)
         \/ \E v \in Version : RestoreVersionLock(r, v)
  PROVE  IndInv'
<1> USE DEF TypeOK
<1> DEFINE Knows == (HoldsVersion(r) /\ HoldsFile(r) /\ KnowsUpload(r) /\ KnowsFiles(r))'
           Frame == UNCHANGED <<fileSt, current, verSt, fileOf, chunkRows, pending, spawned>>
<1>1. ASSUME NEW c \in Content, CreateFileCheck(r, c) PROVE IndInv'
  <2>1. /\ req'[r].at \in {"create_insert", "create_head"} /\ \A s \in Req \ {r} : req'[s] = req[s]
        /\ req'[r].at = "create_head" => req'[r].file \in File
    <3>1. CASE Goto(r, [IdleReq EXCEPT !.at = "create_insert", !.hash = c])
      BY <3>1 DEF Goto, IdleReq
    <3>2. ASSUME NEW f \in File,
                 Goto(r, [IdleReq EXCEPT !.at = "create_head", !.hash = c,
                                         !.file = f, !.version = current[f]])
          PROVE  /\ req'[r].at = "create_head" /\ req'[r].file \in File
                 /\ \A s \in Req \ {r} : req'[s] = req[s]
      BY <3>2 DEF Goto, IdleReq
    <3> QED
      BY <1>1, <3>1, <3>2 DEF CreateFileCheck, DedupCandidates
  <2>2. Knows
    BY <2>1 DEF HoldsVersion, HoldsFile, KnowsUpload, KnowsFiles
  <2>3. Frame /\ locks' = locks
    BY <1>1 DEF CreateFileCheck, dbVars
  <2> QED
    BY <2>1, <2>2, <2>3, ReadStepInv
<1>2. CASE CreateFileDedup(r) \/ VerifyChunkMark(r)
  <2>1. Finish(r) /\ Frame
    BY <1>2 DEF CreateFileDedup, VerifyChunkMark, dbVars
  <2> QED
    BY <2>1, FinishKnows, ReadStepInv
<1>3. ASSUME NEW f \in File, NEW c \in Content, CreateVersionCheck(r, f, c) PROVE IndInv'
  <2>1. /\ req'[r].at = "version_insert" /\ req'[r].file = f
        /\ \A s \in Req \ {r} : req'[s] = req[s]
    BY <1>3 DEF CreateVersionCheck, Goto, IdleReq
  <2>2. Knows
    BY <2>1 DEF HoldsVersion, HoldsFile, KnowsUpload, KnowsFiles
  <2>3. Frame /\ locks' = locks
    BY <1>3 DEF CreateVersionCheck, dbVars
  <2> QED
    BY <2>1, <2>2, <2>3, ReadStepInv
<1>4. ASSUME NEW k \in Key, VerifyChunkHead(r, k) PROVE IndInv'
  <2>1. req'[r].at = "verify_mark" /\ \A s \in Req \ {r} : req'[s] = req[s]
    BY <1>4 DEF VerifyChunkHead, Goto, IdleReq
  <2>2. Knows
    BY <2>1 DEF HoldsVersion, HoldsFile, KnowsUpload, KnowsFiles
  <2>3. Frame /\ locks' = locks
    BY <1>4 DEF VerifyChunkHead, dbVars
  <2> QED
    BY <2>1, <2>2, <2>3, ReadStepInv
<1>5. ASSUME NEW v \in Version, NEW etags,
             CompleteUploadLock(r, v, etags) \/ RestoreVersionLock(r, v)
      PROVE  IndInv'
  <2>1. /\ LockVersion(r, v) /\ verSt[v] = "inactive" /\ Frame
        /\ req'[r].at \in {"complete", "restore"} /\ req'[r].version = v
        /\ req'[r].file = fileOf[v] /\ req'[r].stale = ActiveSiblings(v)
        /\ \A s \in Req \ {r} : req'[s] = req[s]
    <3>1. CASE CompleteUploadLock(r, v, etags)
      BY <3>1 DEF CompleteUploadLock, Goto, IdleReq, dbVars
    <3>2. CASE RestoreVersionLock(r, v)
      BY <3>2 DEF RestoreVersionLock, Goto, IdleReq, dbVars
    <3> QED
      BY <1>5, <3>1, <3>2
  <2>2. fileOf[v] \in File
    BY <2>1 DEF LockVersion, IndInv, RowInv
  <2>3. /\ \A s \in Req \ {r} : \A x \in File \cup Version : locks[x] = s => locks'[x] = s
        /\ locks'[v] = r /\ locks'[fileOf[v]] = r
    BY <2>1, <2>2, LockKeepsOthers DEF LockVersion
  <2>4. ActiveSiblings(v) = {w \in Version : fileOf[w] = fileOf[v] /\ verSt[w] = "active"}
    BY <2>1 DEF ActiveSiblings, VersionsOf
  <2>5. Knows
    BY <2>1, <2>2, <2>3, <2>4 DEF HoldsVersion, HoldsFile, KnowsUpload, KnowsFiles
  <2> QED
    BY <2>1, <2>3, <2>5, ReadStepInv
<1>6. CASE BulkCompleteFileHash(r) \/ \E v \in Version, c \in Content : BulkCompleteHash(r, v, c)
  <2>1. /\ req'[r].at \in {"bulk_file_hash", "bulk_complete"}
        /\ \A s \in Req \ {r} : req'[s] = req[s]
        /\ Frame /\ locks' = locks
    <3>1. CASE BulkCompleteFileHash(r)
      BY <3>1 DEF BulkCompleteFileHash, Goto, Request
    <3>2. ASSUME NEW v \in Version, NEW c \in Content, BulkCompleteHash(r, v, c)
          PROVE  /\ req'[r].at \in {"bulk_file_hash", "bulk_complete"}
                 /\ \A s \in Req \ {r} : req'[s] = req[s]
                 /\ Frame /\ locks' = locks
      BY <3>2 DEF BulkCompleteHash, Goto, IdleReq
    <3> QED
      BY <1>6, <3>1, <3>2
  <2>2. Knows
    BY <2>1 DEF HoldsVersion, HoldsFile, KnowsUpload, KnowsFiles
  <2> QED
    BY <2>1, <2>2, ReadStepInv
<1> QED
  BY <1>1, <1>2, <1>3, <1>4, <1>5, <1>6

\* The reading steps of the removals.
LEMMA RemovalReadsInv ==
  ASSUME TypeOK, IndInv, NEW r \in Req,
         \/ \E v \in Version : DeleteVersionLock(r, v)
         \/ \E v \in Version : CancelUploadCheck(r, v)
         \/ CancelUploadKeys(r)
         \/ \E f \in File : PermanentlyDeleteLock(r, f)
         \/ \E F \in SUBSET File : BulkPurgeSelect(r, F)
         \/ EmptyTrashSelect(r)
         \/ \E F \in SUBSET File : CleanupEndpointSelect(r, F)
         \/ Abort(r)
  PROVE  IndInv'
<1> USE DEF TypeOK
<1> DEFINE Knows == (HoldsVersion(r) /\ HoldsFile(r) /\ KnowsUpload(r) /\ KnowsFiles(r))'
           Frame == UNCHANGED <<fileSt, current, verSt, fileOf, chunkRows, pending, spawned>>
<1>1. ASSUME NEW v \in Version, DeleteVersionLock(r, v) PROVE IndInv'
  <2>1. /\ LockVersion(r, v) /\ verSt[v] = "inactive" /\ Frame
        /\ req'[r].at = "delete_version" /\ req'[r].version = v
        /\ \A s \in Req \ {r} : req'[s] = req[s]
    BY <1>1 DEF DeleteVersionLock, Goto, IdleReq, dbVars
  <2>2. fileOf[v] \in File
    BY <2>1 DEF LockVersion, IndInv, RowInv
  <2>3. /\ \A s \in Req \ {r} : \A x \in File \cup Version : locks[x] = s => locks'[x] = s
        /\ locks'[v] = r
    BY <2>1, <2>2, LockKeepsOthers DEF LockVersion
  <2>4. Knows
    BY <2>1, <2>3 DEF HoldsVersion, HoldsFile, KnowsUpload, KnowsFiles
  <2> QED
    BY <2>1, <2>3, <2>4, ReadStepInv
<1>2. ASSUME NEW v \in Version, CancelUploadCheck(r, v) PROVE IndInv'
  <2>1. /\ req'[r].at = "cancel_keys" /\ req'[r].version = v /\ req'[r].file = fileOf[v]
        /\ req'[r].keys = {} /\ verSt[v] = "inactive"
        /\ \A s \in Req \ {r} : req'[s] = req[s]
    BY <1>2 DEF CancelUploadCheck, Goto, IdleReq
  <2>2. Frame /\ locks' = locks
    BY <1>2 DEF CancelUploadCheck, dbVars
  <2>3. fileOf[v] \in File
    BY <2>1 DEF IndInv, RowInv, VersionExists
  <2>4. Knows
    BY <2>1, <2>2, <2>3 DEF HoldsVersion, HoldsFile, KnowsUpload, KnowsFiles
  <2> QED
    BY <2>1, <2>2, <2>4, ReadStepInv
<1>3. CASE CancelUploadKeys(r)
  <2>1. /\ req[r].at = "cancel_keys"
        /\ req'[r].at = "cancel_commit" /\ req'[r].version = req[r].version
        /\ req'[r].file = req[r].file /\ req'[r].keys = RowKeys({req[r].version})
        /\ \A s \in Req \ {r} : req'[s] = req[s]
    BY <1>3 DEF CancelUploadKeys, Goto, Request
  <2>2. Frame /\ locks' = locks
    BY <1>3 DEF CancelUploadKeys, dbVars
  <2>3. KnowsUpload(r)
    BY DEF IndInv, RequestInv
  <2>4. RowKeys({req[r].version}) \subseteq KeysOf({req[r].version})
    BY DEF RowKeys, KeysOf, Key
  <2>5. Knows
    BY <2>1, <2>2, <2>3, <2>4 DEF HoldsVersion, HoldsFile, KnowsUpload, KnowsFiles
  <2> QED
    BY <2>1, <2>2, <2>5, ReadStepInv
<1>4. ASSUME NEW F \in SUBSET File, NEW point \in {"purge", "cleanup"}, Frame,
             Goto(r, PurgeRequest(point, F)),
             \A s \in Req \ {r} : \A x \in File \cup Version : locks[x] = s => locks'[x] = s
      PROVE  IndInv'
  <2>1. /\ req'[r].at = point /\ req'[r].files = F /\ req'[r].keys = RowKeys(VersionsOf(F))
        /\ \A s \in Req \ {r} : req'[s] = req[s]
    BY <1>4 DEF Goto, PurgeRequest, IdleReq
  <2>2. RowKeys(VersionsOf(F)) \subseteq KeysOf(VersionsOf(F))'
    BY <1>4 DEF RowKeys, KeysOf, Key, VersionsOf
  <2>3. Knows
    BY <2>1, <2>2, <1>4 DEF HoldsVersion, HoldsFile, KnowsUpload, KnowsFiles, KeysOf, VersionsOf
  <2> QED
    BY <2>1, <2>3, <1>4, ReadStepInv
<1>5. ASSUME NEW f \in File, PermanentlyDeleteLock(r, f) PROVE IndInv'
  <2>1. \A s \in Req \ {r} : \A x \in File \cup Version : locks[x] = s => locks'[x] = s
    BY <1>5, LockKeepsOthers DEF PermanentlyDeleteLock
  <2> QED
    BY <1>5, <2>1, <1>4 DEF PermanentlyDeleteLock, dbVars
<1>6. ASSUME NEW F \in SUBSET File, BulkPurgeSelect(r, F) \/ CleanupEndpointSelect(r, F)
      PROVE  IndInv'
  BY <1>6, <1>4 DEF BulkPurgeSelect, CleanupEndpointSelect, dbVars
<1>7. CASE EmptyTrashSelect(r)
  BY <1>7, <1>4 DEF EmptyTrashSelect, dbVars
<1>8. CASE Abort(r)
  <2>1. Finish(r) /\ Frame
    BY <1>8 DEF Abort, dbVars
  <2> QED
    BY <2>1, FinishKnows, ReadStepInv
<1> QED
  BY <1>1, <1>2, <1>3, <1>5, <1>6, <1>7, <1>8

\* INSERT of a version that was never used: nothing refers to it yet.
LEMMA InsertInv ==
  ASSUME TypeOK, IndInv, NEW r \in Req, NEW v \in Version, NEW f \in File, NEW c,
         InsertVersion(v, f, c), Finish(r), UNCHANGED <<pending, spawned>>,
         \/ UNCHANGED <<fileSt, current>> /\ FileExists(f)
         \/ /\ fileSt[f] = "none"
            /\ fileSt' = [fileSt EXCEPT ![f] = "live"]
            /\ current' = [current EXCEPT ![f] = v]
  PROVE  IndInv'
<1> USE DEF TypeOK
<1>1. /\ verSt[v] = "none" /\ fileOf[v] = Null
      /\ \A w \in Version : verSt'[w] = IF w = v THEN "inactive" ELSE verSt[w]
      /\ \A w \in Version : fileOf'[w] = IF w = v THEN f ELSE fileOf[w]
      /\ chunkRows' = chunkRows \cup KeysOf({v})
  BY DEF InsertVersion, IndInv, RowInv
<1>2. /\ \A g \in File : FileExists(g) => FileExists(g)'
      /\ FileExists(f)'
      /\ \A g \in File : current'[g] # current[g] => g = f /\ current'[g] = v /\ fileSt[f] = "none"
  BY DEF FileExists
<1>3. RowInv'
  <2>1. \A w \in Version : VersionExists(w)' => fileOf'[w] \in File /\ FileExists(fileOf[w])'
    <3> SUFFICES ASSUME NEW w \in Version, VersionExists(w)'
                 PROVE  fileOf'[w] \in File /\ FileExists(fileOf[w])'
      OBVIOUS
    <3>1. CASE w = v
      BY <3>1, <1>1, <1>2 DEF FileExists
    <3>2. CASE w # v
      BY <3>2, <1>1, <1>2 DEF IndInv, RowInv, VersionExists, FileExists
    <3> QED
      BY <3>1, <3>2
  <2>2. \A w \in Version : verSt'[w] = "none" => fileOf'[w] = Null
    BY <1>1 DEF IndInv, RowInv
  <2>3. \A k \in chunkRows' : VersionExists(k[1])'
    BY <1>1 DEF IndInv, RowInv, VersionExists, KeysOf, Key
  <2>4. \A g \in File : current'[g] # Null => VersionExists(current[g])' /\ fileOf'[current'[g]] = g
    BY <1>1, <1>2 DEF IndInv, RowInv, VersionExists
  <2> QED
    BY <2>1, <2>2, <2>3, <2>4 DEF RowInv, VersionExists, FileExists
<1>4. QueueInv'
  BY <1>1 DEF IndInv, QueueInv, KeysOf, Key
<1>5. ActiveIsCurrent'
  <2> SUFFICES ASSUME NEW w \in Version, verSt'[w] = "active"
               PROVE  \E g \in File : fileOf'[w] = g /\ FileExists(g)' /\ current'[g] = w
    BY DEF ActiveIsCurrent
  <2>1. PICK g \in File : fileOf[w] = g /\ FileExists(g) /\ current[g] = w
    BY <1>1 DEF IndInv, ActiveIsCurrent
  <2> QED
    BY <2>1, <1>1, <1>2 DEF FileExists
<1>6. RequestInv'
  <2> SUFFICES ASSUME NEW s \in Req
               PROVE  (HoldsVersion(s) /\ HoldsFile(s) /\ KnowsUpload(s) /\ KnowsFiles(s))'
    BY DEF RequestInv
  <2>1. CASE s = r
    BY <2>1, FinishKnows
  <2>2. CASE s # r
    <3>1. /\ req'[s] = req[s]
          /\ \A x \in File \cup Version : locks[x] = s => locks'[x] = s
          /\ HoldsVersion(s) /\ HoldsFile(s) /\ KnowsUpload(s) /\ KnowsFiles(s)
      BY <2>2, FinishKnows DEF IndInv, RequestInv
    <3>2. HoldsVersion(s)'
      BY <3>1, <1>1 DEF HoldsVersion
    <3>3. HoldsFile(s)'
      BY <3>1, <1>1 DEF HoldsFile, HoldsVersion
    <3>4. KnowsUpload(s)'
      <4>1. \A w \in Version : verSt[w] # "none" => verSt'[w] # "none" /\ fileOf'[w] = fileOf[w]
        BY <1>1
      <4> QED
        BY <3>1, <4>1 DEF KnowsUpload
    <3>5. KnowsFiles(s)'
      <4>1. \A F \in SUBSET File : VersionsOf(F) \subseteq VersionsOf(F)'
        BY <1>1, ConstantsAssumption DEF VersionsOf
      <4>2. \A F \in SUBSET File : KeysOf(VersionsOf(F)) \subseteq KeysOf(VersionsOf(F))'
        BY <4>1 DEF KeysOf
      <4>3. req[s].files \in SUBSET File
        BY DEF Request
      <4> QED
        BY <3>1, <4>2, <4>3 DEF KnowsFiles
    <3> QED
      BY <3>2, <3>3, <3>4, <3>5
  <2> QED
    BY <2>1, <2>2
<1> QED
  BY <1>3, <1>4, <1>5, <1>6 DEF IndInv

\* The pointer swap, under the locks of its file and version.
LEMMA ActivateInv ==
  ASSUME TypeOK, IndInv, NEW r \in Req, req[r].at \in {"complete", "restore"},
         Activate(r), Finish(r), UNCHANGED <<fileSt, fileOf, chunkRows, pending, spawned>>
  PROVE  IndInv'
<1> USE DEF TypeOK
<1> DEFINE v == req[r].version
           f == req[r].file
<1>1. HoldsVersion(r) /\ HoldsFile(r)
  BY DEF IndInv, RequestInv
<1>2. /\ v \in Version /\ f \in File /\ fileOf[v] = f
      /\ locks[v] = r /\ locks[f] = r /\ verSt[v] = "inactive"
      /\ req[r].stale = {w \in Version : fileOf[w] = f /\ verSt[w] = "active"}
  BY <1>1 DEF HoldsVersion, HoldsFile
<1>3. /\ \A w \in Version : verSt'[w] = IF w = v THEN "active"
                                        ELSE IF w \in req[r].stale THEN "inactive" ELSE verSt[w]
      /\ \A g \in File : current'[g] = IF g = f THEN v ELSE current[g]
  BY <1>2 DEF Activate
<1>4. \A w \in Version : VersionExists(w)' <=> VersionExists(w)
  BY <1>2, <1>3 DEF VersionExists
<1>5. RowInv'
  BY <1>2, <1>3, <1>4 DEF IndInv, RowInv, VersionExists, FileExists, Key
<1>6. QueueInv'
  BY <1>2, <1>3 DEF IndInv, QueueInv, Key
<1>7. ActiveIsCurrent'
  BY <1>2, <1>3 DEF IndInv, ActiveIsCurrent, RowInv, VersionExists, FileExists
<1>8. RequestInv'
  <2> SUFFICES ASSUME NEW s \in Req
               PROVE  (HoldsVersion(s) /\ HoldsFile(s) /\ KnowsUpload(s) /\ KnowsFiles(s))'
    BY DEF RequestInv
  <2>1. CASE s = r
    BY <2>1, FinishKnows
  <2>2. CASE s # r
    <3>1. /\ req'[s] = req[s]
          /\ \A x \in File \cup Version : locks[x] = s => locks'[x] = s
          /\ HoldsVersion(s) /\ HoldsFile(s) /\ KnowsUpload(s) /\ KnowsFiles(s)
      BY <2>2, FinishKnows DEF IndInv, RequestInv
    <3>2. HoldsVersion(s)'
      BY <3>1, <2>2, <1>2, <1>3 DEF HoldsVersion
    <3>3. HoldsFile(s)'
      BY <3>1, <2>2, <1>2, <1>3 DEF HoldsFile
    <3>4. \A w \in Version : verSt[w] # "none" => verSt'[w] # "none"
      BY <1>3
    <3>5. KnowsUpload(s)'
      BY <3>1, <3>4 DEF KnowsUpload
    <3>6. KnowsFiles(s)'
      BY <3>1 DEF KnowsFiles, VersionsOf
    <3> QED
      BY <3>2, <3>3, <3>5, <3>6
  <2> QED
    BY <2>1, <2>2
<1> QED
  BY <1>5, <1>6, <1>7, <1>8 DEF IndInv

\* Queued keys stay unreferenced when rows are deleted and keys of deleted rows are queued.
LEMMA DeleteQueueInv ==
  ASSUME TypeOK, QueueInv,
         NEW F \in SUBSET File, NEW V \in SUBSET Version, NEW C \in SUBSET Version,
         DeleteRows(F, V, C),
         \A k \in (pending' \cup spawned') \ (pending \cup spawned) :
            /\ k \in Key /\ k[1] \in V \cup VersionsOf(F) \cup C
            /\ verSt[k[1]] # "none"
  PROVE  QueueInv'
  BY DEF TypeOK, QueueInv, DeleteRows, Key

\* The committing steps of the removals.
LEMMA RemovalCommitsInv ==
  ASSUME TypeOK, IndInv, NEW r \in Req,
         CreateFileGhost(r) \/ DeleteVersionCommit(r) \/ CancelUploadCommit(r) \/ PurgeCommit(r)
  PROVE  IndInv'
<1> USE DEF TypeOK
<1> DEFINE Others == /\ \A s \in Req \ {r} : req'[s] = req[s]
                     /\ \A s \in Req \ {r} : \A x \in File \cup Version : locks[x] = s => locks'[x] = s
<1>0. RowInv /\ RequestInv /\ QueueInv /\ ActiveIsCurrent
  BY DEF IndInv
<1>1. CASE CreateFileGhost(r)
  <2> DEFINE f == req[r].file
  <2>1. /\ DeleteRows({f}, {}, {}) /\ UNCHANGED <<pending, spawned, locks>>
        /\ Available(r, {f} \cup VersionsOf({f})) /\ Others /\ req'[r].at = "create_insert"
    BY <1>1 DEF CreateFileGhost, Goto, IdleReq
  <2>2. f \in File
    BY <1>0, <1>1 DEF CreateFileGhost, RequestInv, KnowsFiles
  <2>3. RowInv' /\ RequestInv' /\ ActiveIsCurrent'
    BY <1>0, <2>1, <2>2, DeleteRowsInv DEF Available, VersionsOf
  <2>4. QueueInv'
    BY <1>0, <2>1, <2>2, DeleteQueueInv
  <2> QED
    BY <2>3, <2>4 DEF IndInv
<1>2. CASE DeleteVersionCommit(r)
  <2> DEFINE v == req[r].version
  <2>1. /\ req[r].at = "delete_version" /\ DeleteRows({}, {v}, {})
        /\ spawned' = spawned \cup RowKeys({v}) /\ pending' = pending /\ Finish(r)
    BY <1>2 DEF DeleteVersionCommit
  <2>2. v \in Version /\ locks[v] = r /\ verSt[v] = "inactive"
    BY <1>0, <2>1 DEF RequestInv, HoldsVersion
  <2>3. /\ VersionsOf({}) = {}
        /\ {} \in SUBSET File /\ {v} \in SUBSET Version /\ {} \in SUBSET Version
    BY <2>2 DEF VersionsOf
  <2>4. Others /\ req'[r].at = "idle"
    BY <2>1, FinishKnows
  <2>5. /\ \A w \in {v} \cup VersionsOf({}) : locks[w] \in {Null, r}
        /\ \A w \in {v} \cup VersionsOf({}) : verSt[w] = "active" => locks[fileOf[w]] \in {Null, r}
    BY <2>2, <2>3
  <2>6. RowInv' /\ RequestInv' /\ ActiveIsCurrent'
    BY <1>0, <2>1, <2>3, <2>4, <2>5, DeleteRowsInv
  <2>7. \A k \in (pending' \cup spawned') \ (pending \cup spawned) :
            k \in Key /\ k[1] \in {v} \cup VersionsOf({}) \cup {} /\ verSt[k[1]] # "none"
    BY <2>1, <2>2 DEF RowKeys
  <2>8. QueueInv'
    BY <1>0, <2>1, <2>3, <2>7, DeleteQueueInv
  <2> QED
    BY <2>6, <2>8 DEF IndInv
<1>3. CASE CancelUploadCommit(r)
  <2> DEFINE v == req[r].version
             f == req[r].file
             dv == IF verSt[v] = "inactive" THEN {v} ELSE {}
             df == IF current[f] = v /\ v \notin dv THEN {f} ELSE {}
  <2>1. /\ req[r].at = "cancel_commit" /\ DeleteRows(df, dv, {v})
        /\ Available(r, {v} \cup VersionsOf(df)) /\ (current[f] = v => Available(r, {f}))
        /\ pending' = pending \cup req[r].keys /\ spawned' = spawned \cup req[r].keys
        /\ Finish(r)
    BY <1>3 DEF CancelUploadCommit
  <2>2. /\ v \in Version /\ f \in File /\ fileOf[v] = f /\ verSt[v] # "none"
        /\ req[r].keys \subseteq KeysOf({v})
    BY <1>0, <2>1 DEF RequestInv, KnowsUpload
  <2>3. df \in SUBSET File /\ dv \in SUBSET Version
    BY <2>2
  <2>4. /\ \A w \in dv \cup VersionsOf(df) : locks[w] \in {Null, r}
        /\ \A w \in dv \cup VersionsOf(df) : verSt[w] = "active" => locks[fileOf[w]] \in {Null, r}
    BY <2>1, <2>2 DEF Available, VersionsOf
  <2>5. Others /\ req'[r].at = "idle" /\ {v} \in SUBSET Version
    BY <2>1, <2>2, FinishKnows
  <2> HIDE DEF df, dv
  <2>6. RowInv' /\ RequestInv' /\ ActiveIsCurrent'
    BY <1>0, <2>1, <2>3, <2>4, <2>5, DeleteRowsInv
  <2>7. \A k \in (pending' \cup spawned') \ (pending \cup spawned) :
            k \in Key /\ k[1] \in dv \cup VersionsOf(df) \cup {v} /\ verSt[k[1]] # "none"
    BY <2>1, <2>2 DEF KeysOf, Key
  <2>8. QueueInv'
    BY <1>0, <2>1, <2>3, <2>5, <2>7, DeleteQueueInv
  <2> QED
    BY <2>6, <2>8 DEF IndInv
<1>4. CASE PurgeCommit(r)
  <2> DEFINE F == req[r].files
             V == IF req[r].at = "cleanup" THEN Orphaned \ VersionsOf(F) ELSE {}
  <2>1. /\ req[r].at \in {"purge", "cleanup"} /\ DeleteRows(F, V, {})
        /\ Available(r, F \cup VersionsOf(F) \cup V)
        /\ pending' = pending \cup (req[r].keys \cup RowKeys(V))
        /\ spawned' = spawned \cup (req[r].keys \cup RowKeys(V)) /\ Finish(r)
    BY <1>4 DEF PurgeCommit
  <2>2. F \in SUBSET File /\ V \in SUBSET Version /\ \A w \in V : verSt[w] = "inactive"
    BY DEF Request, Orphaned
  <2>3. /\ \A w \in V \cup VersionsOf(F) : locks[w] \in {Null, r}
        /\ \A w \in V \cup VersionsOf(F) : verSt[w] = "active" => locks[fileOf[w]] \in {Null, r}
    BY <2>1, <2>2 DEF Available, VersionsOf
  <2>4. RowInv' /\ RequestInv' /\ ActiveIsCurrent'
    BY <1>0, <2>1, <2>2, <2>3, FinishKnows, DeleteRowsInv
  <2>5. \A k \in req[r].keys : k \in Key /\ k[1] \in VersionsOf(F)
    BY <1>0, <2>1 DEF RequestInv, KnowsFiles, KeysOf, Key, VersionsOf
  <2>6. \A w \in V \cup VersionsOf(F) : w \in Version /\ verSt[w] # "none"
    BY <1>0, <2>2, ConstantsAssumption DEF VersionsOf, RowInv
  <2>7. QueueInv'
    BY <1>0, <2>1, <2>2, <2>5, <2>6, DeleteQueueInv DEF RowKeys
  <2> QED
    BY <2>4, <2>7 DEF IndInv
<1> QED
  BY <1>1, <1>2, <1>3, <1>4

\* Steps outside the requests that insert and delete no row of a file, version or chunk, and
\* queue nothing.
LEMMA QuietStepInv ==
  ASSUME TypeOK, IndInv,
         UNCHANGED <<current, verSt, fileOf, chunkRows>>,
         \A f \in File : FileExists(f)' <=> FileExists(f),
         pending' \subseteq pending, spawned' \subseteq spawned,
         UNCHANGED <<locks, req>> \/ \A r \in Req : req'[r].at = "idle"
  PROVE  IndInv'
<1> USE DEF TypeOK
<1>1. RowInv'
  BY DEF IndInv, RowInv, VersionExists
<1>2. QueueInv'
  BY DEF IndInv, QueueInv
<1>3. ActiveIsCurrent'
  BY DEF IndInv, ActiveIsCurrent
<1>4. RequestInv'
  <2>1. CASE UNCHANGED <<locks, req>>
    <3> SUFFICES ASSUME NEW r \in Req
                 PROVE  (HoldsVersion(r) /\ HoldsFile(r) /\ KnowsUpload(r) /\ KnowsFiles(r))'
      BY DEF RequestInv
    <3>1. HoldsVersion(r) /\ HoldsFile(r) /\ KnowsUpload(r) /\ KnowsFiles(r)
      BY DEF IndInv, RequestInv
    <3> QED
      BY <2>1, <3>1 DEF HoldsVersion, HoldsFile, KnowsUpload, KnowsFiles, VersionsOf
  <2>2. CASE \A r \in Req : req'[r].at = "idle"
    BY <2>2 DEF RequestInv, HoldsVersion, HoldsFile, KnowsUpload, KnowsFiles
  <2> QED
    BY <2>1, <2>2
<1> QED
  BY <1>1, <1>2, <1>3, <1>4 DEF IndInv

\* The client's PUTs, trash and restore, time, spawned deletions and crashes.
LEMMA EnvironmentInv ==
  ASSUME TypeOK, IndInv, Environment
  PROVE  IndInv'
<1> USE DEF TypeOK
<1>1. ASSUME NEW k \in Key, PutChunk(k) \/ BestEffortDelete(k) PROVE IndInv'
  BY <1>1, QuietStepInv DEF PutChunk, BestEffortDelete, dbVars, FileExists
<1>2. ASSUME NEW f \in File, TrashFile(f) \/ RestoreFile(f) PROVE IndInv'
  <2>1. \A g \in File : FileExists(g)' <=> FileExists(g)
    BY <1>2 DEF TrashFile, RestoreFile, FileExists
  <2> QED
    BY <1>2, <2>1, QuietStepInv DEF TrashFile, RestoreFile
<1>3. ASSUME NEW v \in Version, Age(v) PROVE IndInv'
  BY <1>3, QuietStepInv DEF Age, dbVars, FileExists
<1>4. CASE Crash
  <2>1. \A r \in Req : req'[r].at = "idle"
    BY <1>4 DEF Crash, IdleReq
  <2> QED
    BY <1>4, <2>1, QuietStepInv DEF Crash, dbVars, FileExists
<1> QED
  BY <1>1, <1>2, <1>3, <1>4 DEF Environment

\* The background task.
LEMMA BackgroundInv ==
  ASSUME TypeOK, IndInv, Background
  PROVE  IndInv'
<1> USE DEF TypeOK
<1>1. CASE SweepScan \/ SweepObjects \/ RetryFetch \/ RetryDelete \/ RetryDeleteFails
  <2>1. UNCHANGED <<dbVars, spawned, locks, req>>
    BY <1>1 DEF SweepScan, SweepObjects, RetryFetch, RetryDelete, RetryDeleteFails
  <2> QED
    BY <2>1, QuietStepInv DEF dbVars, FileExists
<1>2. ASSUME NEW gone, RetryConfirm(gone) PROVE IndInv'
  BY <1>2, QuietStepInv DEF RetryConfirm, FileExists
<1>3. CASE SweepRows
  <2>0. RowInv /\ RequestInv /\ QueueInv /\ ActiveIsCurrent
    BY DEF IndInv
  <2>1. DeleteRows({}, Orphaned, {}) /\ UNCHANGED <<pending, spawned, locks, req>>
    BY <1>3 DEF SweepRows
  <2>2. /\ VersionsOf({}) = {} /\ {} \in SUBSET File /\ {} \in SUBSET Version
        /\ Orphaned \in SUBSET Version /\ \A v \in Orphaned : verSt[v] = "inactive"
    BY DEF VersionsOf, Orphaned
  <2>3. /\ \A v \in Orphaned \cup VersionsOf({}) : locks[v] \in {Null, Null}
        /\ \A v \in Orphaned \cup VersionsOf({}) :
              verSt[v] = "active" => locks[fileOf[v]] \in {Null, Null}
    BY <1>3, <2>2 DEF SweepRows
  <2>4. RowInv' /\ RequestInv' /\ ActiveIsCurrent'
    BY <2>0, <2>1, <2>2, <2>3, ConstantsAssumption, DeleteRowsInv
  <2>5. QueueInv'
    BY <2>0, <2>1, <2>2, DeleteQueueInv
  <2> QED
    BY <2>4, <2>5 DEF IndInv
<1> QED
  BY <1>1, <1>2, <1>3 DEF Background

\* IndInv is inductive.
THEOREM IndInvCorrect == Spec => []IndInv
<1>1. Init => IndInv
  BY DEF Init, IndInv, RowInv, RequestInv, QueueInv, ActiveIsCurrent, HoldsVersion, HoldsFile,
         KnowsUpload, KnowsFiles, IdleReq, VersionExists
<1>2. TypeOK /\ IndInv /\ [Next]_vars => IndInv'
  <2> SUFFICES ASSUME TypeOK, IndInv, [Next]_vars PROVE IndInv'
    OBVIOUS
  <2>1. ASSUME NEW r \in Req, Upload(r) PROVE IndInv'
    <3>1. ASSUME NEW f \in File, NEW v \in Version,
                 CreateFileInsert(r, f, v) \/ BulkInitUploads(r, f, v)
          PROVE  IndInv'
      <4>1. PICK c : InsertFile(f, v, c) /\ Finish(r) /\ UNCHANGED spawned
        BY <3>1 DEF CreateFileInsert, BulkInitUploads
      <4> QED
        BY <4>1, InsertInv DEF InsertFile
    <3>2. ASSUME NEW v \in Version, CreateVersionInsert(r, v) PROVE IndInv'
      <4>1. req[r].file \in File
        BY <3>2 DEF CreateVersionInsert, IndInv, RequestInv, KnowsFiles
      <4> QED
        BY <3>2, <4>1, InsertInv DEF CreateVersionInsert
    <3>3. CASE CompleteUploadCommit(r)
      <4>1. CASE Activate(r)
        BY <3>3, <4>1, ActivateInv DEF CompleteUploadCommit
      <4>2. CASE UNCHANGED <<verSt, current>>
        BY <3>3, <4>2, FinishKnows, ReadStepInv DEF CompleteUploadCommit
      <4> QED
        BY <3>3, <4>1, <4>2 DEF CompleteUploadCommit
    <3>4. CASE RestoreVersionCommit(r)
      BY <3>4, ActivateInv DEF RestoreVersionCommit
    <3>5. CASE CreateFileGhost(r)
      BY <3>5, RemovalCommitsInv
    <3> QED
      BY <2>1, <3>1, <3>2, <3>3, <3>4, <3>5, UploadReadsInv DEF Upload
  <2>2. ASSUME NEW r \in Req, Removal(r) PROVE IndInv'
    BY <2>2, RemovalReadsInv, RemovalCommitsInv DEF Removal
  <2>3. CASE UNCHANGED vars
    BY <2>3, QuietStepInv DEF vars, dbVars, FileExists
  <2> QED
    BY <2>1, <2>2, <2>3, EnvironmentInv, BackgroundInv DEF Next
<1> QED
  BY <1>1, <1>2, TypeCorrect, PTL DEF Spec

\* complete_upload and restore_version swap the version pointer atomically: an active version
\* is always its file's current one, whatever requests, crashes and background steps interleave.
THEOREM PointerSwapSafe == Spec => []ActiveIsCurrent
<1>1. IndInv => ActiveIsCurrent
  BY DEF IndInv
<1> QED
  BY <1>1, IndInvCorrect, PTL

\* No path through the removals or the cleanup queues an object whose chunk row is still there.
THEOREM QueueSafe == Spec => []QueuedUnreferenced
<1>1. IndInv => QueuedUnreferenced
  BY DEF IndInv, QueueInv, QueuedUnreferenced
<1> QED
  BY <1>1, IndInvCorrect, PTL
=============================================================================
