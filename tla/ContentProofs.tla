---------------------------- MODULE ContentProofs ---------------------------
(***************************************************************************)
(* Proofs about the content of versions in FileVersions: what is complete, *)
(* shown or deduplicated can be read, and no object is forgotten.  For     *)
(* every number of files, versions, chunks and requests.                   *)
(***************************************************************************)
EXTENDS FileVersionsProofs

-----------------------------------------------------------------------------
(* What a step can do, whichever it is *)

\* Version ids are used once, chunk rows come and go with their version.
RowFacts ==
    /\ \A v \in Version : verSt[v] # "none" => verSt'[v] # "none" /\ fileOf'[v] = fileOf[v]
    /\ \A k \in chunkRows' \ chunkRows : k \in Key /\ verSt[k[1]] = "none"
    /\ \A k \in chunkRows \ chunkRows' : ~ VersionExists(k[1])'
    /\ \A v \in Version : VersionExists(v)' =>
          VersionExists(v) \/ (verSt[v] = "none" /\ KeysOf({v}) \subseteq chunkRows')

\* A chunk is marked by a request that knows its object, and loses its mark with its version.
MarkFacts ==
    /\ \A k \in uploadedAt \ uploadedAt' : ~ VersionExists(k[1])'
    /\ \A k \in uploadedAt' \ uploadedAt :
          k \in chunkRows /\ \E r \in Req : req[r].at \in {"verify_mark", "complete"} /\ k \in req[r].keys

\* Only clients store objects, only queues and the background task delete them.
ObjectFacts ==
    /\ aged \subseteq aged'
    /\ \A k \in objects' \ objects :
          k \in Key /\ verSt[k[1]] # "none" /\ (k \in chunkRows \/ "late_put" \in Feature)
    /\ \A k \in objects \ objects' :
          k \in spawned \/ (worker.at \in {"sweep_objects", "retry_delete"} /\ k \in worker.keys)

\* The steps of a request that do not end it.
Proceeds(r) ==
    \/ \E c \in Content : CreateFileCheck(r, c)
    \/ CreateFileGhost(r)
    \/ \E v \in Version, c \in Content : BulkCompleteHash(r, v, c)
    \/ BulkCompleteFileHash(r)
    \/ \E f \in File, c \in Content : CreateVersionCheck(r, f, c)
    \/ \E k \in Key : VerifyChunkHead(r, k)
    \/ \E v \in Version : \E etags \in SUBSET KeysOf({v}) : CompleteUploadLock(r, v, etags)
    \/ \E v \in Version : RestoreVersionLock(r, v) \/ DeleteVersionLock(r, v) \/ CancelUploadCheck(r, v)
    \/ CancelUploadKeys(r)
    \/ \E f \in File : PermanentlyDeleteLock(r, f)
    \/ \E F \in SUBSET File : BulkPurgeSelect(r, F) \/ CleanupEndpointSelect(r, F)
    \/ EmptyTrashSelect(r)

\* INSERT of a version that was never used.
LEMMA InsertRowFacts ==
  ASSUME TypeOK, IndInv, NEW v \in Version, NEW f \in File, NEW c, InsertVersion(v, f, c),
         UNCHANGED uploadedAt
  PROVE  RowFacts /\ MarkFacts
<1>1. /\ verSt[v] = "none"
      /\ \A w \in Version : verSt'[w] = IF w = v THEN "inactive" ELSE verSt[w]
      /\ \A w \in Version : w # v => fileOf'[w] = fileOf[w]
      /\ chunkRows' = chunkRows \cup KeysOf({v})
  BY DEF TypeOK, InsertVersion
<1>2. RowFacts
  BY <1>1 DEF RowFacts, VersionExists, KeysOf, Key
<1> QED
  BY <1>2 DEF MarkFacts

\* A swap of the pointer touches existing versions only.
LEMMA ActivateRowFacts ==
  ASSUME TypeOK, IndInv, NEW r \in Req, req[r].at \in {"complete", "restore"}, Activate(r),
         UNCHANGED <<fileOf, chunkRows>>
  PROVE  RowFacts /\ \A v \in Version : VersionExists(v)' <=> VersionExists(v)
<1>1. HoldsVersion(r) /\ HoldsFile(r)
  BY DEF IndInv, RequestInv
<1>2. /\ verSt[req[r].version] = "inactive"
      /\ \A w \in req[r].stale : verSt[w] = "active"
  BY <1>1 DEF HoldsVersion, HoldsFile
<1>3. \A w \in Version : verSt'[w] = IF w = req[r].version THEN "active"
                                     ELSE IF w \in req[r].stale THEN "inactive" ELSE verSt[w]
  BY DEF Activate
<1>4. \A v \in Version : VersionExists(v)' <=> VersionExists(v)
  BY <1>2, <1>3 DEF VersionExists
<1>5. \A v \in Version : verSt[v] # "none" => verSt'[v] # "none"
  BY <1>3
<1> QED
  BY <1>4, <1>5 DEF RowFacts

\* DELETE takes the chunk rows of versions that go or have gone.
LEMMA DeleteRowFacts ==
  ASSUME TypeOK, NEW F, NEW V, NEW C, DeleteRows(F, V, C),
         \A v \in C : VersionExists(v) => v \in V \cup VersionsOf(F)
  PROVE  RowFacts /\ MarkFacts
<1> DEFINE dead == V \cup VersionsOf(F)
<1>1. /\ \A v \in Version : verSt'[v] = IF v \in dead THEN "gone" ELSE verSt[v]
      /\ chunkRows' = {k \in chunkRows : k[1] \notin dead \cup C}
      /\ uploadedAt' = {k \in uploadedAt : k[1] \notin dead \cup C}
      /\ fileOf' = fileOf
  BY DEF TypeOK, DeleteRows
<1> HIDE DEF dead
<1>2. \A v \in dead \cup C : v \in Version => ~ VersionExists(v)'
  BY <1>1 DEF VersionExists, dead
<1>3. \A v \in Version : VersionExists(v)' => VersionExists(v)
  BY <1>1 DEF VersionExists
<1>4. \A v \in Version : verSt[v] # "none" => verSt'[v] # "none"
  BY <1>1
<1>5. \A k \in chunkRows \cup uploadedAt : k[1] \in Version
  BY DEF TypeOK, Key
<1>6. RowFacts
  BY <1>1, <1>2, <1>3, <1>4, <1>5 DEF RowFacts
<1>7. MarkFacts
  BY <1>1, <1>2, <1>5 DEF MarkFacts
<1> QED
  BY <1>6, <1>7

\* A version that cancel_upload takes the chunk rows of goes itself: inactive by its own DELETE,
\* active with its file, whose current version it is.
LEMMA CancelTakesVersion ==
  ASSUME TypeOK, IndInv, NEW r \in Req, CancelUploadCommit(r)
  PROVE  \E F \in SUBSET File, V \in SUBSET Version :
            /\ DeleteRows(F, V, {req[r].version})
            /\ F \subseteq {req[r].file} /\ V \subseteq {req[r].version}
            /\ VersionExists(req[r].version) => req[r].version \in V \cup VersionsOf(F)
            /\ \A v \in V : verSt[v] = "inactive"
            /\ \A f \in F : current[f] = req[r].version
<1> DEFINE v == req[r].version
           f == req[r].file
           dv == IF verSt[v] = "inactive" THEN {v} ELSE {}
           df == IF current[f] = v /\ v \notin dv THEN {f} ELSE {}
<1>1. req[r].at = "cancel_commit" /\ DeleteRows(df, dv, {v})
  BY DEF CancelUploadCommit
<1>2. v \in Version /\ f \in File /\ fileOf[v] = f
  BY <1>1 DEF IndInv, RequestInv, KnowsUpload
<1>3. verSt[v] = "active" => current[f] = v
  BY <1>2 DEF IndInv, ActiveIsCurrent
<1>4. VersionExists(v) => v \in dv \cup VersionsOf(df)
  BY <1>2, <1>3 DEF VersionExists, VersionsOf
<1>5. /\ df \in SUBSET {f} /\ dv \in SUBSET {v} /\ \A w \in dv : verSt[w] = "inactive"
      /\ \A g \in df : current[g] = v
  OBVIOUS
<1>6. df \in SUBSET File /\ dv \in SUBSET Version
  BY <1>2, <1>5
<1> HIDE DEF df, dv
<1> QED
  BY <1>1, <1>4, <1>5, <1>6

\* The steps of a request that write rows.
LEMMA CommitFacts ==
  ASSUME TypeOK, IndInv, NEW r \in Req,
         \/ CreateFileGhost(r)
         \/ \E f \in File, v \in Version : CreateFileInsert(r, f, v) \/ BulkInitUploads(r, f, v)
         \/ \E v \in Version : CreateVersionInsert(r, v)
         \/ VerifyChunkMark(r) \/ CompleteUploadCommit(r) \/ RestoreVersionCommit(r)
         \/ DeleteVersionCommit(r) \/ CancelUploadCommit(r) \/ PurgeCommit(r)
  PROVE  RowFacts /\ MarkFacts
<1>1. CASE CreateFileGhost(r)
  BY <1>1, DeleteRowFacts DEF CreateFileGhost
<1>2. ASSUME NEW f \in File, NEW v \in Version, CreateFileInsert(r, f, v) \/ BulkInitUploads(r, f, v)
      PROVE  RowFacts /\ MarkFacts
  <2>1. PICK c : InsertFile(f, v, c)
    BY <1>2 DEF CreateFileInsert, BulkInitUploads
  <2> QED
    BY <2>1, InsertRowFacts DEF InsertFile
<1>3. ASSUME NEW v \in Version, CreateVersionInsert(r, v) PROVE RowFacts /\ MarkFacts
  <2>1. req[r].file \in File
    BY <1>3 DEF CreateVersionInsert, IndInv, RequestInv, KnowsFiles
  <2> QED
    BY <1>3, <2>1, InsertRowFacts DEF CreateVersionInsert
<1>4. CASE VerifyChunkMark(r)
  <2>1. UNCHANGED <<verSt, fileOf, chunkRows>>
    BY <1>4 DEF VerifyChunkMark
  <2>2. RowFacts
    BY <2>1 DEF RowFacts, VersionExists
  <2> QED
    BY <1>4, <2>2 DEF VerifyChunkMark, MarkFacts
<1>5. CASE CompleteUploadCommit(r)
  <2>1. /\ req[r].at = "complete" /\ UNCHANGED <<fileOf, chunkRows>>
        /\ uploadedAt' = uploadedAt \cup (req[r].keys \cap chunkRows)
        /\ Activate(r) \/ UNCHANGED verSt
    BY <1>5 DEF CompleteUploadCommit
  <2>2. RowFacts
    BY <2>1, ActivateRowFacts DEF RowFacts, VersionExists
  <2> QED
    BY <2>1, <2>2 DEF MarkFacts
<1>6. CASE RestoreVersionCommit(r)
  BY <1>6, ActivateRowFacts DEF RestoreVersionCommit, MarkFacts
<1>7. CASE DeleteVersionCommit(r)
  BY <1>7, DeleteRowFacts DEF DeleteVersionCommit
<1>8. CASE CancelUploadCommit(r)
  <2>1. PICK F \in SUBSET File, V \in SUBSET Version :
            /\ DeleteRows(F, V, {req[r].version})
            /\ VersionExists(req[r].version) => req[r].version \in V \cup VersionsOf(F)
    BY <1>8, CancelTakesVersion
  <2> QED
    BY <2>1, DeleteRowFacts
<1>9. CASE PurgeCommit(r)
  BY <1>9, DeleteRowFacts DEF PurgeCommit
<1> QED
  BY <1>1, <1>2, <1>3, <1>4, <1>5, <1>6, <1>7, <1>8, <1>9

\* The steps that leave versions, chunk rows and marks alone.
LEMMA QuietFacts ==
  ASSUME UNCHANGED <<verSt, fileOf, chunkRows, uploadedAt>>
  PROVE  RowFacts /\ MarkFacts
  BY DEF RowFacts, MarkFacts, VersionExists

\* A step of a request stores and deletes no object.
LEMMA RequestKeepsObjects ==
  ASSUME NEW r \in Req, Upload(r) \/ Removal(r)
  PROVE  UNCHANGED <<aged, objects, worker>>
  BY DEF Upload, Removal, CreateFileCheck, CreateFileDedup, CreateFileGhost, CreateFileInsert,
     BulkInitUploads, BulkCompleteHash, BulkCompleteFileHash, CreateVersionCheck,
     CreateVersionInsert, VerifyChunkHead, VerifyChunkMark, CompleteUploadLock,
     CompleteUploadCommit, RestoreVersionLock, RestoreVersionCommit, DeleteVersionLock,
     DeleteVersionCommit, CancelUploadCheck, CancelUploadKeys, CancelUploadCommit,
     PermanentlyDeleteLock, BulkPurgeSelect, EmptyTrashSelect, CleanupEndpointSelect,
     PurgeCommit, Abort

\* Every step.
LEMMA StepFacts ==
  ASSUME TypeOK, IndInv, [Next]_vars
  PROVE  RowFacts /\ MarkFacts /\ ObjectFacts
<1>1. ASSUME NEW r \in Req, Upload(r) \/ Removal(r) PROVE RowFacts /\ MarkFacts /\ ObjectFacts
  <2>1. ObjectFacts
    BY <1>1, RequestKeepsObjects DEF ObjectFacts
  <2>2. RowFacts /\ MarkFacts
    BY <1>1, CommitFacts, QuietFacts
    DEF Upload, Removal, CreateFileCheck, CreateFileDedup, BulkCompleteHash,
        BulkCompleteFileHash, CreateVersionCheck, VerifyChunkHead, CompleteUploadLock,
        RestoreVersionLock, DeleteVersionLock, CancelUploadCheck, CancelUploadKeys,
        PermanentlyDeleteLock, BulkPurgeSelect, EmptyTrashSelect, CleanupEndpointSelect, Abort,
        dbVars
  <2> QED
    BY <2>1, <2>2
<1>2. CASE Environment
  <2>1. RowFacts /\ MarkFacts
    BY <1>2, QuietFacts
    DEF Environment, PutChunk, TrashFile, RestoreFile, BestEffortDelete, Age, Crash, dbVars
  <2>2. ObjectFacts
    BY <1>2
    DEF Environment, PutChunk, TrashFile, RestoreFile, BestEffortDelete, Age, Crash, ObjectFacts
  <2> QED
    BY <2>1, <2>2
<1>3. CASE Background
  <2>1. RowFacts /\ MarkFacts
    BY <1>3, QuietFacts, DeleteRowFacts
    DEF Background, SweepScan, SweepObjects, SweepRows, RetryFetch, RetryDelete,
        RetryDeleteFails, RetryConfirm, dbVars
  <2>2. ObjectFacts
    BY <1>3
    DEF Background, SweepScan, SweepObjects, SweepRows, RetryFetch, RetryDelete,
        RetryDeleteFails, RetryConfirm, ObjectFacts
  <2> QED
    BY <2>1, <2>2
<1>4. CASE UNCHANGED vars
  BY <1>4, QuietFacts DEF vars, dbVars, ObjectFacts
<1> QED
  BY <1>1, <1>2, <1>3, <1>4 DEF Next

\* A request stays where it is, ends, or takes one of the steps of Proceeds; until it ends it
\* keeps its locks.
LEMMA RequestSteps ==
  ASSUME TypeOK, [Next]_vars, NEW r \in Req
  PROVE  /\ req'[r] = req[r] \/ req'[r].at = "idle" \/ Proceeds(r)
         /\ req'[r].at = "idle" \/ \A x \in File \cup Version : locks[x] = r => locks'[x] = r
<1>1. ASSUME NEW q \in Req, Upload(q) \/ Removal(q)
      PROVE  /\ \A s \in Req \ {q} : req'[s] = req[s]
             /\ \A s \in Req \ {q} : \A x \in File \cup Version : locks[x] = s => locks'[x] = s
             /\ req'[q].at = "idle" \/ Proceeds(q)
             /\ req'[q].at = "idle" \/ \A x \in File \cup Version : locks[x] = q => locks'[x] = q
  <2>1. CASE Finish(q)
    BY <2>1, FinishKnows
  <2>2. CASE Proceeds(q)
    <3>1. \E p : Goto(q, p)
      BY <2>2 DEF Proceeds, CreateFileCheck, CreateFileGhost, BulkCompleteHash,
         BulkCompleteFileHash, CreateVersionCheck, VerifyChunkHead, CompleteUploadLock,
         RestoreVersionLock, DeleteVersionLock, CancelUploadCheck, CancelUploadKeys,
         PermanentlyDeleteLock, BulkPurgeSelect, EmptyTrashSelect, CleanupEndpointSelect
    <3>2. UNCHANGED locks \/ \E rows : Lock(q, rows)
      BY <2>2 DEF Proceeds, CreateFileCheck, CreateFileGhost, BulkCompleteHash,
         BulkCompleteFileHash, CreateVersionCheck, VerifyChunkHead, CompleteUploadLock,
         RestoreVersionLock, DeleteVersionLock, CancelUploadCheck, CancelUploadKeys,
         PermanentlyDeleteLock, BulkPurgeSelect, EmptyTrashSelect, CleanupEndpointSelect,
         LockVersion
    <3>3. \A s \in Req \ {q} : req'[s] = req[s]
      BY <3>1 DEF Goto, TypeOK
    <3>4. \A s \in Req : \A x \in File \cup Version : locks[x] = s => locks'[x] = s
      BY <3>2, ConstantsAssumption DEF Lock, Available, TypeOK
    <3> QED
      BY <2>2, <3>3, <3>4
  <2> QED
    BY <1>1, <2>1, <2>2 DEF Upload, Removal, Proceeds, CreateFileDedup, CreateFileInsert,
       BulkInitUploads, CreateVersionInsert, VerifyChunkMark, CompleteUploadCommit,
       RestoreVersionCommit, DeleteVersionCommit, CancelUploadCommit, PurgeCommit, Abort
<1>2. CASE Environment
  BY <1>2 DEF Environment, PutChunk, TrashFile, RestoreFile, BestEffortDelete, Age, Crash, IdleReq
<1>3. CASE Background
  BY <1>3 DEF Background, SweepScan, SweepObjects, SweepRows, RetryFetch, RetryDelete,
     RetryDeleteFails, RetryConfirm
<1>4. CASE UNCHANGED vars
  BY <1>4 DEF vars
<1> QED
  BY <1>1, <1>2, <1>3, <1>4 DEF Next

\* What a purge has read.
LEMMA PurgeRequestFields ==
  ASSUME NEW point, NEW F
  PROVE  /\ PurgeRequest(point, F).at = point /\ PurgeRequest(point, F).files = F
         /\ PurgeRequest(point, F).keys = RowKeys(VersionsOf(F))
  BY DEF PurgeRequest, IdleReq

\* Which step takes a request where.
LEMMA ProceedsTo ==
  ASSUME TypeOK, NEW r \in Req, Proceeds(r)
  PROVE  /\ req'[r].at = "create_head" => \E c \in Content : CreateFileCheck(r, c)
         /\ req'[r].at = "bulk_file_hash" =>
               \E v \in Version, c \in Content : BulkCompleteHash(r, v, c)
         /\ req'[r].at = "version_insert" =>
               \E f \in File, c \in Content : CreateVersionCheck(r, f, c)
         /\ req'[r].at = "verify_mark" => \E k \in Key : VerifyChunkHead(r, k)
         /\ req'[r].at = "complete" =>
               \E v \in Version : \E etags \in SUBSET KeysOf({v}) : CompleteUploadLock(r, v, etags)
         /\ req'[r].at = "restore" => \E v \in Version : RestoreVersionLock(r, v)
         /\ req'[r].at = "delete_version" => \E v \in Version : DeleteVersionLock(r, v)
         /\ req'[r].at = "cancel_keys" => \E v \in Version : CancelUploadCheck(r, v)
         /\ req'[r].at = "cancel_commit" => CancelUploadKeys(r)
         /\ req'[r].at = "purge" => \/ \E f \in File : PermanentlyDeleteLock(r, f)
                                    \/ \E F \in SUBSET File : BulkPurgeSelect(r, F)
                                    \/ EmptyTrashSelect(r)
         /\ req'[r].at = "cleanup" => \E F \in SUBSET File : CleanupEndpointSelect(r, F)
<1> USE DEF TypeOK, Goto, IdleReq
<1>1. ASSUME NEW c \in Content, CreateFileCheck(r, c)
      PROVE  req'[r].at \in {"create_head", "create_insert"}
  <2>1. CASE Goto(r, [IdleReq EXCEPT !.at = "create_insert", !.hash = c])
    BY <2>1
  <2>2. ASSUME NEW f \in File,
               Goto(r, [IdleReq EXCEPT !.at = "create_head", !.hash = c,
                                       !.file = f, !.version = current[f]])
        PROVE  req'[r].at = "create_head"
    BY <2>2
  <2> HIDE DEF TypeOK, Goto, IdleReq
  <2> QED
    BY <1>1, <2>1, <2>2 DEF CreateFileCheck, DedupCandidates
<1>2. CreateFileGhost(r) => req'[r].at = "create_insert"
  BY DEF CreateFileGhost
<1>3. ASSUME NEW v \in Version, NEW c \in Content, BulkCompleteHash(r, v, c)
      PROVE  req'[r].at = "bulk_file_hash"
  BY <1>3 DEF BulkCompleteHash
<1>4. BulkCompleteFileHash(r) => req'[r].at = "bulk_complete"
  BY DEF BulkCompleteFileHash, Request
<1>5. ASSUME NEW f \in File, NEW c \in Content, CreateVersionCheck(r, f, c)
      PROVE  req'[r].at = "version_insert"
  BY <1>5 DEF CreateVersionCheck
<1>6. ASSUME NEW k \in Key, VerifyChunkHead(r, k) PROVE req'[r].at = "verify_mark"
  BY <1>6 DEF VerifyChunkHead
<1>7. ASSUME NEW v \in Version, NEW etags \in SUBSET KeysOf({v}), CompleteUploadLock(r, v, etags)
      PROVE  req'[r].at = "complete"
  BY <1>7 DEF CompleteUploadLock
<1>8. ASSUME NEW v \in Version
      PROVE  /\ RestoreVersionLock(r, v) => req'[r].at = "restore"
             /\ DeleteVersionLock(r, v) => req'[r].at = "delete_version"
             /\ CancelUploadCheck(r, v) => req'[r].at = "cancel_keys"
  <2>1. RestoreVersionLock(r, v) => req'[r].at = "restore"
    BY DEF RestoreVersionLock
  <2>2. DeleteVersionLock(r, v) => req'[r].at = "delete_version"
    BY DEF DeleteVersionLock
  <2>3. CancelUploadCheck(r, v) => req'[r].at = "cancel_keys"
    BY DEF CancelUploadCheck
  <2> QED
    BY <2>1, <2>2, <2>3
<1>9. CancelUploadKeys(r) => req'[r].at = "cancel_commit"
  BY DEF CancelUploadKeys, Request
<1>10. ASSUME NEW f \in File, PermanentlyDeleteLock(r, f) PROVE req'[r].at = "purge"
  BY <1>10, PurgeRequestFields DEF PermanentlyDeleteLock
<1>11. ASSUME NEW F \in SUBSET File
       PROVE  /\ BulkPurgeSelect(r, F) => req'[r].at = "purge"
              /\ CleanupEndpointSelect(r, F) => req'[r].at = "cleanup"
  BY PurgeRequestFields DEF BulkPurgeSelect, CleanupEndpointSelect
<1>12. EmptyTrashSelect(r) => req'[r].at = "purge"
  BY PurgeRequestFields DEF EmptyTrashSelect
<1> QED
  BY <1>1, <1>2, <1>3, <1>4, <1>5, <1>6, <1>7, <1>8, <1>9, <1>10, <1>11, <1>12 DEF Proceeds

-----------------------------------------------------------------------------
(* What is marked as uploaded is stored *)

\* An object that goes has lost its row or belongs to a version older than a day.
LEMMA LostObjects ==
  ASSUME TypeOK, IndInv, WorkerInv, ObjectFacts, NEW k \in objects \ objects'
  PROVE  k \notin chunkRows \/ k[1] \in aged
  BY DEF ObjectFacts, IndInv, QueueInv, WorkerInv

\* WholeRows, by what a step can do to rows.
LEMMA WholeRowsStep ==
  ASSUME TypeOK, WholeRows, RowFacts
  PROVE  WholeRows'
<1> SUFFICES ASSUME NEW v \in Version, VersionExists(v)' PROVE KeysOf({v}) \subseteq chunkRows'
  BY DEF WholeRows, KeysOf
<1>1. CASE KeysOf({v}) \subseteq chunkRows'
  BY <1>1
<1>2. CASE VersionExists(v)
  <2>1. KeysOf({v}) \subseteq chunkRows /\ \A k \in KeysOf({v}) : k[1] = v
    BY <1>2 DEF WholeRows, KeysOf
  <2> QED
    BY <2>1 DEF RowFacts, VersionExists
<1> QED
  BY <1>1, <1>2 DEF RowFacts

\* The background task only ever holds keys it may delete.
LEMMA WorkerStep ==
  ASSUME TypeOK, IndInv, WorkerInv, [Next]_vars
  PROVE  WorkerInv'
<1>1. RowFacts /\ ObjectFacts
  BY StepFacts
<1>2. ASSUME UNCHANGED worker PROVE WorkerInv'
  <2>1. \A k \in worker.keys : k \in Key /\ k[1] \in Version
    BY DEF TypeOK, Key
  <2> QED
    BY <1>1, <1>2, <2>1 DEF WorkerInv, RowFacts, ObjectFacts
<1>3. CASE SweepScan
  BY <1>3 DEF SweepScan, WorkerInv, RowKeys, Orphaned
<1>4. CASE RetryFetch
  <2>1. PICK B \in SUBSET pending :
            worker' = [at |-> IF B = {} THEN "tick" ELSE "retry_delete", keys |-> B]
    BY <1>4 DEF RetryFetch
  <2>2. UNCHANGED <<chunkRows, verSt>>
    BY <1>4 DEF RetryFetch, dbVars
  <2> QED
    BY <2>1, <2>2 DEF IndInv, QueueInv, WorkerInv
<1>5. CASE RetryDelete
  BY <1>5 DEF RetryDelete, WorkerInv, TypeOK, dbVars
<1>6. CASE worker'.at \in {"tick", "retry", "sweep_rows"}
  BY <1>6 DEF WorkerInv
<1> QED
  BY <1>2, <1>3, <1>4, <1>5, <1>6, RequestKeepsObjects
  DEF Next, Environment, Background, vars, PutChunk, TrashFile, RestoreFile, BestEffortDelete,
      Age, Crash, SweepObjects, SweepRows, RetryDeleteFails, RetryConfirm

\* What a request is about to mark.
LEMMA MarksStep ==
  ASSUME TypeOK, IndInv, StoredInv, [Next]_vars, NEW r \in Req
  PROVE  Marks(r)'
<1>1. RowFacts /\ ObjectFacts /\ WorkerInv
  BY StepFacts DEF StoredInv
<1>2. CASE req'[r] = req[r]
  <2> SUFFICES ASSUME req[r].at \in {"verify_mark", "complete"}, NEW k \in req[r].keys
               PROVE  /\ verSt'[k[1]] # "none"
                      /\ k \in objects' \/ k \notin chunkRows' \/ k[1] \in aged'
    BY <1>2 DEF Marks
  <2>1. k \in Key /\ k[1] \in Version
    BY DEF TypeOK, Request, Key
  <2>2. verSt[k[1]] # "none" /\ (k \in objects \/ k \notin chunkRows \/ k[1] \in aged)
    BY DEF StoredInv, Marks
  <2> QED
    BY <1>1, <2>1, <2>2, LostObjects DEF RowFacts, ObjectFacts
<1>3. CASE req'[r].at = "idle"
  BY <1>3 DEF Marks
<1>4. ASSUME NEW k \in Key, VerifyChunkHead(r, k) PROVE Marks(r)'
  <2>1. req'[r].keys = {k} /\ k \in objects' /\ verSt' = verSt /\ k \in objects
    BY <1>4 DEF VerifyChunkHead, Goto, IdleReq, TypeOK, dbVars
  <2> QED
    BY <2>1 DEF Marks, StoredInv
<1>5. ASSUME NEW v \in Version, NEW etags \in SUBSET KeysOf({v}), CompleteUploadLock(r, v, etags)
      PROVE  Marks(r)'
  <2>1. req'[r].keys = etags /\ etags \subseteq objects /\ objects' = objects /\ verSt' = verSt
    BY <1>5 DEF CompleteUploadLock, Goto, IdleReq, TypeOK, dbVars
  <2> QED
    BY <2>1 DEF Marks, StoredInv
<1>6. CASE req'[r].at \notin {"verify_mark", "complete"}
  BY <1>6 DEF Marks
<1> QED
  BY <1>2, <1>3, <1>4, <1>5, <1>6, RequestSteps, ProceedsTo

\* StoredInv is inductive together with IndInv, with every operation and event.
LEMMA StoredStep ==
  ASSUME TypeOK, IndInv, StoredInv, [Next]_vars
  PROVE  StoredInv'
<1>1. RowFacts /\ MarkFacts /\ ObjectFacts
  BY StepFacts
<1>2. WholeRows' /\ WorkerInv' /\ \A r \in Req : Marks(r)'
  BY <1>1, WholeRowsStep, WorkerStep, MarksStep DEF StoredInv
<1>3. ASSUME NEW k \in uploadedAt' PROVE k \in objects' \/ k[1] \in aged'
  <2>1. k \in chunkRows /\ (k \in objects \/ k[1] \in aged)
    BY <1>1, <1>3 DEF MarkFacts, StoredInv, Marks, TypeOK
  <2> QED
    BY <1>1, <2>1, LostObjects DEF ObjectFacts, StoredInv
<1>4. ASSUME NEW k \in objects' PROVE verSt'[k[1]] # "none"
  <2>1. k \in Key /\ verSt[k[1]] # "none"
    BY <1>1, <1>4 DEF StoredInv, ObjectFacts, TypeOK
  <2>2. k[1] \in Version
    BY <2>1 DEF Key
  <2> QED
    BY <1>1, <2>1, <2>2 DEF RowFacts
<1> QED
  BY <1>2, <1>3, <1>4 DEF StoredInv

\* StoredInv holds whatever operations and events an instance has.
THEOREM StoredCorrect == Spec => []StoredInv
<1>1. Init => StoredInv
  BY DEF Init, StoredInv, WholeRows, WorkerInv, Marks, IdleReq, VersionExists
<1>2. TypeOK /\ IndInv /\ StoredInv /\ [Next]_vars => StoredInv'
  BY StoredStep
<1> QED
  BY <1>1, <1>2, TypeCorrect, IndInvCorrect, PTL DEF Spec

\* precheck_version_completeness and verify_download_completeness tell the truth: a version they
\* call complete has every chunk row and every object until it is a day old, although chunks are
\* marked by requests that took no lock and rows are deleted beside them.
THEOREM CompleteDownloadable == Spec => []CompleteIsDownloadable
<1>1. TypeOK /\ StoredInv => CompleteIsDownloadable
  <2> SUFFICES ASSUME TypeOK, StoredInv, NEW v \in Version \ aged, IsComplete(v)
               PROVE  RowKeys({v}) = KeysOf({v}) /\ RowKeys({v}) \subseteq objects
    BY DEF CompleteIsDownloadable, DownloadManifest
  <2>1. VersionExists(v) /\ RowKeys({v}) \subseteq uploadedAt
    BY DEF IsComplete, MissingChunks
  <2>2. RowKeys({v}) = KeysOf({v})
    BY <2>1 DEF StoredInv, WholeRows, RowKeys, KeysOf, TypeOK, Key
  <2>3. \A k \in RowKeys({v}) : k[1] = v
    BY DEF RowKeys
  <2> QED
    BY <2>1, <2>2, <2>3 DEF StoredInv
<1> QED
  BY <1>1, TypeCorrect, StoredCorrect, PTL

-----------------------------------------------------------------------------
(* A request is where it is by an operation that the instance has *)

LEMMA FeatureStep ==
  ASSUME TypeOK, FeatureInv, [Next]_vars
  PROVE  FeatureInv'
<1>1. aged' = aged \/ "age" \in Feature
  <2>1. CASE Environment
    BY <2>1 DEF Environment, PutChunk, TrashFile, RestoreFile, BestEffortDelete, Age, Crash
  <2>2. CASE Background
    BY <2>2 DEF Background, SweepScan, SweepObjects, SweepRows, RetryFetch, RetryDelete,
       RetryDeleteFails, RetryConfirm
  <2> QED
    BY <2>1, <2>2, RequestKeepsObjects DEF Next, vars
<1> DEFINE Has(r) ==
      /\ req[r].at = "version_insert" => "create_version" \in Feature
      /\ req[r].at = "restore" => "restore_version" \in Feature
      /\ req[r].at = "delete_version" => "delete_version" \in Feature
      /\ req[r].at \in {"cancel_keys", "cancel_commit"} => "cancel_upload" \in Feature
      /\ req[r].at = "cleanup" => "cleanup_endpoint" \in Feature
      /\ req[r].at = "purge" => \/ Feature \cap {"bulk_purge", "empty_trash"} # {}
                                \/ \A f \in req[r].files : locks[f] = r
<1>2. ASSUME NEW r \in Req PROVE Has(r)'
  <2>1. Has(r)
    BY DEF FeatureInv
  <2>2. CASE req'[r] = req[r]
    <3>1. req[r].files \subseteq File
      BY DEF TypeOK, Request
    <3> QED
      BY <2>1, <2>2, <3>1, RequestSteps
  <2>3. CASE req'[r].at = "idle"
    BY <2>3
  <2>4. CASE Proceeds(r)
    <3>1. req'[r].at = "version_insert" => "create_version" \in Feature
      BY <2>4, ProceedsTo DEF CreateVersionCheck
    <3>2. req'[r].at = "restore" => "restore_version" \in Feature
      BY <2>4, ProceedsTo DEF RestoreVersionLock
    <3>3. req'[r].at = "delete_version" => "delete_version" \in Feature
      BY <2>4, ProceedsTo DEF DeleteVersionLock
    <3>4. req'[r].at = "cancel_keys" => "cancel_upload" \in Feature
      BY <2>4, ProceedsTo DEF CancelUploadCheck
    <3>5. req'[r].at = "cancel_commit" => "cancel_upload" \in Feature
      BY <2>1, <2>4, ProceedsTo DEF CancelUploadKeys
    <3>6. req'[r].at = "cleanup" => "cleanup_endpoint" \in Feature
      BY <2>4, ProceedsTo DEF CleanupEndpointSelect
    <3>7. ASSUME NEW f \in File, PermanentlyDeleteLock(r, f)
          PROVE  req'[r].files = {f} /\ locks'[f] = r
      BY <3>7, PurgeRequestFields DEF PermanentlyDeleteLock, Lock, Goto, TypeOK
    <3>8. req'[r].at = "purge" => \/ Feature \cap {"bulk_purge", "empty_trash"} # {}
                                  \/ \A f \in req'[r].files : locks'[f] = r
      BY <2>4, <3>7, ProceedsTo DEF BulkPurgeSelect, EmptyTrashSelect
    <3> QED
      BY <3>1, <3>2, <3>3, <3>4, <3>5, <3>6, <3>8
  <2> QED
    BY <2>2, <2>3, <2>4, RequestSteps
<1>3. \A r \in Req : Has(r)'
  BY <1>2
<1> QED
  BY <1>1, <1>3 DEF FeatureInv

-----------------------------------------------------------------------------
(* A file shows what can be read *)

\* A version becomes active by the commit of complete_upload or restore_version, and no other way.
LEMMA Activations ==
  ASSUME TypeOK, IndInv, [Next]_vars, NEW v \in Version, verSt'[v] = "active", verSt[v] # "active"
  PROVE  \E r \in Req : /\ req[r].version = v
                        /\ Activate(r)
                        /\ \/ /\ CompleteUploadCommit(r)
                              /\ RowKeys({v}) \subseteq uploadedAt'
                           \/ RestoreVersionCommit(r)
<1> DEFINE Swaps(r) == /\ req[r].version = v
                       /\ Activate(r)
                       /\ \/ CompleteUploadCommit(r) /\ RowKeys({v}) \subseteq uploadedAt'
                          \/ RestoreVersionCommit(r)
<1>1. ASSUME NEW F, NEW V, NEW C, DeleteRows(F, V, C) PROVE FALSE
  BY <1>1 DEF DeleteRows
<1>2. ASSUME NEW w, NEW f, NEW c, InsertVersion(w, f, c) PROVE FALSE
  BY <1>2 DEF InsertVersion, TypeOK
<1>3. ASSUME UNCHANGED verSt PROVE FALSE
  BY <1>3
<1>4. ASSUME NEW r \in Req, Activate(r), req[r].at \in {"complete", "restore"} PROVE req[r].version = v
  BY <1>4 DEF Activate
<1>5. ASSUME NEW r \in Req, CompleteUploadCommit(r) PROVE Swaps(r)
  <2>1. /\ req[r].at = "complete" /\ Activate(r)
        /\ RowKeys({req[r].version}) \subseteq uploadedAt'
    BY <1>3, <1>5 DEF CompleteUploadCommit
  <2> QED
    BY <1>4, <1>5, <2>1
<1>6. ASSUME NEW r \in Req, RestoreVersionCommit(r) PROVE Swaps(r)
  BY <1>4, <1>6 DEF RestoreVersionCommit
<1> HIDE DEF Swaps
<1>7. ASSUME NEW r \in Req, Upload(r) PROVE Swaps(r)
  BY <1>1, <1>2, <1>3, <1>5, <1>6, <1>7
  DEF Upload, CreateFileCheck, CreateFileDedup, CreateFileGhost, CreateFileInsert, InsertFile,
      BulkInitUploads, BulkCompleteHash, BulkCompleteFileHash, CreateVersionCheck,
      CreateVersionInsert, VerifyChunkHead, VerifyChunkMark, CompleteUploadLock,
      RestoreVersionLock, dbVars
<1>8. ASSUME NEW r \in Req, Removal(r) PROVE FALSE
  BY <1>1, <1>3, <1>8
  DEF Removal, DeleteVersionLock, DeleteVersionCommit, CancelUploadCheck, CancelUploadKeys,
      CancelUploadCommit, PermanentlyDeleteLock, BulkPurgeSelect, EmptyTrashSelect,
      CleanupEndpointSelect, PurgeCommit, Abort, dbVars
<1>9. ASSUME Environment PROVE FALSE
  BY <1>3, <1>9
  DEF Environment, PutChunk, TrashFile, RestoreFile, BestEffortDelete, Age, Crash, dbVars
<1>10. ASSUME Background PROVE FALSE
  BY <1>1, <1>3, <1>10
  DEF Background, SweepScan, SweepObjects, SweepRows, RetryFetch, RetryDelete,
      RetryDeleteFails, RetryConfirm, dbVars
<1>11. \E r \in Req : Swaps(r)
  BY <1>3, <1>7, <1>8, <1>9, <1>10 DEF Next, vars, dbVars
<1> QED
  BY <1>11 DEF Swaps

\* Only Age makes a version older, and not while a request holds it.
LEMMA Agings ==
  ASSUME [Next]_vars, "slow_upload" \notin Feature, NEW v \in aged' \ aged
  PROVE  "age" \in Feature /\ locks[v] = Null
<1>1. CASE Environment
  BY <1>1 DEF Environment, PutChunk, TrashFile, RestoreFile, BestEffortDelete, Age, Crash
<1>2. CASE Background
  BY <1>2 DEF Background, SweepScan, SweepObjects, SweepRows, RetryFetch, RetryDelete,
     RetryDeleteFails, RetryConfirm
<1> QED
  BY <1>1, <1>2, RequestKeepsObjects DEF Next, vars

\* The background task holds keys of objects to sweep since it scanned for them.
LEMMA WorkerScans ==
  ASSUME TypeOK, [Next]_vars, worker'.at = "sweep_objects"
  PROVE  worker' = worker \/ SweepScan
<1>1. CASE Environment
  BY <1>1 DEF Environment, PutChunk, TrashFile, RestoreFile, BestEffortDelete, Age, Crash
<1>2. CASE Background
  <2>1. RetryDelete => worker'.at = "retry_head"
    BY DEF RetryDelete, TypeOK
  <2> QED
    BY <1>2, <2>1 DEF Background, SweepObjects, SweepRows, RetryFetch, RetryDeleteFails, RetryConfirm
<1> QED
  BY <1>1, <1>2, RequestKeepsObjects DEF Next, vars

\* ActiveInv is inductive where the operations of ContentSafe are the only ones.
LEMMA ActiveStep ==
  ASSUME TypeOK, IndInv, StoredInv, FeatureInv, ContentSafe, ActiveInv, [Next]_vars,
         TypeOK', IndInv', StoredInv'
  PROVE  ActiveInv'
<1>1. RowFacts /\ MarkFacts /\ ObjectFacts
  BY StepFacts
<1>2. \A k \in Key : k[1] \in Version /\ k \in KeysOf({k[1]})
  BY DEF Key, KeysOf
<1>3. ASSUME NEW r \in Req, req[r].at \in {"complete", "restore"} PROVE req[r].version \notin aged
  BY <1>3 DEF FeatureInv, ContentSafe, ActiveInv
<1>4. ASSUME NEW v \in Version, verSt'[v] = "active", verSt[v] # "active" PROVE v \notin aged
  <2>1. PICK r \in Req : req[r].version = v /\ req[r].at \in {"complete", "restore"}
    BY <1>4, Activations DEF CompleteUploadCommit, RestoreVersionCommit
  <2> QED
    BY <1>3, <2>1
<1>5. ASSUME NEW v \in Version, verSt'[v] = "active" PROVE KeysOf({v}) \subseteq uploadedAt' \cap objects'
  <2>1. VersionExists(v)' /\ \A k \in KeysOf({v}) : k \in Key /\ k[1] = v
    BY <1>5 DEF VersionExists, KeysOf, Key
  <2>2. CASE verSt[v] = "active"
    <3> SUFFICES ASSUME NEW k \in KeysOf({v}) PROVE k \in uploadedAt' /\ k \in objects'
      OBVIOUS
    <3>1. k \in uploadedAt /\ k \in objects /\ k \in chunkRows /\ k[1] = v
      BY <2>1, <2>2 DEF ActiveInv, TypeOK
    <3>2. k \in uploadedAt'
      BY <1>1, <2>1, <3>1 DEF MarkFacts, VersionExists
    <3>3. k \notin spawned /\ (worker.at = "retry_delete" => k \notin worker.keys)
      BY <3>1 DEF IndInv, QueueInv, StoredInv, WorkerInv
    <3>4. worker.at = "sweep_objects" => k \notin worker.keys
      BY <2>2, <3>1 DEF ActiveInv
    <3> QED
      BY <1>1, <3>1, <3>2, <3>3, <3>4 DEF ObjectFacts
  <2>3. CASE verSt[v] # "active"
    <3>1. PICK r \in Req : /\ req[r].version = v /\ Upload(r)
                           /\ \/ req[r].at = "complete" /\ RowKeys({v}) \subseteq uploadedAt'
                              \/ req[r].at = "restore" /\ UNCHANGED uploadedAt
      BY <1>5, <2>3, Activations DEF CompleteUploadCommit, RestoreVersionCommit, Upload
    <3>2. v \notin aged' /\ verSt[v] = "inactive"
      BY <1>3, <3>1, RequestKeepsObjects DEF IndInv, RequestInv, HoldsVersion
    <3>3. KeysOf({v}) \subseteq chunkRows
      BY <3>2 DEF StoredInv, WholeRows, VersionExists
    <3>4. KeysOf({v}) \subseteq RowKeys({v})
      BY <2>1, <3>3 DEF RowKeys
    <3>5. KeysOf({v}) \subseteq uploadedAt'
      BY <3>1, <3>4 DEF ActiveInv, FullyUploaded
    <3> QED
      BY <2>1, <3>2, <3>5 DEF StoredInv
  <2> QED
    BY <2>2, <2>3
<1>6. ASSUME NEW r \in Req, req'[r].at = "complete", "age" \in Feature PROVE req'[r].version \notin aged'
  <2>0. "slow_upload" \notin Feature
    BY <1>6 DEF ContentSafe
  <2>1. CASE req'[r] = req[r]
    <3>1. locks[req[r].version] = r /\ r # Null /\ req[r].version \notin aged
      BY <1>6, <2>1, ConstantsAssumption DEF ActiveInv, IndInv, RequestInv, HoldsVersion
    <3> QED
      BY <2>0, <2>1, <3>1, Agings
  <2>2. CASE Proceeds(r)
    <3>1. PICK v \in Version : \E etags \in SUBSET KeysOf({v}) : CompleteUploadLock(r, v, etags)
      BY <1>6, <2>2, ProceedsTo
    <3>2. v \notin aged' /\ req'[r].version = v
      BY <2>0, <3>1 DEF CompleteUploadLock, Goto, IdleReq, TypeOK
    <3> QED
      BY <3>2
  <2> QED
    BY <1>6, <2>1, <2>2, RequestSteps
<1>7. ASSUME NEW r \in Req, req'[r].at = "restore" PROVE KeysOf({req'[r].version}) \subseteq uploadedAt'
  <2>1. CASE req'[r] = req[r]
    <3>1. PICK v \in Version : v = req[r].version /\ verSt'[v] = "inactive"
      BY <1>7, <2>1 DEF IndInv, RequestInv, HoldsVersion
    <3>2. KeysOf({v}) \subseteq uploadedAt /\ \A k \in KeysOf({v}) : k[1] = v
      BY <1>7, <2>1, <3>1 DEF ActiveInv, FullyUploaded, KeysOf
    <3> QED
      BY <1>1, <2>1, <3>1, <3>2 DEF MarkFacts, VersionExists
  <2>2. CASE Proceeds(r)
    <3>1. PICK v \in Version : RestoreVersionLock(r, v)
      BY <1>7, <2>2, ProceedsTo
    <3>2. FullyUploaded(v) /\ req'[r].version = v /\ UNCHANGED uploadedAt
      BY <3>1 DEF RestoreVersionLock, Goto, IdleReq, TypeOK, ContentSafe, dbVars
    <3> QED
      BY <3>2 DEF FullyUploaded
  <2> QED
    BY <1>7, <2>1, <2>2, RequestSteps
<1>8. ASSUME worker'.at = "sweep_objects", NEW k \in worker'.keys PROVE verSt'[k[1]] # "active"
  <2>1. k \in Key /\ k[1] \in Version
    BY <1>2 DEF TypeOK
  <2>2. CASE worker' = worker
    <3>1. k[1] \in aged /\ verSt[k[1]] # "active"
      BY <1>8, <2>2 DEF StoredInv, WorkerInv, ActiveInv
    <3> QED
      BY <1>4, <2>1, <3>1
  <2>3. CASE SweepScan
    <3>1. verSt' = verSt /\ worker'.keys = RowKeys(Orphaned)
      BY <2>3 DEF SweepScan, dbVars
    <3> QED
      BY <3>1 DEF RowKeys, Orphaned
  <2> QED
    BY <1>8, <2>2, <2>3, WorkerScans
<1> QED
  BY <1>5, <1>6, <1>7, <1>8 DEF ActiveInv, FullyUploaded, KeysOf

LEMMA FeatureCorrect == Spec => []FeatureInv
<1>1. Init => FeatureInv
  BY DEF Init, FeatureInv, IdleReq
<1>2. TypeOK /\ FeatureInv /\ [Next]_vars => FeatureInv'
  BY FeatureStep
<1> QED
  BY <1>1, <1>2, TypeCorrect, PTL DEF Spec

LEMMA ActiveCorrect ==
  ASSUME ContentSafe
  PROVE  Spec => []ActiveInv
<1>1. Init => ActiveInv
  BY DEF Init, ActiveInv, IdleReq
<1>2. TypeOK /\ IndInv /\ StoredInv /\ FeatureInv /\ ActiveInv /\ [Next]_vars
      /\ TypeOK' /\ IndInv' /\ StoredInv' => ActiveInv'
  BY ActiveStep
<1> QED
  BY <1>1, <1>2, TypeCorrect, IndInvCorrect, StoredCorrect, FeatureCorrect, PTL DEF Spec

\* A completed upload can be downloaded until it is replaced or purged, whatever requests,
\* cancellations, sweeps, retries and crashes run beside it.  ContentSafe names the operations that
\* would break it: restoring a version whose upload was never completed, and completing or
\* restoring one that the sweep may already be taking apart.
THEOREM ActiveReadable ==
  ASSUME ContentSafe
  PROVE  Spec => []ActiveIntact
<1>1. TypeOK /\ ActiveInv => ActiveIntact
  BY DEF TypeOK, ActiveInv, ActiveIntact
<1> QED
  BY <1>1, TypeCorrect, ActiveCorrect, PTL

-----------------------------------------------------------------------------
(* The requests implement the promise of Vault *)

GoneFiles == {f \in File : fileSt[f] = "gone"}
ShownMap == [f \in File |-> ShownVersion(f)]
Readable == {v \in Version : KeysOf({v}) \subseteq chunkRows \cap objects}

\* What a file shows is its active version.
LEMMA ShownFacts ==
  ASSUME TypeOK, NEW f \in File
  PROVE  /\ ShownVersion(f) \in Version \cup {Null}
         /\ \A v \in Version : ShownVersion(f) = v <=> verSt[v] = "active" /\ FileExists(f) /\ current[f] = v
<1>1. Null \notin Version
  BY ConstantsAssumption
<1> QED
  BY <1>1 DEF TypeOK, ShownVersion

\* A file shows the same as before if it has the same active version.
LEMMA ShowsSame ==
  ASSUME TypeOK, TypeOK', NEW f \in File,
         \A v \in Version : (verSt[v] = "active" /\ FileExists(f) /\ current[f] = v)
                        <=> (verSt'[v] = "active" /\ FileExists(f)' /\ current'[f] = v)
  PROVE  ShownVersion(f)' = ShownVersion(f)
<1>1. /\ ShownVersion(f)' \in Version \cup {Null}
      /\ \A v \in Version : ShownVersion(f)' = v <=> verSt'[v] = "active" /\ FileExists(f)' /\ current'[f] = v
  BY ConstantsAssumption DEF TypeOK, ShownVersion
<1>2. /\ ShownVersion(f) \in Version \cup {Null}
      /\ \A v \in Version : ShownVersion(f) = v <=> verSt[v] = "active" /\ FileExists(f) /\ current[f] = v
  BY ShownFacts
<1> QED
  BY <1>1, <1>2

\* A stuttering step of Vault.
LEMMA VaultStutters ==
  ASSUME GoneFiles' = GoneFiles, \A f \in File : ShownVersion(f)' = ShownVersion(f), Readable' = Readable
  PROVE  UNCHANGED Promise!vars
  BY DEF Promise!vars, GoneFiles, Readable

\* A step of Vault that removes the files F.
LEMMA VaultRemoves ==
  ASSUME TypeOK', ActiveInv', NEW F \in SUBSET File,
         GoneFiles' = GoneFiles \cup F, Readable' \subseteq Readable,
         \A f \in File : ShownVersion(f)' = IF f \in F THEN Null ELSE ShownVersion(f)
  PROVE  Promise!Next
<1>1. ASSUME NEW f \in File, NEW v \in Version, ShownVersion(f)' = v PROVE v \in Readable'
  <2>1. verSt'[v] = "active"
    BY <1>1, ConstantsAssumption DEF TypeOK, ShownVersion
  <2> QED
    BY <2>1 DEF TypeOK, ActiveInv, Readable
<1>2. Promise!Remove(F)
  BY <1>1 DEF Promise!Remove, Promise!Shown, GoneFiles, Readable
<1> QED
  BY <1>2 DEF Promise!Next

\* Every deletion of rows removes files with what they show, and inactive versions.
LEMMA VaultDeletes ==
  ASSUME TypeOK, IndInv, TypeOK', ActiveInv',
         NEW F \in SUBSET File, NEW V \in SUBSET Version, NEW C,
         DeleteRows(F, V, C), \A v \in V : verSt[v] = "inactive", UNCHANGED objects
  PROVE  Promise!Next
<1> DEFINE dead == V \cup VersionsOf(F)
<1>1. /\ \A f \in File : fileSt'[f] = IF f \in F THEN "gone" ELSE fileSt[f]
      /\ \A v \in Version : verSt'[v] = IF v \in dead THEN "gone" ELSE verSt[v]
      /\ \A f \in File : current'[f] = IF current[f] \in dead THEN Null ELSE current[f]
      /\ chunkRows' \subseteq chunkRows
  BY DEF TypeOK, DeleteRows
<1> HIDE DEF dead
<1>2. GoneFiles' = GoneFiles \cup F
  BY <1>1 DEF GoneFiles
<1>3. Readable' \subseteq Readable
  BY <1>1 DEF Readable
<1>4. ASSUME NEW f \in F PROVE ShownVersion(f)' = Null
  <2>1. ~ FileExists(f)'
    BY <1>1 DEF FileExists
  <2> QED
    BY <2>1 DEF ShownVersion
<1>5. ASSUME NEW f \in File \ F PROVE ShownVersion(f)' = ShownVersion(f)
  <2>1. FileExists(f)' <=> FileExists(f)
    BY <1>1 DEF FileExists
  <2>2. ASSUME NEW v \in Version, verSt[v] = "active", current[f] = v PROVE v \notin dead
    <3>1. fileOf[v] = f
      BY <2>2, ConstantsAssumption DEF IndInv, RowInv
    <3> QED
      BY <1>5, <2>2, <3>1 DEF dead, VersionsOf
  <2>3. ASSUME NEW v \in Version
        PROVE  (verSt[v] = "active" /\ current[f] = v) <=> (verSt'[v] = "active" /\ current'[f] = v)
    BY <1>1, <2>2, ConstantsAssumption
  <2> QED
    BY <2>1, <2>3, ShowsSame
<1> QED
  BY <1>2, <1>3, <1>4, <1>5, VaultRemoves

\* The commit of complete_upload or restore_version publishes its version.
LEMMA VaultPublishes ==
  ASSUME TypeOK, IndInv, TypeOK', IndInv', ActiveInv', NEW r \in Req,
         req[r].at \in {"complete", "restore"}, Activate(r),
         UNCHANGED <<fileSt, fileOf, chunkRows, objects>>
  PROVE  Promise!Next
<1>1. PICK f \in File, v \in Version :
          /\ req[r].file = f /\ req[r].version = v
          /\ verSt[v] = "inactive" /\ fileOf[v] = f
          /\ req[r].stale = {w \in Version : fileOf[w] = f /\ verSt[w] = "active"}
  BY DEF IndInv, RequestInv, HoldsVersion, HoldsFile
<1>2. /\ \A w \in Version : verSt'[w] = IF w = v THEN "active"
                                        ELSE IF w \in req[r].stale THEN "inactive" ELSE verSt[w]
      /\ current' = [current EXCEPT ![f] = v]
  BY <1>1 DEF Activate
<1>3. FileExists(f) /\ FileExists(f)'
  BY <1>1 DEF IndInv, RowInv, VersionExists, FileExists
<1>4. GoneFiles' = GoneFiles /\ f \notin GoneFiles
  BY <1>3 DEF GoneFiles, FileExists
<1>5. Readable' = Readable
  BY DEF Readable
<1>6. v \in Readable
  BY <1>2, <1>5 DEF TypeOK, ActiveInv, Readable
<1>7. \A g \in File : ShownVersion(g) # v
  BY <1>1, ShownFacts
<1>8. ShownVersion(f)' = v
  BY <1>2, <1>3 DEF ShownVersion, TypeOK
<1>9. ASSUME NEW g \in File, g # f PROVE ShownVersion(g)' = ShownVersion(g)
  <2>1. current'[g] = current[g] /\ (FileExists(g)' <=> FileExists(g))
    BY <1>2, <1>9 DEF TypeOK, FileExists
  <2>2. ASSUME NEW w \in Version, current[g] = w PROVE verSt'[w] = verSt[w]
    <3>1. fileOf[w] = g
      BY <2>2, ConstantsAssumption DEF IndInv, RowInv
    <3> QED
      BY <1>1, <1>2, <1>9, <3>1
  <2>3. ASSUME NEW w \in Version
        PROVE  (verSt[w] = "active" /\ current[g] = w) <=> (verSt'[w] = "active" /\ current'[g] = w)
    BY <2>1, <2>2
  <2> QED
    BY <2>1, <2>3, ShowsSame
<1>10. Promise!Publish(f, v)
  BY <1>4, <1>5, <1>6, <1>7, <1>8, <1>9 DEF Promise!Publish, Promise!Shown, GoneFiles, Readable
<1> QED
  BY <1>10 DEF Promise!Next

\* A new version has no object yet and shows nothing.
LEMMA VaultInserts ==
  ASSUME TypeOK, StoredInv, TypeOK', NEW v \in Version, NEW f \in File, NEW c,
         InsertVersion(v, f, c), UNCHANGED objects,
         \/ UNCHANGED <<fileSt, current>>
         \/ /\ fileSt[f] = "none" /\ fileSt' = [fileSt EXCEPT ![f] = "live"]
            /\ current' = [current EXCEPT ![f] = v]
  PROVE  UNCHANGED Promise!vars
<1>1. /\ verSt[v] = "none" /\ verSt'[v] = "inactive"
      /\ \A w \in Version : w # v => verSt'[w] = verSt[w]
      /\ chunkRows' = chunkRows \cup KeysOf({v})
  BY DEF InsertVersion, TypeOK
<1>2. GoneFiles' = GoneFiles
  BY DEF GoneFiles, TypeOK
<1>3. ASSUME NEW g \in File PROVE ShownVersion(g)' = ShownVersion(g)
  <2>1. CASE (FileExists(g)' <=> FileExists(g)) /\ current'[g] = current[g]
    BY <1>1, <2>1, ShowsSame
  <2>2. CASE g = f /\ fileSt[f] = "none" /\ current'[f] = v
    BY <1>1, <2>2, ShowsSame DEF FileExists
  <2> QED
    BY <2>1, <2>2 DEF TypeOK, FileExists
<1>4. PICK i \in Chunk : TRUE
  BY ConstantsAssumption
<1>5. <<v, i>> \in KeysOf({v}) /\ <<v, i>> \notin objects
  BY <1>1 DEF KeysOf, StoredInv
<1>6. \A w \in Version : w # v => KeysOf({w}) \cap KeysOf({v}) = {}
  BY DEF KeysOf
<1>7. Readable' = Readable
  BY <1>1, <1>5, <1>6 DEF Readable
<1> QED
  BY <1>2, <1>3, <1>7, VaultStutters

\* The last chunk of a version makes it readable, the others nothing.
LEMMA VaultStores ==
  ASSUME TypeOK, TypeOK', NEW k \in Key, PutChunk(k)
  PROVE  Promise!Next \/ UNCHANGED Promise!vars
<1>1. objects' = objects \cup {k} /\ UNCHANGED <<fileSt, current, verSt, chunkRows>> /\ k[1] \in Version
  BY DEF PutChunk, dbVars, Key
<1>2. GoneFiles' = GoneFiles
  BY <1>1 DEF GoneFiles
<1>3. \A f \in File : ShownVersion(f)' = ShownVersion(f)
  BY <1>1, ShowsSame DEF FileExists
<1>4. \A v \in Version : v # k[1] => k \notin KeysOf({v})
  BY DEF KeysOf
<1>5. Readable' = Readable \/ Readable' = Readable \cup {k[1]}
  BY <1>1, <1>4 DEF Readable
<1>6. CASE Readable' = Readable
  BY <1>2, <1>3, <1>6, VaultStutters
<1>7. CASE Readable' = Readable \cup {k[1]}
  <2>1. Promise!Store(k[1])
    BY <1>2, <1>3, <1>7 DEF Promise!Store, GoneFiles, Readable
  <2> QED
    BY <1>1, <2>1 DEF Promise!Next
<1> QED
  BY <1>5, <1>6, <1>7

\* Every step of FileVersions is a step of Vault or none.
LEMMA VaultStep ==
  ASSUME TypeOK, IndInv, StoredInv, [Next]_vars, TypeOK', IndInv', ActiveInv'
  PROVE  [Promise!Next]_(Promise!vars)
<1> DEFINE Goal == Promise!Next \/ UNCHANGED Promise!vars
<1>1. ASSUME \A f \in File : /\ FileExists(f)' <=> FileExists(f)
                             /\ fileSt'[f] = "gone" <=> fileSt[f] = "gone",
             UNCHANGED <<current, verSt, chunkRows>>, objects' \subseteq objects
      PROVE  Goal
  <2>1. GoneFiles' = GoneFiles \cup {}
    BY <1>1 DEF GoneFiles
  <2>2. \A f \in File : ShownVersion(f)' = ShownVersion(f)
    BY <1>1, ShowsSame
  <2>3. Readable' \subseteq Readable
    BY <1>1 DEF Readable
  <2>4. {} \in SUBSET File /\ \A f \in File : ShownVersion(f)' = IF f \in {} THEN Null ELSE ShownVersion(f)
    BY <2>2
  <2> QED
    BY <2>1, <2>3, <2>4, VaultRemoves
<1>2. ASSUME UNCHANGED <<fileSt, current, verSt, chunkRows>>, objects' \subseteq objects PROVE Goal
  BY <1>1, <1>2 DEF FileExists
<1>3. ASSUME NEW r \in Req, Upload(r) PROVE Goal
  <2>1. UNCHANGED objects
    BY <1>3, RequestKeepsObjects
  <2>2. CASE UNCHANGED <<fileSt, current, verSt, chunkRows>>
    BY <1>2, <2>1, <2>2
  <2>3. CASE CreateFileGhost(r)
    <3>1. req[r].file \in File
      BY <2>3 DEF CreateFileGhost, IndInv, RequestInv, KnowsFiles
    <3> QED
      BY <2>1, <2>3, <3>1, VaultDeletes DEF CreateFileGhost
  <2>4. ASSUME NEW f \in File, NEW v \in Version, NEW c, InsertFile(f, v, c) PROVE Goal
    BY <2>1, <2>4, VaultInserts DEF InsertFile
  <2>5. ASSUME NEW v \in Version, CreateVersionInsert(r, v) PROVE Goal
    <3>1. req[r].file \in File
      BY <2>5 DEF CreateVersionInsert, IndInv, RequestInv, KnowsFiles
    <3> QED
      BY <2>1, <2>5, <3>1, VaultInserts DEF CreateVersionInsert
  <2>6. CASE CompleteUploadCommit(r)
    <3>1. req[r].at = "complete" /\ UNCHANGED <<fileSt, fileOf, chunkRows>>
      BY <2>6 DEF CompleteUploadCommit
    <3>2. Activate(r) \/ UNCHANGED <<verSt, current>>
      BY <2>6 DEF CompleteUploadCommit
    <3> QED
      BY <1>2, <2>1, <3>1, <3>2, VaultPublishes
  <2>7. CASE RestoreVersionCommit(r)
    BY <2>1, <2>7, VaultPublishes DEF RestoreVersionCommit
  <2> HIDE DEF Goal
  <2> QED
    BY <1>3, <2>2, <2>3, <2>4, <2>5, <2>6, <2>7
    DEF Upload, CreateFileCheck, CreateFileDedup, CreateFileInsert, BulkInitUploads,
        BulkCompleteHash, BulkCompleteFileHash, CreateVersionCheck, VerifyChunkHead,
        VerifyChunkMark, CompleteUploadLock, RestoreVersionLock, dbVars
<1>4. ASSUME NEW r \in Req, Removal(r) PROVE Goal
  <2>1. UNCHANGED objects
    BY <1>4, RequestKeepsObjects
  <2>2. CASE UNCHANGED <<fileSt, current, verSt, chunkRows>>
    BY <1>2, <2>1, <2>2
  <2>3. CASE DeleteVersionCommit(r)
    <3>1. req[r].version \in Version /\ verSt[req[r].version] = "inactive"
      BY <2>3 DEF DeleteVersionCommit, IndInv, RequestInv, HoldsVersion
    <3> QED
      BY <2>1, <2>3, <3>1, VaultDeletes DEF DeleteVersionCommit
  <2>4. CASE CancelUploadCommit(r)
    <3>1. PICK F \in SUBSET File, V \in SUBSET Version :
              DeleteRows(F, V, {req[r].version}) /\ \A v \in V : verSt[v] = "inactive"
      BY <2>4, CancelTakesVersion
    <3> QED
      BY <2>1, <3>1, VaultDeletes
  <2>5. CASE PurgeCommit(r)
    <3>1. PICK V : V \in SUBSET Orphaned /\ DeleteRows(req[r].files, V, {})
      BY <2>5 DEF PurgeCommit
    <3>2. V \in SUBSET Version /\ req[r].files \in SUBSET File /\ \A v \in V : verSt[v] = "inactive"
      BY <3>1 DEF Orphaned, TypeOK, Request
    <3> QED
      BY <2>1, <3>1, <3>2, VaultDeletes
  <2> HIDE DEF Goal
  <2> QED
    BY <1>4, <2>2, <2>3, <2>4, <2>5
    DEF Removal, DeleteVersionLock, CancelUploadCheck, CancelUploadKeys, PermanentlyDeleteLock,
        BulkPurgeSelect, EmptyTrashSelect, CleanupEndpointSelect, Abort, dbVars
<1>5. CASE Environment
  <2>1. ASSUME NEW k \in Key, PutChunk(k) PROVE Goal
    BY <2>1, VaultStores
  <2>2. ASSUME NEW f \in File, TrashFile(f) \/ RestoreFile(f) PROVE Goal
    <3>1. \A g \in File : /\ FileExists(g)' <=> FileExists(g)
                          /\ fileSt'[g] = "gone" <=> fileSt[g] = "gone"
      BY <2>2 DEF TrashFile, RestoreFile, FileExists, TypeOK
    <3> QED
      BY <1>1, <2>2, <3>1 DEF TrashFile, RestoreFile
  <2> HIDE DEF Goal
  <2>3. ASSUME NEW k \in Key, BestEffortDelete(k) PROVE Goal
    BY <1>2, <2>3 DEF BestEffortDelete, dbVars
  <2>4. (\E v \in Version : Age(v)) \/ Crash => Goal
    BY <1>2 DEF Age, Crash, dbVars
  <2>5. Goal
    BY <1>5, <2>1, <2>2, <2>3, <2>4 DEF Environment
  <2> QED
    BY <2>5 DEF Goal
<1>6. CASE Background
  <2> HIDE DEF Goal
  <2>1. CASE SweepRows
    <3>1. Orphaned \in SUBSET Version /\ \A v \in Orphaned : verSt[v] = "inactive"
      BY DEF Orphaned, TypeOK
    <3> QED
      BY <2>1, <3>1, VaultDeletes DEF SweepRows
  <2>2. CASE ~ SweepRows
    <3>1. Goal
      BY <1>2, <1>6, <2>2 DEF Background, SweepScan, SweepObjects, RetryFetch, RetryDelete,
         RetryDeleteFails, RetryConfirm, dbVars
    <3> QED
      BY <3>1 DEF Goal
  <2> QED
    BY <2>1, <2>2
<1>7. CASE UNCHANGED vars
  BY <1>2, <1>7 DEF vars, dbVars
<1> QED
  BY <1>3, <1>4, <1>5, <1>6, <1>7 DEF Next

\* FileVersions implements the abstract service of Vault: with every interleaving of requests that
\* the row locks allow, a download of a file gets a whole version or none, a new version replaces
\* the shown one in one step, and a shown version goes only with its file.
THEOREM VaultImplemented ==
  ASSUME ContentSafe
  PROVE  Spec => ImplementsVault
<1>1. Init => Promise!Init
  <2> SUFFICES ASSUME Init PROVE Promise!Init
    OBVIOUS
  <2>1. \A f \in File : ShownVersion(f) = Null /\ fileSt[f] # "gone"
    BY DEF Init, ShownVersion
  <2>2. ASSUME NEW v \in Version PROVE ~ (KeysOf({v}) \subseteq chunkRows \cap objects)
    <3>1. PICK i \in Chunk : TRUE
      BY ConstantsAssumption
    <3>2. <<v, i>> \in KeysOf({v}) /\ objects = {}
      BY DEF Init, KeysOf
    <3> QED
      BY <3>2
  <2> QED
    BY <2>1, <2>2 DEF Promise!Init
<1>2. TypeOK /\ IndInv /\ StoredInv /\ [Next]_vars /\ TypeOK' /\ IndInv' /\ ActiveInv'
         => [Promise!Next]_(Promise!vars)
  BY VaultStep
<1> QED
  BY <1>1, <1>2, TypeCorrect, IndInvCorrect, StoredCorrect, ActiveCorrect, PTL
  DEF Spec, ImplementsVault, Promise!Spec

-----------------------------------------------------------------------------
(* No object is forgotten *)

\* Without create_version a file keeps to the version it was created with.
LEMMA OneVersionStep ==
  ASSUME TypeOK, IndInv, FeatureInv, "create_version" \notin Feature, OneVersion, [Next]_vars
  PROVE  OneVersion'
<1>1. ASSUME UNCHANGED <<current, verSt, fileOf>> PROVE OneVersion'
  BY <1>1 DEF OneVersion, VersionExists
<1>2. ASSUME NEW F, NEW V, NEW C, DeleteRows(F, V, C) PROVE OneVersion'
  <2> DEFINE dead == V \cup VersionsOf(F)
  <2>1. /\ \A v \in Version : verSt'[v] = IF v \in dead THEN "gone" ELSE verSt[v]
        /\ \A f \in File : current'[f] = IF current[f] \in dead THEN Null ELSE current[f]
        /\ fileOf' = fileOf
    BY <1>2 DEF DeleteRows
  <2> HIDE DEF dead
  <2> SUFFICES ASSUME NEW v \in Version, VersionExists(v)' PROVE current'[fileOf'[v]] = v
    BY DEF OneVersion
  <2>2. v \notin dead /\ VersionExists(v)
    BY <2>1 DEF VersionExists
  <2>3. fileOf[v] \in File /\ current[fileOf[v]] = v
    BY <2>2 DEF IndInv, RowInv, OneVersion
  <2> QED
    BY <2>1, <2>2, <2>3
<1>3. ASSUME NEW f \in File, NEW v \in Version, NEW c, InsertFile(f, v, c) PROVE OneVersion'
  <2>1. /\ fileSt[f] = "none" /\ current' = [current EXCEPT ![f] = v]
        /\ verSt[v] = "none" /\ verSt' = [verSt EXCEPT ![v] = "inactive"]
        /\ fileOf' = [fileOf EXCEPT ![v] = f]
    BY <1>3 DEF InsertFile, InsertVersion
  <2> SUFFICES ASSUME NEW w \in Version, VersionExists(w)' PROVE current'[fileOf'[w]] = w
    BY DEF OneVersion
  <2>2. CASE w = v
    BY <2>1, <2>2 DEF TypeOK
  <2>3. CASE w # v
    <3>1. VersionExists(w) /\ fileOf'[w] = fileOf[w]
      BY <2>1, <2>3 DEF TypeOK, VersionExists
    <3>2. fileOf[w] \in File /\ fileOf[w] # f /\ current[fileOf[w]] = w
      BY <2>1, <3>1 DEF IndInv, RowInv, FileExists, OneVersion
    <3> QED
      BY <2>1, <3>1, <3>2 DEF TypeOK
  <2> QED
    BY <2>2, <2>3
<1>4. ASSUME NEW r \in Req, req[r].at \in {"complete", "restore"}, Activate(r),
             UNCHANGED <<fileOf, chunkRows>>
      PROVE  OneVersion'
  <2>1. PICK f \in File, v \in Version : /\ req[r].file = f /\ req[r].version = v
                                         /\ verSt[v] = "inactive" /\ fileOf[v] = f
    BY <1>4 DEF IndInv, RequestInv, HoldsVersion, HoldsFile
  <2>2. current' = [current EXCEPT ![f] = v]
    BY <1>4, <2>1 DEF Activate
  <2>3. current[f] = v
    BY <2>1 DEF OneVersion, VersionExists
  <2>4. current' = current
    BY <2>2, <2>3 DEF TypeOK
  <2>5. \A w \in Version : VersionExists(w)' => VersionExists(w)
    BY <1>4, ActivateRowFacts
  <2> QED
    BY <1>4, <2>4, <2>5 DEF OneVersion
<1>5. ASSUME NEW r \in Req, Upload(r) PROVE OneVersion'
  <2>1. ASSUME NEW v \in Version, CreateVersionInsert(r, v) PROVE FALSE
    BY <2>1 DEF CreateVersionInsert, FeatureInv
  <2>2. CompleteUploadCommit(r) \/ RestoreVersionCommit(r) => OneVersion'
    BY <1>1, <1>4 DEF CompleteUploadCommit, RestoreVersionCommit
  <2> QED
    BY <1>1, <1>2, <1>3, <1>5, <2>1, <2>2
    DEF Upload, CreateFileCheck, CreateFileDedup, CreateFileGhost, CreateFileInsert,
        BulkInitUploads, BulkCompleteHash, BulkCompleteFileHash, CreateVersionCheck,
        VerifyChunkHead, VerifyChunkMark, CompleteUploadLock, RestoreVersionLock, dbVars
<1>6. ASSUME NEW r \in Req, Removal(r) PROVE OneVersion'
  BY <1>1, <1>2, <1>6
  DEF Removal, DeleteVersionLock, DeleteVersionCommit, CancelUploadCheck, CancelUploadKeys,
      CancelUploadCommit, PermanentlyDeleteLock, BulkPurgeSelect, EmptyTrashSelect,
      CleanupEndpointSelect, PurgeCommit, Abort, dbVars
<1>7. CASE Environment
  BY <1>1, <1>7
  DEF Environment, PutChunk, TrashFile, RestoreFile, BestEffortDelete, Age, Crash, dbVars
<1>8. CASE Background
  BY <1>1, <1>2, <1>8
  DEF Background, SweepScan, SweepObjects, SweepRows, RetryFetch, RetryDelete,
      RetryDeleteFails, RetryConfirm, dbVars
<1>9. CASE UNCHANGED vars
  BY <1>1, <1>9 DEF vars, dbVars
<1> QED
  BY <1>5, <1>6, <1>7, <1>8, <1>9 DEF Next

\* Rows leave the database with their keys recorded.
LEMMA LostRows ==
  ASSUME TypeOK, IndInv, StoredInv, FeatureInv, KeysRecorded, RecordInv, [Next]_vars,
         NEW k \in chunkRows, k \notin chunkRows'
  PROVE  k \in pending'
<1>1. aged = {}
  BY DEF FeatureInv, KeysRecorded
<1>2. k \in Key /\ k[1] \in Version /\ VersionExists(k[1])
  BY DEF TypeOK, Key, IndInv, RowInv
<1>3. ASSUME NEW r \in Req, CreateFileGhost(r) PROVE FALSE
  <2>1. RowKeys({req[r].version}) \subseteq uploadedAt
    BY <1>3 DEF CreateFileGhost, RecordInv, KnowsKeys
  <2>2. uploadedAt \subseteq objects
    BY <1>1 DEF StoredInv
  <2> QED
    BY <1>3, <2>1, <2>2 DEF CreateFileGhost
<1>4. ASSUME NEW r \in Req, DeleteVersionCommit(r) PROVE FALSE
  BY <1>4 DEF DeleteVersionCommit, FeatureInv, KeysRecorded
<1>5. ASSUME NEW F, NEW V, NEW C, DeleteRows(F, V, C) PROVE k[1] \in V \cup VersionsOf(F) \cup C
  BY <1>5 DEF DeleteRows
<1>6. ASSUME NEW r \in Req, CancelUploadCommit(r) PROVE k \in pending'
  <2>1. req[r].at = "cancel_commit" /\ pending' = pending \cup req[r].keys
    BY <1>6 DEF CancelUploadCommit
  <2>2. PICK F \in SUBSET File, V \in SUBSET Version :
            /\ DeleteRows(F, V, {req[r].version})
            /\ F \subseteq {req[r].file} /\ V \subseteq {req[r].version}
            /\ \A f \in F : current[f] = req[r].version
    BY <1>6, CancelTakesVersion
  <2>3. k[1] \in {req[r].version} \cup VersionsOf(F)
    BY <1>5, <2>2
  <2>4. OneVersion
    BY <2>1 DEF FeatureInv, KeysRecorded, RecordInv
  <2>5. req[r].version \in Version /\ fileOf[req[r].version] = req[r].file
    BY <2>1 DEF IndInv, RequestInv, KnowsUpload
  <2>6. CASE k[1] # req[r].version
    <3>1. fileOf[k[1]] = req[r].file /\ F = {req[r].file} /\ current[req[r].file] = k[1]
      BY <1>2, <2>2, <2>3, <2>4, <2>6 DEF VersionsOf, OneVersion
    <3>2. current[req[r].file] = req[r].version
      BY <2>2, <3>1
    <3> QED
      BY <2>6, <3>1, <3>2
  <2>7. CASE k[1] = req[r].version
    BY <2>1, <2>7 DEF RecordInv, KnowsKeys, RowKeys
  <2> QED
    BY <2>6, <2>7
<1>7. ASSUME NEW r \in Req, PurgeCommit(r) PROVE k \in pending'
  <2>1. PICK V : /\ req[r].at \in {"purge", "cleanup"}
                 /\ DeleteRows(req[r].files, V, {})
                 /\ pending' = pending \cup req[r].keys \cup RowKeys(V)
    BY <1>7 DEF PurgeCommit
  <2>2. RowKeys(VersionsOf(req[r].files)) \subseteq req[r].keys
    BY <2>1 DEF RecordInv, KnowsKeys
  <2>3. k[1] \in V \cup VersionsOf(req[r].files)
    BY <1>5, <2>1
  <2> QED
    BY <2>1, <2>2, <2>3 DEF RowKeys
<1>8. ASSUME SweepRows PROVE FALSE
  BY <1>1, <1>5, <1>8 DEF SweepRows, Orphaned, VersionsOf
<1>9. ASSUME NEW r \in Req, Upload(r) PROVE FALSE
  BY <1>3, <1>9
  DEF Upload, CreateFileCheck, CreateFileDedup, CreateFileInsert, InsertFile, InsertVersion,
      BulkInitUploads, BulkCompleteHash, BulkCompleteFileHash, CreateVersionCheck,
      CreateVersionInsert, VerifyChunkHead, VerifyChunkMark, CompleteUploadLock,
      CompleteUploadCommit, RestoreVersionLock, RestoreVersionCommit, dbVars
<1>10. ASSUME NEW r \in Req, Removal(r) PROVE k \in pending'
  BY <1>4, <1>6, <1>7, <1>10
  DEF Removal, DeleteVersionLock, CancelUploadCheck, CancelUploadKeys, PermanentlyDeleteLock,
      BulkPurgeSelect, EmptyTrashSelect, CleanupEndpointSelect, Abort, dbVars
<1>11. ASSUME Environment PROVE FALSE
  BY <1>11
  DEF Environment, PutChunk, TrashFile, RestoreFile, BestEffortDelete, Age, Crash, dbVars
<1>12. ASSUME Background PROVE FALSE
  BY <1>8, <1>12
  DEF Background, SweepScan, SweepObjects, RetryFetch, RetryDelete, RetryDeleteFails,
      RetryConfirm, dbVars
<1>13. ASSUME UNCHANGED vars PROVE FALSE
  BY <1>13 DEF vars, dbVars
<1> QED
  BY <1>9, <1>10, <1>11, <1>12, <1>13 DEF Next

\* Rows come with a new file, or with a new version in a file no other request has locked.
LEMMA NewRows ==
  ASSUME TypeOK, IndInv, [Next]_vars, NEW k \in chunkRows' \ chunkRows
  PROVE  \E f \in File : /\ fileOf'[k[1]] = f
                         /\ \/ fileSt[f] = "none"
                            \/ \E q \in Req : req[q].at = "version_insert" /\ locks[f] \in {Null, q}
<1> DEFINE Goal == \E f \in File :
              /\ fileOf'[k[1]] = f
              /\ \/ fileSt[f] = "none"
                 \/ \E q \in Req : req[q].at = "version_insert" /\ locks[f] \in {Null, q}
<1>1. ASSUME NEW f \in File, NEW v \in Version, NEW c, InsertVersion(v, f, c)
      PROVE  fileOf'[k[1]] = f
  <2>1. chunkRows' = chunkRows \cup KeysOf({v}) /\ fileOf'[v] = f
    BY <1>1 DEF InsertVersion, TypeOK
  <2> QED
    BY <2>1 DEF KeysOf
<1>2. ASSUME NEW f \in File, NEW v \in Version, NEW c, InsertFile(f, v, c) PROVE Goal
  BY <1>1, <1>2 DEF InsertFile
<1>3. ASSUME NEW q \in Req, NEW v \in Version, CreateVersionInsert(q, v) PROVE Goal
  <2>1. PICK f \in File : f = req[q].file
    BY <1>3 DEF CreateVersionInsert, IndInv, RequestInv, KnowsFiles
  <2>2. InsertVersion(v, f, req[q].hash) /\ req[q].at = "version_insert" /\ locks[f] \in {Null, q}
    BY <1>3, <2>1 DEF CreateVersionInsert, Available
  <2> QED
    BY <1>1, <2>2
<1> HIDE DEF Goal
<1>4. ASSUME NEW r \in Req, Upload(r) PROVE Goal
  BY <1>2, <1>3, <1>4
  DEF Upload, CreateFileCheck, CreateFileDedup, CreateFileGhost, DeleteRows, CreateFileInsert,
      BulkInitUploads, BulkCompleteHash, BulkCompleteFileHash, CreateVersionCheck,
      VerifyChunkHead, VerifyChunkMark, CompleteUploadLock,
      CompleteUploadCommit, RestoreVersionLock, RestoreVersionCommit, dbVars
<1>5. ASSUME NEW r \in Req, Removal(r) PROVE FALSE
  BY <1>5
  DEF Removal, DeleteVersionLock, DeleteVersionCommit, CancelUploadCheck, CancelUploadKeys,
      CancelUploadCommit, PermanentlyDeleteLock, BulkPurgeSelect, EmptyTrashSelect,
      CleanupEndpointSelect, PurgeCommit, Abort, DeleteRows, dbVars
<1>6. ASSUME Environment PROVE FALSE
  BY <1>6
  DEF Environment, PutChunk, TrashFile, RestoreFile, BestEffortDelete, Age, Crash, dbVars
<1>7. ASSUME Background PROVE FALSE
  BY <1>7
  DEF Background, SweepScan, SweepObjects, SweepRows, DeleteRows, RetryFetch, RetryDelete,
      RetryDeleteFails, RetryConfirm, dbVars
<1>8. Goal
  BY <1>4, <1>5, <1>6, <1>7 DEF Next, vars, dbVars
<1> QED
  BY <1>8 DEF Goal

\* The row of a file is inserted once.
LEMMA FilesStay ==
  ASSUME TypeOK, [Next]_vars, NEW f \in File, fileSt[f] # "none"
  PROVE  fileSt'[f] # "none"
<1>0. ASSUME NEW F, NEW V, NEW C, DeleteRows(F, V, C) PROVE fileSt'[f] # "none"
  BY <1>0 DEF DeleteRows
<1>1. ASSUME NEW r \in Req, Upload(r) \/ Removal(r) PROVE fileSt'[f] # "none"
  <2>1. ASSUME NEW g, NEW v, NEW c, InsertFile(g, v, c) PROVE fileSt'[f] # "none"
    BY <2>1 DEF InsertFile, TypeOK
  <2>2. CASE Upload(r)
    BY <1>0, <2>1, <2>2
    DEF Upload, CreateFileCheck, CreateFileDedup, CreateFileGhost, CreateFileInsert,
        BulkInitUploads, BulkCompleteHash, BulkCompleteFileHash, CreateVersionCheck,
        CreateVersionInsert, VerifyChunkHead, VerifyChunkMark, CompleteUploadLock,
        CompleteUploadCommit, RestoreVersionLock, RestoreVersionCommit, dbVars
  <2>3. CASE Removal(r)
    BY <1>0, <2>3
    DEF Removal, DeleteVersionLock, DeleteVersionCommit, CancelUploadCheck, CancelUploadKeys,
        CancelUploadCommit, PermanentlyDeleteLock, BulkPurgeSelect, EmptyTrashSelect,
        CleanupEndpointSelect, PurgeCommit, Abort, dbVars
  <2> QED
    BY <1>1, <2>2, <2>3
<1>2. CASE Environment
  BY <1>2
  DEF TypeOK, Environment, PutChunk, TrashFile, RestoreFile, BestEffortDelete, Age, Crash, dbVars
<1>3. CASE Background
  BY <1>3
  DEF Background, SweepScan, SweepObjects, SweepRows, DeleteRows, RetryFetch, RetryDelete,
      RetryDeleteFails, RetryConfirm, dbVars
<1> QED
  BY <1>1, <1>2, <1>3 DEF Next, vars, dbVars

\* The version that dedup found.
LEMMA DedupFinds ==
  ASSUME TypeOK, NEW r \in Req, NEW c \in Content, CreateFileCheck(r, c), req'[r].at = "create_head"
  PROVE  \E f \in DedupCandidates(c) : req'[r].version = current[f] /\ req'[r].hash = c
<1>1. ASSUME Goto(r, [IdleReq EXCEPT !.at = "create_insert", !.hash = c]) PROVE FALSE
  BY <1>1 DEF Goto, IdleReq, TypeOK
<1>2. ASSUME NEW f \in DedupCandidates(c),
             Goto(r, [IdleReq EXCEPT !.at = "create_head", !.hash = c,
                                     !.file = f, !.version = current[f]])
      PROVE  req'[r].version = current[f] /\ req'[r].hash = c
  BY <1>2 DEF Goto, IdleReq, TypeOK
<1> QED
  BY <1>1, <1>2 DEF CreateFileCheck

\* What a removal has read of the keys stays all there is to record.
LEMMA KnowsKeysStep ==
  ASSUME TypeOK, IndInv, FeatureInv, KeysRecorded, ActiveInv, [Next]_vars, TypeOK', IndInv',
         NEW r \in Req, KnowsKeys(r)
  PROVE  KnowsKeys(r)'
<1>1. RowFacts /\ MarkFacts
  BY StepFacts
<1>2. \A k \in chunkRows' : k \in Key /\ k[1] \in Version /\ VersionExists(k[1])'
  BY DEF TypeOK, Key, IndInv, RowInv, VersionExists
<1>3. CASE req'[r] = req[r]
  <2>1. ASSUME req[r].at \in {"purge", "cleanup"}
        PROVE  /\ \A f \in req[r].files : fileSt'[f] # "none"
               /\ \A k \in chunkRows' : fileOf'[k[1]] \in req[r].files => k \in req[r].keys
    <3>1. req[r].files \subseteq File /\ \A f \in req[r].files : fileSt[f] # "none"
      BY <2>1 DEF KnowsKeys, TypeOK, Request
    <3>2. \A f \in req[r].files : fileSt'[f] # "none"
      BY <3>1, FilesStay
    <3>3. ASSUME NEW k \in chunkRows', fileOf'[k[1]] \in req[r].files, k \notin req[r].keys PROVE FALSE
      <4>1. CASE k \in chunkRows
        <5>1. verSt[k[1]] # "none" /\ k[1] \in Version
          BY <1>2, <4>1 DEF IndInv, RowInv, VersionExists
        <5>2. fileOf[k[1]] \in req[r].files
          BY <1>1, <3>3, <5>1 DEF RowFacts
        <5> QED
          BY <2>1, <3>3, <4>1, <5>1, <5>2 DEF KnowsKeys, RowKeys, VersionsOf
      <4>2. CASE k \notin chunkRows
        <5>1. PICK f \in File :
                  /\ fileOf'[k[1]] = f
                  /\ \/ fileSt[f] = "none"
                     \/ \E q \in Req : req[q].at = "version_insert" /\ locks[f] \in {Null, q}
          BY <4>2, NewRows
        <5>2. PICK q \in Req : req[q].at = "version_insert" /\ locks[f] \in {Null, q}
          BY <3>1, <3>3, <5>1
        <5>3. q # r /\ r # Null
          BY <2>1, <5>2, ConstantsAssumption
        <5>4. locks[f] = r
          BY <2>1, <3>3, <5>1, <5>2 DEF FeatureInv, KeysRecorded
        <5> QED
          BY <5>2, <5>3, <5>4
      <4> QED
        BY <4>1, <4>2
    <3> QED
      BY <3>2, <3>3
  <2>2. ASSUME NEW v \in Version, verSt[v] # "none", NEW k \in chunkRows', k[1] = v PROVE k \in chunkRows
    BY <1>1, <2>2 DEF RowFacts
  <2>3. ASSUME req[r].at = "cancel_commit"
        PROVE  \A k \in chunkRows' : k[1] = req[r].version => k \in req[r].keys
    <3>1. req[r].version \in Version /\ verSt[req[r].version] # "none"
      BY <2>3 DEF IndInv, RequestInv, KnowsUpload
    <3> QED
      BY <2>2, <2>3, <3>1 DEF KnowsKeys, RowKeys
  <2>4. ASSUME req[r].at = "create_head"
        PROVE  /\ req[r].version \in Version /\ verSt'[req[r].version] # "none"
               /\ \A k \in chunkRows' : k[1] = req[r].version => k \in uploadedAt'
    <3>1. req[r].version \in Version /\ verSt[req[r].version] # "none"
      BY <2>4 DEF KnowsKeys
    <3>2. \A k \in chunkRows' : k[1] = req[r].version => k \in uploadedAt
      BY <2>2, <2>4, <3>1 DEF KnowsKeys, RowKeys
    <3> QED
      BY <1>1, <1>2, <3>1, <3>2 DEF RowFacts, MarkFacts
  <2> QED
    BY <1>3, <2>1, <2>3, <2>4 DEF KnowsKeys, RowKeys, VersionsOf
<1>4. CASE req'[r].at = "idle"
  BY <1>4 DEF KnowsKeys
<1>5. CASE Proceeds(r)
  <2>1. ASSUME req'[r].at \in {"purge", "cleanup"} PROVE KnowsKeys(r)'
    <3>1. PICK F \in SUBSET File :
              /\ \A f \in F : fileSt[f] # "none"
              /\ \E point : Goto(r, PurgeRequest(point, F))
              /\ UNCHANGED <<fileSt, fileOf, chunkRows>>
      <4>1. ASSUME NEW f \in File, FileExists(f) PROVE {f} \in SUBSET File /\ fileSt[f] # "none"
        BY <4>1 DEF FileExists
      <4>2. {f \in File : fileSt[f] = "trashed"} \in SUBSET File
        OBVIOUS
      <4> QED
        BY <1>5, <2>1, <4>1, <4>2, ProceedsTo
        DEF PermanentlyDeleteLock, BulkPurgeSelect, EmptyTrashSelect, CleanupEndpointSelect, dbVars
    <3>2. req'[r].files = F /\ req'[r].keys = RowKeys(VersionsOf(F))
      BY <3>1, PurgeRequestFields DEF Goto, TypeOK
    <3> QED
      BY <2>1, <3>1, <3>2 DEF KnowsKeys, RowKeys, VersionsOf
  <2>2. ASSUME req'[r].at = "cancel_commit" PROVE KnowsKeys(r)'
    <3>1. CancelUploadKeys(r)
      BY <1>5, <2>2, ProceedsTo
    <3>2. req'[r].version = req[r].version /\ req'[r].keys = RowKeys({req[r].version})
      BY <3>1 DEF CancelUploadKeys, Goto, TypeOK, Request
    <3> QED
      BY <2>2, <3>1, <3>2 DEF CancelUploadKeys, KnowsKeys, RowKeys, dbVars
  <2>3. ASSUME req'[r].at = "create_head" PROVE KnowsKeys(r)'
    <3>1. PICK c \in Content : CreateFileCheck(r, c)
      BY <1>5, <2>3, ProceedsTo
    <3>2. PICK f \in DedupCandidates(c) : req'[r].version = current[f]
      BY <2>3, <3>1, DedupFinds
    <3>3. current[f] \in Version /\ verSt[current[f]] = "active"
      BY <3>2 DEF DedupCandidates, TypeOK
    <3>4. \A k \in chunkRows : k[1] = current[f] => k \in uploadedAt
      BY <3>3 DEF ActiveInv, KeysOf, TypeOK, Key
    <3> QED
      BY <2>3, <3>1, <3>2, <3>3, <3>4 DEF CreateFileCheck, KnowsKeys, RowKeys, dbVars
  <2> QED
    BY <2>1, <2>2, <2>3 DEF KnowsKeys
<1> QED
  BY <1>3, <1>4, <1>5, RequestSteps

\* A row of pending_storage_deletions goes only when its object has gone.
LEMMA LostPending ==
  ASSUME TypeOK, [Next]_vars, NEW k \in pending \ pending'
  PROVE  k \notin objects'
<1>1. ASSUME NEW r \in Req, Upload(r) PROVE FALSE
  BY <1>1
  DEF Upload, CreateFileCheck, CreateFileDedup, CreateFileGhost, CreateFileInsert, InsertFile,
      BulkInitUploads, BulkCompleteHash, BulkCompleteFileHash, CreateVersionCheck,
      CreateVersionInsert, VerifyChunkHead, VerifyChunkMark, CompleteUploadLock,
      CompleteUploadCommit, RestoreVersionLock, RestoreVersionCommit, dbVars
<1>2. ASSUME NEW r \in Req, Removal(r) PROVE FALSE
  BY <1>2
  DEF Removal, DeleteVersionLock, DeleteVersionCommit, CancelUploadCheck, CancelUploadKeys,
      CancelUploadCommit, PermanentlyDeleteLock, BulkPurgeSelect, EmptyTrashSelect,
      CleanupEndpointSelect, PurgeCommit, Abort, dbVars
<1>3. ASSUME Environment PROVE FALSE
  BY <1>3
  DEF Environment, PutChunk, TrashFile, RestoreFile, BestEffortDelete, Age, Crash, dbVars
<1>4. ASSUME Background PROVE k \notin objects'
  BY <1>4
  DEF Background, SweepScan, SweepObjects, SweepRows, RetryFetch, RetryDelete,
      RetryDeleteFails, RetryConfirm, dbVars
<1> QED
  BY <1>1, <1>2, <1>3, <1>4 DEF Next, vars, dbVars

\* A PUT touches no row.
LEMMA NewObjects ==
  ASSUME [Next]_vars, NEW k \in objects' \ objects
  PROVE  UNCHANGED chunkRows
<1>1. CASE Environment
  BY <1>1 DEF Environment, PutChunk, TrashFile, RestoreFile, BestEffortDelete, Age, Crash, dbVars
<1>2. ASSUME Background PROVE FALSE
  BY <1>2
  DEF Background, SweepScan, SweepObjects, SweepRows, RetryFetch, RetryDelete,
      RetryDeleteFails, RetryConfirm
<1> QED
  BY <1>1, <1>2, RequestKeepsObjects DEF Next, vars

LEMMA RecordStep ==
  ASSUME TypeOK, IndInv, StoredInv, FeatureInv, KeysRecorded, ActiveInv, RecordInv, [Next]_vars,
         TypeOK', IndInv'
  PROVE  RecordInv'
<1>1. "create_version" \notin Feature => OneVersion'
  BY OneVersionStep DEF RecordInv
<1>2. \A r \in Req : KnowsKeys(r)'
  BY KnowsKeysStep DEF RecordInv
<1>3. ASSUME NEW k \in objects' PROVE k \in chunkRows' \/ k \in pending'
  <2>1. CASE k \in objects
    <3>1. k \in chunkRows \/ k \in pending
      BY <2>1 DEF RecordInv, Accounted
    <3> QED
      BY <1>3, <3>1, LostRows, LostPending
  <2>2. CASE k \notin objects
    <3>1. k \in chunkRows
      BY <1>3, <2>2, StepFacts DEF ObjectFacts, KeysRecorded
    <3> QED
      BY <1>3, <2>2, <3>1, NewObjects
  <2> QED
    BY <2>1, <2>2
<1> QED
  BY <1>1, <1>2, <1>3 DEF RecordInv, Accounted

LEMMA RecordCorrect ==
  ASSUME KeysRecorded
  PROVE  Spec => []RecordInv
<1>1. Init => RecordInv
  BY DEF Init, RecordInv, OneVersion, KnowsKeys, Accounted, IdleReq, VersionExists
<1>2. TypeOK /\ IndInv /\ StoredInv /\ FeatureInv /\ ActiveInv /\ RecordInv /\ [Next]_vars
      /\ TypeOK' /\ IndInv' => RecordInv'
  BY RecordStep
<1>3. ContentSafe
  BY DEF KeysRecorded, ContentSafe
<1>4. Spec => []ActiveInv
  BY <1>3, ActiveCorrect
<1> QED
  BY <1>1, <1>2, <1>4, TypeCorrect, IndInvCorrect, StoredCorrect, FeatureCorrect, PTL DEF Spec

\* No object outlives its chunk row without a row of pending_storage_deletions, so that the retry
\* task will find it, where every removal in the instance is one that records keys and no version
\* is inserted between a removal's reading of the keys and its commit (KeysRecorded).
THEOREM ObjectsAccounted ==
  ASSUME KeysRecorded
  PROVE  Spec => []Accounted
<1>1. RecordInv => Accounted
  BY DEF RecordInv
<1> QED
  BY <1>1, RecordCorrect, PTL

-----------------------------------------------------------------------------
(* Deduplication answers with the content that was asked for *)

\* Once a version has its hash it keeps it.
LEMMA HashesStay ==
  ASSUME TypeOK, [Next]_vars, NEW v \in Version, verSt[v] # "none", verHash[v] # Null
  PROVE  verHash'[v] = verHash[v]
<1>1. ASSUME NEW w, NEW f, NEW c, InsertVersion(w, f, c) PROVE verHash'[v] = verHash[v]
  BY <1>1 DEF InsertVersion, TypeOK
<1>2. ASSUME NEW r, NEW w, NEW c, BulkCompleteHash(r, w, c) PROVE verHash'[v] = verHash[v]
  BY <1>2 DEF BulkCompleteHash, TypeOK
<1>3. ASSUME NEW r \in Req, Upload(r) PROVE verHash'[v] = verHash[v]
  BY <1>1, <1>2, <1>3
  DEF Upload, CreateFileCheck, CreateFileDedup, CreateFileGhost, DeleteRows, CreateFileInsert,
      InsertFile, BulkInitUploads, BulkCompleteFileHash, CreateVersionCheck,
      CreateVersionInsert, VerifyChunkHead, VerifyChunkMark, CompleteUploadLock,
      CompleteUploadCommit, RestoreVersionLock, RestoreVersionCommit, dbVars
<1>4. ASSUME NEW r \in Req, Removal(r) PROVE verHash' = verHash
  BY <1>4
  DEF Removal, DeleteVersionLock, DeleteVersionCommit, CancelUploadCheck, CancelUploadKeys,
      CancelUploadCommit, PermanentlyDeleteLock, BulkPurgeSelect, EmptyTrashSelect,
      CleanupEndpointSelect, PurgeCommit, Abort, DeleteRows, dbVars
<1>5. Environment => verHash' = verHash
  BY DEF Environment, PutChunk, TrashFile, RestoreFile, BestEffortDelete, Age, Crash, dbVars
<1>6. Background => verHash' = verHash
  BY DEF Background, SweepScan, SweepObjects, SweepRows, DeleteRows, RetryFetch, RetryDelete,
     RetryDeleteFails, RetryConfirm, dbVars
<1> QED
  BY <1>3, <1>4, <1>5, <1>6 DEF Next, vars, dbVars

\* What a step can do to the pointer and the hash of a file with one version.
LEMMA PointerFacts ==
  ASSUME TypeOK, IndInv, FeatureInv, "create_version" \notin Feature, OneVersion, [Next]_vars,
         NEW f \in File
  PROVE  \/ fileHash'[f] = fileHash[f] /\ current'[f] \in {Null, current[f]}
         \/ \E v \in Version : current'[f] = v /\ fileHash'[f] = verHash'[v]
         \/ \E r \in Req : BulkCompleteFileHash(r)
<1> DEFINE Same == fileHash'[f] = fileHash[f] /\ current'[f] \in {Null, current[f]}
           Goal == \/ Same
                   \/ \E v \in Version : current'[f] = v /\ fileHash'[f] = verHash'[v]
                   \/ \E r \in Req : BulkCompleteFileHash(r)
<1>1. UNCHANGED <<fileHash, current>> => Same
  OBVIOUS
<1>2. ASSUME NEW F, NEW V, NEW C, DeleteRows(F, V, C) PROVE Same
  BY <1>2 DEF DeleteRows
<1>3. ASSUME NEW g \in File, NEW v \in Version, NEW c, InsertFile(g, v, c) PROVE Goal
  <2>1. /\ fileHash' = [fileHash EXCEPT ![g] = c] /\ current' = [current EXCEPT ![g] = v]
        /\ verHash' = [verHash EXCEPT ![v] = c]
    BY <1>3 DEF InsertFile, InsertVersion
  <2>2. CASE f = g
    BY <2>1, <2>2 DEF TypeOK
  <2>3. CASE f # g
    BY <2>1, <2>3 DEF TypeOK
  <2> QED
    BY <2>2, <2>3
<1>4. ASSUME NEW r \in Req, req[r].at \in {"complete", "restore"}, Activate(r) PROVE UNCHANGED current
  <2>1. PICK g \in File, v \in Version : /\ req[r].file = g /\ req[r].version = v
                                         /\ verSt[v] = "inactive" /\ fileOf[v] = g
    BY <1>4 DEF IndInv, RequestInv, HoldsVersion, HoldsFile
  <2>2. current' = [current EXCEPT ![g] = v] /\ current[g] = v
    BY <1>4, <2>1 DEF Activate, OneVersion, VersionExists
  <2> QED
    BY <2>2 DEF TypeOK
<1>5. ASSUME NEW r \in Req, CompleteUploadCommit(r) \/ RestoreVersionCommit(r) PROVE Same
  BY <1>1, <1>4, <1>5 DEF CompleteUploadCommit, RestoreVersionCommit
<1> HIDE DEF Same
<1>6. Same => Goal
  OBVIOUS
<1>7. ASSUME NEW r \in Req, BulkCompleteFileHash(r) PROVE Goal
  BY <1>7
<1> HIDE DEF Goal
<1>8. ASSUME NEW r \in Req, Upload(r) PROVE Goal
  <2>1. ASSUME NEW v \in Version, CreateVersionInsert(r, v) PROVE FALSE
    BY <2>1 DEF CreateVersionInsert, FeatureInv
  <2> QED
    BY <1>1, <1>2, <1>3, <1>5, <1>6, <1>7, <1>8, <2>1
    DEF Upload, CreateFileCheck, CreateFileDedup, CreateFileGhost, CreateFileInsert,
        BulkInitUploads, BulkCompleteHash, CreateVersionCheck, VerifyChunkHead,
        VerifyChunkMark, CompleteUploadLock, RestoreVersionLock, dbVars
<1>9. ASSUME NEW r \in Req, Removal(r) PROVE Same
  BY <1>1, <1>2, <1>9
  DEF Removal, DeleteVersionLock, DeleteVersionCommit, CancelUploadCheck, CancelUploadKeys,
      CancelUploadCommit, PermanentlyDeleteLock, BulkPurgeSelect, EmptyTrashSelect,
      CleanupEndpointSelect, PurgeCommit, Abort, dbVars
<1>10. Environment => Same
  BY <1>1 DEF Environment, PutChunk, TrashFile, RestoreFile, BestEffortDelete, Age, Crash, dbVars
<1>11. Background => Same
  BY <1>1, <1>2
  DEF Background, SweepScan, SweepObjects, SweepRows, RetryFetch, RetryDelete,
      RetryDeleteFails, RetryConfirm, dbVars
<1>12. Goal
  BY <1>1, <1>6, <1>8, <1>9, <1>10, <1>11 DEF Next, vars, dbVars
<1> QED
  BY <1>12 DEF Goal, Same

LEMMA HashStep ==
  ASSUME TypeOK, IndInv, FeatureInv, "create_version" \notin Feature, HashInv, [Next]_vars
  PROVE  HashInv'
<1>1. OneVersion /\ OneVersion'
  BY OneVersionStep DEF HashInv
<1>2. ASSUME NEW f \in File, current'[f] # Null, fileHash'[f] # Null
      PROVE  verHash'[current'[f]] = fileHash'[f]
  <2>1. CASE fileHash'[f] = fileHash[f] /\ current'[f] = current[f]
    <3>1. current[f] \in Version /\ verSt[current[f]] # "none"
      BY <1>2, <2>1 DEF IndInv, RowInv, VersionExists, TypeOK
    <3>2. verHash[current[f]] = fileHash[f]
      BY <1>2, <2>1 DEF HashInv
    <3> QED
      BY <1>2, <2>1, <3>1, <3>2, HashesStay
  <2>2. ASSUME NEW r \in Req, BulkCompleteFileHash(r) PROVE verHash'[current'[f]] = fileHash'[f]
    <3>1. /\ fileHash' = [g \in File |-> IF current[g] = req[r].version THEN req[r].hash ELSE fileHash[g]]
          /\ UNCHANGED <<current, verHash>>
      BY <2>2 DEF BulkCompleteFileHash
    <3>2. verHash[req[r].version] = req[r].hash
      BY <2>2 DEF BulkCompleteFileHash, HashInv, KnowsHash
    <3> QED
      BY <1>2, <3>1, <3>2 DEF HashInv
  <2> QED
    BY <1>1, <1>2, <2>1, <2>2, PointerFacts
<1>3. ASSUME NEW r \in Req PROVE KnowsHash(r)'
  <2>1. CASE req'[r] = req[r]
    <3> SUFFICES ASSUME req[r].at \in {"bulk_file_hash", "create_head"}
                 PROVE  /\ req[r].version \in Version /\ verSt'[req[r].version] # "none"
                        /\ req[r].hash \in Content /\ verHash'[req[r].version] = req[r].hash
      BY <2>1 DEF KnowsHash
    <3>1. /\ req[r].version \in Version /\ verSt[req[r].version] # "none"
          /\ req[r].hash \in Content /\ verHash[req[r].version] = req[r].hash
      BY DEF HashInv, KnowsHash
    <3>2. verHash'[req[r].version] = req[r].hash
      BY <3>1, HashesStay, ConstantsAssumption
    <3> QED
      BY <3>1, <3>2, StepFacts DEF RowFacts
  <2>2. CASE req'[r].at \notin {"bulk_file_hash", "create_head"}
    BY <2>2 DEF KnowsHash
  <2>3. ASSUME NEW v \in Version, NEW c \in Content, BulkCompleteHash(r, v, c) PROVE KnowsHash(r)'
    <3>1. req'[r].version = v /\ req'[r].hash = c
      BY <2>3 DEF BulkCompleteHash, Goto, IdleReq, TypeOK
    <3>2. verHash'[v] = c /\ verSt'[v] # "none"
      BY <2>3 DEF BulkCompleteHash, VersionExists, TypeOK
    <3> QED
      BY <3>1, <3>2 DEF KnowsHash
  <2>4. ASSUME NEW c \in Content, CreateFileCheck(r, c), req'[r].at = "create_head" PROVE KnowsHash(r)'
    <3>1. PICK f \in DedupCandidates(c) : req'[r].version = current[f] /\ req'[r].hash = c
      BY <2>4, DedupFinds
    <3>2. current[f] \in Version /\ verSt[current[f]] = "active" /\ fileHash[f] = c
      BY <3>1 DEF DedupCandidates, TypeOK
    <3>3. verHash[current[f]] = c
      BY <3>1, <3>2, ConstantsAssumption DEF HashInv, DedupCandidates
    <3> QED
      BY <2>4, <3>1, <3>2, <3>3 DEF KnowsHash, CreateFileCheck, dbVars
  <2> QED
    BY <2>1, <2>2, <2>3, <2>4, RequestSteps, ProceedsTo
<1> QED
  BY <1>1, <1>2, <1>3 DEF HashInv

LEMMA HashCorrect ==
  ASSUME "create_version" \notin Feature
  PROVE  Spec => []HashInv
<1>1. Init => HashInv
  BY DEF Init, HashInv, OneVersion, KnowsHash, IdleReq, VersionExists
<1>2. TypeOK /\ IndInv /\ FeatureInv /\ HashInv /\ [Next]_vars => HashInv'
  BY HashStep
<1> QED
  BY <1>1, <1>2, TypeCorrect, IndInvCorrect, FeatureCorrect, PTL DEF Spec

\* create_file answers "deduplicated" with a version of the content it was asked for, wherever the
\* two UPDATEs of bulk_complete_uploads were interrupted, as long as no file gets a second version
\* (create_version leaves files.plaintext_blake3 as it was).
THEOREM DedupRight ==
  ASSUME "create_version" \notin Feature
  PROVE  Spec => []DedupMatchesContent
<1>1. HashInv => DedupMatchesContent
  BY DEF HashInv, KnowsHash, DedupMatchesContent
<1> QED
  BY <1>1, HashCorrect, PTL

\* The whole invariant that the runs check: each part under the operations it needs.
THEOREM ContentCorrect == Spec => []ContentInv
<1>1. Spec => [](ContentSafe => ActiveInv)
  <2>1. CASE ContentSafe
    BY <2>1, ActiveCorrect, PTL
  <2>2. CASE ~ ContentSafe
    BY <2>2, PTL
  <2> QED
    BY <2>1, <2>2
<1>2. Spec => [](KeysRecorded => RecordInv)
  <2>1. CASE KeysRecorded
    BY <2>1, RecordCorrect, PTL
  <2>2. CASE ~ KeysRecorded
    BY <2>2, PTL
  <2> QED
    BY <2>1, <2>2
<1>3. Spec => []("create_version" \notin Feature => HashInv)
  <2>1. CASE "create_version" \notin Feature
    BY <2>1, HashCorrect, PTL
  <2>2. CASE ~ ("create_version" \notin Feature)
    BY <2>2, PTL
  <2> QED
    BY <2>1, <2>2
<1>4. StoredInv /\ FeatureInv /\ (ContentSafe => ActiveInv) /\ (KeysRecorded => RecordInv)
      /\ ("create_version" \notin Feature => HashInv) => ContentInv
  BY DEF ContentInv
<1> QED
  BY <1>1, <1>2, <1>3, <1>4, StoredCorrect, FeatureCorrect, PTL
=============================================================================
