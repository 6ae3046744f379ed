-------------------------- MODULE FolderRacesProofs -------------------------
(***************************************************************************)
(* Proofs about FolderRaces: a request that runs alone, its reads and its  *)
(* commit apart, does what its action of Folders says.  For every number   *)
(* of folders and files.                                                   *)
(***************************************************************************)
EXTENDS FolderRaces, FoldersProofs

\* Requests come one after the other.
OneSlot == \A r, s \in Req : r = s

Old(X, cutoff) == {x \in X : Trashed(x) /\ deletedAt[x] <= cutoff}

\* What a purge request read: the rows it was called for, or what was trashed before a cutoff.
PurgeRead(tree, files) ==
    \/ \E D \in SUBSET Folder, F \in SUBSET File :
          /\ D \cup F # {} /\ D \cup F \subseteq rows
          /\ tree = Subtree(D) \cap Folder /\ files = (Subtree(D) \cap File) \cup F
    \/ \E cutoff \in 1..clock :
          /\ tree = Subtree(Old(Folder, cutoff)) \cap Folder
          /\ files = (Subtree(Old(Folder, cutoff)) \cap File) \cup Old(File, cutoff)

\* What a request read is still so.
ReadCurrent(q) ==
    /\ q.at = "create" => q.to \in Folder \cup {Null} /\ Target(q.to)
    /\ q.at = "move" => /\ q.item \in Item /\ q.to \in Folder \cup {Null}
                        /\ Live(q.item) /\ Target(q.to)
                        /\ q.item \in Folder => CycleCheck(q.item, q.to)
    /\ q.at = "trash" => \E D \in SUBSET Folder, F \in SUBSET File :
          D \cup F \subseteq rows /\ q.tree = Subtree(D) \cap Folder /\ q.files = F
    /\ q.at = "purge" => PurgeRead(q.tree, q.files)
    /\ q.at = "empty" =>
          q.files = (Subtree({d \in Folder : Trashed(d)}) \cap File) \cup {f \in File : Trashed(f)}

RaceInv ==
    /\ TypeOK
    /\ req = [r \in Req |-> req[r]]
    /\ \A r \in Req : ReadCurrent(req[r])

\* The fields of the two composed requests.
LEMMA RequestFields ==
  ASSUME NEW D, NEW F, NEW d
  PROVE  /\ TrashRequest(D, F).at = "trash"
         /\ TrashRequest(D, F).tree = Subtree(D) \cap Folder /\ TrashRequest(D, F).files = F
         /\ [TrashRequest(D, F) EXCEPT !.item = d].at = "trash"
         /\ [TrashRequest(D, F) EXCEPT !.item = d].tree = Subtree(D) \cap Folder
         /\ [TrashRequest(D, F) EXCEPT !.item = d].files = F
         /\ PurgeRequest(D, F).at = "purge"
         /\ PurgeRequest(D, F).tree = Subtree(D) \cap Folder
         /\ PurgeRequest(D, F).files = (Subtree(D) \cap File) \cup F
         /\ [PurgeRequest(D, F) EXCEPT !.item = d].at = "purge"
         /\ [PurgeRequest(D, F) EXCEPT !.item = d].tree = Subtree(D) \cap Folder
         /\ [PurgeRequest(D, F) EXCEPT !.item = d].files = (Subtree(D) \cap File) \cup F
         /\ [PurgeRequest(D, F) EXCEPT !.at = "empty"].at = "empty"
         /\ [PurgeRequest(D, F) EXCEPT !.at = "empty"].files = (Subtree(D) \cap File) \cup F
  BY DEF TrashRequest, PurgeRequest, IdleReq

\* The reads establish what the commits rely on.
LEMMA ReadsEstablish ==
  ASSUME TypeOK, NEW r \in Req,
         \/ \E p \in Folder \cup {Null} : CreateRead(r, p)
         \/ \E x \in Item, p \in Folder \cup {Null} : MoveRead(r, x, p)
         \/ \E d \in Folder : DeleteFolderRead(r, d) \/ PermanentDeleteFolderRead(r, d)
         \/ \E D \in SUBSET Folder, F \in SUBSET File : BulkDeleteRead(r, D, F)
         \/ \E cutoff \in 1..clock : CleanupRead(r, cutoff)
         \/ EmptyTrashRead(r)
  PROVE  \E q : Read(r, q) /\ ReadCurrent(q)
<1>1. ASSUME NEW p \in Folder \cup {Null}, CreateRead(r, p) PROVE \E q : Read(r, q) /\ ReadCurrent(q)
  <2> DEFINE q == [IdleReq EXCEPT !.at = "create", !.to = p]
  <2>1. Target(p) /\ Read(r, q)
    BY <1>1 DEF CreateRead
  <2>2. q.at = "create" /\ q.to = p
    BY DEF IdleReq
  <2> HIDE DEF q
  <2>3. ReadCurrent(q)
    BY <2>1, <2>2 DEF ReadCurrent
  <2> QED
    BY <2>1, <2>3
<1>2. ASSUME NEW x \in Item, NEW p \in Folder \cup {Null}, MoveRead(r, x, p)
      PROVE  \E q : Read(r, q) /\ ReadCurrent(q)
  <2> DEFINE q == [IdleReq EXCEPT !.at = "move", !.item = x, !.to = p]
  <2>1. Live(x) /\ Target(p) /\ (x \in Folder => CycleCheck(x, p)) /\ Read(r, q)
    BY <1>2 DEF MoveRead
  <2>2. q.at = "move" /\ q.item = x /\ q.to = p
    BY DEF IdleReq
  <2> HIDE DEF q
  <2>3. ReadCurrent(q)
    BY <2>1, <2>2 DEF ReadCurrent
  <2> QED
    BY <2>1, <2>3
<1>3. ASSUME NEW q, NEW D \in SUBSET Folder, NEW F \in SUBSET File, D \cup F \subseteq rows,
             q.at = "trash", q.tree = Subtree(D) \cap Folder, q.files = F
      PROVE  ReadCurrent(q)
  BY <1>3 DEF ReadCurrent
<1>4. ASSUME NEW q, NEW D \in SUBSET Folder, NEW F \in SUBSET File,
             D \cup F # {}, D \cup F \subseteq rows,
             q.at = "purge", q.tree = Subtree(D) \cap Folder, q.files = (Subtree(D) \cap File) \cup F
      PROVE  ReadCurrent(q)
  <2>1. PurgeRead(q.tree, q.files)
    BY <1>4 DEF PurgeRead
  <2> QED
    BY <1>4, <2>1 DEF ReadCurrent
<1>5. ASSUME NEW d \in Folder, DeleteFolderRead(r, d) PROVE \E q : Read(r, q) /\ ReadCurrent(q)
  <2> DEFINE q == [TrashRequest({d}, {}) EXCEPT !.item = d]
  <2>1. d \in rows /\ Read(r, q)
    BY <1>5 DEF DeleteFolderRead, Live
  <2>2. q.at = "trash" /\ q.tree = Subtree({d}) \cap Folder /\ q.files = {}
    BY RequestFields
  <2>3. {d} \in SUBSET Folder /\ {} \in SUBSET File /\ {d} \cup {} \subseteq rows
    BY <2>1
  <2> HIDE DEF q
  <2>4. ReadCurrent(q)
    BY <1>3, <2>2, <2>3
  <2> QED
    BY <2>1, <2>4
<1>6. ASSUME NEW d \in Folder, PermanentDeleteFolderRead(r, d) PROVE \E q : Read(r, q) /\ ReadCurrent(q)
  <2> DEFINE q == [PurgeRequest({d}, {}) EXCEPT !.item = d]
  <2>1. d \in rows /\ Read(r, q)
    BY <1>6 DEF PermanentDeleteFolderRead
  <2>2. q.at = "purge" /\ q.tree = Subtree({d}) \cap Folder /\ q.files = (Subtree({d}) \cap File) \cup {}
    BY RequestFields
  <2>3. {d} \in SUBSET Folder /\ {} \in SUBSET File /\ {d} \cup {} \subseteq rows /\ {d} \cup {} # {}
    BY <2>1
  <2> HIDE DEF q
  <2>4. ReadCurrent(q)
    BY <1>4, <2>2, <2>3
  <2> QED
    BY <2>1, <2>4
<1>7. ASSUME NEW D \in SUBSET Folder, NEW F \in SUBSET File, BulkDeleteRead(r, D, F)
      PROVE  \E q : Read(r, q) /\ ReadCurrent(q)
  <2>1. D \cup F # {} /\ D \cup F \subseteq rows
    BY <1>7 DEF BulkDeleteRead
  <2>2. ReadCurrent(TrashRequest(D, F)) /\ ReadCurrent(PurgeRequest(D, F))
    BY <1>3, <1>4, <2>1, RequestFields
  <2> QED
    BY <1>7, <2>2 DEF BulkDeleteRead
<1>8. ASSUME NEW cutoff \in 1..clock, CleanupRead(r, cutoff) PROVE \E q : Read(r, q) /\ ReadCurrent(q)
  <2> DEFINE q == PurgeRequest(Old(Folder, cutoff), Old(File, cutoff))
  <2>1. Read(r, q)
    BY <1>8 DEF CleanupRead, Old
  <2>2. /\ q.at = "purge" /\ q.tree = Subtree(Old(Folder, cutoff)) \cap Folder
        /\ q.files = (Subtree(Old(Folder, cutoff)) \cap File) \cup Old(File, cutoff)
    BY RequestFields
  <2> HIDE DEF q
  <2>3. ReadCurrent(q)
    BY <2>2 DEF ReadCurrent, PurgeRead
  <2> QED
    BY <2>1, <2>3
<1>9. ASSUME EmptyTrashRead(r) PROVE \E q : Read(r, q) /\ ReadCurrent(q)
  <2> DEFINE D == {d \in Folder : Trashed(d)}
             F == {f \in File : Trashed(f)}
             q == [PurgeRequest(D, F) EXCEPT !.at = "empty"]
  <2>1. Read(r, q)
    BY <1>9 DEF EmptyTrashRead
  <2>2. q.at = "empty" /\ q.files = (Subtree(D) \cap File) \cup F
    BY RequestFields
  <2> HIDE DEF q
  <2>3. ReadCurrent(q)
    BY <2>2 DEF ReadCurrent
  <2> QED
    BY <2>1, <2>3
<1> QED
  BY <1>1, <1>2, <1>5, <1>6, <1>7, <1>8, <1>9

\* Every commit is an action of Folders, since what was read is still so.
LEMMA CommitsRefine ==
  ASSUME TypeOK, NEW r \in Req, ReadCurrent(req[r]),
         \/ \E x \in Item : CreateCommit(r, x)
         \/ MoveCommit(r) \/ TrashCommit(r) \/ PurgeCommit(r) \/ EmptyTrashCommit(r)
  PROVE  Next
<1>1. ASSUME NEW x \in Item, CreateCommit(r, x) PROVE Next
  <2>1. req[r].to \in Folder \cup {Null} /\ Create(x, req[r].to)
    BY <1>1 DEF CreateCommit, ReadCurrent, Create
  <2> QED
    BY <2>1 DEF Next, CheckedNext, Arrange
<1>2. CASE MoveCommit(r)
  <2> DEFINE x == req[r].item
             p == req[r].to
  <2>1. /\ x \in Item /\ p \in Folder \cup {Null} /\ Live(x) /\ Target(p)
        /\ x \in Folder => CycleCheck(x, p)
        /\ Reparent(x, p)
    BY <1>2 DEF MoveCommit, ReadCurrent
  <2>2. x \in Folder => MoveFolder(x, p)
    BY <2>1 DEF MoveFolder
  <2>3. x \in File => MoveFile(x, p)
    BY <2>1 DEF MoveFile
  <2> HIDE DEF x, p
  <2> QED
    BY <2>1, <2>2, <2>3 DEF Next, CheckedNext, Arrange, Item
<1>3. CASE TrashCommit(r)
  <2>1. PICK D \in SUBSET Folder, F \in SUBSET File :
            D \cup F \subseteq rows /\ req[r].tree = Subtree(D) \cap Folder /\ req[r].files = F
    BY <1>3 DEF TrashCommit, ReadCurrent
  <2> DEFINE X == req[r].tree \cup {f \in File : parent[f] \in req[r].tree} \cup F
  <2>2. Trash(X)
    BY <1>3, <2>1 DEF TrashCommit
  <2>3. ASSUME NEW x \in rows PROVE x \in X <=> x \in Subtree(D) \cup F
    <3>1. CASE x \in Folder
      BY <2>1, <3>1, FoldersAssumption
    <3>2. CASE x \in File
      <4>1. x \notin D /\ parent[x] \in Folder \cup {Null}
        BY <2>1, <3>2, FoldersAssumption DEF TypeOK, Item
      <4>2. Subtree(D) \subseteq rows /\ Null \notin rows
        BY SubtreeClosed, FoldersAssumption DEF TypeOK, Item
      <4>3. x \in Subtree(D) <=> parent[x] \in Subtree(D)
        BY <2>3, <4>1, SubtreeClosed, SubtreeParent
      <4> QED
        BY <2>1, <3>2, <4>1, <4>2, <4>3, FoldersAssumption
    <3> QED
      BY <2>3, <3>1, <3>2 DEF TypeOK, Item
  <2> HIDE DEF X
  <2>4. \A x \in Item : x \in X /\ Live(x) <=> x \in Subtree(D) \cup F /\ Live(x)
    BY <2>3 DEF Live
  <2>5. \E x \in Subtree(D) \cup F : Live(x)
    BY <2>2, <2>3 DEF Trash, Live
  <2>6. BulkTrash(D, F)
    BY <2>1, <2>2, <2>4, <2>5 DEF BulkTrash, Trash
  <2> QED
    BY <2>6 DEF Next, CheckedNext, Arrange
<1>4. CASE PurgeCommit(r)
  <2>1. PurgeRead(req[r].tree, req[r].files) /\ Purge(req[r].files, req[r].tree)
    BY <1>4 DEF PurgeCommit, ReadCurrent
  <2>2. ASSUME NEW D \in SUBSET Folder, NEW F \in SUBSET File,
               D \cup F # {}, D \cup F \subseteq rows,
               Purge((Subtree(D) \cap File) \cup F, Subtree(D) \cap Folder)
        PROVE  Next
    BY <2>2 DEF Next, CheckedNext, PurgeFolders
  <2>3. ASSUME NEW cutoff \in 1..clock,
               Purge((Subtree(Old(Folder, cutoff)) \cap File) \cup Old(File, cutoff),
                     Subtree(Old(Folder, cutoff)) \cap Folder)
        PROVE  Next
    <3>1. (Subtree(Old(Folder, cutoff)) \cap File) \cup Old(File, cutoff)
             = Old(File, cutoff) \cup (Subtree(Old(Folder, cutoff)) \cap File)
      OBVIOUS
    <3>2. Purge(Old(File, cutoff) \cup (Subtree(Old(Folder, cutoff)) \cap File),
                Subtree(Old(Folder, cutoff)) \cap Folder)
      BY <2>3, <3>1
    <3>3. CleanupTrash(cutoff)
      BY <3>2 DEF CleanupTrash, Old
    <3> QED
      BY <3>3 DEF Next, CheckedNext, PurgeTrash
  <2>4. ASSUME NEW D \in SUBSET Folder, NEW F \in SUBSET File,
               D \cup F # {}, D \cup F \subseteq rows,
               req[r].tree = Subtree(D) \cap Folder, req[r].files = (Subtree(D) \cap File) \cup F
        PROVE  Next
    <3>1. Purge((Subtree(D) \cap File) \cup F, Subtree(D) \cap Folder)
      BY <2>1, <2>4
    <3> QED
      BY <2>2, <2>4, <3>1
  <2>5. ASSUME NEW cutoff \in 1..clock,
               req[r].tree = Subtree(Old(Folder, cutoff)) \cap Folder,
               req[r].files = (Subtree(Old(Folder, cutoff)) \cap File) \cup Old(File, cutoff)
        PROVE  Next
    BY <2>1, <2>3, <2>5
  <2> QED
    BY <2>1, <2>4, <2>5 DEF PurgeRead
<1>5. CASE EmptyTrashCommit(r)
  <2> DEFINE D == {d \in Folder : Trashed(d)}
             F == {f \in File : Trashed(f)}
  <2>1. req[r].files = (Subtree(D) \cap File) \cup F /\ Purge(req[r].files, D)
    BY <1>5 DEF EmptyTrashCommit, ReadCurrent
  <2>2. (Subtree(D) \cap File) \cup F = F \cup (Subtree(D) \cap File)
    OBVIOUS
  <2>3. Purge(F \cup (Subtree(D) \cap File), D)
    BY <2>1, <2>2
  <2>4. EmptyTrash
    BY <2>3 DEF EmptyTrash
  <2> QED
    BY <2>4 DEF Next, CheckedNext, PurgeTrash
<1> QED
  BY <1>1, <1>2, <1>3, <1>4, <1>5

\* A read stays current while nothing is written.
LEMMA ReadStays ==
  ASSUME UNCHANGED vars, NEW s \in Req, NEW q, ReadCurrent(q), req'[s] = q
  PROVE  ReadCurrent(req[s])'
<1>1. UNCHANGED <<rows, parent, deletedAt, clock>>
  BY DEF vars
<1>2. ASSUME NEW x PROVE /\ Live(x)' = Live(x) /\ Trashed(x)' = Trashed(x)
                         /\ LiveDescendants(x)' = LiveDescendants(x)
  BY <1>1 DEF Live, Trashed, LiveDescendants
<1>3. ASSUME NEW D PROVE Subtree(D)' = Subtree(D)
  BY <1>1 DEF Subtree
<1>4. PurgeRead(q.tree, q.files)' <=> PurgeRead(q.tree, q.files)
  BY <1>1 DEF PurgeRead, Subtree, Old, Trashed
<1> QED
  BY <1>1, <1>2, <1>3, <1>4 DEF ReadCurrent, Target, CycleCheck

\* With one slot, every step is an action of Folders or changes no row, and what was read stays so.
LEMMA RaceStep ==
  ASSUME OneSlot, RaceInv, [RaceNext]_raceVars
  PROVE  [Next]_vars /\ RaceInv'
<1>1. TypeOK /\ req = [r \in Req |-> req[r]] /\ \A r \in Req : ReadCurrent(req[r])
  BY DEF RaceInv
<1>2. ASSUME NEW q, q.at = "idle", NEW s \in Req, req'[s] = q PROVE ReadCurrent(req[s])'
  BY <1>2 DEF ReadCurrent
<1>3. ASSUME NEW r \in Req, NEW q, Read(r, q), ReadCurrent(q) PROVE [Next]_vars /\ RaceInv'
  <2>1. UNCHANGED vars /\ req' = [req EXCEPT ![r] = q]
    BY <1>3 DEF Read
  <2>2. \A s \in Req : req'[s] = q /\ req' = [t \in Req |-> req'[t]]
    BY <1>1, <2>1 DEF OneSlot
  <2>3. \A s \in Req : ReadCurrent(req[s])'
    BY <1>3, <2>1, <2>2, ReadStays
  <2>4. TypeOK'
    BY <1>1, <2>1, FoldersTypeStep
  <2> QED
    BY <1>3, <2>1, <2>2, <2>3, <2>4 DEF RaceInv
<1>4. ASSUME NEW r \in Req, Done(r), [Next]_vars PROVE RaceInv'
  <2>1. req' = [req EXCEPT ![r] = IdleReq] /\ IdleReq.at = "idle"
    BY <1>4 DEF Done, IdleReq
  <2>2. \A s \in Req : req'[s] = IdleReq /\ req' = [t \in Req |-> req'[t]]
    BY <1>1, <2>1 DEF OneSlot
  <2>3. \A s \in Req : ReadCurrent(req[s])'
    BY <1>2, <2>1, <2>2
  <2>4. TypeOK'
    BY <1>1, <1>4, FoldersTypeStep
  <2> QED
    BY <1>4, <2>2, <2>3, <2>4 DEF RaceInv
<1>5. ASSUME NEW r \in Req, AtOnce(r) PROVE [Next]_vars /\ RaceInv'
  <2>1. Next
    BY <1>5 DEF AtOnce, Next, CheckedNext, Arrange
  <2>2. Idle(r) /\ UNCHANGED req
    BY <1>5 DEF AtOnce
  <2>3. \A s \in Req : ReadCurrent(req[s])'
    BY <1>2, <2>2 DEF Idle, OneSlot
  <2>4. TypeOK'
    BY <1>1, <2>1, FoldersTypeStep
  <2> QED
    BY <1>1, <2>1, <2>2, <2>3, <2>4 DEF RaceInv
<1>6. ASSUME NEW r \in Req, NEW x \in Item, CreateCommit(r, x) PROVE [Next]_vars /\ RaceInv'
  BY <1>1, <1>4, <1>6, CommitsRefine DEF CreateCommit
<1>7. ASSUME NEW r \in Req, MoveCommit(r) \/ TrashCommit(r) \/ PurgeCommit(r) \/ EmptyTrashCommit(r)
      PROVE  [Next]_vars /\ RaceInv'
  BY <1>1, <1>4, <1>7, CommitsRefine DEF MoveCommit, TrashCommit, PurgeCommit, EmptyTrashCommit
<1>8. ASSUME NEW r \in Req, Fail(r) PROVE [Next]_vars /\ RaceInv'
  BY <1>4, <1>8 DEF Fail
<1>9. CASE UNCHANGED raceVars
  <2>1. UNCHANGED vars /\ UNCHANGED req
    BY <1>9 DEF raceVars
  <2>2. TypeOK'
    BY <1>1, <2>1, FoldersTypeStep
  <2>3. \A s \in Req : ReadCurrent(req[s])'
    BY <1>1, <2>1, ReadStays
  <2> QED
    BY <1>1, <2>1, <2>2, <2>3 DEF RaceInv
<1> QED
  BY <1>1, <1>3, <1>5, <1>6, <1>7, <1>8, <1>9, ReadsEstablish DEF RaceNext

\* Requests that come one after the other implement Folders: splitting each into its reads and its
\* commit, with the subtree collected by the one and deleted by the other, changes nothing as long
\* as no other request commits in between.  (With two slots it does: the run bug_purge_cascade.)
THEOREM AloneImplementsFolders ==
  ASSUME OneSlot
  PROVE  RaceSpec => ImplementsFolders
<1>1. RaceInit => Init /\ RaceInv
  <2> SUFFICES ASSUME RaceInit PROVE Init /\ RaceInv
    OBVIOUS
  <2>1. Init /\ req = [r \in Req |-> IdleReq]
    BY DEF RaceInit
  <2>2. TypeOK
    BY <2>1, FoldersAssumption DEF Init, TypeOK
  <2>3. ReadCurrent(IdleReq)
    BY DEF ReadCurrent, IdleReq
  <2> QED
    BY <2>1, <2>2, <2>3 DEF RaceInv
<1>2. RaceInv /\ [RaceNext]_raceVars => [Next]_vars /\ RaceInv'
  BY RaceStep
<1> QED
  BY <1>1, <1>2, PTL DEF RaceSpec, ImplementsFolders, Spec

\* ... so that a request that runs alone deletes no file by cascade.
THEOREM AlonePurgesExplicitly ==
  ASSUME OneSlot
  PROVE  RaceSpec => []NoFileCascaded
<1>1. Spec => []NoFileCascaded
  BY PurgesAreExplicit
<1>2. RaceSpec => Spec
  BY AloneImplementsFolders DEF ImplementsFolders
<1> QED
  BY <1>1, <1>2, PTL
=============================================================================
