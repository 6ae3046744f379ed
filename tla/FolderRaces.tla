---------------------------- MODULE FolderRaces -----------------------------
(***************************************************************************)
(* The requests of Folders as they run beside each other: the reads a      *)
(* request makes before it writes are one step, its writes and commit      *)
(* another.  Only delete_folder, restore_folder and permanent_delete_folder *)
(* lock a row (FOR UPDATE), the one folder they are called for; an INSERT  *)
(* or UPDATE that refers to a locked folder waits for it.                  *)
(***************************************************************************)
EXTENDS Folders

CONSTANT Req   \* slots for requests in flight at the same time

VARIABLE req

raceVars == <<vars, req>>

IdleReq == [at |-> "idle", item |-> Null, to |-> Null, tree |-> {}, files |-> {}]

RaceInit == Init /\ req = [r \in Req |-> IdleReq]

Idle(r) == req[r].at = "idle"
Done(r) == req' = [req EXCEPT ![r] = IdleReq]

\* Rows that a request other than r has locked FOR UPDATE.
LockedByOthers(r) ==
    {req[q].item : q \in {s \in Req \ {r} : req[s].at \in {"trash", "purge"}}} \ {Null}

Free(r, X) == X \cap LockedByOthers(r) = {}

\* The reads: they change no row.
Read(r, q) == Idle(r) /\ req' = [req EXCEPT ![r] = q] /\ UNCHANGED vars

\* verify_folder_ownership of create_folder and create_file.
CreateRead(r, p) ==
    Target(p) /\ Read(r, [IdleReq EXCEPT !.at = "create", !.to = p])

\* Mutant: nobody looks for a cycle.
MoveReadUnchecked(r, x, p) ==
    /\ Live(x) /\ Target(p)
    /\ Read(r, [IdleReq EXCEPT !.at = "move", !.item = x, !.to = p])

\* The checks of move_folder and move_file, on unlocked rows.
MoveRead(r, x, p) ==
    /\ Live(x) /\ Target(p)
    /\ x \in Folder => CycleCheck(x, p)
    /\ Read(r, [IdleReq EXCEPT !.at = "move", !.item = x, !.to = p])

TrashRequest(D, F) ==
    [IdleReq EXCEPT !.at = "trash", !.tree = Subtree(D) \cap Folder, !.files = F]

PurgeRequest(D, F) ==
    [IdleReq EXCEPT !.at = "purge", !.tree = Subtree(D) \cap Folder,
                    !.files = (Subtree(D) \cap File) \cup F]

DeleteFolderRead(r, d) ==
    /\ Live(d) /\ Free(r, {d})
    /\ Read(r, [TrashRequest({d}, {}) EXCEPT !.item = d])

PermanentDeleteFolderRead(r, d) ==
    /\ d \in rows /\ Free(r, {d})
    /\ Read(r, [PurgeRequest({d}, {}) EXCEPT !.item = d])

\* bulk_delete locks nothing.
BulkDeleteRead(r, D, F) ==
    /\ D \cup F # {} /\ D \cup F \subseteq rows
    /\ Read(r, TrashRequest(D, F)) \/ Read(r, PurgeRequest(D, F))

\* The cleanup endpoint's reads.
CleanupRead(r, cutoff) ==
    LET Old(x) == Trashed(x) /\ deletedAt[x] <= cutoff
    IN  Read(r, PurgeRequest({d \in Folder : Old(d)}, {f \in File : Old(f)}))

\* Mutant: only the files that are themselves in the trash.
EmptyTrashReadFlat(r) ==
    Read(r, [IdleReq EXCEPT !.at = "empty", !.files = {f \in File : Trashed(f)}])

EmptyTrashRead(r) ==
    LET D == {d \in Folder : Trashed(d)}
    IN  Read(r, [PurgeRequest(D, {f \in File : Trashed(f)}) EXCEPT !.at = "empty"])

CreateCommit(r, x) ==
    LET p == req[r].to
    IN  /\ req[r].at = "create"
        /\ p \in rows \cup {Null} /\ Free(r, {p})
        /\ Insert(x, p)
        /\ Done(r)

\* UPDATE ... WHERE deleted_at IS NULL, with the parent that was checked before.
MoveCommit(r) ==
    LET x == req[r].item
        p == req[r].to
    IN  /\ req[r].at = "move"
        /\ Live(x) /\ p \in rows \cup {Null} /\ Free(r, {x, p})
        /\ Reparent(x, p)
        /\ Done(r)

\* The folders by the ids that were read, the files as they are in them now.
TrashCommit(r) ==
    /\ req[r].at = "trash"
    /\ Free(r, req[r].tree)
    /\ Trash(req[r].tree \cup {f \in File : parent[f] \in req[r].tree} \cup req[r].files)
    /\ Done(r)

\* Files and folders by the ids that were read.
PurgeCommit(r) ==
    /\ req[r].at = "purge"
    /\ Free(r, req[r].tree)
    /\ Purge(req[r].files, req[r].tree)
    /\ Done(r)

\* The files that were read; the folders whose deleted_at is set now.
EmptyTrashCommit(r) ==
    LET D == {d \in Folder : Trashed(d)}
    IN  /\ req[r].at = "empty"
        /\ Free(r, D)
        /\ Purge(req[r].files, D)
        /\ Done(r)

\* Requests whose first statement locks or writes the row they are about and repeats the check
\* on it; their statements are not told apart here.
AtOnce(r) ==
    /\ Idle(r)
    /\ \/ \E f \in File : DeleteFile(f) \/ PurgeFile(f)
       \/ \E f \in File : Free(r, Ancestors(f)) /\ RestoreFile(f)
       \/ \E d \in Folder : Free(r, Subtree({d}) \cup Ancestors(d)) /\ RestoreFolder(d)
       \/ \E d \in Folder, p \in Folder : Free(r, {p}) /\ CreateFoldersBulk(d, p)
       \/ \E f \in File, p \in Folder : Free(r, {p}) /\ BulkInitUploads(f, p)
    /\ UNCHANGED req

\* A check refuses at the last moment, or the connection is lost: no row is written.
Fail(r) == ~ Idle(r) /\ Done(r) /\ UNCHANGED vars

RaceNext ==
    \E r \in Req :
        \/ \E p \in Folder \cup {Null} : CreateRead(r, p)
        \/ \E x \in Item, p \in Folder \cup {Null} : MoveRead(r, x, p)
        \/ \E d \in Folder : DeleteFolderRead(r, d) \/ PermanentDeleteFolderRead(r, d)
        \/ \E D \in SUBSET Folder, F \in SUBSET File : BulkDeleteRead(r, D, F)
        \/ \E cutoff \in 1..clock : CleanupRead(r, cutoff)
        \/ EmptyTrashRead(r)
        \/ \E x \in Item : CreateCommit(r, x)
        \/ MoveCommit(r) \/ TrashCommit(r) \/ PurgeCommit(r) \/ EmptyTrashCommit(r)
        \/ AtOnce(r)
        \/ Fail(r)

RaceSpec == RaceInit /\ [][RaceNext]_raceVars

-----------------------------------------------------------------------------
(* Properties *)

\* A request alone does what its action of Folders says: with one slot, this specification
\* implements Folders (and so inherits its invariants).
ImplementsFolders == Spec
=============================================================================
