---------------------------- MODULE SharesProofs ----------------------------
(* Proofs about Shares, for every number of folders, files and shares. *)
EXTENDS Shares, FoldersProofs

-----------------------------------------------------------------------------
(* The walk up of verify_file_in_shared_folder *)

\* The chain begins at a live folder and goes on while there is a live one above.
LEMMA FolderChainClosed ==
  ASSUME NEW p
  PROVE  /\ p \in Folder /\ Live(p) => p \in FolderChain(p)
         /\ \A y \in FolderChain(p) :
               parent[y] \in Folder /\ Live(parent[y]) => parent[y] \in FolderChain(p)
         /\ FolderChain(p) \subseteq Folder
  BY DEF FolderChain

\* It is contained in every set of folders that is closed like it.
LEMMA FolderChainLeast ==
  ASSUME NEW p, NEW S \in SUBSET Folder, Live(p) => p \in S,
         \A y \in S : Live(parent[y]) => parent[y] \in S
  PROVE  FolderChain(p) \subseteq S
  BY DEF FolderChain

\* The folder of a live row is live.
LEMMA LiveAbove ==
  ASSUME TreeInv, NEW x \in rows, Live(x), parent[x] # Null
  PROVE  parent[x] \in Folder /\ parent[x] \in rows /\ Live(parent[x])
  BY FoldersAssumption DEF TreeInv, TypeOK, TrashClosed, Live, Trashed, Item

\* What is on the chain of p is live and has p below it.
LEMMA ChainIsAbove ==
  ASSUME TreeInv, NEW p \in Folder, Live(p), NEW d \in FolderChain(p)
  PROVE  Live(d) /\ p \in Subtree({d})
<1> DEFINE S == {e \in Folder : Live(e) /\ p \in Subtree({e})}
<1>1. p \in S
  BY SubtreeClosed DEF Live
<1>2. ASSUME NEW e \in S, Live(parent[e]) PROVE parent[e] \in S
  <2>1. e \in rows /\ parent[e] \in rows /\ parent[e] \in Folder
    <3>1. e \in rows /\ parent[e] \in rows /\ parent[e] \in Folder \cup {Null}
      BY <1>2 DEF Live, TreeInv, TypeOK, Item
    <3> QED
      BY <3>1, FoldersAssumption DEF TreeInv, TypeOK, Item
  <2>2. e \in Subtree({parent[e]})
    BY <2>1, SubtreeClosed
  <2>3. Subtree({e}) \subseteq Subtree({parent[e]})
    BY <2>2, SubtreeClosed, SubtreeLeast
  <2> QED
    BY <1>2, <2>1, <2>3
<1>3. FolderChain(p) \subseteq S
  <2>1. S \in SUBSET Folder
    OBVIOUS
  <2> HIDE DEF S
  <2> QED
    BY <1>1, <1>2, <2>1, FolderChainLeast
<1> QED
  BY <1>3

\* A live row below a folder has the folder on the chain above it.
LEMMA BelowIsOnChain ==
  ASSUME TreeInv, NEW d \in Folder, Live(d), NEW x \in Subtree({d}), Live(x), x # d
  PROVE  parent[x] # Null /\ d \in FolderChain(parent[x])
<1> DEFINE On(y) == y = d \/ (parent[y] # Null /\ d \in FolderChain(parent[y]))
           S == {y \in rows : Live(y) => On(y)}
<1>1. d \in S
  BY DEF Live
<1>2. ASSUME NEW y \in rows, parent[y] \in S PROVE y \in S
  <2> SUFFICES ASSUME Live(y) PROVE On(y)
    OBVIOUS
  <2> DEFINE q == parent[y]
  <2>1. q # Null
    BY <1>2, FoldersAssumption DEF TreeInv, TypeOK, Item
  <2>2. q \in Folder /\ q \in rows /\ Live(q)
    BY <2>1, LiveAbove
  <2>3. CASE q = d
    BY <2>1, <2>2, <2>3, FolderChainClosed
  <2>4. CASE parent[q] # Null /\ d \in FolderChain(parent[q])
    <3>1. parent[q] \in Folder /\ Live(parent[q])
      BY <2>2, <2>4, LiveAbove
    <3>2. parent[q] \in FolderChain(q)
      BY <2>2, <3>1, FolderChainClosed
    <3>3. \A z \in FolderChain(q) : Live(parent[z]) => parent[z] \in FolderChain(q)
      <4> SUFFICES ASSUME NEW z \in FolderChain(q), Live(parent[z]) PROVE parent[z] \in Folder
        BY FolderChainClosed
      <4>1. z \in Folder /\ parent[z] \in rows
        BY FolderChainClosed DEF Live
      <4> QED
        BY <4>1, FoldersAssumption DEF TreeInv, TypeOK, Item
    <3>4. FolderChain(q) \in SUBSET Folder
      BY FolderChainClosed
    <3>5. FolderChain(parent[q]) \subseteq FolderChain(q)
      BY <3>2, <3>3, <3>4, FolderChainLeast
    <3> QED
      BY <2>1, <2>4, <3>5
  <2> QED
    BY <1>2, <2>2, <2>3, <2>4
<1>3. Subtree({d}) \subseteq S
  <2>1. S \in SUBSET rows /\ {d} \cap rows \subseteq S
    BY <1>1
  <2> HIDE DEF S
  <2> QED
    BY <1>2, <2>1, SubtreeLeast
<1> QED
  BY <1>3

-----------------------------------------------------------------------------
\* Beside the shares, the tree does what Folders says of a user who checks parents.
THEOREM SharesImplementFolders ==
  SharesSpec => CheckedSpec
<1>1. SharesInit => Init
  BY DEF SharesInit
<1>2. [SharesNext]_allVars => [CheckedNext]_vars
  BY DEF SharesNext, allVars, CreateShareCheck, CreateShareInsert, RevokeShare, PurgeTrashShares,
     PurgeFileShares, PurgeFoldersShares, CheckedNext
<1> QED
  BY <1>1, <1>2, PTL DEF SharesSpec, CheckedSpec

\* A folder share gives exactly the live files below the folder, whatever was moved, trashed,
\* restored or purged since it was made.
THEOREM FolderSharesExact ==
  SharesSpec => []FolderShareExact
<1>1. TreeInv => FolderShareExact
  <2> SUFFICES ASSUME TreeInv, NEW s \in Share \ dead, item[s] \in Folder, NEW f \in File
               PROVE  f \in GetSharedFileManifest(s) <=>
                        Live(item[s]) /\ Live(f) /\ f \in Subtree({item[s]})
    BY DEF FolderShareExact, GetSharedFileManifest
  <2> DEFINE d == item[s]
  <2>1. d \in Folder /\ d # f /\ Null \notin Folder
    BY FoldersAssumption
  <2>2. f \in GetSharedFileManifest(s) <=>
          /\ f \in rows /\ Live(f) /\ parent[f] # Null
          /\ parent[f] = d \/ d \in FolderChain(parent[f])
    BY <2>1 DEF GetSharedFileManifest, VerifyFile
  <2> HIDE DEF d
  <2>3. ASSUME f \in rows, Live(f), parent[f] # Null,
               parent[f] = d \/ d \in FolderChain(parent[f])
        PROVE  Live(d) /\ f \in Subtree({d})
    <3>1. parent[f] \in Folder /\ Live(parent[f])
      BY <2>3, LiveAbove
    <3>2. Live(d) /\ parent[f] \in Subtree({d})
      BY <2>3, <3>1, FolderChainClosed, ChainIsAbove
    <3> QED
      BY <2>3, <3>2, SubtreeClosed
  <2>4. ASSUME Live(d), Live(f), f \in Subtree({d})
        PROVE  f \in rows /\ parent[f] # Null /\ d \in FolderChain(parent[f])
    BY <2>1, <2>4, BelowIsOnChain DEF Live
  <2> QED
    BY <2>2, <2>3, <2>4 DEF d
<1> QED
  BY <1>1, SharesImplementFolders, TreeInvCorrect, PTL

\* No purge leaves a share of a file it removes: all of them name every file to
\* hard_delete_files, so none goes by cascade with its shares alive.
THEOREM PurgesRevokeFileShares ==
  SharesSpec => PurgeRevokesFileShares
<1> DEFINE Revokes == \A s \in Share : item[s] \in (rows \ rows') \cap File => s \in dead'
<1>1. CheckedSpec => Spec
  <2>1. [CheckedNext]_vars => [Next]_vars
    BY DEF Next
  <2> QED
    BY <2>1, PTL DEF CheckedSpec, Spec
<1>2. NoFileCascaded /\ NoFileCascaded' /\ [SharesNext]_allVars => [Revokes]_allVars
  <2> SUFFICES ASSUME NoFileCascaded, NoFileCascaded', SharesNext PROVE Revokes
    BY DEF allVars
  <2>1. HardDeleted = (rows \ rows') \cap File
    BY DEF HardDeleted, NoFileCascaded
  <2>2. ASSUME NEW X, RevokeSharesOf(X), HardDeleted \subseteq X PROVE Revokes
    BY <2>1, <2>2 DEF RevokeSharesOf
  <2>3. CASE rows \subseteq rows'
    BY <2>3
  <2>4. Arrange => rows \subseteq rows'
    BY DEF Arrange, Create, Insert, MoveFolder, MoveFile, Reparent, DeleteFile, DeleteFolder,
       BulkTrash, Trash, RestoreFile, RestoreFolder, Untrash
  <2> HIDE DEF Revokes
  <2> QED
    BY <2>2, <2>3, <2>4 DEF SharesNext, CreateShareCheck, CreateShareInsert, RevokeShare,
       PurgeTrashShares, PurgeFileShares, PurgeFoldersShares, vars
<1> QED
  BY <1>1, <1>2, SharesImplementFolders, PurgesAreExplicit, PTL
     DEF SharesSpec, PurgeRevokesFileShares
=============================================================================
