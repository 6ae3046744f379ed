--------------------------- MODULE FoldersProofs ----------------------------
(***************************************************************************)
(* Proofs about Folders, for every number of folders and files: of the     *)
(* tree, as long as every parent is checked before it is used              *)
(* (CheckedSpec); of the purges, whatever is created where (Spec).         *)
(***************************************************************************)
EXTENDS Folders, TLAPS

\* Subtree(D) has the rows of D, and every row whose parent it has.
LEMMA SubtreeClosed ==
  ASSUME NEW D
  PROVE  /\ Subtree(D) \subseteq rows
         /\ D \cap rows \subseteq Subtree(D)
         /\ \A y \in rows : parent[y] \in Subtree(D) => y \in Subtree(D)
  BY DEF Subtree

\* Subtree(D) is contained in every set of rows that is closed like it.
LEMMA SubtreeLeast ==
  ASSUME NEW D, NEW S \in SUBSET rows, D \cap rows \subseteq S,
         \A y \in rows : parent[y] \in S => y \in S
  PROVE  Subtree(D) \subseteq S
  BY DEF Subtree

\* A row of Subtree(D) that is not in D has its parent there.
LEMMA SubtreeParent ==
  ASSUME NEW D, NEW x \in Subtree(D), x \notin D
  PROVE  parent[x] \in Subtree(D)
<1> SUFFICES ASSUME parent[x] \notin Subtree(D) PROVE FALSE
  OBVIOUS
<1> DEFINE S == Subtree(D) \ {x}
<1>1. S \in SUBSET rows /\ D \cap rows \subseteq S
  BY SubtreeClosed
<1>2. \A y \in rows : parent[y] \in S => y \in S
  BY SubtreeClosed
<1>3. Subtree(D) \subseteq S
  BY <1>1, <1>2, SubtreeLeast
<1> QED
  BY <1>3

\* Ancestors(x) has the parent of x, and the parent of each of its members.
LEMMA AncestorsClosed ==
  ASSUME TypeOK, NEW x \in Item
  PROVE  /\ parent[x] # Null => parent[x] \in Ancestors(x)
         /\ \A y \in Ancestors(x) : parent[y] # Null => parent[y] \in Ancestors(x)
         /\ Ancestors(x) \subseteq Folder
  BY DEF Ancestors, TypeOK, Item

\* The walk of is_descendant_or_self starts at a live folder and follows live rows.
LEMMA LiveDescendantsClosed ==
  ASSUME NEW d \in rows
  PROVE  /\ d \in LiveDescendants(d)
         /\ \A y \in rows : Live(y) /\ parent[y] \in LiveDescendants(d) => y \in LiveDescendants(d)
  BY DEF LiveDescendants

-----------------------------------------------------------------------------
(* Every operation keeps the tree well formed, closed under trash, and acyclic. *)

\* A new row is a leaf under a live folder, or a root.
LEMMA CreateInv ==
  ASSUME TreeInv, NEW x \in Item, NEW p \in Folder \cup {Null}, Create(x, p)
  PROVE  TreeInv'
<1> USE FoldersAssumption DEF TreeInv, TypeOK, Item
<1>1. /\ x \notin rows /\ rows' = rows \cup {x} /\ used' = used \cup {x}
      /\ \A y \in Item : parent'[y] = IF y = x THEN p ELSE parent[y]
      /\ parent' \in [Item -> Folder \cup {Null}]
      /\ deletedAt' = deletedAt /\ clock' = clock /\ cascaded' = cascaded
      /\ p # Null => p \in rows /\ deletedAt[p] = 0
  BY DEF Create, Insert, Target, Live
<1>2. TypeOK'
  BY <1>1
<1>3. TrashClosed'
  BY <1>1 DEF TrashClosed, Trashed
<1>4. Acyclic'
  <2> SUFFICES ASSUME NEW S \in SUBSET (rows' \cap Folder), S # {},
                      \A d \in S : parent'[d] \in S
               PROVE  FALSE
    BY DEF Acyclic
  <2>1. \A d \in S : parent'[d] # x
    BY <1>1 DEF TrashClosed
  <2>2. S \ {x} \in SUBSET (rows \cap Folder) /\ S \ {x} # {}
    BY <1>1, <2>1
  <2>3. \A d \in S \ {x} : parent[d] \in S \ {x}
    BY <1>1, <2>1
  <2> QED
    BY <2>2, <2>3 DEF Acyclic
<1> QED
  BY <1>2, <1>3, <1>4

\* A move under a live folder that the cycle check let pass.  A cycle through d would, without
\* d's live descendants, be one that was there before.
LEMMA MoveInv ==
  ASSUME TreeInv, NEW x \in Item, NEW p \in Folder \cup {Null},
         Live(x), Target(p), Reparent(x, p),
         x \in Folder => p # x /\ p \notin LiveDescendants(x)
  PROVE  TreeInv'
<1> USE FoldersAssumption DEF TreeInv, TypeOK, Item
<1>1. /\ rows' = rows /\ used' = used /\ deletedAt' = deletedAt /\ clock' = clock
      /\ cascaded' = cascaded
      /\ \A y \in Item : parent'[y] = IF y = x THEN p ELSE parent[y]
      /\ parent' \in [Item -> Folder \cup {Null}]
      /\ x \in rows /\ deletedAt[x] = 0
      /\ p # Null => p \in rows /\ deletedAt[p] = 0
  BY DEF Reparent, Target, Live
<1>2. TypeOK'
  BY <1>1
<1>3. TrashClosed'
  BY <1>1 DEF TrashClosed, Trashed
<1>4. Acyclic'
  <2> SUFFICES ASSUME NEW S \in SUBSET (rows \cap Folder), S # {},
                      \A d \in S : parent'[d] \in S
               PROVE  FALSE
    BY <1>1 DEF Acyclic
  <2>1. CASE x \notin S
    <3>1. \A d \in S : parent[d] \in S
      BY <1>1, <2>1
    <3> QED
      BY <3>1 DEF Acyclic
  <2>2. CASE x \in S
    <3> DEFINE L == LiveDescendants(x)
               R == {d \in S : deletedAt[d] = 0 /\ d \notin L}
    <3>1. x \in L /\ \A y \in rows : Live(y) /\ parent[y] \in L => y \in L
      BY <1>1, LiveDescendantsClosed
    <3>2. p \in S /\ p \in rows /\ deletedAt[p] = 0 /\ p \notin L
      BY <1>1, <2>2
    <3>3. ASSUME NEW d \in R PROVE parent[d] \in R
      <4>1. d # x /\ parent[d] \in S /\ d \in rows
        BY <1>1, <3>1
      <4>2. deletedAt[parent[d]] = 0
        BY <4>1 DEF TrashClosed, Trashed
      <4>3. parent[d] \notin L
        BY <3>1, <4>1 DEF Live
      <4> QED
        BY <4>1, <4>2, <4>3
    <3>4. R \in SUBSET (rows \cap Folder) /\ R # {}
      BY <3>2
    <3> HIDE DEF R
    <3> QED
      BY <3>3, <3>4 DEF Acyclic
  <2> QED
    BY <2>1, <2>2
<1> QED
  BY <1>2, <1>3, <1>4

\* Trashing a set of rows that has the contents of each folder in it.
LEMMA TrashInv ==
  ASSUME TreeInv, NEW X, Trash(X),
         \A y \in rows : parent[y] \in X => y \in X
  PROVE  TreeInv'
<1> USE FoldersAssumption DEF TreeInv, TypeOK, Item
<1>1. /\ rows' = rows /\ used' = used /\ parent' = parent /\ clock' = clock + 1
      /\ cascaded' = cascaded
      /\ \A y \in Item : deletedAt'[y] = IF y \in X /\ y \in rows /\ deletedAt[y] = 0
                                         THEN clock + 1 ELSE deletedAt[y]
      /\ deletedAt' = [y \in Item |-> IF y \in X /\ Live(y) THEN clock + 1 ELSE deletedAt[y]]
  BY DEF Trash, Live
<1>2. TypeOK'
  <2>1. deletedAt' \in [Item -> Nat]
    BY <1>1
  <2>2. ASSUME NEW y \in Item PROVE deletedAt'[y] <= clock'
    <3>1. deletedAt[y] \in Nat /\ deletedAt[y] <= clock /\ clock \in Nat
      OBVIOUS
    <3> QED
      BY <1>1, <3>1
  <2>3. \A y \in Item \ rows : parent'[y] = Null /\ deletedAt'[y] = 0
    BY <1>1
  <2>4. rows' \subseteq used' /\ used' \subseteq Item /\ cascaded' \subseteq File
        /\ clock' \in Nat /\ parent' \in [Item -> Folder \cup {Null}]
    BY <1>1
  <2> QED
    BY <1>1, <2>1, <2>2, <2>3, <2>4
<1>3. TrashClosed'
  <2> SUFFICES ASSUME NEW x \in rows, parent[x] # Null
               PROVE  /\ parent[x] \in rows
                      /\ deletedAt'[parent[x]] # 0 => deletedAt'[x] \in 1..deletedAt'[parent[x]]
    BY <1>1 DEF TrashClosed, Trashed
  <2> DEFINE q == parent[x]
  <2>1. q \in rows /\ q \in Item /\ x \in Item /\ (q \in X => x \in X)
    BY DEF TrashClosed
  <2>2. /\ deletedAt[q] \in Nat /\ deletedAt[x] \in Nat /\ clock \in Nat
        /\ deletedAt[x] <= clock
        /\ deletedAt[q] # 0 => deletedAt[x] \in 1..deletedAt[q]
    BY <2>1 DEF TrashClosed, Trashed
  <2>3. /\ deletedAt'[x] = IF x \in X /\ deletedAt[x] = 0 THEN clock + 1 ELSE deletedAt[x]
        /\ deletedAt'[q] = IF q \in X /\ deletedAt[q] = 0 THEN clock + 1 ELSE deletedAt[q]
    BY <1>1, <2>1
  <2> HIDE DEF q
  <2>4. deletedAt'[q] # 0 => deletedAt'[x] \in 1..deletedAt'[q]
    BY <2>1, <2>2, <2>3
  <2> QED
    BY <2>1, <2>4 DEF q
<1>4. Acyclic'
  BY <1>1 DEF Acyclic
<1> QED
  BY <1>2, <1>3, <1>4

\* Restoring a set of rows that has the folder of each row in it.
LEMMA UntrashInv ==
  ASSUME TreeInv, NEW X, Untrash(X),
         \A y \in rows : y \in X /\ parent[y] # Null => parent[y] \in X \/ ~ Trashed(parent[y])
  PROVE  TreeInv'
<1> USE FoldersAssumption DEF TreeInv, TypeOK, Item
<1>1. /\ rows' = rows /\ used' = used /\ parent' = parent /\ clock' = clock
      /\ cascaded' = cascaded
      /\ \A y \in Item : deletedAt'[y] = IF y \in X THEN 0 ELSE deletedAt[y]
      /\ deletedAt' = [y \in Item |-> IF y \in X THEN 0 ELSE deletedAt[y]]
  BY DEF Untrash
<1>2. TypeOK'
  <2>1. deletedAt' \in [Item -> Nat]
    BY <1>1
  <2> QED
    BY <1>1, <2>1
<1>3. TrashClosed'
  BY <1>1 DEF TrashClosed, Trashed
<1>4. Acyclic'
  BY <1>1 DEF Acyclic
<1> QED
  BY <1>2, <1>3, <1>4

\* Purging files, and folders with everything below them.
LEMMA PurgeInv ==
  ASSUME TreeInv, NEW F \in SUBSET File, NEW D, Purge(F, D)
  PROVE  TreeInv'
<1> USE FoldersAssumption DEF TreeInv, TypeOK, Item
<1> DEFINE gone == (F \cap rows) \cup Subtree(D)
<1>1. /\ rows' = rows \ gone /\ used' = used /\ clock' = clock
      /\ parent' = [y \in Item |-> IF y \in gone THEN Null ELSE parent[y]]
      /\ deletedAt' = [y \in Item |-> IF y \in gone THEN 0 ELSE deletedAt[y]]
      /\ cascaded' = cascaded \cup ((Subtree(D) \cap File) \ F)
  BY DEF Purge
<1>2. \A y \in rows : parent[y] \in gone => y \in gone
  BY SubtreeClosed
<1> HIDE DEF gone
<1>3. TypeOK'
  <2>1. parent' \in [Item -> Folder \cup {Null}] /\ deletedAt' \in [Item -> Nat]
    BY <1>1
  <2> QED
    BY <1>1, <2>1
<1>4. TrashClosed'
  BY <1>1, <1>2 DEF TrashClosed, Trashed
<1>5. Acyclic'
  BY <1>1 DEF Acyclic
<1> QED
  BY <1>3, <1>4, <1>5

\* What restore_folder brings back is connected: the folders between d and an item trashed
\* together with d were trashed no earlier than the item and no later than d.
LEMMA RestoreFolderInv ==
  ASSUME TreeInv, NEW d \in Folder, RestoreFolder(d)
  PROVE  TreeInv'
<1> USE FoldersAssumption DEF TreeInv, TypeOK, Item
<1> DEFINE T == Subtree({d})
           B == {x \in T : deletedAt[x] = deletedAt[d]}
           X == B \cup Ancestors(d)
<1>1. d \in rows /\ deletedAt[d] # 0 /\ Untrash(X)
  BY DEF RestoreFolder, Trashed
<1>2. \A x \in T : deletedAt[x] \in 1..deletedAt[d]
  <2> DEFINE S == {x \in rows : deletedAt[x] \in 1..deletedAt[d]}
  <2>1. {d} \cap rows \subseteq S
    BY <1>1
  <2>2. \A y \in rows : parent[y] \in S => y \in S
    BY <1>1 DEF TrashClosed, Trashed
  <2>3. T \subseteq S
    BY <2>1, <2>2, SubtreeLeast
  <2> QED
    BY <2>3
<1>3. ASSUME NEW y \in rows, y \in X, parent[y] # Null, Trashed(parent[y])
      PROVE  parent[y] \in X
  <2>1. CASE y = d \/ y \in Ancestors(d)
    BY <1>3, <2>1, AncestorsClosed
  <2>2. CASE y # d /\ y \in B
    <3>1. parent[y] \in T
      BY <2>2, SubtreeParent
    <3>2. deletedAt[y] <= deletedAt[parent[y]]
      BY <1>3 DEF TrashClosed
    <3>3. deletedAt[parent[y]] = deletedAt[d]
      BY <1>2, <2>2, <3>1, <3>2
    <3> QED
      BY <3>1, <3>3
  <2> QED
    BY <1>3, <2>1, <2>2
<1> HIDE DEF X
<1> QED
  BY <1>1, <1>3, UntrashInv

\* The tree stays closed under trash and acyclic, request by request.
THEOREM TreeInvCorrect ==
  CheckedSpec => []TreeInv
<1>1. Init => TreeInv
  BY FoldersAssumption DEF Init, TreeInv, TypeOK, TrashClosed, Acyclic, Item
<1>2. TreeInv /\ [CheckedNext]_vars => TreeInv'
  <2> SUFFICES ASSUME TreeInv, [CheckedNext]_vars PROVE TreeInv'
    OBVIOUS
  <2> USE DEF Item
  <2>1. ASSUME NEW f \in File, NEW p \in Folder \cup {Null}, MoveFile(f, p) PROVE TreeInv'
    BY <2>1, MoveInv, FoldersAssumption DEF MoveFile
  <2>2. ASSUME NEW d \in Folder, NEW p \in Folder \cup {Null}, MoveFolder(d, p) PROVE TreeInv'
    <3>1. p # d /\ p \notin LiveDescendants(d)
      BY <2>2, FoldersAssumption DEF MoveFolder, CycleCheck, Live, LiveDescendants, TreeInv, TypeOK
    <3> QED
      BY <2>2, <3>1, MoveInv DEF MoveFolder
  <2>3. ASSUME NEW f \in File, DeleteFile(f) PROVE TreeInv'
    BY <2>3, TrashInv, FoldersAssumption DEF DeleteFile, TreeInv, TypeOK
  <2>4. ASSUME NEW d \in Folder, DeleteFolder(d) PROVE TreeInv'
    BY <2>4, TrashInv, SubtreeClosed DEF DeleteFolder
  <2>5. ASSUME NEW D \in SUBSET Folder, NEW F \in SUBSET File, BulkTrash(D, F) PROVE TreeInv'
    <3>1. \A y \in rows : parent[y] \in Subtree(D) \cup F => y \in Subtree(D) \cup F
      BY SubtreeClosed, FoldersAssumption DEF TreeInv, TypeOK
    <3> QED
      BY <2>5, <3>1, TrashInv DEF BulkTrash
  <2>6. ASSUME NEW f \in File, RestoreFile(f) PROVE TreeInv'
    <3>1. \A y \in rows : y \in {f} \cup Ancestors(f) /\ parent[y] # Null =>
                              parent[y] \in {f} \cup Ancestors(f)
      BY AncestorsClosed DEF TreeInv
    <3> QED
      BY <2>6, <3>1, UntrashInv DEF RestoreFile
  <2>7. ASSUME NEW f \in File, PurgeFile(f) PROVE TreeInv'
    BY <2>7, PurgeInv DEF PurgeFile
  <2>8. ASSUME NEW D \in SUBSET Folder, NEW F \in SUBSET File, PurgeFolders(D, F) PROVE TreeInv'
    BY <2>8, PurgeInv DEF PurgeFolders
  <2>9. CASE EmptyTrash
    BY <2>9, PurgeInv DEF EmptyTrash
  <2>10. ASSUME NEW cutoff, CleanupTrash(cutoff) PROVE TreeInv'
    BY <2>10, PurgeInv DEF CleanupTrash
  <2>11. CASE UNCHANGED vars
    BY <2>11 DEF vars, TreeInv, TypeOK, TrashClosed, Acyclic, Trashed
  <2> QED
    BY <2>1, <2>2, <2>3, <2>4, <2>5, <2>6, <2>7, <2>8, <2>9, <2>10, <2>11, CreateInv,
       RestoreFolderInv DEF CheckedNext, Arrange, PurgeTrash
<1> QED
  BY <1>1, <1>2, PTL DEF CheckedSpec

\* Nothing live is below a trashed folder, and trash times never decrease towards the root.
THEOREM TrashStaysClosed ==
  CheckedSpec => []TrashClosed
<1>1. TreeInv => TrashClosed
  BY DEF TreeInv
<1> QED
  BY <1>1, TreeInvCorrect, PTL

\* move_folder never makes a cycle: its walk through live folders is enough, because the tree
\* is closed under trash.
THEOREM TreeStaysAcyclic ==
  CheckedSpec => []Acyclic
<1>1. TreeInv => Acyclic
  BY DEF TreeInv
<1> QED
  BY <1>1, TreeInvCorrect, PTL

\* Every request keeps every row well formed, those that create in bulk included.
LEMMA FoldersTypeStep ==
  ASSUME TypeOK, [Next]_vars
  PROVE  TypeOK'
<1> USE FoldersAssumption DEF TypeOK, Item
<1>1. ASSUME NEW x \in Item, NEW p \in Folder \cup {Null}, Insert(x, p) PROVE TypeOK'
  BY <1>1 DEF Insert
<1>2. ASSUME NEW x \in Item, NEW p \in Folder \cup {Null}, Live(x), Reparent(x, p) PROVE TypeOK'
  BY <1>2 DEF Reparent, Live
<1>3. ASSUME NEW X, Trash(X) PROVE TypeOK'
  <2>1. /\ clock' = clock + 1 /\ UNCHANGED <<rows, used, parent, cascaded>>
        /\ deletedAt' = [x \in Item |-> IF x \in X /\ Live(x) THEN clock + 1 ELSE deletedAt[x]]
    BY <1>3 DEF Trash
  <2> QED
    BY <2>1 DEF Live
<1>4. ASSUME NEW X, Untrash(X) PROVE TypeOK'
  <2>1. \A x \in Item : deletedAt'[x] = IF x \in X THEN 0 ELSE deletedAt[x]
    BY <1>4 DEF Untrash
  <2> QED
    BY <1>4, <2>1 DEF Untrash
<1>5. ASSUME NEW F \in SUBSET File, NEW D, Purge(F, D) PROVE TypeOK'
  <2> DEFINE gone == (F \cap rows) \cup Subtree(D)
  <2>1. /\ rows' = rows \ gone /\ used' = used /\ clock' = clock
        /\ parent' = [x \in Item |-> IF x \in gone THEN Null ELSE parent[x]]
        /\ deletedAt' = [x \in Item |-> IF x \in gone THEN 0 ELSE deletedAt[x]]
        /\ cascaded' \subseteq cascaded \cup File
    BY <1>5 DEF Purge
  <2> HIDE DEF gone
  <2> QED
    BY <2>1
<1>6. UNCHANGED vars => TypeOK'
  BY DEF vars
<1> HIDE DEF TypeOK
<1> QED
  BY <1>1, <1>2, <1>3, <1>4, <1>5, <1>6
  DEF Next, CheckedNext, Arrange, PurgeTrash, Create, CreateFoldersBulk, BulkInitUploads,
      MoveFolder, MoveFile, DeleteFile, DeleteFolder, BulkTrash, RestoreFile, RestoreFolder,
      PurgeFile, PurgeFolders, EmptyTrash, CleanupTrash

\* ... so rows are well formed whatever is created in bulk.
THEOREM FoldersTypeCorrect ==
  Spec => []TypeOK
<1>1. Init => TypeOK
  BY FoldersAssumption DEF Init, TypeOK
<1>2. TypeOK /\ [Next]_vars => TypeOK'
  BY FoldersTypeStep
<1> QED
  BY <1>1, <1>2, PTL DEF Spec

-----------------------------------------------------------------------------
(* Browsing *)

\* The least sets behind the two walks.
LEMMA LiveDescendantsLeast ==
  ASSUME NEW d \in rows, NEW S \in SUBSET rows, d \in S,
         \A y \in rows : Live(y) /\ parent[y] \in S => y \in S
  PROVE  LiveDescendants(d) \subseteq S
  BY DEF LiveDescendants

LEMMA AncestorsLeast ==
  ASSUME NEW x, NEW S \in SUBSET Folder, parent[x] \in S \cup {Null},
         \A y \in S : parent[y] \in S \cup {Null}
  PROVE  Ancestors(x) \subseteq S
  BY DEF Ancestors

\* Every folder above a live row is live, and meets the row on its walk down.
LEMMA AboveMeets ==
  ASSUME TreeInv, NEW x \in rows, Live(x), NEW d \in Ancestors(x)
  PROVE  d \in Folder /\ Live(d) /\ x \in LiveDescendants(d)
<1> USE FoldersAssumption DEF TreeInv, TypeOK, Item
<1> DEFINE S == {p \in Folder : Live(p) /\ x \in LiveDescendants(p)}
<1>1. ASSUME NEW y \in rows, Live(y), parent[y] # Null
      PROVE  parent[y] \in Folder /\ Live(parent[y])
  BY <1>1 DEF TrashClosed, Live, Trashed
<1>2. ASSUME NEW y \in rows, Live(y), parent[y] # Null, x \in LiveDescendants(y)
      PROVE  parent[y] \in S
  <2>1. parent[y] \in rows /\ parent[y] \in Folder /\ Live(parent[y])
    BY <1>1, <1>2 DEF Live
  <2>2. y \in LiveDescendants(parent[y])
    BY <1>2, <2>1, LiveDescendantsClosed
  <2>3. LiveDescendants(parent[y]) \in SUBSET rows
    BY DEF LiveDescendants
  <2>4. LiveDescendants(y) \subseteq LiveDescendants(parent[y])
    BY <2>1, <2>2, <2>3, LiveDescendantsClosed, LiveDescendantsLeast
  <2> QED
    BY <1>2, <2>1, <2>4
<1>3. parent[x] \in S \cup {Null}
  BY <1>2, LiveDescendantsClosed
<1>4. \A y \in S : parent[y] \in S \cup {Null}
  BY <1>2 DEF Live
<1>5. Ancestors(x) \subseteq S
  <2>1. S \in SUBSET Folder
    OBVIOUS
  <2> HIDE DEF S
  <2> QED
    BY <1>3, <1>4, <2>1, AncestorsLeast
<1> QED
  BY <1>5

\* A folder that the walk down from d meets has d on its path.
LEMMA MetFromAbove ==
  ASSUME TreeInv, NEW d \in Folder, Live(d), NEW x \in LiveDescendants(d)
  PROVE  d \in FolderPath(x)
<1> USE FoldersAssumption DEF TreeInv, TypeOK, Item
<1> DEFINE S == {y \in rows : d \in FolderPath(y)}
<1>1. d \in rows /\ d \in S
  BY DEF Live, FolderPath
<1>2. ASSUME NEW y \in rows, parent[y] \in S PROVE y \in S
  <2>1. y \in Item /\ parent[y] \in Folder /\ parent[y] # Null /\ parent[y] \in Item
    BY <1>2
  <2>2. parent[y] \in Ancestors(y) /\ Ancestors(y) \in SUBSET Folder
        /\ \A z \in Ancestors(y) : parent[z] \in Ancestors(y) \cup {Null}
    BY <2>1, AncestorsClosed
  <2>3. Ancestors(parent[y]) \subseteq Ancestors(y)
    BY <2>2, AncestorsLeast
  <2>4. d \in FolderPath(parent[y])
    BY <1>2
  <2> QED
    BY <2>2, <2>3, <2>4 DEF FolderPath
<1>3. S \in SUBSET rows
  OBVIOUS
<1>4. LiveDescendants(d) \subseteq S
  <2> HIDE DEF S
  <2> QED
    BY <1>1, <1>2, <1>3, LiveDescendantsLeast
<1> QED
  BY <1>4

\* Above every live row is a folder at the top.
LEMMA TopAbove ==
  ASSUME TreeInv, NEW x \in rows, Live(x), parent[x] # Null
  PROVE  \E d \in Ancestors(x) : parent[d] = Null
<1> USE FoldersAssumption DEF TreeInv, TypeOK, Item
<1>1. Ancestors(x) # {} /\ \A y \in Ancestors(x) : parent[y] \in Ancestors(x) \cup {Null}
  BY AncestorsClosed
<1>2. Ancestors(x) \in SUBSET (rows \cap Folder)
  BY AboveMeets DEF Live
<1>3. PICK d \in Ancestors(x) : parent[d] \notin Ancestors(x)
  BY <1>1, <1>2 DEF Acyclic
<1> QED
  BY <1>1, <1>3

\* With parents checked, get_folder_file_tree and get_folder_path never lose a live item: not
\* after any sequence of moves, of trashing in parts, and of restores.
THEOREM NothingIsHidden ==
  CheckedSpec => []NothingHidden
<1>1. TreeInv => NothingHidden
  <2> SUFFICES ASSUME TreeInv, NEW x \in FileTree(Null)
               PROVE  /\ parent[x] # Null =>
                            \E d \in Folder : parent[d] = Null /\ x \in FileTree(d)
                      /\ x \in Folder => \A d \in Folder :
                            x \in FileTree(d) <=> d \in FolderPath(x)
    BY DEF NothingHidden
  <2>1. x \in rows /\ Live(x) /\ Null \notin Folder
    BY FoldersAssumption DEF FileTree
  <2>2. ASSUME NEW d \in Ancestors(x) PROVE d \in Folder /\ x \in FileTree(d)
    BY <2>1, <2>2, AboveMeets DEF FileTree
  <2>3. ASSUME x \in Folder, NEW d \in Folder PROVE x \in FileTree(d) <=> d \in FolderPath(x)
    <3>1. x \in FileTree(x)
      BY <2>1, <2>3, LiveDescendantsClosed DEF FileTree
    <3>2. x \in FileTree(d) => d \in FolderPath(x)
      BY <2>1, <2>3, MetFromAbove DEF FileTree
    <3> QED
      BY <2>2, <3>1, <3>2 DEF FolderPath
  <2> QED
    BY <2>1, <2>2, <2>3, TopAbove
<1> QED
  BY <1>1, TreeInvCorrect, PTL

-----------------------------------------------------------------------------
\* A purge whose files include those below its folders cascades to none.
LEMMA PurgeExplicit ==
  ASSUME NoFileCascaded, NEW F, NEW D, Purge(F, D), Subtree(D) \cap File \subseteq F
  PROVE  NoFileCascaded'
  BY DEF Purge, NoFileCascaded

\* What is below the folders of a subtree is in the subtree.
LEMMA SubtreeOfSubtree ==
  ASSUME NEW D
  PROVE  Subtree(Subtree(D) \cap Folder) \subseteq Subtree(D)
  BY SubtreeClosed, SubtreeLeast

\* "Folder rows must only ever be deleted AFTER their files were explicitly deleted": taken one
\* at a time, no request deletes a file of the user by cascade.  This holds of the whole specification,
\* with items created in bulk under trashed folders or under themselves, where the tree is
\* neither closed under trash nor acyclic.
THEOREM PurgesAreExplicit ==
  Spec => []NoFileCascaded
<1>1. Init => NoFileCascaded
  BY DEF Init, NoFileCascaded
<1>2. NoFileCascaded /\ [Next]_vars => NoFileCascaded'
  <2> SUFFICES ASSUME NoFileCascaded, [Next]_vars PROVE NoFileCascaded'
    OBVIOUS
  <2>1. ASSUME NEW f \in File, PurgeFile(f) PROVE NoFileCascaded'
    <3>1. Subtree({}) \subseteq {}
      BY SubtreeLeast
    <3> QED
      BY <2>1, <3>1, PurgeExplicit DEF PurgeFile
  <2>2. ASSUME NEW D \in SUBSET Folder, NEW F \in SUBSET File, PurgeFolders(D, F)
        PROVE  NoFileCascaded'
    BY <2>2, SubtreeOfSubtree, PurgeExplicit DEF PurgeFolders
  <2>3. CASE EmptyTrash
    BY <2>3, PurgeExplicit DEF EmptyTrash
  <2>4. ASSUME NEW cutoff, CleanupTrash(cutoff) PROVE NoFileCascaded'
    BY <2>4, SubtreeOfSubtree, PurgeExplicit DEF CleanupTrash
  <2>5. CASE UNCHANGED cascaded
    BY <2>5 DEF NoFileCascaded
  <2> QED
    BY <2>1, <2>2, <2>3, <2>4, <2>5 DEF Next, CheckedNext, Arrange, PurgeTrash, Create, Insert,
       CreateFoldersBulk, BulkInitUploads, MoveFolder, MoveFile, Reparent, DeleteFile, DeleteFolder,
       BulkTrash, Trash, RestoreFile, RestoreFolder, Untrash, vars
<1> QED
  BY <1>1, <1>2, PTL DEF Spec
=============================================================================
