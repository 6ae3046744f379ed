SPECIFICATION SharesSpec
CONSTANTS
  Folder = {d1, d2, d3}
  File = {f1}
  Share = {s1}
  Null = Null
  MaxTrash = 2
SYMMETRY Symmetry
INVARIANTS
  TypeOK
  TrashClosed
  Acyclic
  NothingHidden
  FolderShareExact
PROPERTIES
  PurgeRevokesFileShares
