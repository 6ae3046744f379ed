SPECIFICATION RaceSpec
CONSTANTS
  Folder = {d1, d2, d3}
  File = {f1}
  Null = Null
  MaxTrash = 2
  Req = {r1}
SYMMETRY Symmetry
INVARIANT
  NoFileCascaded
PROPERTY
  ImplementsFolders
