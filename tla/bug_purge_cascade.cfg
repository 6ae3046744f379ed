SPECIFICATION RaceSpec
CONSTANTS
  Folder = {d1, d2}
  File = {f1}
  Null = Null
  MaxTrash = 0
  Req = {r1, r2}
SYMMETRY Symmetry
INVARIANT
  NoFileCascaded
