SPECIFICATION Spec
CONSTANTS
  File = {f1}
  Version = {v1, v2, v3}
  Chunk = {1}
  Content = {x}
  Req = {r1, r2}
  Null = Null
  Batch = 2
  Feature <- Sweeping
SYMMETRY Symmetry
INVARIANTS
  ActiveIntact
  ContentInv
