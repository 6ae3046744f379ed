SPECIFICATION Spec
CONSTANTS
  File = {f1}
  Version = {v1, v2}
  Chunk = {1}
  Content = {x}
  Req = {r1, r2}
  Null = Null
  Batch = 2
  Feature <- AllFeatures
SYMMETRY Symmetry
INVARIANTS
  TypeOK
  ActiveIsCurrent
  QueuedUnreferenced
  IndInv
