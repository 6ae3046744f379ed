SPECIFICATION Spec
CONSTANTS
  File = {f1, f2, f3}
  Req = {r1, r2, r3}
  Quota = 3
  MaxFileSize = 2
  MaxChunks = 3
  MaxBatch = 2
  Overhead = 1
  Top = 8
SYMMETRY Symmetry
INVARIANTS
  OvershootBounded
  ChunksAddUp
  QuotaInv
