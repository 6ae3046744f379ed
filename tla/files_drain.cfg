SPECIFICATION FairSpec
CONSTANTS
  File = {f1}
  Version = {v1}
  Chunk = {1, 2}
  Content = {x}
  Req = {r1, r2}
  Null = Null
  Batch = 1
  Feature <- CancelAndPurge
INVARIANTS
  Accounted
  DedupMatchesContent
  ContentInv
PROPERTIES
  PendingDrained
