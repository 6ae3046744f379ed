SPECIFICATION FairSpec
CONSTANTS
  Client = {k1, k2}
  Change = {c1, c2, c3}
  Early = {c3}
  Cap = 1
INVARIANTS
  TypeOK
  NothingSlips
PROPERTIES
  Converges
  ImplementsFeed

