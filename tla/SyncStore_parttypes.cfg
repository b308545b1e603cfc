SPECIFICATION FairSpec
CONSTANTS
  None = None
  a1 = a1  a2 = a2  d = d  e = e
  pt = pt  px = px  v = v  u = u  r1 = r1  r2 = r2  o = o  f = f
  Account = {a1, a2}
  Device = {d}
  Worker = {w1, w2}
  Puller = {}
  Id = {pt, px, v, o}
  Value <- Values
  Mutation <- PartTypeMutations
  Batch <- PartTypeBatches
  Seed <- OneSeed
  PageLimit = 1
INVARIANTS
  RowIsLatestChange
  PartTypeHasOneOwner
PROPERTIES
  HandlersFinish
  ImplementsChangeLog
