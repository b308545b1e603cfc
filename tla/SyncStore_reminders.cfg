SPECIFICATION Spec
CONSTANTS
  None = None
  a1 = a1  a2 = a2  d = d  e = e
  pt = pt  px = px  v = v  u = u  r1 = r1  r2 = r2  o = o  f = f
  Account = {a1}
  Device = {d, e}
  Worker = {w1, w2}
  Puller = {}
  Id = {pt, v, r1, r2}
  Value <- Values
  Mutation <- ReminderMutations
  Batch <- ReminderBatches
  Seed <- OneSeed
  PageLimit = 2
INVARIANTS
  DenseFeed
  OneActiveReminder
  RepliesHold
