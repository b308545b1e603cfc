SPECIFICATION Spec
CONSTANTS
  None = None
  a1 = a1  a2 = a2  d = d  e = e
  pt = pt  px = px  v = v  u = u  r1 = r1  r2 = r2  o = o  f = f
  Account = {a1}
  Device = {d}
  Worker = {w}
  Puller = {p}
  Id = {v, u, o, f}
  Value <- Values
  Mutation <- LogMutations
  Batch <- LogBatches
  Seed <- NoSeeds
  PageLimit = 1
INVARIANTS
  FuelReadingOfItsVehicle
  ReferencesComeFirst
  PagesAreExact
