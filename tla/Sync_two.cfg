SPECIFICATION Spec
CONSTANTS
  None = None
  v = v  l = l  pt = pt
  Device = {d, e}
  Id = {v, l}
  Parent <- LogOfVehicle
  Seeds <- NoSeeds
  PageLimit = 1
  Malformed = {2}
  MaxMinted = 3
INVARIANTS
  NothingLost
  ServerKeepsLocalOrder
  LastEditShows
  RestIsServerState
  PageAlwaysApplies
SYMMETRY DeviceSymmetry
