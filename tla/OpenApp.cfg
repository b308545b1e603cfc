SPECIFICATION FairSpec
CONSTANTS
  None = None
  v = v  l = l  pt = pt
  Device = {d, e}
  OpenApps = {d}
  MaxCutShort = 1
  Id = {pt}
  Parent <- LogOfVehicle
  Seeds <- OneSeed
  PageLimit = 1
  Malformed = {}
  MaxMinted = 1
PROPERTIES
  DevicesConverge
  RestoreEnds
