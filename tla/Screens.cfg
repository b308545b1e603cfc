SPECIFICATION Spec
CONSTANTS
  v1 = v1  v2 = v2  r1 = r1  r2 = r2  None = None
  Vehicle = {v1, v2}
  Record = {r1, r2}
  OwnerOf <- MCOwnerOf
  Reading <- MCReading
  Instant <- MCInstant
  MaxCalls = 2
  MaxLate = 1
INVARIANT BusyEnds
PROPERTIES LoweringIsConfirmed DatesAreTheUsers WritesGoToTheirRecord
CHECK_DEADLOCK FALSE
