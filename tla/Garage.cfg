SPECIFICATION Spec
CONSTANTS
  None = None
  Here = here  There = there
  Vehicle = {v, w}
  PartType = {p, q}
  Odometer = {o1, o2}
  Fuel = {f}
  Service = {s1, s2}
  Seeded = {v, p}
  KmInput = {1005, 3000}
  EveryKmInput = {2000}
  EveryDaysInput = {2}
  LitersInput = {4, 1505}
  CostInput = {10}
  RatioInput = {50}
  MAX_ODOMETER_KM = 9990
  MAX_LITERS = 9990
  MAX_INTERVAL_DAYS = 9
  Offset = {0, 1}
  DayLength = 2
  MonthLength = 1
  CostWindow = 2
  MaxHere = 2
  MaxThere = 1
  MaxClock = 2
INVARIANTS
  QueueIsAcceptable
  SyncedDevicesAgree
  HistoryAndCostsAgree
PROPERTY
  ServiceClearsReminder
CHECK_DEADLOCK FALSE
