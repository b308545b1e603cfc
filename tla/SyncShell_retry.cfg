SPECIFICATION FairSpec
CONSTANTS
  None = None
  Tab = {t1}
  Visible = {t1}
  MaxQueue = 2
PROPERTIES
  FailedRestoreWaits
