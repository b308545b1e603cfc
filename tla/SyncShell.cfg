SPECIFICATION Spec
CONSTANTS
  None = None
  Tab = {t1, t2}
  Visible = {t1}
  MaxQueue = 2
INVARIANTS
  RestoringHasNoQueue
PROPERTIES
  ResumeDestroysNothing ArmedUntilErrorCleared
