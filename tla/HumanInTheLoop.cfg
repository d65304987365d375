SPECIFICATION FairSpec
CONSTANTS
  Runs = {r1, r2}
  NoRun = NoRun
  MaxErrors = 2
  MaxFaults = 2
  MaxApprovals = 1
  r1 = r1
  r2 = r2
INVARIANTS
  TypeOK
  NoDoubleFire
  ApprovesOnlyThePaused
  PressIsFresh
PROPERTIES
  PausedRunIsApproved
CHECK_DEADLOCK TRUE
