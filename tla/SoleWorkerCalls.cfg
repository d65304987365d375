SPECIFICATION FairSpec
CONSTANTS
  Tasks = {t1, t2}
  Failing = {t1}
  Unreadable = {t2}
  MaxAttempts = 4
  MaxFaults = 3
  Slots = 2
  WatchdogMs = 8000
  NoRequest = NoRequest
  NoReply = NoReply
  t1 = t1
  t2 = t2
INVARIANTS
  TypeOK
  SlotsAccounted
  NoDuplicateAnswer
  ReportedMeansEnded
PROPERTIES
  TasksEnd
  ImplementsQueue
CHECK_DEADLOCK TRUE
