SPECIFICATION Spec
CONSTANTS
  Tasks = {t1}
  Failing = {}
  Unreadable = {}
  MaxAttempts = 1
  MaxFaults = 1
  Slots = 2
  WatchdogMs = 8000
  NoRequest = NoRequest
  NoReply = NoReply
  t1 = t1
INVARIANT BackoffFitsWatchdog
CHECK_DEADLOCK TRUE
