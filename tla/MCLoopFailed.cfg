\* An activity fails, and a signal arrives while the device reports it.
SPECIFICATION Spec
CONSTANTS
  Input = Input
  Nothing = Nothing
  BadJson = BadJson
  NonNumber = NonNumber
  NoSpec = NoSpec
  NoState = NoState
  CorruptState = CorruptState
  InlineResults = 1
  Inputs = {3}
  Signals <- OneApproval
  ActivityValues = {0, 1}
  ActivityFates = {"ActivityCompleted", "ActivityFailed"}
  Specs <- OneSpec
  Reflashed = {}
  MaxFaults = 0
INVARIANTS ResumeMatchesReplay
