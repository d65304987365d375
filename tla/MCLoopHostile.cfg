\* Payloads that are not JSON or not numbers, activities that fail or time out,
\* a run without input, a signal nobody waits for, and other firmware.
SPECIFICATION Spec
CONSTANTS
  Input = Input
  Nothing = Nothing
  BadJson = BadJson
  NonNumber = NonNumber
  NoSpec = NoSpec
  NoState = NoState
  CorruptState = CorruptState
  InlineResults = 1
  Inputs = {3, Nothing}
  Signals <- OneApproval
  ActivityValues = {1, BadJson, NonNumber}
  ActivityFates = {"ActivityCompleted", "ActivityFailed", "ActivityTimedOut"}
  Specs <- HostileSpecs
  Reflashed <- OtherFirmware
  MaxFaults = 2
INVARIANTS TypeOK OneActivityAtATime
