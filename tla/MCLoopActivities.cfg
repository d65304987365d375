\* Activities in a straight line and in a branch, every fault, and one signal
\* nobody waits for, which makes the device look in while an activity is open.
SPECIFICATION Spec
CONSTANTS
  Input = Input
  Nothing = Nothing
  BadJson = BadJson
  NonNumber = NonNumber
  NoSpec = NoSpec
  NoState = NoState
  CorruptState = CorruptState
  InlineResults = 0
  Inputs = {3}
  Signals <- OneApproval
  ActivityValues = {0, 1}
  ActivityFates = {"ActivityCompleted"}
  Specs <- PlainSpecs
  Reflashed = {}
  MaxFaults = 4
INVARIANTS ResumeMatchesReplay DecisionIsOwed SavedStateCoversHistory
INVARIANTS ClosedRunLeavesNothing
PROPERTIES SavedStateNeverRegresses ImplementsOwedRun
