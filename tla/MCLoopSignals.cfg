\* Waits for signals that come early, late, twice, or while a task is out; two
\* faults of any kind, after which the run has to close.
SPECIFICATION FairSpec
CONSTANTS
  Input = Input
  Nothing = Nothing
  BadJson = BadJson
  NonNumber = NonNumber
  NoSpec = NoSpec
  NoState = NoState
  CorruptState = CorruptState
  InlineResults = 1
  Inputs = {3}
  Signals <- SomeSignals
  ActivityValues = {1}
  ActivityFates = {"ActivityCompleted"}
  Specs <- LiveSpecs
  Reflashed = {}
  MaxFaults = 2
INVARIANTS ResumeMatchesReplay DecisionIsOwed SignalsBindInOrder
PROPERTIES RunCloses
