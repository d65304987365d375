SPECIFICATION Spec
CONSTANTS
  MaxFaults = 2
  MaxRuns = 3
  MaxErrors = 2
  ChatAttempts = 2
  MaxNesting = 2
  Steps <- AllSteps
  Inputs = {"big", "small"}
  Signals = {"none", "approve"}
  Demos <- AllDemos
INVARIANTS
  TypeOK
  StreamsMapToRuns
  PassMeansServed
  FailureHasACause
  SignalIsDeclared
  NamedRunIsClosed
PROPERTY ScriptEnds
CHECK_DEADLOCK FALSE
