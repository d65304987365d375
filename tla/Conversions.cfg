SPECIFICATION Spec
CONSTANTS
  Input = Input
  Nothing = Nothing
  BadJson = BadJson
  NonNumber = NonNumber
  Specs <- TwoSpecs
  Values = {1, 2}
  Null = Null
  MaxRecorded = 6
  PageSizes = {4, 6}
  DeviceEvents = 5
  DeviceCommands = 16
  Texts <- ShortTexts
  Ids = {"", "e1"}
  DeviceKeys = 8
  DeviceBytes = 8
  EchoBytes = 3
  MaxEchoes = 3
  Width = 32
  Interval = 10
  MaxPass = 6
INVARIANTS
  TwinsAnswerAlike
  WholeHistoryOnly
  EnvelopeKeepsItsRun
  HeartbeatKeepsPace
CHECK_DEADLOCK FALSE
