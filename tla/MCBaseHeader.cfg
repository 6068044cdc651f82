SPECIFICATION Spec
CONSTANTS
  Any = Any
  Garbage = Garbage
  NumAgents = 2
  NumProtocols = 4
  Device = 0
  ForeignDevice = 3
  TestAgent = 1
  Status <- MCStatus
  Version <- MCVersion
INVARIANT HeaderAlwaysChecked
