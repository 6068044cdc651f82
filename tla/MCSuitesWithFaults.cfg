SPECIFICATION FairSpec
CONSTANTS
  Any = Any
  Garbage = Garbage
  NumAgents = 2
  NumProtocols = 7
  NumDevices = 2
  Device = 0
  ForeignDevice = 3
  power <- MCPower
  performance <- MCPerformance
  clock <- MCClock
  sensor <- MCSensor
  resets <- MCReset
  voltage <- MCVoltage
  ClockStart = 1
  Delivery = {"whole", "early", "never"}
  FaultySuites <- MCFaultySuites
  MaxFaults = 2
INVARIANTS TypeOK KeptIsTrue StateRestored CleanRunRestores
PROPERTIES  SkipsJustified RefusalsHarmless ChangesMeant AppEnds
VIEW StateView
