SPECIFICATION Spec
CONSTANTS
  Any = Any
  Garbage = Garbage
  NumAgents = 2
  NumProtocols = 7
  NumDevices = 2
  Device = 0
  ForeignDevice = 3
  power <- mocker_power
  performance <- mocker_performance
  clock <- mocker_clock
  sensor <- mocker_sensor
  resets <- mocker_reset
  voltage <- mocker_voltage
  ClockStart = 0
  Delivery = {"never"}
  FaultySuites = {}
  MaxFaults = 0
INVARIANT AsyncReadTried
