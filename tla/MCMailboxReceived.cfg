SPECIFICATION Spec
CONSTANTS
  attributes = attributes
  domain = domain
  async = async
  notify = notify
  None = None
  Cmd <- MCCmd
  ProbeCmd <- MCProbeCmd
  RefuteCmd <- MCRefuteCmd
  AsyncCmd <- MCAsyncCmd
  NotifyCmd <- MCNotifyCmd
  Param <- MCParam
  Status <- MCStatus
  MaxCalls = 2
  MaxFds = 2
  ReadWaits = TRUE
  Silent = TRUE
INVARIANT NoErrorMeansReceived
CHECK_DEADLOCK FALSE
