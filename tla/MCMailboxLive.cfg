SPECIFICATION FairSpec
CONSTANTS
  attributes = attributes
  domain = domain
  async = async
  notify = notify
  None = None
  Cmd <- MCCmd
  ProbeCmd <- MCProbeCmd
  RefuteCmd <- MCRefuteCmd
  AsyncCmd <- MCAsyncCmd
  NotifyCmd <- MCNotifyCmd
  Param <- MCParam
  Status <- MCStatus
  MaxCalls = 3
  MaxFds = 4
  ReadWaits = TRUE
  Silent = FALSE
PROPERTY CallReturns
CHECK_DEADLOCK FALSE
