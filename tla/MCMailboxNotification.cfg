SPECIFICATION Spec
CONSTANTS
  attributes = attributes
  domain = domain
  async = async
  notify = notify
  None = None
  Cmd <- MCCmd
  ProbeCmd <- MCProbeCmd
  RefuteCmd <- MCRefuteCmd
  AsyncCmd <- MCAsyncCmd
  NotifyCmd <- MCNotifyCmd
  Param <- MCParam
  Status <- MCStatus
  MaxCalls = 3
  MaxFds = 7
  ReadWaits = TRUE
  Silent = TRUE
INVARIANT NotificationFromZero
CHECK_DEADLOCK FALSE
