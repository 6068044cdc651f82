SPECIFICATION Spec
CONSTANTS
  attributes = attributes
  domain = domain
  async = async
  notify = notify
  None = None
  Cmd <- MCCmd
  ProbeCmd <- MCProbeCmd
  RefuteCmd <- MCRefuteCmd
  AsyncCmd <- MCAsyncCmd
  NotifyCmd <- MCNotifyCmd
  Param <- MCParam
  Status <- MCStatus
  MaxCalls = 4
  MaxFds = 7
  ReadWaits = FALSE
  Silent = TRUE
INVARIANTS TypeOK TrustedAnswers GenuineAnswers DescriptorBudget DelayedAccepted
