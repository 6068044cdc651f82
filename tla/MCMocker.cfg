SPECIFICATION Spec
CONSTANTS
  NumAgents = 2
  NumProtocols = 7
  NumDevices = 2
  NumDomains = 3
  Id <- MCId
  Number <- MCNumber
  Protocol <- MCProtocol
INVARIANTS TypeOK ProbeTruthful
PROPERTIES KeepsPermissions RefusedChangesNothing
