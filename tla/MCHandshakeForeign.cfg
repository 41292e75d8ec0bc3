SPECIFICATION FairSpec
CONSTANTS
  Foreigns = {"client", "server"}
  Refs = {1}
  ClientConfigs <- MCClients
  ServerConfigs <- MCServers
  Decisions <- MCDecisions
  ForeignCRs <- MCForeignCRs
  ForeignAnswers <- MCForeignAnswers
  Faults = {"reset"}
  Deadlines = {"none", "pending"}
CHECK_DEADLOCK FALSE
INVARIANTS
  NothingLeaks
PROPERTIES
  CtxEndsHandshake
