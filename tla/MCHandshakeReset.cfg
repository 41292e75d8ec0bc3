SPECIFICATION Spec
CONSTANTS
  Foreigns = {"server"}
  Refs = {1}
  ClientConfigs <- MCClients
  ServerConfigs <- MCServers
  Decisions <- MCDecisions
  ForeignCRs <- MCForeignCRs
  ForeignAnswers <- MCForeignAnswers
  Faults = {"reset"}
  Deadlines = {"none"}
CHECK_DEADLOCK FALSE
INVARIANTS
  ResetIsDisconnect
