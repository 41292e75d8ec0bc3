SPECIFICATION FairSpec
CONSTANTS
  Foreigns = {"none"}
  Refs = {1, 2}
  ClientConfigs <- MCClients
  ServerConfigs <- MCServers
  Decisions <- MCDecisions
  ForeignCRs <- MCForeignCRs
  ForeignAnswers <- MCForeignAnswers
  Faults = {"reset"}
  Deadlines = {"none"}
CHECK_DEADLOCK FALSE
INVARIANTS
  NothingLeaks
  OpenEndsAgree
  RefusalIsTheServers
PROPERTIES
  HandshakeEnds
