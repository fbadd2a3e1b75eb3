\* Two clients and two names, each computer with any of the presets to begin with:
\* clients with nothing to send, and names that more than one has; and what must
\* happen in the end, whoever closes or dies when.
SPECIFICATION SyncFairSpec
CONSTANTS
  Names = {n1, n2}
  Clients = {c1, c2}
  Host = Host
  None = None
INVARIANTS
  SyncTypeOK
  AnswerMeansImported
  HostHasLastImport
  EarlierReachLater
PROPERTIES
  GoneIsLetGo
  CloseReturns
CHECK_DEADLOCK FALSE
