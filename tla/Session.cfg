SPECIFICATION SessionSpec
CONSTANTS
  set_autocommit_0 = set_autocommit_0
  set_autocommit_1 = set_autocommit_1
  start_query = start_query
  rollback_query = rollback_query
  timeout_query = timeout_query
  use1 = use1
  use2 = use2
  d1 = d1
  d2 = d2
  w1 = w1
  w2 = w2
  NoStmt = NoStmt
  NoKey = NoKey
  NoQuery = NoQuery
  NoDatabase = NoDatabase
  Databases = {d1, d2}
  Writes = {w1, w2}
  UseQuery <- MCUseQuery
  Queries = {set_autocommit_0, set_autocommit_1, start_query, rollback_query, timeout_query, use1, use2, w1, w2}
  RowQueries = {timeout_query}
  QueryText <- MCQueryText
  PtrKeys = {}
  StrKeys = {}
  InitialText <- MCInitialText
  ReusedBuffers = {}
  Stmts = {}
  MaxReconnectAttempts = 1
INVARIANTS
  SessionTypeOK
  StartReportsTheOpposite
  CommitFalseKeepsAll
  RollbackTrueKeepsNone
  AutocommitRestored
  DatabaseIsKnown
  TimeoutUndefinedAfterError
PROPERTIES
  DoubtNeedsReconnect
  FunctionsReturn
CHECK_DEADLOCK FALSE
