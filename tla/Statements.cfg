SPECIFICATION Spec
CONSTANTS
  select1 = select1
  insert1 = insert1
  p1 = p1
  p2 = p2
  s1 = s1
  h1 = h1
  h2 = h2
  h3 = h3
  NoStmt = NoStmt
  NoKey = NoKey
  NoQuery = NoQuery
  Queries = {select1, insert1}
  RowQueries = {select1}
  QueryText <- MCQueryText
  PtrKeys = {p1, p2}
  StrKeys = {s1}
  InitialText <- MCInitialText
  ReusedBuffers = {p1}
  Stmts = {h1, h2, h3}
  MaxReconnectAttempts = 1
SYMMETRY HandleSymmetry
INVARIANTS
  TypeOK
  CacheSound
  StatementInUseIsOpen
  OnlyUncachedLeak
  ExecutesRequestedText
