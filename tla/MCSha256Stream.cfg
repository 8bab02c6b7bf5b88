CONSTANTS
  Block = 4
  LenBytes = 2
  PoolSize = 2
  Clients = {"a", "b", "c"}
  Message <- MCMessage
SPECIFICATION StreamSpec
INVARIANTS DigestTrue PoolShared
