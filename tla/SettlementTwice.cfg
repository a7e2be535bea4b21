\* A lost AMQP connection and a lost answer to COMMIT; the idempotency check reads the primary.
SPECIFICATION Spec
CONSTANTS
  s1 = s1
  s2 = s2
  p1 = p1
  p2 = p2
  Accounts = {1, 2}
  AccountIds = {1, 2, 9}
  Amounts = {1, 3}
  InitialBalance <- MCInitialBalance
  Scale = 1
  Sessions = {s1, s2}
  NoSession = NoSession
  Txs = {t1}
  NoTx = NoTx
  Requests <- Opposite
  Procs = {p1, p2}
  Host <- TwoProcs
  HasReplica = FALSE
  Faults = {"conn", "db"}
  MaxFaults = 2
INVARIANTS
  FailedNotSettledTwice
CHECK_DEADLOCK FALSE
