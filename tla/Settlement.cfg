\* Two workers of one process, no fault but a refused publish.
SPECIFICATION FairSpec
CONSTANTS
  s1 = s1
  s2 = s2
  p1 = p1
  p2 = p2
  Accounts = {1, 2}
  AccountIds = {1, 2, 9}
  Amounts = {1, 3}
  InitialBalance <- MCInitialBalance
  Scale = 1
  Sessions = {s1, s2}
  NoSession = NoSession
  Txs = {t1, t2}
  NoTx = NoTx
  Requests <- AllRequests
  Procs = {p1}
  Host <- OneProc
  HasReplica = TRUE
  Faults = {"publishError"}
  MaxFaults = 1
INVARIANTS
  TypeOK
  DeadLetterMeansFailed
PROPERTIES
  ImplementsLedger
  AcceptedResolved
CHECK_DEADLOCK FALSE
