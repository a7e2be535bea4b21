\* Two processes with one worker each, one fault of any kind at any point.
SPECIFICATION FairSpec
CONSTANTS
  s1 = s1
  s2 = s2
  p1 = p1
  p2 = p2
  Accounts = {1, 2}
  AccountIds = {1, 2, 9}
  Amounts = {1, 3}
  InitialBalance <- MCInitialBalance
  Scale = 1
  Sessions = {s1, s2}
  NoSession = NoSession
  Txs = {t1, t2}
  NoTx = NoTx
  Requests <- WithUnknown
  Procs = {p1, p2}
  Host <- TwoProcs
  HasReplica = TRUE
  Faults = {"db", "publishError", "publishLost", "conn", "sigterm", "crash"}
  MaxFaults = 1
INVARIANTS
  RefusedNeverSettled
  BalancesAccountedFor
  CompletedMeansSettled
  DeliveryOwned
  WorkInv
PROPERTIES
  DeliveriesEnd
CHECK_DEADLOCK FALSE
