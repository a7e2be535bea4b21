\* Two processes whose pools have two connections; one fault.
SPECIFICATION FairSpec
CONSTANTS
  s1 = s1
  s2 = s2
  s3 = s3
  p1 = p1
  p2 = p2
  Accounts = {1, 2, 3}
  AccountIds = {1, 2, 3, 9}
  Amounts = {1, 2, 3, 5}
  InitialBalance <- MCInitialBalance
  Scale = 2
  Sessions = {s1, s2, s3}
  NoSession = NoSession
  Procs = {p1, p2}
  Homes <- MCHomes
  Bodies <- MCBodies
  Ids = {1, 2, 3}
  NoId = NoId
  MaxOpenConns = 2
  Faults = {"db", "crash"}
  MaxFaults = 1
INVARIANTS
  TypeOK
  NoOverdraft
  BooksBalance
  ResponsesTruthful
  RowsTellTransfers
PROPERTIES
  OnlyTransfers
  ImplementsLedger
  RequestsAnswered
CHECK_DEADLOCK FALSE
