\* Two accounts, one transfer, two readers; a pending status expires before a final one.
SPECIFICATION FairSpec
CONSTANTS
  Accounts = {a1, a2}
  Txs = {t1}
  Touches <- MCTouches
  Readers = {r1, r2}
  None = None
  HasReplica = TRUE
  BalanceTTL = 1
  PendingTTL = 1
  TxStatusTTL = 2
  MaxRequest = 1
  MaxLag = 1
INVARIANTS
  TypeOK
  BoundedStaleness
  StaleExplained
PROPERTIES
  FreshInTheEnd
