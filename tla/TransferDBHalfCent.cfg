\* Amounts of half a cent.
SPECIFICATION DBSpec
CONSTANTS
  Accounts = {1, 2}
  AccountIds = {1, 2}
  Amounts = {1}
  InitialBalance <- MCInitialBalance
  Scale = 2
  Sessions = {s1, s2}
  NoSession = NoSession
INVARIANTS
  Conservation
