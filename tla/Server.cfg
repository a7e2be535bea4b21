\* Two transfers, up to two faults.
SPECIFICATION FairSpec
CONSTANTS
  Txs = {t1, t2}
  Main = main
  Starter = starter
  Collector = collector
  Callers <- MCCallers
  NoCaller = NoCaller
  Configs <- MCConfigs
  MaxFaults = 2
INVARIANTS
  TypeOK
  OneConnection
PROPERTIES
  AnswersKept
  AnswersFound
  FaultsForgotten
  CallsReturn
  ServesAgain
  AcceptedResolved
CHECK_DEADLOCK FALSE
