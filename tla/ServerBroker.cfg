\* One transfer, one fault, with database, Redis and queue.
SPECIFICATION Spec
CONSTANTS
  Txs = {t1}
  Main = main
  Starter = starter
  Collector = collector
  Callers <- MCCallers
  NoCaller = NoCaller
  Configs <- AllButReplica
  MaxFaults = 1
PROPERTIES
  BrokerFaultSurvived
CHECK_DEADLOCK FALSE
