\* Three goroutines, three calls, a clock that moves to and fro.
SPECIFICATION FairSpec
CONSTANTS
  Goroutines = {g1, g2, g3}
  ClockValues = {4, 5, 6}
  SeedMax = 3
  MaxCalls = 3
INVARIANTS
  Monotonic
  AboveSeeds
  CounterInv
PROPERTIES
  RealTimeOrder
  SomeCallReturns
