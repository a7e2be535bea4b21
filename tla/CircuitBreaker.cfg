\* Three concurrent requests, three failures to open.
SPECIFICATION FairSpec
CONSTANTS
  Requests = {r1, r2, r3}
  CBMaxFailures = 3
INVARIANTS
  TypeOK
  OneProbe
PROPERTIES
  ProbeDecides
  OpensAfterConsecutiveFailures
  BreakerMovesOn
