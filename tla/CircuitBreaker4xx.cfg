\* Two concurrent requests, two failures to open.
SPECIFICATION Spec
CONSTANTS
  Requests = {r1, r2}
  CBMaxFailures = 2
PROPERTIES
  OpensOnlyAfter5xx
