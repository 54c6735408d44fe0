\* A node that hangs, with the default timeouts: refuted.
CONSTANTS
  Requests = {r1, r2, r3}
  Route <- OneRoute
  Permits = 2
  FailureThreshold = 2
  RecoveryTimeout = 2
  RequestTimeout = 2
  ClientTimeout = 2
SPECIFICATION GethSpec
INVARIANT SilentNodeTrips
SYMMETRY Symmetry
