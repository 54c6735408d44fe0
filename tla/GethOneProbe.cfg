\* The half-open circuit with one probe allowed to be outstanding: refuted.
CONSTANTS
  Requests = {r1, r2, r3}
  Route <- OneRoute
  Permits = 2
  FailureThreshold = 2
  RecoveryTimeout = 2
  RequestTimeout = 2
  ClientTimeout = 2
SPECIFICATION GethSpec
INVARIANT OneProbeAtATime
SYMMETRY Symmetry
