\* The node path inside the daemon: 30 s middleware, 30 s client, 30 s recovery.
CONSTANTS
  Requests = {r1, r2, r3}
  Flashbots = {r3}
  AdminClients = {a1}
  Slow = {r3, a1}
  Route <- Routed
  Permits = 1
  FailureThreshold = 2
  RecoveryTimeout = 2
  RequestTimeout = 2
  ClientTimeout = 2
SPECIFICATION FairTimedSpec
INVARIANTS DaemonTypeOK StaleOnlyWhenDue DrainInTime
PROPERTIES OpenAdmitsNobody NoSpuriousTrip ImplementsContract EveryRequestAnswered
  ReturnCutsNobodyOff ShutdownCompletes
