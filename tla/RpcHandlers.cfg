\* Every request is served once, then only the clock runs.
CONSTANTS
  Requests = {r1, r2, r3}
  Keys = {"eth_sendRawTransaction", "eth_sendBundle"}
  MaxRequests = 2
  Window = 1
SPECIFICATION HandlersSpec
SYMMETRY Symmetry
INVARIANTS HandlersTypeOK WritesAreCharged PrivateStaysPrivate ListedMethodsOnly
  MetricsMatchAnswers WholeBudgetWithRelay
