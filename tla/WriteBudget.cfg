\* The budget of the write limiter: refuted on the route without relay client.
CONSTANTS
  Requests = {r1, r2}
  Keys = {"eth_sendRawTransaction", "eth_sendBundle"}
  MaxRequests = 2
  Window = 1
SPECIFICATION HandlersSpec
SYMMETRY Symmetry
INVARIANT RefusedAfterBudget
