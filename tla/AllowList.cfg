\* The allow-list on the route of the relay client: refuted.
CONSTANTS
  Requests = {r1, r2}
  Keys = {"eth_sendRawTransaction", "eth_sendBundle"}
  MaxRequests = 2
  Window = 1
SPECIFICATION HandlersSpec
SYMMETRY Symmetry
INVARIANT AllowListIsStrict
