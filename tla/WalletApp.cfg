\* The default timeouts: 45 s in the wallet proxy, 30 s in the daemon.
CONSTANTS
  Configs = {default, chosen}
  Default = default
  Tokens = {k1, k2}
  Connections = {w1}
  None = None
  Torn = Torn
  ProxyTimeout = 3
  DaemonTimeout = 2
SPECIFICATION FairAppSpec
INVARIANTS AppTypeOK SavedIsCurrent FirstTokenIsAccepted
PROPERTY EveryExchangeEnds
