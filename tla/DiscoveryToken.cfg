\* The token file after a restart: refuted.
CONSTANTS
  Configs = {default, chosen}
  Default = default
  Tokens = {k1, k2}
  Connections = {w1}
  None = None
  Torn = Torn
  ProxyTimeout = 3
  DaemonTimeout = 2
SPECIFICATION AppSpec
SYMMETRY Symmetry
INVARIANT TokenFileIsAccepted
