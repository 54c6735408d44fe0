\* Two callers, each any number of times, and two task identities.
CONSTANTS
  Callers = {c1, c2}
  Tasks = {t1, t2}
  Configs = {v1, v2, v3}
  Unset = {v3}
  None = None
SPECIFICATION FairControllerSpec
INVARIANTS ControllerTypeOK StatusIsHonest LiveTaskIsHeld InsideNobodyWaits
  StaleRunWasStarting
PROPERTIES ImplementsLifecycle WindowStartsVerified EveryCallReturns RunningSettles
