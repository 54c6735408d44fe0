\* Window of three ticks: the cleanup cutoff, twice that, is reachable too.
CONSTANTS
  Keys = {k1, k2}
  MaxRequests = 2
  Window = 3
  U64Values = 8
  U32Values = 4
  Absent = Absent
  Garbage = Garbage
  Observed = 2
  Texts <- MCTexts
  Default = 2
SPECIFICATION ObservedSpec
INVARIANTS ObservedTypeOK OneBudgetPerWindow NoLooserThanWritten
PROPERTY ImplementsFixedWindow
