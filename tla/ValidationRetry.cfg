\* Which errors are retried: the documentation is refuted.
CONSTANTS
  Submissions = {s1, s2}
  FailureThreshold = 2
  RecoveryTimeout = 6
  MaxAttempts = 3
  RelayTimeout = 1
  MaxSleep = 1
SPECIFICATION MevSpec
INVARIANT ValidationErrorsAreFinal
