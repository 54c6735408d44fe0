\* Three concurrent submissions of at most five ticks each: three attempts of
\* one tick, two sleeps of one tick.  A tick is somewhat more than the longest
\* sleep; the circuit recovers after six, one more than a submission takes.
CONSTANTS
  Submissions = {s1, s2, s3}
  FailureThreshold = 2
  RecoveryTimeout = 6
  MaxAttempts = 3
  RelayTimeout = 1
  MaxSleep = 1
  Watched = s1
SPECIFICATION FairTimedSpec
INVARIANTS TimedTypeOK VerdictIsFresh OverInTime
PROPERTIES OpenAdmitsNobody SubmissionsTrip ImplementsContract EverySubmissionEnds
