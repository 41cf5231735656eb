SPECIFICATION Spec
CONSTANTS
  A = A
  B = B
  x = x
  NoIdentity = NoIdentity
  Identities <- Realms
  Chain <- Names
  MaxGeneration = 5
  Debounce = 1
  StaleAge = 1
  BackoffBase = 1
  BackoffMax = 1
  RetryCeiling = 1
  JitterWindow = 0
  Jitter <- NoJitter
  RequestTimeout = 1
  SequenceWidth = 2
  RecoveryAttempts = 2
  Admissible <- Started
  MaxWatches = 2
  MaxQueries = 1
  MaxCrashes = 1
SYMMETRY Symmetry
INVARIANTS WatchIsCurrent OutcomeIsTrue RecoveryKeepsRealm
PROPERTIES RecoveryIsAnswered
