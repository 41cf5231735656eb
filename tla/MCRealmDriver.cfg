SPECIFICATION Spec
CONSTANTS
  A = A
  B = B
  w1 = w1
  w2 = w2
  r1 = r1
  NoIdentity = NoIdentity
  Identities <- Realms
  Chain <- Nothing
  MaxGeneration = 1
  Debounce = 1
  StaleAge = 1
  BackoffBase = 1
  BackoffMax = 1
  RetryCeiling = 2
  FirstRealm = A
  JitterWindow = 0
  Jitter <- NoJitter
  RequestTimeout = 1
  SequenceWidth = 3
  RecoveryAttempts = 3
  RealmWorkers = {w1, w2}
  RetryWorkers = {r1}
  MaxDrained = 3
  MaxTries = 3
  Answers = {"Fresh"}
  MaxEvents = 2
INVARIANTS AutomaticIsAwaited
PROPERTIES OnlyOwnerSettles RetainedIsServed  
