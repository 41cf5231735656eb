CONSTANTS
  c1 = c1
  c2 = c2
  d1 = d1
  d2 = d2
  f1 = f1
  f2 = f2
  Callers <- MCCallers
  Drafts <- MCDrafts
  Fingerprints <- MCFingerprints
  NoRecord = NoRecord
  MaxJobs = 100
  MaxCalls = 4
  MaxOperations = 3
  MaxRetries = 1
  MaxFaults = 1
SYMMETRY Symmetry
SPECIFICATION Spec
INVARIANTS OneRegistration ReadyIsTrue AdmittedIsCurrent
PROPERTY NeverSentAgain
CHECK_DEADLOCK FALSE
