SPECIFICATION Spec
CONSTANTS
  d1 = d1
  d2 = d2
  Drafts <- const_Drafts
  Outages = {"Offline"}
  MaxClock = 6
  LateKinds = {"AuthorizationRequested", "SubmissionAccepted", "FinalityObserved",
               "RegistrationReconciled", "DustRefreshed", "Offline"}
  LastDelay = 4
  MaxGeneration = 2
SYMMETRY DraftSymmetry
INVARIANTS ReadyIsCurrent InFlightIsRecorded DuplicatesAreNoOps
PROPERTIES CommittedIsKept
CHECK_DEADLOCK FALSE
