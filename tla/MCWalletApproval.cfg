SPECIFICATION Spec
CONSTANTS
    Services = {s1, s2}
    Callers = {c1}
    CapIds = {k1, k2}
    Intents = {sign, transfer}
    PreviewIntents = {transfer}
    PreviewExpiry <- MCPreviewExpiry
    MaxTtl = 2
    MaxTime = 3
    MaxGeneration = 1
    NoGeneration = NoGeneration
    NoCall = NoCall
    NoCap = NoCap
INVARIANTS SpentOnceAsApproved
PROPERTIES RevokedNeverSpent PreviewNeverSpentLate DisabledForGood ImplementsGrant
