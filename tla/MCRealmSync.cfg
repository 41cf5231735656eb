SPECIFICATION Spec
CONSTANTS
    c1 = c1
    c2 = c2
    c3 = c3
    r1 = r1
    r2 = r2
    None = None
    Calls <- ThreeCalls
    Realms <- TwoRealms
    Families <- PublicAndDust
    PortFacets <- Settled
    Triggers <- AllTriggers
SYMMETRY CallSymmetry
INVARIANTS
    LeaseOwned
    FencesAgree
    SelectionAgrees
PROPERTIES
    RetainedTriggerServed
    ProjectionsAdvance
CHECK_DEADLOCK FALSE
