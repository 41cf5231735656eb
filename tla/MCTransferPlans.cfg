CONSTANTS
    Drafts = {d1, d2}
    Attempts = {a1, a2}
    Transfers = {pay, veil}
    Shielded = {veil}
    Deadlines = {1}
    MaxTime = 1
    MaxRecords = 1
    Planners = {p1}
    Reconcilers = {}
    None = None
SPECIFICATION Spec
INVARIANTS BarrierHolds
PROPERTIES NoReplacementWhileUnresolved
SYMMETRY Symmetry
