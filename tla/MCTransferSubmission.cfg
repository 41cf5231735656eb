CONSTANTS
    Drafts = {d1}
    Attempts = {a1, a2}
    Transfers = {pay}
    Shielded = {}
    Deadlines = {1}
    MaxTime = 1
    MaxRecords = 1
    Planners = {p1}
    Reconcilers = {r1}
    None = None
SPECIFICATION Spec
INVARIANTS SignedOnceSent CancelHonoured JournalTruthful StatusSafe
SYMMETRY Symmetry
