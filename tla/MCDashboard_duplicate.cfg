CONSTANTS
    Slots = {x1, x2, x3}
    ServiceIds = {sv1, sv2}
    MaxDialogs = 1
    MaxHist = 3
    None = None
    MaxViewDialogs = 1
    InitUrls <- MCInitUrlsPlain

SPECIFICATION Spec
SYMMETRY MCSymmetry

INVARIANT
    NoDuplicateHistoryEntry
