CONSTANTS
    Slots = {x1, x2, x3}
    ServiceIds = {sv1, sv2}
    MaxDialogs = 1
    MaxViewDialogs = 1
    MaxHist = 2
    None = None
    InitUrls <- MCInitUrlsSmall

SPECIFICATION Spec
SYMMETRY MCSymmetry

INVARIANT
    BusyWhileInFlight
