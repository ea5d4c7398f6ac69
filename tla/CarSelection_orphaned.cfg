SPECIFICATION Spec
CONSTANTS
    Cars = {c1, c2}
    SendPlaces = 3
    RecvPlaces = 1
INVARIANT
    CancelReleases
