SPECIFICATION Spec
CONSTANTS
    Request = {r1, r2, r3, r4}
    Timestamp = {1, 2, 3}
    Handler = {h1, h2}
    Skew = 1
    Capacity = 2
    SweepEvery = 2
    MaxTime = 4
SYMMETRY Symmetry
INVARIANT BoundedStore
PROPERTIES OnceWhileAllowed FullOfLiveNonces
