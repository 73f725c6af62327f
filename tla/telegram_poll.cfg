SPECIFICATION AlertSpec
CONSTANTS
    MaxUpdates = 5
    None = None
    Strangers = {1, 2, 4, 5}
    Threshold = 2
    Interval = 2
    MaxTime = 4
INVARIANTS InOrder NothingMissed AlertsAccountFor
PROPERTIES BacklogSkipped EventuallyHandled
