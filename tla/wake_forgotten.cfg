SPECIFICATION Spec
CONSTANTS
    StablePolls = 2
    ArmPolls = 2
    WakeTimeout = 1
    None = None
PROPERTY TimeoutCountsFromLastWake
