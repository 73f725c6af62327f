SPECIFICATION FairSpec
CONSTANTS
    StablePolls = 2
    ArmPolls = 6
    WakeTimeout = 2
    None = None
INVARIANTS CycleGoesOn SteadyBeforeTold
PROPERTIES OnNotRepeated SleepIsNotToldAsStop OnlySleepIsHeldBack WakeAnsweredOnce
    WakeResolves EventuallyAgrees
