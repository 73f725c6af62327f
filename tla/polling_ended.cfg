SPECIFICATION FairSpec
CONSTANTS
    MaxUpdates = 1
    None = None
PROPERTY StartIsRetried
