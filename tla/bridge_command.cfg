SPECIFICATION FairSpec
CONSTANTS
    Command = {c1, c2}
    MaxLines = 1
    None = None
INVARIANTS ThreadsCanGoOn AuditTrail UserIsToldTheTruth SleepAnsweredFirst RecentLinesKept
PROPERTY CommandsEnd
