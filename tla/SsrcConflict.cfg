CONSTANTS
    ConflictLimit = 2
    MaxCsrcs = 1
    MaxCalls = 3
SPECIFICATION FairSpec
INVARIANT OneStalePerChange
INVARIANT EndsOnlyAtLimit
INVARIANT OrderlyAlone
PROPERTY ReportsGoOn
CHECK_DEADLOCK FALSE
