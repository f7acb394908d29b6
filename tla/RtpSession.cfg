CONSTANTS
    Participants = {p1}
    MaxPkts = 2
SPECIFICATION FairSpec
INVARIANT LockMatchesCode
INVARIANT InterruptStands
PROPERTY SignalledDrains
PROPERTY AllThreadsStop
