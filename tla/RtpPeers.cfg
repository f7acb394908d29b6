SPECIFICATION FairSpec
CONSTANTS
    a1 = a1
    a2 = a2
    s1 = s1
    s2 = s2
    Addr = {a1, a2}
    Ssrc = {s1, s2}
    Senders <- OneChanges
    MaxChanges = 1
    MaxLost = 2
    Nothing = Nothing
INVARIANT TypeOK
INVARIANT FaithfulLinked
INVARIANT OnlyFirstLost
PROPERTY EveryoneReported
CHECK_DEADLOCK FALSE
