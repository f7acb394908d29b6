CONSTANTS
    Participants = {p1}
    MaxPkts = 2
SPECIFICATION FairSpec
PROPERTY EveryPacketReachesApp
