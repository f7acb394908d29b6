CONSTANTS
    NumPeers = 2
    Formats = {"pli"}
    Groups <- SmallGroups
    MinDelay = 2
    MaxDelay = 3
    Room = 1
    MaxApps = 2
SPECIFICATION FairSpec
INVARIANT NotPostponedTwice
PROPERTY QueueDrains
