CONSTANTS
    NumPeers = 1
    Formats = {"pli"}
    Groups <- SmallGroups
    MinDelay = 2
    MaxDelay = 3
    Room = 1
    MaxApps = 0
SPECIFICATION Spec
PROPERTY UsefulIsSent
