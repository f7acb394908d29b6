SPECIFICATION Spec
CONSTANTS
    Peer <- Sender1
    Mine <- Sources
    Info <- Times
    Reports <- Blocks
    Description <- Items
    FbQueues <- Queues
    AppQueues <- Apps
    Reason <- Goodbye
    BufferSize = 150
    InFlight = 1
    ConflictLimit = 2
INVARIANT TypeOK
INVARIANT FramesAgree
INVARIANT ReportsIntact
INVARIANT DescriptionIsPrefix
INVARIANT ByeMarksSender
PROPERTY NoFalseConflict
PROPERTY FeedbackOnlyToTarget
CHECK_DEADLOCK FALSE
