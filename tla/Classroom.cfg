SPECIFICATION FairSpec
CONSTANT Visits = 2
CONSTANT FramesPerRead = 2
INVARIANT TypeOK
INVARIANT DecoderReleased
INVARIANT OverlapOnly
INVARIANT OneSession
PROPERTY VideoStops
CHECK_DEADLOCK FALSE
