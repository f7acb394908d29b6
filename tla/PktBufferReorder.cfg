CONSTANTS
    Stream <- Mixed
    Behaviors <- RawToo
    Window = 2
    Copies = 2
SPECIFICATION RawFromTheStart
INVARIANT QueueOrdered
INVARIANT AppCallerSurvives
INVARIANT FramesSorted
CHECK_DEADLOCK FALSE
