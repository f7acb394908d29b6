CONSTANTS
    Stream <- TsWrap
    Behaviors <- BufferedOrFiltered
    Window = 0
    Copies = 1
SPECIFICATION Spec
INVARIANT NothingLost
INVARIANT InOrderDelivery
PROPERTY KeepsPromise
CHECK_DEADLOCK FALSE
