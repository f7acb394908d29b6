CONSTANTS
    NumPkts = 5
    StartSeq = 5
    SeqMod = 8
    Window = 1
    Copies = 2
SPECIFICATION Spec
INVARIANT LossNeverOverstated
PROPERTY HighestNeverFalls
CHECK_DEADLOCK FALSE
