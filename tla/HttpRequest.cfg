SPECIFICATION FairSpec
CONSTANTS
    Requests = {get, post}
    Posts = {post}
    MaxRetries = 1
    get = get
    post = post
INVARIANT TypeOK
INVARIANT CallbacksInOrder
INVARIANT PostsSentOnce
INVARIANT AttemptsBounded
INVARIANT CancelledGivesUp
PROPERTY RequestEnds
CHECK_DEADLOCK FALSE
