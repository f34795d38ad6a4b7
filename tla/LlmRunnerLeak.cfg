SPECIFICATION Spec
CONSTANTS
    ask1 = ask1
    ask2 = ask2
    hot1 = hot1
    None = None
    PhoneRequests <- AskedTwice
    LocalRequests = {}
    Screenshots <- NoPictures
    Chain <- BackupForFirst
    EagerStop = TRUE
    LossyLink = FALSE
    MaxChunks = 1
    MaxStops = 1
CHECK_DEADLOCK FALSE
INVARIANTS
    SlotReleased
