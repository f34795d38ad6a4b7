SPECIFICATION FairSpec
CONSTANTS
    ask1 = ask1
    ask2 = ask2
    hot1 = hot1
    None = None
    PhoneRequests = {ask2}
    LocalRequests <- ByHotkey
    Screenshots <- Pictures
    Chain <- BackupForBoth
    EagerStop = FALSE
    LossyLink = TRUE
    MaxChunks = 2
    MaxStops = 2
CHECK_DEADLOCK FALSE
INVARIANTS
    OneRun
    AnswerWhole
    SlotReleased
    OneEnding
    EndingIsSaved
PROPERTIES
    KeepsProtocol
    EveryQuestionEnds
