SPECIFICATION FairSpec
CONSTANTS
    Preroll = 1
    Longest = 3
    Lag = 1
    Watched = TRUE
    MaxBlocks = 4
    MaxUtterances = 2
CHECK_DEADLOCK FALSE
INVARIANTS
    UtterancesApart
    NeverOvergrown
    SentencesAccounted
    EventsInOrder
PROPERTIES
    UtterancesEnd
    FinalsArrive
