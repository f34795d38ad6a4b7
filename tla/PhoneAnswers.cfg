SPECIFICATION FairSpec
CONSTANTS
    q1 = q1
    q2 = q2
    h1 = h1
    None = None
    Questions <- TwoQuestions
    Hotkeys <- OneHotkey
    MaxDeltas = 1
    MaxLosses = 1
CHECK_DEADLOCK FALSE
INVARIANTS
    FreeWhenQuiet
    AnswersAgree
PROPERTIES
    EveryAnswerEnds
