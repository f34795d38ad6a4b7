SPECIFICATION Spec
CONSTANTS
    first = first
    second = second
    wrong = wrong
    mic = mic
    None = None
    Updates <- ThreeUpdates
    Invalid <- OneWrong
    Sources <- OneSource
    Environments <- SomeEnvironments
    Preferences <- SomePreferences
    MaxStarts = 2
CHECK_DEADLOCK FALSE
INVARIANTS
    SettingsAgree
    AckSurvives
    VisionAnswers
