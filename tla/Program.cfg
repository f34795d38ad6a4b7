SPECIFICATION ProgramSpec
CONSTANTS
    relay = relay
    mic = mic
    capture1 = capture1
    Mic <- mic
    Relay <- relay
    Subsystems <- TwoSubsystems
    Works <- OneWork
    LargestExponent = 0
    MaxFailures = 2
CHECK_DEADLOCK FALSE
INVARIANTS
    OnlyAskedStops
    ClosedUnderLatecomers
    StreamsClosed
PROPERTIES
    RequestsEnd
    ComesBack
