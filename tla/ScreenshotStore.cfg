SPECIFICATION Spec
CONSTANTS
    shot1 = shot1
    shot2 = shot2
    Shots <- TwoShots
    MaxPresses = 2
    MaxCuts = 2
SYMMETRY Alike
CHECK_DEADLOCK FALSE
INVARIANTS
    RowsHaveImages
    FilesHaveRows
    PhoneShowsRows
