SPECIFICATION Spec
CONSTANTS
    s1 = s1
    s2 = s2
    Sentences <- TwoSentences
    MaxPresses = 2
    MaxCuts = 2
SYMMETRY Alike
CHECK_DEADLOCK FALSE
INVARIANT
    ShownOnce
