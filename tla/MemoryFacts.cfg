SPECIFICATION Spec
CONSTANTS
    color = color
    red = red
    blue = blue
    None = None
    Keys = {color}
    Values = {red, blue}
    MaxReads = 4
    MaxEdits = 2
    MaxTurns = 1
CHECK_DEADLOCK FALSE
SYMMETRY Symmetry
INVARIANTS
    ShownIsStored
    NewIsLearned
