SPECIFICATION TreeSpec
CONSTANTS
    Names = {"p", "q", "r", "<<"}
    Nodes <- MCNodes
    Inputs <- MCInputs
    KeyBefore <- MCKeyBefore
    Used <- MCUsed
    Steps <- MCSteps
    Values <- MCValues
    Operations = 0
    MaxSteps = 2
    Places <- MCPlaces
    Depth = 4
    N = 2
INVARIANT LaterSourceWins
CHECK_DEADLOCK FALSE
