SPECIFICATION TreeSpec
CONSTANTS
    Names = {"p", "q", "r", "<<"}
    Nodes <- MCNodes
    Inputs <- MCInputs
    KeyBefore <- MCKeyBefore
    Used <- MCUsed
    Steps <- MCSteps
    Values <- MCValues
    Operations = 2
    MaxSteps = 2
    Places <- MCPlaces
    Depth = 4
    N = 2
INVARIANTS
    EveryKeyFromItsSource
    KeysAreTheUnion
    IndexTrue
    ContentsAreWritten
    StaticAnswersAlike
CHECK_DEADLOCK FALSE
