SPECIFICATION OutputSpec
CONSTANTS
    kLineFeed = LineFeed
    kCarriageReturn = CarriageReturn
    kNull = kNull
    Unset = Unset
    Byte = {x, LineFeed}
    N = 3
    MaxWritten = 6
    MaxSent = 6
    Held <- MCHeld
    ByHand <- MCByHand
    Steps = {1, 2, 4}
    Styles = {"flow", "flow lines", "block", "explicit", "folded", "numbers"}
    Avoided = {"colon in a flow sequence", "collection in a sequence", "comment in an explicit key",
               "beyond ASCII in a quoted key", "beyond ASCII in UTF-16"}
INVARIANTS
    TypeOK
    ViewIsPrefix
    OverflowTellsLoss
    LastsAgree
    FileIsWhatWasWritten
    SameText
    PrintedReadsBack
    WrittenReadsBack
    EditedReadsBack
    BrokenIsRejected
CHECK_DEADLOCK FALSE
