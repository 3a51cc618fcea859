SPECIFICATION RoundTripSpec
CONSTANTS
    Held <- MCHeld
    ByHand <- MCByHand
    Steps = {2}
    Styles = {"flow"}
    Avoided = {"collection in a sequence", "comment in an explicit key",
               "beyond ASCII in a quoted key", "beyond ASCII in UTF-16"}
INVARIANT WrittenReadsBack
CHECK_DEADLOCK FALSE
