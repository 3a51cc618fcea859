SPECIFICATION Spec
CONSTANTS
    LF = LF
    EOF = EOF
    x = x
    dash = dash
    blank = blank
    ctrl = ctrl
    MaxText = 4
    MaxMarks = 2
    Char <- MCChar
    Blank <- MCBlank
    Forbidden <- MCForbidden
    Texts <- MCTexts
    Targets <- MCTargets
INVARIANTS TypeOK PositionTrue ContextsTrue BackupStaysOnLine
PROPERTIES RefinesSource
CHECK_DEADLOCK TRUE
