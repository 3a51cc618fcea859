SPECIFICATION Spec
CONSTANTS
    LF = LF
    CR = CR
    EOF = EOF
    x = x
    dash = dash
    blank = blank
    ctrl = ctrl
    MaxText = 4
    MaxMarks = 2
    NestedSaveAtEnd = FALSE
    Char <- MCChar
    Blank <- MCBlank
    Forbidden <- MCForbidden
    Texts <- PlainTexts
    Targets <- MCTargets
INVARIANTS TypeOK PositionTrue ContextsTrue FailOnlyAtEnd
PROPERTIES RefinesSource
