SPECIFICATION Spec
CONSTANTS
    LF = LF
    CR = CR
    EOF = EOF
    x = x
    dash = dash
    blank = blank
    ctrl = ctrl
    MaxText = 2
    MaxMarks = 2
    NestedSaveAtEnd = TRUE
    Char <- MCChar
    Blank <- MCBlank
    Forbidden <- MCForbidden
    Texts <- PlainTexts
    Targets <- MCTargets
PROPERTIES RestoreSeeksBack
