SPECIFICATION FairSpec
CONSTANTS
    a = a
    b = b
    doc = doc
    outer = outer
    inner = inner
    empty = empty
    Undefined = Undefined
    Name <- MCName
    Text <- MCText
    EmptyText = empty
    Document = {doc}
    Contents <- MCContentsWithOverrides
    MaxParseDepth = 7
    MaxAliasExpansions = 2
INVARIANTS
    TypeOK
    ActiveAreExpanding
    DepthBalanced
    DepthBounded
    ExpandedTextKept
    AliasesWithinLimit
PROPERTIES
    Termination
