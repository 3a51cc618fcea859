SPECIFICATION Spec
CONSTANTS
    Name = {a}
    Handle = {primary, named}
    BuiltInHandle = {primary}
    Undefined = Undefined
    MaxDocuments = 2
    MaxTree = 3
    MaxParses = 2
INVARIANTS
    TypeOK
    OwnDeclarationsOnly
    DirectivesInForce
    DirectivesHaveDocument
PROPERTIES
    DocumentsAppended
CHECK_DEADLOCK FALSE
