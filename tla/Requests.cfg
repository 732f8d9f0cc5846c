SPECIFICATION Spec
CONSTANTS
    None = None
    Text = Text
    Garbled = Garbled
    first = first
    second = second
    Connections = {first, second}
    Sends <- MCSends
    Limit = 3
    Paths <- MCPaths
    HandlerNames <- MCNames
    Namespaces <- MCNamespaces
    ModelPaths <- MCModels
    Handlers <- MCHandlers
    Actions <- MCActions
    Served <- MCServed
    Bases = {"a"}
    Keys = {"k", "filepath"}
    PathKey = "filepath"
    FileNames = {"f", "g", ""}
    Unwritable = {""}
INVARIANTS
    TypeOK
    LimitExact
    UploadsKeepContent
    FormsHandedOver
    DropsMisfits
    DeclaredIsReached
PROPERTIES
    RequestsEnd
