SPECIFICATION Spec
CONSTANTS
    None = None
    NoCommand = NoCommand
    main = main
    other = other
    Threads = {main, other}
    Requests = {r1, r2}
    r1 = r1
    r2 = r2
    Words <- MCWords
    Scripts <- MCScripts
    Launches <- MCLaunches
    Schemas <- MCSchemas
    Paths <- MCPaths
    Stored <- MCStored
    Programs = {"x"}
    MaxContexts = 2
SYMMETRY Alike
INVARIANTS
    TypeOK
    OneApp
PROPERTIES
    CarriedOut
    DangerAlone
CHECK_DEADLOCK FALSE
