SPECIFICATION Spec
CONSTANTS
    None = None
    main = main
    author = author
    x = x
    Datasets = {main}
    Models = {author}
    Names = {x}
    Rels = {}
    Schema <- NoSchema
    Versions <- TwoVersions
    Starts <- ServeAndUnseed
    Ids = {1, 2, 3, 4, 5, 6, 7}
    AppActs = {"create"}
    MayCrash = TRUE
    MaxOrphans = 1
    MaxOwn = 1
INVARIANTS
    AtMostTwice
    AloneBringsInLine
    TogetherLeaveNothingOut
    OwnRowsStay
PROPERTIES
    NeverLetsGo
    RunsEnd
