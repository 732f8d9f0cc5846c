SPECIFICATION Spec
CONSTANTS
    None = None
    main = main
    extra = extra
    parent = parent
    child = child
    x = x
    y = y
    Datasets = {main}
    Models = {parent, child}
    Names = {x, y}
    Rels = {"author", "posts"}
    Schema <- AuthorPosts
    Versions <- RequiredFiles
    Starts <- AllStarts
    Ids = {1, 2, 3, 4}
    AppActs = {}
    MayCrash = TRUE
    MaxOrphans = 2
    MaxOwn = 0
INVARIANTS
    TypeOK
    OneRecordPerName
    RecordsMatchFiles
    ReseedLinksExactly
    PanicsOnlyOnDamage
PROPERTIES
    LosesOnlyInFlight
    RefinesCatalog
