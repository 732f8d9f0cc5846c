SPECIFICATION Spec
CONSTANTS
    None = None
    main = main
    extra = extra
    parent = parent
    child = child
    x = x
    y = y
    Datasets = {main}
    Models = {parent, child}
    Names = {x, y}
    Rels = {"category", "products", "artists", "songs"}
    Schema <- CategoryProductsArtistsSongs
    Versions <- OptionalAndJoinFiles
    Starts <- AllStarts
    Ids = {1, 2}
    AppActs = {}
    MayCrash = FALSE
    MaxOrphans = 0
    MaxOwn = 0
INVARIANTS
    NoPanic
    NoOrphan
    RelationsResolve
    UnseedLeavesNothing
PROPERTIES
    CutsItsOwn
    FirstSeedLinks
    RunsEnd
