SPECIFICATION Spec
CONSTANTS
    None = None
    main = main
    extra = extra
    parent = parent
    child = child
    x = x
    y = y
    Datasets = {main, extra}
    Models = {parent, child}
    Names = {x}
    Rels = {"category", "products"}
    Schema <- CategoryProducts
    Versions <- TwoSets
    Starts <- TwoSetsStarts
    Ids = {1, 2, 3, 4}
    AppActs = {"create", "delete", "purge"}
    MayCrash = FALSE
    MaxOrphans = 0
    MaxOwn = 1
INVARIANTS
    RecordsMatchFiles
    OwnRowsStay
    ReseedRestores
    PanicsOnlyOnDamage
