SPECIFICATION Spec
CONSTANTS
    None = None
    main = main
    extra = extra
    parent = parent
    child = child
    x = x
    y = y
    Datasets = {main, extra}
    Models = {parent, child}
    Names = {x}
    Rels = {"category", "products"}
    Schema <- CategoryProducts
    Versions <- TwoSets
    Starts <- AutoOrNamed
    Ids = {1, 2, 3}
    AppActs = {}
    MayCrash = FALSE
    MaxOrphans = 1
    MaxOwn = 0
PROPERTIES
    ForgetsRemovedSets
