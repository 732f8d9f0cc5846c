SPECIFICATION Spec
CONSTANTS
    None = None
    main = main
    extra = extra
    parent = parent
    child = child
    x = x
    y = y
    Datasets = {main}
    Models = {parent, child}
    Names = {x}
    Rels = {"author", "posts"}
    Schema <- AuthorPosts
    Versions <- AuthorAtChild
    Starts <- ReseedStart
    Ids = {1}
    AppActs = {}
    MayCrash = FALSE
    MaxOrphans = 0
    MaxOwn = 0
INVARIANTS
    ReseedKeepsRequired
