CONSTANTS
    v1 = v1
    v2 = v2
    g1 = g1
    VertexShaders = {v1, v2}
    GeometryShaders = {g1}
    Programs = {p1, p2}
    Binaries = {b1, b2}
    Packages <- MCPackages
    Applications <- MCApplications
    CbLists = {l1}
    BufferSizes = {20, 9}
    MaxRequests = 3
    Writes = {4}
    Copies = {3}
    RegPrograms = {p1, p2}
    Kinds = {"bool0", "address1", "fragment", "zbias", "light"}
    StateMasks <- MCStateMasks
SPECIFICATION CommandsSpec
PROPERTIES RelinkUpdatesEverything
