CONSTANTS
    i1 = i1
    x1 = x1
    Ids <- MCIds
    Vtxs <- MCVtxs
    NoVertex = NoVertex
    NotCached = NotCached
    Absent = Absent
    NoRead = NoRead
    MaxFailures = 1
SPECIFICATION Spec
INVARIANT CacheCoherent
