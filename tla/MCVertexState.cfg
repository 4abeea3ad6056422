CONSTANTS
    i1 = i1
    x1 = x1
    Ids <- MCIds
    Vtxs <- MCVtxs
    NoVertex = NoVertex
    NotCached = NotCached
    Absent = Absent
    NoRead = NoRead
    MaxFailures = 0
SPECIFICATION Spec
INVARIANT TypeOK
INVARIANT ReadYourWrites
INVARIANT CacheCoherent
