CONSTANTS
    v0 = v0  v1 = v1  v2 = v2  v3 = v3
    t0 = t0  t1 = t1  p1 = p1  p2 = p2
    Garbage = Garbage
    Vertices <- MCVertices
    Parents <- MCParents
    Txs <- MCTxs
    VtxTxs <- MCVtxTxsMissing
    TxDeps <- MCTxDepsMissing
    Frontier <- MCFrontier
    Stored = {}
    Peers <- MCPeers
    Honest <- MCHonest
    PeerOrder <- MCPeerOrder
    MaxContainers = 2
    MaxRequestID = 8
    MaxFaults = 0
SPECIFICATION Spec
INVARIANT FinishedDecidesFrontier
CHECK_DEADLOCK FALSE
