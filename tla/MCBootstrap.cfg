CONSTANTS
    v0 = v0  v1 = v1  v2 = v2  v3 = v3
    t0 = t0  t1 = t1  p1 = p1  p2 = p2
    Garbage = Garbage
    Vertices <- MCVertices
    Parents <- MCParents
    Txs <- MCTxs
    VtxTxs <- MCVtxTxs
    TxDeps <- MCTxDeps
    Frontier <- MCFrontier
    Stored = {v1}
    Peers <- MCPeers
    Honest <- MCHonest
    PeerOrder <- MCPeerOrder
    MaxContainers = 3
    MaxRequestID = 10
    MaxFaults = 2
SPECIFICATION Spec
INVARIANT TypeOK
INVARIANT NothingForgotten
PROPERTY Refinement
PROPERTY Termination
CHECK_DEADLOCK FALSE
