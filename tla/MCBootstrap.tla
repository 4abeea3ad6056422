----------------------------- MODULE MCBootstrap -----------------------------
(* A three-vertex chain v2 -> v1 -> v0 with the frontier {v2}, a vertex v3  *)
(* outside its ancestry that a byzantine beacon can offer, and the tx     *)
(* dependency of the TxDependencies test: t1 (in v0) spends t0 (in v2).   *)
EXTENDS Bootstrap, TLC

CONSTANTS v0, v1, v2, v3, t0, t1, p1, p2

MCVertices == {v0, v1, v2, v3}
MCParents == (v0 :> {}) @@ (v1 :> {v0}) @@ (v2 :> {v1}) @@ (v3 :> {})
MCTxs == {t0, t1}
MCVtxTxs == (v0 :> {t1}) @@ (v1 :> {}) @@ (v2 :> {t0}) @@ (v3 :> {})
MCTxDeps == (t0 :> {}) @@ (t1 :> {t0})
MCFrontier == {v2}
\* The MissingTxDependency test: t0 (in v2) spends t1, which no vertex holds.
MCVtxTxsMissing == (v0 :> {}) @@ (v1 :> {}) @@ (v2 :> {t0}) @@ (v3 :> {})
MCTxDepsMissing == (t0 :> {t1}) @@ (t1 :> {})
MCPeers == {p1, p2}
MCHonest == {p1}
MCPeerOrder == <<p1, p2>>
=============================================================================
