---------------------------- MODULE MCVertexState ----------------------------
\* One vertex ID (keys in all three namespaces) and one parsed vertex: the
\* store keeps its keys apart, so more IDs only multiply the same cases.
EXTENDS VertexState

CONSTANTS i1, x1

MCIds == {i1}
MCVtxs == {x1}
=============================================================================
