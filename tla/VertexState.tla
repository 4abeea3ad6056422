----------------------------- MODULE VertexState -----------------------------
(***************************************************************************)
(* The vertex state store of the Avalanche engine: the `state` type of     *)
(* snow/engine/avalanche/state (src/snow/engine/common/config.go, lines   *)
(* 28-172).  Vertices, statuses and frontier edges are kept in a database  *)
(* behind one LRU cache; reads fill the cache (negative hits included),    *)
(* writes put the cache first and then write or delete in the database.    *)
(*                                                                         *)
(* The three getters and the three setters share one shape and differ in   *)
(* the value they decode; a key is a (namespace, id) pair, the namespaces  *)
(* being kept apart by the caller's ID prefixing (spec.md 4.2).  The cache *)
(* is shared with every other key of the chain, so any entry may be        *)
(* evicted at any time; a restart empties it and keeps the database.       *)
(***************************************************************************)
EXTENDS Naturals

CONSTANTS
    Ids,          \* vertex IDs
    Vtxs,         \* parsed vertices (their bytes always parse back)
    NoVertex,     \* the nil *innerVertex
    NotCached,    \* a cache miss
    Absent,       \* a key with nothing in the database
    NoRead,       \* no read has returned since the last write
    MaxFailures   \* bound on database writes that fail

VARIABLES
    cache,     \* cache[k]: the cached value of key k, or NotCached
    db,        \* db[k]: the value persisted under k, or Absent
    written,   \* written[k]: the value of the last successful Set of k
    observed,  \* the key and value the last read returned, or NoRead
    failures   \* database writes that failed so far

vars == <<cache, db, written, observed, failures>>

Namespaces == {"vtx", "sts", "edg"}
Keys == Namespaces \X Ids

StatusValues == {"Unknown", "Processing", "Rejected", "Accepted"}

\* What each namespace holds, and the value that stands for nothing
\* (SetVertex(id, nil), SetStatus(id, Unknown) and SetEdge(id, []) delete).
Values(ns) ==
    CASE ns = "vtx" -> Vtxs \cup {NoVertex}
      [] ns = "sts" -> StatusValues
      [] ns = "edg" -> {<<>>} \cup {<<i>> : i \in Ids}
Zero(ns) ==
    CASE ns = "vtx" -> NoVertex [] ns = "sts" -> "Unknown" [] ns = "edg" -> <<>>

\* The value a read decodes from the database; what the code writes always
\* parses back, and a missing key reads as the namespace's zero value.
Decode(k) == IF db[k] = Absent THEN Zero(k[1]) ELSE db[k]

-----------------------------------------------------------------------------
\* Bug variant of Lookup: a miss caches what the database returned, the
\* missing-key marker included, instead of the decoded zero value.
LookupNoDecode(k) ==
    LET v == IF cache[k] # NotCached THEN cache[k] ELSE db[k]
    IN  /\ cache' = [cache EXCEPT ![k] = v]
        /\ observed' = [key |-> k, val |-> v]
        /\ UNCHANGED <<db, written, failures>>

\* The shared body of Vertex, Status and Edge: a cache hit is returned as
\* is; on a miss the database value (or the zero value, a negative hit) is
\* decoded and put in the cache.
Lookup(k) ==
    LET v == IF cache[k] # NotCached THEN cache[k] ELSE Decode(k)
    IN  /\ cache' = [cache EXCEPT ![k] = v]
        /\ observed' = [key |-> k, val |-> v]
        /\ UNCHANGED <<db, written, failures>>

Vertex(id) == Lookup(<<"vtx", id>>)
Status(id) == Lookup(<<"sts", id>>)
Edge(id)   == Lookup(<<"edg", id>>)

\* Bug variant of Store: the database is written but the cache is not.
StoreNoCache(k, v) ==
    /\ db' = [db EXCEPT ![k] = IF v = Zero(k[1]) THEN Absent ELSE v]
    /\ written' = [written EXCEPT ![k] = v]
    /\ UNCHANGED <<cache, failures>>

\* Bug variant of Store: the zero value is cached but the key is left in
\* the database.
StoreNoDelete(k, v) ==
    /\ cache' = [cache EXCEPT ![k] = v]
    /\ db' = IF v = Zero(k[1]) THEN db ELSE [db EXCEPT ![k] = v]
    /\ written' = [written EXCEPT ![k] = v]
    /\ UNCHANGED failures

\* The shared body of SetVertex, SetStatus and SetEdge: the cache is put
\* first; then the zero value deletes the key and any other value is
\* written.  The database call may fail; the error goes back to the caller
\* and the cache keeps the new value.
Store(k, v) ==
    /\ cache' = [cache EXCEPT ![k] = v]
    /\ \/ /\ db' = [db EXCEPT ![k] = IF v = Zero(k[1]) THEN Absent ELSE v]
          /\ written' = [written EXCEPT ![k] = v]
          /\ UNCHANGED failures
       \/ /\ failures < MaxFailures
          /\ failures' = failures + 1
          /\ UNCHANGED <<db, written>>

SetVertex(id, vtx)    == Store(<<"vtx", id>>, vtx) /\ observed' = NoRead
SetStatus(id, status) == Store(<<"sts", id>>, status) /\ observed' = NoRead
SetEdge(id, frontier) == Store(<<"edg", id>>, frontier) /\ observed' = NoRead

\* Another key of the shared LRU cache pushes k out.
Evict(k) ==
    /\ cache[k] # NotCached
    /\ cache' = [cache EXCEPT ![k] = NotCached]
    /\ UNCHANGED <<db, written, observed, failures>>

\* The node restarts: the cache is gone, the database is not.
Restart ==
    /\ cache' = [k \in Keys |-> NotCached]
    /\ UNCHANGED <<db, written, observed, failures>>

-----------------------------------------------------------------------------
\* What a key of namespace ns can hold in a database the code wrote.
Persisted(ns) == (Values(ns) \ {Zero(ns)}) \cup {Absent}

\* Any database the code can have written: every key absent or holding a
\* non-zero value of its namespace.
Init ==
    /\ \E fv \in [Ids -> Persisted("vtx")], fs \in [Ids -> Persisted("sts")],
          fe \in [Ids -> Persisted("edg")] :
          db = [k \in Keys |-> CASE k[1] = "vtx" -> fv[k[2]]
                                  [] k[1] = "sts" -> fs[k[2]]
                                  [] k[1] = "edg" -> fe[k[2]]]
    /\ cache = [k \in Keys |-> NotCached]
    /\ written = [k \in Keys |-> Decode(k)]
    /\ observed = NoRead
    /\ failures = 0

Next ==
    \/ \E id \in Ids :
          \/ Vertex(id) \/ Status(id) \/ Edge(id)
          \/ \E x \in Values("vtx") : SetVertex(id, x)
          \/ \E x \in Values("sts") : SetStatus(id, x)
          \/ \E x \in Values("edg") : SetEdge(id, x)
    \/ \E k \in Keys : Evict(k)
    \/ Restart

Spec == Init /\ [][Next]_vars

-----------------------------------------------------------------------------
TypeOK ==
    /\ \A k \in Keys : cache[k] \in Values(k[1]) \cup {NotCached}
    /\ \A k \in Keys : db[k] \in Values(k[1]) \cup {Absent}
    /\ \A k \in Keys : written[k] \in Values(k[1])
    /\ observed # NoRead =>
          observed.key \in Keys /\ observed.val \in Values(observed.key[1])
    /\ failures \in 0..MaxFailures

\* Read your writes: whatever evictions and restarts came in between, a
\* Vertex, Status or Edge read returns the value of the last successful
\* SetVertex, SetStatus or SetEdge of that ID (a deletion reads as nil,
\* Unknown or no edge).
ReadYourWrites == observed # NoRead => observed.val = written[observed.key]

\* Write-through: every value the cache holds, a hit or a cached miss, is
\* the value the database decodes to, so evicting it changes no read.
CacheCoherent == \A k \in Keys : cache[k] # NotCached => cache[k] = Decode(k)

=============================================================================
