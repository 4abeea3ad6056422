------------------------------ MODULE Bootstrap ------------------------------
(***************************************************************************)
(* The bootstrap engine of one Avalanche chain (spec.md 4.6) together with *)
(* the dependency job queue it feeds (spec.md 4.4).  The engine is handed  *)
(* the accepted frontier (ForceAccepted), fetches every missing ancestor   *)
(* with GetAncestors requests sent round-robin to the beacons, parses the  *)
(* MultiPut answers, and, once nothing is needed any more, drains the      *)
(* queued transaction and vertex jobs in dependency order.                 *)
(*                                                                         *)
(* The engine itself is not part of src/; its definitions are modelled     *)
(* from spec.md, and the scenarios of its test file                        *)
(* (src/unnamed/part_000) fix the points the spec leaves open.             *)
(***************************************************************************)
EXTENDS Naturals, Sequences, FiniteSets

CONSTANTS
    Vertices,       \* vertex IDs of the chain's DAG
    Parents,        \* Parents[v]: the parent IDs of vertex v
    Txs,            \* transaction IDs
    VtxTxs,         \* VtxTxs[v]: the transactions inside vertex v
    TxDeps,         \* TxDeps[t]: the transactions t spends from
    Frontier,       \* the accepted frontier given to ForceAccepted
    Stored,         \* vertices already parsed in the local store at start
    Peers,          \* the beacons
    Honest,         \* beacons that answer with the real ancestry
    PeerOrder,      \* the round-robin order over Peers
    Garbage,        \* a container whose bytes do not parse
    MaxContainers,  \* cap on containers read from one MultiPut
    MaxRequestID,   \* bound on the request ID counter
    MaxFaults       \* bound on lost messages and premature timeouts

ASSUME /\ Frontier \subseteq Vertices /\ Stored \subseteq Vertices
       /\ Honest \subseteq Peers /\ Honest # {}
       /\ PeerOrder \in Seq(Peers) /\ {PeerOrder[i] : i \in DOMAIN PeerOrder} = Peers
       /\ Garbage \notin Vertices

VARIABLES
    phase,        \* "init", "fetching", "draining" or "done"
    vtxStatus,    \* status of each vertex in the local store
    txStatus,     \* status of each transaction
    queued,       \* vertices whose jobs were pushed to the job queue
    needed,       \* vertex IDs required but not yet parsed
    outstanding,  \* GetAncestors requests awaiting a MultiPut: [peer, id, vtx]
    requests,     \* GetAncestors messages on the way to (or held by) a peer
    responses,    \* MultiPut messages on the way back: [peer, id, cs]
    requestID,    \* the last request ID minted
    nextPeer,     \* index into PeerOrder of the next beacon to ask
    faults,       \* messages lost plus timeouts fired before the answer
    finished      \* onFinished has been called

vars == <<phase, vtxStatus, txStatus, queued, needed, outstanding, requests,
          responses, requestID, nextPeer, faults, finished>>

Status == {"Unknown", "Processing", "Accepted"}

-----------------------------------------------------------------------------
(* The DAG as the peers know it.                                           *)

\* S together with every ancestor of a vertex of S.
RECURSIVE AncestorsOf(_)
AncestorsOf(S) ==
    LET up == UNION {Parents[v] : v \in S} \ S
    IN  IF up = {} THEN S ELSE AncestorsOf(S \cup up)

Ancestry == AncestorsOf(Frontier)

\* The sequences an honest beacon may answer GetAncestors(v) with: v first,
\* then distinct ancestors each a parent of an earlier container, at most
\* MaxContainers long (a truncated answer is still honest).
RECURSIVE Chains(_)
Chains(s) ==
    {s} \cup
    IF Len(s) >= MaxContainers THEN {}
    ELSE UNION {Chains(Append(s, p)) :
                  p \in UNION {Parents[s[i]] : i \in DOMAIN s}
                        \ {s[i] : i \in DOMAIN s}}

\* What a byzantine beacon may answer: one or two arbitrary containers.
ByzantineAnswers ==
    {<<c>> : c \in Vertices \cup {Garbage}}
    \cup {<<c, d>> : c, d \in Vertices \cup {Garbage}}

-----------------------------------------------------------------------------
(* The engine (spec.md 4.6).                                               *)

\* The vertices reached from todo through parsed, not yet queued vertices:
\* the engine pushes a job for each and walks on to its parents.
RECURSIVE Traverse(_, _, _)
Traverse(todo, vs, done) ==
    LET fresh == {v \in todo : vs[v] = "Processing"} \ done
    IN  IF fresh = {} THEN done
        ELSE Traverse(UNION {Parents[v] : v \in fresh}, vs, done \cup fresh)

\* Bug variant of Process: parents of stored vertices reached by the walk
\* are not made needed, only the unparsed ones among S.
ProcessNoWalk(S, vs, nd) ==
    /\ queued' = Traverse(S, vs, queued)
    /\ needed' = nd \cup {p \in S : vs[p] = "Unknown"}
    /\ vtxStatus' = vs

\* Push the jobs of the vertices reached from S (job queue push, spec 4.4),
\* given vertex statuses vs and the needed set nd after parsing: the
\* transactions of a queued vertex get jobs too, and every unparsed parent
\* of a queued vertex is needed.
Process(S, vs, nd) ==
    LET q  == Traverse(S, vs, queued)
        up == UNION {Parents[v] : v \in q \ queued}
    IN  /\ queued' = q
        /\ needed' = nd \cup {p \in S \cup up : vs[p] = "Unknown"}
        /\ vtxStatus' = vs

\* ForceAccepted(frontier): parsed frontier vertices are processed, the
\* others are needed; then the engine is fetching.
ForceAccepted ==
    /\ phase = "init"
    /\ phase' = "fetching"
    /\ Process(Frontier, vtxStatus, {})
    /\ UNCHANGED <<txStatus, outstanding, requests, responses, requestID,
                   nextPeer, faults, finished>>

\* Bug variant of Fetch: the round-robin index is not wrapped around.
FetchNoWrap(v) ==
    /\ phase = "fetching"
    /\ v \in needed
    /\ \A o \in outstanding : o.vtx # v
    /\ requestID < MaxRequestID
    /\ LET o == [peer |-> PeerOrder[nextPeer], id |-> requestID + 1, vtx |-> v]
       IN  /\ outstanding' = outstanding \cup {o}
           /\ requests' = requests \cup {o}
    /\ requestID' = requestID + 1
    /\ nextPeer' = nextPeer + 1
    /\ UNCHANGED <<phase, vtxStatus, txStatus, queued, needed, responses,
                   faults, finished>>

\* A fetch job: ask the next beacon in round-robin order for v and its
\* ancestors with a fresh request ID.
Fetch(v) ==
    /\ phase = "fetching"
    /\ v \in needed
    /\ \A o \in outstanding : o.vtx # v
    /\ requestID < MaxRequestID
    /\ LET o == [peer |-> PeerOrder[nextPeer], id |-> requestID + 1, vtx |-> v]
       IN  /\ outstanding' = outstanding \cup {o}
           /\ requests' = requests \cup {o}
    /\ requestID' = requestID + 1
    /\ nextPeer' = (nextPeer % Len(PeerOrder)) + 1
    /\ UNCHANGED <<phase, vtxStatus, txStatus, queued, needed, responses,
                   faults, finished>>

\* Bug variant of Fill: every container that parses is stored, needed or not.
RECURSIVE FillAny(_, _, _, _)
FillAny(cs, vs, nd, got) ==
    IF cs = <<>> \/ Head(cs) = Garbage THEN [vs |-> vs, nd |-> nd, got |-> got]
    ELSE LET c == Head(cs) IN
         IF vs[c] = "Unknown"
         THEN FillAny(Tail(cs), [vs EXCEPT ![c] = "Processing"],
                      (nd \ {c}) \cup {p \in Parents[c] : vs[p] = "Unknown"},
                      got \cup {c})
         ELSE FillAny(Tail(cs), vs, nd, got)

\* Parse the containers after the first one, in order: a container that
\* does not parse drops the rest; a parsed vertex that is needed (matched
\* by hash) is stored as Processing and its unparsed parents become needed;
\* any other container is only a cache fill.  Yields [vs, nd, got].
RECURSIVE Fill(_, _, _, _)
Fill(cs, vs, nd, got) ==
    IF cs = <<>> \/ Head(cs) = Garbage THEN [vs |-> vs, nd |-> nd, got |-> got]
    ELSE LET c == Head(cs) IN
         IF c \in nd
         THEN Fill(Tail(cs), [vs EXCEPT ![c] = "Processing"],
                   (nd \ {c}) \cup {p \in Parents[c] : vs[p] = "Unknown"},
                   got \cup {c})
         ELSE Fill(Tail(cs), vs, nd, got)

\* Store the requested vertex v, the first container, and fill from the rest.
Parse(v, cs) ==
    IF vtxStatus[v] # "Unknown" THEN Fill(Tail(cs), vtxStatus, needed, {})
    ELSE Fill(Tail(cs), [vtxStatus EXCEPT ![v] = "Processing"],
              (needed \ {v}) \cup {p \in Parents[v] : vtxStatus[p] = "Unknown"},
              {v})

\* Only the first MaxContainers containers of a MultiPut are read.
Capped(cs) == IF Len(cs) > MaxContainers THEN SubSeq(cs, 1, MaxContainers) ELSE cs

\* Transactions of freshly stored vertices are parsed with them.
ParseTxs(got) ==
    [t \in Txs |-> IF txStatus[t] = "Unknown" /\ \E v \in got : t \in VtxTxs[v]
                   THEN "Processing" ELSE txStatus[t]]

\* MultiPut(peer, requestID, containers).  An answer to no outstanding
\* request is dropped.  If the first container is not the requested vertex
\* (or does not parse) the vertex stays needed and is fetched again from
\* another beacon; otherwise the containers are parsed and processed.
MultiPut(m) ==
    /\ m \in responses
    /\ responses' = responses \ {m}
    /\ LET match == {o \in outstanding : o.peer = m.peer /\ o.id = m.id}
       IN  IF match = {} THEN
              UNCHANGED <<vtxStatus, txStatus, queued, needed, outstanding>>
           ELSE LET o == CHOOSE o \in match : TRUE IN
              /\ outstanding' = outstanding \ {o}
              /\ IF Head(m.cs) # o.vtx THEN
                    UNCHANGED <<vtxStatus, txStatus, queued, needed>>
                 ELSE LET r == Parse(o.vtx, Capped(m.cs))
                      IN  /\ txStatus' = ParseTxs(r.got)
                          /\ Process(r.got, r.vs, r.nd)
    /\ UNCHANGED <<phase, requests, requestID, nextPeer, faults, finished>>

\* Bug variant of GetAncestorsFailed: the failure is logged, the request
\* is left outstanding and the vertex is never asked for again.
GetAncestorsFailedNoRetry(o) ==
    /\ o \in outstanding
    /\ \A r \in requests : r.peer # o.peer \/ r.id # o.id
    /\ \A m \in responses : m.peer # o.peer \/ m.id # o.id
    /\ UNCHANGED vars

\* GetAncestorsFailed: the timeout manager gives up on an outstanding
\* request whose answer is gone; the vertex stays needed and is re-fetched.
GetAncestorsFailed(o) ==
    /\ o \in outstanding
    /\ \A r \in requests : r.peer # o.peer \/ r.id # o.id
    /\ \A m \in responses : m.peer # o.peer \/ m.id # o.id
    /\ outstanding' = outstanding \ {o}
    /\ UNCHANGED <<phase, vtxStatus, txStatus, queued, needed, requests,
                   responses, requestID, nextPeer, faults, finished>>

\* Fetching -> Draining once no vertex is needed.
StartDraining ==
    /\ phase = "fetching"
    /\ needed = {}
    /\ phase' = "draining"
    /\ UNCHANGED <<vtxStatus, txStatus, queued, needed, outstanding, requests,
                   responses, requestID, nextPeer, faults, finished>>

TxReady(t) ==
    /\ txStatus[t] = "Processing"
    /\ \E v \in queued : t \in VtxTxs[v]
    /\ \A d \in TxDeps[t] : txStatus[d] = "Accepted"

VtxReady(v) ==
    /\ v \in queued
    /\ vtxStatus[v] = "Processing"
    /\ \A p \in Parents[v] : vtxStatus[p] = "Accepted"
    /\ \A t \in VtxTxs[v] : txStatus[t] = "Accepted"

\* The job queue executes a transaction job whose dependencies are accepted.
ExecuteTx(t) ==
    /\ phase = "draining"
    /\ TxReady(t)
    /\ txStatus' = [txStatus EXCEPT ![t] = "Accepted"]
    /\ UNCHANGED <<phase, vtxStatus, queued, needed, outstanding, requests,
                   responses, requestID, nextPeer, faults, finished>>

\* The job queue executes a vertex job whose parents and txs are accepted.
ExecuteVtx(v) ==
    /\ phase = "draining"
    /\ VtxReady(v)
    /\ vtxStatus' = [vtxStatus EXCEPT ![v] = "Accepted"]
    /\ UNCHANGED <<phase, txStatus, queued, needed, outstanding, requests,
                   responses, requestID, nextPeer, faults, finished>>

\* Draining -> Done once no job is ready: onFinished fires.
Finish ==
    /\ phase = "draining"
    /\ \A t \in Txs : ~TxReady(t)
    /\ \A v \in Vertices : ~VtxReady(v)
    /\ phase' = "done"
    /\ finished' = TRUE
    /\ UNCHANGED <<vtxStatus, txStatus, queued, needed, outstanding, requests,
                   responses, requestID, nextPeer, faults>>

-----------------------------------------------------------------------------
(* The beacons and the network.                                            *)

\* A beacon takes a GetAncestors request and answers it; a byzantine beacon
\* may answer anything or nothing.
Reply(r) ==
    /\ r \in requests
    /\ requests' = requests \ {r}
    /\ IF r.peer \in Honest
       THEN \E cs \in Chains(<<r.vtx>>) :
               responses' = responses \cup {[peer |-> r.peer, id |-> r.id, cs |-> cs]}
       ELSE \/ \E cs \in ByzantineAnswers :
                  responses' = responses \cup {[peer |-> r.peer, id |-> r.id, cs |-> cs]}
            \/ UNCHANGED responses
    /\ UNCHANGED <<phase, vtxStatus, txStatus, queued, needed, outstanding,
                   requestID, nextPeer, faults, finished>>

\* The network loses a request or an answer.
Lose ==
    /\ faults < MaxFaults
    /\ faults' = faults + 1
    /\ \/ \E r \in requests : requests' = requests \ {r} /\ UNCHANGED responses
       \/ \E m \in responses : responses' = responses \ {m} /\ UNCHANGED requests
    /\ UNCHANGED <<phase, vtxStatus, txStatus, queued, needed, outstanding,
                   requestID, nextPeer, finished>>

\* A timer expires while the answer is still on its way; the late answer
\* will match no outstanding request.
EarlyTimeout(o) ==
    /\ o \in outstanding
    /\ faults < MaxFaults
    /\ faults' = faults + 1
    /\ outstanding' = outstanding \ {o}
    /\ UNCHANGED <<phase, vtxStatus, txStatus, queued, needed, requests,
                   responses, requestID, nextPeer, finished>>

-----------------------------------------------------------------------------
Init ==
    /\ phase = "init"
    /\ vtxStatus = [v \in Vertices |-> IF v \in Stored THEN "Processing" ELSE "Unknown"]
    /\ txStatus = [t \in Txs |-> IF \E v \in Stored : t \in VtxTxs[v]
                                 THEN "Processing" ELSE "Unknown"]
    /\ queued = {}
    /\ needed = {}
    /\ outstanding = {}
    /\ requests = {}
    /\ responses = {}
    /\ requestID = 0
    /\ nextPeer = 1
    /\ faults = 0
    /\ finished = FALSE

Engine ==
    \/ ForceAccepted
    \/ \E v \in Vertices : Fetch(v)
    \/ \E m \in responses : MultiPut(m)
    \/ \E o \in outstanding : GetAncestorsFailed(o)
    \/ StartDraining
    \/ \E t \in Txs : ExecuteTx(t)
    \/ \E v \in Vertices : ExecuteVtx(v)
    \/ Finish

Environment ==
    \/ \E r \in requests : Reply(r)
    \/ Lose
    \/ \E o \in outstanding : EarlyTimeout(o)

Next == Engine \/ Environment

\* The engine handles every message the router hands it and the timeout
\* manager fires every expired timer; beacons are scheduled.  Losses and
\* early timeouts are not forced.
Fairness ==
    /\ WF_vars(ForceAccepted)
    /\ \A v \in Vertices : WF_vars(Fetch(v))
    /\ WF_vars(\E m \in responses : MultiPut(m))
    /\ WF_vars(\E o \in outstanding : GetAncestorsFailed(o))
    /\ WF_vars(StartDraining)
    /\ \A t \in Txs : WF_vars(ExecuteTx(t))
    /\ \A v \in Vertices : WF_vars(ExecuteVtx(v))
    /\ WF_vars(Finish)
    /\ WF_vars(\E r \in requests : Reply(r))

Spec == Init /\ [][Next]_vars /\ Fairness

-----------------------------------------------------------------------------
(* Properties.                                                             *)

TypeOK ==
    /\ phase \in {"init", "fetching", "draining", "done"}
    /\ vtxStatus \in [Vertices -> Status]
    /\ txStatus \in [Txs -> Status]
    /\ queued \subseteq Vertices
    /\ needed \subseteq Vertices
    /\ outstanding \subseteq [peer : Peers, id : 1..MaxRequestID, vtx : Vertices]
    /\ requests \subseteq [peer : Peers, id : 1..MaxRequestID, vtx : Vertices]
    /\ requestID \in 0..MaxRequestID
    /\ nextPeer \in DOMAIN PeerOrder
    /\ faults \in 0..MaxFaults
    /\ finished \in BOOLEAN

\* Nothing the DAG still requires is forgotten while fetching: every
\* unparsed parent of a queued vertex, and every unparsed frontier vertex,
\* is in needed (so it will be fetched).  Breaking it takes a MultiPut that
\* stores a vertex whose own parents were parsed earlier or are cached.
NothingForgotten ==
    phase \in {"fetching", "draining"} =>
        \A v \in Frontier \cup UNION {Parents[q] : q \in queued} :
            vtxStatus[v] = "Unknown" => v \in needed

\* Termination (spec.md 8.5): with at least one honest beacon in the
\* round-robin, bootstrapping eventually calls onFinished.
Termination == <>finished

\* The engine implements the abstract promise: it accepts only vertices of
\* the frontier's ancestry and transactions inside them, each after its
\* parents, its transactions and its spent transactions, and it finishes
\* only when nothing more can be accepted, whatever the byzantine beacons
\* answer, whatever is lost and whenever timers fire.
Abstract == INSTANCE BootstrapAbstract WITH
    accepted    <- {v \in Vertices : vtxStatus[v] = "Accepted"},
    acceptedTxs <- {t \in Txs : txStatus[t] = "Accepted"},
    done        <- finished

Refinement == Abstract!Spec

\* spec.md 4.6 Termination: bootstrapping completes (onFinished fires) only
\* when every vertex of the accepted frontier is decided.  Nothing is ever
\* rejected in this model, so decided means Accepted here.
FinishedDecidesFrontier ==
    finished => \A v \in Frontier : vtxStatus[v] = "Accepted"

=============================================================================
