-------------------------- MODULE BootstrapAbstract --------------------------
(***************************************************************************)
(* What bootstrapping a chain promises (spec.md 4.6 and 8): starting from  *)
(* the accepted frontier, vertices and transactions of the frontier's      *)
(* ancestry are accepted one at a time, each only after what it depends on *)
(* (a vertex after its parents and its own transactions, a transaction     *)
(* after the transactions it spends from), nothing outside that ancestry   *)
(* is ever accepted, and the run is declared finished only when nothing    *)
(* more can be accepted.                                                   *)
(***************************************************************************)
EXTENDS Naturals

CONSTANTS Vertices, Parents, Txs, VtxTxs, TxDeps, Frontier

VARIABLES accepted, acceptedTxs, done

RECURSIVE Closure(_)
Closure(S) ==
    LET up == UNION {Parents[v] : v \in S} \ S
    IN  IF up = {} THEN S ELSE Closure(S \cup up)

\* The frontier and every one of its ancestors.
Ancestry == Closure(Frontier)

CanAcceptTx(t) ==
    /\ t \notin acceptedTxs
    /\ \E v \in Ancestry : t \in VtxTxs[v]
    /\ TxDeps[t] \subseteq acceptedTxs

CanAcceptVtx(v) ==
    /\ v \in Ancestry \ accepted
    /\ Parents[v] \subseteq accepted
    /\ VtxTxs[v] \subseteq acceptedTxs

AcceptTx(t) ==
    /\ ~done
    /\ CanAcceptTx(t)
    /\ acceptedTxs' = acceptedTxs \cup {t}
    /\ UNCHANGED <<accepted, done>>

AcceptVtx(v) ==
    /\ ~done
    /\ CanAcceptVtx(v)
    /\ accepted' = accepted \cup {v}
    /\ UNCHANGED <<acceptedTxs, done>>

Complete ==
    /\ ~done
    /\ \A t \in Txs : ~CanAcceptTx(t)
    /\ \A v \in Vertices : ~CanAcceptVtx(v)
    /\ done' = TRUE
    /\ UNCHANGED <<accepted, acceptedTxs>>

Init == accepted = {} /\ acceptedTxs = {} /\ done = FALSE

Next ==
    \/ \E t \in Txs : AcceptTx(t)
    \/ \E v \in Vertices : AcceptVtx(v)
    \/ Complete

Spec == Init /\ [][Next]_<<accepted, acceptedTxs, done>>

=============================================================================
