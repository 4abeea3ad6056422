---------------------------- MODULE AddDelegatorTx ----------------------------
(***************************************************************************)
(* Delegation on the platform chain: UnsignedAddDelegatorTx                *)
(* (src/vms/platformvm/add_delegator_tx.go).  A wallet builds the tx with   *)
(* newAddDelegatorTx; SemanticVerify turns it into a proposal with two     *)
(* outcomes, onCommit (the delegator is enqueued as a pending staker and   *)
(* only the unlocked outputs are produced) and onAbort (the stake comes    *)
(* back as outputs); the proposal is then committed or aborted.            *)
(*                                                                         *)
(* Amounts are scaled to Width-bit words, so safemath.Add64 overflows at   *)
(* 2^Width.  A UTXO is identified by the tx that produced it and its       *)
(* output index.  The parts of the VM not in this file (vm.stake,          *)
(* semanticVerifySpend, Validator.BoundedBy, the advance-time tx) are      *)
(* modelled from spec.md 4.3.                                              *)
(***************************************************************************)
EXTENDS Integers, Sequences, SequencesExt, FiniteSets, FiniteSetsExt

CONSTANTS
    Width,           \* bits of a scaled uint64
    Genesis,         \* Genesis[u]: the amount of genesis UTXO u
    TxFee,           \* vm.txFee
    MinStake,        \* vm.minStake
    Nodes,           \* node IDs
    CurrentWindow,   \* CurrentWindow[n]: the current validator's [start, end]
    PendingWindow,   \*   and the pending one's, or NoWindow
    NoWindow,
    StakeAmounts,    \* stake amounts a wallet asks for
    Times,           \* start and end times a wallet asks for
    MaxTime,         \* bound on the chain timestamp
    MaxTxs,          \* bound on the transactions built
    Received,        \* transactions gossiped to this node, as built by others
    NoProposal

Word == 2^Width

VARIABLES
    utxos,       \* utxos[u]: the amount of unspent output u (DOMAIN = the UTXO set)
    timestamp,   \* the chain timestamp
    stakers,     \* the delegators enqueued by committed proposals
    issued,      \* built transactions not yet proposed
    proposal,    \* the proposal being decided, or NoProposal
    burned,      \* value consumed by decided transactions and not produced again
    nextTx       \* transactions built so far (the next one's txID)

vars == <<utxos, timestamp, stakers, issued, proposal, burned, nextTx>>

SumSeqOf(s) == FoldSeq(LAMBDA x, acc : x + acc, 0, s)
SumUTXOs(m, us) == MapThenSumSet(LAMBDA u : m[u], us)

\* safemath.Add64: the sum, or -1 for errOverflow.
Add64(a, b) == IF a + b >= Word THEN -1 ELSE a + b

\* The stake loop: the total, or -1 when an addition overflows.
RECURSIVE StakeWeight(_, _)
StakeWeight(s, total) ==
    IF s = <<>> \/ total < 0 THEN total
    ELSE StakeWeight(Tail(s), Add64(total, Head(s)))

\* Validator.BoundedBy(start, end).
BoundedBy(tx, w) == w # NoWindow /\ w[1] <= tx.start /\ tx.end <= w[2]

-----------------------------------------------------------------------------
\* Verify: the syntactic checks.  BaseTx.Verify, verify.All and out.Verify
\* hold for what newAddDelegatorTx builds and what is kept of the outputs
\* is their amounts; a single stake output is sorted.  A successful result
\* is cached in syntacticallyVerified and the tx never changes, so a second
\* call returns the same answer.
VerifyNoWeightCheck(tx) ==
    /\ StakeWeight(tx.stake, 0) >= 0
    /\ tx.wght >= MinStake
Verify(tx) ==
    /\ StakeWeight(tx.stake, 0) >= 0
    /\ StakeWeight(tx.stake, 0) = tx.wght
    /\ tx.wght >= MinStake

\* semanticVerifySpend: every input is unspent and pays for the outputs,
\* the stake and the fee.
SpendOK(tx, outs) ==
    /\ tx.ins \subseteq DOMAIN utxos
    /\ SumUTXOs(utxos, tx.ins) >= SumSeqOf(outs) + TxFee

\* The UTXO set after consuming the inputs and producing outputs outs of
\* transaction id.
Produce(id, outs) ==
    [u \in DOMAIN utxos \cup {<<id, k>> : k \in DOMAIN outs} |->
        IF u \in DOMAIN utxos THEN utxos[u] ELSE outs[u[2]]]
Apply(tx, outs) ==
    LET after == Produce(tx.id, outs)
    IN  [u \in DOMAIN after \ tx.ins |-> after[u]]

\* The delegation period lies within the period of the node's current
\* validator or, if it has none, of its pending one.
WithinValidator(tx) ==
    IF CurrentWindow[tx.node] # NoWindow
        THEN BoundedBy(tx, CurrentWindow[tx.node])
        ELSE BoundedBy(tx, PendingWindow[tx.node])

\* Bug variant of OnCommit: the stake outputs are produced on commit too.
OnCommitAllOuts(tx) == Apply(tx, tx.outs \o tx.stake)
\* The onCommit state: inputs consumed, only tx.Outs produced.
OnCommit(tx) == Apply(tx, tx.outs)
\* The onAbort state: inputs consumed, tx.Outs then tx.Stake produced.
OnAbort(tx) == Apply(tx, tx.outs \o tx.stake)

\* Bug variant of SemanticVerify: the spend check covers tx.Outs only, the
\* stake outputs not copied into outs.
SemanticVerifyNoStakeSpend(tx) ==
    /\ proposal = NoProposal
    /\ tx \in issued
    /\ issued' = issued \ {tx}
    /\ IF /\ Verify(tx)
          /\ timestamp < tx.start
          /\ WithinValidator(tx)
          /\ SpendOK(tx, tx.outs)
       THEN proposal' = [tx |-> tx, commit |-> OnCommit(tx), abort |-> OnAbort(tx)]
       ELSE UNCHANGED proposal
    /\ UNCHANGED <<utxos, timestamp, stakers, burned, nextTx>>

\* SemanticVerify: permError on a failed Verify, a start not after the
\* chain timestamp, a period outside the validator's, or a failed spend;
\* otherwise the proposal with both outcomes.
SemanticVerify(tx) ==
    /\ proposal = NoProposal
    /\ tx \in issued
    /\ issued' = issued \ {tx}
    /\ IF /\ Verify(tx)
          /\ timestamp < tx.start
          /\ WithinValidator(tx)
          /\ SpendOK(tx, tx.outs \o tx.stake)
       THEN proposal' = [tx |-> tx, commit |-> OnCommit(tx), abort |-> OnAbort(tx)]
       ELSE UNCHANGED proposal
    /\ UNCHANGED <<utxos, timestamp, stakers, burned, nextTx>>

\* What the decided transaction pays beyond its outputs and stake (the
\* fee, or more): it leaves the UTXO set for good.
Excess(tx) == SumUTXOs(utxos, tx.ins) - SumSeqOf(tx.outs \o tx.stake)

\* The proposal is committed: the onCommit state becomes the chain's and
\* the delegator is a pending staker holding its stake.
Commit ==
    /\ proposal # NoProposal
    /\ utxos' = proposal.commit
    /\ stakers' = stakers \cup {proposal.tx}
    /\ burned' = burned + Excess(proposal.tx)
    /\ proposal' = NoProposal
    /\ UNCHANGED <<timestamp, issued, nextTx>>

\* The proposal is aborted: the onAbort state becomes the chain's.
Abort ==
    /\ proposal # NoProposal
    /\ utxos' = proposal.abort
    /\ burned' = burned + Excess(proposal.tx)
    /\ proposal' = NoProposal
    /\ UNCHANGED <<timestamp, stakers, issued, nextTx>>

\* vm.stake: UTXOs of the wallet enough for the stake and the fee, none of
\* them superfluous; the change goes to an unlocked output, the stake to
\* one locked output.
StakeInputs(amt) ==
    {ins \in SUBSET DOMAIN utxos :
        /\ SumUTXOs(utxos, ins) >= amt + TxFee
        /\ \A u \in ins : SumUTXOs(utxos, ins \ {u}) < amt + TxFee}

\* newAddDelegatorTx: the inputs and outputs from vm.stake, the validator
\* fields from the arguments, Wght = stakeAmt; the tx is issued when the
\* final Verify returns nil, and nothing is built when vm.stake fails.
NewAddDelegatorTx(stakeAmt, start, end, node) ==
    /\ nextTx < MaxTxs
    /\ \/ StakeInputs(stakeAmt) = {} /\ UNCHANGED issued
       \/ \E ins \in StakeInputs(stakeAmt) :
           LET change == SumUTXOs(utxos, ins) - stakeAmt - TxFee
               tx == [id |-> nextTx + 1, ins |-> ins,
                      outs |-> IF change > 0 THEN <<change>> ELSE <<>>,
                      stake |-> <<stakeAmt>>, node |-> node,
                      start |-> start, end |-> end, wght |-> stakeAmt]
           IN  issued' = IF Verify(tx) THEN issued \cup {tx} ELSE issued
    /\ nextTx' = nextTx + 1
    /\ UNCHANGED <<utxos, timestamp, stakers, proposal, burned>>

\* An advance-time proposal moves the chain timestamp forward.
AdvanceTime(t) ==
    /\ proposal = NoProposal
    /\ timestamp < t /\ t <= MaxTime
    /\ timestamp' = t
    /\ UNCHANGED <<utxos, stakers, issued, proposal, burned, nextTx>>

Init ==
    /\ utxos = [u \in DOMAIN Genesis |-> Genesis[u]]
    /\ timestamp = 0
    /\ stakers = {}
    /\ issued = Received
    /\ proposal = NoProposal
    /\ burned = 0
    /\ nextTx = 0

Next ==
    \/ \E a \in StakeAmounts, s, e \in Times, n \in Nodes :
          s < e /\ NewAddDelegatorTx(a, s, e, n)
    \/ \E tx \in issued : SemanticVerify(tx)
    \/ Commit
    \/ Abort
    \/ \E t \in Times : AdvanceTime(t)

Spec == Init /\ [][Next]_vars

-----------------------------------------------------------------------------
\* No value is created or lost: the unspent outputs, the stake held by
\* enqueued delegators and the fees paid always add up to the genesis
\* supply, whichever proposals were committed or aborted and whatever
\* conflicting transactions were built or received from the same UTXOs;
\* and what decided transactions burned is never negative, so no
\* transaction produced (as outputs or stake) more than it consumed.
ValueConserved ==
    /\ SumUTXOs(utxos, DOMAIN utxos)
         + MapThenSumSet(LAMBDA tx : SumSeqOf(tx.stake), stakers) + burned
         = SumUTXOs(Genesis, DOMAIN Genesis)
    /\ burned >= 0

=============================================================================
