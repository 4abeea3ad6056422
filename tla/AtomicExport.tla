---------------------------- MODULE AtomicExport ----------------------------
(***************************************************************************)
(* Cross-chain hand-off of an asset: the AVM's ExportTx                    *)
(* (src/unnamed/part_001, lines 22-125) on chain XChainID, the shared      *)
(* memory it puts the exported UTXOs in, and the importing chain           *)
(* DestChainID that consumes them.  A wallet issues transactions, which    *)
(* consensus later decides one at a time: a tx passing SemanticVerify      *)
(* against the UTXO set of that moment is accepted, any other is rejected. *)
(* ExecuteWithSideEffects hands its elements to SharedMemory.Put together  *)
(* with the accepting batch, so acceptance is one atomic step.             *)
(*                                                                         *)
(* Not under src/ and modelled from spec.md: djtx.VerifyTx and             *)
(* BaseTx.SemanticVerify (4.3), the accept path (4.6 phase 3) and the      *)
(* import side (4.7).  The inputs are a list of UTXO IDs (txID, index),  *)
(* checked by UTXOID.Verify and IsSortedAndUniqueUTXOIDs                   *)
(* (src/unnamed/part_002); the flow check sums the list as given, so a     *)
(* UTXO listed twice counts twice there.                                   *)
(***************************************************************************)
EXTENDS Integers, Sequences, SequencesExt, FiniteSets, FiniteSetsExt

CONSTANTS
    XChainID,        \* the exporting AVM chain
    DestChainID,     \* a chain of the same subnet that imports DJTX
    OtherChainID,    \* a chain of another subnet
    ZeroID,          \* ids.Empty, as a chain ID
    ZeroTxID,        \* ids.Empty, as a tx ID
    Subnet,          \* SNLookup: Subnet[c] for the chains it knows
    DJTX, OtherAsset,
    TxFee,
    Genesis,         \* Genesis[u]: [asset, amt] of genesis UTXO u
    ExportChoices,   \* ExportedOuts a wallet may ask for
    OutChoices,      \* Outs (the change) a wallet may ask for
    MaxTxs           \* bound on the transactions issued

Assets == {DJTX, OtherAsset}
ChainIDs == {XChainID, DestChainID, OtherChainID, ZeroID}

VARIABLES
    utxos,        \* utxos[u]: the UTXO u of the exporting chain, [asset, amt]
    shared,       \* the elements in shared memory: [chain, key, asset, amt]
    destUTXOs,    \* destUTXOs[u]: the DJTX amount of UTXO u of the importing chain
    processing,   \* export txs issued and not decided
    imports,      \* import txs issued on the importing chain and not decided
    burned,       \* burned[a]: what decided txs consumed and did not produce
    nextTx,       \* txs issued so far; the next tx's ID
    produced,     \* ghost: the UTXO IDs of every output ever produced
    nProduced     \* ghost: how many outputs were produced

vars == <<utxos, shared, destUTXOs, processing, imports, burned, nextTx,
          produced, nProduced>>

SumSeqOf(s) == FoldSeq(LAMBDA x, acc : x + acc, 0, s)
\* The amount of asset a in a sequence of [asset, amt] outputs.
AmountOf(outs, a) ==
    SumSeqOf([k \in DOMAIN outs |-> IF outs[k].asset = a THEN outs[k].amt ELSE 0])
\* The amount of asset a in UTXOs us of m.
Held(m, us, a) == MapThenSumSet(LAMBDA u : IF m[u].asset = a THEN m[u].amt ELSE 0, us)
\* The amount of asset a the input list ins spends, one term per entry;
\* an input naming no UTXO of m carries nothing.
InAmount(m, ins, a) ==
    SumSeqOf([k \in DOMAIN ins |->
                IF ins[k] \in DOMAIN m /\ m[ins[k]].asset = a THEN m[ins[k]].amt ELSE 0])

\* innerSortUTXOIDs.Less: by tx ID (its bytes), then by output index.
UTXOIDLess(u, v) == u[1] < v[1] \/ (u[1] = v[1] /\ u[2] < v[2])

\* Bug variant of IsSortedAndUniqueUTXOIDs: sorted, equal neighbours allowed.
IsSortedUTXOIDs(us) ==
    \A k \in 1 .. Len(us) - 1 : UTXOIDLess(us[k], us[k + 1]) \/ us[k] = us[k + 1]

\* IsSortedAndUniqueUTXOIDs: utils.IsSortedAndUnique, each element Less
\* than the next.
IsSortedAndUniqueUTXOIDs(us) == \A k \in 1 .. Len(us) - 1 : UTXOIDLess(us[k], us[k + 1])

\* UTXOID.Verify: the tx ID is not empty.
UTXOIDVerify(u) == u[1] # ZeroTxID

-----------------------------------------------------------------------------
\* Bug variant of VerifyTx: the exported outputs are left out of the flow.
VerifyTxNoExported(tx) ==
    /\ \A k \in DOMAIN tx.ins : UTXOIDVerify(tx.ins[k])
    /\ IsSortedAndUniqueUTXOIDs(tx.ins)
    /\ \A a \in Assets :
        InAmount(utxos, tx.ins, a) >= AmountOf(tx.outs, a) + (IF a = DJTX THEN TxFee ELSE 0)

\* djtx.VerifyTx: every input verifies (its UTXOID among them), the
\* inputs are sorted and unique, and per asset the inputs cover the
\* outputs, the exported outputs and, in the fee asset, the fee.
VerifyTx(tx) ==
    /\ \A k \in DOMAIN tx.ins : UTXOIDVerify(tx.ins[k])
    /\ IsSortedAndUniqueUTXOIDs(tx.ins)
    /\ \A a \in Assets :
        InAmount(utxos, tx.ins, a) >=
            AmountOf(tx.outs, a) + AmountOf(tx.exported, a) + (IF a = DJTX THEN TxFee ELSE 0)

\* ExportTx.SyntacticVerify: a non-empty destination, at least one
\* exported output, then the flow check over Outs and ExportedOuts.
SyntacticVerify(tx) ==
    /\ tx.dest # ZeroID
    /\ Len(tx.exported) > 0
    /\ VerifyTx(tx)

\* BaseTx.SemanticVerify: every input is an unspent UTXO (credentials are
\* the wallet's own and verify).
BaseSemanticVerify(tx) == ToSet(tx.ins) \subseteq DOMAIN utxos

\* Bug variant of SemanticVerify: the destination is not checked.
SemanticVerifyNoChainCheck(tx) ==
    /\ \A k \in DOMAIN tx.exported : tx.exported[k].asset = DJTX
    /\ BaseSemanticVerify(tx)

\* ExportTx.SemanticVerify: SNLookup knows the destination, it is on this
\* chain's subnet and is not this chain; every exported output is DJTX (the
\* fx checks hold for secp256k1 outputs); then BaseTx.SemanticVerify.
SemanticVerify(tx) ==
    /\ tx.dest \in DOMAIN Subnet
    /\ Subnet[tx.dest] = Subnet[XChainID]
    /\ tx.dest # XChainID
    /\ \A k \in DOMAIN tx.exported : tx.exported[k].asset = DJTX
    /\ BaseSemanticVerify(tx)

\* Bug variant of ExportedElems: the exported outputs are numbered from 0.
ExportedElemsNoOffset(tx) ==
    {[chain |-> tx.dest, key |-> <<tx.id, i - 1>>,
      asset |-> tx.exported[i].asset, amt |-> tx.exported[i].amt] :
        i \in DOMAIN tx.exported}

\* ExecuteWithSideEffects: exported output i becomes the UTXO
\* (txID, len(Outs) + i), keyed by its input ID in the destination's
\* shared memory.
ExportedElems(tx) ==
    {[chain |-> tx.dest, key |-> <<tx.id, Len(tx.outs) + i - 1>>,
      asset |-> tx.exported[i].asset, amt |-> tx.exported[i].amt] :
        i \in DOMAIN tx.exported}

\* The UTXOs tx.Outs produce: (txID, k) for k in 0..len(Outs)-1.
OutUTXOs(tx) == [u \in {<<tx.id, k - 1>> : k \in DOMAIN tx.outs} |-> tx.outs[u[2] + 1]]

-----------------------------------------------------------------------------
\* A wallet issues an export: SyntacticVerify runs when the tx is parsed,
\* and a failing tx is refused.
IssueExport(ins, dest, exported, outs) ==
    /\ nextTx < MaxTxs
    /\ LET tx == [id |-> nextTx + 1, ins |-> ins, dest |-> dest,
                  exported |-> exported, outs |-> outs]
       IN  processing' = IF SyntacticVerify(tx) THEN processing \cup {tx}
                                                ELSE processing
    /\ nextTx' = nextTx + 1
    /\ UNCHANGED <<utxos, shared, destUTXOs, imports, burned, produced,
                   nProduced>>

\* Consensus decides an export.  Accepted: in one batch the inputs are
\* spent, the Outs produced, and the exported UTXOs put in shared memory.
\* A tx failing SemanticVerify is rejected.
DecideExport(tx) ==
    /\ tx \in processing
    /\ processing' = processing \ {tx}
    /\ IF SemanticVerify(tx)
       THEN LET elems == ExportedElems(tx)
                outs == OutUTXOs(tx)
            IN  /\ utxos' = [u \in (DOMAIN utxos \ ToSet(tx.ins)) \cup DOMAIN outs |->
                               IF u \in DOMAIN outs THEN outs[u] ELSE utxos[u]]
                /\ shared' = shared \cup elems
                /\ burned' = [a \in Assets |-> burned[a] + InAmount(utxos, tx.ins, a)
                                 - AmountOf(tx.outs, a) - AmountOf(tx.exported, a)]
                /\ produced' = produced \cup DOMAIN outs \cup {e.key : e \in elems}
                /\ nProduced' = nProduced + Len(tx.outs) + Len(tx.exported)
       ELSE UNCHANGED <<utxos, shared, burned, produced, nProduced>>
    /\ UNCHANGED <<destUTXOs, imports, nextTx>>

\* The keys of the DJTX elements shared memory holds for the importing chain.
Importable == {e.key : e \in {e \in shared : e.chain = DestChainID /\ e.asset = DJTX}}
Element(key) == CHOOSE e \in shared : e.chain = DestChainID /\ e.key = key

\* The importing chain issues an import of some of the elements it sees,
\* paying the fee from them; verification at issue reads shared memory.
IssueImport(keys) ==
    /\ nextTx < MaxTxs
    /\ keys # {}
    /\ MapThenSumSet(LAMBDA k : Element(k).amt, keys) > TxFee
    /\ imports' = imports \cup {[id |-> nextTx + 1, keys |-> keys,
                                 amt |-> MapThenSumSet(LAMBDA k : Element(k).amt, keys) - TxFee]}
    /\ nextTx' = nextTx + 1
    /\ UNCHANGED <<utxos, shared, destUTXOs, processing, burned, produced,
                   nProduced>>

\* The importing chain decides an import: accepted when every element is
\* still in shared memory, which it removes atomically with the batch that
\* produces the imported UTXO; rejected otherwise.
DecideImport(imp) ==
    /\ imp \in imports
    /\ imports' = imports \ {imp}
    /\ IF imp.keys \subseteq Importable
       THEN /\ shared' = {e \in shared : ~(e.chain = DestChainID /\ e.key \in imp.keys)}
            /\ destUTXOs' = destUTXOs @@ (<<imp.id, 0>> :> imp.amt)
            /\ burned' = [burned EXCEPT ![DJTX] = @ + TxFee]
            /\ produced' = produced \cup {<<imp.id, 0>>}
            /\ nProduced' = nProduced + 1
       ELSE UNCHANGED <<shared, destUTXOs, burned, produced, nProduced>>
    /\ UNCHANGED <<utxos, processing, nextTx>>

\* Input lists a wallet may send: one or two UTXO IDs, each an unspent
\* UTXO or one with the empty tx ID, in any order, repeats included.
InputLists ==
    LET us == DOMAIN utxos \cup {<<ZeroTxID, 0>>}
    IN  {<<u>> : u \in us} \cup {<<u, v>> : u, v \in us}

Init ==
    /\ utxos = Genesis
    /\ shared = {}
    /\ destUTXOs = <<>>
    /\ processing = {}
    /\ imports = {}
    /\ burned = [a \in Assets |-> 0]
    /\ nextTx = 0
    /\ produced = DOMAIN Genesis
    /\ nProduced = Cardinality(DOMAIN Genesis)

Next ==
    \/ \E ins \in InputLists, dest \in ChainIDs,
          exported \in ExportChoices, outs \in OutChoices :
          IssueExport(ins, dest, exported, outs)
    \/ \E tx \in processing : DecideExport(tx)
    \/ \E keys \in SUBSET Importable : IssueImport(keys)
    \/ \E imp \in imports : DecideImport(imp)

Spec == Init /\ [][Next]_vars

-----------------------------------------------------------------------------
\* No value is created or stranded: for every asset, the exporting chain's
\* UTXOs, the elements the importing chain can still import, its own UTXOs
\* and the burned fees and excess add up to the genesis supply.  An export
\* accepted toward a chain that cannot import it (this chain itself,
\* another subnet, a non-DJTX asset) would leave its value in shared
\* memory for good.  And no tx produces more than it consumes: what the
\* decided txs burned is never negative, in any asset.
ValueConserved ==
    \A a \in Assets :
      /\ burned[a] >= 0
      /\ Held(utxos, DOMAIN utxos, a)
          + MapThenSumSet(LAMBDA e : IF e.asset = a /\ e.key \in Importable THEN e.amt ELSE 0,
                          {e \in shared : e.chain = DestChainID})
          + (IF a = DJTX THEN MapThenSumSet(LAMBDA u : destUTXOs[u], DOMAIN destUTXOs) ELSE 0)
          + burned[a]
        = Held(Genesis, DOMAIN Genesis, a)

\* A UTXO ID names one output: the outputs of every accepted tx, kept on
\* the chain or exported through shared memory, and every imported UTXO
\* get IDs no other output ever had.
OutputIDsUnique == Cardinality(produced) = nProduced


=============================================================================
