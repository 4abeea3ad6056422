---------------------------- MODULE BuildGenesis ----------------------------
(***************************************************************************)
(* avm.StaticService.BuildGenesis (src/unnamed/part_001, lines 171-289).   *)
(* It ranges over two Go maps, the assets of GenesisData and the state     *)
(* types of each asset's InitialState, in an order the runtime picks at    *)
(* random on every run, appends what it builds, and sorts.  Every node     *)
(* builds the X-chain genesis this way and must get the same bytes.  One  *)
(* step handles one map entry: the order is a nondeterministic choice, the *)
(* loops over slices run in slice order within the step.                   *)
(*                                                                         *)
(* Data: an address is a ShortID (a number) or a string Bech32 parsing     *)
(* rejects (BadAddr); an output is kept as its codec encoding, a sequence  *)
(* of numbers whose order is the byte order initialState.Sort uses.        *)
(* Genesis.Sort (ordering the assets by alias) is not under src/.          *)
(***************************************************************************)
EXTENDS Integers, Sequences, SequencesExt, FiniteSets, TLC

CONSTANTS
    Args,        \* the BuildGenesisArgs a caller may pass: alias -> InitialState
    AliasOrder,  \* AliasOrder[a]: the rank of alias a in string order
    BadAddr,     \* an address string ParseBech32 rejects
    NoResult

\* Codec type IDs, in the order BuildGenesis registers the types.
MintOutputID == 6
TransferOutputID == 7

VARIABLES
    args,      \* the argument of this call
    pending,   \* assets not yet visited by the range loop
    cur,       \* the asset being built, or NoResult between assets
    types,     \* state types of cur's InitialState not yet visited
    outs,      \* initialState.Outs of cur, as appended so far
    txs,       \* g.Txs, as appended so far
    result     \* the reply, NoResult while running: [ok, g.Txs] or Failed

vars == <<args, pending, cur, types, outs, txs, result>>

\* Lexicographic byte order on encodings.
RECURSIVE BytesLess(_, _)
BytesLess(x, y) ==
    IF x = <<>> THEN y # <<>>
    ELSE IF y = <<>> THEN FALSE
    ELSE IF Head(x) # Head(y) THEN Head(x) < Head(y)
    ELSE BytesLess(Tail(x), Tail(y))

\* secp256k1fx.TransferOutput{Amt, locktime 0, threshold 1, [addr]}.
TransferOut(h) == <<TransferOutputID, h.amt, 0, 1, 1, h.addr>>
\* secp256k1fx.MintOutput{locktime 0, threshold 1, addrs} after out.Sort().
MintOut(minters) ==
    <<MintOutputID, 0, 1, Len(minters)>> \o SortSeq(minters, LAMBDA p, q : p < q)

Failed == [ok |-> FALSE, outs |-> <<>>]

\* One state type of the InitialState: its outputs, or Failed for an
\* address Bech32 parsing rejects or an unknown type.
StatesOuts(ty, sts) ==
    CASE ty = "fixedCap" ->
            IF \E i \in DOMAIN sts : sts[i].addr = BadAddr THEN Failed
            ELSE [ok |-> TRUE, outs |-> [i \in DOMAIN sts |-> TransferOut(sts[i])]]
      [] ty = "variableCap" ->
            IF \E i \in DOMAIN sts : \E j \in DOMAIN sts[i] : sts[i][j] = BadAddr THEN Failed
            ELSE [ok |-> TRUE, outs |-> [i \in DOMAIN sts |-> MintOut(sts[i])]]
      [] OTHER -> Failed

\* Bug variant of SortOuts: initialState.Sort(c) is left out.
SortOutsMissing(o) == o
\* initialState.Sort(c): the outputs in byte order.
SortOuts(o) == SortSeq(o, BytesLess)

\* Genesis.Sort: the assets in alias order.
SortTxs(t) == SortSeq(t, LAMBDA p, q : AliasOrder[p.alias] < AliasOrder[q.alias])

-----------------------------------------------------------------------------
Init ==
    /\ args \in Args
    /\ pending = DOMAIN args
    /\ cur = NoResult /\ types = {} /\ outs = <<>> /\ txs = <<>>
    /\ result = NoResult

\* The range over GenesisData picks an asset.  One without initial state
\* becomes a tx with no States at once.
NextAsset(a) ==
    /\ result = NoResult /\ cur = NoResult
    /\ a \in pending
    /\ pending' = pending \ {a}
    /\ IF DOMAIN args[a] = {}
       THEN /\ txs' = Append(txs, [alias |-> a, states |-> <<>>])
            /\ UNCHANGED <<cur, types, outs>>
       ELSE /\ cur' = a /\ types' = DOMAIN args[a] /\ outs' = <<>>
            /\ UNCHANGED txs
    /\ UNCHANGED <<args, result>>

\* The range over the asset's InitialState picks a state type; its slice
\* is appended to initialState.Outs, or BuildGenesis returns an error.
NextType(ty) ==
    /\ result = NoResult /\ cur # NoResult
    /\ ty \in types
    /\ LET o == StatesOuts(ty, args[cur][ty])
       IN  IF ~o.ok
           THEN result' = Failed /\ UNCHANGED <<types, outs>>
           ELSE /\ types' = types \ {ty}
                /\ outs' = outs \o o.outs
                /\ UNCHANGED result
    /\ UNCHANGED <<args, pending, cur, txs>>

\* initialState.Sort(c); asset.States = [initialState]; asset.Sort();
\* g.Txs = append(g.Txs, &asset).
FinishAsset ==
    /\ result = NoResult /\ cur # NoResult
    /\ types = {}
    /\ txs' = Append(txs, [alias |-> cur, states |-> <<SortOuts(outs)>>])
    /\ cur' = NoResult /\ outs' = <<>>
    /\ UNCHANGED <<args, pending, types, result>>

\* g.Sort(), then the genesis is marshalled into the reply.
Finish ==
    /\ result = NoResult /\ cur = NoResult
    /\ pending = {}
    /\ result' = [ok |-> TRUE, txs |-> SortTxs(txs)]
    /\ UNCHANGED <<args, pending, cur, types, outs, txs>>

Next ==
    \/ \E a \in pending : NextAsset(a)
    \/ \E ty \in types : NextType(ty)
    \/ FinishAsset
    \/ Finish

Spec == Init /\ [][Next]_vars

-----------------------------------------------------------------------------
\* The reference: the reply when both maps are ranged over in one fixed
\* order (aliases in string order, then the state types in a fixed order).
StateTypes(init) == SetToSortSeq(DOMAIN init, LAMBDA p, q : p = "fixedCap" /\ q # "fixedCap")
OutsOf(init) ==
    LET os == [i \in DOMAIN StateTypes(init) |-> StatesOuts(StateTypes(init)[i], init[StateTypes(init)[i]])]
    IN  IF \E i \in DOMAIN os : ~os[i].ok THEN Failed
        ELSE [ok |-> TRUE, outs |-> FlattenSeq([i \in DOMAIN os |-> os[i].outs])]
Reference(g) ==
    IF \E a \in DOMAIN g : ~OutsOf(g[a]).ok THEN Failed
    ELSE LET as == SetToSortSeq(DOMAIN g, LAMBDA p, q : AliasOrder[p] < AliasOrder[q])
         IN  [ok |-> TRUE,
              txs |-> [i \in DOMAIN as |->
                         [alias |-> as[i],
                          states |-> IF DOMAIN g[as[i]] = {} THEN <<>>
                                     ELSE <<SortSeq(OutsOf(g[as[i]]).outs, BytesLess)>>]]]

\* The genesis does not depend on map iteration order: whatever order the
\* runtime ranges over the assets and their state types, BuildGenesis
\* returns the same genesis, or an error exactly when some entry is bad.
OrderIndependent == result # NoResult => result = Reference(args)

=============================================================================
