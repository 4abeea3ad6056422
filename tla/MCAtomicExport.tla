--------------------------- MODULE MCAtomicExport ---------------------------
(* The cross-chain export for TLC: two genesis UTXOs, one of each asset,   *)
(* and exports of one or two DJTX or of the other asset.  Issued txs get *)
(* IDs 1 .. MaxTxs, the genesis tx 9 and ids.Empty 0.                     *)
EXTENDS AtomicExport

CONSTANTS cx, cp, co, c0, djtx, other, primary, subnet2

MCSubnet == (cx :> primary) @@ (cp :> primary) @@ (co :> subnet2)

MCGenesis == (<<9, 0>> :> [asset |-> djtx, amt |-> 4])
          @@ (<<9, 1>> :> [asset |-> other, amt |-> 2])

MCExportChoices ==
    {<<>>, <<[asset |-> djtx, amt |-> 2]>>, <<[asset |-> other, amt |-> 1]>>,
     <<[asset |-> djtx, amt |-> 1], [asset |-> djtx, amt |-> 2]>>}

MCOutChoices == {<<>>, <<[asset |-> djtx, amt |-> 1]>>}
=============================================================================
