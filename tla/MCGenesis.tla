------------------------------ MODULE MCGenesis ------------------------------
(* Genesis for TLC.  API calls: the DJTX asset as FromConfig builds it       *)
(* (holders and minters, so both state types feed one InitialState), a      *)
(* second asset, an asset without initial state, arguments with a bad       *)
(* minter address or an unknown state type, and four assets with two of     *)
(* both state types.  FromConfig calls: three stakers over two funded        *)
(* addresses (the round robin wraps), stakers without funded addresses,     *)
(* a funded address Bech32 parsing rejects, and an empty configuration.     *)
EXTENDS Genesis

CONSTANTS bad, none, noconfig, s1, s2, s3

DJTXState ==
    [fixedCap |-> <<[addr |-> 2, amt |-> 5], [addr |-> 1, amt |-> 5]>>,
     variableCap |-> <<<<3, 1>>>>]
OtherState == [fixedCap |-> <<[addr |-> 1, amt |-> 3], [addr |-> 1, amt |-> 3]>>]

MCApiArgs ==
    { ("DJTX" :> DJTXState) @@ ("GOLD" :> OtherState) @@ ("NFT" :> <<>>),
      ("DJTX" :> [DJTXState EXCEPT !.variableCap = <<<<3, bad>>>>]) @@ ("GOLD" :> OtherState),
      ("DJTX" :> DJTXState) @@ ("GOLD" :> [cappedCap |-> <<>>]),
      ("DJTX" :> DJTXState) @@ ("GOLD" :> OtherState) @@ ("NFT" :> <<>>)
        @@ ("SILVER" :> [variableCap |-> <<<<2>>, <<3, 1>>>>,
                         fixedCap |-> <<[addr |-> 3, amt |-> 1]>>]) }

MCConfigs ==
    { [funded |-> <<2, 1>>, mint |-> <<3, 1>>, stakers |-> <<s1, s2, s3>>],
      [funded |-> <<>>, mint |-> <<3>>, stakers |-> <<s1>>],
      [funded |-> <<1, bad>>, mint |-> <<>>, stakers |-> <<>>],
      [funded |-> <<>>, mint |-> <<>>, stakers |-> <<>>] }

MCAliasOrder == ("DJTX" :> 1) @@ ("GOLD" :> 2) @@ ("NFT" :> 3) @@ ("SILVER" :> 4)
=============================================================================
