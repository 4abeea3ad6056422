------------------------------- MODULE Genesis -------------------------------
(***************************************************************************)
(* genesis.FromConfig (src/genesis/genesis.go, lines 43-173) and the avm   *)
(* StaticService.BuildGenesis it calls, composed.  FromConfig builds the  *)
(* one DJTX asset from the configured addresses, counting 5 MegaDjtx of   *)
(* initial supply per funded address, and has BuildGenesis (the module     *)
(* BuildGenesis, instantiated here) make the X-chain genesis.  It then    *)
(* reads the DJTX asset from that genesis, gives each funded address a     *)
(* P-chain UTXO and each staker a validator of 20 KiloDjtx whose reward    *)
(* goes to a funded address chosen round robin, and sets the supply.       *)
(*                                                                         *)
(* BuildGenesis is also an API of its own: a call may come from FromConfig *)
(* (config names the configuration) or straight from a client (config is  *)
(* NoConfig).  config.init, and platformvm's BuildGenesis, which only     *)
(* encodes what FromConfig hands it, are not under src/.  Amounts are      *)
(* scaled: FundAmount stands for 5 MegaDjtx and StakeWeight for 20        *)
(* KiloDjtx; the uint64 sum cannot wrap before thousands of addresses.     *)
(***************************************************************************)
EXTENDS Integers, Sequences, SequencesExt

CONSTANTS
    Configs,      \* Config values: [funded, mint: address seqs, stakers: node seq]
    ApiArgs,      \* BuildGenesisArgs a client may pass to the API directly
    AliasOrder,   \* as in BuildGenesis
    BadAddr,      \* an address string ParseBech32 rejects
    NoResult,
    NoConfig,     \* config of an API call that does not come from FromConfig
    FundAmount,   \* 5 * units.MegaDjtx
    StakeWeight   \* 20 * units.KiloDjtx

VARIABLES
    config,       \* the configuration FromConfig was called with, or NoConfig
    supply,       \* initialSupply
    args, pending, cur, types, outs, txs, result,   \* BuildGenesis's call
    pgenesis      \* what FromConfig returns, NoResult while running

bgVars == <<args, pending, cur, types, outs, txs, result>>
vars == <<config, supply, pgenesis, bgVars>>

\* The avm.BuildGenesisArgs FromConfig builds (lines 52-79): a variableCap
\* entry with all minters when there are any, a fixedCap holder of
\* FundAmount per funded address when there are any.
AvmArgs(c) ==
    "DJTX" :> ((IF c.mint = <<>> THEN <<>> ELSE "variableCap" :> <<c.mint>>)
               @@ (IF c.funded = <<>> THEN <<>>
                   ELSE "fixedCap" :> [i \in DOMAIN c.funded |->
                                         [addr |-> c.funded[i], amt |-> FundAmount]]))

BG == INSTANCE BuildGenesis WITH Args <- ApiArgs \cup {AvmArgs(c) : c \in Configs}

\* initialSupply += 5 * units.MegaDjtx for each funded address (lines 65-71).
AvmSupply(c) == Len(c.funded) * FundAmount

\* Bug variant of PlatformSupply: the validators' stake is not counted.
PlatformSupplyNoStake(c) == Len(c.funded) * FundAmount

\* The P-chain UTXOs and the validators each add to initialSupply
\* (lines 106-115 and 120-141).
PlatformSupply(c) == Len(c.funded) * FundAmount + Len(c.stakers) * StakeWeight

\* FromConfig's return: the P-chain genesis arguments, or an error.
Reply(ok, panic, djtx, utxos, validators, sup) ==
    [ok |-> ok, panic |-> panic, djtx |-> djtx, utxos |-> utxos,
     validators |-> validators, supply |-> sup]
ErrorReply(panic) == Reply(FALSE, panic, NoResult, <<>>, <<>>, 0)

\* DJTXAssetID (lines 203-247): the asset of the first genesis tx; an error
\* when the genesis creates none.
DJTXAssetID(gtxs) == IF gtxs = <<>> THEN NoResult ELSE gtxs[1].alias

-----------------------------------------------------------------------------
\* FromConfig up to its BuildGenesis call, or a client's API call.
Init ==
    /\ \/ /\ config = NoConfig
          /\ BG!Init
          /\ args \in ApiArgs
          /\ supply = 0
       \/ \E c \in Configs :
          /\ config = c
          /\ BG!Init
          /\ args = AvmArgs(c)
          /\ supply = AvmSupply(c)
    /\ pgenesis = NoResult

\* A step of BuildGenesis.
BuildStep ==
    /\ BG!Next
    /\ UNCHANGED <<config, supply, pgenesis>>

\* The rest of FromConfig once BuildGenesis has replied (lines 81-173): its
\* error returned as is; DJTXAssetID; a UTXO per funded address; a
\* validator per staker, rewarding FundedAddresses[i % len(...)], which
\* divides by zero when there are stakers and no funded addresses; the
\* supply set.
PlatformGenesis ==
    /\ config # NoConfig /\ result # NoResult /\ pgenesis = NoResult
    /\ LET c == config IN
       pgenesis' =
         CASE ~result.ok -> ErrorReply(FALSE)
           [] DJTXAssetID(result.txs) = NoResult -> ErrorReply(FALSE)
           [] c.stakers # <<>> /\ c.funded = <<>> -> ErrorReply(TRUE)
           [] OTHER ->
                Reply(TRUE, FALSE, DJTXAssetID(result.txs),
                      [i \in DOMAIN c.funded |-> [addr |-> c.funded[i], amt |-> FundAmount]],
                      [i \in DOMAIN c.stakers |->
                         [node |-> c.stakers[i], weight |-> StakeWeight,
                          reward |-> c.funded[((i - 1) % Len(c.funded)) + 1]]],
                      supply + PlatformSupply(c))
    /\ UNCHANGED <<config, supply, bgVars>>

Next == BuildStep \/ PlatformGenesis

Spec == Init /\ [][Next]_vars

-----------------------------------------------------------------------------
\* The X-chain genesis as BuildGenesis built it holds these DJTX amounts:
\* the TransferOutputs, whose encoding carries the amount second.
XAmounts(gtxs) ==
    LET os == FlattenSeq([i \in DOMAIN gtxs |-> FlattenSeq(gtxs[i].states)])
    IN  FoldLeft(LAMBDA acc, o : IF o[1] = BG!TransferOutputID THEN acc + o[2] ELSE acc,
                 0, os)
SumField(s, f) == FoldLeft(LAMBDA acc, r : acc + r[f], 0, s)

\* The initial supply FromConfig reports (and platformvm.InitialSupply,
\* from which staking rewards are minted) is exactly what the genesis
\* holds: the X-chain outputs BuildGenesis encoded and sorted, the P-chain
\* UTXOs and the validators' stake.
SupplyAccounted ==
    pgenesis # NoResult /\ pgenesis.ok =>
        pgenesis.supply = XAmounts(result.txs)
                          + SumField(pgenesis.utxos, "amt")
                          + SumField(pgenesis.validators, "weight")

\* BuildGenesis's order independence, for the API calls and for the calls
\* FromConfig makes.
OrderIndependent == BG!OrderIndependent

=============================================================================
