-------------------------- MODULE MCAddDelegatorTx --------------------------
\* Two genesis UTXOs of one wallet; node nA is a current validator over
\* [0, 5], nB a pending one over [2, 6]; two transactions built here and
\* three received: one declaring more weight than it stakes, one whose stake
\* outputs overflow a 3-bit word, and one well-formed but staking more
\* than its input holds.
EXTENDS AddDelegatorTx, TLC

CONSTANTS u1, u2, nA, nB

MCGenesis == (u1 :> 5) @@ (u2 :> 4)
MCNodes == {nA, nB}
MCCurrentWindow == (nA :> <<0, 5>>) @@ (nB :> NoWindow)
MCPendingWindow == (nA :> NoWindow) @@ (nB :> <<2, 6>>)
MCStakeAmounts == {2, 3}
MCTimes == {1, 3, 5}
MCReceived ==
    {[id |-> 101, ins |-> {u2}, outs |-> <<>>, stake |-> <<2>>, node |-> nA,
      start |-> 1, end |-> 5, wght |-> 3],
     [id |-> 102, ins |-> {u1, u2}, outs |-> <<>>, stake |-> <<6, 6>>,
      node |-> nB, start |-> 3, end |-> 5, wght |-> 4],
     [id |-> 103, ins |-> {u2}, outs |-> <<>>, stake |-> <<5>>, node |-> nA,
      start |-> 1, end |-> 5, wght |-> 5]}
=============================================================================
