CONSTANTS
    u1 = u1  u2 = u2  nA = nA  nB = nB
    NoWindow = NoWindow
    NoProposal = NoProposal
    Width = 3
    Genesis <- MCGenesis
    TxFee = 1
    MinStake = 2
    Nodes <- MCNodes
    CurrentWindow <- MCCurrentWindow
    PendingWindow <- MCPendingWindow
    StakeAmounts <- MCStakeAmounts
    Times <- MCTimes
    MaxTime = 3
    MaxTxs = 2
    Received <- MCReceived
SPECIFICATION Spec
INVARIANT ValueConserved
CHECK_DEADLOCK FALSE
