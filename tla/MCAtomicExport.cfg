CONSTANTS
    cx = cx
    cp = cp
    co = co
    c0 = c0
    djtx = djtx
    other = other
    primary = primary
    subnet2 = subnet2
    XChainID = cx
    DestChainID = cp
    OtherChainID = co
    ZeroID = c0
    ZeroTxID = 0
    DJTX = djtx
    OtherAsset = other
    Subnet <- MCSubnet
    Genesis <- MCGenesis
    ExportChoices <- MCExportChoices
    OutChoices <- MCOutChoices
    TxFee = 1
    MaxTxs = 3
SPECIFICATION Spec
INVARIANT ValueConserved
INVARIANT OutputIDsUnique
CHECK_DEADLOCK FALSE
