CONSTANTS
    bad = bad
    none = none
    noconfig = noconfig
    s1 = s1  s2 = s2  s3 = s3
    ApiArgs <- MCApiArgs
    Configs <- MCConfigs
    AliasOrder <- MCAliasOrder
    BadAddr = bad
    NoResult = none
    NoConfig = noconfig
    FundAmount = 5
    StakeWeight = 2
SPECIFICATION Spec
INVARIANT OrderIndependent
INVARIANT SupplyAccounted
CHECK_DEADLOCK FALSE
