CONSTANTS
    Depositors = {d1, d2}
    NoBundle = NoBundle
    NoEpochIx = NoEpochIx
    EpochLen = 2
    EpochNum = 3
    ProgramStart <- MCProgramStart
    MaxRoundingError = 1
    ProgramBudget = 60
    InitLq = 1
    InitVlq = 40
    InitTmp = 120
    DepositAmounts = {1, 19}
    DepositErgs = {6, 7}
    RedeemErgs = {4, 5}
    FundingErgs = {5, 9}
    MaxFunding = 9
    MaxHeight <- MCMaxHeight
SPECIFICATION Spec
INVARIANT
    RewardsWithinAllocation
