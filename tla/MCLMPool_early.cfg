CONSTANTS
    Depositors = {d1, d2}
    NoBundle = NoBundle
    NoEpochIx = NoEpochIx
    EpochLen = 2
    EpochNum = 3
    ProgramStart <- MCProgramStartLate
    MaxRoundingError = 4
    ProgramBudget = 60
    InitLq = 1
    InitVlq = 4
    InitTmp = 12
    DepositAmounts = {1, 2}
    DepositErgs = {6, 7}
    RedeemErgs = {4, 5}
    FundingErgs = {5, 9}
    MaxFunding = 9
    MaxHeight <- MCMaxHeight
SPECIFICATION Spec
INVARIANT
    ExhaustedOnlyInLastEpoch
