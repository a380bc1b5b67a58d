\* The executor alone on a reliable network, started after the pool is resolved.
CONSTANTS
    dep1 = dep1
    dep2 = dep2
    dep3 = dep3
    red1 = red1
    red2 = red2
    red3 = red3
    None = None
    DepositOrders <- MCDepositOrders
    RedeemOrders <- MCRedeemOrders
    BundleOf <- MCBundleOf
    EarlyReject = {}
    LateReject <- MCLateReject
    Faults = {}
    MaxFaults = 0
    MaxVersion = 0
SPECIFICATION MCFairSpecSynced
PROPERTY ValidOrdersExecuted
CHECK_DEADLOCK FALSE
