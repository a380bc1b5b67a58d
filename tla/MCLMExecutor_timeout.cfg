\* A submission that lands but answers with an error.
CONSTANTS
    dep1 = dep1
    dep2 = dep2
    dep3 = dep3
    red1 = red1
    red2 = red2
    red3 = red3
    None = None
    DepositOrders <- MCDepositOrders
    RedeemOrders <- MCRedeemOrders
    BundleOf <- MCBundleOf
    EarlyReject = {}
    LateReject <- MCLateReject
    Faults = {"timeout"}
    MaxFaults = 1
    MaxVersion = 2
SPECIFICATION Spec
INVARIANT RequeuedOrdersUnspent
CHECK_DEADLOCK FALSE
