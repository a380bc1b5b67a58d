\* An order popped while the pool resolver has no entry.
CONSTANTS
    dep1 = dep1
    dep2 = dep2
    dep3 = dep3
    red1 = red1
    red2 = red2
    red3 = red3
    None = None
    DepositOrders <- MCDepositOrders
    RedeemOrders <- MCRedeemOrders
    BundleOf <- MCBundleOf
    EarlyReject = {}
    LateReject <- MCLateReject
    Faults = {"lost", "timeout"}
    MaxFaults = 2
    MaxVersion = 2
SPECIFICATION Spec
INVARIANT NoOrderLost
CHECK_DEADLOCK FALSE
