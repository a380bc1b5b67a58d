\* Safety of execute_next against a concurrently spent pool, a chain sync
\* racing the resolver update, lost or timed-out submissions, and a
\* submission that fails on an already redeemed bundle or on a bundle a
\* compounding batch rewrote.
CONSTANTS
    dep1 = dep1
    dep2 = dep2
    dep3 = dep3
    red1 = red1
    red2 = red2
    red3 = red3
    None = None
    DepositOrders <- MCDepositOrders
    RedeemOrders <- MCRedeemOrdersDup
    BundleOf <- MCBundleOfDup
    EarlyReject = {}
    LateReject <- MCLateReject
    Faults = {"lost", "timeout"}
    MaxFaults = 2
    MaxVersion = 1
SPECIFICATION Spec
INVARIANTS TypeOK PoolResolverNeverAhead
\* Once the backlog is drained and the resolvers follow the chain, the
\* executor has nothing left to do.
CHECK_DEADLOCK FALSE
