---------------------------- MODULE MCLMExecutor ----------------------------
(* Model-checking instance of LMExecutor: three deposits, the second one   *)
(* poisoned (its expected epoch count is stale), and redeems of the first *)
(* and the third deposits' bundles; the safety run adds a second redeem   *)
(* of the first bundle.                                                    *)
EXTENDS LMExecutor

CONSTANTS dep1, dep2, dep3, red1, red2, red3

MCDepositOrders == {dep1, dep2, dep3}
MCRedeemOrders == {red1, red2}
MCBundleOf == [r \in {red1, red2} |-> IF r = red1 THEN dep1 ELSE dep3]
MCLateReject == {dep2}

\* A second Redeem of the first deposit's bundle (its key split over two
\* order boxes): after the first lands, the second is built against the
\* bundle resolver's stale entry and its submission fails on the bundle.
MCRedeemOrdersDup == {red1, red2, red3}
MCBundleOfDup == [r \in MCRedeemOrdersDup |-> IF r = red2 THEN dep3 ELSE dep1]

\* An executor started after the chain sync has resolved the pool.
MCInitSynced == Init /\ poolRes # None
MCFairSpecSynced == MCInitSynced /\ [][Next]_vars /\ Fairness
====
