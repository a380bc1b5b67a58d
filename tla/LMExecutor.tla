----------------------------- MODULE LMExecutor -----------------------------
(***************************************************************************)
(* OrderExecutor::execute_next of spectrum-offchain-lm (executor.rs) with  *)
(* the order model's try_run (data/order.rs), against the collaborators it *)
(* awaits: the backlog, the pool and bundle resolvers, the network and the *)
(* ledger.  One iteration is split at its await points (try_pop, the pool  *)
(* lookup, submit_tx and the resolver update), so that the chain, the      *)
(* chain sync and other parties spending the pool interleave between them. *)
(*                                                                         *)
(* The pool's data is abstracted to what try_run's outcome depends on: the *)
(* state id of the pool box (a version) and whether its budget is at an    *)
(* epoch boundary (Pool::epoch_completed).  Which orders fail permanently  *)
(* is fixed by the order's own fields (constants EarlyReject, LateReject). *)
(***************************************************************************)
EXTENDS Integers, FiniteSets

CONSTANTS
    DepositOrders,   \* Deposit order boxes; a deposit's bundle is named by it
    RedeemOrders,    \* Redeem order boxes
    BundleOf,        \* BundleOf[r]: the deposit whose bundle Redeem r consumes
    EarlyReject,     \* orders failing Permanent before the epoch check
    LateReject,      \* orders failing Permanent after the epoch check
    None,            \* model value: a resolver miss
    Faults,          \* submission faults the network may produce
    MaxFaults,       \* bound on the faults in a behaviour
    MaxVersion       \* bound on pool versions produced by other parties

Orders == DepositOrders \cup RedeemOrders

ASSUME DepositOrders \cap RedeemOrders = {}
ASSUME BundleOf \in [RedeemOrders -> DepositOrders]
ASSUME EarlyReject \cup LateReject \subseteq Orders
ASSUME Faults \subseteq {"lost", "timeout"}

VARIABLES
    chainPool,    \* the live pool box: [ver, completed]
    chainBundle,  \* chainBundle[b]: "absent", "live" or "spent"
    bundleVer,    \* bundleVer[b]: the version of b's live bundle box
    orderBox,     \* orderBox[o]: "absent", "unspent" or "spent"
    backlog,      \* backlog[o]: "none", "queued", "suspended", "taken", "removed"
    poolRes,      \* the pool resolver's entry: a pool state or None
    bundleRes,    \* bundleRes[b]: the bundle version the resolver holds, or None
    pc,           \* stage of execute_next
    cur,          \* the order being executed
    snap,         \* the pool state the order is run against
    bsnap,        \* the bundle version the order is run against, or None
    faults,       \* faults injected so far
    foreign       \* pool transactions of other parties so far

vars == <<chainPool, chainBundle, bundleVer, orderBox, backlog, poolRes,
          bundleRes, pc, cur, snap, bsnap, faults, foreign>>

\* The pool box is spent once per order and once per foreign transaction.
PoolState == [ver : 0..MaxVersion + Cardinality(Orders), completed : BOOLEAN]

\* Has<Option<BundleId>> for Order: a Redeem names the bundle its key
\* token opens, a Deposit none.
BundleRef(o) == IF o \in RedeemOrders THEN BundleOf[o] ELSE None

\* Mutant: the resolver takes the bundle's predicted next state.
ChainBundleViewNext(b) ==
    IF chainBundle[b] = "live" THEN bundleVer[b] + 1 ELSE None

\* What the chain sync reads for bundle b: its live box, or nothing.
ChainBundleView(b) == IF chainBundle[b] = "live" THEN bundleVer[b] ELSE None

-----------------------------------------------------------------------------
(* The outcome of try_run: Pool::apply_deposit and Pool::apply_redeem      *)
(* check a permanent error (ProgramExhausted, LiqudityMismatch) before     *)
(* epoch_completed and the others (OrderPoisoned, LowValue) after it;      *)
(* Temporal maps to NonFatal and Permanent to Fatal.                       *)
RunOutcome(o, p) ==
    IF o \in EarlyReject THEN "Fatal"
    ELSE IF ~p.completed THEN "NonFatal"
    ELSE IF o \in LateReject THEN "Fatal"
    ELSE "Ok"

\* A transaction is accepted iff every box it spends is still unspent.
InputsLive(o, p) ==
    /\ chainPool.ver = p.ver
    /\ orderBox[o] = "unspent"
    /\ o \in RedeemOrders => ChainBundleView(BundleOf[o]) = bsnap

\* try_run builds the transaction with the order box among its inputs.
SpendOrder(o) == orderBox' = [orderBox EXCEPT ![o] = "spent"]

\* The ledger applies the order's transaction: a new pool box (the epoch
\* boundary is unchanged by deposits and redeems), the order box spent,
\* and the bundle created (deposit) or spent (redeem).
ApplyTx(o) ==
    /\ chainPool' = [chainPool EXCEPT !.ver = @ + 1]
    /\ SpendOrder(o)
    /\ chainBundle' = IF o \in DepositOrders
                      THEN [chainBundle EXCEPT ![o] = "live"]
                      ELSE [chainBundle EXCEPT ![BundleOf[o]] = "spent"]
    /\ UNCHANGED bundleVer

Init ==
    /\ chainPool = [ver |-> 0, completed |-> TRUE]
    /\ chainBundle = [b \in DepositOrders |-> "absent"]
    /\ orderBox = [o \in Orders |-> IF o \in DepositOrders THEN "unspent"
                                                         ELSE "absent"]
    /\ backlog = [o \in Orders |-> IF o \in DepositOrders THEN "queued"
                                                        ELSE "none"]
    /\ poolRes \in {None, [ver |-> 0, completed |-> TRUE]}
    /\ bundleVer = [b \in DepositOrders |-> 0]
    /\ bundleRes = [b \in DepositOrders |-> None]
    /\ pc = "idle"
    /\ cur = None
    /\ snap = None
    /\ bsnap = None
    /\ faults = 0
    /\ foreign = 0
-----------------------------------------------------------------------------
(* execute_next, one action per stretch between two awaits.               *)

\* backlog.try_pop: the backlog hands out one queued order.
TryPop(o) ==
    /\ pc = "idle"
    /\ backlog[o] = "queued"
    /\ backlog' = [backlog EXCEPT ![o] = "taken"]
    /\ pc' = "resolving"
    /\ cur' = o
    /\ UNCHANGED <<chainPool, chainBundle, bundleVer, orderBox, poolRes,
                   bundleRes, snap, bsnap, faults, foreign>>

\* pool_resolver.get: without a pool the iteration ends, and nothing
\* returns the popped order to the backlog.
ResolvePool ==
    /\ pc = "resolving"
    /\ \/ poolRes = None /\ pc' = "idle" /\ cur' = None /\ UNCHANGED snap
       \/ poolRes # None /\ pc' = "running" /\ snap' = poolRes
          /\ UNCHANGED cur
    /\ UNCHANGED <<chainPool, chainBundle, bundleVer, orderBox, backlog,
                   poolRes, bundleRes, bsnap, faults, foreign>>

\* try_run on the bundle read for the order's BundleRef.  A Redeem whose
\* bundle the resolver does not know is not yet runnable: the Order
\* dispatch that handles a missing bundle is not in the repository, and
\* spec 4.4 step 3 makes it NonFatal.
TryRunDropsUnresolved(o, p, b) ==
    IF o \in RedeemOrders /\ b = None THEN "Fatal" ELSE RunOutcome(o, p)
TryRun(o, p, b) ==
    IF o \in RedeemOrders /\ b = None THEN "NonFatal" ELSE RunOutcome(o, p)

\* NonFatal suspends the order and Fatal removes it from the backlog.
Disposition(out) == IF out = "NonFatal" THEN "suspended" ELSE "removed"

\* bundle_resolver.get(bundle_id) when the order names a bundle, then
\* try_run.
RunOrder ==
    LET b   == IF BundleRef(cur) = None THEN None ELSE bundleRes[BundleRef(cur)]
        out == TryRun(cur, snap, b)
    IN
    /\ pc = "running"
    /\ \/ /\ out = "Ok" /\ pc' = "submitting" /\ bsnap' = b
          /\ UNCHANGED <<backlog, cur, snap>>
       \/ /\ out # "Ok"
          /\ backlog' = [backlog EXCEPT ![cur] = Disposition(out)]
          /\ pc' = "idle" /\ cur' = None /\ snap' = None
          /\ UNCHANGED bsnap
    /\ UNCHANGED <<chainPool, chainBundle, bundleVer, orderBox, poolRes,
                   bundleRes, faults, foreign>>

\* `if let Err(client_err) = submit_tx(tx)`: an error leads to the
\* invalidate-and-recharge branch.
OnSubmitErrorIgnored == "committing"
OnSubmitError == "failing"

\* network.submit_tx: the ledger takes the transaction iff its inputs are
\* live.  A lost submission fails without effect; a timed-out one takes
\* effect but still answers with an error.
Submit ==
    /\ pc = "submitting"
    /\ \/ InputsLive(cur, snap) /\ ApplyTx(cur) /\ pc' = "committing"
          /\ UNCHANGED faults
       \/ ~InputsLive(cur, snap) /\ pc' = OnSubmitError
          /\ UNCHANGED <<chainPool, chainBundle, bundleVer, orderBox, faults>>
       \/ /\ InputsLive(cur, snap) /\ faults < MaxFaults /\ "lost" \in Faults
          /\ pc' = OnSubmitError /\ faults' = faults + 1
          /\ UNCHANGED <<chainPool, chainBundle, bundleVer, orderBox>>
       \/ /\ InputsLive(cur, snap) /\ faults < MaxFaults
          /\ "timeout" \in Faults
          /\ ApplyTx(cur) /\ pc' = OnSubmitError /\ faults' = faults + 1
    /\ UNCHANGED <<backlog, poolRes, bundleRes, cur, snap, bsnap, foreign>>

\* The resolver's side of pool_resolver.put(Traced { next pool,
\* prev_state_id }) (spec 5): it takes the state only on top of the state
\* it was predicted from.
TracedPut(res, prev, next) == IF res = prev THEN next ELSE res

Commit ==
    /\ pc = "committing"
    /\ poolRes' = TracedPut(poolRes, snap, [snap EXCEPT !.ver = @ + 1])
    \* The bundle resolver is updated only when the order both consumed and
    \* produced a bundle, which neither a Deposit nor a Redeem does.
    /\ pc' = "idle" /\ cur' = None /\ snap' = None /\ bsnap' = None
    /\ UNCHANGED <<chainPool, chainBundle, bundleVer, orderBox, backlog,
                   bundleRes, faults, foreign>>

\* pool_resolver.invalidate(pool id, state id), then backlog.recharge.
Fail ==
    /\ pc = "failing"
    /\ poolRes' = IF poolRes = snap THEN None ELSE poolRes
    /\ backlog' = [backlog EXCEPT ![cur] = "queued"]
    /\ pc' = "idle" /\ cur' = None /\ snap' = None /\ bsnap' = None
    /\ UNCHANGED <<chainPool, chainBundle, bundleVer, orderBox, bundleRes,
                   faults, foreign>>
-----------------------------------------------------------------------------
(* The environment of the executor.                                        *)

\* Another party spends the pool box: another executor, or a compounding
\* batch (Pool::distribute_rewards), which may leave the budget mid-round
\* and spends the bundles S it credits, recreating each in a new box.
OtherTx(S) ==
    /\ foreign < MaxVersion
    /\ \A b \in S : chainBundle[b] = "live"
    /\ \E c \in BOOLEAN : chainPool' = [ver |-> chainPool.ver + 1, completed |-> c]
    /\ bundleVer' = [b \in DepositOrders |->
                        IF b \in S THEN bundleVer[b] + 1 ELSE bundleVer[b]]
    /\ foreign' = foreign + 1
    /\ UNCHANGED <<chainBundle, orderBox, backlog, poolRes, bundleRes, pc, cur,
                   snap, bsnap, faults>>

\* The chain sync puts the live pool box into the pool resolver.
SyncPool ==
    /\ poolRes # chainPool
    /\ poolRes' = chainPool
    /\ UNCHANGED <<chainPool, chainBundle, bundleVer, orderBox, backlog,
                   bundleRes, pc, cur, snap, bsnap, faults, foreign>>

\* The chain sync brings bundle b's resolver entry up to the chain.
SyncBundle(b) ==
    /\ bundleRes[b] # ChainBundleView(b)
    /\ bundleRes' = [bundleRes EXCEPT ![b] = ChainBundleView(b)]
    /\ UNCHANGED <<chainPool, chainBundle, bundleVer, orderBox, backlog,
                   poolRes, pc, cur, snap, bsnap, faults, foreign>>

\* The holder of a live bundle's key places a Redeem order, which the
\* event source adds to the backlog.
PlaceRedeem(r) ==
    /\ orderBox[r] = "absent"
    /\ chainBundle[BundleOf[r]] = "live"
    /\ orderBox' = [orderBox EXCEPT ![r] = "unspent"]
    /\ backlog' = [backlog EXCEPT ![r] = "queued"]
    /\ UNCHANGED <<chainPool, chainBundle, bundleVer, poolRes, bundleRes, pc,
                   cur, snap, bsnap, faults, foreign>>

\* The backlog makes a suspended order ready again.
Unsuspend(o) ==
    /\ backlog[o] = "suspended"
    /\ backlog' = [backlog EXCEPT ![o] = "queued"]
    /\ UNCHANGED <<chainPool, chainBundle, bundleVer, orderBox, poolRes,
                   bundleRes, pc, cur, snap, bsnap, faults, foreign>>

ExecutorStep ==
    \/ \E o \in Orders : TryPop(o)
    \/ ResolvePool
    \/ RunOrder
    \/ Submit
    \/ Commit
    \/ Fail

Next ==
    \/ ExecutorStep
    \/ \E S \in SUBSET DepositOrders : OtherTx(S)
    \/ SyncPool
    \/ \E b \in DepositOrders : SyncBundle(b)
    \/ \E r \in RedeemOrders : PlaceRedeem(r)
    \/ \E o \in Orders : Unsuspend(o)

Spec == Init /\ [][Next]_vars

(* The executor loop calls execute_next for as long as it runs, the chain  *)
(* sync keeps the resolvers following the chain, and the backlog retries   *)
(* suspended orders.  Users and other parties carry no fairness.           *)
Fairness ==
    /\ WF_vars(ExecutorStep)
    /\ WF_vars(SyncPool)
    /\ \A b \in DepositOrders : WF_vars(SyncBundle(b))
    /\ \A o \in Orders : WF_vars(Unsuspend(o))

FairSpec == Spec /\ Fairness

-----------------------------------------------------------------------------
TypeOK ==
    /\ chainPool \in PoolState
    /\ chainBundle \in [DepositOrders -> {"absent", "live", "spent"}]
    /\ orderBox \in [Orders -> {"absent", "unspent", "spent"}]
    /\ backlog \in [Orders -> {"none", "queued", "suspended", "taken", "removed"}]
    /\ poolRes \in PoolState \cup {None}
    /\ bundleVer \in [DepositOrders -> 0..MaxVersion]
    /\ bundleRes \in [DepositOrders -> 0..MaxVersion \cup {None}]
    /\ pc \in {"idle", "resolving", "running", "submitting", "committing",
               "failing"}
    /\ cur \in Orders \cup {None}
    /\ snap \in PoolState \cup {None}
    /\ bsnap \in 0..MaxVersion \cup {None}
    /\ faults \in 0..MaxFaults
    /\ foreign \in 0..MaxVersion

(* An order popped from the backlog is never lost: it is being executed,   *)
(* its transaction has landed, or it is back in the backlog (recharged or  *)
(* suspended) or removed after a Fatal error.  Spec 4.4 says an iteration  *)
(* that finds no pool leaves the order queued; execute_next's early exit   *)
(* when pool_resolver.get misses is what this is about.                    *)
NoOrderLost ==
    \A o \in Orders :
        backlog[o] = "taken" => (pc # "idle" /\ cur = o) \/ orderBox[o] = "spent"

(* An order is back in the backlog only while its transaction has not     *)
(* landed: a submission answered with an error is recharged on the belief *)
(* that the ledger did not take it.                                        *)
RequeuedOrdersUnspent ==
    \A o \in Orders :
        backlog[o] \in {"queued", "suspended"} => orderBox[o] = "unspent"

(* The pool resolver never holds a pool state the ledger has not reached:  *)
(* execute_next puts the predicted pool only after submit_tx succeeded.    *)
PoolResolverNeverAhead ==
    poolRes # None => poolRes.ver <= chainPool.ver

(* Every order that no Permanent error rejects is eventually executed on   *)
(* the ledger, a Redeem included although execute_next never puts a new   *)
(* deposit's bundle into the bundle resolver.                              *)
ValidOrdersExecuted ==
    \A o \in Orders \ (EarlyReject \cup LateReject) :
        orderBox[o] = "unspent" ~> orderBox[o] = "spent"
====
