# TLA+ models of spectrum-offchain-ergo

This directory holds TLA+ models of the off-chain liquidity-mining executor in
`src/`, the TLC configurations that check them, and `PROJECT.json`, which
records for every module definition the source lines it translates, every
run, the mutants that show each property can fail, the findings and the
hazards.

## The system

| Part | Source | What it does |
|---|---|---|
| Value types | `spectrum-offchain-lm/src/ergo.rs` | `NanoErg` with saturating `safe_sub`, `MIN_SAFE_BOX_VALUE` (250_000) and `DEFAULT_MINER_FEE` (1_000_000). |
| Pool state machine | `spectrum-offchain-lm/src/data/pool.rs` | The pool box holds `budget_rem` and the `lq`, `vlq` and `tmp` reserves. Three operations act on it. `apply_deposit` mints vlq, plus tmp for every remaining epoch. `apply_redeem` returns them. `distribute_rewards` compounds one epoch for a batch of bundles: it charges their tmp and pays `epoch_alloc * vlq * burned / (lq - 1)` of the budget. Liquidity may only move when `epoch_completed` holds, i.e. `budget_rem % epoch_alloc <= max_rounding_error`. |
| Scheduler | `spectrum-offchain-lm/src/scheduler/data.rs` | Projects a pool into a `PoolSchedule`, whose last completed epoch is derived from the budget. `next_compounding_at` gives the height of the next tick. |
| Order model | `spectrum-offchain-lm/src/data/order.rs` | `Deposit`/`Redeem` orders. `try_run` calls `apply_*` and builds the transaction. Temporal errors map to NonFatal, Permanent errors to Fatal. |
| Executor loop | `spectrum-offchain-lm/src/executor.rs` | One `execute_next` iteration: pop an order, resolve the pool (and bundle), `try_run`, `submit_tx`. On success it puts the predicted pool into the resolver. On a submission failure it invalidates the pool entry and recharges the order. NonFatal suspends the order, Fatal removes it. |
| Chain cache | `ergo-chain-sync/src/cache/rocksdb.rs` | Blocks and transactions in RocksDB: `append_block`, `exists`, `get_best_block`, and `take_best_block` as an optimistic transaction. |
| Event source | `spectrum-offchain/src/event_source.rs` | Turns chain upgrades into applied and unapplied transaction events. |
| Validators, entity traits, entry point | `validators.rs`, `spectrum-offchain/src/data.rs`, `main.rs` | Constant script bytes, trait declarations and process start-up. There is no state to model. |

These parts interact as follows:
- Orders reach the backlog through the event source.
- The executor runs each order against the pool state held by the resolvers.
- The ledger accepts a transaction only if every box it spends is still unspent.
- The chain sync appends each new block to the chain cache and takes the best block back on a roll-back. Each of those upgrades goes through the event source.
- The chain sync brings the resolvers up to date with the ledger.
- The scheduler tells the compounding side when an epoch can be distributed.

The compounding batch is built outside `src/`, and so are the chain sync, the
backlog, the resolvers and the network.

## Modules

### LMPool: the pool, its schedule and its funding

Each variable corresponds to part of the program state:
- `pool` is the pool box (`Pool`: `budget_rem`, reserves, `epoch_ix`).
- `bundle[d]` is depositor d's staking bundle, or `NoBundle`.
- `height` is `ExecutionContext.height`.
- `funding` is the erg held by the unspent `DistributionFunding` boxes.
- `outcome` is the result of the last operation.
- `lastTx` is the erg in and out of the last transaction built.
- `minted` and `paid` are history variables.

Erg is counted in units of 250_000 nanoErg, so `MIN_SAFE_BOX_VALUE = 1` and
`DEFAULT_MINER_FEE = 4`.

The actions:
- **`Deposit`** is `Pool::apply_deposit`. Its checks come in the code's order: ProgramExhausted, LiquidityMoveBlocked, OrderPoisoned on the expected epoch count, LowValue on the erg remainder.
- **`Redeem`** is `apply_redeem`: LiqudityMismatch, LiquidityMoveBlocked, LowValue.
- **`DistributeRewards(S)`** is `distribute_rewards` over the bundles in S. It includes:
  - the epoch index derived from the budget;
  - the batch abort on a bundle with `epochs_burned < 1`;
  - the reward formula with the `lq_reserves_0 - 1` denominator;
  - the funding split into reward boxes, a reissued funding box or miner fee.

  It is enabled when the scheduler's tick is due: `PoolScheduleOf`, `NextCompoundingAt` and `TicksOf` translate `From<Pool>`, `next_compounding_at` and `Tick::try_from`. `TickDue` is the loop that watches the tick, which is modelled from spec 4.3.
- **`AddFunding`** and **`AdvanceHeight`** are the environment. The operator adds funding boxes, and blocks arrive.

The epoch arithmetic is translated operator by operator:
- `current_epoch_ix` uses `TruncDiv` and `TruncMod` for Rust's signed `/` and `%`, and `AsU32` for the wrapping cast.
- `num_epochs_remain`, `epoch_completed`, `epochs_left_to_process` and `epoch_alloc` are translated as written.

`MCLMPool` sets the constants. The pool is created with `lq = 1`, so the
reward denominator is the sum of the bundles' vlq.

### LMProgram: what the pool promises

`LMProgram` is the abstract specification of a mining program. It is
written from the spec (sections 3 and 4), and it has no reserves and no
arithmetic:
- `stake[d]` is the depositor's stake, and `through[d]` is the last epoch the stake is credited for.
- `compounded` is the epoch of the last compounding, and `paid` is the total reward paid.
- `Stake` enters a stake for the epochs that have not begun.
- `Compound(S, k)` credits the stakes in S through epoch k. Epoch k must have ended, and must be the last compounded epoch or the next one. The rewards paid stay within k allocations.

`LMPool` maps onto it in `Program`:
- a live bundle's stake is its vlq;
- it is credited through `EpochNum - tmp / vlq`;
- `compounded` is the pool's `epoch_ix`.

The `ImplementsProgram` property checks the refinement. Redeems, rejected
operations and funding are stuttering steps of the program.

### LMExecutor: execute_next and its collaborators

One `execute_next` iteration is split at its await points, so that other
actors run in between. The steps are `TryPop`, `ResolvePool`, `RunOrder`
(bundle lookup and `try_run`), `Submit`, and then `Commit` or `Fail`.

The pool's data is abstracted to two things:
- its state id (`ver`);
- whether its budget is at an epoch boundary.

These are all that `try_run`'s outcome and the ledger's acceptance depend on.
A live bundle box likewise has a version (`bundleVer`), and the bundle
resolver holds a version or `None` (`bundleRes`). `RunOrder` looks up the
order's `BundleRef` (`Has<Option<BundleId>>` for `Order`). It keeps the
version it read in `bsnap`, and `InputsLive` requires that version to be
the live one.
A redeem whose bundle the resolver does not know is NonFatal (`TryRun`):
the dispatch that handles the missing bundle is not in the repository, so
this case follows spec §4.4 step 3.

`RunOutcome` keeps `apply_*`'s check order:
1. a Permanent error decided before the epoch check (ProgramExhausted, LiqudityMismatch): orders in `EarlyReject`;
2. then LiquidityMoveBlocked;
3. then the Permanent errors decided after it (OrderPoisoned, LowValue): orders in `LateReject`.

The collaborators are modelled from the spec (§5, §6):
- **Ledger.** A transaction lands iff its inputs are live (`InputsLive`, `ApplyTx`).
- **Network.** A submission may be lost, or may time out after landing; both are bounded by `MaxFaults`.
- **Resolvers.** `Commit` is `execute_next`'s put of `Traced { state, prev_state_id }` with the snapshot's state id (executor.rs:74-79). `TracedPut` is the resolver's side of it, from spec §5: the put is taken only on top of the state it was predicted from. `Fail` invalidates the entry at the snapshot's state id.
- **Chain sync.** `SyncPool` and `SyncBundle` bring the resolvers up to date.
- **Other parties.** `OtherTx(S)` spends the pool: another executor, or a compounding batch. A compounding batch also spends the live bundles in S and recreates each in a new box, which makes any redeem already built on them fail at `submit_tx`.
- **Users.** `PlaceRedeem` places a redeem once the bundle exists.
- **Backlog.** `Unsuspend` is the backlog's retry policy.

### ChainCache and ChainStack: the RocksDB chain cache and the event source

`ChainCache` keeps only the keys that the operations read and write:
- `stored` holds the blocks whose `:p`, `:h` and `:t` keys exist. `append_block` writes all three in one batch, and nothing deletes them.
- `body` holds the transaction ids whose body key exists.
- `best` is the `BEST_BLOCK` record, or `None`.

Several `ChainCacheRocksDB` handles can share the `OptimisticTransactionDB`. The Busy retry loop is written for that case. The actions:
- **`AppendBlock`** is the write batch of `append_block`, as one atomic step.
- **`TakeBegin`** is `get_for_update(BEST_BLOCK)`. It returns `None` when the key is absent.
- **`TakeRead`** stands for the plain reads of `:t`, the bodies and `:p`. These reads see the latest committed state, and a missing body is the panic at line 125.
- **`TakeCommit`** and **`TakeBusy`** are the two outcomes of `commit`. The commit validates `BEST_BLOCK` against every write since `get_for_update` (`Conflict`, `dirty`). If it succeeds, the bodies are deleted and `BEST_BLOCK` moves to `NewBest`: the parent if its `:p` exists, otherwise the key is deleted.

`process_upgrade` and the `flat_map` of `event_source` are `ProcessUpgrade` and `Emit`. Every append is a `RollForward`, and every successful take is a `RollBackward`. A consumer (`Consume`) keeps the applied transactions as a stack and records any unapply that is not of the latest applied transaction.

The chain sync is not in the repository. It is modelled by what it needs from the cache (`SyncExtends`): it rolls forward onto a child of `get_best_block`, or onto a child of its start point `Genesis` when the cache is empty.

`ChainStack` is the abstract specification of the cache: a stack of connected blocks with `Push` and `Pop`. `ChainCache` maps onto it by `CachedChain`, which is the chain from `BEST_BLOCK` down the `:p` links, as far as `take_best_block` walks them. `ImplementsChainStack` checks `Stack!Spec` as a temporal property.

## Runs

| Run | Checks | Result |
|---|---|---|
| pool_safety (`MCLMPool.cfg`) | TypeOK, TokenConservation, ExhaustedOnlyInLastEpoch, TickNamesCompoundedEpoch, ImplementsProgram | pass: the refinement holds even in the behaviours where finding 3 blocks the pool, since it is a safety property |
| funding | TxBalanced | violation: funding of 5 units for two bundles builds a transaction with 5 in and 6 out |
| early | ExhaustedOnlyInLastEpoch | violation: program starts two epochs after the pool; a deposit at height 0 is ProgramExhausted |
| round | RoundEndsOnBoundary | violation: see Findings |
| tolerance | RewardsWithinAllocation | violation: see Findings |
| lastepoch | RewardsEventuallyCredited (`MCFairSpecStakeBeforeStart`) | violation: the last epoch is never ticked. Stakes are entered only before the start, so every batch credits every bundle and the OrderPoisoned abort (pool.rs:283) cannot be the cause; with `<=` at scheduler/data.rs:34 the run passes |
| executor_safety (`MCLMExecutor.cfg`) | TypeOK, PoolResolverNeverAhead | pass: includes a second redeem of a redeemed bundle and a compounding batch rewriting a bundle under a pending redeem; both submissions fail on the bundle and invalidate the live pool entry (executor.rs:70), and the resolver still never holds a pool state the ledger has not reached |
| executor_lost | NoOrderLost | violation: an order popped while the resolver misses is lost |
| executor_timeout | RequeuedOrdersUnspent | violation: a timed-out submission that landed is recharged |
| executor_live | ValidOrdersExecuted (fair executor, sync and backlog) | pass |
| cache_safety (`MCChainCache.cfg`) | TypeOK, TakeNeverPanics, LedgerFollowsChain, ImplementsChainStack | pass: one taking handle while another appends, Busy retries included |
| cache_concurrent_take | TakeNeverPanics | violation: two handles take the same best block; the second panics reading deleted bodies |

Every property of a passing run has a mutant in `PROJECT.json`: a plausible
bug in the definition it is about, under which TLC finds the property
violated. For example:
- a redeem without the LiqudityMismatch check breaks TokenConservation;
- `epochs_left_to_process` without the `max_rounding_error` subtraction makes a mid-round tick name the wrong epoch, which breaks TickNamesCompoundedEpoch;
- an `epochs_remain` one short charges the next epoch's tmp too, which breaks ImplementsProgram;
- an ignored submit error breaks PoolResolverNeverAhead;
- a commit that does not validate `BEST_BLOCK` loses a concurrent append and breaks ImplementsChainStack;
- a roll-back that unapplies in block order breaks LedgerFollowsChain;
- a take that leaves `BEST_BLOCK` on the taken block when the parent is not cached breaks TakeNeverPanics.

## Bounds

**LMPool** uses three epochs of two blocks and `program_start = 1`. Heights run to one block past `program_end`. There are two depositors, deposit sizes 1 and 2, and a budget of 60 (epoch_alloc 20) with `max_rounding_error = 4`. The pool's vlq and tmp reserves (4 and 12) are exactly what two deposits of 2 for three epochs draw, because `apply_deposit` never checks that the reserves suffice. `expected_num_epochs` ranges one past `epoch_num`, because the user sets it. With these bounds:
- every check of every operation is reached;
- a deposit can fall on every kind of block: the first and last of an epoch, a tick height, and past the end;
- two bundles can be compounded in one batch or in separate batches.

The passing run keeps `max_rounding_error` below the smallest unpaid part of a round. Once it is not, the tolerance run shows the accounting breaking.

**LMExecutor** has:
- three deposits, one of them poisoned;
- two redeems, plus in the safety run a second redeem of the first bundle;
- in the safety run, one foreign transaction, which may rewrite any subset of the live bundles, and two submission faults;
- in the violation runs, up to two foreign transactions.

This is enough for a failure, its invalidation, a sync and a retry to happen in one behaviour, and for the chain sync to overtake a put. The safety run has 3.9M distinct states; a second foreign transaction there takes it past 15M.

**ChainCache** uses a block tree with six blocks. It forks at the root, with four blocks on one branch and two on the other, so a take can walk back four blocks. Three transactions are mined in both forks, and three blocks hold two transactions. This bound is enough for several things to happen in one behaviour:
- a roll-back onto an uncached parent, which empties the cache;
- a switch of fork;
- a re-mined transaction whose body one block's take deletes while the other fork later writes it again;
- the order of unapplied transactions becoming visible;
- an append landing between `get_for_update` and the commit.

## Fairness

- `LMPool.Fairness` has three parts:
  - Blocks keep coming.
  - The operator keeps funding available.
  - The compounding executor runs the due tick over all live bundles, as the spec's glossary describes compounding ("across all active bundles").

  Orders carry no fairness: users place them.
- `LMExecutor.Fairness` also has three parts:
  - The loop keeps calling `execute_next`.
  - The chain sync keeps the resolvers following the chain.
  - The backlog retries suspended orders.

The liveness run starts after the first sync. Otherwise the lost-order finding hides everything else.

## Findings

1. `distribute_rewards` does not check that the funding covers the batch (pool.rs:311).
2. A deposit made long before `program_start` is ProgramExhausted through a u32 wrap (pool.rs:358).
3. A deposit between an epoch's end and its compounding dilutes the round. It then leaves the pool blocked for good (pool.rs:152).
4. The rounding tolerance lets liquidity move mid-round, and the catch-up batch overpays (pool.rs:364).
5. The last epoch is never ticked (scheduler/data.rs:34). One depositor stakes before the start, epochs 1 and 2 are compounded, and no tick comes for epoch 3, whose end equals `program_end`.
6. An order popped while the pool resolver misses is lost (executor.rs:51).
7. A timed-out but accepted submission is retried forever (executor.rs:72).
8. Two handles taking the best block at once: the second panics at the body `unwrap` before its commit could fail with Busy (rocksdb.rs:125).

For findings 3 and 4, the on-chain pool script may refuse some of these
transactions. The script is not in this repository.

## Not modelled, and the plan

- Box encoding and decoding (`TryFromBox`, `IntoBoxCandidate`, `try_from_box`) and the validator bytes are record layout. The one arithmetic part of the pool codec is its width casts (u32 to i32 and back, u64 to i64 and back), and the values where those casts misbehave (2^31 and 2^63) lie beyond TLC's integers.
- f64 precision above 2^53.
- The height in `LmContext`. `execute_next` passes `self.ctx` to `try_run`, and nothing in executor.rs writes it. But `LmContext` itself is not defined in the repository, and `OrderExecutor` has no constructor there. So whether the height it carries can go stale cannot be read from this code. LMPool judges every operation at the current height.
- `exists`: the modelled sync does not call it. After a take it still reports the taken block, because `:h` is never deleted. Whether that matters depends on how the chain sync links blocks, and the sync is not in the repository.
- A budget whose remainder modulo `epoch_num` exceeds `max_rounding_error`. `PoolScheduleOf` wraps the u32 subtraction of scheduler/data.rs:85, but such a pool already underflows in its initial state and refuses every deposit. A run would only restate that.
- Liveness of the Busy retry loop: RocksDB gives no bound on retries.
- The chain cache's stale `:p` keys (rocksdb.rs:141). They matter only if the sync resumes on an emptied cache from a block whose parent was taken, and the sync is not in the repository. Commit errors other than Busy (rocksdb.rs:178) are RocksDB's behaviour.
- Next steps:
  1. A composition of LMPool's operations with execute_next, in place of LMExecutor's two-field pool abstraction.
