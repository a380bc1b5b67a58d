------------------------------- MODULE LMPool -------------------------------
(***************************************************************************)
(* The liquidity-mining pool of spectrum-offchain-lm (data/pool.rs) as the *)
(* ledger sees it: one pool box, the staking bundles its deposits create,  *)
(* and the block height.  Deposit, Redeem and DistributeRewards are        *)
(* Pool::apply_deposit, Pool::apply_redeem and Pool::distribute_rewards,   *)
(* each applied atomically, as the transaction built from it is.  Rewards  *)
(* are distributed when the scheduler's tick (scheduler/data.rs) is due.  *)
(*                                                                         *)
(* Token amounts are small naturals; nanoErg values are counted in units   *)
(* of MIN_SAFE_BOX_VALUE (250_000 nanoErg).                                *)
(***************************************************************************)
EXTENDS Integers, FiniteSets, FiniteSetsExt

CONSTANTS
    Depositors,        \* owners of staking bundles, one live bundle each
    NoBundle,          \* model value: the depositor holds no bundle
    NoEpochIx,         \* model value: Pool.epoch_ix = None
    EpochLen,          \* ProgramConfig.epoch_len
    EpochNum,          \* ProgramConfig.epoch_num
    ProgramStart,      \* ProgramConfig.program_start
    MaxRoundingError,  \* ProgramConfig.max_rounding_error
    ProgramBudget,     \* ProgramConfig.program_budget
    InitLq,            \* reserves_lq of the freshly created pool box
    InitVlq,           \* reserves_vlq of the freshly created pool box
    InitTmp,           \* reserves_tmp of the freshly created pool box
    DepositAmounts,    \* lq amounts a Deposit order may carry
    DepositErgs,       \* erg values a Deposit order box may carry
    RedeemErgs,        \* erg values a Redeem order box may carry
    FundingErgs,       \* erg values of the DistributionFunding boxes added
    MaxFunding,        \* bound on the erg held in funding boxes
    MaxHeight          \* bound on the block height

ASSUME EpochLen \in Nat \ {0} /\ EpochNum \in Nat \ {0}
ASSUME ProgramBudget \in Nat /\ ProgramBudget >= EpochNum
ASSUME InitLq \in Nat /\ InitVlq \in Nat /\ InitTmp \in Nat
ASSUME DepositAmounts \subseteq Nat \ {0}

VARIABLES
    height,      \* current block height (ExecutionContext.height)
    pool,        \* the current pool box
    bundle,      \* bundle[d]: d's StakingBundle, or NoBundle
    minted,      \* history: tmp minted into d's bundle by its deposit
    paid,        \* history: reward tokens paid out so far
    funding,     \* erg held by the unspent DistributionFunding boxes
    outcome,     \* result of the last operation applied to the pool
    lastTx       \* erg spent and created by the last transaction built

vars == <<height, pool, bundle, minted, paid, funding, outcome, lastTx>>

-----------------------------------------------------------------------------
(* Values of ergo.rs, in units of MIN_SAFE_BOX_VALUE.                      *)
MIN_SAFE_BOX_VALUE == 1
DEFAULT_MINER_FEE == 4

\* NanoErg::safe_sub and u64::saturating_sub
SafeSub(a, b) == IF a > b THEN a - b ELSE 0

\* Rust's / and % on signed integers truncate toward zero.
TruncDiv(a, b) == IF a >= 0 THEN a \div b ELSE -((-a) \div b)
TruncMod(a, b) == a - b * TruncDiv(a, b)

\* `x as u32` for an i64 x in i32 range.  A negative x wraps to 2^32 + x;
\* TLC's integers stop below 2^31, so the wrapped value is kept as
\* 2^31 + x, which like 2^32 + x exceeds every epoch count.
AsU32(x) == IF x >= 0 THEN x ELSE (x + 2147483647) + 1

ProgramEnd == ProgramStart + EpochLen * EpochNum

EpochAlloc == ProgramBudget \div EpochNum

\* Mutant: an epoch's last block is counted in the next epoch.
CurrentEpochIxLate(h) ==
    LET curBlockIx == h - ProgramStart + 1
        rem == TruncMod(curBlockIx, EpochLen)
        r   == TruncDiv(curBlockIx, EpochLen)
    IN  IF rem = 0 /\ r = 0 THEN 0
        ELSE IF rem >= 0 THEN AsU32(r + 1) ELSE AsU32(r)

\* Pool::current_epoch_ix
CurrentEpochIx(h) ==
    LET curBlockIx == h - ProgramStart + 1
        rem == TruncMod(curBlockIx, EpochLen)
        r   == TruncDiv(curBlockIx, EpochLen)
    IN  IF rem = 0 /\ r = 0 THEN 0
        ELSE IF rem > 0 THEN AsU32(r + 1) ELSE AsU32(r)

\* Mutant: the epoch count includes the current epoch.
NumEpochsRemainInclusive(h) == SafeSub(EpochNum + 1, CurrentEpochIx(h))

NumEpochsRemain(h) == SafeSub(EpochNum, CurrentEpochIx(h))

\* Pool::epoch_completed: the budget is at an epoch boundary, give or
\* take the rounding error.
EpochCompleted(p) == p.budget_rem % EpochAlloc <= MaxRoundingError

\* Mutant: the rounding tolerance is not subtracted first.
EpochsLeftToProcessExact(p) == (p.budget_rem + EpochAlloc - 1) \div EpochAlloc

\* Pool::epochs_left_to_process: ceiling of the f64 quotient.
EpochsLeftToProcess(p) ==
    LET n == SafeSub(p.budget_rem, MaxRoundingError)
    IN  (n + EpochAlloc - 1) \div EpochAlloc

\* impl From<Pool> for PoolSchedule
PoolScheduleOf(p) ==
    [epoch_len |-> EpochLen, epoch_num |-> EpochNum,
     program_start |-> ProgramStart,
     last_completed_epoch_ix |-> AsU32(EpochNum - EpochsLeftToProcess(p))]

\* PoolSchedule::next_compounding_at, None as the empty set
NextCompoundingAt(s) ==
    LET next == s.program_start + s.last_completed_epoch_ix * s.epoch_len
                    + s.epoch_len
    IN  IF next < s.program_start + s.epoch_len * s.epoch_num
        THEN {next} ELSE {}

\* impl TryFrom<PoolSchedule> for Tick: a tick at the next compounding
\* height for the epoch after the last completed one, none once the
\* schedule has no next compounding.
TicksOf(s) ==
    {[epoch_ix |-> s.last_completed_epoch_ix + 1, height |-> at] :
        at \in NextCompoundingAt(s)}

\* The tick of the pool's schedule has been reached (spec 4.3).
TickDue == \E t \in TicksOf(PoolScheduleOf(pool)) : height >= t.height

-----------------------------------------------------------------------------
Staked == {d \in Depositors : bundle[d] # NoBundle}

\* Amounts are u64 and epoch_ix a u32 epoch index of the program.
PoolRec == [budget_rem : Nat, lq : Nat, vlq : Nat, tmp : Nat,
            epoch_ix : 1..EpochNum \cup {NoEpochIx}]
BundleRec == [vlq : Nat \ {0}, tmp : Nat]
Outcomes == {"none", "ok", "ProgramExhausted", "LiquidityMoveBlocked",
             "OrderPoisoned", "LiqudityMismatch", "LowValue"}

Init ==
    /\ height = 0
    /\ pool = [budget_rem |-> ProgramBudget, lq |-> InitLq, vlq |-> InitVlq,
               tmp |-> InitTmp, epoch_ix |-> NoEpochIx]
    /\ bundle = [d \in Depositors |-> NoBundle]
    /\ minted = [d \in Depositors |-> 0]
    /\ paid = 0
    /\ funding = 0
    /\ outcome = "none"
    /\ lastTx = [ergIn |-> 0, ergOut |-> 0]

\* A rejected operation leaves the ledger as it was.
Reject(err) ==
    /\ outcome' = err
    /\ lastTx' = [ergIn |-> 0, ergOut |-> 0]
    /\ UNCHANGED <<height, pool, bundle, minted, paid, funding>>

\* Pool::apply_deposit for a deposit of `amt` lq by d, expecting `expected`
\* epochs to remain, in an order box holding `erg`.
Deposit(d, amt, expected, erg) ==
    LET remain   == NumEpochsRemain(height)
        vlq      == amt
        tmp      == remain * vlq
        \* bundle box, user output and miner fee are paid from erg
        leftover == SafeSub(SafeSub(SafeSub(erg, MIN_SAFE_BOX_VALUE),
                                    MIN_SAFE_BOX_VALUE), DEFAULT_MINER_FEE)
    IN
    /\ bundle[d] = NoBundle
    /\ \/ remain < 1 /\ Reject("ProgramExhausted")
       \/ remain >= 1 /\ ~EpochCompleted(pool) /\ Reject("LiquidityMoveBlocked")
       \/ /\ remain >= 1 /\ EpochCompleted(pool) /\ remain # expected
          /\ Reject("OrderPoisoned")
       \/ /\ remain >= 1 /\ EpochCompleted(pool) /\ remain = expected
          /\ leftover < MIN_SAFE_BOX_VALUE
          /\ Reject("LowValue")
       \/ /\ remain >= 1 /\ EpochCompleted(pool) /\ remain = expected
          /\ leftover >= MIN_SAFE_BOX_VALUE
          /\ pool' = [pool EXCEPT !.lq = @ + amt, !.vlq = @ - vlq,
                                  !.tmp = @ - tmp]
          /\ bundle' = [bundle EXCEPT ![d] = [vlq |-> vlq, tmp |-> tmp]]
          /\ minted' = [minted EXCEPT ![d] = tmp]
          /\ outcome' = "ok"
          /\ lastTx' = [ergIn |-> erg,
                        ergOut |-> 2 * MIN_SAFE_BOX_VALUE + DEFAULT_MINER_FEE
                                   + leftover]
          /\ UNCHANGED <<height, paid, funding>>

\* apply_redeem's first check: the order expects exactly the bundle's vlq.
LqMatchesAny(b, expectedLq) == TRUE
LqMatches(b, expectedLq) == expectedLq = b.vlq

\* Pool::apply_redeem of d's bundle by an order expecting `expectedLq` lq,
\* in an order box holding `erg`; the bundle box holds MIN_SAFE_BOX_VALUE.
Redeem(d, expectedLq, erg) ==
    LET b        == bundle[d]
        leftover == SafeSub(SafeSub(erg + MIN_SAFE_BOX_VALUE,
                                    MIN_SAFE_BOX_VALUE), DEFAULT_MINER_FEE)
    IN
    /\ b # NoBundle
    /\ \/ ~LqMatches(b, expectedLq) /\ Reject("LiqudityMismatch")
       \/ LqMatches(b, expectedLq) /\ ~EpochCompleted(pool)
          /\ Reject("LiquidityMoveBlocked")
       \/ /\ LqMatches(b, expectedLq) /\ EpochCompleted(pool)
          /\ leftover < MIN_SAFE_BOX_VALUE
          /\ Reject("LowValue")
       \/ /\ LqMatches(b, expectedLq) /\ EpochCompleted(pool)
          /\ leftover >= MIN_SAFE_BOX_VALUE
          /\ pool' = [pool EXCEPT !.lq = @ - expectedLq, !.vlq = @ + b.vlq,
                                  !.tmp = @ + b.tmp]
          /\ bundle' = [bundle EXCEPT ![d] = NoBundle]
          /\ minted' = [minted EXCEPT ![d] = 0]
          /\ outcome' = "ok"
          /\ lastTx' = [ergIn |-> erg + MIN_SAFE_BOX_VALUE,
                        ergOut |-> MIN_SAFE_BOX_VALUE + DEFAULT_MINER_FEE
                                   + leftover]
          /\ UNCHANGED <<height, paid, funding>>

\* The epoch Pool::distribute_rewards compounds, derived from the budget.
CompoundingEpochIx(p) ==
    IF EpochCompleted(p)
    THEN EpochNum + 1 - p.budget_rem \div EpochAlloc
    ELSE EpochNum + 1 - p.budget_rem \div EpochAlloc - 1

\* Mutant: the epoch after the compounded one is charged with it.
EpochsRemainExclusive(epochIx) == EpochNum - epochIx - 1

\* The epochs after the compounded one, which every bundle keeps tmp for.
EpochsRemain(epochIx) == EpochNum - epochIx

\* Pool::distribute_rewards over the bundles of the depositors in S, funded
\* by every unspent DistributionFunding box.
DistributeRewards(S) ==
    LET epochIx  == CompoundingEpochIx(pool)
        \* one reward output per bundle and the miner fee
        cost     == Cardinality(S) * MIN_SAFE_BOX_VALUE + DEFAULT_MINER_FEE
        fundsRemain == SafeSub(funding, cost)
        \* the remainder is reissued as a funding box, or goes to the miner
        reissued == IF fundsRemain >= MIN_SAFE_BOX_VALUE THEN fundsRemain ELSE 0
        minerFee == IF fundsRemain >= MIN_SAFE_BOX_VALUE
                    THEN DEFAULT_MINER_FEE
                    ELSE DEFAULT_MINER_FEE + fundsRemain
        remain   == EpochsRemain(epochIx)
        Burned(d)  == SafeSub(bundle[d].tmp \div bundle[d].vlq, remain)
        Reward(d)  == (EpochAlloc * bundle[d].vlq * Burned(d))
                          \div (pool.lq - 1)
        Charged(d) == bundle[d].tmp - remain * bundle[d].vlq
    IN
    /\ TickDue
    /\ funding > 0
    /\ \/ \E d \in S : Burned(d) < 1 /\ Reject("OrderPoisoned")
       \/ /\ \A d \in S : Burned(d) >= 1
          /\ bundle' = [d \in Depositors |->
                          IF d \in S
                          THEN [bundle[d] EXCEPT !.tmp = @ - Charged(d)]
                          ELSE bundle[d]]
          /\ pool' = [pool EXCEPT !.tmp = @ + MapThenSumSet(Charged, S),
                                  !.budget_rem = @ - MapThenSumSet(Reward, S),
                                  !.epoch_ix = epochIx]
          /\ paid' = paid + MapThenSumSet(Reward, S)
          /\ funding' = reissued
          /\ outcome' = "ok"
          /\ lastTx' = [ergIn |-> funding,
                        ergOut |-> Cardinality(S) * MIN_SAFE_BOX_VALUE
                                   + minerFee + reissued]
          /\ UNCHANGED <<height, minted>>

\* The operator adds a DistributionFunding box worth v.
AddFunding(v) ==
    /\ funding + v <= MaxFunding
    /\ funding' = funding + v
    /\ UNCHANGED <<height, pool, bundle, minted, paid, outcome, lastTx>>

AdvanceHeight ==
    /\ height < MaxHeight
    /\ height' = height + 1
    /\ UNCHANGED <<pool, bundle, minted, paid, funding, outcome, lastTx>>

Next ==
    \/ AdvanceHeight
    \/ \E d \in Depositors, amt \in DepositAmounts, e \in 0..EpochNum + 1,
          erg \in DepositErgs : Deposit(d, amt, e, erg)
    \/ \E d \in Depositors, x \in DepositAmounts, erg \in RedeemErgs :
          Redeem(d, x, erg)
    \/ \E S \in SUBSET Staked \ {{}} : DistributeRewards(S)
    \/ \E v \in FundingErgs : AddFunding(v)

Spec == Init /\ [][Next]_vars

(* Blocks keep coming, the operator keeps a funding box available, and the *)
(* executor runs the tick's compounding over every live bundle whenever it *)
(* can.  Orders are placed by users and carry no fairness.                 *)
Fairness ==
    /\ WF_vars(AdvanceHeight)
    /\ WF_vars(\E v \in FundingErgs : AddFunding(v))
    /\ WF_vars(Staked # {} /\ DistributeRewards(Staked))

FairSpec == Spec /\ Fairness

-----------------------------------------------------------------------------
(* The program the pool implements: a live bundle is a stake of its vlq,   *)
(* credited through every epoch its tmp no longer covers, and the last     *)
(* compounded epoch is the pool's epoch_ix.                                *)
Program == INSTANCE LMProgram WITH
    Amounts <- DepositAmounts,
    stake <- [d \in Depositors |->
                IF bundle[d] = NoBundle THEN 0 ELSE bundle[d].vlq],
    through <- [d \in Depositors |->
                  IF bundle[d] = NoBundle THEN 0
                  ELSE EpochNum - bundle[d].tmp \div bundle[d].vlq],
    compounded <- IF pool.epoch_ix = NoEpochIx THEN 0 ELSE pool.epoch_ix

-----------------------------------------------------------------------------
TypeOK ==
    /\ height \in 0..MaxHeight
    /\ pool \in PoolRec
    /\ bundle \in [Depositors -> BundleRec \cup {NoBundle}]
    /\ minted \in [Depositors -> Nat]
    /\ paid \in Nat
    /\ funding \in 0..MaxFunding
    /\ outcome \in Outcomes
    /\ lastTx \in [ergIn : Nat, ergOut : Nat]

(* Deposits, redeems and compounding only move tokens between the pool    *)
(* box and the bundles: vlq and tmp held by the pool and by the live       *)
(* bundles add up to what the pool was created with, the pool holds its    *)
(* initial lq plus the lq of every live bundle, and the reward budget      *)
(* plus the rewards paid is the program budget.                            *)
TokenConservation ==
    LET SumVlq == MapThenSumSet(LAMBDA d : bundle[d].vlq, Staked)
        SumTmp == MapThenSumSet(LAMBDA d : bundle[d].tmp, Staked)
    IN  /\ pool.vlq + SumVlq = InitVlq
        /\ pool.tmp + SumTmp = InitTmp
        /\ pool.lq = InitLq + SumVlq
        /\ pool.budget_rem + paid = ProgramBudget

(* distribute_rewards never pays more than one epoch allocation for each  *)
(* epoch it has compounded: the rewards paid so far stay within           *)
(* epoch_alloc times the last compounded epoch index, so budget_rem never  *)
(* runs below the allocation of the epochs still to come.                 *)
RewardsWithinAllocation ==
    LET done == IF pool.epoch_ix = NoEpochIx THEN 0 ELSE pool.epoch_ix
    IN  /\ paid <= EpochAlloc * done
        /\ pool.budget_rem >= 0


(* Every transaction the pool operations build is balanced: the erg of its *)
(* outputs (bundle, user, executor, reward, funding and miner-fee boxes)   *)
(* equals the erg of its inputs, as the ledger requires.  For              *)
(* distribute_rewards this rests on the funding covering one reward box    *)
(* per bundle plus the miner fee.                                          *)
TxBalanced == lastTx.ergOut = lastTx.ergIn


(* apply_deposit reports ProgramExhausted only when no whole epoch is left *)
(* to stake for, i.e. once the last epoch has begun; a deposit made before *)
(* the program starts has every epoch ahead of it.                         *)
ExhaustedOnlyInLastEpoch ==
    outcome = "ProgramExhausted" =>
        height >= ProgramStart + (EpochNum - 1) * EpochLen


(* Once every live bundle has been credited through the last compounded   *)
(* epoch, the round is over and epoch_completed must hold again; otherwise *)
(* apply_deposit and apply_redeem answer LiquidityMoveBlocked, which the   *)
(* executor treats as temporary, for good.                                 *)
RoundEndsOnBoundary ==
    LET last == IF pool.epoch_ix = NoEpochIx THEN 0 ELSE pool.epoch_ix
    IN  (\A d \in Staked : bundle[d].tmp \div bundle[d].vlq <= EpochNum - last)
            => EpochCompleted(pool)

(* Every live bundle is eventually credited for every epoch it was minted *)
(* for (its tmp reaches zero), unless its owner redeems it first: the     *)
(* scheduler ticks for each epoch, including the last one.                *)
RewardsEventuallyCredited ==
    \A d \in Depositors :
        (bundle[d] # NoBundle) ~> (bundle[d] = NoBundle \/ bundle[d].tmp = 0)

(* The tick the scheduler derives from the pool box names the epoch that  *)
(* distribute_rewards then compounds: epochs_left_to_process takes the    *)
(* ceiling of budget_rem less max_rounding_error over epoch_alloc, while  *)
(* distribute_rewards floors budget_rem over epoch_alloc and corrects by  *)
(* epoch_completed, and the two must agree mid-round as well as on a      *)
(* boundary.                                                              *)
TickNamesCompoundedEpoch ==
    \A t \in TicksOf(PoolScheduleOf(pool)) : t.epoch_ix = CompoundingEpochIx(pool)

(* Deposits, redeems and compounding implement the program: every deposit *)
(* stakes for the epochs not yet begun, every compounding is for an ended *)
(* epoch, the last compounded one or the next, and credits each bundle it *)
(* pays exactly through that epoch, within one allocation per epoch.      *)
ImplementsProgram == Program!Spec

=============================================================================
