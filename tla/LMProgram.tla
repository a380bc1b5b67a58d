------------------------------ MODULE LMProgram ------------------------------
(***************************************************************************)
(* What a liquidity-mining program promises its stakers (spec sections 3  *)
(* and 4): a stake enters for the epochs that have not begun, each epoch   *)
(* is compounded only once it has ended and in order, a compounding        *)
(* credits every stake it covers for exactly the epochs since its last     *)
(* credit, and the program never pays more than one allocation for each    *)
(* epoch compounded.  LMPool refines this module.                         *)
(***************************************************************************)
EXTENDS Naturals, FiniteSetsExt

CONSTANTS
    Depositors,     \* stakers, one stake each
    Amounts,        \* the stakes a depositor may enter
    EpochLen, EpochNum, ProgramStart, ProgramBudget,
    MaxHeight       \* bound on the block height

VARIABLES
    height,         \* the current block height
    stake,          \* stake[d]: d's staked liquidity, 0 when none
    through,        \* through[d]: the last epoch d's stake is credited for
    compounded,     \* the epoch the last compounding was for, 0 before any
    paid            \* rewards paid so far

vars == <<height, stake, through, compounded, paid>>

EpochAlloc == ProgramBudget \div EpochNum

\* Epochs whose first block is at or below height h.
EpochsBegun(h) ==
    IF h < ProgramStart THEN 0
    ELSE Min({(h - ProgramStart) \div EpochLen + 1, EpochNum})

\* Epochs whose last block is below height h.
EpochsEnded(h) ==
    IF h < ProgramStart THEN 0
    ELSE Min({(h - ProgramStart) \div EpochLen, EpochNum})

Init ==
    /\ height = 0
    /\ stake = [d \in Depositors |-> 0]
    /\ through = [d \in Depositors |-> 0]
    /\ compounded = 0
    /\ paid = 0

Tick ==
    /\ height < MaxHeight
    /\ height' = height + 1
    /\ UNCHANGED <<stake, through, compounded, paid>>

\* A stake is entered while an epoch is still to begin; it is credited as
\* if it had been through every epoch already begun, so it earns only the
\* epochs it spends whole in the program.
Stake(d, v) ==
    /\ stake[d] = 0
    /\ EpochsBegun(height) < EpochNum
    /\ stake' = [stake EXCEPT ![d] = v]
    /\ through' = [through EXCEPT ![d] = EpochsBegun(height)]
    /\ UNCHANGED <<height, compounded, paid>>

Unstake(d) ==
    /\ stake[d] # 0
    /\ stake' = [stake EXCEPT ![d] = 0]
    /\ through' = [through EXCEPT ![d] = 0]
    /\ UNCHANGED <<height, compounded, paid>>

\* Epoch k is compounded for the stakes in S: k has ended and is the epoch
\* of the last compounding or the one after it, each stake in S is owed
\* something and is credited through k, and the rewards paid stay within
\* k allocations.
Compound(S, k) ==
    /\ k \in {compounded, compounded + 1}
    /\ 1 <= k /\ k <= EpochsEnded(height)
    /\ \A d \in S : stake[d] # 0 /\ through[d] < k
    /\ through' = [d \in Depositors |-> IF d \in S THEN k ELSE through[d]]
    /\ compounded' = k
    /\ paid' \in paid..EpochAlloc * k
    /\ UNCHANGED <<height, stake>>

Next ==
    \/ Tick
    \/ \E d \in Depositors, v \in Amounts : Stake(d, v)
    \/ \E d \in Depositors : Unstake(d)
    \/ \E S \in SUBSET Depositors, k \in 1..EpochNum : Compound(S, k)

Spec == Init /\ [][Next]_vars
=============================================================================
