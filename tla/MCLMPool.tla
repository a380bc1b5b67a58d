------------------------------ MODULE MCLMPool ------------------------------
(* Model-checking instance of LMPool: the program start and the height    *)
(* bound, relative to the epoch constants the .cfg files set.              *)
EXTENDS LMPool

MCProgramStart == 1

\* A program that starts two epochs after the pool box is created.
MCProgramStartLate == 1 + 2 * EpochLen
MCMaxHeight == ProgramStart + EpochLen * EpochNum + 1

\* Stakes entered only before the program starts (a later deposit is only
\* rejected), so that every bundle is minted for all epochs and every
\* compounding batch credits it.
MCNextStakeBeforeStart ==
    \/ AdvanceHeight
    \/ /\ \E d \in Depositors, amt \in DepositAmounts, e \in 0..EpochNum + 1,
             erg \in DepositErgs : Deposit(d, amt, e, erg)
       /\ height < ProgramStart \/ outcome' # "ok"
    \/ \E d \in Depositors, x \in DepositAmounts, erg \in RedeemErgs :
          Redeem(d, x, erg)
    \/ \E S \in SUBSET Staked \ {{}} : DistributeRewards(S)
    \/ \E v \in FundingErgs : AddFunding(v)
MCFairSpecStakeBeforeStart == Init /\ [][MCNextStakeBeforeStart]_vars /\ Fairness
=============================================================================
