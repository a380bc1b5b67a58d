----------------------------- MODULE ChainStack -----------------------------
(***************************************************************************)
(* What the chain cache promises its user, the chain sync: it holds a      *)
(* connected chain of blocks.  append_block puts a child of the best block *)
(* on top; take_best_block removes the best block and hands it back, and   *)
(* its parent becomes the best block.  The cache is a stack of blocks, each *)
(* the parent of the next.  ChainCache refines this module.               *)
(***************************************************************************)
EXTENDS Naturals, Sequences

CONSTANTS
    Blocks,     \* block ids
    Genesis,    \* the parent of the first block the sync appends
    Parent      \* Parent[b]: the block b was mined on

VARIABLE chain  \* the cached blocks, oldest first

\* The block a new block must extend.
Tip == IF chain = <<>> THEN Genesis ELSE chain[Len(chain)]

Init == chain = <<>>

\* append_block: the sync rolls forward onto a child of the tip.
Push(b) ==
    /\ Parent[b] = Tip
    /\ chain' = Append(chain, b)

\* take_best_block: the tip is rolled back and returned.
Pop ==
    /\ chain # <<>>
    /\ chain' = SubSeq(chain, 1, Len(chain) - 1)

Next == Pop \/ \E b \in Blocks : Push(b)

Spec == Init /\ [][Next]_chain

=============================================================================
