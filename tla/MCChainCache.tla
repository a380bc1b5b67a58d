---------------------------- MODULE MCChainCache ----------------------------
(* A block tree forked at the genesis parent: four blocks a, b, c, e on   *)
(* one branch and two, a2 and d, on the other.  t1, t2 and t4 are mined in *)
(* both forks, and blocks hold two transactions, so the order a roll-back  *)
(* unapplies them is seen.                                                 *)
EXTENDS ChainCache

CONSTANTS a, a2, b, c, d, e, g, t1, t2, t3, t4, t5

MCBlocks == {a, a2, b, c, d, e}
MCParent == (a :> g) @@ (a2 :> g) @@ (b :> a) @@ (c :> b) @@ (d :> a2) @@ (e :> c)
MCTxs == (a :> <<t1, t2>>) @@ (a2 :> <<t2, t3>>) @@ (b :> <<t3>>) @@ (c :> <<t4>>) @@ (d :> <<t1, t4>>)
        @@ (e :> <<t5>>)
=============================================================================
