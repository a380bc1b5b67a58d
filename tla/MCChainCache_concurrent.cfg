\* Two handles taking concurrently: the second reads the bodies the first
\* has just deleted, before its commit could fail with Busy.
CONSTANTS
    a = a  a2 = a2  b = b  c = c  d = d  e = e  g = g
    t1 = t1  t2 = t2  t3 = t3  t4 = t4  t5 = t5
    None = None
    Blocks <- MCBlocks
    Genesis = g
    Parent <- MCParent
    Txs <- MCTxs
    Clients = {h1, h2}
SPECIFICATION Spec
INVARIANT TakeNeverPanics
