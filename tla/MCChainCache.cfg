\* One handle taking while another appends: the Busy retry is reached when
\* an append lands between get_for_update and the commit.
CONSTANTS
    a = a  a2 = a2  b = b  c = c  d = d  e = e  g = g
    t1 = t1  t2 = t2  t3 = t3  t4 = t4  t5 = t5
    None = None
    Blocks <- MCBlocks
    Genesis = g
    Parent <- MCParent
    Txs <- MCTxs
    Clients = {h1}
SPECIFICATION Spec
INVARIANTS TypeOK TakeNeverPanics LedgerFollowsChain
PROPERTY ImplementsChainStack
