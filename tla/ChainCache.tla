----------------------------- MODULE ChainCache -----------------------------
(***************************************************************************)
(* ChainCacheRocksDB (ergo-chain-sync/src/cache/rocksdb.rs) over one       *)
(* OptimisticTransactionDB shared by several handles, and the event source *)
(* (spectrum-offchain/src/event_source.rs) that turns the chain upgrades   *)
(* the cache yields into applied and unapplied transaction events.         *)
(*                                                                         *)
(* The key space is abstracted to what the operations read and write:      *)
(*   {HB}:p, {HB}:h, {HB}:t   written together by append_block, never      *)
(*                            deleted: the set stored;                     *)
(*   {HT}                     the transaction bodies: the set body;        *)
(*   BEST_BLOCK               best, or None when the key is absent.        *)
(* append_block is one atomic write batch.  take_best_block is an          *)
(* optimistic transaction split at the points where another handle's       *)
(* commit can land: get_for_update of BEST_BLOCK, the reads, the commit.   *)
(***************************************************************************)
EXTENDS Sequences, SequencesExt

CONSTANTS
    Blocks, Genesis, Parent,
    Txs,        \* Txs[b]: the transaction ids of block b, in block order
    Clients,    \* ChainCacheRocksDB handles sharing the database
    None

VARIABLES
    stored,     \* blocks whose :p, :h and :t keys are present
    body,       \* transaction ids whose body key is present
    best,       \* the BEST_BLOCK record's block id, or None
    pc,         \* take_best_block's progress per handle
    tblk,       \* the best block read by get_for_update, per handle
    dirty,      \* BEST_BLOCK written by another commit since get_for_update
    ledger      \* the consumer of the event stream: [txs, ordered]

vars == <<stored, body, best, pc, tblk, dirty, ledger>>

TxSet(b) == ToSet(Txs[b])

\* get_best_block: the BEST_BLOCK record, if the key is present.
GetBestBlock == best

\* The sync rolls forward only onto a child of its tip: the best block, or
\* the sync's start point when the cache is empty.
SyncExtends(b) == Parent[b] = IF GetBestBlock = None THEN Genesis ELSE GetBestBlock

\* process_upgrade: a block's transactions as events, in block order when
\* rolling forward and in reverse order when rolling backward.
ProcessUpgradeForward(up) ==
    [i \in 1..Len(Txs[up.blk]) |-> [applied |-> up.forward, tx |-> Txs[up.blk][i]]]
ProcessUpgrade(up) ==
    LET txs == IF up.forward THEN Txs[up.blk] ELSE Reverse(Txs[up.blk])
    IN  [i \in 1..Len(txs) |-> [applied |-> up.forward, tx |-> txs[i]]]

\* The event consumer keeps the applied transactions as a stack; an
\* unapplied transaction must be the latest applied one.
Consume(l, e) ==
    IF e.applied THEN [l EXCEPT !.txs = Append(@, e.tx)]
    ELSE IF l.txs # <<>> /\ Last(l.txs) = e.tx
         THEN [l EXCEPT !.txs = Front(@)]
         ELSE [l EXCEPT !.ordered = FALSE]

\* event_source flat-maps each upgrade into the stream.
Emit(up) == ledger' = FoldLeft(Consume, ledger, ProcessUpgrade(up))

\* A write of BEST_BLOCK: every handle that has read it with get_for_update
\* will see a conflict at its commit.
Conflict == [c \in Clients |-> dirty[c] \/ pc[c] \in {"read", "held"}]

Init ==
    /\ stored = {}
    /\ body = {}
    /\ best = None
    /\ pc = [c \in Clients |-> "idle"]
    /\ tblk = [c \in Clients |-> None]
    /\ dirty = [c \in Clients |-> FALSE]
    /\ ledger = [txs |-> <<>>, ordered |-> TRUE]

\* append_block: one write batch with :p, :h, :t, the bodies and BEST_BLOCK.
AppendBlock(b) ==
    /\ SyncExtends(b)
    /\ stored' = stored \cup {b}
    /\ body' = body \cup TxSet(b)
    /\ best' = b
    /\ dirty' = Conflict
    /\ Emit([forward |-> TRUE, blk |-> b])
    /\ UNCHANGED <<pc, tblk>>

\* take_best_block begins: get_for_update(BEST_BLOCK); None if absent.
TakeBegin(c) ==
    /\ pc[c] \in {"idle", "start"}
    /\ pc' = [pc EXCEPT ![c] = IF best = None THEN "idle" ELSE "read"]
    /\ tblk' = [tblk EXCEPT ![c] = best]
    /\ dirty' = [dirty EXCEPT ![c] = FALSE]
    /\ UNCHANGED <<stored, body, best, ledger>>

\* The plain reads of :t, of every body (get().unwrap()) and of :p.  They
\* see the latest committed state; a missing body panics.
TakeRead(c) ==
    /\ pc[c] = "read"
    /\ pc' = [pc EXCEPT ![c] = IF TxSet(tblk[c]) \subseteq body THEN "held" ELSE "panic"]
    /\ UNCHANGED <<stored, body, best, tblk, dirty, ledger>>

\* The optimistic commit validates the key read with get_for_update.
CommitOkUntracked(c) == TRUE
CommitOk(c) == ~dirty[c]

\* BEST_BLOCK after taking b: deleted, then set to the parent if the
\* parent's :p key exists.
NewBestUnguarded(b) == Parent[b]
NewBestKept(b) == IF Parent[b] \in stored THEN Parent[b] ELSE best
NewBest(b) == IF Parent[b] \in stored THEN Parent[b] ELSE None

\* The commit fails with Busy and the loop starts over.
TakeBusy(c) ==
    /\ pc[c] = "held"
    /\ ~CommitOk(c)
    /\ pc' = [pc EXCEPT ![c] = "start"]
    /\ UNCHANGED <<stored, body, best, tblk, dirty, ledger>>

\* The commit succeeds: the bodies are deleted, BEST_BLOCK moves to
\* NewBest, and the block is returned and rolled back.
TakeCommit(c) ==
    /\ pc[c] = "held"
    /\ CommitOk(c)
    /\ body' = body \ TxSet(tblk[c])
    /\ best' = NewBest(tblk[c])
    /\ dirty' = Conflict
    /\ pc' = [pc EXCEPT ![c] = "idle"]
    /\ tblk' = [tblk EXCEPT ![c] = None]
    /\ Emit([forward |-> FALSE, blk |-> tblk[c]])
    /\ UNCHANGED stored

Next ==
    \/ \E b \in Blocks : AppendBlock(b)
    \/ \E c \in Clients :
        TakeBegin(c) \/ TakeRead(c) \/ TakeBusy(c) \/ TakeCommit(c)

Spec == Init /\ [][Next]_vars

-----------------------------------------------------------------------------
(* The chain the cache holds: from BEST_BLOCK down the :p links, as far as  *)
(* take_best_block would walk them.                                        *)
RECURSIVE ChainTo(_)
ChainTo(b) == IF b \in stored THEN Append(ChainTo(Parent[b]), b) ELSE <<>>

CachedChain == IF best = None THEN <<>> ELSE ChainTo(best)

Stack == INSTANCE ChainStack WITH chain <- CachedChain

TypeOK ==
    /\ stored \subseteq Blocks
    /\ best \in Blocks \cup {None}
    /\ pc \in [Clients -> {"idle", "start", "read", "held", "panic"}]
    /\ tblk \in [Clients -> Blocks \cup {None}]
    /\ dirty \in [Clients -> BOOLEAN]

\* take_best_block never reaches the get().unwrap() of a transaction body
\* that is absent (rocksdb.rs:125): the bodies of every block it can walk
\* back to are still stored when it reads them.
TakeNeverPanics == \A c \in Clients : pc[c] # "panic"

\* The event stream built by process_upgrade from the blocks the cache
\* appends and takes leaves its consumer with exactly the transactions of
\* the cached chain, in order, and every UnappliedTx names the latest
\* transaction still applied.
LedgerFollowsChain ==
    /\ ledger.ordered
    /\ ledger.txs = FlattenSeq([i \in 1..Len(CachedChain) |-> Txs[CachedChain[i]]])

\* append_block and take_best_block, over concurrent handles, implement a
\* stack of connected blocks: no append is lost and no take removes more
\* than the best block.
ImplementsChainStack == Stack!Spec
=============================================================================
