------------------------------ MODULE EvmChain ------------------------------
(***************************************************************************)
(* The blocks and transactions of an account chain in MongoDB, as the      *)
(* worker of providers/chain-state/evm/p2p/p2p.ts keeps them without       *)
(* threads: it follows the node, and when the node has changed its mind    *)
(* it deletes blocks and tries again (evm/models/block.ts).  Transactions  *)
(* that the node has not yet put into a block come by a subscription, and  *)
(* are written at the same time (evm/models/transaction.ts).               *)
(*                                                                         *)
(* Each call to the node and each write to the database is a step; only    *)
(* this process writes the blocks, so that what it reads of them belongs   *)
(* to the next write.  Wallet tags, events, balances in the cache and the  *)
(* forks of a parent chain are left out.                                   *)
(***************************************************************************)
EXTENDS Integers, FiniteSets

CONSTANTS Block, Root,     \* the blocks; Root is before the first of them
          Parent, Height,
          Weight,          \* total difficulty
          Tx, TxsOf,       \* the transactions of each block
          Slot,            \* sender and nonce of a transaction
          Relayed,         \* the transactions that come by subscription
          Absent,          \* no such document
          MaxFaults        \* bound on database errors and crashes

ASSUME TreeAssumption ==
    /\ Root \notin Block
    /\ Parent \in [Block -> Block \cup {Root}]
    /\ \E b \in Block : Parent[b] = Root
    /\ Height \in [Block -> Nat]
    /\ \A b \in Block : Height[b] = IF Parent[b] = Root THEN 0 ELSE Height[Parent[b]] + 1
    /\ Weight \in [Block -> Nat]
    /\ \A S \in SUBSET Block :
          (\A b, c \in S : Height[b] = Height[c]) => Cardinality(S) <= 2
ASSUME TxAssumption ==
    TxsOf \in [Block -> SUBSET Tx] /\ Relayed \subseteq Tx /\ Absent \notin Int
ASSUME FaultAssumption == MaxFaults \in Nat

VARIABLES state,    \* of each block: not stored, written, or processed
          next,     \* its nextBlockHash
          txs,      \* the blockHeight of each transaction
          complete, \* initialSyncComplete of the state document
          job,      \* what the sync does
          retry,    \* will it be tried again after a delay?
          relay,    \* what is left to do for each relayed transaction
          seen,     \* invCache
          peer,     \* the last block of the node
          news,     \* is the header of a new block on its way?
          fetched,  \* history: peer when a block was last fetched
          faults,   \* faults so far
          torn      \* history: what crashes and errors have left undone

blocks == <<state, next>>
net == <<peer, news>>
mempool == <<relay, seen>>
vars == <<blocks, txs, complete, job, retry, mempool, net, fetched, faults, torn>>

-----------------------------------------------------------------------------
\* State

pending == -1
conflicting == -3

Stage == {"idle", "start", "fetch", "check", "reorg", "wipe", "reject",
          "import", "link", "mark", "ask", "finish"}

\* height, best, block: of the loop; from, left, then: what is deleted or
\* imported now, and the stage after it.
Job == [at : Stage, check : BOOLEAN, height : Nat, best : Nat,
        block : Block \cup {Root}, from : Nat,
        left : SUBSET {"blocks", "txs", "prune"}, then : Stage]

NoJob == [at |-> "idle", check |-> FALSE, height |-> 0, best |-> 0,
          block |-> Root, from |-> 0, left |-> {}, then |-> "idle"]

TypeOK ==
    /\ state \in [Block -> {"none", "written", "processed"}]
    /\ next \in [Block -> Block \cup {Root}]
    /\ txs \in [Tx -> Nat \cup {pending, conflicting, Absent}]
    /\ complete \in BOOLEAN /\ retry \in BOOLEAN /\ news \in BOOLEAN
    /\ job \in Job
    /\ relay \in [Tx -> SUBSET {"prune", "insert"}] /\ seen \subseteq Tx
    /\ peer \in Block /\ fetched \in Block \cup {Root}
    /\ faults \in 0 .. MaxFaults
    /\ torn \subseteq {"wipe", "import"}

First == CHOOSE b \in Block : Parent[b] = Root

\* start() syncs as soon as it is connected.
Init ==
    /\ state = [b \in Block |-> "none"]
    /\ next = [b \in Block |-> Root]
    /\ txs = [t \in Tx |-> Absent]
    /\ complete = FALSE
    /\ job = [NoJob EXCEPT !.at = "start"]
    /\ retry = FALSE
    /\ relay = [t \in Tx |-> {}] /\ seen = {}
    /\ peer = First /\ news = FALSE
    /\ fetched = Root
    /\ faults = 0 /\ torn = {}

\* The chain that ends in block p: what every set holds that has p and the
\* parents of its blocks.
Branch == [p \in Block |->
             {b \in Block : \A S \in SUBSET Block :
                 p \in S /\ (\A c \in S : Parent[c] \in S \cup {Root}) => b \in S}]

Stored == {b \in Block : state[b] # "none"}
Processed == {b \in Block : state[b] = "processed"}

\* getLocalTip: a processed block of the greatest height.
LocalTip == {b \in Processed : \A c \in Processed : Height[c] <= Height[b]}

\* What it answers: one of them, or nothing.
Tips == IF LocalTip = {} THEN {{}} ELSE {{b} : b \in LocalTip}

-----------------------------------------------------------------------------
\* Reorgs

\* validateLocatorHashes compares each processed block with those before and
\* after it in descending height; lead says who comes first of two blocks of
\* one height.
Before(b, c, lead) ==
    \/ Height[b] > Height[c]
    \/ Height[b] = Height[c] /\ b \in lead /\ c \notin lead

Leads == {lead \in SUBSET Processed :
            \A b, c \in Processed : b # c /\ Height[b] = Height[c]
                                        => (b \in lead) # (c \in lead)}

Unlinked(lead) ==
    {p \in Processed \X Processed :
        /\ Before(p[1], p[2], lead)
        /\ ~ \E b \in Processed : Before(p[1], b, lead) /\ Before(b, p[2], lead)
        /\ ~ (next[p[2]] = p[1] /\ Parent[p[1]] = p[2])}

Mismatched(lead) == UNION {{p[1], p[2]} : p \in Unlinked(lead)}

IsLast(b, S, lead) == b \in S /\ \A c \in S \ {b} : Before(c, b, lead)

\* The next stage; the import of the transactions marks those that they replace
\* once the first sync is complete, and writes them, at the same time.
To(stage) ==
    job' = [job EXCEPT !.at = stage,
              !.left = IF stage # "import" THEN {}
                       ELSE IF job.check THEN {"prune", "txs"} ELSE {"txs"}]

Done(what) ==
    IF job.left = {what} THEN To(job.then)
                         ELSE job' = [job EXCEPT !.left = @ \ {what}]

\* handleReorg for block b, with the tip it finds: is there nothing to do?
InOrder(b, tip) == tip = {} \/ \E c \in tip :
    c = Parent[b] \/ c = b \/ Height[c] = 0

\* Mutant: from the block below, or from the block above.
WipeFromBelow(b, tip) ==
    IF Parent[b] \in Stored THEN Height[Parent[b]] - 1
    ELSE Height[CHOOSE c \in tip : TRUE]

WipeFromAbove(b, tip) ==
    IF Parent[b] \in Stored THEN Height[Parent[b]]
    ELSE Height[CHOOSE c \in tip : TRUE] + 1

\* The height it deletes from, that of the parent if it is stored.
WipeFrom(b, tip) ==
    IF Parent[b] \in Stored THEN Height[Parent[b]]
    ELSE Height[CHOOSE c \in tip : TRUE]

\* It finds a reorg only if the parent is not stored.
HandleReorg(b, otherwise) ==
    \E tip \in Tips :
        IF InOrder(b, tip)
        THEN To(otherwise)
        ELSE job' = [job EXCEPT
                !.at = "wipe", !.from = WipeFrom(b, tip), !.left = {"blocks", "txs"},
                !.then = IF Parent[b] \in Stored THEN otherwise ELSE "reject"]

\* Mutant: only the block itself is looked at.
CheckNothing ==
    /\ job.at = "check"
    /\ To("reorg")
    /\ UNCHANGED <<blocks, txs, complete, retry, mempool, net, fetched, faults, torn>>

\* addBlock: first the lowest of the blocks that are not linked,
Check ==
    /\ job.at = "check"
    /\ \E lead \in Leads :
          IF Mismatched(lead) = {}
          THEN To("reorg")
          ELSE \E b \in Block :
                   IsLast(b, Mismatched(lead), lead) /\ HandleReorg(b, "reorg")
    /\ UNCHANGED <<blocks, txs, complete, retry, mempool, net, fetched, faults, torn>>

\* and then the block itself.
Reorg ==
    /\ job.at = "reorg"
    /\ HandleReorg(job.block, "import")
    /\ UNCHANGED <<blocks, txs, complete, retry, mempool, net, fetched, faults, torn>>

\* Both collections are cleared at the same time.
WipeBlocks ==
    /\ job.at = "wipe" /\ "blocks" \in job.left
    /\ state' = [b \in Block |-> IF Height[b] >= job.from THEN "none" ELSE state[b]]
    /\ next' = [b \in Block |-> IF Height[b] >= job.from THEN Root ELSE next[b]]
    /\ Done("blocks")
    /\ UNCHANGED <<txs, complete, retry, mempool, net, fetched, faults, torn>>

\* Mutant: the transactions of the lowest block stay.
WipeTxsAbove ==
    /\ job.at = "wipe" /\ "txs" \in job.left
    /\ txs' = [t \in Tx |-> IF txs[t] # Absent /\ txs[t] > job.from
                            THEN Absent ELSE txs[t]]
    /\ Done("txs")
    /\ UNCHANGED <<blocks, complete, retry, mempool, net, fetched, faults, torn>>

WipeTxs ==
    /\ job.at = "wipe" /\ "txs" \in job.left
    /\ txs' = [t \in Tx |-> IF txs[t] # Absent /\ txs[t] >= job.from
                            THEN Absent ELSE txs[t]]
    /\ Done("txs")
    /\ UNCHANGED <<blocks, complete, retry, mempool, net, fetched, faults, torn>>

\* The promise is rejected: sync waits and tries again.
Reject ==
    /\ job.at = "reject"
    /\ job' = NoJob
    /\ retry' = TRUE
    /\ UNCHANGED <<blocks, txs, complete, mempool, net, fetched, faults, torn>>

-----------------------------------------------------------------------------
\* The import of a block (processBlock)

ImportTxs ==
    /\ job.at = "import" /\ "txs" \in job.left
    /\ txs' = [t \in Tx |-> IF t \in TxsOf[job.block] THEN job.height ELSE txs[t]]
    /\ job' = [job EXCEPT !.left = @ \ {"txs"}]
    /\ UNCHANGED <<blocks, complete, retry, mempool, net, fetched, faults, torn>>

\* What waits with the sender and nonce of a transaction of the block cannot
\* be confirmed any more.
PruneMempool ==
    /\ job.at = "import" /\ "prune" \in job.left
    /\ txs' = [t \in Tx |->
                 IF txs[t] = pending
                    /\ \E u \in TxsOf[job.block] \ {t} : Slot[u] = Slot[t]
                 THEN conflicting ELSE txs[t]]
    /\ job' = [job EXCEPT !.left = @ \ {"prune"}]
    /\ UNCHANGED <<blocks, complete, retry, mempool, net, fetched, faults, torn>>

\* The block replaces the one stored, and is not processed.
Write ==
    /\ job.at = "import" /\ job.left = {}
    /\ state' = [state EXCEPT ![job.block] = "written"]
    /\ next' = [next EXCEPT ![job.block] = Root]
    /\ To("link")
    /\ UNCHANGED <<txs, complete, retry, mempool, net, fetched, faults, torn>>

Link ==
    /\ job.at = "link"
    /\ next' = IF Parent[job.block] \in Stored
               THEN [next EXCEPT ![Parent[job.block]] = job.block] ELSE next
    /\ To("mark")
    /\ UNCHANGED <<state, txs, complete, retry, mempool, net, fetched, faults, torn>>

\* The loop asks for the height of the node when it has reached the one known.
Mark ==
    /\ job.at = "mark"
    /\ state' = [state EXCEPT ![job.block] = "processed"]
    /\ To("ask")
    /\ UNCHANGED <<next, txs, complete, retry, mempool, net, fetched, faults, torn>>

-----------------------------------------------------------------------------
\* The loop (syncBlocks)

Loop(height, best) ==
    job' = [NoJob EXCEPT !.at = IF height <= best THEN "fetch" ELSE "finish",
                         !.check = job.check, !.height = height, !.best = best]

\* It starts with the tip itself.
Start ==
    /\ job.at = "start"
    /\ \E tip \in Tips : LET h == IF tip = {} THEN 0 ELSE Height[CHOOSE b \in tip : TRUE] IN
          job' = [NoJob EXCEPT !.at = IF h <= Height[peer] THEN "fetch" ELSE "finish",
                               !.check = complete, !.height = h, !.best = Height[peer]]
    /\ UNCHANGED <<blocks, txs, complete, retry, mempool, net, fetched, faults, torn>>

Fetch ==
    /\ job.at = "fetch"
    /\ \E b \in Block :
          /\ Height[b] = job.height /\ b \in Branch[peer]
          /\ job' = [job EXCEPT !.block = b,
                                !.at = IF job.check THEN "check" ELSE "import",
                                !.left = IF job.check THEN {} ELSE {"txs"}]
    /\ fetched' = peer
    /\ UNCHANGED <<blocks, txs, complete, retry, mempool, net, faults, torn>>

\* Mutant: the height of the node is asked for once.
AdvanceBlind ==
    /\ job.at = "ask"
    /\ \E b \in LocalTip : Loop(Height[b] + 1, job.best)
    /\ UNCHANGED <<blocks, txs, complete, retry, mempool, net, fetched, faults, torn>>

Advance ==
    /\ job.at = "ask"
    /\ LET best == IF job.height = job.best THEN Height[peer] ELSE job.best
       IN  \E b \in LocalTip : Loop(Height[b] + 1, best)
    /\ UNCHANGED <<blocks, txs, complete, retry, mempool, net, fetched, faults, torn>>

\* Nobody waits for the update of the state document.
Finish ==
    /\ job.at = "finish"
    /\ job' = NoJob
    /\ complete' = TRUE
    /\ UNCHANGED <<blocks, txs, retry, mempool, net, fetched, faults, torn>>

\* The header of a new block, or the end of a delay, starts a sync unless one
\* is at work.
Begin == job' = IF job.at = "idle" THEN [NoJob EXCEPT !.at = "start"] ELSE job

Announce ==
    /\ news
    /\ news' = FALSE
    /\ Begin
    /\ UNCHANGED <<blocks, txs, complete, retry, mempool, peer, fetched, faults, torn>>

Retry ==
    /\ retry
    /\ retry' = FALSE
    /\ Begin
    /\ UNCHANGED <<blocks, txs, complete, mempool, net, fetched, faults, torn>>

-----------------------------------------------------------------------------
\* Transactions of the subscription (processTransaction)

Receive(t) ==
    /\ t \in Relayed \ seen
    /\ seen' = seen \cup {t}
    /\ relay' = [relay EXCEPT ![t] = {"prune", "insert"}]
    /\ UNCHANGED <<blocks, txs, complete, job, retry, net, fetched, faults, torn>>

RelayPrune(t) ==
    /\ "prune" \in relay[t]
    /\ relay' = [relay EXCEPT ![t] = @ \ {"prune"}]
    /\ txs' = [u \in Tx |-> IF u # t /\ txs[u] = pending /\ Slot[u] = Slot[t]
                            THEN conflicting ELSE txs[u]]
    /\ UNCHANGED <<blocks, complete, job, retry, seen, net, fetched, faults, torn>>

\* Mutant: it overwrites what is stored.
RelayOverwrites(t) ==
    /\ "insert" \in relay[t]
    /\ relay' = [relay EXCEPT ![t] = @ \ {"insert"}]
    /\ txs' = [txs EXCEPT ![t] = pending]
    /\ UNCHANGED <<blocks, complete, job, retry, seen, net, fetched, faults, torn>>

\* A transaction that is stored is left as it is.
RelayInsert(t) ==
    /\ "insert" \in relay[t]
    /\ relay' = [relay EXCEPT ![t] = @ \ {"insert"}]
    /\ txs' = IF txs[t] = Absent THEN [txs EXCEPT ![t] = pending] ELSE txs
    /\ UNCHANGED <<blocks, complete, job, retry, seen, net, fetched, faults, torn>>

-----------------------------------------------------------------------------
\* The node, errors and crashes

\* A heavier chain, that is not shorter.
NewBlock ==
    /\ \E b \in Block :
          Weight[b] > Weight[peer] /\ Height[b] >= Height[peer] /\ peer' = b
    /\ news' = TRUE
    /\ UNCHANGED <<blocks, txs, complete, job, retry, mempool, fetched, faults, torn>>

\* A deletion or an import that is cut short.
Torn ==
    IF job.at = "wipe" /\ job.left # {"blocks", "txs"} THEN {"wipe"}
    ELSE IF job.at \in {"import", "link", "mark"} THEN {"import"} ELSE {}

\* A call to the database fails.
Fault ==
    /\ faults < MaxFaults
    /\ faults' = faults + 1
    /\ job.at # "idle"
    /\ job' = NoJob
    /\ retry' = (retry \/ job.at # "finish")
    /\ torn' = torn \cup Torn
    /\ UNCHANGED <<blocks, txs, complete, mempool, net, fetched>>

Crash ==
    /\ faults < MaxFaults
    /\ faults' = faults + 1
    /\ job' = [NoJob EXCEPT !.at = "start"]
    /\ retry' = FALSE /\ news' = FALSE
    /\ relay' = [t \in Tx |-> {}] /\ seen' = {}
    /\ torn' = torn \cup Torn
    /\ UNCHANGED <<blocks, txs, complete, peer, fetched>>

Step ==
    \/ Start \/ Fetch \/ Check \/ Reorg \/ WipeBlocks \/ WipeTxs \/ Reject
    \/ ImportTxs \/ PruneMempool \/ Write \/ Link \/ Mark \/ Advance \/ Finish

Next ==
    \/ Step \/ Announce \/ Retry \/ NewBlock \/ Fault \/ Crash
    \/ \E t \in Tx : Receive(t) \/ RelayPrune(t) \/ RelayInsert(t)

Spec == Init /\ [][Next]_vars

\* The process goes on, headers arrive and delays end.
FairSpec == Spec /\ WF_vars(Step) /\ WF_vars(Announce) /\ WF_vars(Retry)

-----------------------------------------------------------------------------
\* Properties

\* Nothing is on its way, and the node is where it was when it was asked for a
\* block last.
AtRest == job.at = "idle" /\ ~retry /\ ~news /\ peer = fetched

\* A sync that rests has come to the last block of the node, whatever was
\* deleted on the way (syncBlocks, handleReorg, and the retries of sync).
FollowsNode == AtRest /\ complete => peer \in LocalTip

\* Once the first sync is complete a block is imported only when all that is
\* stored is one chain (validateLocatorHashes, handleReorg): a hole that a
\* reorg left has been found and deleted, with what was above it.  Two blocks
\* of one height can only be left by a first sync that was cut short.
ImportsOntoChain ==
    job.check /\ job.at = "import"
        /\ (\A b, c \in Processed : Height[b] = Height[c] => b = c)
    => \A lead \in Leads : Mismatched(lead) = {}

\* The transactions that only this block has.  One that a block of another
\* branch has too is confirmed by whichever was imported last: a first sync
\* checks nothing, and when it has crossed a fork a later reorg that deletes
\* the other block deletes the transaction of both.
Own == [b \in Block |-> {t \in TxsOf[b] : \A c \in Block \ {b} : t \notin TxsOf[c]}]

TxsOfProcessed ==
    job.at # "wipe" /\ "wipe" \notin torn =>
        \A b \in Processed : \A t \in Own[b] : txs[t] = Height[b]

ConfirmedInBlock ==
    AtRest /\ torn = {} =>
        \A t \in Tx : txs[t] # Absent /\ txs[t] >= 0 =>
            \E b \in Stored : t \in TxsOf[b] /\ Height[b] = txs[t]

\* The transactions of a processed block are stored, and confirmed at its
\* height (processBlock puts them in first), except while a deletion is at
\* work or after one was cut short; and a confirmed transaction is one of a
\* stored block (handleReorg deletes both), unless an import or a deletion was
\* cut short.
TxsMatchBlocks == TxsOfProcessed /\ ConfirmedInBlock

\* What the subscription brings, late or not, changes nothing that a block has
\* confirmed (toMempoolSafeUpsert, pruneMempool).
ConfirmedKept ==
    [][\A t \in Tx : txs[t] # Absent /\ txs[t] >= 0 /\ txs'[t] # txs[t]
            => WipeTxs \/ ImportTxs]_vars

\* Every sync comes to rest: each retry after a reorg has deleted something.
SyncRests == []<>(job.at = "idle" /\ ~retry)
=============================================================================
