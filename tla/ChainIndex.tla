----------------------------- MODULE ChainIndex -----------------------------
(***************************************************************************)
(* The index of a UTXO chain that ducatuscore-node keeps in MongoDB: the   *)
(* collections blocks, transactions and coins of src/models/block.ts,      *)
(* src/models/transaction.ts and src/models/coin.ts, written by the worker *)
(* of src/modules/bitcoin/p2p.ts.                                          *)
(*                                                                         *)
(* One process syncs the blocks that a peer announces; each transaction    *)
(* that the peer relays is imported by a handler of its own, at the same   *)
(* time.  Both go through batchImport: mint the outputs, prune the         *)
(* transactions of the mempool that are replaced, spend the inputs, write  *)
(* the transactions.  Each call to the database is a step; the process may *)
(* stop, and the database may fail, between any two.                       *)
(*                                                                         *)
(* A batch (bulkWrite, updateMany) is one step.  Wallet tags, fees, events *)
(* and forks of a parent chain are left out.                               *)
(***************************************************************************)
EXTENDS Integers, FiniteSets

CONSTANTS Block, Root,   \* the block tree; Root is the genesis block
          Parent, Height,
          Tx, NoTx, TxsOf,   \* the transactions of each block
          Coin, Minter,      \* the outputs, and who mints them
          Spends,            \* the outputs each transaction spends
          Sync, Relay,       \* the sync, and the handlers of relayed transactions
          Absent,            \* no such document
          MaxFaults          \* bound on the faults

ASSUME TreeAssumption ==
    /\ Root \notin Block
    /\ Parent \in [Block -> Block \cup {Root}]
    /\ Height \in [Block \cup {Root} -> Nat]
    /\ Height[Root] = 0
    /\ \A b \in Block : Height[b] = Height[Parent[b]] + 1
ASSUME TxAssumption ==
    /\ NoTx \notin Tx /\ Tx \cap Block = {}
    /\ TxsOf \in [Block -> SUBSET Tx]
    /\ Minter \in [Coin -> Tx]
    /\ Spends \in [Tx -> SUBSET Coin]
ASSUME ProcessAssumption == Sync \notin Relay /\ MaxFaults \in Nat

Proc == Relay \cup {Sync}

VARIABLES blocks, coins, txs,   \* the collections
          syncedOnce,   \* initialSyncComplete of the state document
          job,          \* what each process is doing
          seen,         \* invCache: transactions and blocks already received
          peer,         \* the tip of the peer
          news,         \* is the announcement of a block on its way?
          faults,       \* faults so far
          missed,       \* history: was an announcement ignored too late?
          torn,         \* history: heights of the reorgs that were cut short
          raced         \* history: confirmed transactions marked as conflicting

db == <<blocks, coins, txs>>
net == <<peer, news, missed>>
vars == <<blocks, coins, txs, syncedOnce, job, seen, net, faults, torn, raced>>

-----------------------------------------------------------------------------
\* SpentHeightIndicators

minimum == 0
pending == -1
\* Mutant: the indicator of an internal error.
unspentError == -4

unspent == -2
conflicting == -3

\* The chain that ends in block p: what every set holds that has p and the
\* parents of its blocks.
Branch == [p \in Block \cup {Root} |->
             {b \in Block : \A S \in SUBSET Block :
                 /\ p \in S \cup {Root}
                 /\ \A c \in S : Parent[c] \in S \cup {Root}
                 => b \in S}]

ConfirmedBy(b) == UNION {TxsOf[a] : a \in Branch[b]}

\* What the peer's blocks are valid by: no transaction is twice in a chain, and
\* it spends what its chain mints and has not spent.
ASSUME ChainAssumption ==
    \A b \in Block : \A t \in TxsOf[b] :
        /\ t \notin ConfirmedBy(Parent[b])
        /\ \A c \in Spends[t] : /\ Minter[c] \in ConfirmedBy(b)
                                /\ \A u \in ConfirmedBy(b) : c \in Spends[u] => u = t

-----------------------------------------------------------------------------
\* Documents

Heights == Nat \cup -3 .. -1

BlockDoc == [height : Nat, next : Block \cup {Root}, processed : BOOLEAN]
CoinDoc == [mint : Heights, spent : Heights, by : Tx \cup {NoTx}]

ASSUME AbsentAssumption == Absent \notin BlockDoc \cup CoinDoc \cup Heights

Stored(b) == b \in Block /\ blocks[b] # Absent
Processed == {b \in Block : Stored(b) /\ blocks[b].processed}

\* getLocalTip: a processed block of the greatest height.
LocalTip == {b \in Processed : \A c \in Processed : blocks[c].height <= blocks[b].height}

-----------------------------------------------------------------------------
\* Processes

SyncStage == {"start", "headers", "block", "wipe", "unspend", "write", "link",
              "processed", "finish"}
ImportStage == {"mint", "prune", "invalidate", "mark", "spend", "tx"}

\* queue: headers left; txs, height: of the import, or of the reorg;
\* prune: initialSyncComplete; bad: the replaced transactions, now: the one at
\* hand; wipe: deletes left.
Job == [at     : SyncStage \cup ImportStage \cup {"idle", "hung"},
        queue  : SUBSET Block,
        txs    : SUBSET Tx,
        height : Heights,
        prune  : BOOLEAN,
        bad    : SUBSET Tx,
        now    : Tx \cup {NoTx},
        wipe   : SUBSET {"blocks", "txs", "coins"}]

NoJob == [at |-> "idle", queue |-> {}, txs |-> {}, height |-> 0,
          prune |-> FALSE, bad |-> {}, now |-> NoTx, wipe |-> {}]

At(p, stage) == job[p].at = stage

\* The block at hand is the lowest of the headers left.
Current == CHOOSE b \in job[Sync].queue :
              \A c \in job[Sync].queue : Height[b] <= Height[c]

Goto(p, stage) == job' = [job EXCEPT ![p].at = stage]

Init ==
    /\ blocks = [b \in Block |-> Absent]
    /\ coins = [c \in Coin |-> Absent]
    /\ txs = [t \in Tx |-> Absent]
    /\ syncedOnce = FALSE
    /\ job = [p \in Proc |-> IF p = Sync THEN [NoJob EXCEPT !.at = "start"] ELSE NoJob]
    /\ seen = {}
    /\ peer = Root /\ news = FALSE /\ missed = FALSE
    /\ faults = 0
    /\ torn = {}
    /\ raced = {}

-----------------------------------------------------------------------------
\* batchImport

\* Mutant: what the mempool finds stored is overwritten.
MintOverwrites(p) ==
    LET j == job[p] IN
    /\ At(p, "mint")
    /\ coins' = [c \in Coin |->
          IF Minter[c] \notin j.txs THEN coins[c]
          ELSE IF coins[c] = Absent
          THEN [mint |-> j.height, spent |-> unspent, by |-> NoTx]
          ELSE [coins[c] EXCEPT !.mint = j.height]]
    /\ Goto(p, IF j.prune THEN "prune" ELSE "spend")
    /\ UNCHANGED <<blocks, txs, syncedOnce, seen, net, faults, torn, raced>>

\* streamMintOps: upsert the outputs; of what the mempool finds stored
\* already, nothing changes (toMempoolSafeUpsert).
Mint(p) ==
    LET j == job[p]
        minted == {c \in Coin : Minter[c] \in j.txs}
        doc(c) == IF coins[c] = Absent
                  THEN [mint |-> j.height, spent |-> unspent, by |-> NoTx]
                  ELSE IF j.height >= minimum THEN [coins[c] EXCEPT !.mint = j.height]
                  ELSE coins[c]
    IN
    /\ At(p, "mint")
    /\ coins' = [c \in Coin |-> IF c \in minted THEN doc(c) ELSE coins[c]]
    /\ Goto(p, IF j.prune THEN "prune" ELSE "spend")
    /\ UNCHANGED <<blocks, txs, syncedOnce, seen, net, faults, torn, raced>>

\* The outputs, pending, of transactions that the import also spends from.
Candidates(p) ==
    LET parents == {Minter[c] : c \in UNION {Spends[t] : t \in job[p].txs}}
    IN  {c \in Coin : /\ Minter[c] \in parents
                      /\ coins[c] # Absent
                      /\ coins[c].spent = pending}

\* Does the import spend c in place of its pending spender?
Replaced(p, c) == \E t \in job[p].txs : c \in Spends[t] /\ t # coins[c].by

\* pruneMempool looks at one output of each pending spender: the first that
\* the cursor gives (seenTxids).
Prune(p) ==
    LET spenders == {coins[c].by : c \in Candidates(p)} IN
    /\ At(p, "prune")
    /\ \E first \in [spenders -> Candidates(p)] :
          /\ \A t \in spenders : coins[first[t]].by = t
          /\ LET bad == {t \in spenders : Replaced(p, first[t])}
             IN job' = [job EXCEPT ![p].bad = bad,
                                   ![p].at = IF bad = {} THEN "spend" ELSE "invalidate"]
    /\ UNCHANGED <<db, syncedOnce, seen, net, faults, torn, raced>>

\* The inputs of a replaced transaction are unspent again.
Invalidate(p) ==
    /\ At(p, "invalidate")
    /\ \E t \in job[p].bad :
          /\ coins' = [c \in Coin |->
                IF coins[c] # Absent /\ coins[c].by = t /\ coins[c].spent = pending
                THEN [coins[c] EXCEPT !.spent = unspent, !.by = NoTx]
                ELSE coins[c]]
          /\ job' = [job EXCEPT ![p].at = "mark", ![p].bad = @ \ {t}, ![p].now = t]
    /\ UNCHANGED <<blocks, txs, syncedOnce, seen, net, faults, torn, raced>>

\* yieldRelatedOutputs: t and the transactions that spend, in n steps, from it.
Related(t) ==
    LET after[n \in 0 .. Cardinality(Tx)] ==
            IF n = 0 THEN {t}
            ELSE after[n - 1] \cup
                 {coins[c].by : c \in {d \in Coin :
                     /\ Minter[d] \in after[n - 1]
                     /\ coins[d] # Absent
                     /\ coins[d].mint # conflicting
                     /\ coins[d].by # NoTx}}
    IN  after[Cardinality(Tx)]

IsConfirmed(t) ==
    \/ txs[t] # Absent /\ txs[t] >= minimum
    \/ \E c \in Coin : Minter[c] = t /\ coins[c] # Absent /\ coins[c].mint >= minimum

\* All of them are marked as conflicting, with no condition on their heights.
Mark(p) ==
    LET doomed == Related(job[p].now) IN
    /\ At(p, "mark")
    /\ txs' = [t \in Tx |-> IF t \in doomed /\ txs[t] # Absent THEN conflicting ELSE txs[t]]
    /\ coins' = [c \in Coin |->
          IF Minter[c] \in doomed /\ coins[c] # Absent
          THEN [coins[c] EXCEPT !.mint = conflicting] ELSE coins[c]]
    /\ raced' = raced \cup {t \in Tx : t \in doomed /\ IsConfirmed(t)}
    /\ job' = [job EXCEPT ![p].now = NoTx,
                          ![p].at = IF job[p].bad = {} THEN "spend" ELSE "invalidate"]
    /\ UNCHANGED <<blocks, syncedOnce, seen, net, faults, torn>>

\* Mutant: a spend replaces whatever was there.
SpendAny(p) ==
    LET j == job[p]
        spender(c) == CHOOSE t \in j.txs : c \in Spends[t]
    IN
    /\ At(p, "spend")
    /\ coins' = [c \in Coin |->
          IF (\E t \in j.txs : c \in Spends[t]) /\ coins[c] # Absent
          THEN [coins[c] EXCEPT !.spent = j.height, !.by = spender(c)]
          ELSE coins[c]]
    /\ Goto(p, "tx")
    /\ UNCHANGED <<blocks, txs, syncedOnce, seen, net, faults, torn, raced>>

\* streamSpendOps: a spend that is confirmed stays.
Spend(p) ==
    LET j == job[p]
        spender(c) == CHOOSE t \in j.txs : c \in Spends[t]
    IN
    /\ At(p, "spend")
    /\ coins' = [c \in Coin |->
          IF /\ \E t \in j.txs : c \in Spends[t]
             /\ coins[c] # Absent
             /\ coins[c].spent < minimum
          THEN [coins[c] EXCEPT !.spent = j.height, !.by = spender(c)]
          ELSE coins[c]]
    /\ Goto(p, "tx")
    /\ UNCHANGED <<blocks, txs, syncedOnce, seen, net, faults, torn, raced>>

\* streamTxOps; the mempool inserts only (toMempoolSafeUpsert).
WriteTx(p) ==
    LET j == job[p] IN
    /\ At(p, "tx")
    /\ txs' = [t \in Tx |-> IF t \in j.txs /\ (j.height >= minimum \/ txs[t] = Absent)
                            THEN j.height ELSE txs[t]]
    /\ IF p = Sync THEN Goto(p, "processed") ELSE job' = [job EXCEPT ![p] = NoJob]
    /\ UNCHANGED <<blocks, coins, syncedOnce, seen, net, faults, torn, raced>>

BatchImport(p) ==
    Mint(p) \/ Prune(p) \/ Invalidate(p) \/ Mark(p) \/ Spend(p) \/ WriteTx(p)

-----------------------------------------------------------------------------
\* sync

\* syncBlocks reads initialSyncComplete.
SyncBlocks ==
    /\ At(Sync, "start")
    /\ job' = [job EXCEPT ![Sync] = [NoJob EXCEPT !.at = "headers", !.prune = syncedOnce]]
    /\ UNCHANGED <<db, syncedOnce, seen, net, faults, torn, raced>>

\* Mutant: no locators are sent.
HeadersFromGenesis == Branch[peer]

\* getLocatorHashes, and the peer's answer: its blocks after the highest it
\* knows, or all of them.
Headers ==
    LET known == IF Cardinality(Processed) < 2 THEN {}
                 ELSE Branch[peer] \cap Processed
    IN  {b \in Block : b \in Branch[peer] /\ \A a \in known : Height[a] < Height[b]}

GetHeaders ==
    /\ At(Sync, "headers")
    /\ job' = [job EXCEPT ![Sync].queue = Headers,
                          ![Sync].at = IF Headers = {} THEN "finish" ELSE "block"]
    /\ UNCHANGED <<db, syncedOnce, seen, net, faults, torn, raced>>

\* getBlock, and the first part of handleReorg: does the block follow the tip?
\* If not, all from its parent up goes, or the tip if the parent is not stored.
HandleReorg ==
    /\ At(Sync, "block")
    /\ seen' = seen \cup TxsOf[Current] \cup {Current}
    /\ IF LocalTip = {} \/ Parent[Current] \in LocalTip
       THEN Goto(Sync, "write")
       ELSE LET fork == IF Stored(Parent[Current]) THEN {Parent[Current]} ELSE LocalTip
            IN  \E b \in fork :
                   job' = [job EXCEPT ![Sync].at = "wipe",
                                      ![Sync].height = blocks[b].height,
                                      ![Sync].wipe = {"blocks", "txs", "coins"}]
    /\ UNCHANGED <<db, syncedOnce, net, faults, torn, raced>>

\* Three deletes at the same time (Promise.all).
Wipe ==
    LET from == job[Sync].height IN
    /\ At(Sync, "wipe")
    /\ \E k \in job[Sync].wipe :
          /\ job' = [job EXCEPT ![Sync].wipe = @ \ {k},
                                ![Sync].at = IF job[Sync].wipe = {k} THEN "unspend" ELSE @]
          /\ blocks' = [b \in Block |->
                IF k = "blocks" /\ Stored(b) /\ blocks[b].height >= from
                THEN Absent ELSE blocks[b]]
          /\ txs' = [t \in Tx |->
                IF k = "txs" /\ txs[t] # Absent /\ txs[t] >= from
                THEN Absent ELSE txs[t]]
          /\ coins' = [c \in Coin |->
                IF k = "coins" /\ coins[c] # Absent /\ coins[c].mint >= from
                THEN Absent ELSE coins[c]]
    /\ UNCHANGED <<syncedOnce, seen, net, faults, torn, raced>>

\* Mutant: a reorg leaves the spends as they are.
UnspendForgets ==
    /\ At(Sync, "unspend")
    /\ torn' = {h \in torn : h < job[Sync].height}
    /\ job' = [job EXCEPT ![Sync] = [NoJob EXCEPT !.at = "start"]]
    /\ UNCHANGED <<db, syncedOnce, seen, net, faults, raced>>

\* Then the spends from that height on are reset; addBlock rejects, and sync
\* starts again after a delay.
Unspend ==
    LET from == job[Sync].height IN
    /\ At(Sync, "unspend")
    /\ coins' = [c \in Coin |->
          IF coins[c] # Absent /\ coins[c].spent >= from
          THEN [coins[c] EXCEPT !.spent = unspent, !.by = NoTx] ELSE coins[c]]
    /\ torn' = {h \in torn : h < from}
    /\ job' = [job EXCEPT ![Sync] = [NoJob EXCEPT !.at = "start"]]
    /\ UNCHANGED <<blocks, txs, syncedOnce, seen, net, faults, raced>>

\* processBlock stores the block; its height is that of its parent plus one.
WriteBlock ==
    LET height == IF Stored(Parent[Current]) THEN blocks[Parent[Current]].height + 1 ELSE 1
    IN
    /\ At(Sync, "write")
    /\ blocks' = [blocks EXCEPT ![Current] =
                     [height |-> height, next |-> Root, processed |-> FALSE]]
    /\ job' = [job EXCEPT ![Sync].at = "link", ![Sync].height = height,
                          ![Sync].txs = TxsOf[Current]]
    /\ UNCHANGED <<coins, txs, syncedOnce, seen, net, faults, torn, raced>>

\* The nextBlockHash of its parent.
LinkBlock ==
    /\ At(Sync, "link")
    /\ blocks' = IF Stored(Parent[Current])
                 THEN [blocks EXCEPT ![Parent[Current]].next = Current] ELSE blocks
    /\ Goto(Sync, "mint")
    /\ UNCHANGED <<coins, txs, syncedOnce, seen, net, faults, torn, raced>>

\* Mutant: after the last header no more headers are asked for.
BlockProcessedLast ==
    /\ At(Sync, "processed")
    /\ blocks' = [blocks EXCEPT ![Current].processed = TRUE]
    /\ LET left == job[Sync].queue \ {Current}
       IN  job' = [job EXCEPT ![Sync] =
              [NoJob EXCEPT !.at = IF left = {} THEN "finish" ELSE "block",
                            !.queue = left, !.prune = job[Sync].prune]]
    /\ UNCHANGED <<coins, txs, syncedOnce, seen, net, faults, torn, raced>>

\* After batchImport: processed, and the next header, or more headers.
BlockProcessed ==
    /\ At(Sync, "processed")
    /\ blocks' = [blocks EXCEPT ![Current].processed = TRUE]
    /\ LET left == job[Sync].queue \ {Current}
       IN  job' = [job EXCEPT ![Sync] =
              [NoJob EXCEPT !.at = IF left = {} THEN "headers" ELSE "block",
                            !.queue = left, !.prune = job[Sync].prune]]
    /\ UNCHANGED <<coins, txs, syncedOnce, seen, net, faults, torn, raced>>

\* No headers left: initialSyncComplete is stored, then isSyncing is cleared.
FinishSync ==
    /\ At(Sync, "finish")
    /\ syncedOnce' = TRUE
    /\ job' = [job EXCEPT ![Sync] = NoJob]
    /\ UNCHANGED <<db, seen, net, faults, torn, raced>>

SyncStep ==
    \/ SyncBlocks \/ GetHeaders \/ HandleReorg \/ Wipe \/ Unspend
    \/ WriteBlock \/ LinkBlock \/ BlockProcessed \/ FinishSync

-----------------------------------------------------------------------------
\* The peer

\* The peer's chain grows, or a longer one takes its place.
PeerAdvances(b) ==
    /\ Height[b] > Height[peer]
    /\ peer' = b
    /\ news' = TRUE
    /\ UNCHANGED <<db, syncedOnce, job, seen, missed, faults, torn, raced>>

\* peerblock: a block not seen before starts a sync, unless one is on its way.
PeerBlock ==
    /\ news
    /\ news' = FALSE
    /\ IF At(Sync, "idle") /\ peer \notin seen
       THEN Goto(Sync, "start") ELSE UNCHANGED job
    /\ missed' = (missed \/ At(Sync, "finish"))
    /\ seen' = seen \cup TxsOf[peer] \cup {peer}
    /\ UNCHANGED <<db, syncedOnce, peer, faults, torn, raced>>

\* A peer relays what its chain allows: unconfirmed, inputs not spent there.
Relayed(t) ==
    LET confirmed == ConfirmedBy(peer) IN
    /\ Spends[t] # {} /\ t \notin confirmed
    /\ \A c \in Spends[t] : /\ Minter[c] \in confirmed \cup seen
                            /\ \A u \in confirmed : c \notin Spends[u]

\* peertx: unless its hash is cached, it is imported, always with pruning.
PeerTx(p, t) ==
    /\ job[p] = NoJob
    /\ Relayed(t) /\ t \notin seen
    /\ seen' = seen \cup {t}
    /\ job' = [job EXCEPT ![p] = [NoJob EXCEPT !.at = "mint", !.txs = {t},
                                               !.height = pending, !.prune = TRUE]]
    /\ UNCHANGED <<db, syncedOnce, net, faults, torn, raced>>

-----------------------------------------------------------------------------
\* Faults

\* Has the reorg begun to delete?
Tearing == \/ At(Sync, "unspend")
           \/ At(Sync, "wipe") /\ job[Sync].wipe # {"blocks", "txs", "coins"}

Tear == torn' = IF Tearing THEN torn \cup {job[Sync].height} ELSE torn

\* The process stops, and another one starts.
Crash ==
    /\ faults < MaxFaults
    /\ faults' = faults + 1
    /\ job' = [p \in Proc |-> IF p = Sync THEN [NoJob EXCEPT !.at = "start"] ELSE NoJob]
    /\ seen' = {}
    /\ Tear
    /\ UNCHANGED <<db, syncedOnce, net, raced>>

\* The database fails outside batchImport: sync catches it and starts again.
SyncFails ==
    /\ faults < MaxFaults
    /\ faults' = faults + 1
    /\ job[Sync].at \in SyncStage
    /\ job' = [job EXCEPT ![Sync] = [NoJob EXCEPT !.at = "start"]]
    /\ Tear
    /\ UNCHANGED <<db, syncedOnce, seen, net, raced>>

\* The database fails in a stream of batchImport: nobody hears of it, and the
\* stream never finishes (the unhandled rejection is not fatal).
ImportFails(p) ==
    /\ faults < MaxFaults
    /\ faults' = faults + 1
    /\ job[p].at \in ImportStage
    /\ job' = [job EXCEPT ![p] = IF p = Sync THEN [@ EXCEPT !.at = "hung"] ELSE NoJob]
    /\ UNCHANGED <<db, syncedOnce, seen, net, torn, raced>>

Next ==
    \/ SyncStep
    \/ \E p \in Proc : BatchImport(p)
    \/ \E b \in Block : PeerAdvances(b)
    \/ PeerBlock
    \/ \E p \in Relay, t \in Tx : PeerTx(p, t)
    \/ Crash \/ SyncFails \/ \E p \in Proc : ImportFails(p)

Spec == Init /\ [][Next]_vars

\* The database and the peer answer, timers fire, announcements arrive.
Fairness == WF_vars(SyncStep) /\ WF_vars(BatchImport(Sync)) /\ WF_vars(PeerBlock)

FairSpec == Spec /\ Fairness

-----------------------------------------------------------------------------
\* Properties

TypeOK ==
    /\ blocks \in [Block -> BlockDoc \cup {Absent}]
    /\ coins \in [Coin -> CoinDoc \cup {Absent}]
    /\ txs \in [Tx -> Heights \cup {Absent}]
    /\ syncedOnce \in BOOLEAN /\ news \in BOOLEAN /\ missed \in BOOLEAN
    /\ job \in [Proc -> Job]
    /\ seen \subseteq Tx \cup Block
    /\ peer \in Block \cup {Root}
    /\ faults \in 0 .. MaxFaults
    /\ torn \subseteq Nat
    /\ raced \subseteq Tx

\* No block is being imported or rolled back.
BetweenBlocks == job[Sync].at \in {"start", "headers", "block", "finish", "idle"}

\* The height at which the chain of b confirms one of the transactions in s.
ConfirmedAt(b, s) == {Height[a] : a \in {d \in Branch[b] : TxsOf[d] \cap s # {}}}

\* A height, if it is one and not an indicator.
Confirmed(h) == {h} \cap Nat

BlocksExact(b) ==
    /\ Processed = Branch[b]
    /\ \A a \in Branch[b] :
          /\ blocks[a].height = Height[a]
          /\ Parent[a] # Root => blocks[Parent[a]].next = a

TxsExact(b) ==
    \A t \in Tx \ raced :
        ConfirmedAt(b, {t}) = IF txs[t] = Absent THEN {} ELSE Confirmed(txs[t])

CoinsExact(b) ==
    \A c \in Coin :
        IF coins[c] = Absent THEN ConfirmedAt(b, {Minter[c]}) = {}
        ELSE /\ Minter[c] \notin raced
                => Confirmed(coins[c].mint) = ConfirmedAt(b, {Minter[c]})
             /\ Confirmed(coins[c].spent) = ConfirmedAt(b, {t \in Tx : c \in Spends[t]})
             /\ coins[c].spent >= minimum => coins[c].by \in ConfirmedBy(b)

\* Between two blocks the index is that of the chain of its tip, to the last
\* height and spender, through reorgs, crashes, failures and the mempool: only
\* a reorg cut short, a block left half imported, and a transaction confirmed
\* while it is pruned break it (models/block.ts, models/transaction.ts).
IndexExact ==
    BetweenBlocks /\ torn = {} /\ (\A b \in Block : Stored(b) => b \in Processed)
    => \E b \in Block \cup {Root} : BlocksExact(b) /\ TxsExact(b) /\ CoinsExact(b)

\* When the sync rests, the local tip is that of the peer, unless a block came
\* after the last headers were read and before isSyncing was cleared
\* (modules/bitcoin/p2p.ts, syncBlocks and 'peerblock').
FollowsPeer ==
    At(Sync, "idle") /\ ~news /\ ~missed /\ peer # Root => peer \in LocalTip

\* What a block has written stays until a reorg: no relayed transaction takes a
\* confirmed spend or a confirmed output back, at no point of the import of
\* either, unless it is marked in a race (models/transaction.ts, the filter of
\* streamSpendOps and toMempoolSafeUpsert).
UndoneByReorgOnly ==
    [][\A c \in Coin :
          coins[c] # Absent /\ job[Sync].at \notin {"wipe", "unspend"}
          => /\ coins'[c] # Absent
             /\ coins[c].spent >= minimum
                   => coins'[c].spent = coins[c].spent /\ coins'[c].by = coins[c].by
             /\ coins[c].mint >= minimum
                   => coins'[c].mint >= minimum \/ Minter[c] \in raced']_vars

\* A coin is pending only if a transaction in the mempool spends it
\* (types/Coin.ts).  The code does not give this once imports are over: only
\* the inputs of a replaced transaction are freed, not those of its children.
PendingIsInMempool ==
    (\A p \in Proc : At(p, "idle"))
    => \A c \in Coin :
          coins[c] # Absent /\ coins[c].mint # conflicting /\ coins[c].spent = pending
          => txs[coins[c].by] = pending

\* A sync ends, however many reorgs and retries it goes through, unless the
\* database fails in a stream of batchImport.
SyncEnds ==
    ~At(Sync, "idle") /\ Height[peer] >= 2 ~> job[Sync].at \in {"idle", "hung"}
=============================================================================
