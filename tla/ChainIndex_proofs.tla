-------------------------- MODULE ChainIndex_proofs --------------------------
(***************************************************************************)
(* Proofs about ChainIndex, for any block tree, any transactions and any   *)
(* number of faults: its type invariant; that what a block has written is  *)
(* taken back by a reorg only; that the local tip is the peer's when the   *)
(* sync rests; and that between two blocks the index is that of the chain  *)
(* of its tip.                                                             *)
(***************************************************************************)
EXTENDS ChainIndex, WellFoundedInduction, TLAPS

-----------------------------------------------------------------------------
\* The inductive invariant

\* Between the write of a block and its processed flag.
Importing == ImportStage \cup {"link", "processed"}

\* The lowest of the blocks in q.
Lowest(q) == CHOOSE b \in q : \A c \in q : Height[b] <= Height[c]

\* A sync that handles a block has it in its queue, and once it is written it
\* stays stored; a reorg knows the height that it goes back to.
SyncOK ==
    /\ job[Sync].at \in Importing \cup {"block", "write"} => job[Sync].queue # {}
    /\ job[Sync].at \in Importing => Stored(Lowest(job[Sync].queue))
    /\ job[Sync].at \in {"wipe", "unspend"} => job[Sync].height \in Nat

\* A pending coin names its spender.
SpendersOK ==
    \A c \in Coin : coins[c] # Absent /\ coins[c].spent = pending => coins[c].by \in Tx

IInv ==
    /\ TypeOK
    /\ SyncOK
    /\ SpendersOK
    /\ news => peer \in Block

-----------------------------------------------------------------------------
\* Blocks, documents and jobs

\* Some block of a queue is the lowest.
LEMMA LowestInQueue ==
    ASSUME NEW q \in SUBSET Block, q # {}
    PROVE  Lowest(q) \in q /\ \A c \in q : Height[Lowest(q)] <= Height[c]
<1> DEFINE heights == {Height[b] : b \in q}
<1>1. heights \subseteq Nat /\ heights # {}
  BY TreeAssumption
<1>2. \E m \in heights : \A n \in heights : ~(<<n, m>> \in OpToRel(<, Nat))
  <2> HIDE DEF heights
  <2> QED
    BY <1>1, NatLessThanWellFounded, WFMin
<1>3. PICK m \in heights : \A n \in heights : ~(n < m)
  BY <1>1, <1>2 DEF OpToRel
<1>4. PICK b \in q : Height[b] = m
  BY <1>3
<1>5. \A c \in q : Height[b] <= Height[c]
  BY <1>1, <1>3, <1>4
<1> QED
  BY <1>4, <1>5 DEF Lowest

\* The block at hand is the lowest of the headers left.
LEMMA CurrentIsLowest == Current = Lowest(job[Sync].queue)
BY DEF Current, Lowest

\* No document is the absent one.
LEMMA DocTypes ==
    /\ \A d \in CoinDoc : d # Absent
    /\ \A d \in BlockDoc : d # Absent
    /\ \A h \in Heights : h # Absent
BY AbsentAssumption

Stages == SyncStage \cup ImportStage \cup {"idle", "hung"}

\* A job goes on to another stage.
LEMMA StageType ==
    ASSUME NEW j \in Job, NEW s \in Stages
    PROVE  /\ [j EXCEPT !.at = s] \in Job
           /\ [j EXCEPT !.at = s].at = s
           /\ [j EXCEPT !.at = s].queue = j.queue
           /\ [j EXCEPT !.at = s].txs = j.txs
           /\ [j EXCEPT !.at = s].height = j.height
           /\ [j EXCEPT !.at = s].prune = j.prune
           /\ [j EXCEPT !.at = s].bad = j.bad
           /\ [j EXCEPT !.at = s].now = j.now
           /\ [j EXCEPT !.at = s].wipe = j.wipe
BY DEF Job, Stages

\* A process that does nothing has a job too.
LEMMA NoJobType == NoJob \in Job /\ NoJob.at = "idle"
BY DEF NoJob, Job, Heights, SyncStage, ImportStage

\* Goto moves one process, and changes nothing else of its job.
LEMMA GotoType ==
    ASSUME TypeOK, NEW p \in Proc, NEW s \in Stages, Goto(p, s)
    PROVE  /\ job' \in [Proc -> Job]
           /\ job'[p].at = s
           /\ job'[p].queue = job[p].queue
           /\ job'[p].height = job[p].height
           /\ \A q \in Proc : q # p => job'[q] = job[q]
<1>1. job[p] \in Job /\ job' = [job EXCEPT ![p] = [job[p] EXCEPT !.at = s]]
  BY DEF TypeOK, Goto
<1> DEFINE j == [job[p] EXCEPT !.at = s]
<1>2. j \in Job /\ j.at = s /\ j.queue = job[p].queue /\ j.height = job[p].height
  BY <1>1, StageType
<1> HIDE DEF j
<1> QED
  BY <1>1, <1>2 DEF TypeOK, j

\* The sync is a process.
LEMMA SyncProc == Sync \in Proc
BY DEF Proc

\* What no step of a relayed transaction changes.
LEMMA SyncKept ==
    ASSUME SyncOK, job'[Sync] = job[Sync], UNCHANGED blocks
    PROVE  SyncOK'
BY DEF SyncOK, Stored

\* A sync that is not at a block has nothing to keep.
LEMMA SyncFree ==
    ASSUME job'[Sync].at \in {"start", "headers", "finish", "idle", "hung"}
    PROVE  SyncOK'
BY DEF SyncOK, Importing, ImportStage

\* What leaves the coins alone keeps their spenders.
LEMMA SpendersKept ==
    ASSUME SpendersOK, UNCHANGED coins
    PROVE  SpendersOK'
BY DEF SpendersOK

-----------------------------------------------------------------------------
\* batchImport

\* A process that imports goes on with its import, or has finished it.
LEMMA SyncImports ==
    ASSUME SyncOK, NEW p \in Proc, job[p].at \in ImportStage,
           job'[p].queue = job[p].queue,
           job'[p].at \in ImportStage \cup {"processed"},
           \A q \in Proc : q # p => job'[q] = job[q],
           UNCHANGED blocks
    PROVE  SyncOK'
<1>1. CASE p = Sync
  <2>1. job[Sync].at \in Importing /\ job'[Sync].at \in Importing
    BY <1>1 DEF Importing
  <2>2. job'[Sync].at \notin {"wipe", "unspend"}
    BY <1>1 DEF ImportStage
  <2> QED
    BY <1>1, <2>1, <2>2 DEF SyncOK, Stored
<1>2. CASE p # Sync
  BY <1>2, SyncProc, SyncKept
<1> QED
  BY <1>1, <1>2

\* A spend that is taken back.
UnspentDoc(d) == [d EXCEPT !.spent = unspent, !.by = NoTx]

\* Its document is one that is not pending.
LEMMA UnspentType ==
    ASSUME NEW d \in CoinDoc
    PROVE  UnspentDoc(d) \in CoinDoc /\ UnspentDoc(d).spent # pending
<1>1. unspent \in Heights /\ unspent # pending
  BY DEF Heights, unspent, pending
<1> QED
  BY <1>1 DEF CoinDoc, UnspentDoc

\* An output that is minted is unspent, or keeps its spend (streamMintOps).
LEMMA MintStep ==
    ASSUME IInv, NEW p \in Proc, Mint(p)
    PROVE  IInv'
<1> DEFINE s == IF job[p].prune THEN "prune" ELSE "spend"
<1>1. TypeOK /\ SyncOK /\ job[p].at \in ImportStage /\ s \in Stages /\ Goto(p, s)
  BY DEF IInv, Mint, At, ImportStage, Stages
<1>2. s \in ImportStage
  BY DEF ImportStage
<1> HIDE DEF s
<1>3. /\ job' \in [Proc -> Job] /\ job'[p].at = s /\ job'[p].queue = job[p].queue
      /\ \A q \in Proc : q # p => job'[q] = job[q]
  BY <1>1, GotoType
<1>4. SyncOK'
  BY <1>1, <1>2, <1>3, SyncImports DEF Mint, db
<1>5. job[p].height \in Heights
  BY DEF IInv, TypeOK, Job
<1>6. ASSUME NEW c \in Coin
      PROVE  /\ coins'[c] \in CoinDoc \cup {Absent}
             /\ coins'[c] # Absent /\ coins'[c].spent = pending => coins'[c].by \in Tx
  <2> DEFINE new == [mint |-> job[p].height, spent |-> unspent, by |-> NoTx]
             old == [coins[c] EXCEPT !.mint = job[p].height]
  <2>1. coins[c] \in CoinDoc \cup {Absent}
    BY <1>1 DEF TypeOK
  <2>2. coins'[c] \in {coins[c], new} \/ (coins[c] # Absent /\ coins'[c] = old)
    BY DEF Mint
  <2>3. new \in CoinDoc /\ new.spent # pending
    BY <1>5 DEF CoinDoc, Heights, unspent, pending
  <2>4. ASSUME coins[c] # Absent
        PROVE  old \in CoinDoc /\ old.spent = coins[c].spent /\ old.by = coins[c].by
    BY <1>5, <2>1, <2>4 DEF CoinDoc
  <2> HIDE DEF new, old
  <2> QED
    BY <2>1, <2>2, <2>3, <2>4 DEF IInv, SpendersOK
<1>7. coins' \in [Coin -> CoinDoc \cup {Absent}] /\ SpendersOK'
  BY <1>6 DEF Mint, SpendersOK
<1> QED
  BY <1>1, <1>3, <1>4, <1>7 DEF IInv, TypeOK, Mint, net

\* A process takes up another job, and the others keep theirs.
LEMMA JobType ==
    ASSUME TypeOK, NEW p \in Proc, NEW j \in Job, job' = [job EXCEPT ![p] = j]
    PROVE  /\ job' \in [Proc -> Job]
           /\ job'[p] = j
           /\ \A q \in Proc : q # p => job'[q] = job[q]
BY DEF TypeOK

\* The replaced transactions that pruneMempool picks have a name: the pending
\* coins that it read named them.
LEMMA PruneStep ==
    ASSUME IInv, NEW p \in Proc, Prune(p)
    PROVE  IInv'
<1>1. TypeOK /\ SyncOK /\ job[p].at \in ImportStage /\ job[p] \in Job
  BY DEF IInv, Prune, At, ImportStage, TypeOK
<1> DEFINE spenders == {coins[c].by : c \in Candidates(p)}
<1>2. spenders \subseteq Tx
  BY DEF IInv, SpendersOK, Candidates
<1>3. PICK bad \in SUBSET spenders :
         job' = [job EXCEPT ![p].bad = bad,
                            ![p].at = IF bad = {} THEN "spend" ELSE "invalidate"]
  BY DEF Prune
<1> DEFINE s == IF bad = {} THEN "spend" ELSE "invalidate"
           j == [job[p] EXCEPT !.bad = bad, !.at = s]
<1>4. s \in ImportStage /\ s \in Stages /\ bad \in SUBSET Tx
  BY <1>2 DEF ImportStage, Stages
<1>5. job' = [job EXCEPT ![p] = j]
  BY <1>3 DEF TypeOK
<1> HIDE DEF s
<1>6. j \in Job /\ j.at = s /\ j.queue = job[p].queue
  BY <1>1, <1>4 DEF Job, Stages
<1> HIDE DEF j
<1>7. job' \in [Proc -> Job] /\ job'[p] = j /\ \A q \in Proc : q # p => job'[q] = job[q]
  BY <1>1, <1>5, <1>6, JobType
<1>8. SyncOK'
  BY <1>1, <1>4, <1>6, <1>7, SyncImports DEF Prune, db
<1> QED
  BY <1>1, <1>7, <1>8, SpendersKept DEF IInv, TypeOK, Prune, net, db

\* The inputs of a replaced transaction are unspent, not pending.
LEMMA InvalidateStep ==
    ASSUME IInv, NEW p \in Proc, Invalidate(p)
    PROVE  IInv'
<1>1. TypeOK /\ SyncOK /\ job[p].at \in ImportStage /\ job[p] \in Job
  BY DEF IInv, Invalidate, At, ImportStage, TypeOK
<1>2. PICK t \in job[p].bad :
         /\ coins' = [c \in Coin |->
               IF coins[c] # Absent /\ coins[c].by = t /\ coins[c].spent = pending
               THEN [coins[c] EXCEPT !.spent = unspent, !.by = NoTx]
               ELSE coins[c]]
         /\ job' = [job EXCEPT ![p].at = "mark", ![p].bad = @ \ {t}, ![p].now = t]
  BY DEF Invalidate
<1> DEFINE left == job[p].bad \ {t}
           j == [job[p] EXCEPT !.at = "mark", !.bad = left, !.now = t]
<1>3. left \in SUBSET Tx /\ t \in Tx \cup {NoTx}
  BY <1>1, <1>2 DEF Job
<1>4. job' = [job EXCEPT ![p] = j]
  BY <1>1, <1>2 DEF TypeOK, Job
<1>5. "mark" \in ImportStage /\ "mark" \in Stages
  BY DEF ImportStage, Stages
<1> HIDE DEF left
<1>6. j \in Job /\ j.at = "mark" /\ j.queue = job[p].queue
  BY <1>1, <1>3, <1>5 DEF Job, Stages
<1> HIDE DEF j
<1>7. job' \in [Proc -> Job] /\ job'[p] = j /\ \A q \in Proc : q # p => job'[q] = job[q]
  BY <1>1, <1>4, <1>6, JobType
<1>8. SyncOK'
  BY <1>1, <1>5, <1>6, <1>7, SyncImports DEF Invalidate
<1>9. coins' \in [Coin -> CoinDoc \cup {Absent}] /\ SpendersOK'
  <2>1. \A d \in CoinDoc : UnspentDoc(d) \in CoinDoc /\ UnspentDoc(d).spent # pending
    BY UnspentType
  <2>2. \A c \in Coin : coins[c] \in CoinDoc \cup {Absent}
    BY <1>1 DEF TypeOK
  <2> QED
    BY <1>2, <2>1, <2>2 DEF UnspentDoc, IInv, SpendersOK
<1> QED
  BY <1>1, <1>7, <1>8, <1>9 DEF IInv, TypeOK, Invalidate, net

\* The marks of pruneMempool leave every spend as it is.
LEMMA MarkStep ==
    ASSUME IInv, NEW p \in Proc, Mark(p)
    PROVE  IInv'
<1>1. TypeOK /\ SyncOK /\ job[p].at \in ImportStage /\ job[p] \in Job
  BY DEF IInv, Mark, At, ImportStage, TypeOK
<1> DEFINE s == IF job[p].bad = {} THEN "spend" ELSE "invalidate"
           j == [job[p] EXCEPT !.now = NoTx, !.at = s]
<1>2. s \in ImportStage /\ s \in Stages /\ NoTx \in Tx \cup {NoTx}
  BY DEF ImportStage, Stages
<1>3. job' = [job EXCEPT ![p] = j]
  BY DEF Mark, TypeOK
<1> HIDE DEF s
<1>4. j \in Job /\ j.at = s /\ j.queue = job[p].queue
  BY <1>1, <1>2 DEF Job, Stages
<1> HIDE DEF j
<1>5. job' \in [Proc -> Job] /\ job'[p] = j /\ \A q \in Proc : q # p => job'[q] = job[q]
  BY <1>1, <1>3, <1>4, JobType
<1>6. SyncOK'
  BY <1>1, <1>2, <1>4, <1>5, SyncImports DEF Mark
<1>7. conflicting \in Heights
  BY DEF conflicting, Heights
<1>8. txs' \in [Tx -> Heights \cup {Absent}] /\ raced' \subseteq Tx
  BY <1>1, <1>7 DEF Mark, TypeOK
<1>9. coins' \in [Coin -> CoinDoc \cup {Absent}] /\ SpendersOK'
  <2>1. ASSUME NEW d \in CoinDoc
        PROVE  /\ [d EXCEPT !.mint = conflicting] \in CoinDoc
               /\ [d EXCEPT !.mint = conflicting].spent = d.spent
               /\ [d EXCEPT !.mint = conflicting].by = d.by
    BY <1>7 DEF CoinDoc
  <2>2. \A c \in Coin : coins[c] \in CoinDoc \cup {Absent}
    BY <1>1 DEF TypeOK
  <2>3. ASSUME NEW c \in Coin
        PROVE  \/ coins'[c] = coins[c]
               \/ coins[c] # Absent /\ coins'[c] = [coins[c] EXCEPT !.mint = conflicting]
    BY DEF Mark
  <2>4. ASSUME NEW c \in Coin
        PROVE  /\ coins'[c] \in CoinDoc \cup {Absent}
               /\ coins'[c] # Absent /\ coins'[c].spent = pending => coins'[c].by \in Tx
    <3>1. coins[c] \in CoinDoc \cup {Absent}
      BY <2>2
    <3>2. coins[c] # Absent /\ coins[c].spent = pending => coins[c].by \in Tx
      BY DEF IInv, SpendersOK
    <3>3. CASE coins'[c] = coins[c]
      BY <3>1, <3>2, <3>3
    <3>4. CASE coins[c] # Absent /\ coins'[c] = [coins[c] EXCEPT !.mint = conflicting]
      BY <2>1, <3>1, <3>2, <3>4
    <3> QED
      BY <2>3, <3>3, <3>4
  <2> QED
    BY <2>4 DEF Mark, SpendersOK
<1> QED
  BY <1>1, <1>5, <1>6, <1>8, <1>9 DEF IInv, TypeOK, Mark, net

\* A spend comes with the transaction that spends (streamSpendOps).
LEMMA SpendStep ==
    ASSUME IInv, NEW p \in Proc, Spend(p)
    PROVE  IInv'
<1>1. TypeOK /\ SyncOK /\ job[p].at \in ImportStage /\ Goto(p, "tx") /\ "tx" \in Stages
  BY DEF IInv, Spend, At, ImportStage, Stages
<1>2. /\ job' \in [Proc -> Job] /\ job'[p].at = "tx" /\ job'[p].queue = job[p].queue
      /\ \A q \in Proc : q # p => job'[q] = job[q]
  BY <1>1, GotoType
<1>3. SyncOK'
  BY <1>1, <1>2, SyncImports DEF Spend, ImportStage
<1> DEFINE j == job[p]
           spender(c) == CHOOSE t \in j.txs : c \in Spends[t]
<1>4. j.height \in Heights /\ j.txs \in SUBSET Tx
  BY <1>1 DEF TypeOK, Job
<1>5. ASSUME NEW c \in Coin
      PROVE  /\ coins'[c] \in CoinDoc \cup {Absent}
             /\ coins'[c] # Absent /\ coins'[c].spent = pending => coins'[c].by \in Tx
  <2> DEFINE new == [coins[c] EXCEPT !.spent = j.height, !.by = spender(c)]
  <2>1. coins[c] \in CoinDoc \cup {Absent}
    BY <1>1 DEF TypeOK
  <2>2. CASE coins'[c] = coins[c]
    BY <2>1, <2>2 DEF IInv, SpendersOK
  <2>3. CASE (\E t \in j.txs : c \in Spends[t]) /\ coins[c] # Absent /\ coins'[c] = new
    <3>1. spender(c) \in Tx
      BY <1>4, <2>3
    <3> HIDE DEF spender, j
    <3>2. new \in CoinDoc /\ new.by = spender(c)
      BY <1>4, <2>1, <2>3, <3>1 DEF CoinDoc
    <3> QED
      BY <2>3, <3>1, <3>2
  <2> QED
    BY <2>2, <2>3 DEF Spend
<1>6. coins' \in [Coin -> CoinDoc \cup {Absent}] /\ SpendersOK'
  BY <1>5 DEF Spend, SpendersOK
<1> QED
  BY <1>1, <1>2, <1>3, <1>6 DEF IInv, TypeOK, Spend, net

\* The last step of an import: the sync goes on, a relayed one ends.
LEMMA WriteTxStep ==
    ASSUME IInv, NEW p \in Proc, WriteTx(p)
    PROVE  IInv'
<1>1. TypeOK /\ SyncOK /\ job[p].at \in ImportStage /\ job[p].height \in Heights
  BY DEF IInv, WriteTx, At, ImportStage, TypeOK, Job
<1>2. job' \in [Proc -> Job] /\ SyncOK'
  <2>1. CASE p = Sync
    <3>1. Goto(p, "processed") /\ "processed" \in Stages
      BY <2>1 DEF WriteTx, Stages, SyncStage
    <3>2. /\ job' \in [Proc -> Job]
          /\ job'[p].at = "processed" /\ job'[p].queue = job[p].queue
          /\ \A q \in Proc : q # p => job'[q] = job[q]
      BY <1>1, <3>1, GotoType
    <3> QED
      BY <1>1, <3>2, SyncImports DEF WriteTx
  <2>2. CASE p # Sync
    <3>1. job' = [job EXCEPT ![p] = NoJob]
      BY <2>2 DEF WriteTx
    <3>2. job' \in [Proc -> Job] /\ \A q \in Proc : q # p => job'[q] = job[q]
      BY <1>1, <3>1, NoJobType, JobType
    <3> QED
      BY <1>1, <2>2, <3>2, SyncProc, SyncKept DEF WriteTx
  <2> QED
    BY <2>1, <2>2
<1>3. txs' \in [Tx -> Heights \cup {Absent}]
  BY <1>1 DEF WriteTx, TypeOK
<1> QED
  BY <1>1, <1>2, <1>3, SpendersKept DEF IInv, TypeOK, WriteTx, net

\* batchImport keeps the invariant.
LEMMA ImportStep ==
    ASSUME IInv, NEW p \in Proc, BatchImport(p)
    PROVE  IInv'
BY MintStep, PruneStep, InvalidateStep, MarkStep, SpendStep, WriteTxStep DEF BatchImport

-----------------------------------------------------------------------------
\* sync

\* The block at hand is a block.
LEMMA CurrentBlock ==
    ASSUME IInv, job[Sync].at \in Importing \cup {"block", "write"}
    PROVE  /\ job[Sync].queue \in SUBSET Block
           /\ Current \in job[Sync].queue
           /\ Current \in Block
           /\ TxsOf[Current] \subseteq Tx
<1>1. job[Sync].queue \in SUBSET Block /\ job[Sync].queue # {}
  BY SyncProc DEF IInv, TypeOK, Job, SyncOK
<1>2. Current \in job[Sync].queue
  BY <1>1, LowestInQueue, CurrentIsLowest
<1> QED
  BY <1>1, <1>2, TxAssumption

\* syncBlocks starts with no block at hand.
LEMMA SyncBlocksStep ==
    ASSUME IInv, SyncBlocks
    PROVE  IInv'
<1> DEFINE j == [NoJob EXCEPT !.at = "headers", !.prune = syncedOnce]
<1>1. TypeOK /\ syncedOnce \in BOOLEAN
  BY DEF IInv, TypeOK
<1>2. j \in Job /\ j.at = "headers"
  BY <1>1 DEF NoJob, Job, SyncStage, Heights
<1> HIDE DEF j
<1>3. job' = [job EXCEPT ![Sync] = j]
  BY DEF SyncBlocks, j
<1>4. job' \in [Proc -> Job] /\ job'[Sync] = j
  BY <1>1, <1>2, <1>3, SyncProc, JobType
<1>5. SyncOK'
  BY <1>2, <1>4, SyncFree
<1> QED
  BY <1>1, <1>4, <1>5, SpendersKept DEF IInv, TypeOK, SyncBlocks, net, db

\* The sync handles a block only if the peer sent headers.
LEMMA GetHeadersStep ==
    ASSUME IInv, GetHeaders
    PROVE  IInv'
<1> DEFINE s == IF Headers = {} THEN "finish" ELSE "block"
           j == [job[Sync] EXCEPT !.queue = Headers, !.at = s]
<1>1. TypeOK /\ job[Sync] \in Job
  BY SyncProc DEF IInv, TypeOK
<1>2. Headers \in SUBSET Block
  BY DEF Headers
<1>3. s \in Stages
  BY DEF Stages, SyncStage
<1>4. job' = [job EXCEPT ![Sync] = j]
  BY DEF GetHeaders, TypeOK
<1>5. s = "finish" \/ (s = "block" /\ Headers # {})
  OBVIOUS
<1> HIDE DEF s
<1>6. j \in Job /\ j.at = s /\ j.queue = Headers
  BY <1>1, <1>2, <1>3 DEF Job, Stages
<1> HIDE DEF j
<1>7. job' \in [Proc -> Job] /\ job'[Sync] = j
  BY <1>1, <1>4, <1>6, SyncProc, JobType
<1>8. SyncOK'
  BY <1>5, <1>6, <1>7 DEF SyncOK, Importing, ImportStage
<1> QED
  BY <1>1, <1>7, <1>8, SpendersKept DEF IInv, TypeOK, GetHeaders, net, db

\* A reorg goes back to the height of a stored block.
LEMMA HandleReorgStep ==
    ASSUME IInv, HandleReorg
    PROVE  IInv'
<1>1. TypeOK /\ job[Sync] \in Job /\ job[Sync].at = "block" /\ job[Sync].queue # {}
  BY SyncProc DEF IInv, TypeOK, HandleReorg, At, SyncOK
<1>2. Current \in Block /\ TxsOf[Current] \subseteq Tx
  BY <1>1, CurrentBlock
<1>3. seen' \subseteq Tx \cup Block
  BY <1>1, <1>2 DEF HandleReorg, TypeOK
<1>4. job' \in [Proc -> Job] /\ SyncOK'
  <2>1. CASE Goto(Sync, "write")
    <3>1. "write" \in Stages
      BY DEF Stages, SyncStage
    <3>2. /\ job' \in [Proc -> Job] /\ job'[Sync].at = "write"
          /\ job'[Sync].queue = job[Sync].queue
      BY <1>1, <2>1, <3>1, SyncProc, GotoType
    <3> QED
      BY <1>1, <3>2 DEF SyncOK, Importing, ImportStage
  <2>2. ASSUME NEW b \in Block, Stored(b),
               job' = [job EXCEPT ![Sync].at = "wipe",
                                  ![Sync].height = blocks[b].height,
                                  ![Sync].wipe = {"blocks", "txs", "coins"}]
        PROVE  job' \in [Proc -> Job] /\ SyncOK'
    <3> DEFINE h == blocks[b].height
               j == [job[Sync] EXCEPT !.at = "wipe", !.height = h,
                                      !.wipe = {"blocks", "txs", "coins"}]
    <3>1. job' = [job EXCEPT ![Sync] = j]
      BY <1>1, <2>2 DEF TypeOK
    <3>2. h \in Nat
      BY <1>1, <2>2 DEF TypeOK, Stored, BlockDoc
    <3> HIDE DEF h
    <3>3. j \in Job /\ j.at = "wipe" /\ j.height = h
      BY <1>1, <3>2 DEF Job, SyncStage, Heights
    <3> HIDE DEF j
    <3>4. job' \in [Proc -> Job] /\ job'[Sync] = j
      BY <1>1, <3>1, <3>3, SyncProc, JobType
    <3> QED
      BY <3>2, <3>3, <3>4 DEF SyncOK, Importing, ImportStage
  <2>3. \A b \in LocalTip : b \in Block /\ Stored(b)
    BY DEF LocalTip, Processed
  <2>4. Stored(Parent[Current]) => Parent[Current] \in Block
    BY DEF Stored
  <2> QED
    BY <2>1, <2>2, <2>3, <2>4 DEF HandleReorg
<1> QED
  BY <1>1, <1>3, <1>4, SpendersKept DEF IInv, TypeOK, HandleReorg, net, db

\* The three deletes keep that height, whatever their order.
LEMMA WipeStep ==
    ASSUME IInv, Wipe
    PROVE  IInv'
<1>1. TypeOK /\ job[Sync] \in Job /\ job[Sync].at = "wipe" /\ job[Sync].height \in Nat
  BY SyncProc DEF IInv, TypeOK, Wipe, At, SyncOK
<1>2. PICK k \in job[Sync].wipe :
         job' = [job EXCEPT ![Sync].wipe = @ \ {k},
                            ![Sync].at = IF job[Sync].wipe = {k} THEN "unspend" ELSE @]
  BY DEF Wipe
<1> DEFINE left == job[Sync].wipe \ {k}
           s == IF job[Sync].wipe = {k} THEN "unspend" ELSE "wipe"
           j == [job[Sync] EXCEPT !.wipe = left, !.at = s]
<1>3. job' = [job EXCEPT ![Sync] = j]
  BY <1>1, <1>2 DEF TypeOK, Job
<1>4. left \in SUBSET {"blocks", "txs", "coins"} /\ s \in {"wipe", "unspend"}
  BY <1>1 DEF Job
<1> HIDE DEF left, s
<1>5. j \in Job /\ j.at = s /\ j.height = job[Sync].height
  BY <1>1, <1>4 DEF Job, SyncStage
<1> HIDE DEF j
<1>6. job' \in [Proc -> Job] /\ job'[Sync] = j
  BY <1>1, <1>3, <1>5, SyncProc, JobType
<1>7. SyncOK'
  BY <1>1, <1>4, <1>5, <1>6 DEF SyncOK, Importing, ImportStage
<1>8. blocks' \in [Block -> BlockDoc \cup {Absent}]
  BY <1>1 DEF Wipe, TypeOK
<1>9. txs' \in [Tx -> Heights \cup {Absent}]
  BY <1>1 DEF Wipe, TypeOK
<1>10. coins' \in [Coin -> CoinDoc \cup {Absent}] /\ SpendersOK'
  BY <1>1 DEF Wipe, TypeOK, IInv, SpendersOK
<1> QED
  BY <1>1, <1>6, <1>7, <1>8, <1>9, <1>10 DEF IInv, TypeOK, Wipe, net

\* After the reset of the spends the sync starts again.
LEMMA UnspendStep ==
    ASSUME IInv, Unspend
    PROVE  IInv'
<1> DEFINE j == [NoJob EXCEPT !.at = "start"]
<1>1. TypeOK /\ job' = [job EXCEPT ![Sync] = j]
  BY DEF IInv, Unspend
<1>2. j \in Job /\ j.at = "start"
  BY DEF NoJob, Job, SyncStage, Heights
<1> HIDE DEF j
<1>3. job' \in [Proc -> Job] /\ job'[Sync] = j
  BY <1>1, <1>2, SyncProc, JobType
<1>4. SyncOK'
  BY <1>2, <1>3, SyncFree
<1>5. coins' \in [Coin -> CoinDoc \cup {Absent}] /\ SpendersOK'
  <2>1. \A d \in CoinDoc : UnspentDoc(d) \in CoinDoc /\ UnspentDoc(d).spent # pending
    BY UnspentType
  <2>2. \A c \in Coin : coins[c] \in CoinDoc \cup {Absent}
    BY <1>1 DEF TypeOK
  <2> QED
    BY <2>1, <2>2 DEF UnspentDoc, Unspend, IInv, SpendersOK
<1>6. torn' \subseteq Nat
  BY <1>1 DEF Unspend, TypeOK
<1> QED
  BY <1>1, <1>3, <1>4, <1>5, <1>6 DEF IInv, TypeOK, Unspend, net

\* The block that is written is stored when its import starts.
LEMMA WriteBlockStep ==
    ASSUME IInv, WriteBlock
    PROVE  IInv'
<1> DEFINE b == Current
           height == IF Stored(Parent[b]) THEN blocks[Parent[b]].height + 1 ELSE 1
           doc == [height |-> height, next |-> Root, processed |-> FALSE]
           j == [job[Sync] EXCEPT !.at = "link", !.height = height, !.txs = TxsOf[b]]
<1>1. TypeOK /\ job[Sync] \in Job /\ job[Sync].at = "write" /\ job[Sync].queue # {}
  BY SyncProc DEF IInv, TypeOK, WriteBlock, At, SyncOK
<1>2. b \in Block /\ TxsOf[b] \in SUBSET Tx
  BY <1>1, CurrentBlock
<1>3. b = Lowest(job[Sync].queue)
  BY CurrentIsLowest
<1>4. height \in Nat
  BY <1>1 DEF TypeOK, Stored, BlockDoc
<1>5. blocks' = [blocks EXCEPT ![b] = doc] /\ job' = [job EXCEPT ![Sync] = j]
  BY <1>1 DEF WriteBlock, TypeOK
<1> HIDE DEF b, height
<1>6. doc \in BlockDoc /\ doc # Absent
  BY <1>4, DocTypes DEF BlockDoc
<1>7. j \in Job /\ j.at = "link" /\ j.queue = job[Sync].queue
  BY <1>1, <1>2, <1>4 DEF Job, SyncStage, Heights
<1> HIDE DEF j, doc
<1>8. job' \in [Proc -> Job] /\ job'[Sync] = j
  BY <1>1, <1>5, <1>7, SyncProc, JobType
<1>9. blocks' \in [Block -> BlockDoc \cup {Absent}] /\ blocks'[b] # Absent
  BY <1>1, <1>2, <1>5, <1>6 DEF TypeOK
<1>10. SyncOK'
  BY <1>1, <1>2, <1>3, <1>7, <1>8, <1>9 DEF SyncOK, Stored
<1> QED
  BY <1>1, <1>8, <1>9, <1>10, SpendersKept DEF IInv, TypeOK, WriteBlock, net

\* The link of its parent removes no block.
LEMMA LinkBlockStep ==
    ASSUME IInv, LinkBlock
    PROVE  IInv'
<1>1. TypeOK /\ job[Sync].at = "link" /\ job[Sync].at \in Importing /\ Goto(Sync, "mint")
  BY DEF IInv, LinkBlock, At, Importing
<1>2. Current \in Block /\ job[Sync].queue # {} /\ Stored(Lowest(job[Sync].queue))
  BY <1>1, CurrentBlock DEF IInv, SyncOK
<1>3. "mint" \in Stages
  BY DEF Stages, ImportStage
<1>4. /\ job' \in [Proc -> Job] /\ job'[Sync].at = "mint"
      /\ job'[Sync].queue = job[Sync].queue
  BY <1>1, <1>3, SyncProc, GotoType
<1>5. blocks' \in [Block -> BlockDoc \cup {Absent}] /\ \A b \in Block : Stored(b) => Stored(b)'
  <2>1. CASE UNCHANGED blocks
    BY <1>1, <2>1 DEF TypeOK, Stored
  <2>2. CASE Stored(Parent[Current]) /\ blocks' = [blocks EXCEPT ![Parent[Current]].next = Current]
    <3> DEFINE d == [blocks[Parent[Current]] EXCEPT !.next = Current]
    <3>1. d \in BlockDoc /\ d # Absent
      <4>1. d \in BlockDoc
        BY <1>1, <1>2, <2>2 DEF TypeOK, Stored, BlockDoc
      <4> QED
        BY <4>1, DocTypes
    <3>2. blocks' = [blocks EXCEPT ![Parent[Current]] = d]
      BY <2>2
    <3> HIDE DEF d
    <3> QED
      BY <1>1, <3>1, <3>2 DEF TypeOK, Stored
  <2> QED
    BY <2>1, <2>2 DEF LinkBlock
<1>6. SyncOK'
  <2>1. Lowest(job[Sync].queue) \in Block
    BY <1>2 DEF Stored
  <2> QED
    BY <1>2, <1>4, <1>5, <2>1 DEF SyncOK
<1> QED
  BY <1>1, <1>4, <1>5, <1>6, SpendersKept DEF IInv, TypeOK, LinkBlock, net

\* The block whose import has ended is stored, so its flag can be set.
LEMMA BlockProcessedStep ==
    ASSUME IInv, BlockProcessed
    PROVE  IInv'
<1> DEFINE b == Current
           left == job[Sync].queue \ {b}
           s == IF left = {} THEN "headers" ELSE "block"
           j == [NoJob EXCEPT !.at = s, !.queue = left, !.prune = job[Sync].prune]
           d == [blocks[b] EXCEPT !.processed = TRUE]
<1>1. /\ TypeOK /\ job[Sync] \in Job
      /\ job[Sync].at = "processed" /\ job[Sync].at \in Importing
  BY SyncProc DEF IInv, TypeOK, BlockProcessed, At, Importing
<1>2. b \in Block /\ Stored(b)
  BY <1>1, CurrentBlock, CurrentIsLowest DEF IInv, SyncOK
<1>3. blocks' = [blocks EXCEPT ![b] = d] /\ job' = [job EXCEPT ![Sync] = j]
  BY DEF BlockProcessed
<1>4. d \in BlockDoc
  BY <1>1, <1>2 DEF TypeOK, Stored, BlockDoc
<1>5. /\ left \in SUBSET Block /\ job[Sync].prune \in BOOLEAN
      /\ s = "headers" \/ (s = "block" /\ left # {})
  BY <1>1 DEF Job
<1> HIDE DEF b, d, s, left
<1>6. j \in Job /\ j.at = s /\ j.queue = left
  BY <1>5 DEF NoJob, Job, SyncStage, Heights
<1> HIDE DEF j
<1>7. job' \in [Proc -> Job] /\ job'[Sync] = j
  BY <1>1, <1>3, <1>6, SyncProc, JobType
<1>8. SyncOK'
  BY <1>5, <1>6, <1>7 DEF SyncOK, Importing, ImportStage
<1>9. blocks' \in [Block -> BlockDoc \cup {Absent}]
  BY <1>1, <1>3, <1>4 DEF TypeOK
<1> QED
  BY <1>1, <1>7, <1>8, <1>9, SpendersKept DEF IInv, TypeOK, BlockProcessed, net

\* The sync ends with no block at hand.
LEMMA FinishSyncStep ==
    ASSUME IInv, FinishSync
    PROVE  IInv'
<1>1. TypeOK /\ job' = [job EXCEPT ![Sync] = NoJob]
  BY DEF IInv, FinishSync
<1>2. job' \in [Proc -> Job] /\ job'[Sync] = NoJob
  BY <1>1, NoJobType, SyncProc, JobType
<1>3. SyncOK'
  BY <1>2, NoJobType, SyncFree
<1> QED
  BY <1>1, <1>2, <1>3, SpendersKept DEF IInv, TypeOK, FinishSync, net, db

\* The sync keeps the invariant.
LEMMA SyncActionStep ==
    ASSUME IInv, SyncStep
    PROVE  IInv'
BY SyncBlocksStep, GetHeadersStep, HandleReorgStep, WipeStep, UnspendStep,
   WriteBlockStep, LinkBlockStep, BlockProcessedStep, FinishSyncStep DEF SyncStep

-----------------------------------------------------------------------------
\* The peer and the faults

\* Announcements name blocks, and start a sync from nothing.
LEMMA PeerStep ==
    ASSUME IInv, (\E b \in Block : PeerAdvances(b)) \/ PeerBlock
    PROVE  IInv'
<1>1. TypeOK
  BY DEF IInv
<1>2. ASSUME NEW b \in Block, PeerAdvances(b) PROVE IInv'
  <2>1. SyncOK'
    BY <1>2, SyncKept DEF IInv, PeerAdvances, db
  <2> QED
    BY <1>1, <1>2, <2>1, SpendersKept DEF IInv, TypeOK, PeerAdvances, db
<1>3. CASE PeerBlock
  <2>1. peer \in Block /\ TxsOf[peer] \subseteq Tx
    BY <1>3, TxAssumption DEF PeerBlock, IInv
  <2>2. job' \in [Proc -> Job] /\ SyncOK'
    <3>1. CASE Goto(Sync, "start")
      <4>1. "start" \in Stages
        BY DEF Stages, SyncStage
      <4>2. job' \in [Proc -> Job] /\ job'[Sync].at = "start"
        BY <1>1, <3>1, <4>1, SyncProc, GotoType
      <4> QED
        BY <4>2, SyncFree
    <3>2. CASE UNCHANGED job
      BY <1>1, <1>3, <3>2, SyncKept DEF IInv, TypeOK, PeerBlock, db
    <3> QED
      BY <1>3, <3>1, <3>2 DEF PeerBlock
  <2>3. seen' \subseteq Tx \cup Block /\ missed' \in BOOLEAN /\ news' = FALSE
    BY <1>1, <1>3, <2>1 DEF PeerBlock, TypeOK, At
  <2> QED
    BY <1>1, <1>3, <2>2, <2>3, SpendersKept DEF IInv, TypeOK, PeerBlock, db
<1> QED
  BY <1>2, <1>3

\* A relayed transaction is imported by another process than the sync.
LEMMA PeerTxStep ==
    ASSUME IInv, NEW p \in Relay, NEW t \in Tx, PeerTx(p, t)
    PROVE  IInv'
<1> DEFINE x == {t}
           h == pending
           j == [NoJob EXCEPT !.at = "mint", !.txs = x, !.height = h, !.prune = TRUE]
<1>1. TypeOK /\ p \in Proc /\ p # Sync
  BY ProcessAssumption DEF IInv, Proc
<1>2. job' = [job EXCEPT ![p] = j]
  BY DEF PeerTx
<1>3. j \in Job
  <2>1. x \in SUBSET Tx /\ h \in Heights
    BY DEF Heights, pending
  <2> HIDE DEF x, h
  <2> QED
    BY <2>1 DEF NoJob, Job, ImportStage
<1> HIDE DEF j
<1>4. job' \in [Proc -> Job] /\ job'[Sync] = job[Sync]
  BY <1>1, <1>2, <1>3, SyncProc, JobType
<1>5. SyncOK'
  BY <1>4, SyncKept DEF IInv, PeerTx, db
<1> QED
  BY <1>1, <1>4, <1>5, SpendersKept DEF IInv, TypeOK, PeerTx, net, db

\* The reorgs that are cut short had a height to go back to.
LEMMA TearType ==
    ASSUME TypeOK, SyncOK, Tear
    PROVE  torn' \subseteq Nat
BY DEF Tear, Tearing, At, TypeOK, SyncOK

\* A crash or a failure leaves no block at hand.
LEMMA FaultStep ==
    ASSUME IInv, Crash \/ SyncFails \/ \E p \in Proc : ImportFails(p)
    PROVE  IInv'
<1> DEFINE start == [NoJob EXCEPT !.at = "start"]
<1>1. TypeOK /\ SyncOK /\ SpendersOK
  BY DEF IInv
<1>2. start \in Job /\ start.at = "start"
  BY DEF NoJob, Job, SyncStage, Heights
<1>3. faults < MaxFaults /\ faults' = faults + 1 => faults' \in 0 .. MaxFaults
  BY <1>1, ProcessAssumption DEF TypeOK
<1>4. CASE Crash
  <2>1. job' = [p \in Proc |-> IF p = Sync THEN start ELSE NoJob]
    BY <1>4 DEF Crash
  <2> HIDE DEF start
  <2>2. job' \in [Proc -> Job] /\ job'[Sync].at = "start"
    BY <1>2, <2>1, NoJobType, SyncProc
  <2>3. SyncOK'
    BY <2>2, SyncFree
  <2>4. torn' \subseteq Nat
    BY <1>1, <1>4, TearType DEF Crash
  <2> QED
    BY <1>1, <1>3, <1>4, <2>2, <2>3, <2>4, SpendersKept DEF IInv, TypeOK, Crash, net, db
<1>5. CASE SyncFails
  <2>1. job' = [job EXCEPT ![Sync] = start]
    BY <1>5 DEF SyncFails
  <2> HIDE DEF start
  <2>2. job' \in [Proc -> Job] /\ job'[Sync] = start
    BY <1>1, <1>2, <2>1, SyncProc, JobType
  <2>3. SyncOK'
    BY <1>2, <2>2, SyncFree
  <2>4. torn' \subseteq Nat
    BY <1>1, <1>5, TearType DEF SyncFails
  <2> QED
    BY <1>1, <1>3, <1>5, <2>2, <2>3, <2>4, SpendersKept DEF IInv, TypeOK, SyncFails, net, db
<1>6. ASSUME NEW p \in Proc, ImportFails(p) PROVE IInv'
  <2> DEFINE hung == [job[p] EXCEPT !.at = "hung"]
             j == IF p = Sync THEN hung ELSE NoJob
  <2>1. job[p] \in Job /\ job' = [job EXCEPT ![p] = j]
    BY <1>1, <1>6 DEF TypeOK, ImportFails
  <2>2. hung \in Job /\ hung.at = "hung"
    BY <2>1 DEF Job
  <2>3. j \in Job /\ (p = Sync => j.at = "hung")
    BY <2>2, NoJobType
  <2> HIDE DEF j
  <2>4. /\ job' \in [Proc -> Job] /\ job'[p] = j
        /\ \A q \in Proc : q # p => job'[q] = job[q]
    BY <1>1, <2>1, <2>3, JobType
  <2>5. SyncOK'
    <3>1. CASE p = Sync
      BY <2>3, <2>4, <3>1, SyncFree
    <3>2. CASE p # Sync
      BY <1>1, <1>6, <2>4, <3>2, SyncProc, SyncKept DEF ImportFails, db
    <3> QED
      BY <3>1, <3>2
  <2> QED
    BY <1>1, <1>3, <1>6, <2>4, <2>5, SpendersKept DEF IInv, TypeOK, ImportFails, net, db
<1> QED
  BY <1>4, <1>5, <1>6

-----------------------------------------------------------------------------
\* The theorems

\* Every step keeps the invariant.
LEMMA InvariantStep ==
    ASSUME IInv, [Next]_vars
    PROVE  IInv'
<1>1. CASE UNCHANGED vars
  BY <1>1, SyncKept, SpendersKept DEF IInv, TypeOK, vars, net
<1>2. CASE Next
  BY <1>2, SyncActionStep, ImportStep, PeerStep, PeerTxStep, FaultStep DEF Next
<1> QED
  BY <1>1, <1>2

\* In every state the documents and the jobs have their types, a sync that
\* writes a block has it stored, and a pending coin names its spender.
THEOREM InductiveInvariant == Spec => []IInv
<1>1. Init => IInv
  <2> SUFFICES ASSUME Init PROVE IInv
    OBVIOUS
  <2> DEFINE start == [NoJob EXCEPT !.at = "start"]
  <2>1. start \in Job /\ start.at = "start"
    BY DEF NoJob, Job, SyncStage, Heights
  <2>2. job = [p \in Proc |-> IF p = Sync THEN start ELSE NoJob]
    BY DEF Init
  <2> HIDE DEF start
  <2>3. job \in [Proc -> Job] /\ job[Sync].at = "start"
    BY <2>1, <2>2, NoJobType, SyncProc
  <2>4. SyncOK
    BY <2>3 DEF SyncOK, Importing, ImportStage
  <2>5. SpendersOK
    BY DEF Init, SpendersOK
  <2>6. faults \in 0 .. MaxFaults
    BY ProcessAssumption DEF Init
  <2>7. /\ blocks \in [Block -> BlockDoc \cup {Absent}]
        /\ coins \in [Coin -> CoinDoc \cup {Absent}]
        /\ txs \in [Tx -> Heights \cup {Absent}]
    BY DEF Init
  <2>8. TypeOK
    BY <2>3, <2>6, <2>7 DEF Init, TypeOK
  <2> QED
    BY <2>4, <2>5, <2>8 DEF Init, IInv
<1>2. IInv /\ [Next]_vars => IInv'
  BY InvariantStep
<1> QED
  BY <1>1, <1>2, PTL DEF Spec

\* The collections, the jobs and the histories keep their types.
THEOREM TypeCorrect == Spec => []TypeOK
<1>1. IInv => TypeOK
  BY DEF IInv
<1> QED
  BY <1>1, InductiveInvariant, PTL

\* A confirmed spend and a confirmed output stay until a reorg, unless marked
\* in a race (models/transaction.ts: the filter of streamSpendOps and
\* toMempoolSafeUpsert).  With the types, each step keeps them by its own guard.
THEOREM Undone == Spec => UndoneByReorgOnly
<1> DEFINE Kept(c) ==
      /\ coins'[c] # Absent
      /\ coins[c].spent >= minimum
            => coins'[c].spent = coins[c].spent /\ coins'[c].by = coins[c].by
      /\ coins[c].mint >= minimum
            => coins'[c].mint >= minimum \/ Minter[c] \in raced'
    KeptByAll ==
      \A c \in Coin : coins[c] # Absent /\ job[Sync].at \notin {"wipe", "unspend"} => Kept(c)
<1>1. TypeOK /\ [Next]_vars => [KeptByAll]_vars
  <2> SUFFICES ASSUME TypeOK, Next, NEW c \in Coin, coins[c] # Absent,
                      job[Sync].at \notin {"wipe", "unspend"}
               PROVE  Kept(c)
    OBVIOUS
  <2>1. coins[c] \in CoinDoc /\ \A d \in CoinDoc : d # Absent
    BY DocTypes DEF TypeOK
  <2>2. CASE UNCHANGED coins
    BY <2>1, <2>2
  <2>3. ASSUME NEW p \in Proc, Mint(p) PROVE Kept(c)
    <3> DEFINE h == job[p].height
    <3>1. h \in Heights
      BY DEF TypeOK, Job
    <3>2. \/ coins'[c] = coins[c]
          \/ h >= minimum /\ coins'[c] = [coins[c] EXCEPT !.mint = h]
      BY <2>3 DEF Mint
    <3> HIDE DEF h
    <3>3. [coins[c] EXCEPT !.mint = h] \in CoinDoc
      BY <2>1, <3>1 DEF CoinDoc
    <3> QED
      BY <2>1, <3>2, <3>3 DEF CoinDoc
  <2>4. ASSUME NEW p \in Proc, Invalidate(p) PROVE Kept(c)
    <3>1. \/ coins'[c] = coins[c]
          \/ coins[c].spent = pending /\ coins'[c] = UnspentDoc(coins[c])
      BY <2>4 DEF Invalidate, UnspentDoc
    <3>2. UnspentDoc(coins[c]) \in CoinDoc /\ UnspentDoc(coins[c]).mint = coins[c].mint
      BY <2>1, UnspentType DEF UnspentDoc, CoinDoc
    <3> QED
      BY <2>1, <3>1, <3>2 DEF pending, minimum
  <2>5. ASSUME NEW p \in Proc, Mark(p) PROVE Kept(c)
    <3> DEFINE doomed == Related(job[p].now)
    <3>1. \/ coins'[c] = coins[c]
          \/ Minter[c] \in doomed /\ coins'[c] = [coins[c] EXCEPT !.mint = conflicting]
      BY <2>5 DEF Mark
    <3>2. coins[c].mint >= minimum /\ Minter[c] \in doomed => Minter[c] \in raced'
      BY <2>5, TxAssumption DEF Mark, IsConfirmed
    <3> HIDE DEF doomed
    <3>3. [coins[c] EXCEPT !.mint = conflicting] \in CoinDoc
      BY <2>1 DEF CoinDoc, Heights, conflicting
    <3> QED
      BY <2>1, <3>1, <3>2, <3>3 DEF CoinDoc
  <2>6. ASSUME NEW p \in Proc, Spend(p) PROVE Kept(c)
    <3> DEFINE h == job[p].height
               t == CHOOSE u \in job[p].txs : c \in Spends[u]
    <3>1. \/ coins'[c] = coins[c]
          \/ /\ \E u \in job[p].txs : c \in Spends[u]
             /\ coins[c].spent < minimum
             /\ coins'[c] = [coins[c] EXCEPT !.spent = h, !.by = t]
      BY <2>6 DEF Spend
    <3>2. h \in Heights /\ ((\E u \in job[p].txs : c \in Spends[u]) => t \in Tx)
      BY DEF TypeOK, Job
    <3> HIDE DEF h, t
    <3>3. t \in Tx => [coins[c] EXCEPT !.spent = h, !.by = t] \in CoinDoc
      BY <2>1, <3>2 DEF CoinDoc
    <3>4. coins[c].spent \in Int
      BY <2>1 DEF CoinDoc, Heights
    <3>5. CASE coins'[c] = coins[c]
      BY <2>1, <3>5
    <3>6. CASE (t \in Tx) /\ coins[c].spent < minimum
               /\ coins'[c] = [coins[c] EXCEPT !.spent = h, !.by = t]
      <4>1. coins'[c] # Absent /\ coins'[c].mint = coins[c].mint
        BY <2>1, <3>3, <3>6 DEF CoinDoc
      <4>2. ~(coins[c].spent >= minimum)
        BY <3>4, <3>6 DEF minimum
      <4> QED
        BY <4>1, <4>2
    <3> QED
      BY <3>1, <3>2, <3>5, <3>6
  <2>7. UNCHANGED coins \/ \E p \in Proc : Mint(p) \/ Invalidate(p) \/ Mark(p) \/ Spend(p)
    BY DEF Next, SyncStep, BatchImport, Prune, WriteTx, SyncBlocks, GetHeaders, HandleReorg,
           Wipe, Unspend, WriteBlock, LinkBlock, BlockProcessed, FinishSync, PeerAdvances,
           PeerBlock, PeerTx, Crash, SyncFails, ImportFails, db, At
  <2> QED
    BY <2>2, <2>3, <2>4, <2>5, <2>6, <2>7
<1> QED
  BY <1>1, TypeCorrect, PTL DEF Spec, UndoneByReorgOnly

-----------------------------------------------------------------------------
\* The chains of the block tree

\* A block is on its own chain, and with a block its parent is; no set that
\* keeps to this is smaller.
LEMMA BranchClosed ==
    ASSUME NEW p \in Block \cup {Root}
    PROVE  /\ Branch[p] \subseteq Block
           /\ p \in Branch[p] \cup {Root}
           /\ \A b \in Branch[p] : Parent[b] \in Branch[p] \cup {Root}
           /\ \A S \in SUBSET Block :
                 p \in S \cup {Root} /\ (\A c \in S : Parent[c] \in S \cup {Root})
                 => Branch[p] \subseteq S
<1>1. ASSUME NEW b \in Block
      PROVE  b \in Branch[p] <=>
             \A S \in SUBSET Block :
                p \in S \cup {Root} /\ (\A c \in S : Parent[c] \in S \cup {Root}) => b \in S
  BY DEF Branch
<1>2. Branch[p] \subseteq Block
  BY DEF Branch
<1>3. p \in Branch[p] \cup {Root}
  BY <1>1
<1>4. ASSUME NEW b \in Branch[p] PROVE Parent[b] \in Branch[p] \cup {Root}
  <2>1. CASE Parent[b] \in Block
    <3>1. \A S \in SUBSET Block :
             p \in S \cup {Root} /\ (\A c \in S : Parent[c] \in S \cup {Root})
             => Parent[b] \in S
      BY <1>1, <1>2, <2>1, TreeAssumption
    <3> QED
      BY <1>1, <2>1, <3>1
  <2> QED
    BY <1>2, <2>1, TreeAssumption
<1>5. ASSUME NEW S \in SUBSET Block, p \in S \cup {Root},
             \A c \in S : Parent[c] \in S \cup {Root}
      PROVE  Branch[p] \subseteq S
  BY <1>1, <1>2, <1>5
<1> QED
  BY <1>2, <1>3, <1>4, <1>5

\* The chain of the genesis block is empty; another is one block longer than
\* that of its parent.
LEMMA BranchSteps ==
    /\ Branch[Root] = {}
    /\ \A b \in Block : Branch[b] = {b} \cup Branch[Parent[b]]
<1>1. Branch[Root] = {}
  <2> DEFINE S == {}
  <2>1. S \in SUBSET Block /\ \A c \in S : Parent[c] \in S \cup {Root}
    OBVIOUS
  <2>2. Branch[Root] \subseteq S
    BY <2>1, BranchClosed
  <2> QED
    BY <2>2
<1>2. ASSUME NEW b \in Block PROVE Branch[b] = {b} \cup Branch[Parent[b]]
  <2>1. Parent[b] \in Block \cup {Root}
    BY TreeAssumption
  <2>2. Branch[b] \subseteq {b} \cup Branch[Parent[b]]
    <3> DEFINE S == {b} \cup Branch[Parent[b]]
    <3>1. S \in SUBSET Block /\ b \in S
      BY <2>1, BranchClosed
    <3>2. \A c \in S : Parent[c] \in S \cup {Root}
      BY <2>1, BranchClosed
    <3> HIDE DEF S
    <3>3. Branch[b] \subseteq S
      BY <3>1, <3>2, BranchClosed
    <3> QED
      BY <3>3 DEF S
  <2>3. b \in Branch[b] /\ Parent[b] \in Branch[b] \cup {Root}
    BY BranchClosed, TreeAssumption
  <2>4. Branch[Parent[b]] \subseteq Branch[b]
    BY <2>1, <2>3, BranchClosed
  <2> QED
    BY <2>2, <2>3, <2>4
<1> QED
  BY <1>1, <1>2

\* A block of a chain is lower than its tip.
LEMMA BranchHeights ==
    ASSUME NEW p \in Block, NEW b \in Branch[p]
    PROVE  /\ b \in Block
           /\ Height[b] <= Height[p]
           /\ Height[b] = Height[p] => b = p
<1> DEFINE S == {p} \cup {c \in Block : Height[c] < Height[p]}
<1>1. ASSUME NEW c \in S PROVE Parent[c] \in S \cup {Root}
  <2>1. c \in Block /\ Height[c] <= Height[p] /\ Height[p] \in Int /\ Height[c] \in Int
    BY TreeAssumption
  <2>2. CASE Parent[c] # Root
    <3>1. Parent[c] \in Block /\ Height[Parent[c]] \in Int /\ Height[c] = Height[Parent[c]] + 1
      BY <2>1, <2>2, TreeAssumption
    <3> QED
      BY <2>1, <3>1
  <2> QED
    BY <2>2
<1>2. Branch[p] \subseteq S
  <2>1. S \in SUBSET Block /\ p \in S
    OBVIOUS
  <2> HIDE DEF S
  <2> QED
    BY <1>1, <2>1, BranchClosed
<1> QED
  BY <1>2, TreeAssumption

\* Of two blocks of a chain, one is on the chain of the other.
LEMMA BranchLinear ==
    ASSUME NEW p \in Block \cup {Root}, NEW b \in Branch[p], NEW d \in Branch[p]
    PROVE  /\ b \in Branch[d] \/ d \in Branch[b]
           /\ Height[b] = Height[d] => b = d
           /\ Branch[b] \subseteq Branch[p]
<1> DEFINE S == {c \in Branch[p] : c \in Branch[d] \/ d \in Branch[c]}
<1>1. Branch[p] \subseteq Block /\ b \in Block /\ d \in Block
  BY BranchClosed
<1>2. S \in SUBSET Block
  BY <1>1
<1>3. p \in S \cup {Root}
  BY BranchClosed
<1>4. ASSUME NEW c \in S PROVE Parent[c] \in S \cup {Root}
  <2>1. c \in Branch[p] /\ c \in Block /\ Parent[c] \in Branch[p] \cup {Root}
    BY <1>1, BranchClosed
  <2>2. CASE c \in Branch[d]
    BY <1>1, <2>1, <2>2, BranchClosed
  <2>3. CASE d \in Branch[c]
    <3>1. d = c \/ d \in Branch[Parent[c]]
      BY <2>1, <2>3, BranchSteps
    <3>2. d = c => Parent[c] \in Branch[d] \cup {Root}
      BY <1>1, BranchClosed
    <3> QED
      BY <2>1, <3>1, <3>2
  <2> QED
    BY <2>2, <2>3
<1>5. b \in S
  <2> HIDE DEF S
  <2> QED
    BY <1>2, <1>3, <1>4, BranchClosed
<1>6. b \in Branch[d] \/ d \in Branch[b]
  BY <1>5
<1>7. Branch[b] \subseteq Branch[p]
  BY <1>1, BranchClosed
<1>8. Height[b] = Height[d] => b = d
  BY <1>1, <1>6, BranchHeights
<1> QED
  BY <1>6, <1>7, <1>8

-----------------------------------------------------------------------------
\* The local tip and the peer

\* While the sync handles a block.
Handling == Importing \cup {"block", "write"}

\* The stored heights are those of the blocks, and no block that is stored, was
\* seen or is queued is higher than the tip of the peer.  The queue goes on from
\* what is processed.  At the end of a sync the tip of the peer is processed,
\* or its announcement is still to come.
PeerInv ==
    /\ \A b \in Block : Stored(b) => blocks[b].height = Height[b] /\ Height[b] <= Height[peer]
    /\ \A b \in Block : b \in seen => Height[b] <= Height[peer]
    /\ job[Sync].at \in Handling =>
          \A b \in job[Sync].queue :
             /\ Height[b] <= Height[peer]
             /\ Parent[b] \in job[Sync].queue \cup Processed \cup {Root}
    /\ job[Sync].at \in {"finish", "idle"} =>
          peer = Root \/ peer \in Processed \/ missed \/ (news /\ peer \notin seen)

\* Heights are numbers.
LEMMA HeightTypes ==
    /\ \A b \in Block \cup {Root} : Height[b] \in Nat
    /\ \A b \in Block : /\ Parent[b] \in Block \cup {Root}
                        /\ Height[b] = Height[Parent[b]] + 1
BY TreeAssumption

\* A relayed transaction does not move the sync, and an import of the sync
\* stays at its block.
LEMMA ImportMoves ==
    ASSUME IInv, NEW p \in Proc, BatchImport(p)
    PROVE  /\ UNCHANGED <<blocks, seen, peer, news, missed, syncedOnce, faults, torn>>
           /\ job'[Sync].queue = job[Sync].queue
           /\ \A q \in Proc : q # p => job'[q] = job[q]
           /\ job[p].at \in ImportStage
           /\ p = Sync => /\ job[Sync].at \in ImportStage
                          /\ job'[Sync].at \in ImportStage \cup {"processed"}
<1>1. /\ job \in [Proc -> Job] /\ p \in Proc /\ Sync \in Proc
      /\ \A q \in Proc : job[q].at = "mint" => job[q].at \in ImportStage
  BY SyncProc DEF IInv, TypeOK, ImportStage
<1>2. CASE Mint(p)
  BY <1>1, <1>2 DEF Mint, net, At, Goto, ImportStage, Job
<1>3. CASE Prune(p)
  <2>1. PICK bad \in SUBSET {coins[c].by : c \in Candidates(p)} :
           job' = [job EXCEPT ![p].bad = bad,
                              ![p].at = IF bad = {} THEN "spend" ELSE "invalidate"]
    BY <1>3 DEF Prune
  <2> DEFINE s == IF bad = {} THEN "spend" ELSE "invalidate"
             j == [job[p] EXCEPT !.bad = bad, !.at = s]
  <2>2. job[p] \in Job /\ job' = [job EXCEPT ![p] = j] /\ s \in ImportStage
    BY <1>1, <2>1 DEF ImportStage
  <2> HIDE DEF s
  <2>3. j.at = s /\ j.queue = job[p].queue
    BY <2>2 DEF Job
  <2> HIDE DEF j
  <2>4. job'[p] = j /\ \A q \in Proc : q # p => job'[q] = job[q]
    BY <1>1, <2>2
  <2>5. job[p].at \in ImportStage /\ UNCHANGED <<db, seen, net, syncedOnce, faults, torn>>
    BY <1>3 DEF Prune, At, ImportStage
  <2> QED
    BY <1>1, <2>2, <2>3, <2>4, <2>5 DEF net, db
<1>4. CASE Invalidate(p)
  <2>1. PICK t \in job[p].bad :
           job' = [job EXCEPT ![p].at = "mark", ![p].bad = @ \ {t}, ![p].now = t]
    BY <1>4 DEF Invalidate
  <2>2. job[p] \in Job
    BY <1>1
  <2>3. job'[p].queue = job[p].queue /\ job'[p].at = "mark"
    BY <1>1, <2>1, <2>2 DEF Job
  <2>4. \A q \in Proc : q # p => job'[q] = job[q]
    BY <1>1, <2>1
  <2>5. /\ job[p].at \in ImportStage
        /\ UNCHANGED <<blocks, seen, peer, news, missed, syncedOnce, faults, torn>>
    BY <1>4 DEF Invalidate, net, At, ImportStage
  <2> QED
    BY <1>1, <2>3, <2>4, <2>5 DEF ImportStage
<1>5. CASE Mark(p)
  BY <1>1, <1>5 DEF Mark, net, At, ImportStage, Job
<1>6. CASE Spend(p)
  BY <1>1, <1>6 DEF Spend, net, At, Goto, ImportStage, Job
<1>7. CASE WriteTx(p)
  BY <1>1, <1>7 DEF WriteTx, net, At, Goto, ImportStage, Job
<1> QED
  BY <1>2, <1>3, <1>4, <1>5, <1>6, <1>7 DEF BatchImport

\* The headers go on from what is processed.
LEMMA HeadersFollow ==
    ASSUME TypeOK, NEW b \in Headers
    PROVE  /\ Height[b] <= Height[peer]
           /\ Parent[b] \in Headers \cup Processed \cup {Root}
<1> DEFINE known == IF Cardinality(Processed) < 2 THEN {} ELSE Branch[peer] \cap Processed
<1>1. /\ peer \in Block \cup {Root} /\ b \in Block /\ b \in Branch[peer]
      /\ \A a \in known : Height[a] < Height[b]
  BY DEF Headers, TypeOK
<1>2. \A c \in Block : c \in Branch[peer] /\ (\A a \in known : Height[a] < Height[c])
                       => c \in Headers
  BY DEF Headers
<1>3. peer \in Block
  BY <1>1, BranchSteps
<1>4. Height[b] <= Height[peer]
  BY <1>1, <1>3, BranchHeights
<1>5. Parent[b] \in Branch[peer] \cup {Root}
  BY <1>1, BranchClosed
<1>6. ASSUME Parent[b] # Root, Parent[b] \notin Processed, NEW a \in known
      PROVE  Height[a] < Height[Parent[b]]
  <2>1. a \in Branch[peer] /\ a \in Processed /\ a \in Block
    BY <1>6, BranchClosed, <1>1
  <2>2. Height[a] # Height[Parent[b]]
    BY <1>1, <1>5, <1>6, <2>1, BranchLinear
  <2>3. Height[a] < Height[b]
    BY <1>1
  <2> HIDE DEF known
  <2> QED
    BY <1>1, <1>6, <2>1, <2>2, <2>3, HeightTypes
<1>7. Parent[b] \in Block \cup {Root}
  BY <1>1, HeightTypes
<1> HIDE DEF known
<1> QED
  BY <1>2, <1>4, <1>5, <1>6, <1>7

\* When the peer has no more headers, its tip is processed.
LEMMA NoHeaders ==
    ASSUME TypeOK, Headers = {}
    PROVE  peer = Root \/ peer \in Processed
<1> SUFFICES ASSUME peer # Root PROVE peer \in Processed
  OBVIOUS
<1> DEFINE known == IF Cardinality(Processed) < 2 THEN {} ELSE Branch[peer] \cap Processed
<1>1. peer \in Block /\ peer \in Branch[peer]
  BY BranchClosed DEF TypeOK
<1>2. PICK a \in known : ~(Height[a] < Height[peer])
  BY <1>1 DEF Headers
<1>3. a \in Branch[peer] /\ a \in Processed
  BY <1>2
<1>4. a \in Block /\ Height[a] <= Height[peer] /\ (Height[a] = Height[peer] => a = peer)
  BY <1>1, <1>3, BranchHeights
<1> HIDE DEF known
<1>5. Height[a] = Height[peer]
  BY <1>1, <1>2, <1>4, HeightTypes
<1> QED
  BY <1>3, <1>4, <1>5

\* No queued block is lower than the one at hand.
LEMMA CurrentLowest ==
    ASSUME IInv, job[Sync].at \in Importing \cup {"block", "write"}
    PROVE  \A c \in job[Sync].queue : Height[Current] <= Height[c]
<1>1. job[Sync].queue \in SUBSET Block /\ job[Sync].queue # {}
  BY CurrentBlock
<1>2. \A c \in job[Sync].queue : Height[Lowest(job[Sync].queue)] <= Height[c]
  BY <1>1, LowestInQueue
<1> QED
  BY <1>2, CurrentIsLowest

\* What changes neither the blocks nor the sync keeps the invariant.
LEMMA PeerKept ==
    ASSUME IInv, PeerInv, UNCHANGED <<blocks, peer, news, missed>>,
           \A b \in Block : b \in seen' => b \in seen,
           job'[Sync].queue = job[Sync].queue,
           \/ job'[Sync].at = job[Sync].at
           \/ job[Sync].at \in Handling /\ job'[Sync].at \in Handling
    PROVE  PeerInv'
<1>1. \A b \in Block : Stored(b)' <=> Stored(b)
  BY DEF Stored
<1>2. Processed' = Processed
  BY <1>1 DEF Processed
<1>3. Handling \cap {"finish", "idle"} = {}
  BY DEF Handling, Importing, ImportStage
<1>4. peer = Root \/ peer \in Block
  BY DEF IInv, TypeOK
<1>5. job'[Sync].at \in {"finish", "idle"} => job[Sync].at \in {"finish", "idle"}
  BY <1>3
<1>6. job'[Sync].at \in Handling => job[Sync].at \in Handling
  OBVIOUS
<1>7. peer = Root \/ (peer \notin seen => peer \notin seen')
  BY <1>4
<1> QED
  BY <1>1, <1>2, <1>5, <1>6, <1>7 DEF PeerInv

\* A sync with no block at hand has only the blocks and the hashes to keep.
LEMMA PeerFree ==
    ASSUME PeerInv, UNCHANGED <<peer, news, missed>>,
           \A b \in Block : Stored(b)' => Stored(b) /\ blocks'[b] = blocks[b],
           \A b \in Block : b \in seen' => b \in seen,
           job'[Sync].at \in {"start", "headers", "hung", "wipe", "unspend"}
    PROVE  PeerInv'
<1>1. job'[Sync].at \notin Handling
  BY DEF Handling, Importing, ImportStage
<1> QED
  BY <1>1 DEF PeerInv

\* batchImport keeps it.
LEMMA PeerImport ==
    ASSUME IInv, PeerInv, NEW p \in Proc, BatchImport(p)
    PROVE  PeerInv'
<1>1. p = Sync => job[Sync].at \in Handling /\ job'[Sync].at \in Handling
  BY ImportMoves DEF Handling, Importing
<1>2. p # Sync => job'[Sync] = job[Sync]
  BY ImportMoves, SyncProc
<1> QED
  BY <1>1, <1>2, ImportMoves, PeerKept

\* syncBlocks, and the reorg: nothing is at hand.
LEMMA PeerRestart ==
    ASSUME IInv, PeerInv, SyncBlocks \/ Wipe \/ Unspend
    PROVE  PeerInv'
<1>1. TypeOK /\ Sync \in Proc /\ job \in [Proc -> Job] /\ \A d \in BlockDoc : d # Absent
  BY SyncProc, DocTypes DEF IInv, TypeOK
<1>2. job'[Sync].at \in {"start", "headers", "wipe", "unspend"}
  <2>1. CASE SyncBlocks
    BY <1>1, <2>1 DEF SyncBlocks, NoJob
  <2>2. CASE Wipe
    <3>1. PICK k \in job[Sync].wipe :
             job' = [job EXCEPT ![Sync].wipe = @ \ {k},
                                ![Sync].at = IF job[Sync].wipe = {k} THEN "unspend" ELSE @]
      BY <2>2 DEF Wipe
    <3>2. job[Sync] \in Job /\ job[Sync].at = "wipe"
      BY <1>1, <2>2 DEF Wipe, At
    <3> QED
      BY <1>1, <3>1, <3>2 DEF Job
  <2>3. CASE Unspend
    BY <1>1, <2>3 DEF Unspend, NoJob
  <2> QED
    BY <2>1, <2>2, <2>3
<1>3. \A b \in Block : Stored(b)' => Stored(b) /\ blocks'[b] = blocks[b]
  BY DEF SyncBlocks, Wipe, Unspend, Stored, db
<1>4. UNCHANGED <<peer, news, missed, seen>>
  BY DEF SyncBlocks, Wipe, Unspend, net
<1> QED
  BY <1>2, <1>3, <1>4, PeerFree

\* The headers go on from what is processed, and the sync ends at the tip.
LEMMA PeerHeaders ==
    ASSUME IInv, PeerInv, GetHeaders
    PROVE  PeerInv'
<1>1. TypeOK /\ Sync \in Proc /\ job \in [Proc -> Job]
  BY SyncProc DEF IInv, TypeOK
<1>2. /\ job'[Sync].queue = Headers
      /\ job'[Sync].at = IF Headers = {} THEN "finish" ELSE "block"
  BY <1>1 DEF GetHeaders, Job
<1>3. UNCHANGED <<blocks, seen, peer, news, missed>>
  BY DEF GetHeaders, db, net
<1>4. Processed' = Processed /\ \A b \in Block : Stored(b)' <=> Stored(b)
  BY <1>3 DEF Processed, Stored
<1>5. \A b \in Headers : /\ Height[b] <= Height[peer]
                         /\ Parent[b] \in Headers \cup Processed \cup {Root}
  BY <1>1, HeadersFollow
<1>6. Headers = {} => peer = Root \/ peer \in Processed
  BY <1>1, NoHeaders
<1>7. "finish" \notin Handling
  BY DEF Handling, Importing, ImportStage
<1> HIDE DEF Headers
<1> QED
  BY <1>2, <1>3, <1>4, <1>5, <1>6, <1>7 DEF PeerInv

\* The blocks that are seen here are in the queue.
LEMMA PeerReorg ==
    ASSUME IInv, PeerInv, HandleReorg
    PROVE  PeerInv'
<1>1. TypeOK /\ Sync \in Proc /\ job \in [Proc -> Job] /\ job[Sync].at = "block"
  BY SyncProc DEF IInv, TypeOK, HandleReorg, At
<1>2. job[Sync].at \in Handling
  BY <1>1 DEF Handling
<1>3. Current \in job[Sync].queue /\ TxsOf[Current] \subseteq Tx
  BY <1>1, CurrentBlock
<1>4. \A b \in Block : b \in seen' => Height[b] <= Height[peer]
  BY <1>2, <1>3, TxAssumption DEF HandleReorg, PeerInv
<1>5. /\ job'[Sync].queue = job[Sync].queue
      /\ job'[Sync].at \in {"write", "wipe"}
  <2>1. job[Sync] \in Job
    BY <1>1
  <2>2. CASE Goto(Sync, "write")
    BY <1>1, <2>1, <2>2 DEF Goto, Job
  <2>3. ASSUME NEW b \in Block \cup {Root},
               job' = [job EXCEPT ![Sync].at = "wipe",
                                  ![Sync].height = blocks[b].height,
                                  ![Sync].wipe = {"blocks", "txs", "coins"}]
        PROVE  job'[Sync].queue = job[Sync].queue /\ job'[Sync].at = "wipe"
    BY <1>1, <2>1, <2>3 DEF Job
  <2>4. LocalTip \subseteq Block /\ Parent[Current] \in Block \cup {Root}
    BY <1>1, CurrentBlock, HeightTypes DEF LocalTip, Processed
  <2> QED
    BY <2>2, <2>3, <2>4 DEF HandleReorg
<1>6. UNCHANGED <<blocks, peer, news, missed>>
  BY DEF HandleReorg, db, net
<1>7. Processed' = Processed /\ \A b \in Block : Stored(b)' <=> Stored(b)
  BY <1>6 DEF Processed, Stored
<1> QED
  BY <1>2, <1>4, <1>5, <1>6, <1>7 DEF PeerInv

\* The height that is stored is that of the block.
LEMMA PeerWrite ==
    ASSUME IInv, PeerInv, WriteBlock
    PROVE  PeerInv'
<1> DEFINE b == Current
           height == IF Stored(Parent[b]) THEN blocks[Parent[b]].height + 1 ELSE 1
           doc == [height |-> height, next |-> Root, processed |-> FALSE]
<1>1. TypeOK /\ Sync \in Proc /\ job \in [Proc -> Job] /\ job[Sync].at = "write"
  BY SyncProc DEF IInv, TypeOK, WriteBlock, At
<1>2. job[Sync].at \in Handling
  BY <1>1 DEF Handling
<1>3. b \in job[Sync].queue /\ b \in Block /\ job[Sync].queue \subseteq Block
  BY <1>1, CurrentBlock
<1>4. /\ job'[Sync].queue = job[Sync].queue
      /\ job'[Sync].at = "link"
      /\ UNCHANGED <<seen, peer, news, missed>>
  BY <1>1 DEF WriteBlock, Job, net
<1>5. height = Height[b] /\ Height[b] <= Height[peer]
  <2>1. Parent[b] \notin job[Sync].queue
    <3>1. Lowest(job[Sync].queue) = b
      BY CurrentIsLowest
    <3>2. \A c \in job[Sync].queue : Height[b] <= Height[c]
      BY <1>1, CurrentLowest
    <3> QED
      BY <1>3, <3>2, HeightTypes
  <2>2. Parent[b] \in Processed \cup {Root} /\ Height[b] <= Height[peer]
    BY <1>2, <1>3, <2>1 DEF PeerInv
  <2>3. Stored(Parent[b]) => blocks[Parent[b]].height = Height[Parent[b]]
    BY DEF PeerInv, Stored
  <2>4. Parent[b] = Root => ~Stored(Parent[b]) /\ Height[Parent[b]] = 0
    BY TreeAssumption DEF Stored
  <2>5. Parent[b] \in Processed => Stored(Parent[b])
    BY DEF Processed
  <2> HIDE DEF b
  <2> QED
    BY <1>3, <2>2, <2>3, <2>4, <2>5, HeightTypes
<1>6. blocks' = [blocks EXCEPT ![b] = doc]
  BY DEF WriteBlock
<1> HIDE DEF b, height
<1>7. \A c \in Block : c # b => blocks'[c] = blocks[c]
  BY <1>1, <1>6 DEF TypeOK
<1>8. blocks'[b].height = Height[b] /\ blocks'[b] = doc
  BY <1>1, <1>3, <1>5, <1>6 DEF TypeOK
<1>9. \A c \in Block : Stored(c)' => blocks'[c].height = Height[c] /\ Height[c] <= Height[peer]
  BY <1>5, <1>7, <1>8 DEF Stored, PeerInv
<1>10. \A c \in Processed : c \in Processed' \/ c = b
  BY <1>7 DEF Processed, Stored
<1>11. "link" \in Handling /\ "link" \notin {"finish", "idle"}
  BY DEF Handling, Importing
<1>12. \A c \in job[Sync].queue : /\ Height[c] <= Height[peer]
                                  /\ Parent[c] \in job[Sync].queue \cup Processed' \cup {Root}
  BY <1>2, <1>3, <1>10 DEF PeerInv
<1> QED
  BY <1>4, <1>9, <1>11, <1>12 DEF PeerInv

\* The link changes no height.
LEMMA PeerLink ==
    ASSUME IInv, PeerInv, LinkBlock
    PROVE  PeerInv'
<1>1. TypeOK /\ Sync \in Proc /\ job \in [Proc -> Job] /\ job[Sync].at = "link"
  BY SyncProc DEF IInv, TypeOK, LinkBlock, At
<1>2. /\ job'[Sync].queue = job[Sync].queue /\ job'[Sync].at = "mint"
      /\ UNCHANGED <<seen, peer, news, missed>>
  BY <1>1 DEF LinkBlock, Goto, Job, net
<1>3. \A b \in Block :
         /\ Stored(b)' <=> Stored(b)
         /\ Stored(b) => /\ blocks'[b].height = blocks[b].height
                         /\ blocks'[b].processed = blocks[b].processed
  <2> DEFINE q == Parent[Current]
             d == [blocks[q] EXCEPT !.next = Current]
  <2>1. CASE Stored(q)
    <3>1. blocks' = [blocks EXCEPT ![q] = d]
      BY <2>1 DEF LinkBlock
    <3>2. blocks[q] \in BlockDoc /\ q \in Block
      BY <1>1, <2>1 DEF TypeOK, Stored
    <3>3. /\ d \in BlockDoc /\ d.height = blocks[q].height
          /\ d.processed = blocks[q].processed
      <4>1. Current \in Block
        BY <1>1, CurrentBlock DEF Importing
      <4> QED
        BY <3>2, <4>1 DEF BlockDoc
    <3>4. d # Absent
      BY <3>3, DocTypes
    <3> HIDE DEF q, d
    <3> QED
      BY <1>1, <2>1, <3>1, <3>2, <3>3, <3>4 DEF TypeOK, Stored
  <2>2. CASE ~Stored(q)
    BY <2>2 DEF LinkBlock, Stored
  <2> QED
    BY <2>1, <2>2
<1>4. Processed' = Processed
  <2>1. \A b \in Block : b \in Processed' <=> b \in Processed
    BY <1>3 DEF Processed
  <2> QED
    BY <2>1 DEF Processed
<1>5. {"link", "mint"} \subseteq Handling /\ "mint" \notin {"finish", "idle"}
  BY DEF Handling, Importing, ImportStage
<1> QED
  <2>1. \A b \in Block : Stored(b)' => blocks'[b].height = Height[b] /\ Height[b] <= Height[peer]
    BY <1>3 DEF PeerInv
  <2>2. /\ \A b \in Block : b \in seen => Height[b] <= Height[peer]
        /\ \A b \in job[Sync].queue : /\ Height[b] <= Height[peer]
                                      /\ Parent[b] \in job[Sync].queue \cup Processed \cup {Root}
    BY <1>1, <1>5 DEF PeerInv
  <2> QED
    BY <1>2, <1>4, <1>5, <2>1, <2>2 DEF PeerInv

\* What is left of the queue follows the block that is processed now.
LEMMA PeerProcessed ==
    ASSUME IInv, PeerInv, BlockProcessed
    PROVE  PeerInv'
<1> DEFINE b == Current
           d == [blocks[b] EXCEPT !.processed = TRUE]
<1>1. TypeOK /\ Sync \in Proc /\ job \in [Proc -> Job] /\ job[Sync].at = "processed"
  BY SyncProc DEF IInv, TypeOK, BlockProcessed, At
<1>2. job[Sync].at \in Handling /\ job[Sync].at \in Importing
  BY <1>1 DEF Handling, Importing
<1>3. b \in job[Sync].queue /\ b \in Block /\ Stored(b)
  BY <1>2, CurrentBlock, CurrentIsLowest DEF IInv, SyncOK
<1>4. /\ job'[Sync].queue = job[Sync].queue \ {b}
      /\ job'[Sync].at \in {"headers", "block"}
      /\ UNCHANGED <<seen, peer, news, missed>>
  BY <1>1 DEF BlockProcessed, NoJob, net
<1>5. blocks' = [blocks EXCEPT ![b] = d]
  BY DEF BlockProcessed
<1>6. d \in BlockDoc /\ d.height = blocks[b].height /\ d.processed = TRUE
  BY <1>1, <1>3 DEF TypeOK, Stored, BlockDoc
<1>7. d # Absent
  BY <1>6, DocTypes
<1> HIDE DEF b, d
<1>8. /\ blocks'[b] = d
      /\ \A c \in Block : c # b => blocks'[c] = blocks[c]
  BY <1>1, <1>3, <1>5 DEF TypeOK
<1>9. \A c \in Block : Stored(c)' => Stored(c) /\ blocks'[c].height = blocks[c].height
  BY <1>3, <1>6, <1>8 DEF Stored
<1>10. Processed' = Processed \cup {b}
  BY <1>3, <1>6, <1>7, <1>8 DEF Processed, Stored
<1>11. {"headers", "block"} \cap {"finish", "idle"} = {}
  OBVIOUS
<1> QED
  BY <1>2, <1>4, <1>9, <1>10, <1>11 DEF PeerInv

\* The end of the sync.
LEMMA PeerFinish ==
    ASSUME IInv, PeerInv, FinishSync
    PROVE  PeerInv'
<1>1. Sync \in Proc /\ job \in [Proc -> Job] /\ job[Sync].at = "finish"
  BY SyncProc DEF IInv, TypeOK, FinishSync, At
<1>2. job'[Sync].at = "idle"
  BY <1>1 DEF FinishSync, NoJob
<1>3. UNCHANGED <<blocks, seen, peer, news, missed>>
  BY DEF FinishSync, db, net
<1>4. Processed' = Processed /\ \A b \in Block : Stored(b)' <=> Stored(b)
  BY <1>3 DEF Processed, Stored
<1>5. "idle" \notin Handling
  BY DEF Handling, Importing, ImportStage
<1> QED
  BY <1>1, <1>2, <1>3, <1>4, <1>5 DEF PeerInv

\* A new tip is higher than all that was seen, and its announcement starts a
\* sync or comes too late.
LEMMA PeerNews ==
    ASSUME IInv, PeerInv, PeerBlock \/ \E b \in Block : PeerAdvances(b)
    PROVE  PeerInv'
<1>1. Sync \in Proc /\ job \in [Proc -> Job] /\ peer \in Block \cup {Root}
  BY SyncProc DEF IInv, TypeOK
<1>2. ASSUME UNCHANGED blocks
      PROVE  Processed' = Processed /\ \A b \in Block : Stored(b)' <=> Stored(b)
  BY <1>2 DEF Processed, Stored
<1>3. ASSUME NEW b \in Block, PeerAdvances(b) PROVE PeerInv'
  <2>1. /\ peer' = b /\ news' = TRUE /\ Height[peer] < Height[b]
        /\ UNCHANGED <<blocks, job, seen, missed>>
    BY <1>1, <1>3, HeightTypes DEF PeerAdvances, db
  <2>2. b \notin seen
    BY <1>1, <2>1, HeightTypes DEF PeerInv
  <2>3. \A c \in Block : Height[c] <= Height[peer] => Height[c] <= Height[b]
    BY <1>1, <2>1, HeightTypes
  <2> QED
    <3>1. Processed' = Processed /\ \A c \in Block : Stored(c)' <=> Stored(c)
      BY <1>2, <2>1
    <3>2. /\ \A c \in Block : Stored(c)' => blocks'[c].height = Height[c] /\ Height[c] <= Height[b]
          /\ \A c \in Block : c \in seen' => Height[c] <= Height[b]
      BY <2>1, <2>3, <3>1 DEF PeerInv
    <3>3. job'[Sync].at \in Handling =>
             \A c \in job'[Sync].queue :
                /\ Height[c] <= Height[b]
                /\ Parent[c] \in job'[Sync].queue \cup Processed' \cup {Root}
      <4>1. job[Sync].queue \subseteq Block
        BY <1>1 DEF Job
      <4> QED
        BY <2>1, <2>3, <3>1, <4>1 DEF PeerInv
    <3> QED
      BY <2>1, <2>2, <3>2, <3>3 DEF PeerInv
<1>4. CASE PeerBlock
  <2>1. /\ UNCHANGED <<blocks, peer>> /\ news' = FALSE /\ news
        /\ missed' = (missed \/ At(Sync, "finish"))
    BY <1>4 DEF PeerBlock, db
  <2>2. peer \in Block /\ TxsOf[peer] \subseteq Tx
    BY <2>1, TxAssumption DEF IInv
  <2>3. \A b \in Block : b \in seen' => Height[b] <= Height[peer]
    BY <1>4, <2>2, TxAssumption, HeightTypes DEF PeerBlock, PeerInv
  <2>4. CASE At(Sync, "idle") /\ peer \notin seen
    <3>1. job'[Sync].at = "start"
      BY <1>1, <1>4, <2>4 DEF PeerBlock, Goto, Job
    <3>2. "start" \notin Handling
      BY DEF Handling, Importing, ImportStage
    <3> QED
      BY <1>2, <2>1, <2>3, <3>1, <3>2 DEF PeerInv
  <2>5. CASE ~(At(Sync, "idle") /\ peer \notin seen)
    <3>1. UNCHANGED job
      BY <1>4, <2>5 DEF PeerBlock
    <3>2. job[Sync].at \in {"finish", "idle"} => peer \in Processed \/ missed'
      BY <2>1, <2>2, <2>5, TreeAssumption DEF PeerInv, At
    <3> QED
      BY <1>2, <2>1, <2>3, <3>1, <3>2 DEF PeerInv
  <2> QED
    BY <2>4, <2>5
<1> QED
  BY <1>3, <1>4

\* A relayed transaction is no block.
LEMMA PeerRelay ==
    ASSUME IInv, PeerInv, NEW p \in Relay, NEW t \in Tx, PeerTx(p, t)
    PROVE  PeerInv'
<1>1. p # Sync /\ Sync \in Proc /\ job \in [Proc -> Job]
  BY ProcessAssumption, SyncProc DEF IInv, TypeOK
<1>2. UNCHANGED <<blocks, peer, news, missed>> /\ job'[Sync] = job[Sync]
  BY <1>1 DEF PeerTx, db, net
<1>3. \A b \in Block : b \in seen' => b \in seen
  BY TxAssumption DEF PeerTx
<1> QED
  BY <1>2, <1>3, PeerKept

\* A crash and a failure start the sync again, or leave it hung.
LEMMA PeerFault ==
    ASSUME IInv, PeerInv, Crash \/ SyncFails \/ \E p \in Proc : ImportFails(p)
    PROVE  PeerInv'
<1>1. Sync \in Proc /\ job \in [Proc -> Job]
  BY SyncProc DEF IInv, TypeOK
<1>2. UNCHANGED <<blocks, peer, news, missed>>
  BY DEF Crash, SyncFails, ImportFails, db, net
<1>3. \A b \in Block : b \in seen' => b \in seen
  BY DEF Crash, SyncFails, ImportFails
<1>4. \A b \in Block : Stored(b)' => Stored(b) /\ blocks'[b] = blocks[b]
  BY <1>2 DEF Stored
<1>5. job'[Sync].at \in {"start", "hung"} \/ job'[Sync] = job[Sync]
  <2>1. CASE Crash
    BY <1>1, <2>1 DEF Crash, NoJob
  <2>2. CASE SyncFails
    BY <1>1, <2>2 DEF SyncFails, NoJob
  <2>3. ASSUME NEW p \in Proc, ImportFails(p)
        PROVE  job'[Sync].at = "hung" \/ job'[Sync] = job[Sync]
    BY <1>1, <2>3 DEF ImportFails, Job
  <2> QED
    BY <2>1, <2>2, <2>3
<1> QED
  BY <1>2, <1>3, <1>4, <1>5, PeerFree, PeerKept

\* Every step keeps it.
LEMMA PeerStepAll ==
    ASSUME IInv, PeerInv, [Next]_vars
    PROVE  PeerInv'
<1>1. CASE UNCHANGED vars
  BY <1>1, PeerKept DEF vars, net
<1>2. CASE Next
  BY <1>2, PeerImport, PeerRestart, PeerHeaders, PeerReorg, PeerWrite, PeerLink,
     PeerProcessed, PeerFinish, PeerNews, PeerRelay, PeerFault DEF Next, SyncStep
<1> QED
  BY <1>1, <1>2

\* The heights that are stored are exact, and at the end of a sync the tip of
\* the peer is processed or will be announced.
THEOREM PeerInvariant == Spec => []PeerInv
<1>1. Init => PeerInv
  <2> SUFFICES ASSUME Init PROVE PeerInv
    OBVIOUS
  <2>1. job[Sync].at = "start"
    BY SyncProc DEF Init, NoJob
  <2>2. "start" \notin Handling
    BY DEF Handling, Importing, ImportStage
  <2>3. \A b \in Block : ~Stored(b) /\ b \notin seen
    BY DEF Init, Stored
  <2> QED
    BY <2>1, <2>2, <2>3 DEF PeerInv
<1>2. IInv /\ PeerInv /\ [Next]_vars => PeerInv'
  BY PeerStepAll
<1> QED
  BY <1>1, <1>2, InductiveInvariant, PTL DEF Spec

\* When the sync rests, the local tip is that of the peer, unless a block came
\* too late (modules/bitcoin/p2p.ts, syncBlocks and 'peerblock').
THEOREM PeerFollowed == Spec => []FollowsPeer
<1>1. IInv /\ PeerInv => FollowsPeer
  <2> SUFFICES ASSUME PeerInv, At(Sync, "idle"), ~news, ~missed, peer # Root
               PROVE  peer \in LocalTip
    BY DEF FollowsPeer
  <2>1. peer \in Processed
    BY DEF PeerInv, At
  <2> QED
    BY <2>1 DEF LocalTip, Processed, PeerInv
<1> QED
  BY <1>1, InductiveInvariant, PeerInvariant, PTL
-----------------------------------------------------------------------------
\* The stored blocks

\* The stored blocks whose import has not ended.
Partly == {b \in Block : Stored(b) /\ ~blocks[b].processed}

\* The heights from which a reorg deletes, or was cut short while it did.
Cut == torn \cup (IF Tearing THEN {job[Sync].height} ELSE {})

\* The processed blocks are a chain, linked forwards, and every stored block
\* follows one of them.
Chained ==
    /\ \E b \in Block \cup {Root} : Processed = Branch[b]
    /\ \A b \in Block : Stored(b) => Parent[b] \in Processed \cup {Root}
    /\ \A b \in Processed : Parent[b] # Root => blocks[Parent[b]].next = b

\* The block that is written and imported follows the tip.
OnTop ==
    /\ job[Sync].at \in Importing \cup {"write"} => Processed = Branch[Parent[Current]]
    /\ job[Sync].at \in Importing =>
          job[Sync].height = Height[Current] /\ job[Sync].txs = TxsOf[Current]
    /\ job[Sync].at \in ImportStage \cup {"processed"} /\ Parent[Current] # Root =>
          blocks[Parent[Current]].next = Current

\* A reorg goes back to a block of the chain, and of those that were cut short
\* one has deleted from no higher than the tip is now.
CutLow ==
    /\ job[Sync].at \in {"wipe", "unspend"} =>
          \E a \in Processed \cup {Root} : Height[a] + 1 = job[Sync].height
    /\ \A k \in torn : \E l \in Cut : \E a \in Processed \cup {Root} : l <= Height[a] + 1

\* What a relayed transaction writes is pending.
RelaysPending ==
    \A p \in Relay : job[p].at \in ImportStage => job[p].height = pending

TreeInv == Chained /\ OnTop /\ CutLow /\ RelaysPending

\* Cut, by stage.
LEMMA CutStages ==
    /\ job[Sync].at \notin {"wipe", "unspend"} => Cut = torn
    /\ job[Sync].at = "wipe" /\ job[Sync].wipe = {"blocks", "txs", "coins"} => Cut = torn
    /\ job[Sync].at = "wipe" /\ job[Sync].wipe # {"blocks", "txs", "coins"}
          => Cut = torn \cup {job[Sync].height}
    /\ job[Sync].at = "unspend" => Cut = torn \cup {job[Sync].height}
BY DEF Cut, Tearing, At

\* Heights that are stored are numbers, and so are those of Cut.
LEMMA CutTypes ==
    ASSUME IInv
    PROVE  Cut \subseteq Nat
BY DEF IInv, TypeOK, SyncOK, Cut, Tearing, At

\* What keeps the blocks, and moves the sync to no block and no reorg.
LEMMA TreeFree ==
    ASSUME TreeInv, UNCHANGED blocks, torn' = Cut,
           \A p \in Relay : job'[p].at \in ImportStage => job'[p].height = pending,
           job'[Sync].at \in {"start", "headers", "block", "finish", "idle", "hung"}
    PROVE  TreeInv' /\ Cut' = Cut
<1>1. Processed' = Processed /\ \A b \in Block : Stored(b)' <=> Stored(b)
  BY DEF Processed, Stored
<1>2. Cut' = torn'
  BY CutStages DEF Cut, Tearing, At
<1>3. job'[Sync].at \notin Importing \cup {"write", "wipe", "unspend"} \cup ImportStage
  BY DEF Importing, ImportStage
<1>4. \A k \in torn' : \E l \in Cut' : \E a \in Processed' \cup {Root} : l <= Height[a] + 1
  <2> SUFFICES ASSUME NEW k \in Cut
               PROVE  \E l \in Cut : \E a \in Processed \cup {Root} : l <= Height[a] + 1
    BY <1>1, <1>2
  <2>1. CASE k \in torn
    BY <2>1 DEF TreeInv, CutLow
  <2>2. CASE k \notin torn
    <3>1. job[Sync].at \in {"wipe", "unspend"} /\ k = job[Sync].height
      BY <2>2 DEF Cut, Tearing, At
    <3>2. PICK a \in Processed \cup {Root} : Height[a] + 1 = k
      BY <3>1 DEF TreeInv, CutLow
    <3>3. Height[a] \in Nat
      BY HeightTypes DEF Processed
    <3>4. k <= Height[a] + 1
      BY <3>2, <3>3
    <3> QED
      BY <3>4
  <2> QED
    BY <2>1, <2>2
<1>5. Chained'
  BY <1>1 DEF TreeInv, Chained
<1>6. OnTop' /\ CutLow'
  BY <1>3, <1>4 DEF OnTop, CutLow, Importing
<1> QED
  BY <1>2, <1>5, <1>6 DEF TreeInv, RelaysPending

\* What keeps the blocks and the sync.
LEMMA TreeKept ==
    ASSUME TreeInv, UNCHANGED blocks, UNCHANGED torn, job'[Sync] = job[Sync],
           \A p \in Relay : job'[p].at \in ImportStage => job'[p].height = pending
    PROVE  TreeInv' /\ Cut' = Cut
<1>1. Processed' = Processed /\ \A b \in Block : Stored(b)' <=> Stored(b)
  BY DEF Processed, Stored
<1>2. Cut' = Cut /\ Current' = Current
  BY DEF Cut, Tearing, At, Current
<1>3. Chained' /\ OnTop' /\ CutLow'
  BY <1>1, <1>2 DEF TreeInv, Chained, OnTop, CutLow
<1> QED
  BY <1>2, <1>3 DEF TreeInv, RelaysPending

\* The fields of a job that an import keeps, and its stages.
LEMMA ImportFields ==
    ASSUME IInv, NEW p \in Proc, BatchImport(p)
    PROVE  /\ \/ /\ job'[p].queue = job[p].queue
                 /\ job'[p].txs = job[p].txs
                 /\ job'[p].height = job[p].height
                 /\ job'[p].at \in ImportStage \cup {"processed"}
              \/ p # Sync /\ job'[p] = NoJob
           /\ job'[p].at # "mint"
           /\ job'[p].at = "tx" => Spend(p)
           /\ job'[p].at = "processed" => WriteTx(p)
<1>1. job \in [Proc -> Job] /\ job[p] \in Job
  BY DEF IInv, TypeOK
<1>2. CASE Mint(p)
  BY <1>1, <1>2 DEF Mint, Goto, Job, ImportStage
<1>3. CASE Prune(p)
  <2>1. PICK bad \in SUBSET {coins[c].by : c \in Candidates(p)} :
           job' = [job EXCEPT ![p].bad = bad,
                              ![p].at = IF bad = {} THEN "spend" ELSE "invalidate"]
    BY <1>3 DEF Prune
  <2> DEFINE s == IF bad = {} THEN "spend" ELSE "invalidate"
             j == [job[p] EXCEPT !.bad = bad, !.at = s]
  <2>2. job' = [job EXCEPT ![p] = j] /\ s \in {"spend", "invalidate"}
    BY <1>1, <2>1
  <2> HIDE DEF s
  <2>3. j.at = s /\ j.queue = job[p].queue /\ j.txs = job[p].txs /\ j.height = job[p].height
    BY <1>1, <2>2 DEF Job
  <2> HIDE DEF j
  <2>4. job'[p] = j
    BY <1>1, <2>2
  <2> QED
    BY <2>2, <2>3, <2>4 DEF ImportStage
<1>4. CASE Invalidate(p)
  <2>1. PICK t \in job[p].bad :
           job' = [job EXCEPT ![p].at = "mark", ![p].bad = @ \ {t}, ![p].now = t]
    BY <1>4 DEF Invalidate
  <2> QED
    BY <1>1, <2>1 DEF Job, ImportStage
<1>5. CASE Mark(p)
  BY <1>1, <1>5 DEF Mark, Job, ImportStage
<1>6. CASE Spend(p)
  BY <1>1, <1>6 DEF Spend, Goto, Job, ImportStage
<1>7. CASE WriteTx(p)
  <2>1. CASE p = Sync
    <3>1. job' = [job EXCEPT ![p].at = "processed"]
      BY <1>7, <2>1 DEF WriteTx, Goto
    <3> QED
      BY <1>1, <1>7, <3>1 DEF Job
  <2>2. CASE p # Sync
    <3>1. job'[p] = NoJob
      BY <1>1, <1>7, <2>2 DEF WriteTx
    <3>2. NoJob.at = "idle"
      BY DEF NoJob
    <3> QED
      BY <2>2, <3>1, <3>2
  <2> QED
    BY <2>1, <2>2
<1> QED
  BY <1>2, <1>3, <1>4, <1>5, <1>6, <1>7 DEF BatchImport

\* batchImport keeps the blocks, and the block at hand.
LEMMA TreeImport ==
    ASSUME IInv, TreeInv, NEW p \in Proc, BatchImport(p)
    PROVE  TreeInv' /\ Cut' = Cut
<1>1. /\ UNCHANGED blocks /\ UNCHANGED torn /\ Sync \in Proc
      /\ \A q \in Proc : q # p => job'[q] = job[q]
      /\ job[p].at \in ImportStage
  BY ImportMoves, SyncProc
<1>2. Relay \subseteq Proc
  BY DEF Proc
<1>3. \A q \in Relay : job'[q].at \in ImportStage => job'[q].height = pending
  <2> SUFFICES ASSUME NEW q \in Relay, job'[q].at \in ImportStage
               PROVE  job'[q].height = pending
    OBVIOUS
  <2>1. CASE q # p
    BY <1>1, <1>2, <2>1 DEF TreeInv, RelaysPending
  <2>2. CASE q = p
    <3>1. job'[p] # NoJob
      BY <2>2 DEF NoJob, ImportStage
    <3> QED
      BY <1>1, <2>2, <3>1, ImportFields DEF TreeInv, RelaysPending
  <2> QED
    BY <2>1, <2>2
<1>4. CASE p # Sync
  BY <1>1, <1>3, <1>4, TreeKept
<1>5. CASE p = Sync
  <2>1. /\ job'[Sync].queue = job[Sync].queue
        /\ job'[Sync].txs = job[Sync].txs
        /\ job'[Sync].height = job[Sync].height
        /\ job'[Sync].at \in ImportStage \cup {"processed"}
    BY <1>5, ImportFields
  <2>2. Processed' = Processed /\ \A b \in Block : Stored(b)' <=> Stored(b)
    BY <1>1 DEF Processed, Stored
  <2>3. Current' = Current
    BY <2>1 DEF Current
  <2>4. job[Sync].at \notin {"wipe", "unspend"} /\ job'[Sync].at \notin {"wipe", "unspend"}
    BY <1>1, <1>5, <2>1 DEF ImportStage
  <2>5. Cut = torn /\ Cut' = Cut
    BY <1>1, <2>4 DEF Cut, Tearing, At
  <2>6. {job[Sync].at, job'[Sync].at} \subseteq Importing
    BY <1>1, <1>5, <2>1 DEF Importing
  <2>7. Chained' /\ OnTop' /\ CutLow'
    BY <1>1, <1>5, <2>1, <2>2, <2>3, <2>4, <2>5, <2>6 DEF TreeInv, Chained, OnTop, CutLow
  <2> QED
    BY <1>3, <2>5, <2>7 DEF TreeInv, RelaysPending
<1> QED
  BY <1>4, <1>5

\* The local tip is the end of the processed chain.
LEMMA TipOfChain ==
    ASSUME Chained, PeerInv
    PROVE  \E b \in Block \cup {Root} :
              /\ Processed = Branch[b]
              /\ b \in Block => LocalTip = {b}
              /\ b = Root => LocalTip = {}
<1>1. PICK b \in Block \cup {Root} : Processed = Branch[b]
  BY DEF Chained
<1>2. \A a \in Processed : a \in Block /\ blocks[a].height = Height[a]
  BY DEF Processed, PeerInv
<1>3. CASE b = Root
  BY <1>1, <1>3, BranchSteps, TreeAssumption DEF LocalTip
<1>4. CASE b \in Block
  <2>1. b \in Processed
    BY <1>1, <1>4, BranchSteps
  <2>2. \A a \in Processed : Height[a] <= Height[b] /\ (Height[a] = Height[b] => a = b)
    BY <1>1, <1>4, BranchHeights
  <2>3. b \in LocalTip
    BY <1>2, <2>1, <2>2 DEF LocalTip
  <2>4. ASSUME NEW a \in LocalTip PROVE a = b
    <3>1. a \in Processed /\ Height[b] <= Height[a]
      BY <1>2, <2>1 DEF LocalTip
    <3>2. Height[a] = Height[b]
      BY <1>2, <1>4, <2>2, <3>1, HeightTypes
    <3> QED
      BY <2>2, <3>1, <3>2
  <2> QED
    BY <1>1, <1>4, <2>3, <2>4, TreeAssumption
<1> QED
  BY <1>3, <1>4

\* The parent of the block at hand is processed, or the genesis block.
LEMMA CurrentParent ==
    ASSUME IInv, PeerInv, job[Sync].at \in Importing \cup {"block", "write"}
    PROVE  Parent[Current] \in Processed \cup {Root}
<1>1. job[Sync].queue \in SUBSET Block /\ Current \in job[Sync].queue
  BY CurrentBlock
<1>2. Parent[Current] \notin job[Sync].queue
  BY <1>1, CurrentLowest, HeightTypes
<1> QED
  BY <1>1, <1>2 DEF PeerInv, Handling

\* A reorg starts from a block of the chain.
LEMMA TreeReorg ==
    ASSUME IInv, PeerInv, TreeInv, HandleReorg
    PROVE  TreeInv' /\ Cut' = Cut
<1>1. /\ job \in [Proc -> Job] /\ job[Sync] \in Job /\ Sync \in Proc
      /\ job[Sync].at = "block"
  BY SyncProc DEF IInv, TypeOK, HandleReorg, At
<1>2. UNCHANGED <<blocks, torn>>
  BY DEF HandleReorg, db
<1>3. Processed' = Processed /\ \A b \in Block : Stored(b)' <=> Stored(b)
  BY <1>2 DEF Processed, Stored
<1>4. Chained'
  BY <1>2, <1>3 DEF TreeInv, Chained
<1>5. Cut = torn
  BY <1>1 DEF Cut, Tearing, At
<1>6. Current \in Block /\ Parent[Current] \in Processed \cup {Root}
  BY <1>1, CurrentBlock, CurrentParent
<1>7. PICK tip \in Block \cup {Root} :
         /\ Processed = Branch[tip]
         /\ tip \in Block => LocalTip = {tip}
         /\ tip = Root => LocalTip = {}
  BY TipOfChain DEF TreeInv
<1>8. CASE (LocalTip = {} \/ Parent[Current] \in LocalTip) /\ Goto(Sync, "write")
  <2>1. /\ job'[Sync].queue = job[Sync].queue /\ job'[Sync].at = "write"
        /\ \A p \in Relay : job'[p] = job[p]
    BY <1>1, <1>8, ProcessAssumption DEF Goto, Job, Proc
  <2>2. Current' = Current
    BY <2>1 DEF Current
  <2>3. Processed = Branch[Parent[Current]]
    <3>1. CASE Parent[Current] \in LocalTip
      BY <1>7, <3>1
    <3>2. CASE LocalTip = {}
      BY <1>6, <1>7, <3>2, BranchSteps
    <3> QED
      BY <1>8, <3>1, <3>2
  <2>4. OnTop'
    BY <1>3, <2>1, <2>2, <2>3 DEF OnTop, Importing, ImportStage
  <2>5. Cut' = torn'
    BY <2>1 DEF Cut, Tearing, At
  <2>6. CutLow' /\ RelaysPending'
    BY <1>2, <1>3, <1>5, <2>1, <2>5 DEF CutLow, RelaysPending, TreeInv
  <2> QED
    BY <1>2, <1>4, <1>5, <2>4, <2>5, <2>6 DEF TreeInv
<1>9. ASSUME NEW b \in Processed,
             job' = [job EXCEPT ![Sync].at = "wipe",
                                ![Sync].height = blocks[b].height,
                                ![Sync].wipe = {"blocks", "txs", "coins"}]
      PROVE  TreeInv' /\ Cut' = Cut
  <2>1. /\ job'[Sync].at = "wipe" /\ job'[Sync].height = blocks[b].height
        /\ job'[Sync].wipe = {"blocks", "txs", "coins"}
        /\ \A p \in Relay : job'[p] = job[p]
    BY <1>1, <1>9, ProcessAssumption DEF Job, Proc
  <2>2. OnTop'
    BY <2>1 DEF OnTop, Importing, ImportStage
  <2>3. Cut' = torn'
    BY <2>1 DEF Cut, Tearing, At
  <2>4. \E a \in Processed' \cup {Root} : Height[a] + 1 = job'[Sync].height
    <3>1. b \in Block /\ Stored(b) /\ blocks[b].height = Height[b]
      BY DEF Processed, PeerInv
    <3>2. Parent[b] \in Processed \cup {Root} /\ Height[b] = Height[Parent[b]] + 1
      BY <3>1, HeightTypes DEF TreeInv, Chained
    <3> QED
      BY <1>3, <2>1, <3>1, <3>2
  <2>5. CutLow' /\ RelaysPending'
    BY <1>2, <1>3, <1>5, <2>1, <2>3, <2>4 DEF CutLow, RelaysPending, TreeInv
  <2> QED
    BY <1>2, <1>4, <1>5, <2>2, <2>3, <2>5 DEF TreeInv
<1>10. LocalTip \subseteq Processed
  BY DEF LocalTip
<1>11. Stored(Parent[Current]) => Parent[Current] \in Processed
  BY <1>6, TreeAssumption DEF Stored
<1> QED
  BY <1>8, <1>9, <1>10, <1>11 DEF HandleReorg

\* What a reorg deletes it begins with is the top of the chain.
LEMMA TreeWipe ==
    ASSUME IInv, PeerInv, TreeInv, Wipe
    PROVE  TreeInv' /\ Cut' = Cut \cup {job[Sync].height}
<1>1. /\ job \in [Proc -> Job] /\ job[Sync] \in Job /\ Sync \in Proc
      /\ job[Sync].at = "wipe" /\ job[Sync].height \in Nat
  BY SyncProc DEF IInv, TypeOK, Wipe, At, SyncOK
<1> DEFINE f == job[Sync].height
<1>2. PICK k \in job[Sync].wipe :
         /\ job' = [job EXCEPT ![Sync].wipe = @ \ {k},
                               ![Sync].at = IF job[Sync].wipe = {k} THEN "unspend" ELSE @]
         /\ blocks' = [b \in Block |->
               IF k = "blocks" /\ Stored(b) /\ blocks[b].height >= f
               THEN Absent ELSE blocks[b]]
  BY DEF Wipe
<1>3. /\ \/ job'[Sync].at = "unspend"
         \/ job'[Sync].at = "wipe" /\ job'[Sync].wipe = job[Sync].wipe \ {k}
      /\ job'[Sync].height = f
      /\ \A p \in Relay : job'[p] = job[p]
  BY <1>1, <1>2, ProcessAssumption DEF Job, Proc
<1>4. UNCHANGED torn
  BY DEF Wipe
<1>5. Cut' = torn \cup {f} /\ Cut \cup {f} = torn \cup {f}
  <2>1. job'[Sync].at = "wipe" => job'[Sync].wipe # {"blocks", "txs", "coins"}
    BY <1>1, <1>3 DEF Job
  <2> QED
    BY <1>3, <1>4, <2>1 DEF Cut, Tearing, At
<1>6. PICK a \in Processed \cup {Root} : Height[a] + 1 = f
  BY <1>1 DEF TreeInv, CutLow
<1> HIDE DEF f
<1>7. a \in Block \cup {Root} /\ Height[a] \in Nat
  BY HeightTypes DEF Processed
<1>8. \A b \in Block : Stored(b) => blocks[b].height = Height[b] /\ Height[b] \in Nat
  BY HeightTypes DEF PeerInv
<1>9. \/ Processed' = Processed /\ \A b \in Block : blocks'[b] = blocks[b]
      \/ /\ Processed' = Branch[a]
         /\ \A b \in Block : IF Stored(b) /\ Height[b] >= f THEN blocks'[b] = Absent
                              ELSE blocks'[b] = blocks[b]
  <2>1. CASE k # "blocks"
    <3>1. \A b \in Block : blocks'[b] = blocks[b]
      BY <1>2, <2>1
    <3> QED
      BY <3>1 DEF Processed, Stored
  <2>2. CASE k = "blocks"
    <3>1. \A b \in Block : IF Stored(b) /\ Height[b] >= f THEN blocks'[b] = Absent
                            ELSE blocks'[b] = blocks[b]
      BY <1>2, <1>8, <2>2
    <3>2. \A b \in Block : b \in Processed' <=> b \in Processed /\ ~(Height[b] >= f)
      BY <3>1 DEF Processed, Stored
    <3>3. PICK tip \in Block \cup {Root} : Processed = Branch[tip]
      BY DEF TreeInv, Chained
    <3>4. ASSUME NEW b \in Block
          PROVE  b \in Branch[a] <=> b \in Processed /\ ~(Height[b] >= f)
      <4>1. CASE a = Root
        BY <1>6, <4>1, BranchSteps, HeightTypes, TreeAssumption
      <4>2. CASE a \in Processed
        <5>1. a \in Block /\ a \in Branch[tip]
          BY <3>3, <4>2 DEF Processed
        <5>2. ASSUME b \in Branch[a] PROVE b \in Processed /\ ~(Height[b] >= f)
          <6>1. Height[b] <= Height[a]
            BY <5>1, <5>2, BranchHeights
          <6>2. b \in Branch[tip]
            BY <5>1, <5>2, BranchLinear
          <6> QED
            BY <1>6, <1>7, <3>3, <6>1, <6>2, HeightTypes
        <5>3. ASSUME b \in Processed, ~(Height[b] >= f) PROVE b \in Branch[a]
          <6>1. b \in Branch[tip]
            BY <3>3, <5>3
          <6>2. Height[b] <= Height[a]
            BY <1>6, <1>7, <5>3, HeightTypes
          <6>3. CASE a \in Branch[b]
            <7>1. Height[a] <= Height[b] /\ (Height[a] = Height[b] => a = b)
              BY <6>3, BranchHeights
            <7>2. a = b
              BY <1>7, <6>2, <7>1, HeightTypes
            <7> QED
              BY <7>2, <6>3
          <6> QED
            BY <5>1, <6>1, <6>3, BranchLinear
        <5> QED
          BY <5>2, <5>3
      <4> QED
        BY <4>1, <4>2
    <3>5. Branch[a] \subseteq Block /\ Processed' \subseteq Block
      BY <1>7, BranchClosed DEF Processed
    <3>6. Processed' = Branch[a]
      BY <3>2, <3>4, <3>5
    <3> QED
      BY <3>1, <3>6
  <2> QED
    BY <2>1, <2>2
<1>10. a \in Processed' \cup {Root}
  <2>1. a \in Block => a \in Branch[a]
    BY <1>7, BranchSteps
  <2> QED
    BY <1>7, <1>9, <2>1
<1>11. Chained'
  <2>1. CASE Processed' = Processed /\ \A b \in Block : blocks'[b] = blocks[b]
    <3>1. \A b \in Block : Stored(b)' <=> Stored(b)
      BY <2>1 DEF Stored
    <3>2. \A b \in Processed : b \in Block
      BY DEF Processed
    <3> QED
      BY <2>1, <3>1, <3>2, HeightTypes DEF TreeInv, Chained
  <2>2. CASE /\ Processed' = Branch[a]
             /\ \A b \in Block : IF Stored(b) /\ Height[b] >= f THEN blocks'[b] = Absent
                                  ELSE blocks'[b] = blocks[b]
    <3>1. \A b \in Block : b \in Processed' <=> b \in Processed /\ ~(Height[b] >= f)
      BY <2>2 DEF Processed, Stored
    <3>2. ASSUME NEW b \in Block, Stored(b)' PROVE Parent[b] \in Processed' \cup {Root}
      <4>1. Stored(b) /\ ~(Height[b] >= f)
        BY <2>2, <3>2 DEF Stored
      <4>2. Parent[b] \in Processed \cup {Root} /\ Parent[b] \in Block \cup {Root}
        BY <4>1, HeightTypes DEF TreeInv, Chained
      <4>3. ~(Height[Parent[b]] >= f)
        BY <1>6, <1>7, <4>1, HeightTypes
      <4> QED
        BY <3>1, <4>2, <4>3
    <3>3. ASSUME NEW b \in Processed', Parent[b] # Root PROVE blocks'[Parent[b]].next = b
      <4>1. b \in Block /\ b \in Processed /\ ~(Height[b] >= f)
        BY <3>1, <3>3 DEF Processed
      <4>2. Parent[b] \in Block /\ ~(Height[Parent[b]] >= f)
        BY <1>6, <1>7, <3>3, <4>1, HeightTypes
      <4>3. blocks'[Parent[b]] = blocks[Parent[b]]
        BY <2>2, <4>2
      <4> QED
        BY <3>3, <4>1, <4>3 DEF TreeInv, Chained
    <3> QED
      BY <1>7, <2>2, <3>2, <3>3 DEF Chained
  <2> QED
    BY <1>9, <2>1, <2>2
<1>12. OnTop'
  BY <1>3 DEF OnTop, Importing, ImportStage
<1>13. CutLow'
  <2>1. f <= Height[a] + 1
    BY <1>6, <1>7
  <2> QED
    BY <1>3, <1>5, <1>6, <1>10, <2>1 DEF CutLow
<1>14. RelaysPending'
  BY <1>3 DEF TreeInv, RelaysPending
<1> QED
  BY <1>5, <1>11, <1>12, <1>13, <1>14 DEF TreeInv, f

\* The end of a reorg.
LEMMA TreeUnspend ==
    ASSUME IInv, PeerInv, TreeInv, Unspend
    PROVE  /\ TreeInv'
           /\ Cut = torn \cup {job[Sync].height}
           /\ Cut' = {h \in torn : h < job[Sync].height}
<1>1. /\ job \in [Proc -> Job] /\ job[Sync] \in Job /\ Sync \in Proc
      /\ job[Sync].at = "unspend" /\ job[Sync].height \in Nat /\ torn \subseteq Nat
  BY SyncProc DEF IInv, TypeOK, Unspend, At, SyncOK
<1>2. UNCHANGED blocks /\ torn' = {h \in torn : h < job[Sync].height}
  BY DEF Unspend
<1>3. job'[Sync].at = "start" /\ \A p \in Relay : job'[p] = job[p]
  BY <1>1, ProcessAssumption DEF Unspend, NoJob, Proc
<1>4. Processed' = Processed /\ \A b \in Block : Stored(b)' <=> Stored(b)
  BY <1>2 DEF Processed, Stored
<1>5. Cut' = torn' /\ Cut = torn \cup {job[Sync].height}
  BY <1>1, <1>3 DEF Cut, Tearing, At
<1>6. PICK a \in Processed \cup {Root} : Height[a] + 1 = job[Sync].height
  BY <1>1 DEF TreeInv, CutLow
<1>7. Height[a] \in Nat
  BY HeightTypes DEF Processed
<1>8. \A k \in torn' : k <= Height[a] + 1
  BY <1>1, <1>2, <1>6, <1>7
<1>9. Chained' /\ OnTop' /\ CutLow' /\ RelaysPending'
  BY <1>2, <1>3, <1>4, <1>5, <1>8 DEF TreeInv, Chained, OnTop, CutLow, RelaysPending,
     Importing, ImportStage
<1> QED
  BY <1>2, <1>5, <1>9 DEF TreeInv

\* The block that is written is not one of the chain, and follows its tip.
LEMMA TreeWrite ==
    ASSUME IInv, PeerInv, TreeInv, WriteBlock
    PROVE  /\ TreeInv' /\ Cut' = Cut
           /\ Processed' = Processed
           /\ Partly' = Partly \cup {Current}
           /\ \A b \in Block : Stored(b)' <=> Stored(b) \/ b = Current
           /\ job'[Sync].at = "link"
<1> DEFINE b == Current
           height == IF Stored(Parent[b]) THEN blocks[Parent[b]].height + 1 ELSE 1
           doc == [height |-> height, next |-> Root, processed |-> FALSE]
<1>1. /\ job \in [Proc -> Job] /\ job[Sync] \in Job /\ Sync \in Proc
      /\ job[Sync].at = "write"
      /\ blocks \in [Block -> BlockDoc \cup {Absent}]
  BY SyncProc DEF IInv, TypeOK, WriteBlock, At
<1>2. b \in Block /\ Parent[b] \in Block \cup {Root} /\ Processed = Branch[Parent[b]]
  BY <1>1, CurrentBlock, HeightTypes DEF TreeInv, OnTop
<1>3. b \notin Processed
  BY <1>2, BranchHeights, BranchSteps, HeightTypes
<1>4. /\ job'[Sync].queue = job[Sync].queue /\ job'[Sync].at = "link"
      /\ job'[Sync].height = height /\ job'[Sync].txs = TxsOf[b]
      /\ \A p \in Relay : job'[p] = job[p]
  BY <1>1, ProcessAssumption DEF WriteBlock, Job, Proc
<1>5. blocks' = [blocks EXCEPT ![b] = doc] /\ UNCHANGED torn
  BY DEF WriteBlock
<1>6. height = Height[b]
  <2>1. Parent[b] \in Processed => Stored(Parent[b]) /\ blocks[Parent[b]].height = Height[Parent[b]]
    BY DEF Processed, PeerInv
  <2>2. Parent[b] = Root => ~Stored(Parent[b]) /\ Height[Parent[b]] = 0
    BY TreeAssumption DEF Stored
  <2>3. Parent[b] \in Processed \cup {Root}
    BY <1>2, BranchSteps
  <2> QED
    BY <1>2, <2>1, <2>2, <2>3, HeightTypes
<1>7. Current' = b
  BY <1>4 DEF Current
<1>8. doc.processed = FALSE /\ doc # Absent
  <2>1. doc \in BlockDoc
    BY <1>2, <1>6, HeightTypes DEF BlockDoc
  <2> QED
    BY <2>1, DocTypes
<1> HIDE DEF b, height, doc
<1>9. blocks'[b] = doc /\ \A c \in Block : c # b => blocks'[c] = blocks[c]
  BY <1>1, <1>2, <1>5
<1>10. \A c \in Block : Stored(c)' <=> Stored(c) \/ c = b
  BY <1>8, <1>9 DEF Stored
<1>11. Processed' = Processed
  <2>1. \A c \in Block : c \in Processed' <=> c \in Processed
    BY <1>3, <1>8, <1>9, <1>10 DEF Processed
  <2> QED
    BY <2>1 DEF Processed
<1>12. Partly' = Partly \cup {b}
  <2>1. \A c \in Block : c \in Partly' <=> c \in Partly \/ c = b
    BY <1>8, <1>9, <1>10 DEF Partly
  <2> QED
    BY <1>2, <2>1 DEF Partly
<1>13. Chained'
  <2>1. \A c \in Block : Stored(c)' => Parent[c] \in Processed' \cup {Root}
    <3>1. Parent[b] \in Processed \cup {Root}
      BY <1>2, BranchSteps
    <3> QED
      BY <1>10, <1>11, <3>1 DEF TreeInv, Chained
  <2>2. ASSUME NEW c \in Processed, Parent[c] # Root PROVE blocks'[Parent[c]].next = c
    <3>1. c \in Block /\ Stored(c)
      BY DEF Processed
    <3>2. Parent[c] \in Processed /\ Parent[c] \in Block
      BY <2>2, <3>1, HeightTypes DEF TreeInv, Chained
    <3> QED
      BY <1>3, <1>9, <2>2, <3>2 DEF TreeInv, Chained
  <2> QED
    BY <1>11, <2>1, <2>2 DEF TreeInv, Chained
<1>14. OnTop'
  BY <1>2, <1>4, <1>6, <1>7, <1>11 DEF OnTop, ImportStage
<1>15. Cut = torn /\ Cut' = torn
  BY <1>1, <1>4, <1>5 DEF Cut, Tearing, At
<1>16. CutLow' /\ RelaysPending'
  BY <1>4, <1>5, <1>11, <1>15 DEF TreeInv, CutLow, RelaysPending
<1> QED
  BY <1>4, <1>10, <1>11, <1>12, <1>13, <1>14, <1>15, <1>16 DEF TreeInv, b

\* Only the tip gets another link.
LEMMA TreeLink ==
    ASSUME IInv, PeerInv, TreeInv, LinkBlock
    PROVE  /\ TreeInv' /\ Cut' = Cut
           /\ Processed' = Processed
           /\ Partly' = Partly
           /\ \A b \in Block : Stored(b)' <=> Stored(b)
           /\ job'[Sync].at = "mint"
<1> DEFINE b == Current
           d == [blocks[Parent[b]] EXCEPT !.next = b]
<1>1. /\ job \in [Proc -> Job] /\ job[Sync] \in Job /\ Sync \in Proc
      /\ job[Sync].at = "link" /\ job[Sync].at \in Importing
      /\ blocks \in [Block -> BlockDoc \cup {Absent}]
  BY SyncProc DEF IInv, TypeOK, LinkBlock, At, Importing
<1>2. b \in Block /\ Parent[b] \in Block \cup {Root} /\ Processed = Branch[Parent[b]]
  BY <1>1, CurrentBlock, HeightTypes DEF TreeInv, OnTop
<1>3. Parent[b] \in Processed \cup {Root} /\ (Parent[b] \in Processed => Stored(Parent[b]))
  BY <1>2, BranchSteps DEF Processed
<1>4. /\ job'[Sync].queue = job[Sync].queue /\ job'[Sync].at = "mint"
      /\ job'[Sync].height = job[Sync].height /\ job'[Sync].txs = job[Sync].txs
      /\ \A p \in Relay : job'[p] = job[p]
      /\ UNCHANGED torn
  BY <1>1, ProcessAssumption DEF LinkBlock, Goto, Job, Proc
<1>5. Current' = b
  BY <1>4 DEF Current
<1>6. CASE Parent[b] = Root
  <2>1. UNCHANGED blocks
    BY <1>6, TreeAssumption DEF LinkBlock, Stored
  <2>2. /\ Processed' = Processed /\ Partly' = Partly
        /\ \A c \in Block : Stored(c)' <=> Stored(c)
    BY <2>1 DEF Processed, Partly, Stored
  <2>3. Cut = torn /\ Cut' = torn
    BY <1>1, <1>4 DEF Cut, Tearing, At
  <2> HIDE DEF b
  <2>4. Chained' /\ CutLow' /\ RelaysPending'
    BY <1>4, <2>1, <2>2, <2>3 DEF TreeInv, Chained, CutLow, RelaysPending
  <2>5. OnTop'
    BY <1>1, <1>2, <1>4, <1>5, <1>6, <2>1, <2>2 DEF TreeInv, OnTop, b
  <2> QED
    BY <1>4, <2>2, <2>3, <2>4, <2>5 DEF TreeInv
<1>7. CASE Parent[b] \in Processed
  <2>1. Stored(Parent[b]) /\ Parent[b] \in Block /\ blocks[Parent[b]] \in BlockDoc
    BY <1>1, <1>3, <1>7 DEF Processed, Stored
  <2>2. blocks' = [blocks EXCEPT ![Parent[b]] = d]
    BY <2>1 DEF LinkBlock
  <2>3. d \in BlockDoc /\ d.processed = blocks[Parent[b]].processed /\ d.next = b
    BY <1>2, <2>1 DEF BlockDoc
  <2>4. d # Absent
    BY <2>3, DocTypes
  <2> HIDE DEF b, d
  <2>5. blocks'[Parent[b]] = d /\ \A c \in Block : c # Parent[b] => blocks'[c] = blocks[c]
    BY <1>1, <2>1, <2>2
  <2>6. \A c \in Block : Stored(c)' <=> Stored(c)
    BY <2>1, <2>4, <2>5 DEF Stored
  <2>7. \A c \in Block : Stored(c) => blocks'[c].processed = blocks[c].processed
    BY <2>3, <2>5
  <2>8. \A c \in Block :
           (c \in Processed' <=> c \in Processed) /\ (c \in Partly' <=> c \in Partly)
    BY <2>6, <2>7 DEF Processed, Partly
  <2>9. Processed' = Processed /\ Partly' = Partly
    BY <2>8 DEF Processed, Partly
  <2>10. Chained'
    <3>1. ASSUME NEW c \in Processed, Parent[c] # Root PROVE blocks'[Parent[c]].next = c
      <4>1. c \in Block /\ Stored(c) /\ Parent[c] \in Block
        BY <3>1, HeightTypes DEF Processed
      <4>2. Parent[c] # Parent[b]
        <5>1. c \in Branch[Parent[b]] /\ Parent[b] \in Block
          BY <1>2, <2>1
        <5> QED
          BY <4>1, <5>1, BranchHeights, HeightTypes
      <4> QED
        BY <2>5, <3>1, <4>1, <4>2 DEF TreeInv, Chained
    <3> QED
      BY <2>6, <2>9, <3>1 DEF TreeInv, Chained
  <2>11. OnTop'
    BY <1>1, <1>2, <1>4, <1>5, <2>3, <2>5, <2>9 DEF TreeInv, OnTop, b
  <2>12. Cut = torn /\ Cut' = torn
    BY <1>1, <1>4 DEF Cut, Tearing, At
  <2>13. CutLow' /\ RelaysPending'
    BY <1>4, <2>9, <2>12 DEF TreeInv, CutLow, RelaysPending
  <2> QED
    BY <1>4, <2>6, <2>9, <2>10, <2>11, <2>12, <2>13 DEF TreeInv
<1> QED
  BY <1>3, <1>6, <1>7

\* The block that is processed is the new tip.
LEMMA TreeProcessed ==
    ASSUME IInv, PeerInv, TreeInv, BlockProcessed
    PROVE  /\ TreeInv' /\ Cut' = torn /\ Cut = torn
           /\ Processed' = Processed \cup {Current}
           /\ Partly' = Partly \ {Current}
           /\ \A b \in Block : Stored(b)' <=> Stored(b)
           /\ job'[Sync].at \in {"headers", "block"}
<1> DEFINE b == Current
           d == [blocks[b] EXCEPT !.processed = TRUE]
<1>1. /\ job \in [Proc -> Job] /\ job[Sync] \in Job /\ Sync \in Proc
      /\ job[Sync].at = "processed" /\ job[Sync].at \in Importing
      /\ blocks \in [Block -> BlockDoc \cup {Absent}]
  BY SyncProc DEF IInv, TypeOK, BlockProcessed, At, Importing
<1>2. /\ b \in Block /\ Parent[b] \in Block \cup {Root} /\ Processed = Branch[Parent[b]]
      /\ Parent[b] # Root => blocks[Parent[b]].next = b
  BY <1>1, CurrentBlock, HeightTypes DEF TreeInv, OnTop
<1>3. Stored(b) /\ blocks[b] \in BlockDoc
  BY <1>1, <1>2, CurrentIsLowest DEF IInv, SyncOK, Stored
<1>4. /\ job'[Sync].at \in {"headers", "block"}
      /\ \A p \in Relay : job'[p] = job[p]
      /\ UNCHANGED torn
  BY <1>1, ProcessAssumption DEF BlockProcessed, NoJob, Proc
<1>5. blocks' = [blocks EXCEPT ![b] = d]
  BY DEF BlockProcessed
<1>6. d \in BlockDoc /\ d.processed = TRUE /\ d.next = blocks[b].next
  BY <1>3 DEF BlockDoc
<1>7. d # Absent
  BY <1>6, DocTypes
<1> HIDE DEF b, d
<1>8. blocks'[b] = d /\ \A c \in Block : c # b => blocks'[c] = blocks[c]
  BY <1>1, <1>2, <1>5
<1>9. \A c \in Block : Stored(c)' <=> Stored(c)
  BY <1>3, <1>7, <1>8 DEF Stored
<1>10. Processed' = Processed \cup {b}
  <2>1. \A c \in Block : c \in Processed' <=> c \in Processed \/ c = b
    BY <1>3, <1>6, <1>8, <1>9 DEF Processed
  <2> QED
    BY <1>2, <2>1 DEF Processed
<1>11. Partly' = Partly \ {b}
  <2>1. \A c \in Block : c \in Partly' <=> c \in Partly /\ c # b
    BY <1>6, <1>8, <1>9 DEF Partly
  <2> QED
    BY <2>1 DEF Partly
<1>12. Processed' = Branch[b]
  BY <1>2, <1>10, BranchSteps
<1>13. Chained'
  <2>1. ASSUME NEW c \in Processed', Parent[c] # Root PROVE blocks'[Parent[c]].next = c
    <3>1. c \in Block /\ Parent[c] \in Block
      BY <2>1, HeightTypes DEF Processed
    <3>2. blocks[Parent[c]].next = c
      BY <1>2, <1>10, <2>1 DEF TreeInv, Chained
    <3> QED
      BY <1>6, <1>8, <3>1, <3>2
  <2>2. \A c \in Block : Stored(c)' => Parent[c] \in Processed' \cup {Root}
    BY <1>9, <1>10 DEF TreeInv, Chained
  <2> QED
    BY <1>2, <1>12, <2>1, <2>2 DEF Chained
<1>14. OnTop'
  BY <1>4 DEF OnTop, Importing, ImportStage
<1>15. Cut = torn /\ Cut' = torn
  BY <1>1, <1>4 DEF Cut, Tearing, At
<1>16. CutLow' /\ RelaysPending'
  <2>1. \A a \in Processed : a \in Processed'
    BY <1>10
  <2> QED
    BY <1>4, <1>15, <2>1 DEF TreeInv, CutLow, RelaysPending
<1> QED
  BY <1>4, <1>9, <1>10, <1>11, <1>13, <1>14, <1>15, <1>16 DEF TreeInv, b

\* The steps that change no document.
LEMMA TreeRest ==
    ASSUME IInv, TreeInv,
           \/ SyncBlocks \/ GetHeaders \/ FinishSync \/ PeerBlock
           \/ \E b \in Block : PeerAdvances(b)
           \/ \E p \in Relay, t \in Tx : PeerTx(p, t)
           \/ Crash \/ SyncFails \/ \E p \in Proc : ImportFails(p)
    PROVE  /\ TreeInv' /\ Cut' = Cut /\ UNCHANGED <<db, raced>>
           /\ \/ job'[Sync] = job[Sync]
              \/ job'[Sync].at \in {"start", "headers", "block", "finish", "idle", "hung"}
<1>1. /\ job \in [Proc -> Job] /\ Sync \in Proc /\ Relay \subseteq Proc
      /\ \A p \in Relay : p # Sync
  BY SyncProc, ProcessAssumption DEF IInv, TypeOK, Proc
<1>2. UNCHANGED <<db, raced>>
  BY DEF SyncBlocks, GetHeaders, FinishSync, PeerBlock, PeerAdvances, PeerTx, Crash,
         SyncFails, ImportFails
<1>3. NoJob.at \notin ImportStage
  BY DEF NoJob, ImportStage
<1>4. CASE SyncBlocks \/ GetHeaders \/ FinishSync
  <2>1. torn' = torn /\ \A p \in Relay : job'[p] = job[p]
    BY <1>1, <1>4 DEF SyncBlocks, GetHeaders, FinishSync
  <2>2. job'[Sync].at \in {"headers", "finish", "block", "idle"}
    <3>1. CASE SyncBlocks
      BY <1>1, <3>1 DEF SyncBlocks, NoJob
    <3>2. CASE GetHeaders
      BY <1>1, <3>2 DEF GetHeaders, Job
    <3>3. CASE FinishSync
      BY <1>1, <3>3 DEF FinishSync, NoJob
    <3> QED
      BY <1>4, <3>1, <3>2, <3>3
  <2>3. Cut = torn
    BY <1>4 DEF SyncBlocks, GetHeaders, FinishSync, Cut, Tearing, At
  <2> QED
    BY <1>2, <2>1, <2>2, <2>3, TreeFree DEF db, TreeInv, RelaysPending
<1>5. CASE PeerBlock \/ \E b \in Block : PeerAdvances(b)
  <2>1. torn' = torn
    BY <1>5 DEF PeerBlock, PeerAdvances
  <2>2. CASE UNCHANGED job
    BY <1>2, <2>1, <2>2, TreeKept DEF db, TreeInv, RelaysPending
  <2>3. CASE At(Sync, "idle") /\ Goto(Sync, "start")
    <3>1. job'[Sync].at = "start" /\ \A p \in Relay : job'[p] = job[p]
      BY <1>1, <2>3 DEF Goto, Job
    <3>2. Cut = torn
      BY <2>3 DEF Cut, Tearing, At
    <3> QED
      BY <1>2, <2>1, <3>1, <3>2, TreeFree DEF db, TreeInv, RelaysPending
  <2> QED
    BY <1>5, <2>2, <2>3 DEF PeerBlock, PeerAdvances
<1>6. ASSUME NEW p \in Relay, NEW t \in Tx, PeerTx(p, t)
      PROVE  TreeInv' /\ Cut' = Cut /\ job'[Sync] = job[Sync]
  <2> DEFINE x == {t}
             h == pending
             j == [NoJob EXCEPT !.at = "mint", !.txs = x, !.height = h, !.prune = TRUE]
  <2>1. torn' = torn /\ job' = [job EXCEPT ![p] = j]
    BY <1>6 DEF PeerTx
  <2>2. j.height = pending
    <3> HIDE DEF h, x
    <3> QED
      BY DEF NoJob, h
  <2> HIDE DEF j
  <2>3. job'[p] = j /\ \A q \in Proc : q # p => job'[q] = job[q]
    BY <1>1, <2>1
  <2>4. \A q \in Relay : job'[q].at \in ImportStage => job'[q].height = pending
    BY <1>1, <2>2, <2>3 DEF TreeInv, RelaysPending
  <2> QED
    BY <1>1, <1>2, <2>1, <2>3, <2>4, TreeKept DEF db
<1>7. CASE Crash \/ SyncFails
  <2>1. torn' = Cut
    BY <1>7 DEF Crash, SyncFails, Tear, Cut
  <2>2. job'[Sync].at = "start"
    <3>1. CASE Crash
      BY <1>1, <3>1 DEF Crash, NoJob
    <3>2. CASE SyncFails
      BY <1>1, <3>2 DEF SyncFails, NoJob
    <3> QED
      BY <1>7, <3>1, <3>2
  <2>3. \A p \in Relay : job'[p] = NoJob \/ job'[p] = job[p]
    <3>1. CASE Crash
      BY <1>1, <3>1 DEF Crash
    <3>2. CASE SyncFails
      BY <1>1, <3>2 DEF SyncFails
    <3> QED
      BY <1>7, <3>1, <3>2
  <2>4. \A p \in Relay : job'[p].at \in ImportStage => job'[p].height = pending
    BY <1>3, <2>3 DEF TreeInv, RelaysPending
  <2> QED
    BY <1>2, <2>1, <2>2, <2>4, TreeFree DEF db
<1>8. ASSUME NEW p \in Proc, ImportFails(p)
      PROVE  /\ TreeInv' /\ Cut' = Cut
             /\ job'[Sync] = job[Sync] \/ job'[Sync].at = "hung"
  <2>1. torn' = torn /\ job[p].at \in ImportStage
    BY <1>8 DEF ImportFails
  <2>2. CASE p = Sync
    <3>1. job'[Sync].at = "hung" /\ \A q \in Relay : job'[q] = job[q]
      BY <1>1, <1>8, <2>2 DEF ImportFails, Job
    <3>2. Cut = torn
      BY <2>1, <2>2 DEF Cut, Tearing, At, ImportStage
    <3> QED
      BY <1>2, <2>1, <3>1, <3>2, TreeFree DEF db, TreeInv, RelaysPending
  <2>3. CASE p # Sync
    <3>1. job' = [job EXCEPT ![p] = NoJob]
      BY <1>8, <2>3 DEF ImportFails
    <3>2. job'[p] = NoJob /\ \A q \in Proc : q # p => job'[q] = job[q]
      BY <1>1, <3>1
    <3>3. \A q \in Relay : job'[q].at \in ImportStage => job'[q].height = pending
      BY <1>1, <1>3, <3>2 DEF TreeInv, RelaysPending
    <3> QED
      BY <1>1, <1>2, <2>1, <2>3, <3>2, <3>3, TreeKept DEF db
  <2> QED
    BY <2>2, <2>3
<1> QED
  BY <1>2, <1>4, <1>5, <1>6, <1>7, <1>8, TreeKept, TreeFree DEF db

-----------------------------------------------------------------------------
\* The transactions and the coins

\* No import that has not ended, and no reorg that was cut short, has touched
\* the heights up to m.
Sure(m) == (\A b \in Partly : Height[b] > m) /\ \A k \in Cut : k > m

\* A stored block of height h has t, or a reorg that was cut short left it.
Reported(h, t) ==
    \/ \E b \in Block : Stored(b) /\ Height[b] = h /\ t \in TxsOf[b]
    \/ \E k \in Cut : k <= h

\* The outputs of the block's transactions are there, at its height unless the
\* mempool has marked them.
Minted(a) ==
    \A c \in Coin :
        Minter[c] \in TxsOf[a] =>
           /\ coins[c] # Absent
           /\ \/ coins[c].mint = Height[a]
              \/ Minter[c] \in raced /\ coins[c].mint < minimum

\* Their inputs are spent.
Spent(a) ==
    \A t \in TxsOf[a] : \A c \in Spends[t] :
        coins[c] # Absent /\ coins[c].spent = Height[a] /\ coins[c].by = t

\* And they are there themselves.
Written(a) == \A t \in TxsOf[a] : t \in raced \/ txs[t] = Height[a]

\* What is confirmed comes from a block.
AllReported ==
    /\ \A t \in Tx : txs[t] # Absent /\ txs[t] >= minimum => Reported(txs[t], t)
    /\ \A c \in Coin : coins[c] # Absent =>
          /\ coins[c].mint >= minimum => Reported(coins[c].mint, Minter[c])
          /\ coins[c].spent >= minimum =>
                c \in Spends[coins[c].by] /\ Reported(coins[c].spent, coins[c].by)

\* Where it is sure, a processed block is there in full.
AllThere ==
    \A a \in Processed : Sure(Height[a]) => Minted(a) /\ Spent(a) /\ Written(a)

\* What a reorg has deleted.
Deleted ==
    job[Sync].at \in {"wipe", "unspend"} =>
       LET from == job[Sync].height IN
       /\ "blocks" \notin job[Sync].wipe =>
             \A b \in Block : Stored(b) => blocks[b].height < from
       /\ "txs" \notin job[Sync].wipe =>
             \A t \in Tx : txs[t] = Absent \/ txs[t] < from
       /\ "coins" \notin job[Sync].wipe =>
             \A c \in Coin : coins[c] = Absent \/ coins[c].mint < from
       /\ job[Sync].at = "unspend" => job[Sync].wipe = {}

\* How far the import of the block at hand is.
Progress ==
    /\ job[Sync].at \in (ImportStage \ {"mint"}) \cup {"processed"} => Minted(Current)
    /\ job[Sync].at \in {"tx", "processed"} /\ torn = {} /\ Partly = {Current}
          => Spent(Current)
    /\ job[Sync].at = "processed" => Written(Current)

DataInv == AllReported /\ AllThere /\ Deleted /\ Progress

\* A transaction is once in a chain.
LEMMA OnceInChain ==
    ASSUME NEW p \in Block \cup {Root}, NEW a \in Branch[p], NEW b \in Branch[p],
           NEW t \in TxsOf[a], t \in TxsOf[b]
    PROVE  a = b
<1>1. a \in Block /\ b \in Block
  BY BranchClosed
<1>2. ASSUME NEW x \in Block, NEW y \in Branch[x], t \in TxsOf[x], t \in TxsOf[y]
      PROVE  x = y
  <2>1. y = x \/ y \in Branch[Parent[x]]
    BY <1>2, BranchSteps
  <2>2. y \in Branch[Parent[x]] => t \in ConfirmedBy(Parent[x])
    BY <1>2 DEF ConfirmedBy
  <2> QED
    BY <1>2, <2>1, <2>2, ChainAssumption
<1> QED
  BY <1>1, <1>2, BranchLinear

\* An output is spent once in a chain.
LEMMA OneSpender ==
    ASSUME NEW p \in Block \cup {Root}, NEW a \in Branch[p], NEW b \in Branch[p],
           NEW t \in TxsOf[a], NEW u \in TxsOf[b],
           NEW c \in Spends[t], c \in Spends[u]
    PROVE  t = u
<1>1. a \in Block /\ b \in Block
  BY BranchClosed
<1>2. CASE a \in Branch[b]
  BY <1>1, <1>2, ChainAssumption DEF ConfirmedBy
<1>3. CASE b \in Branch[a]
  BY <1>1, <1>3, ChainAssumption DEF ConfirmedBy
<1> QED
  BY <1>2, <1>3, BranchLinear

\* The block on top has no transaction of the chain.
LEMMA NewTxs ==
    ASSUME NEW b \in Block, NEW a \in Branch[Parent[b]]
    PROVE  TxsOf[a] \cap TxsOf[b] = {}
BY ChainAssumption DEF ConfirmedBy

\* What is reported stays so while the blocks are there.
LEMMA ReportedKept ==
    ASSUME \A b \in Block : Stored(b) => Stored(b)', Cut \subseteq Cut',
           NEW h, NEW t, Reported(h, t)
    PROVE  Reported(h, t)'
BY DEF Reported

\* What an import of txs T at height h does to an output.
CoinEffect(c, h, T) ==
    /\ coins[c] # Absent => coins'[c] # Absent
    /\ coins'[c] # Absent =>
          /\ \/ coins[c] # Absent /\ coins'[c].mint = coins[c].mint
             \/ coins'[c].mint = h /\ Minter[c] \in T
             \/ coins'[c].mint < minimum
          /\ \/ /\ coins[c] # Absent
                /\ coins'[c].spent = coins[c].spent /\ coins'[c].by = coins[c].by
             \/ coins'[c].spent = h /\ coins'[c].by \in T /\ c \in Spends[coins'[c].by]
             \/ coins'[c].spent < minimum
    /\ coins[c] # Absent /\ coins[c].spent >= minimum =>
          coins'[c].spent = coins[c].spent /\ coins'[c].by = coins[c].by
    /\ coins[c] # Absent /\ coins[c].mint >= minimum =>
          \/ coins'[c].mint = coins[c].mint
          \/ coins'[c].mint < minimum /\ Minter[c] \in raced'
          \/ h >= minimum /\ coins'[c].mint = h /\ Minter[c] \in T

\* And to a transaction.
TxEffect(t, h, T) ==
    \/ txs'[t] = txs[t]
    \/ txs'[t] = h /\ t \in T /\ (h >= minimum \/ txs[t] = Absent)
    \/ txs'[t] = conflicting /\ (t \in raced' \/ txs[t] = Absent \/ txs[t] < minimum)

\* batchImport does no more than that.
LEMMA ImportEffects ==
    ASSUME IInv, NEW p \in Proc, BatchImport(p)
    PROVE  /\ \A c \in Coin : CoinEffect(c, job[p].height, job[p].txs)
           /\ \A t \in Tx : TxEffect(t, job[p].height, job[p].txs)
           /\ raced \subseteq raced'
<1>1. /\ job[p].height \in Heights /\ job[p].txs \in SUBSET Tx
      /\ \A c \in Coin : coins[c] \in CoinDoc \cup {Absent}
      /\ \A t \in Tx : txs[t] \in Heights \cup {Absent}
  BY DEF IInv, TypeOK, Job
<1> DEFINE h == job[p].height
           T == job[p].txs
<1>2. \A d \in CoinDoc : d # Absent /\ d.mint \in Int /\ d.spent \in Int
  BY DocTypes DEF CoinDoc, Heights
<1>3. CASE Prune(p) \/ WriteTx(p)
  <2>1. UNCHANGED coins /\ UNCHANGED raced
    BY <1>3 DEF Prune, WriteTx, db
  <2>2. \A c \in Coin : CoinEffect(c, h, T)
    BY <2>1 DEF CoinEffect
  <2>3. \A t \in Tx : TxEffect(t, h, T)
    BY <1>3 DEF TxEffect, Prune, WriteTx, db
  <2> QED
    BY <2>1, <2>2, <2>3
<1>4. CASE Mint(p)
  <2>1. ASSUME NEW c \in Coin PROVE CoinEffect(c, h, T)
    <3> DEFINE new == [mint |-> h, spent |-> unspent, by |-> NoTx]
               old == [coins[c] EXCEPT !.mint = h]
    <3>1. coins[c] \in CoinDoc \cup {Absent} /\ h \in Heights
      BY <1>1
    <3>2. \/ coins'[c] = coins[c]
          \/ Minter[c] \in T /\ coins[c] = Absent /\ coins'[c] = new
          \/ Minter[c] \in T /\ coins[c] # Absent /\ h >= minimum /\ coins'[c] = old
      BY <1>4 DEF Mint
    <3>3. new \in CoinDoc /\ new.mint = h /\ new.spent < minimum
      BY <3>1 DEF CoinDoc, Heights, unspent, minimum
    <3>4. coins[c] # Absent => /\ old \in CoinDoc /\ old.mint = h
                              /\ old.spent = coins[c].spent /\ old.by = coins[c].by
      BY <3>1 DEF CoinDoc
    <3> HIDE DEF new, old, h, T
    <3>5. CASE coins'[c] = coins[c]
      BY <3>5 DEF CoinEffect
    <3>6. CASE Minter[c] \in T /\ coins[c] = Absent /\ coins'[c] = new
      BY <1>2, <3>3, <3>6 DEF CoinEffect
    <3>7. CASE Minter[c] \in T /\ coins[c] # Absent /\ h >= minimum /\ coins'[c] = old
      BY <1>2, <3>1, <3>4, <3>7 DEF CoinEffect
    <3> QED
      BY <3>2, <3>5, <3>6, <3>7
  <2> QED
    BY <1>4, <2>1 DEF Mint, TxEffect
<1>5. CASE Invalidate(p)
  <2>1. ASSUME NEW c \in Coin PROVE CoinEffect(c, h, T)
    <3>1. coins[c] \in CoinDoc \cup {Absent}
      BY <1>1
    <3>2. \/ coins'[c] = coins[c]
          \/ coins[c] # Absent /\ coins[c].spent = pending /\ coins'[c] = UnspentDoc(coins[c])
      BY <1>5 DEF Invalidate, UnspentDoc
    <3>3. coins[c] # Absent => /\ UnspentDoc(coins[c]) \in CoinDoc
                              /\ UnspentDoc(coins[c]).mint = coins[c].mint
                              /\ UnspentDoc(coins[c]).spent < minimum
      <4> SUFFICES ASSUME coins[c] # Absent
                   PROVE  /\ UnspentDoc(coins[c]) \in CoinDoc
                          /\ UnspentDoc(coins[c]).mint = coins[c].mint
                          /\ UnspentDoc(coins[c]).spent < minimum
        OBVIOUS
      <4>1. coins[c] \in CoinDoc
        BY <3>1
      <4>2. unspent < minimum
        BY DEF unspent, minimum
      <4> QED
        BY <4>1, <4>2, UnspentType DEF UnspentDoc, CoinDoc
    <3>4. pending < minimum
      BY DEF pending, minimum
    <3> HIDE DEF h, T
    <3>5. CASE coins'[c] = coins[c]
      BY <3>5 DEF CoinEffect
    <3>6. CASE coins[c] # Absent /\ coins[c].spent = pending /\ coins'[c] = UnspentDoc(coins[c])
      BY <1>2, <3>1, <3>3, <3>4, <3>6 DEF CoinEffect, minimum, pending
    <3> QED
      BY <3>2, <3>5, <3>6
  <2> QED
    BY <1>5, <2>1 DEF Invalidate, TxEffect
<1>6. CASE Mark(p)
  <2> DEFINE doomed == Related(job[p].now)
  <2>1. /\ \A c \in Coin :
              \/ coins'[c] = coins[c]
              \/ /\ Minter[c] \in doomed /\ coins[c] # Absent
                 /\ coins'[c] = [coins[c] EXCEPT !.mint = conflicting]
        /\ \A t \in Tx :
              \/ txs'[t] = txs[t]
              \/ t \in doomed /\ txs[t] # Absent /\ txs'[t] = conflicting
        /\ raced' = raced \cup {t \in Tx : t \in doomed /\ IsConfirmed(t)}
    BY <1>6 DEF Mark
  <2> HIDE DEF doomed
  <2>2. conflicting < minimum /\ conflicting \in Heights
    BY DEF conflicting, minimum, Heights
  <2>3. ASSUME NEW c \in Coin PROVE CoinEffect(c, h, T)
    <3> DEFINE new == [coins[c] EXCEPT !.mint = conflicting]
    <3>1. coins[c] \in CoinDoc \cup {Absent} /\ Minter[c] \in Tx
      BY <1>1, TxAssumption
    <3>2. coins[c] # Absent => /\ new \in CoinDoc /\ new.mint = conflicting
                              /\ new.spent = coins[c].spent /\ new.by = coins[c].by
      BY <2>2, <3>1 DEF CoinDoc
    <3> HIDE DEF new, h, T
    <3>3. CASE coins'[c] = coins[c]
      BY <3>3 DEF CoinEffect
    <3>4. CASE Minter[c] \in doomed /\ coins[c] # Absent /\ coins'[c] = new
      <4>1. coins[c].mint >= minimum => Minter[c] \in raced'
        BY <2>1, <3>1, <3>4 DEF IsConfirmed
      <4> QED
        BY <1>2, <2>2, <3>1, <3>2, <3>4, <4>1 DEF CoinEffect
    <3> QED
      BY <2>1, <3>3, <3>4 DEF new
  <2>4. ASSUME NEW t \in Tx PROVE TxEffect(t, h, T)
    <3>1. CASE txs'[t] = txs[t]
      BY <3>1 DEF TxEffect
    <3>2. CASE t \in doomed /\ txs[t] # Absent /\ txs'[t] = conflicting
      <4>1. txs[t] >= minimum => t \in raced'
        BY <2>1, <3>2 DEF IsConfirmed
      <4>2. txs[t] \in Int
        BY <1>1, <3>2 DEF Heights
      <4> QED
        BY <3>2, <4>1, <4>2 DEF TxEffect, minimum
    <3> QED
      BY <2>1, <3>1, <3>2
  <2> QED
    BY <2>1, <2>3, <2>4
<1>7. CASE Spend(p)
  <2>1. ASSUME NEW c \in Coin PROVE CoinEffect(c, h, T)
    <3> DEFINE t == CHOOSE u \in T : c \in Spends[u]
               new == [coins[c] EXCEPT !.spent = h, !.by = t]
    <3>1. coins[c] \in CoinDoc \cup {Absent} /\ h \in Heights
      BY <1>1
    <3>2. \/ coins'[c] = coins[c]
          \/ /\ \E u \in T : c \in Spends[u]
             /\ coins[c] # Absent /\ coins[c].spent < minimum
             /\ coins'[c] = new
      BY <1>7 DEF Spend
    <3>3. (\E u \in T : c \in Spends[u]) => t \in T /\ c \in Spends[t] /\ t \in Tx
      BY <1>1
    <3> HIDE DEF t, h, T
    <3>4. coins[c] # Absent /\ t \in Tx => /\ new \in CoinDoc /\ new.mint = coins[c].mint
                                          /\ new.spent = h /\ new.by = t
      BY <3>1 DEF CoinDoc
    <3> HIDE DEF new
    <3>5. CASE coins'[c] = coins[c]
      BY <3>5 DEF CoinEffect
    <3>6. CASE /\ \E u \in T : c \in Spends[u]
               /\ coins[c] # Absent /\ coins[c].spent < minimum
               /\ coins'[c] = new
      <4>1. ~(coins[c].spent >= minimum)
        BY <1>2, <3>1, <3>6 DEF minimum
      <4> QED
        BY <1>2, <3>1, <3>3, <3>4, <3>6, <4>1 DEF CoinEffect
    <3> QED
      BY <3>2, <3>5, <3>6
  <2> QED
    BY <1>7, <2>1 DEF Spend, TxEffect
<1> QED
  BY <1>3, <1>4, <1>5, <1>6, <1>7 DEF BatchImport

\* An import of other transactions, or of none that confirms, keeps a block.
LEMMA BlockKept ==
    ASSUME NEW a \in Block, NEW h \in Heights, NEW T \in SUBSET Tx, IInv,
           \A c \in Coin : CoinEffect(c, h, T),
           \A t \in Tx : TxEffect(t, h, T),
           raced \subseteq raced',
           h < minimum \/ T \cap TxsOf[a] = {} \/ h = Height[a],
           coins' \in [Coin -> CoinDoc \cup {Absent}]
    PROVE  /\ Minted(a) => Minted(a)'
           /\ Spent(a) => Spent(a)'
           /\ Written(a) => Written(a)'
<1>1. /\ Height[a] \in Nat /\ Height[a] # Absent /\ TxsOf[a] \subseteq Tx
      /\ \A t \in Tx : Spends[t] \subseteq Coin
  BY HeightTypes, TxAssumption, DocTypes DEF Heights
<1>2. \A c \in Coin : coins[c] # Absent => coins[c].mint \in Int /\ coins[c].spent \in Int
  BY DEF IInv, TypeOK, CoinDoc, Heights
<1>3. \A c \in Coin : coins'[c] # Absent => coins'[c].mint \in Int /\ coins'[c].spent \in Int
  BY DEF CoinDoc, Heights
<1>4. ASSUME Minted(a), NEW c \in Coin, Minter[c] \in TxsOf[a]
      PROVE  /\ coins'[c] # Absent
             /\ \/ coins'[c].mint = Height[a]
                \/ Minter[c] \in raced' /\ coins'[c].mint < minimum
  <2>1. /\ coins[c] # Absent
        /\ \/ coins[c].mint = Height[a]
           \/ Minter[c] \in raced /\ coins[c].mint < minimum
    BY <1>4 DEF Minted
  <2>2. coins'[c] # Absent
    BY <2>1 DEF CoinEffect
  <2>3. Minter[c] \in T => h < minimum \/ h = Height[a]
    BY <1>4
  <2>4. CASE coins[c].mint = Height[a]
    <3>1. coins[c].mint >= minimum
      BY <1>1, <2>4 DEF minimum
    <3>2. \/ coins'[c].mint = coins[c].mint
          \/ coins'[c].mint < minimum /\ Minter[c] \in raced'
          \/ h >= minimum /\ coins'[c].mint = h /\ Minter[c] \in T
      BY <2>1, <3>1 DEF CoinEffect
    <3> QED
      BY <2>2, <2>3, <2>4, <3>2 DEF Heights, minimum
  <2>5. CASE Minter[c] \in raced /\ coins[c].mint < minimum
    <3>1. \/ coins'[c].mint = coins[c].mint
          \/ coins'[c].mint = h /\ Minter[c] \in T
          \/ coins'[c].mint < minimum
      BY <2>1, <2>2 DEF CoinEffect
    <3> QED
      BY <2>2, <2>3, <2>5, <3>1
  <2> QED
    BY <2>1, <2>4, <2>5
<1>5. ASSUME Spent(a), NEW t \in TxsOf[a], NEW c \in Spends[t]
      PROVE  coins'[c] # Absent /\ coins'[c].spent = Height[a] /\ coins'[c].by = t
  <2>1. c \in Coin /\ coins[c] # Absent /\ coins[c].spent = Height[a] /\ coins[c].by = t
    BY <1>1, <1>5 DEF Spent
  <2>2. coins[c].spent >= minimum
    BY <1>1, <2>1 DEF minimum
  <2> QED
    BY <2>1, <2>2 DEF CoinEffect
<1>6. ASSUME Written(a), NEW t \in TxsOf[a]
      PROVE  t \in raced' \/ txs'[t] = Height[a]
  <2>1. CASE t \in raced
    BY <2>1
  <2>2. CASE txs[t] = Height[a]
    <3>1. t \in T => h < minimum \/ h = Height[a]
      OBVIOUS
    <3>2. t \in Tx /\ ~(txs[t] < minimum) /\ txs[t] # Absent
      BY <1>1, <2>2 DEF minimum
    <3>3. \/ txs'[t] = txs[t]
          \/ txs'[t] = h /\ t \in T /\ h >= minimum
          \/ t \in raced'
      BY <3>2 DEF TxEffect
    <3> QED
      BY <2>2, <3>1, <3>3 DEF Heights, minimum
  <2> QED
    BY <1>6, <2>1, <2>2 DEF Written
<1> QED
  BY <1>4, <1>5, <1>6 DEF Minted, Spent, Written

\* Sure and the stored blocks, of a step that changes no block.
LEMMA SameBlocks ==
    ASSUME UNCHANGED blocks, Cut' = Cut
    PROVE  /\ Processed' = Processed /\ Partly' = Partly
           /\ \A b \in Block : Stored(b)' <=> Stored(b)
           /\ \A m : Sure(m)' <=> Sure(m)
<1>1. \A b \in Block : Stored(b)' <=> Stored(b)
  BY DEF Stored
<1>2. Processed' = Processed /\ Partly' = Partly
  BY <1>1 DEF Processed, Partly
<1> QED
  BY <1>1, <1>2 DEF Sure

\* A step that changes nothing but the stage.
LEMMA DataFree ==
    ASSUME IInv, DataInv, UNCHANGED <<db, raced>>, Cut' = Cut,
           \/ job'[Sync] = job[Sync]
           \/ job'[Sync].at \notin {"wipe", "unspend", "processed"} \cup (ImportStage \ {"mint"})
    PROVE  DataInv'
<1>1. UNCHANGED <<blocks, coins, txs, raced>>
  BY DEF db
<1>2. /\ Processed' = Processed /\ Partly' = Partly
      /\ \A b \in Block : Stored(b)' <=> Stored(b)
      /\ \A m : Sure(m)' <=> Sure(m)
  BY <1>1, SameBlocks
<1>3. AllReported'
  <2>1. \A h, t : Reported(h, t) => Reported(h, t)'
    BY <1>2, ReportedKept
  <2> QED
    BY <1>1, <2>1 DEF DataInv, AllReported
<1>4. \A a \in Block : /\ Minted(a)' <=> Minted(a)
                       /\ Spent(a)' <=> Spent(a)
                       /\ Written(a)' <=> Written(a)
  BY <1>1 DEF Minted, Spent, Written
<1>5. AllThere'
  BY <1>2, <1>4 DEF DataInv, AllThere, Processed
<1>6. CASE job'[Sync] = job[Sync]
  <2>1. Deleted'
    BY <1>1, <1>2, <1>6 DEF DataInv, Deleted
  <2>2. Current' = Current
    BY <1>6 DEF Current
  <2>3. job[Sync].at \in Importing => Current \in Block
    BY CurrentBlock
  <2>4. job[Sync].at \in {"tx", "processed"} => torn' = torn
    BY <1>6 DEF Cut, Tearing, At
  <2>5. Progress'
    <3>1. (ImportStage \ {"mint"}) \cup {"processed"} \subseteq Importing
      BY DEF Importing
    <3>2. {"tx", "processed"} \subseteq Importing
      BY DEF Importing, ImportStage
    <3> QED
      BY <1>2, <1>4, <1>6, <2>2, <2>3, <2>4, <3>1, <3>2 DEF DataInv, Progress
  <2> QED
    BY <1>3, <1>5, <2>1, <2>5 DEF DataInv
<1>7. CASE job'[Sync].at \notin {"wipe", "unspend", "processed"} \cup (ImportStage \ {"mint"})
  <2>1. job'[Sync].at \notin {"tx", "processed"}
    BY <1>7 DEF ImportStage
  <2> QED
    BY <1>3, <1>5, <1>7, <2>1 DEF DataInv, Deleted, Progress
<1> QED
  BY <1>6, <1>7

\* When the sync spends, every input of its block is there, and was spent by no
\* other block.
LEMMA SpendsAll ==
    ASSUME IInv, PeerInv, TreeInv, DataInv, Spend(Sync),
           torn = {}, Partly = {Current}
    PROVE  Spent(Current)'
<1> DEFINE b == Current
           j == job[Sync]
<1>1. /\ j.at = "spend" /\ j \in Job /\ Sync \in Proc /\ job \in [Proc -> Job]
      /\ \A c \in Coin : coins[c] \in CoinDoc \cup {Absent}
  BY SyncProc DEF IInv, TypeOK, Spend, At
<1>2. j.at \in Importing /\ j.at \in (ImportStage \ {"mint"}) \cup {"processed"}
  BY <1>1 DEF Importing, ImportStage
<1>3. /\ b \in Block /\ TxsOf[b] \subseteq Tx /\ Processed = Branch[Parent[b]]
      /\ j.height = Height[b] /\ j.txs = TxsOf[b]
  BY <1>2, CurrentBlock DEF TreeInv, OnTop
<1>4. Height[b] \in Nat /\ Parent[b] \in Block \cup {Root}
  BY <1>3, HeightTypes
<1>5. job'[Sync].queue = j.queue
  BY <1>1 DEF Spend, Goto, Job
<1>6. Current' = b
  BY <1>5 DEF Current
<1>7. Cut = torn
  BY <1>1 DEF Cut, Tearing, At
<1> HIDE DEF b, j
<1>8. ASSUME NEW t \in TxsOf[b], NEW c \in Spends[t]
      PROVE  coins'[c] # Absent /\ coins'[c].spent = Height[b] /\ coins'[c].by = t
  <2>1. c \in Coin /\ t \in Tx
    BY <1>3, TxAssumption
  <2>2. coins[c] # Absent
    <3>1. PICK a \in Branch[b] : Minter[c] \in TxsOf[a]
      BY <1>3, ChainAssumption DEF ConfirmedBy
    <3>2. CASE a = b
      <4>1. Minted(b)
        BY <1>2 DEF DataInv, Progress, b, j
      <4> QED
        BY <2>1, <3>1, <3>2, <4>1 DEF Minted
    <3>3. CASE a \in Branch[Parent[b]]
      <4>1. a \in Processed /\ a \in Block
        BY <1>3, <3>3 DEF Processed
      <4>2. Parent[b] \in Block /\ Height[a] <= Height[Parent[b]]
        BY <1>4, <3>3, BranchSteps, BranchHeights
      <4>3. Height[a] < Height[b]
        BY <1>3, <4>1, <4>2, HeightTypes
      <4>4. Sure(Height[a])
        BY <1>7, <4>3 DEF Sure, b
      <4>5. Minted(a)
        BY <4>1, <4>4 DEF DataInv, AllThere
      <4> QED
        BY <2>1, <3>1, <4>5 DEF Minted
    <3> QED
      BY <1>3, <3>1, <3>2, <3>3, BranchSteps
  <2>3. coins[c] \in CoinDoc /\ coins[c].spent \in Int
    BY <1>1, <2>1, <2>2 DEF CoinDoc, Heights
  <2>4. CASE coins[c].spent < minimum
    <3> DEFINE s == CHOOSE u \in TxsOf[b] : c \in Spends[u]
    <3>1. s \in TxsOf[b] /\ c \in Spends[s]
      BY <1>8
    <3>2. s = t
      <4> HIDE DEF s
      <4>1. b \in Branch[b]
        BY <1>3, BranchSteps
      <4> QED
        BY <1>3, <3>1, <4>1, OneSpender
    <3>3. coins'[c] = [coins[c] EXCEPT !.spent = Height[b], !.by = s]
      BY <1>3, <1>8, <2>1, <2>2, <2>4 DEF Spend, j
    <3> HIDE DEF s
    <3>4. coins'[c] \in CoinDoc /\ coins'[c].spent = Height[b] /\ coins'[c].by = s
      BY <1>4, <2>1, <2>3, <3>2, <3>3 DEF CoinDoc, Heights
    <3> QED
      BY <3>2, <3>4, DocTypes
  <2>5. CASE ~(coins[c].spent < minimum)
    <3> DEFINE u == coins[c].by
    <3>1. coins'[c] = coins[c]
      BY <2>1, <2>5 DEF Spend
    <3>2. coins[c].spent >= minimum
      BY <2>3, <2>5 DEF minimum
    <3>3. c \in Spends[u] /\ Reported(coins[c].spent, u)
      BY <2>1, <2>2, <3>2 DEF DataInv, AllReported
    <3>4. PICK x \in Block : Stored(x) /\ Height[x] = coins[c].spent /\ u \in TxsOf[x]
      BY <1>7, <3>3 DEF Reported
    <3>5. x \in Branch[b]
      <4>1. x \in Processed \/ x \in Partly
        BY <3>4 DEF Processed, Partly
      <4> QED
        BY <1>3, <4>1, BranchSteps DEF b
    <3>6. b \in Branch[b]
      BY <1>3, BranchSteps
    <3> HIDE DEF u
    <3>7. u = t
      BY <1>3, <1>8, <3>3, <3>4, <3>5, <3>6, OneSpender
    <3>8. x = b
      BY <1>3, <1>8, <3>4, <3>5, <3>6, <3>7, OnceInChain
    <3> QED
      BY <2>2, <3>1, <3>4, <3>7, <3>8 DEF u
  <2> QED
    BY <2>4, <2>5
<1> QED
  BY <1>6, <1>8 DEF Spent

\* batchImport: the blocks that are there stay, and the block at hand gets there.
LEMMA DataImport ==
    ASSUME IInv, PeerInv, TreeInv, DataInv, NEW p \in Proc, BatchImport(p),
           NEW b, b = Current, NEW h, h = job[p].height, NEW T, T = job[p].txs
    PROVE  DataInv'
<1>1. /\ UNCHANGED <<blocks, torn>> /\ job[p].at \in ImportStage /\ Sync \in Proc
      /\ \A q \in Proc : q # p => job'[q] = job[q]
  BY ImportMoves, SyncProc
<1>2. h \in Heights /\ T \in SUBSET Tx
  BY DEF IInv, TypeOK, Job
<1>3. /\ \A c \in Coin : CoinEffect(c, h, T)
      /\ \A t \in Tx : TxEffect(t, h, T)
      /\ raced \subseteq raced'
  BY ImportEffects
<1>4. coins' \in [Coin -> CoinDoc \cup {Absent}] /\ txs' \in [Tx -> Heights \cup {Absent}]
  BY ImportStep DEF IInv, TypeOK
<1>5. Cut' = Cut
  BY TreeImport
<1>6. /\ Processed' = Processed /\ Partly' = Partly
      /\ \A x \in Block : Stored(x)' <=> Stored(x)
      /\ \A m : Sure(m)' <=> Sure(m)
  BY <1>1, <1>5, SameBlocks
<1>7. p # Sync => h < minimum
  <2> SUFFICES ASSUME p # Sync PROVE h < minimum
    OBVIOUS
  <2>1. p \in Relay
    BY DEF Proc
  <2> QED
    BY <1>1, <2>1 DEF TreeInv, RelaysPending, pending, minimum
<1>8. p = Sync => /\ b \in Block /\ Stored(b) /\ h = Height[b] /\ T = TxsOf[b]
                  /\ Processed = Branch[Parent[b]]
                  /\ Current' = b
  <2> SUFFICES ASSUME p = Sync
               PROVE  /\ b \in Block /\ Stored(b) /\ h = Height[b] /\ T = TxsOf[b]
                      /\ Processed = Branch[Parent[b]]
                      /\ Current' = b
    OBVIOUS
  <2>1. job[Sync].at \in Importing
    BY <1>1 DEF Importing
  <2>2. b \in Block /\ Stored(b)
    BY <2>1, CurrentBlock, CurrentIsLowest DEF IInv, SyncOK
  <2>3. job'[Sync].queue = job[Sync].queue
    BY ImportMoves
  <2> QED
    BY <2>1, <2>2, <2>3 DEF TreeInv, OnTop, Current
<1>9. \A x, t : Reported(x, t) => Reported(x, t)'
  BY <1>5, <1>6, ReportedKept
<1>10. ASSUME NEW t \in T, h >= minimum PROVE Reported(h, t)'
  <2>1. p = Sync
    BY <1>2, <1>7, <1>10 DEF Heights, minimum
  <2> QED
    BY <1>6, <1>8, <1>10, <2>1 DEF Reported
<1>11. AllReported'
  <2>1. ASSUME NEW t \in Tx, txs'[t] # Absent, txs'[t] >= minimum, NEW e, e = txs'[t]
        PROVE  Reported(e, t)'
    <3>1. CASE txs'[t] = txs[t]
      BY <1>9, <2>1, <3>1 DEF DataInv, AllReported
    <3>2. CASE txs'[t] = h /\ t \in T
      BY <1>10, <2>1, <3>2
    <3>3. txs'[t] # conflicting
      BY <2>1 DEF conflicting, minimum
    <3> QED
      BY <1>3, <3>1, <3>2, <3>3 DEF TxEffect
  <2>2. ASSUME NEW c \in Coin, coins'[c] # Absent, coins'[c].mint >= minimum,
               NEW e, e = coins'[c].mint
        PROVE  Reported(e, Minter[c])'
    <3>1. ~(coins'[c].mint < minimum)
      BY <1>4, <2>2 DEF CoinDoc, Heights, minimum
    <3>2. CASE coins[c] # Absent /\ coins'[c].mint = coins[c].mint
      BY <1>9, <2>2, <3>2 DEF DataInv, AllReported
    <3>3. CASE coins'[c].mint = h /\ Minter[c] \in T
      BY <1>10, <2>2, <3>3
    <3> QED
      BY <1>3, <2>2, <3>1, <3>2, <3>3 DEF CoinEffect
  <2>3. ASSUME NEW c \in Coin, coins'[c] # Absent, coins'[c].spent >= minimum,
               NEW e, e = coins'[c].spent, NEW u, u = coins'[c].by
        PROVE  c \in Spends[u] /\ Reported(e, u)'
    <3>1. ~(coins'[c].spent < minimum)
      BY <1>4, <2>3 DEF CoinDoc, Heights, minimum
    <3>2. CASE /\ coins[c] # Absent
               /\ coins'[c].spent = coins[c].spent /\ coins'[c].by = coins[c].by
      BY <1>9, <2>3, <3>2 DEF DataInv, AllReported
    <3>3. CASE coins'[c].spent = h /\ coins'[c].by \in T /\ c \in Spends[coins'[c].by]
      BY <1>10, <2>3, <3>3
    <3> QED
      BY <1>3, <2>3, <3>1, <3>2, <3>3 DEF CoinEffect
  <2> QED
    BY <2>1, <2>2, <2>3 DEF AllReported, Reported
<1>12. ASSUME NEW a \in Block, h < minimum \/ T \cap TxsOf[a] = {} \/ h = Height[a]
       PROVE  /\ Minted(a) => Minted(a)'
              /\ Spent(a) => Spent(a)'
              /\ Written(a) => Written(a)'
  BY <1>2, <1>3, <1>4, <1>12, BlockKept
<1>13. AllThere'
  <2> SUFFICES ASSUME NEW a \in Processed, Sure(Height[a])
               PROVE  Minted(a)' /\ Spent(a)' /\ Written(a)'
    BY <1>6 DEF AllThere
  <2>1. a \in Block
    BY DEF Processed
  <2>2. h < minimum \/ T \cap TxsOf[a] = {}
    BY <1>7, <1>8, NewTxs
  <2> QED
    BY <1>12, <2>1, <2>2 DEF DataInv, AllThere
<1>14. Deleted'
  <2>1. CASE p = Sync
    <3>1. job'[Sync].at \notin {"wipe", "unspend"}
      BY <2>1, ImportMoves DEF ImportStage
    <3> QED
      BY <3>1 DEF Deleted
  <2>2. CASE p # Sync
    <3>1. job'[Sync] = job[Sync]
      BY <1>1, <2>2
    <3> SUFFICES ASSUME job[Sync].at \in {"wipe", "unspend"} PROVE Deleted'
      BY <3>1 DEF Deleted
    <3> DEFINE f == job[Sync].height
    <3>2. f \in Nat
      BY DEF IInv, SyncOK
    <3>3. f # Absent /\ \A t \in Tx : txs[t] \in Heights \cup {Absent}
      BY <3>2, DocTypes DEF Heights, IInv, TypeOK
    <3>4. ASSUME NEW t \in Tx, txs[t] = Absent \/ txs[t] < f
          PROVE  txs'[t] = Absent \/ txs'[t] < f
      <4>1. h < f /\ conflicting < f
        BY <1>2, <1>7, <2>2, <3>2 DEF conflicting, Heights, minimum
      <4> HIDE DEF f
      <4> QED
        BY <1>3, <3>4, <4>1 DEF TxEffect
    <3>5. ASSUME NEW c \in Coin, coins[c] = Absent \/ coins[c].mint < f
          PROVE  coins'[c] = Absent \/ coins'[c].mint < f
      <4>1. h < f
        BY <1>2, <1>7, <2>2, <3>2 DEF Heights, minimum
      <4>2. coins'[c] # Absent /\ coins'[c].mint < minimum => coins'[c].mint < f
        BY <1>4, <3>2 DEF CoinDoc, Heights, minimum
      <4> HIDE DEF f
      <4> QED
        BY <1>3, <3>5, <4>1, <4>2 DEF CoinEffect
    <3> QED
      BY <1>1, <1>6, <3>1, <3>4, <3>5 DEF DataInv, Deleted
  <2> QED
    BY <2>1, <2>2
<1>15. Progress'
  <2>1. CASE p # Sync
    <3>1. job'[Sync] = job[Sync] /\ Current' = b
      BY <1>1, <2>1 DEF Current
    <3>2. job[Sync].at \in Importing => b \in Block
      BY CurrentBlock
    <3>3. {"tx", "processed"} \cup (ImportStage \ {"mint"}) \subseteq Importing
      BY DEF Importing, ImportStage
    <3>4. ASSUME job[Sync].at \in Importing
          PROVE  /\ Minted(b) => Minted(b)'
                 /\ Spent(b) => Spent(b)'
                 /\ Written(b) => Written(b)'
      BY <1>7, <1>12, <2>1, <3>2, <3>4
    <3>5. /\ Minted(b)' = Minted(Current)'
          /\ Spent(b)' = Spent(Current)'
          /\ Written(b)' = Written(Current)'
      BY <3>1 DEF Minted, Spent, Written
    <3> QED
      BY <1>1, <1>6, <3>1, <3>3, <3>4, <3>5 DEF DataInv, Progress
  <2>2. CASE p = Sync
    <3>1. Current' = b /\ b \in Block
      BY <1>8, <2>2
    <3>2. /\ Minted(b) => Minted(b)'
          /\ Spent(b) => Spent(b)'
          /\ Written(b) => Written(b)'
      BY <1>8, <1>12, <2>2
    <3>3. /\ Minted(b)' = Minted(Current)'
          /\ Spent(b)' = Spent(Current)'
          /\ Written(b)' = Written(Current)'
      BY <3>1 DEF Minted, Spent, Written
    <3>4. Minted(b)'
      <4>1. CASE Mint(p)
        <5>1. h >= minimum /\ h = Height[b] /\ T = TxsOf[b]
          BY <1>8, <2>2, HeightTypes DEF minimum
        <5>2. ASSUME NEW c \in Coin, Minter[c] \in T
              PROVE  coins'[c] # Absent /\ coins'[c].mint = h
          <6> DEFINE new == [mint |-> h, spent |-> unspent, by |-> NoTx]
                     old == [coins[c] EXCEPT !.mint = h]
          <6>1. coins'[c] = IF coins[c] = Absent THEN new ELSE old
            BY <4>1, <5>1, <5>2 DEF Mint 
          <6>2. coins[c] \in CoinDoc \cup {Absent}
            BY DEF IInv, TypeOK
          <6>3. new \in CoinDoc /\ new.mint = h
            BY <1>2 DEF CoinDoc, Heights, unspent
          <6>4. coins[c] # Absent => old \in CoinDoc /\ old.mint = h
            BY <1>2, <6>2 DEF CoinDoc
          <6> HIDE DEF new, old
          <6> QED
            BY <6>1, <6>3, <6>4, DocTypes
        <5> QED
          BY <5>1, <5>2 DEF Minted
      <4>2. CASE ~Mint(p)
        <5>1. job[Sync].at # "mint"
          BY <2>2, <4>2 DEF BatchImport, Prune, Invalidate, Mark, Spend, WriteTx, At
        <5> QED
          BY <1>1, <2>2, <3>2, <5>1 DEF DataInv, Progress
      <4> QED
        BY <4>1, <4>2
    <3>5. ASSUME job'[Sync].at \in {"tx", "processed"}, torn' = {}, Partly' = {b}
          PROVE  Spent(b)'
      <4>1. torn = {} /\ Partly = {Current}
        BY <1>1, <1>6, <3>5
      <4>2. CASE job'[Sync].at = "tx"
        <5>1. Spend(Sync)
          BY <2>2, <4>2, ImportFields
        <5> QED
          BY <3>3, <4>1, <5>1, SpendsAll
      <4>3. CASE job'[Sync].at = "processed"
        <5>1. job[Sync].at = "tx"
          BY <2>2, <4>3, ImportFields DEF WriteTx, At
        <5> QED
          BY <3>2, <4>1, <5>1 DEF DataInv, Progress
      <4> QED
        BY <3>5, <4>2, <4>3
    <3>6. ASSUME job'[Sync].at = "processed" PROVE Written(b)'
      <4>1. WriteTx(Sync)
        BY <2>2, <3>6, ImportFields
      <4>2. h >= minimum /\ h = Height[b] /\ T = TxsOf[b] /\ TxsOf[b] \subseteq Tx
        BY <1>8, <2>2, HeightTypes, TxAssumption DEF minimum
      <4>3. \A t \in T : txs'[t] = h
        BY <2>2, <4>1, <4>2 DEF WriteTx 
      <4> QED
        BY <4>2, <4>3 DEF Written
    <3> QED
      BY <3>1, <3>3, <3>4, <3>5, <3>6 DEF Progress
  <2> QED
    BY <2>1, <2>2
<1> QED
  BY <1>11, <1>13, <1>14, <1>15 DEF DataInv

\* A reorg begins with nothing deleted.
LEMMA DataReorg ==
    ASSUME IInv, PeerInv, TreeInv, DataInv, HandleReorg
    PROVE  DataInv'
<1>1. /\ job \in [Proc -> Job] /\ job[Sync] \in Job /\ Sync \in Proc
      /\ job[Sync].at = "block"
  BY SyncProc DEF IInv, TypeOK, HandleReorg, At
<1>2. UNCHANGED <<db, raced>> /\ Cut' = Cut
  BY TreeReorg DEF HandleReorg
<1>3. \/ job'[Sync].at = "write"
      \/ job'[Sync].at = "wipe" /\ job'[Sync].wipe = {"blocks", "txs", "coins"}
  <2>1. CASE Goto(Sync, "write")
    BY <1>1, <2>1 DEF Goto, Job
  <2>2. ASSUME NEW b \in Block \cup {Root},
               job' = [job EXCEPT ![Sync].at = "wipe",
                                  ![Sync].height = blocks[b].height,
                                  ![Sync].wipe = {"blocks", "txs", "coins"}]
        PROVE  job'[Sync].at = "wipe" /\ job'[Sync].wipe = {"blocks", "txs", "coins"}
    BY <1>1, <2>2 DEF Job
  <2>3. LocalTip \subseteq Block /\ Parent[Current] \in Block \cup {Root}
    BY <1>1, CurrentBlock, HeightTypes DEF LocalTip, Processed
  <2> QED
    BY <2>1, <2>2, <2>3 DEF HandleReorg
<1>4. CASE job'[Sync].at = "write"
  <2>1. "write" \notin {"wipe", "unspend", "processed"} \cup (ImportStage \ {"mint"})
    BY DEF ImportStage
  <2> QED
    BY <1>2, <1>4, <2>1, DataFree
<1>5. CASE job'[Sync].at = "wipe" /\ job'[Sync].wipe = {"blocks", "txs", "coins"}
  <2>1. UNCHANGED <<blocks, coins, txs, raced>>
    BY <1>2 DEF db
  <2>2. /\ Processed' = Processed /\ Partly' = Partly
        /\ \A b \in Block : Stored(b)' <=> Stored(b)
        /\ \A m : Sure(m)' <=> Sure(m)
    BY <1>2, <2>1, SameBlocks
  <2>3. \A h, t : Reported(h, t) => Reported(h, t)'
    BY <1>2, <2>2, ReportedKept
  <2>4. AllReported'
    BY <2>1, <2>3 DEF DataInv, AllReported
  <2>5. \A a \in Block : /\ Minted(a)' <=> Minted(a)
                         /\ Spent(a)' <=> Spent(a)
                         /\ Written(a)' <=> Written(a)
    BY <2>1 DEF Minted, Spent, Written
  <2>6. AllThere'
    BY <2>2, <2>5 DEF DataInv, AllThere, Processed
  <2>7. Deleted' /\ Progress'
    BY <1>5 DEF Deleted, Progress, ImportStage
  <2> QED
    BY <2>4, <2>6, <2>7 DEF DataInv
<1> QED
  BY <1>3, <1>4, <1>5

\* What a reorg deletes is above its height, and so is what it leaves unsure.
LEMMA DataWipe ==
    ASSUME IInv, PeerInv, TreeInv, DataInv, Wipe, NEW f, f = job[Sync].height
    PROVE  DataInv'
<1>1. /\ job \in [Proc -> Job] /\ job[Sync] \in Job /\ Sync \in Proc
      /\ job[Sync].at = "wipe" /\ f \in Nat
  BY SyncProc DEF IInv, TypeOK, Wipe, At, SyncOK
<1>2. PICK k \in job[Sync].wipe :
         /\ job' = [job EXCEPT ![Sync].wipe = @ \ {k},
                               ![Sync].at = IF job[Sync].wipe = {k} THEN "unspend" ELSE @]
         /\ blocks' = [b \in Block |->
               IF k = "blocks" /\ Stored(b) /\ blocks[b].height >= job[Sync].height
               THEN Absent ELSE blocks[b]]
         /\ txs' = [t \in Tx |->
               IF k = "txs" /\ txs[t] # Absent /\ txs[t] >= job[Sync].height
               THEN Absent ELSE txs[t]]
         /\ coins' = [c \in Coin |->
               IF k = "coins" /\ coins[c] # Absent /\ coins[c].mint >= job[Sync].height
               THEN Absent ELSE coins[c]]
  BY DEF Wipe
<1>3. /\ job'[Sync].at = IF job[Sync].wipe = {k} THEN "unspend" ELSE "wipe"
      /\ job'[Sync].wipe = job[Sync].wipe \ {k}
      /\ job'[Sync].height = f
  BY <1>1, <1>2 DEF Job
<1>4. UNCHANGED raced /\ Cut' = Cut \cup {f}
  BY TreeWipe DEF Wipe
<1>5. \A b \in Block : IF Stored(b) /\ Height[b] >= f /\ k = "blocks" THEN ~Stored(b)'
                       ELSE (Stored(b)' <=> Stored(b)) /\ blocks'[b] = blocks[b]
  BY <1>2 DEF PeerInv, Stored
<1>6. /\ \A t \in Tx : txs[t] # Absent => txs[t] \in Int
      /\ \A c \in Coin : coins[c] # Absent => coins[c].mint \in Int /\ coins[c].spent \in Int
      /\ \A b \in Block : Height[b] \in Nat
  BY HeightTypes DEF IInv, TypeOK, CoinDoc, Heights
<1>7. ASSUME NEW h \in Int, NEW t, Reported(h, t) PROVE Reported(h, t)'
  <2>1. CASE \E l \in Cut : l <= h
    BY <1>4, <2>1 DEF Reported
  <2>2. CASE \E b \in Block : Stored(b) /\ Height[b] = h /\ t \in TxsOf[b]
    <3>1. PICK b \in Block : Stored(b) /\ Height[b] = h /\ t \in TxsOf[b]
      BY <2>2
    <3>2. CASE h >= f
      <4>1. f \in Cut' /\ f <= h
        BY <1>1, <1>4, <3>2
      <4> QED
        BY <4>1 DEF Reported
    <3>3. CASE ~(h >= f)
      BY <1>5, <3>1, <3>3 DEF Reported
    <3> QED
      BY <3>2, <3>3
  <2> QED
    BY <1>7, <2>1, <2>2 DEF Reported
<1>8. AllReported'
  <2>1. ASSUME NEW t \in Tx, txs'[t] # Absent, txs'[t] >= minimum, NEW e, e = txs'[t]
        PROVE  Reported(e, t)'
    <3>1. txs'[t] = txs[t]
      BY <1>2, <2>1
    <3> QED
      BY <1>6, <1>7, <2>1, <3>1 DEF DataInv, AllReported
  <2>2. ASSUME NEW c \in Coin, coins'[c] # Absent, NEW m, m = coins'[c].mint,
               NEW e, e = coins'[c].spent, NEW u, u = coins'[c].by
        PROVE  /\ m >= minimum => Reported(m, Minter[c])'
               /\ e >= minimum => c \in Spends[u] /\ Reported(e, u)'
    <3>1. coins'[c] = coins[c]
      BY <1>2, <2>2
    <3> QED
      BY <1>6, <1>7, <2>2, <3>1 DEF DataInv, AllReported
  <2> QED
    BY <2>1, <2>2 DEF AllReported, Reported
<1>9. \A m \in Nat : Sure(m)' => m < f
  BY <1>1, <1>4 DEF Sure
<1>10. ASSUME NEW a \in Processed', Sure(Height[a])'
       PROVE  a \in Block /\ a \in Processed /\ Height[a] < f /\ Sure(Height[a])
  <2>1. a \in Block /\ Stored(a)' /\ blocks'[a].processed
    BY DEF Processed
  <2>2. a \in Processed /\ Height[a] \in Nat
    BY <1>5, <1>6, <2>1 DEF Processed
  <2>3. Height[a] < f
    <3> DEFINE m == Height[a]
    <3>1. Sure(m)'
      BY <1>10
    <3> HIDE DEF m
    <3>2. m < f
      BY <1>9, <2>2, <3>1 DEF m
    <3> QED
      BY <3>2 DEF m
  <2>4. \A b \in Partly : Height[b] < f => b \in Partly'
    BY <1>1, <1>5, <1>6 DEF Partly
  <2>5. \A b \in Partly : Height[b] > Height[a]
    <3> SUFFICES ASSUME NEW b \in Partly PROVE Height[b] > Height[a]
      OBVIOUS
    <3>1. b \in Block
      BY DEF Partly
    <3>2. CASE Height[b] < f
      BY <1>10, <2>4, <3>2 DEF Sure
    <3> QED
      BY <1>1, <1>6, <2>1, <2>3, <3>1, <3>2
  <2>6. \A l \in Cut : l > Height[a]
    BY <1>4, <1>10 DEF Sure
  <2> QED
    BY <2>1, <2>2, <2>3, <2>5, <2>6 DEF Sure
<1>11. AllThere'
  <2> SUFFICES ASSUME NEW a \in Processed', Sure(Height[a])'
               PROVE  Minted(a)' /\ Spent(a)' /\ Written(a)'
    BY DEF AllThere
  <2>1. a \in Block /\ a \in Processed /\ Height[a] < f /\ Sure(Height[a])
    BY <1>10
  <2>2. Minted(a) /\ Spent(a) /\ Written(a)
    BY <2>1 DEF DataInv, AllThere
  <2>3. \A x \in Branch[a] : Minted(x) /\ Height[x] <= Height[a]
    <3> SUFFICES ASSUME NEW x \in Branch[a] PROVE Minted(x) /\ Height[x] <= Height[a]
      OBVIOUS
    <3>1. x \in Block /\ Height[x] <= Height[a]
      BY <2>1, BranchHeights
    <3>2. x \in Processed
      <4>1. PICK tip \in Block \cup {Root} : Processed = Branch[tip]
        BY DEF TreeInv, Chained
      <4> QED
        BY <2>1, <4>1, BranchLinear
    <3>3. Sure(Height[x])
      <4>1. Height[x] \in Nat /\ Height[a] \in Nat
        BY <1>6, <2>1, <3>1
      <4>2. \A l \in Cut : l \in Int
        BY CutTypes
      <4>3. \A b \in Partly : Height[b] \in Int
        BY <1>6 DEF Partly
      <4> QED
        BY <2>1, <3>1, <4>1, <4>2, <4>3 DEF Sure
    <3> QED
      BY <3>1, <3>2, <3>3 DEF DataInv, AllThere
  <2>4. ASSUME NEW c \in Coin, NEW x \in Branch[a], Minter[c] \in TxsOf[x]
        PROVE  coins[c] # Absent /\ coins'[c] = coins[c]
    <3>1. /\ coins[c] # Absent
          /\ coins[c].mint = Height[x] \/ coins[c].mint < minimum
          /\ Height[x] <= Height[a]
      BY <2>3, <2>4 DEF Minted
    <3>2. x \in Block
      BY <2>1, BranchClosed
    <3>3. ~(coins[c].mint >= f)
      BY <1>1, <1>6, <2>1, <3>1, <3>2 DEF minimum
    <3> QED
      BY <1>2, <3>1, <3>3
  <2>5. a \in Branch[a]
    BY <2>1, BranchSteps
  <2>6. Minted(a)'
    BY <1>4, <2>2, <2>4, <2>5 DEF Minted
  <2>7. Spent(a)'
    <3> SUFFICES ASSUME NEW t \in TxsOf[a], NEW c \in Spends[t]
                 PROVE  coins'[c] # Absent /\ coins'[c].spent = Height[a] /\ coins'[c].by = t
      BY DEF Spent
    <3>1. c \in Coin
      BY <2>1, TxAssumption
    <3>2. PICK x \in Branch[a] : Minter[c] \in TxsOf[x]
      BY <2>1, ChainAssumption DEF ConfirmedBy
    <3>3. coins[c] # Absent /\ coins'[c] = coins[c]
      BY <2>4, <3>1, <3>2
    <3> QED
      BY <2>2, <3>3 DEF Spent
  <2>8. Written(a)'
    <3> SUFFICES ASSUME NEW t \in TxsOf[a], txs[t] = Height[a] PROVE txs'[t] = Height[a]
      BY <1>4, <2>2 DEF Written
    <3>1. t \in Tx /\ ~(txs[t] >= f)
      BY <1>1, <1>6, <2>1, TxAssumption
    <3> QED
      BY <1>2, <3>1
  <2> QED
    BY <2>6, <2>7, <2>8
<1>12. Deleted'
  <2>1. job[Sync].wipe \subseteq {"blocks", "txs", "coins"}
    BY <1>1 DEF Job
  <2>2. "blocks" \notin job'[Sync].wipe => \A b \in Block : Stored(b)' => blocks'[b].height < f
    <3>1. CASE k = "blocks"
      BY <1>1, <1>5, <1>6, <3>1 DEF PeerInv
    <3>2. CASE k # "blocks"
      BY <1>1, <1>3, <1>5, <3>2 DEF DataInv, Deleted
    <3> QED
      BY <3>1, <3>2
  <2>3. "txs" \notin job'[Sync].wipe => \A t \in Tx : txs'[t] = Absent \/ txs'[t] < f
    <3>1. CASE k = "txs"
      BY <1>1, <1>2, <1>6, <3>1
    <3>2. CASE k # "txs"
      BY <1>1, <1>2, <1>3, <3>2 DEF DataInv, Deleted
    <3> QED
      BY <3>1, <3>2
  <2>4. "coins" \notin job'[Sync].wipe => \A c \in Coin : coins'[c] = Absent \/ coins'[c].mint < f
    <3>1. CASE k = "coins"
      BY <1>1, <1>2, <1>6, <3>1
    <3>2. CASE k # "coins"
      BY <1>1, <1>2, <1>3, <3>2 DEF DataInv, Deleted
    <3> QED
      BY <3>1, <3>2
  <2>5. job'[Sync].at = "unspend" => job'[Sync].wipe = {}
    BY <1>3
  <2> QED
    BY <1>3, <2>2, <2>3, <2>4, <2>5 DEF Deleted
<1>13. Progress'
  BY <1>3 DEF Progress, ImportStage
<1> QED
  BY <1>8, <1>11, <1>12, <1>13 DEF DataInv

\* At the end of a reorg nothing is left from its height on.
LEMMA DataUnspend ==
    ASSUME IInv, PeerInv, TreeInv, DataInv, Unspend, NEW f, f = job[Sync].height
    PROVE  DataInv'
<1>1. /\ job \in [Proc -> Job] /\ job[Sync] \in Job /\ Sync \in Proc
      /\ job[Sync].at = "unspend" /\ f \in Nat
  BY SyncProc DEF IInv, TypeOK, Unspend, At, SyncOK
<1>2. /\ UNCHANGED <<blocks, txs, raced>>
      /\ \A c \in Coin :
            coins'[c] = IF coins[c] # Absent /\ coins[c].spent >= f
                        THEN UnspentDoc(coins[c]) ELSE coins[c]
  BY DEF Unspend, UnspentDoc
<1>3. Cut' = {h \in torn : h < f} /\ Cut = torn \cup {f} /\ torn \subseteq Nat
  BY TreeUnspend DEF IInv, TypeOK
<1>4. /\ \A b \in Block : Stored(b) => Height[b] < f
      /\ \A t \in Tx : txs[t] = Absent \/ txs[t] < f
      /\ \A c \in Coin : coins[c] = Absent \/ coins[c].mint < f
  BY <1>1 DEF DataInv, Deleted, PeerInv
<1>5. job'[Sync].at = "start"
  BY <1>1 DEF Unspend, NoJob
<1>6. /\ Processed' = Processed /\ Partly' = Partly
      /\ \A b \in Block : Stored(b)' <=> Stored(b)
  <2>1. \A b \in Block : Stored(b)' <=> Stored(b)
    BY <1>2 DEF Stored
  <2> QED
    BY <1>2, <2>1 DEF Processed, Partly
<1>7. /\ \A t \in Tx : txs[t] # Absent => txs[t] \in Int
      /\ \A c \in Coin : coins[c] # Absent =>
            coins[c] \in CoinDoc /\ coins[c].mint \in Int /\ coins[c].spent \in Int
      /\ \A b \in Block : Height[b] \in Nat
  BY HeightTypes DEF IInv, TypeOK, CoinDoc, Heights
<1>8. \A d \in CoinDoc : /\ UnspentDoc(d) \in CoinDoc /\ UnspentDoc(d).mint = d.mint
                         /\ UnspentDoc(d).spent = unspent
  BY UnspentType DEF UnspentDoc, CoinDoc
<1>9. ASSUME NEW h \in Int, NEW t, h < f, Reported(h, t) PROVE Reported(h, t)'
  <2>1. \A l \in Cut : l <= h => l \in Cut'
    BY <1>1, <1>3, <1>9
  <2> QED
    BY <1>6, <1>9, <2>1 DEF Reported
<1>10. AllReported'
  <2>1. ASSUME NEW t \in Tx, txs[t] # Absent, txs[t] >= minimum, NEW e, e = txs[t]
        PROVE  Reported(e, t)'
    BY <1>4, <1>7, <1>9, <2>1 DEF DataInv, AllReported
  <2>2. ASSUME NEW c \in Coin, coins'[c] # Absent, NEW m, m = coins'[c].mint,
               NEW e, e = coins'[c].spent, NEW u, u = coins'[c].by
        PROVE  /\ m >= minimum => Reported(m, Minter[c])'
               /\ e >= minimum => c \in Spends[u] /\ Reported(e, u)'
    <3>1. coins[c] # Absent
      BY <1>2, <2>2
    <3>2. m = coins[c].mint
      BY <1>2, <1>7, <1>8, <2>2, <3>1
    <3>3. m >= minimum => Reported(m, Minter[c])'
      BY <1>4, <1>7, <1>9, <3>1, <3>2 DEF DataInv, AllReported
    <3>4. CASE coins[c].spent >= f
      <4>1. e = unspent
        BY <1>2, <1>7, <1>8, <2>2, <3>1, <3>4
      <4> QED
        BY <3>3, <4>1 DEF unspent, minimum
    <3>5. CASE ~(coins[c].spent >= f)
      <4>1. coins'[c] = coins[c]
        BY <1>2, <3>5
      <4> QED
        BY <1>1, <1>7, <1>9, <2>2, <3>1, <3>3, <3>5, <4>1 DEF DataInv, AllReported
    <3> QED
      BY <3>4, <3>5
  <2> QED
    BY <1>2, <2>1, <2>2 DEF AllReported, Reported
<1>11. AllThere'
  <2> SUFFICES ASSUME NEW a \in Processed, Sure(Height[a])'
               PROVE  Minted(a)' /\ Spent(a)' /\ Written(a)'
    BY <1>6 DEF AllThere
  <2>1. a \in Block /\ Height[a] < f /\ Height[a] \in Nat
    BY <1>4, <1>7 DEF Processed
  <2>2. Sure(Height[a])
    BY <1>1, <1>3, <1>6, <2>1 DEF Sure
  <2>3. Minted(a) /\ Spent(a) /\ Written(a)
    BY <2>2 DEF DataInv, AllThere
  <2>4. \A c \in Coin : coins[c] # Absent => coins'[c] # Absent /\ coins'[c].mint = coins[c].mint
    BY <1>2, <1>7, <1>8, DocTypes
  <2>5. Minted(a)'
    BY <1>2, <2>3, <2>4 DEF Minted
  <2>6. Spent(a)'
    <3> SUFFICES ASSUME NEW t \in TxsOf[a], NEW c \in Spends[t]
                 PROVE  coins'[c] # Absent /\ coins'[c].spent = Height[a] /\ coins'[c].by = t
      BY DEF Spent
    <3>1. c \in Coin /\ coins[c] # Absent /\ coins[c].spent = Height[a] /\ coins[c].by = t
      BY <2>1, <2>3, TxAssumption DEF Spent
    <3>2. ~(coins[c].spent >= f)
      BY <1>1, <2>1, <3>1
    <3> QED
      BY <1>2, <3>1, <3>2
  <2>7. Written(a)'
    BY <1>2, <2>3 DEF Written
  <2> QED
    BY <2>5, <2>6, <2>7
<1>12. Deleted' /\ Progress'
  BY <1>5 DEF Deleted, Progress, ImportStage
<1> QED
  BY <1>10, <1>11, <1>12 DEF DataInv

\* A new block is not sure, so nothing has to be there.
LEMMA DataWrite ==
    ASSUME IInv, PeerInv, TreeInv, DataInv, WriteBlock \/ LinkBlock
    PROVE  DataInv'
<1>1. /\ Cut' = Cut /\ Processed' = Processed /\ Partly \subseteq Partly'
      /\ \A b \in Block : Stored(b) => Stored(b)'
      /\ job'[Sync].at \in {"link", "mint"}
  BY TreeWrite, TreeLink
<1>2. UNCHANGED <<coins, txs, raced>>
  BY DEF WriteBlock, LinkBlock
<1>3. \A h, t : Reported(h, t) => Reported(h, t)'
  BY <1>1, ReportedKept
<1>4. AllReported'
  BY <1>2, <1>3 DEF DataInv, AllReported
<1>5. \A m : Sure(m)' => Sure(m)
  BY <1>1 DEF Sure
<1>6. \A a \in Block : /\ Minted(a)' <=> Minted(a)
                       /\ Spent(a)' <=> Spent(a)
                       /\ Written(a)' <=> Written(a)
  BY <1>2 DEF Minted, Spent, Written
<1>7. AllThere'
  BY <1>1, <1>5, <1>6 DEF DataInv, AllThere, Processed
<1>8. Deleted' /\ Progress'
  BY <1>1 DEF Deleted, Progress, ImportStage
<1> QED
  BY <1>4, <1>7, <1>8 DEF DataInv

\* A block is processed when all of it is there.
LEMMA DataProcessed ==
    ASSUME IInv, PeerInv, TreeInv, DataInv, BlockProcessed, NEW b, b = Current
    PROVE  DataInv'
<1>1. /\ job[Sync].at = "processed" /\ job[Sync].at \in Importing /\ Sync \in Proc
  BY SyncProc DEF BlockProcessed, At, Importing
<1>2. b \in Block /\ Processed = Branch[Parent[b]] /\ Parent[b] \in Block \cup {Root}
  BY <1>1, CurrentBlock, HeightTypes DEF TreeInv, OnTop
<1>3. /\ Cut' = torn /\ Cut = torn
      /\ Processed' = Processed \cup {b}
      /\ Partly' = Partly \ {b}
      /\ \A x \in Block : Stored(x)' <=> Stored(x)
      /\ job'[Sync].at \in {"headers", "block"}
  BY TreeProcessed
<1>4. UNCHANGED <<coins, txs, raced>> /\ UNCHANGED torn
  BY DEF BlockProcessed
<1>5. \A h, t : Reported(h, t) => Reported(h, t)'
  BY <1>3, ReportedKept
<1>6. AllReported'
  BY <1>4, <1>5 DEF DataInv, AllReported
<1>7. \A a \in Block : /\ Minted(a)' <=> Minted(a)
                       /\ Spent(a)' <=> Spent(a)
                       /\ Written(a)' <=> Written(a)
  BY <1>4 DEF Minted, Spent, Written
<1>8. \A a \in Processed : a \in Block /\ Height[a] < Height[b]
  <2> SUFFICES ASSUME NEW a \in Processed PROVE a \in Block /\ Height[a] < Height[b]
    OBVIOUS
  <2>1. Parent[b] \in Block /\ a \in Branch[Parent[b]]
    BY <1>2, BranchSteps
  <2> QED
    BY <1>2, <2>1, BranchHeights, HeightTypes
<1>9. ASSUME NEW a \in Processed, Sure(Height[a])' PROVE Sure(Height[a])
  <2>1. Height[b] > Height[a]
    BY <1>2, <1>8, HeightTypes
  <2> QED
    BY <1>3, <1>9, <2>1 DEF Sure
<1>10. ASSUME Sure(Height[b])' PROVE torn = {} /\ Partly = {b}
  <2>1. ASSUME NEW a \in Processed \cup {Root} PROVE Height[a] + 1 <= Height[b]
    <3>1. CASE a \in Processed
      BY <1>2, <1>8, <3>1, HeightTypes
    <3>2. CASE a = Root
      BY <1>2, <3>2, HeightTypes, TreeAssumption
    <3> QED
      BY <3>1, <3>2
  <2>2. torn = {}
    <3> SUFFICES ASSUME NEW k \in torn PROVE FALSE
      OBVIOUS
    <3>1. PICK l \in torn : \E a \in Processed \cup {Root} : l <= Height[a] + 1
      BY <1>3 DEF TreeInv, CutLow
    <3>2. PICK a \in Processed \cup {Root} : l <= Height[a] + 1
      BY <3>1
    <3>3. l > Height[b]
      BY <1>3, <1>10, <3>1 DEF Sure
    <3>4. l \in Nat /\ Height[b] \in Nat /\ Height[a] \in Nat
      BY <1>2, <1>8, HeightTypes DEF IInv, TypeOK
    <3> QED
      BY <2>1, <3>2, <3>3, <3>4
  <2>3. ASSUME NEW x \in Partly PROVE x = b
    <3>1. x \in Block /\ Parent[x] \in Processed \cup {Root}
      BY DEF TreeInv, Chained, Partly
    <3>2. Height[x] <= Height[b]
      BY <2>1, <3>1, HeightTypes
    <3>3. x # b => Height[x] > Height[b]
      BY <1>3, <1>10 DEF Sure
    <3> QED
      BY <1>2, <3>1, <3>2, <3>3, HeightTypes
  <2>4. b \in Partly
    <3>1. Stored(b)
      BY <1>1, CurrentIsLowest DEF IInv, SyncOK
    <3>2. b \notin Processed
      BY <1>2, <1>8, HeightTypes
    <3> QED
      BY <1>2, <3>1, <3>2 DEF Partly, Processed
  <2> QED
    BY <2>2, <2>3, <2>4
<1>11. AllThere'
  <2> SUFFICES ASSUME NEW a \in Processed \cup {b}, Sure(Height[a])'
               PROVE  Minted(a)' /\ Spent(a)' /\ Written(a)'
    BY <1>3 DEF AllThere
  <2>1. CASE a \in Processed
    BY <1>7, <1>8, <1>9, <2>1 DEF DataInv, AllThere
  <2>2. CASE a = b
    <3>1. torn = {} /\ Partly = {b}
      BY <1>10, <2>2
    <3>2. Minted(b) /\ Spent(b) /\ Written(b)
      BY <1>1, <3>1 DEF DataInv, Progress
    <3> QED
      BY <1>2, <1>7, <2>2, <3>2
  <2> QED
    BY <2>1, <2>2
<1>12. Deleted' /\ Progress'
  BY <1>3 DEF Deleted, Progress, ImportStage
<1> QED
  BY <1>6, <1>11, <1>12 DEF DataInv

-----------------------------------------------------------------------------
\* Every step

\* The steps that leave the documents alone.
LEMMA DataRest ==
    ASSUME IInv, TreeInv, DataInv,
           \/ SyncBlocks \/ GetHeaders \/ FinishSync \/ PeerBlock
           \/ \E b \in Block : PeerAdvances(b)
           \/ \E p \in Relay, t \in Tx : PeerTx(p, t)
           \/ Crash \/ SyncFails \/ \E p \in Proc : ImportFails(p)
    PROVE  TreeInv' /\ DataInv'
<1>1. /\ TreeInv' /\ Cut' = Cut /\ UNCHANGED <<db, raced>>
      /\ \/ job'[Sync] = job[Sync]
         \/ job'[Sync].at \in {"start", "headers", "block", "finish", "idle", "hung"}
  BY TreeRest
<1>2. \/ job'[Sync] = job[Sync]
      \/ job'[Sync].at \notin {"wipe", "unspend", "processed"} \cup (ImportStage \ {"mint"})
  BY <1>1 DEF ImportStage
<1> QED
  BY <1>1, <1>2, DataFree

\* Every step keeps the two.
LEMMA IndexStep ==
    ASSUME IInv, PeerInv, TreeInv, DataInv, [Next]_vars
    PROVE  TreeInv' /\ DataInv'
<1>1. ASSUME NEW p \in Proc, BatchImport(p) PROVE TreeInv' /\ DataInv'
  <2>1. TreeInv'
    BY <1>1, TreeImport
  <2>2. ASSUME NEW b, b = Current, NEW h, h = job[p].height, NEW T, T = job[p].txs
        PROVE  DataInv'
    BY <1>1, <2>2, DataImport
  <2> QED
    BY <2>1, <2>2
<1>2. CASE HandleReorg
  BY <1>2, TreeReorg, DataReorg
<1>3. CASE Wipe
  <2>1. ASSUME NEW f, f = job[Sync].height PROVE DataInv'
    BY <1>3, <2>1, DataWipe
  <2> QED
    BY <1>3, <2>1, TreeWipe
<1>4. CASE Unspend
  <2>1. ASSUME NEW f, f = job[Sync].height PROVE DataInv'
    BY <1>4, <2>1, DataUnspend
  <2> QED
    BY <1>4, <2>1, TreeUnspend
<1>5. CASE WriteBlock \/ LinkBlock
  BY <1>5, TreeWrite, TreeLink, DataWrite
<1>6. CASE BlockProcessed
  <2>1. ASSUME NEW b, b = Current PROVE DataInv'
    BY <1>6, <2>1, DataProcessed
  <2> QED
    BY <1>6, <2>1, TreeProcessed
<1>7. CASE UNCHANGED vars
  <2>1. /\ UNCHANGED blocks /\ UNCHANGED torn /\ UNCHANGED job
        /\ UNCHANGED <<db, raced>>
    BY <1>7 DEF vars, db
  <2>2. \A p \in Relay : job'[p].at \in ImportStage => job'[p].height = pending
    BY <2>1 DEF TreeInv, RelaysPending
  <2>3. TreeInv' /\ Cut' = Cut
    BY <2>1, <2>2, TreeKept
  <2> QED
    BY <2>1, <2>3, DataFree
<1>8. CASE \/ SyncBlocks \/ GetHeaders \/ FinishSync \/ PeerBlock
           \/ \E b \in Block : PeerAdvances(b)
           \/ \E p \in Relay, t \in Tx : PeerTx(p, t)
           \/ Crash \/ SyncFails \/ \E p \in Proc : ImportFails(p)
  BY <1>8, DataRest
<1> QED
  BY <1>1, <1>2, <1>3, <1>4, <1>5, <1>6, <1>7, <1>8 DEF Next, SyncStep

\* The index is a chain with its data at every moment: the blocks that are
\* processed are a chain, all that is confirmed comes from a stored block or a
\* reorg cut short, and below the imports and the reorgs that have not ended
\* every block is there in full (models/block.ts, processBlock and handleReorg,
\* models/transaction.ts, batchImport).
THEOREM IndexInvariant == Spec => [](TreeInv /\ DataInv)
<1>1. Init => TreeInv /\ DataInv
  <2> SUFFICES ASSUME Init PROVE TreeInv /\ DataInv
    OBVIOUS
  <2>1. /\ job[Sync].at = "start"
        /\ \A p \in Relay : job[p].at = "idle"
    BY SyncProc, ProcessAssumption DEF Init, NoJob, Proc
  <2>2. /\ "start" \notin Importing \cup {"write", "wipe", "unspend", "processed"}
        /\ "start" \notin ImportStage /\ "idle" \notin ImportStage
    BY DEF Importing, ImportStage
  <2>3. \A b \in Block : ~Stored(b)
    BY DEF Init, Stored
  <2>4. Processed = {} /\ Branch[Root] = {}
    BY <2>3, BranchSteps DEF Processed
  <2>5. TreeInv
    <3>1. Chained
      BY <2>3, <2>4 DEF Chained
    <3>2. OnTop
      BY <2>1, <2>2 DEF OnTop
    <3>3. CutLow
      BY <2>1, <2>2 DEF CutLow, Init
    <3>4. RelaysPending
      BY <2>1, <2>2 DEF RelaysPending
    <3> QED
      BY <3>1, <3>2, <3>3, <3>4 DEF TreeInv
  <2>6. AllReported
    BY DEF Init, AllReported
  <2>7. AllThere
    BY <2>4 DEF AllThere
  <2>8. Deleted /\ Progress
    BY <2>1, <2>2 DEF Deleted, Progress
  <2> QED
    BY <2>5, <2>6, <2>7, <2>8 DEF DataInv
<1>2. IInv /\ PeerInv /\ (TreeInv /\ DataInv) /\ [Next]_vars => (TreeInv /\ DataInv)'
  BY IndexStep
<1> QED
  BY <1>1, <1>2, InductiveInvariant, PeerInvariant, PTL DEF Spec

-----------------------------------------------------------------------------
\* What the index says between two blocks

\* The heights of a chain at which it has one of s.
LEMMA ConfirmedOnce ==
    ASSUME NEW p, NEW s, NEW a \in Branch[p], TxsOf[a] \cap s # {},
           \A d \in Branch[p] : TxsOf[d] \cap s # {} => d = a
    PROVE  ConfirmedAt(p, s) = {Height[a]}
BY DEF ConfirmedAt

\* A chain that has none of s.
LEMMA ConfirmedNever ==
    ASSUME NEW p, NEW s, \A d \in Branch[p] : TxsOf[d] \cap s = {}
    PROVE  ConfirmedAt(p, s) = {}
BY DEF ConfirmedAt

\* A height is confirmed or an indicator.
LEMMA ConfirmedHeights ==
    /\ \A h \in Nat : Confirmed(h) = {h} /\ h \in Heights /\ h # Absent
    /\ \A h \in Heights : ~(h >= minimum) => Confirmed(h) = {}
    /\ \A h \in Heights : h >= minimum <=> h \in Nat
BY AbsentAssumption DEF Confirmed, Heights, minimum

\* When nothing is going on, each block of the chain is there in full, and what
\* is confirmed is in one of them.
LEMMA Settled ==
    ASSUME TreeInv, DataInv, BetweenBlocks, torn = {},
           \A b \in Block : Stored(b) => b \in Processed
    PROVE  /\ \A a \in Processed : Minted(a) /\ Spent(a) /\ Written(a)
           /\ \A h, t : Reported(h, t) =>
                 \E a \in Processed : Height[a] = h /\ t \in TxsOf[a]
<1>1. Cut = {}
  BY CutStages DEF BetweenBlocks
<1>2. Partly = {}
  BY DEF Partly, Processed
<1>3. \A m : Sure(m)
  BY <1>1, <1>2 DEF Sure
<1> QED
  BY <1>1, <1>3 DEF DataInv, AllThere, Reported

\* Between two blocks the index is that of the chain of its tip, whatever
\* reorgs, crashes, failures and relayed transactions came before, unless a
\* reorg was cut short or a block is half imported; a transaction that was
\* confirmed while it was pruned may be marked (models/block.ts,
\* models/transaction.ts).
THEOREM IndexIsExact == Spec => []IndexExact
<1>1. IInv /\ PeerInv /\ TreeInv /\ DataInv => IndexExact
  <2> SUFFICES ASSUME IInv, PeerInv, TreeInv, DataInv, BetweenBlocks, torn = {},
                      \A b \in Block : Stored(b) => b \in Processed
               PROVE  \E b \in Block \cup {Root} :
                         BlocksExact(b) /\ TxsExact(b) /\ CoinsExact(b)
    BY DEF IndexExact
  <2>1. PICK p \in Block \cup {Root} : Processed = Branch[p]
    BY DEF TreeInv, Chained
  <2>2. /\ \A a \in Branch[p] : Minted(a) /\ Spent(a) /\ Written(a)
        /\ \A h, t : Reported(h, t) =>
              \E a \in Branch[p] : Height[a] = h /\ t \in TxsOf[a]
    BY <2>1, Settled
  <2>3. \A a \in Branch[p] : /\ a \in Block /\ Height[a] \in Nat
                             /\ TxsOf[a] \in SUBSET Tx
    BY BranchClosed, HeightTypes, TxAssumption
  <2>4. \A a \in Branch[p], d \in Branch[p] : \A t : t \in TxsOf[a] /\ t \in TxsOf[d] => d = a
    BY OnceInChain
  <2>5. BlocksExact(p)
    BY <2>1 DEF BlocksExact, TreeInv, Chained, PeerInv, Processed
  <2>6. TxsExact(p)
    <3> SUFFICES ASSUME NEW t \in Tx, t \notin raced
                 PROVE  ConfirmedAt(p, {t})
                           = IF txs[t] = Absent THEN {} ELSE Confirmed(txs[t])
      BY DEF TxsExact
    <3>1. CASE \E a \in Branch[p] : t \in TxsOf[a]
      <4>1. PICK a \in Branch[p] : t \in TxsOf[a]
        BY <3>1
      <4>2. ConfirmedAt(p, {t}) = {Height[a]}
        <5>1. TxsOf[a] \cap {t} # {}
          BY <4>1
        <5>2. \A d \in Branch[p] : TxsOf[d] \cap {t} # {} => d = a
          BY <2>4, <4>1
        <5> QED
          BY <5>1, <5>2, ConfirmedOnce
      <4>3. txs[t] = Height[a]
        BY <2>2, <4>1 DEF Written
      <4> QED
        BY <2>3, <4>2, <4>3, ConfirmedHeights
    <3>2. CASE \A a \in Branch[p] : t \notin TxsOf[a]
      <4>1. ConfirmedAt(p, {t}) = {}
        BY <3>2, ConfirmedNever
      <4>2. txs[t] # Absent => txs[t] \in Heights /\ ~(txs[t] >= minimum)
        BY <2>2, <3>2 DEF DataInv, AllReported, IInv, TypeOK
      <4> QED
        BY <4>1, <4>2, ConfirmedHeights
    <3> QED
      BY <3>1, <3>2
  <2>7. CoinsExact(p)
    <3> SUFFICES ASSUME NEW c \in Coin
                 PROVE  IF coins[c] = Absent THEN ConfirmedAt(p, {Minter[c]}) = {}
                        ELSE /\ Minter[c] \notin raced =>
                                   Confirmed(coins[c].mint) = ConfirmedAt(p, {Minter[c]})
                             /\ Confirmed(coins[c].spent)
                                   = ConfirmedAt(p, {t \in Tx : c \in Spends[t]})
                             /\ coins[c].spent >= minimum => coins[c].by \in ConfirmedBy(p)
      BY DEF CoinsExact
    <3>1. CASE coins[c] = Absent
      <4>1. \A a \in Branch[p] : Minter[c] \notin TxsOf[a]
        BY <2>2, <3>1 DEF Minted
      <4>2. \A a \in Branch[p] : TxsOf[a] \cap {Minter[c]} = {}
        BY <4>1
      <4> QED
        BY <3>1, <4>2, ConfirmedNever
    <3>2. CASE coins[c] # Absent
      <4>1. coins[c].mint \in Heights /\ coins[c].spent \in Heights
        BY <3>2 DEF IInv, TypeOK, CoinDoc
      <4>2. ASSUME Minter[c] \notin raced
            PROVE  Confirmed(coins[c].mint) = ConfirmedAt(p, {Minter[c]})
        <5>1. CASE \E a \in Branch[p] : Minter[c] \in TxsOf[a]
          <6>1. PICK a \in Branch[p] : Minter[c] \in TxsOf[a]
            BY <5>1
          <6>2. ConfirmedAt(p, {Minter[c]}) = {Height[a]}
            <7>1. TxsOf[a] \cap {Minter[c]} # {}
              BY <6>1
            <7>2. \A d \in Branch[p] : TxsOf[d] \cap {Minter[c]} # {} => d = a
              BY <2>4, <6>1
            <7> QED
              BY <7>1, <7>2, ConfirmedOnce
          <6>3. coins[c].mint = Height[a]
            BY <2>2, <4>2, <6>1 DEF Minted
          <6> QED
            BY <2>3, <6>2, <6>3, ConfirmedHeights
        <5>2. CASE \A a \in Branch[p] : Minter[c] \notin TxsOf[a]
          <6>1. \A a \in Branch[p] : TxsOf[a] \cap {Minter[c]} = {}
            BY <5>2
          <6>2. ConfirmedAt(p, {Minter[c]}) = {}
            BY <6>1, ConfirmedNever
          <6>3. ~(coins[c].mint >= minimum)
            BY <2>2, <3>2, <5>2 DEF DataInv, AllReported
          <6> QED
            BY <4>1, <6>2, <6>3, ConfirmedHeights
        <5> QED
          BY <5>1, <5>2
      <4> DEFINE spenders == {t \in Tx : c \in Spends[t]}
      <4>3. /\ Confirmed(coins[c].spent) = ConfirmedAt(p, spenders)
            /\ coins[c].spent >= minimum => coins[c].by \in ConfirmedBy(p)
        <5>1. CASE \E a \in Branch[p] : TxsOf[a] \cap spenders # {}
          <6>1. PICK a \in Branch[p] : TxsOf[a] \cap spenders # {}
            BY <5>1
          <6>2. PICK t \in TxsOf[a] : t \in Tx /\ c \in Spends[t]
            BY <6>1
          <6>3. coins[c].spent = Height[a] /\ coins[c].by = t
            BY <2>2, <6>2 DEF Spent
          <6>4. ASSUME NEW d \in Branch[p], TxsOf[d] \cap spenders # {} PROVE d = a
            <7>1. PICK u \in TxsOf[d] : c \in Spends[u]
              BY <6>4
            <7>2. u = t
              BY <6>2, <7>1, OneSpender
            <7> QED
              BY <2>4, <6>2, <7>1, <7>2
          <6>5. ConfirmedAt(p, spenders) = {Height[a]}
            BY <6>1, <6>4, ConfirmedOnce
          <6>6. t \in ConfirmedBy(p)
            BY <6>2 DEF ConfirmedBy
          <6> QED
            BY <2>3, <6>3, <6>5, <6>6, ConfirmedHeights
        <5>2. CASE \A a \in Branch[p] : TxsOf[a] \cap spenders = {}
          <6>1. ConfirmedAt(p, spenders) = {}
            BY <5>2, ConfirmedNever
          <6>2. ~(coins[c].spent >= minimum)
            <7> SUFFICES ASSUME coins[c].spent >= minimum PROVE FALSE
              OBVIOUS
            <7>1. c \in Spends[coins[c].by] /\ Reported(coins[c].spent, coins[c].by)
              BY <3>2 DEF DataInv, AllReported
            <7>2. PICK a \in Branch[p] : coins[c].by \in TxsOf[a]
              BY <2>2, <7>1
            <7> QED
              BY <2>3, <5>2, <7>1, <7>2
          <6> QED
            BY <4>1, <6>1, <6>2, ConfirmedHeights
        <5> QED
          BY <5>1, <5>2
      <4> QED
        BY <3>2, <4>2, <4>3
    <3> QED
      BY <3>1, <3>2
  <2> QED
    BY <2>5, <2>6, <2>7
<1> QED
  BY <1>1, InductiveInvariant, PeerInvariant, IndexInvariant, PTL
=============================================================================
