--------------------------- MODULE EvmChain_proofs ---------------------------
(***************************************************************************)
(* Proofs about EvmChain, for any tree of blocks with at most two of one   *)
(* height, any transactions and any number of faults: its types; that a    *)
(* sync that ends without an error has come to the last block of the node; *)
(* that a block is imported only onto one chain; that blocks and           *)
(* transactions go together; and that only the sync of blocks changes a    *)
(* transaction that a block has confirmed.                                 *)
(***************************************************************************)
EXTENDS EvmChain, WellFoundedInduction, TLAPS

-----------------------------------------------------------------------------
\* The inductive invariant

\* The stages with a block of the node at hand.
AtBlock == {"check", "reorg", "wipe", "import", "link", "mark"}

IInv == TypeOK /\ (job.at \in AtBlock => job.block \in Block)

-----------------------------------------------------------------------------
\* Jobs

\* The first block of the node, and the tips of the database, are blocks.
LEMMA TipTypes ==
    ASSUME NEW tip \in Tips
    PROVE  /\ tip \subseteq Block
           /\ tip # {} => Height[CHOOSE b \in tip : TRUE] \in Nat
<1>1. tip \subseteq Block
  BY DEF Tips, LocalTip, Processed
<1>2. tip # {} => (CHOOSE b \in tip : TRUE) \in tip
  OBVIOUS
<1> QED
  BY <1>1, <1>2, TreeAssumption

\* The next stage of a job (syncBlocks goes on, addBlock to its import).
LEMMA ToTypes ==
    ASSUME job \in Job, NEW stage \in Stage, To(stage)
    PROVE  job' \in Job
<1> DEFINE left == IF stage # "import" THEN {}
                   ELSE IF job.check THEN {"prune", "txs"} ELSE {"txs"}
<1>1. left \in SUBSET {"blocks", "txs", "prune"}
  OBVIOUS
<1>2. job' = [job EXCEPT !.at = stage, !.left = left]
  BY DEF To
<1> HIDE DEF left
<1> QED
  BY <1>1, <1>2 DEF Job

\* One of two things done at the same time.
LEMMA DoneTypes ==
    ASSUME job \in Job, NEW what, Done(what)
    PROVE  job' \in Job
<1>1. CASE job.left = {what}
  <2>1. job.then \in Stage
    BY DEF Job
  <2> QED
    BY <1>1, <2>1, ToTypes DEF Done
<1>2. CASE job.left # {what}
  BY <1>2 DEF Done, Job
<1> QED
  BY <1>1, <1>2

\* What handleReorg decides, for a block of the node.
LEMMA HandleReorgTypes ==
    ASSUME job \in Job, NEW b \in Block, NEW otherwise \in Stage, HandleReorg(b, otherwise)
    PROVE  job' \in Job
<1>1. PICK tip \in Tips :
        IF InOrder(b, tip)
        THEN To(otherwise)
        ELSE job' = [job EXCEPT
                !.at = "wipe", !.from = WipeFrom(b, tip), !.left = {"blocks", "txs"},
                !.then = IF Parent[b] \in Stored THEN otherwise ELSE "reject"]
  BY DEF HandleReorg
<1>2. CASE InOrder(b, tip)
  BY <1>1, <1>2, ToTypes
<1>3. CASE ~InOrder(b, tip)
  <2>1. tip # {}
    BY <1>3 DEF InOrder
  <2>2. WipeFrom(b, tip) \in Nat
    BY <1>1, <2>1, TipTypes, TreeAssumption DEF WipeFrom, Stored
  <2> DEFINE then == IF Parent[b] \in Stored THEN otherwise ELSE "reject"
  <2>3. then \in Stage /\ "wipe" \in Stage
    BY DEF Stage
  <2>4. {"blocks", "txs"} \in SUBSET {"blocks", "txs", "prune"}
    OBVIOUS
  <2>5. job' = [job EXCEPT !.at = "wipe", !.from = WipeFrom(b, tip),
                           !.left = {"blocks", "txs"}, !.then = then]
    BY <1>1, <1>3
  <2> HIDE DEF then
  <2> QED
    <3>1. [job EXCEPT !.at = "wipe"] \in Job
      BY <2>3 DEF Job
    <3> DEFINE j1 == [job EXCEPT !.at = "wipe"]
               j2 == [j1 EXCEPT !.from = WipeFrom(b, tip)]
               j3 == [j2 EXCEPT !.left = {"blocks", "txs"}]
    <3> HIDE DEF j1
    <3>2. j2 \in Job
      BY <2>2, <3>1 DEF Job, j1
    <3> HIDE DEF j2
    <3>3. j3 \in Job
      BY <2>4, <3>2 DEF Job
    <3> HIDE DEF j3
    <3>4. [j3 EXCEPT !.then = then] \in Job
      BY <2>3, <3>3 DEF Job
    <3>5. job' = [j3 EXCEPT !.then = then]
      BY <2>5, Zenon DEF j1, j2, j3
    <3> QED
      BY <3>4, <3>5
<1> QED
  BY <1>2, <1>3

\* A job that starts over, as the loop does (syncBlocks).
LEMMA NewJobTypes ==
    ASSUME NEW at \in Stage, NEW check \in BOOLEAN, NEW height \in Nat, NEW best \in Nat,
           job' = [NoJob EXCEPT !.at = at, !.check = check, !.height = height,
                                !.best = best]
    PROVE  job' \in Job
<1>1. job' = [at |-> at, check |-> check, height |-> height, best |-> best,
              block |-> Root, from |-> 0, left |-> {}, then |-> "idle"]
  BY Zenon DEF NoJob
<1>2. "idle" \in Stage /\ {} \in SUBSET {"blocks", "txs", "prune"} /\ 0 \in Nat
      /\ Root \in Block \cup {Root}
  BY DEF Stage
<1> QED
  BY <1>1, <1>2 DEF Job

\* A job that waits, and one that is about to start.
LEMMA IdleTypes ==
    NoJob \in Job /\ [NoJob EXCEPT !.at = "start"] \in Job
BY DEF NoJob, Job, Stage

-----------------------------------------------------------------------------
\* Types

\* What a step of the sync does to a job that is not at rest.
LEMMA JobStep ==
    ASSUME IInv, Step
    PROVE  job' \in Job
<1> USE DEF IInv, TypeOK
<1>1. job \in Job /\ job.check \in BOOLEAN /\ job.best \in Nat /\ job.height \in Nat
      /\ Height[peer] \in Nat /\ complete \in BOOLEAN
  <2>1. job.check \in BOOLEAN
    BY DEF Job
  <2>2. job.best \in Nat /\ job.height \in Nat
    BY DEF Job
  <2>3. Height[peer] \in Nat
    BY TreeAssumption
  <2> QED
    BY <2>1, <2>2, <2>3
<1>2. Stage = {"idle", "start", "fetch", "check", "reorg", "wipe", "reject",
               "import", "link", "mark", "ask", "finish"}
  BY DEF Stage
<1>3. CASE Start
  <2>1. PICK tip \in Tips :
          LET h == IF tip = {} THEN 0 ELSE Height[CHOOSE b \in tip : TRUE] IN
          job' = [NoJob EXCEPT !.at = IF h <= Height[peer] THEN "fetch" ELSE "finish",
                               !.check = complete, !.height = h, !.best = Height[peer]]
    BY <1>3 DEF Start
  <2> DEFINE h == IF tip = {} THEN 0 ELSE Height[CHOOSE b \in tip : TRUE]
             at == IF h <= Height[peer] THEN "fetch" ELSE "finish"
  <2>2. h \in Nat /\ at \in Stage
    BY <1>2, TipTypes
  <2>3. job' = [NoJob EXCEPT !.at = at, !.check = complete, !.height = h,
                             !.best = Height[peer]]
    BY <2>1
  <2> HIDE DEF h, at
  <2> QED
    BY <1>1, <2>2, <2>3, NewJobTypes
<1>4. CASE Fetch
  <2>1. PICK b \in Block :
          job' = [job EXCEPT !.block = b,
                             !.at = IF job.check THEN "check" ELSE "import",
                             !.left = IF job.check THEN {} ELSE {"txs"}]
    BY <1>4 DEF Fetch
  <2> QED
    BY <1>1, <1>2, <2>1 DEF Job
<1>5. CASE Check
  <2>1. PICK lead \in Leads :
          IF Mismatched(lead) = {}
          THEN To("reorg")
          ELSE \E b \in Block :
                   IsLast(b, Mismatched(lead), lead) /\ HandleReorg(b, "reorg")
    BY <1>5 DEF Check
  <2>2. CASE Mismatched(lead) = {}
    BY <1>1, <1>2, <2>1, <2>2, ToTypes
  <2>3. CASE Mismatched(lead) # {}
    <3>1. PICK b \in Block : HandleReorg(b, "reorg")
      BY <2>1, <2>3
    <3> QED
      BY <1>1, <1>2, <3>1, HandleReorgTypes
  <2> QED
    BY <2>2, <2>3
<1>6. CASE Reorg
  BY <1>1, <1>2, <1>6, HandleReorgTypes DEF Reorg, IInv, AtBlock
<1>7. CASE WipeBlocks \/ WipeTxs
  BY <1>1, <1>7, DoneTypes DEF WipeBlocks, WipeTxs
<1>8. CASE Reject \/ Finish
  BY <1>8, IdleTypes DEF Reject, Finish
<1>9. CASE ImportTxs \/ PruneMempool
  BY <1>1, <1>9 DEF ImportTxs, PruneMempool, Job
<1>10. CASE Write \/ Link \/ Mark
  BY <1>1, <1>2, <1>10, ToTypes DEF Write, Link, Mark
<1>11. CASE Advance
  <2>1. PICK b \in LocalTip :
          Loop(Height[b] + 1, IF job.height = job.best THEN Height[peer] ELSE job.best)
    BY <1>11 DEF Advance
  <2> DEFINE best == IF job.height = job.best THEN Height[peer] ELSE job.best
             at == IF Height[b] + 1 <= best THEN "fetch" ELSE "finish"
  <2>2. best \in Nat /\ Height[b] + 1 \in Nat /\ at \in Stage
    BY <1>1, <1>2, TreeAssumption DEF LocalTip, Processed
  <2>3. job' = [NoJob EXCEPT !.at = at, !.check = job.check,
                             !.height = Height[b] + 1, !.best = best]
    BY <2>1 DEF Loop
  <2> HIDE DEF best, at
  <2> QED
    BY <1>1, <2>2, <2>3, NewJobTypes
<1> QED
  BY <1>3, <1>4, <1>5, <1>6, <1>7, <1>8, <1>9, <1>10, <1>11 DEF Step

\* A job keeps the block at hand until it is imported.
LEMMA BlockStep ==
    ASSUME IInv, [Next]_vars
    PROVE  job'.at \in AtBlock => job'.block \in Block
<1>1. job \in Job
  BY DEF IInv, TypeOK
<1>2. \A stage : To(stage) => job'.block = job.block
  BY <1>1 DEF To, Job
<1>3. \A b, otherwise : HandleReorg(b, otherwise) => job'.block = job.block
  BY <1>1, <1>2 DEF HandleReorg, Job
<1>4. \A what : Done(what) => job'.block = job.block
  BY <1>1, <1>2 DEF Done, Job
<1>5. CASE Fetch
  BY <1>1, <1>5 DEF Fetch, Job
<1>6. CASE Check
  BY <1>2, <1>3, <1>6 DEF Check, IInv, AtBlock
<1>7. CASE Reorg
  BY <1>3, <1>7 DEF Reorg, IInv, AtBlock
<1>8. CASE WipeBlocks \/ WipeTxs
  BY <1>4, <1>8 DEF WipeBlocks, WipeTxs, IInv, AtBlock
<1>9. CASE ImportTxs \/ PruneMempool
  BY <1>1, <1>9 DEF ImportTxs, PruneMempool, Job, IInv, AtBlock
<1>10. CASE Write \/ Link \/ Mark
  BY <1>2, <1>10 DEF Write, Link, Mark, IInv, AtBlock
<1>11. CASE Start \/ Advance
  <2>1. job'.at \in {"fetch", "finish"}
    BY <1>11 DEF Start, Advance, Loop, NoJob
  <2> QED
    BY <2>1 DEF AtBlock
<1>12. CASE Reject \/ Finish \/ Fault \/ Crash
  BY <1>12 DEF Reject, Finish, Fault, Crash, NoJob, AtBlock
<1>13. CASE Announce \/ Retry
  BY <1>13 DEF Announce, Retry, Begin, NoJob, IInv, AtBlock
<1>14. CASE NewBlock \/ UNCHANGED vars
  BY <1>14 DEF NewBlock, vars, IInv
<1>15. ASSUME NEW t \in Tx, Receive(t) \/ RelayPrune(t) \/ RelayInsert(t)
       PROVE  job' = job
  BY <1>15 DEF Receive, RelayPrune, RelayInsert
<1> QED
  BY <1>5, <1>6, <1>7, <1>8, <1>9, <1>10, <1>11, <1>12, <1>13, <1>14, <1>15
     DEF Next, Step, IInv

\* Every step keeps the types.
LEMMA TypesStep ==
    ASSUME IInv, [Next]_vars
    PROVE  TypeOK'
<1>0. TypeOK
  BY DEF IInv
<1> USE <1>0
<1>1. CASE Step
  <2>1. job' \in Job
    BY <1>1, JobStep
  <2>2. job.block \in Block \cup {Root} /\ job.height \in Nat
    BY DEF TypeOK, Job
  <2>3. state' \in [Block -> {"none", "written", "processed"}]
    BY <1>1 DEF TypeOK, Step, Start, Fetch, Check, Reorg, WipeBlocks, WipeTxs, Reject,
                ImportTxs, PruneMempool, Write, Link, Mark, Advance, Finish, blocks
  <2>4. next' \in [Block -> Block \cup {Root}]
    BY <1>1, <2>2 DEF TypeOK, Step, Start, Fetch, Check, Reorg, WipeBlocks, WipeTxs, Reject,
                ImportTxs, PruneMempool, Write, Link, Mark, Advance, Finish, blocks, Stored
  <2>5. txs' \in [Tx -> Nat \cup {pending, conflicting, Absent}]
    BY <1>1, <2>2 DEF TypeOK, Step, Start, Fetch, Check, Reorg, WipeBlocks, WipeTxs, Reject,
                ImportTxs, PruneMempool, Write, Link, Mark, Advance, Finish
  <2>6. /\ complete' \in BOOLEAN /\ retry' \in BOOLEAN
        /\ fetched' \in Block \cup {Root}
        /\ UNCHANGED <<relay, seen, peer, news, faults, torn>>
    BY <1>1 DEF TypeOK, Step, Start, Fetch, Check, Reorg, WipeBlocks, WipeTxs, Reject,
                ImportTxs, PruneMempool, Write, Link, Mark, Advance, Finish, mempool, net
  <2> QED
    BY <2>1, <2>3, <2>4, <2>5, <2>6 DEF TypeOK
<1>2. CASE Announce \/ Retry
  <2>1. job' \in Job
    BY <1>2, IdleTypes DEF Announce, Retry, Begin, TypeOK
  <2> QED
    BY <1>2, <2>1 DEF Announce, Retry, TypeOK, blocks, mempool, net
<1>3. CASE NewBlock
  BY <1>3 DEF NewBlock, TypeOK, blocks, mempool
<1>4. CASE Fault \/ Crash
  <2>1. job' \in Job
    BY <1>4, IdleTypes DEF Fault, Crash
  <2>2. faults' \in 0 .. MaxFaults /\ torn' \subseteq {"wipe", "import"}
    BY <1>4, FaultAssumption DEF Fault, Crash, Torn, TypeOK
  <2>3. /\ relay' \in [Tx -> SUBSET {"prune", "insert"}] /\ seen' \subseteq Tx
        /\ UNCHANGED <<state, next, txs, complete, peer, fetched>>
    BY <1>4 DEF Fault, Crash, TypeOK, blocks, mempool, net
  <2>4. retry' \in BOOLEAN /\ news' \in BOOLEAN
    <3>1. CASE Fault
      BY <3>1, Zenon DEF Fault, TypeOK, net
    <3>2. CASE Crash
      BY <3>2 DEF Crash
    <3> QED
      BY <1>4, <3>1, <3>2
  <2> QED
    BY <2>1, <2>2, <2>3, <2>4 DEF TypeOK
<1>5. ASSUME NEW t \in Tx, Receive(t) \/ RelayPrune(t) \/ RelayInsert(t)
      PROVE  TypeOK'
  <2>1. relay' \in [Tx -> SUBSET {"prune", "insert"}] /\ seen' \subseteq Tx
    BY <1>5 DEF Receive, RelayPrune, RelayInsert, TypeOK
  <2>2. txs' \in [Tx -> Nat \cup {pending, conflicting, Absent}]
    BY <1>5 DEF Receive, RelayPrune, RelayInsert, TypeOK
  <2>3. UNCHANGED <<blocks, complete, job, retry, net, fetched, faults, torn>>
    BY <1>5 DEF Receive, RelayPrune, RelayInsert
  <2> QED
    BY <2>1, <2>2, <2>3 DEF TypeOK, blocks, net
<1>6. CASE UNCHANGED vars
  BY <1>6 DEF vars, TypeOK, blocks, mempool, net
<1> QED
  BY <1>1, <1>2, <1>3, <1>4, <1>5, <1>6 DEF Next

-----------------------------------------------------------------------------
\* Jobs and heights

\* The natural numbers below a bound have a greatest one.
LEMMA Greatest ==
    ASSUME NEW S \in SUBSET Nat, S # {}, NEW n \in Nat, \A s \in S : s <= n
    PROVE  \E m \in S : \A s \in S : s <= m
<1> DEFINE T == {k \in Nat : \E s \in S : k = n - s}
<1>1. PICK s0 : s0 \in S
  OBVIOUS
<1>2. n - s0 \in T
  <2>1. s0 \in Nat /\ s0 <= n
    BY <1>1
  <2>2. n - s0 \in Nat
    BY <2>1
  <2> QED
    BY <1>1, <2>2
<1>3. T \subseteq Nat /\ T # {}
  BY <1>2
<1>4. PICK x \in T : \A y \in T : ~(<<y, x>> \in OpToRel(<, Nat))
  <2> HIDE DEF T
  <2> QED
    BY <1>3, NatLessThanWellFounded, WFMin
<1>5. \A y \in T : ~(y < x)
  BY <1>3, <1>4 DEF OpToRel
<1>6. PICK m \in S : x = n - m
  OBVIOUS
<1>7. ASSUME NEW s \in S PROVE s <= m
  <2>1. s \in Nat /\ m \in Nat /\ s <= n /\ m <= n
    OBVIOUS
  <2>2. n - s \in T
    <3>1. n - s \in Nat
      BY <2>1
    <3> QED
      BY <3>1
  <2>3. ~(n - s < x)
    BY <1>5, <2>2
  <2> QED
    BY <1>6, <2>1, <2>3
<1> QED
  BY <1>7

-----------------------------------------------------------------------------
\* Where the sync is

\* A block of the chain of p is lower than p.
LEMMA BranchHeights ==
    ASSUME NEW p \in Block, NEW b \in Branch[p]
    PROVE  /\ b \in Block
           /\ Height[b] <= Height[p]
           /\ Height[b] = Height[p] => b = p
<1> DEFINE S == {p} \cup {c \in Block : Height[c] < Height[p]}
<1>1. b \in Block /\ \A T \in SUBSET Block :
         p \in T /\ (\A c \in T : Parent[c] \in T \cup {Root}) => b \in T
  BY DEF Branch
<1>2. ASSUME NEW c \in S PROVE Parent[c] \in S \cup {Root}
  <2>1. c \in Block /\ Height[c] <= Height[p] /\ Height[p] \in Int /\ Height[c] \in Int
    BY TreeAssumption
  <2>2. CASE Parent[c] # Root
    <3>1. Parent[c] \in Block /\ Height[Parent[c]] \in Int /\ Height[c] = Height[Parent[c]] + 1
      BY <2>1, <2>2, TreeAssumption
    <3> QED
      BY <2>1, <3>1
  <2> QED
    BY <2>2
<1>3. b \in S
  <2>1. S \in SUBSET Block /\ p \in S
    OBVIOUS
  <2> HIDE DEF S
  <2> QED
    BY <1>1, <1>2, <2>1
<1> QED
  BY <1>1, <1>3, TreeAssumption

\* A step to another stage changes nothing else of the job.
LEMMA ToFields ==
    ASSUME job \in Job, NEW stage, To(stage)
    PROVE  /\ job'.at = stage /\ job'.check = job.check /\ job'.height = job.height
           /\ job'.best = job.best /\ job'.block = job.block
           /\ job'.from = job.from /\ job'.then = job.then
           /\ job'.left = IF stage # "import" THEN {}
                          ELSE IF job.check THEN {"prune", "txs"} ELSE {"txs"}
<1> DEFINE left == IF stage # "import" THEN {}
                   ELSE IF job.check THEN {"prune", "txs"} ELSE {"txs"}
<1>1. job' = [job EXCEPT !.at = stage, !.left = left]
  BY DEF To
<1> HIDE DEF left
<1>2. /\ job'.at = stage /\ job'.check = job.check /\ job'.height = job.height
      /\ job'.best = job.best /\ job'.block = job.block
      /\ job'.from = job.from /\ job'.then = job.then /\ job'.left = left
  BY <1>1 DEF Job
<1> QED
  BY <1>2 DEF left

SameBlock == /\ job'.check = job.check /\ job'.height = job.height
             /\ job'.best = job.best /\ job'.block = job.block

\* A deletion goes on with the other collection, or with the next stage.
LEMMA DoneFields ==
    ASSUME job \in Job, NEW what, Done(what)
    PROVE  /\ SameBlock
           /\ \/ job.left = {what} /\ To(job.then) /\ job'.at = job.then
              \/ /\ job.left # {what} /\ job'.at = job.at /\ job'.from = job.from
                 /\ job'.then = job.then /\ job'.left = job.left \ {what}
<1>1. CASE job.left = {what}
  BY <1>1, ToFields DEF Done, SameBlock
<1>2. CASE job.left # {what}
  BY <1>2 DEF Done, SameBlock, Job
<1> QED
  BY <1>1, <1>2

\* What handleReorg decides: nothing, or to delete.
LEMMA ReorgFields ==
    ASSUME job \in Job, NEW b, NEW otherwise, HandleReorg(b, otherwise)
    PROVE  /\ SameBlock
           /\ \E tip \in Tips :
                \/ InOrder(b, tip) /\ To(otherwise) /\ job'.at = otherwise
                \/ /\ ~InOrder(b, tip) /\ job'.at = "wipe" /\ job'.from = WipeFrom(b, tip)
                   /\ job'.left = {"blocks", "txs"}
                   /\ job'.then = IF Parent[b] \in Stored THEN otherwise ELSE "reject"
<1>1. PICK tip \in Tips :
        IF InOrder(b, tip)
        THEN To(otherwise)
        ELSE job' = [job EXCEPT
                !.at = "wipe", !.from = WipeFrom(b, tip), !.left = {"blocks", "txs"},
                !.then = IF Parent[b] \in Stored THEN otherwise ELSE "reject"]
  BY DEF HandleReorg
<1>2. CASE InOrder(b, tip)
  BY <1>1, <1>2, ToFields DEF SameBlock
<1>3. CASE ~InOrder(b, tip)
  <2> DEFINE from == WipeFrom(b, tip)
             then == IF Parent[b] \in Stored THEN otherwise ELSE "reject"
  <2>1. job' = [job EXCEPT !.at = "wipe", !.from = from, !.left = {"blocks", "txs"},
                           !.then = then]
    BY <1>1, <1>3
  <2> HIDE DEF from, then
  <2>2. /\ SameBlock
        /\ job'.at = "wipe" /\ job'.from = from /\ job'.left = {"blocks", "txs"}
        /\ job'.then = then
    BY <2>1 DEF SameBlock, Job
  <2> QED
    BY <1>3, <2>2 DEF from, then
<1> QED
  BY <1>2, <1>3

\* A job that starts, and one that is at rest.
LEMMA NoJobFields ==
    /\ NoJob.at = "idle"
    /\ [NoJob EXCEPT !.at = "start"].at = "start"
    /\ \A at, check, height, best :
          LET j == [NoJob EXCEPT !.at = at, !.check = check, !.height = height, !.best = best]
          IN  /\ j.at = at /\ j.check = check /\ j.height = height /\ j.best = best
BY DEF NoJob

\* The block at hand is the one of its height on the chain of the node.
AtHeight ==
    /\ job.at \in AtBlock \cup {"ask"} =>
          /\ fetched \in Block /\ job.block \in Branch[fetched]
          /\ Height[job.block] = job.height /\ job.height <= job.best
    /\ job.at = "fetch" => job.height <= job.best

\* What a deletion leads to, and what it has done.
Deleting ==
    /\ job.at = "wipe" =>
          /\ job.then \in {"reorg", "import", "reject"}
          /\ job.then # "reject" => job.check
          /\ "blocks" \notin job.left => \A b \in Processed : Height[b] < job.from
    /\ job.at \in {"check", "reorg"} => job.check

\* The kinds of steps of a job.
JobMove ==
    \/ job' = job /\ fetched' = fetched
    \/ job'.at \in {"idle", "start"}
    \/ job'.at = "finish"
    \/ job'.at = "fetch" /\ job'.height <= job'.best
    \/ /\ fetched' = peer /\ job'.block \in Branch[peer] /\ Height[job'.block] = job'.height
       /\ job.at = "fetch" /\ job'.height = job.height /\ job'.best = job.best
       /\ job'.check = job.check /\ job'.at = IF job.check THEN "check" ELSE "import"
    \/ /\ SameBlock /\ job.at \in AtBlock /\ fetched' = fetched
       /\ job'.at \in AtBlock \cup {"reject", "ask"}

\* Every step moves the job in one of these ways.
LEMMA JobMoves ==
    ASSUME IInv, Deleting, [Next]_vars
    PROVE  JobMove
<1>1. job \in Job
  BY DEF IInv, TypeOK
<1>2. CASE Start \/ Advance
  <2>1. \E height, best, check :
           job' = [NoJob EXCEPT !.at = IF height <= best THEN "fetch" ELSE "finish",
                                !.check = check, !.height = height, !.best = best]
    <3>1. CASE Start
      BY <3>1, Zenon DEF Start
    <3>2. CASE Advance
      BY <3>2, Zenon DEF Advance, Loop
    <3> QED
      BY <1>2, <3>1, <3>2
  <2> QED
    BY <2>1, NoJobFields DEF JobMove
<1>3. CASE Fetch
  BY <1>1, <1>3 DEF Fetch, JobMove, Job
<1>4. CASE Check
  <2>1. fetched' = fetched /\ job.at = "check"
        /\ (To("reorg") \/ \E b \in Block : HandleReorg(b, "reorg"))
    BY <1>4 DEF Check
  <2>2. SameBlock /\ job'.at \in {"reorg", "wipe"}
    BY <1>1, <2>1, ToFields, ReorgFields DEF SameBlock
  <2> QED
    BY <2>1, <2>2 DEF JobMove, AtBlock
<1>5. CASE Reorg
  <2>1. SameBlock /\ job'.at \in {"import", "wipe"}
    BY <1>1, <1>5, ReorgFields DEF Reorg
  <2> QED
    BY <1>5, <2>1 DEF Reorg, JobMove, AtBlock
<1>6. CASE WipeBlocks \/ WipeTxs
  <2>1. SameBlock /\ job'.at \in {job.then, "wipe"} /\ job.at = "wipe" /\ fetched' = fetched
    BY <1>1, <1>6, DoneFields DEF WipeBlocks, WipeTxs
  <2> QED
    BY <2>1 DEF Deleting, JobMove, AtBlock
<1>7. CASE ImportTxs \/ PruneMempool
  BY <1>1, <1>7 DEF ImportTxs, PruneMempool, JobMove, SameBlock, AtBlock, Job
<1>8. CASE Write \/ Link \/ Mark
  <2>1. job'.at \in {"link", "mark", "ask"} /\ SameBlock
    BY <1>1, <1>8, ToFields DEF Write, Link, Mark, SameBlock
  <2> QED
    BY <1>8, <2>1 DEF Write, Link, Mark, JobMove, AtBlock
<1>9. CASE Reject \/ Finish \/ Fault \/ Crash
  BY <1>9, NoJobFields DEF Reject, Finish, Fault, Crash, JobMove
<1>10. CASE Announce \/ Retry
  BY <1>10, NoJobFields DEF Announce, Retry, Begin, JobMove
<1>11. CASE NewBlock \/ UNCHANGED vars
  BY <1>11 DEF NewBlock, vars, JobMove
<1>12. ASSUME NEW t \in Tx, Receive(t) \/ RelayPrune(t) \/ RelayInsert(t)
       PROVE  JobMove
  BY <1>12 DEF Receive, RelayPrune, RelayInsert, JobMove
<1> QED
  BY <1>2, <1>3, <1>4, <1>5, <1>6, <1>7, <1>8, <1>9, <1>10, <1>11, <1>12 DEF Next, Step

\* Every step keeps the block at hand at its height.
LEMMA AtHeightStep ==
    ASSUME IInv, Deleting, AtHeight, [Next]_vars
    PROVE  AtHeight'
<1>1. JobMove
  BY JobMoves
<1>2. peer \in Block /\ job \in Job
  BY DEF IInv, TypeOK
<1>3. CASE job' = job /\ fetched' = fetched
  BY <1>3 DEF AtHeight
<1>4. CASE /\ fetched' = peer /\ job'.block \in Branch[peer] /\ Height[job'.block] = job'.height
           /\ job.at = "fetch" /\ job'.height = job.height /\ job'.best = job.best
           /\ job'.at = IF job.check THEN "check" ELSE "import"
  BY <1>2, <1>4 DEF AtHeight, AtBlock
<1>5. CASE /\ SameBlock /\ job.at \in AtBlock /\ fetched' = fetched
           /\ job'.at \in AtBlock \cup {"reject", "ask"}
  BY <1>5 DEF AtHeight, AtBlock, SameBlock
<1>6. CASE \/ job'.at \in {"idle", "start", "finish"}
           \/ job'.at = "fetch" /\ job'.height <= job'.best
  BY <1>6 DEF AtHeight, AtBlock
<1> QED
  BY <1>1, <1>3, <1>4, <1>5, <1>6 DEF JobMove

\* The steps that leave the blocks as they are.
Quiet == UNCHANGED <<state, next>>

\* A step that does not reorganise leaves the stages of a reorg alone.
LEMMA DeletingStep ==
    ASSUME IInv, Deleting, [Next]_vars
    PROVE  Deleting'
<1>1. job \in Job
  BY DEF IInv, TypeOK
<1> DEFINE Elsewhere == job'.at \notin {"wipe", "check", "reorg"}
<1>2. ASSUME Elsewhere PROVE Deleting'
  BY <1>2 DEF Deleting
<1>3. ASSUME job' = job, state' = state PROVE Deleting'
  BY <1>3 DEF Deleting, Processed
<1>4. CASE Start \/ Advance
  <2>1. \E height, best, check :
           job' = [NoJob EXCEPT !.at = IF height <= best THEN "fetch" ELSE "finish",
                                !.check = check, !.height = height, !.best = best]
    <3>1. CASE Start
      BY <3>1, Zenon DEF Start
    <3>2. CASE Advance
      BY <3>2, Zenon DEF Advance, Loop
    <3> QED
      BY <1>4, <3>1, <3>2
  <2>2. Elsewhere
    BY <2>1, NoJobFields
  <2> QED
    BY <1>2, <2>2
<1>5. CASE Fetch
  <2>1. job'.check = job.check /\ job'.at = IF job.check THEN "check" ELSE "import"
    BY <1>1, <1>5 DEF Fetch, Job
  <2> QED
    BY <2>1 DEF Deleting
<1>6. ASSUME NEW b, NEW otherwise \in {"reorg", "import"}, HandleReorg(b, otherwise), job.check
      PROVE  Deleting'
  <2>1. /\ job'.check = job.check
        /\ \/ job'.at = otherwise
           \/ /\ job'.at = "wipe" /\ job'.left = {"blocks", "txs"}
              /\ job'.then \in {otherwise, "reject"}
    BY <1>1, <1>6, ReorgFields DEF SameBlock
  <2> QED
    BY <1>6, <2>1 DEF Deleting
<1>7. CASE Check
  <2>1. job.check
    BY <1>7 DEF Check, Deleting
  <2>2. CASE To("reorg")
    <3>1. job'.at = "reorg" /\ job'.check
      BY <1>1, <2>1, <2>2, ToFields
    <3> QED
      BY <3>1 DEF Deleting
  <2>3. CASE \E b \in Block : HandleReorg(b, "reorg")
    BY <1>6, <2>1, <2>3
  <2> QED
    BY <1>7, <2>2, <2>3 DEF Check
<1>8. CASE Reorg
  <2>1. job.check
    BY <1>8 DEF Reorg, Deleting
  <2> QED
    BY <1>6, <1>8, <2>1 DEF Reorg
<1>9. CASE WipeBlocks \/ WipeTxs
  <2>1. /\ job.then \in {"reorg", "import", "reject"} /\ (job.then # "reject" => job.check)
        /\ SameBlock
    BY <1>1, <1>9, DoneFields DEF WipeBlocks, WipeTxs, Deleting
  <2>2. CASE job'.at = job.then
    BY <2>1, <2>2 DEF Deleting, SameBlock
  <2>3. CASE job'.at # job.then /\ WipeBlocks
    <3>1. /\ job'.at = "wipe" /\ job'.from = job.from /\ job'.then = job.then
      BY <1>1, <2>3, DoneFields DEF WipeBlocks
    <3>2. \A b \in Processed' : Height[b] < job.from
      <4> SUFFICES ASSUME NEW b \in Block, state'[b] = "processed" PROVE Height[b] < job.from
        BY DEF Processed
      <4>1. ~(Height[b] >= job.from)
        BY <2>3 DEF WipeBlocks
      <4>2. Height[b] \in Int /\ job.from \in Int
        BY <1>1, TreeAssumption DEF Job
      <4> QED
        BY <4>1, <4>2
    <3> QED
      BY <2>1, <3>1, <3>2 DEF Deleting, SameBlock
  <2>4. CASE job'.at # job.then /\ WipeTxs
    <3>1. /\ job.at = "wipe" /\ job'.at = "wipe" /\ job'.from = job.from
          /\ job'.then = job.then /\ job'.left = job.left \ {"txs"}
      BY <1>1, <2>4, DoneFields DEF WipeTxs
    <3>2. Processed' = Processed
      BY <2>4 DEF WipeTxs, blocks, Processed
    <3>3. "blocks" \notin job'.left => \A b \in Processed' : Height[b] < job'.from
      BY <3>1, <3>2 DEF Deleting
    <3> QED
      BY <2>1, <3>1, <3>3 DEF Deleting, SameBlock
  <2> QED
    BY <1>9, <2>2, <2>3, <2>4
<1>10. CASE ImportTxs \/ PruneMempool
  BY <1>1, <1>2, <1>10 DEF ImportTxs, PruneMempool, Job
<1>11. CASE Write \/ Link \/ Mark
  BY <1>1, <1>2, <1>11, ToFields DEF Write, Link, Mark
<1>12. CASE Reject \/ Finish \/ Fault \/ Crash
  BY <1>2, <1>12, NoJobFields DEF Reject, Finish, Fault, Crash
<1>13. CASE Announce \/ Retry
  BY <1>2, <1>3, <1>13, NoJobFields DEF Announce, Retry, Begin, blocks
<1>14. CASE NewBlock \/ UNCHANGED vars
  BY <1>3, <1>14 DEF NewBlock, vars, blocks
<1>15. ASSUME NEW t \in Tx, Receive(t) \/ RelayPrune(t) \/ RelayInsert(t)
       PROVE  Deleting'
  BY <1>3, <1>15 DEF Receive, RelayPrune, RelayInsert, blocks
<1> QED
  BY <1>4, <1>5, <1>7, <1>8, <1>9, <1>10, <1>11, <1>12, <1>13, <1>14, <1>15 DEF Next, Step

-----------------------------------------------------------------------------
\* The sync comes to the last block of the node

\* A node that was asked long ago has a heavier chain by now.
Heavier == fetched \in Block => /\ Height[fetched] <= Height[peer]
                                /\ fetched = peer \/ Weight[fetched] < Weight[peer]

\* No block is stored that is higher than the node.
NoneHigher == \A b \in Stored : Height[b] <= Height[peer]

\* The sync goes upwards: nothing above the block at hand is processed.
Upwards ==
    /\ job.at \in AtBlock \cup {"fetch", "ask"} => \A b \in Processed : Height[b] <= job.height
    /\ job.at = "ask" => job.block \in Processed

\* A sync that ends without an error has the last block.
Arrived ==
    job.at = "finish" \/ (job.at = "idle" /\ ~retry) => (peer = fetched => peer \in LocalTip)

\* The node only goes to a heavier chain that is not shorter.
LEMMA HeavierStep ==
    ASSUME IInv, Heavier, NoneHigher, [Next]_vars
    PROVE  Heavier' /\ (Quiet => NoneHigher')
<1>1. peer \in Block /\ fetched \in Block \cup {Root}
  BY DEF IInv, TypeOK
<1>2. \A b \in Block : Height[b] \in Int /\ Weight[b] \in Int
  BY TreeAssumption
<1>3. CASE NewBlock
  <2>1. peer' \in Block /\ Weight[peer'] > Weight[peer] /\ Height[peer'] >= Height[peer]
        /\ fetched' = fetched
    BY <1>3 DEF NewBlock
  <2>2. Heavier'
    BY <1>1, <1>2, <2>1 DEF Heavier
  <2>3. Stored' = Stored /\ Stored \subseteq Block
    BY <1>3 DEF NewBlock, blocks, Stored
  <2>4. NoneHigher'
    BY <1>1, <1>2, <2>1, <2>3 DEF NoneHigher
  <2> QED
    BY <2>2, <2>4
<1>4. peer' = peer \/ NewBlock
  BY DEF Next, Step, Start, Fetch, Check, Reorg, WipeBlocks, WipeTxs, Reject,
         ImportTxs, PruneMempool, Write, Link, Mark, Advance, Finish, Announce, Retry,
         Fault, Crash, Receive, RelayPrune, RelayInsert, net, vars
<1>5. fetched' = fetched \/ fetched' = peer
  BY DEF Next, Step, Start, Fetch, Check, Reorg, WipeBlocks, WipeTxs, Reject,
         ImportTxs, PruneMempool, Write, Link, Mark, Advance, Finish, Announce, Retry,
         Fault, Crash, Receive, RelayPrune, RelayInsert, NewBlock, net, vars
<1>6. CASE peer' = peer
  BY <1>1, <1>2, <1>5, <1>6 DEF Heavier, Quiet, NoneHigher, Stored
<1> QED
  BY <1>3, <1>4, <1>6

\* Who writes the blocks.
LEMMA BlockMoves ==
    ASSUME [Next]_vars
    PROVE  Quiet \/ WipeBlocks \/ Write \/ Link \/ Mark
BY DEF Next, Step, Start, Fetch, Check, Reorg, WipeTxs, Reject,
       ImportTxs, PruneMempool, Advance, Finish, Announce, Retry,
       Fault, Crash, Receive, RelayPrune, RelayInsert, NewBlock, blocks, vars, Quiet

\* What the writers of the blocks do.
LEMMA BlockWrites ==
    ASSUME IInv, WipeBlocks \/ Write \/ Link \/ Mark
    PROVE  /\ peer' = peer /\ fetched' = fetched
           /\ Stored' \subseteq Stored \cup {job.block} /\ Stored \subseteq Block
           /\ (WipeBlocks \/ Write \/ Link => Processed' \subseteq Processed)
           /\ Mark => Processed' = Processed \cup {job.block}
           /\ (Write \/ Link \/ Mark) => job.block \in Block /\ job.at \in AtBlock
<1>1. job \in Job /\ state \in [Block -> {"none", "written", "processed"}]
  BY DEF IInv, TypeOK
<1>2. CASE WipeBlocks
  <2>1. ~(Write \/ Link \/ Mark)
    BY <1>2 DEF WipeBlocks, Write, Link, Mark
  <2>2. state' = [b \in Block |-> IF Height[b] >= job.from THEN "none" ELSE state[b]]
        /\ peer' = peer /\ fetched' = fetched
    BY <1>2 DEF WipeBlocks, net
  <2>3. Stored' \subseteq Stored /\ Processed' \subseteq Processed /\ Stored \subseteq Block
    BY <2>2 DEF Stored, Processed
  <2> QED
    BY <2>1, <2>2, <2>3
<1>3. CASE Write
  <2>1. ~Mark /\ job.at \in AtBlock /\ peer' = peer /\ fetched' = fetched
    BY <1>3 DEF Mark, Write, net, AtBlock
  <2>2. job.block \in Block
    BY <2>1 DEF IInv
  <2>3. state' = [state EXCEPT ![job.block] = "written"]
    BY <1>3 DEF Write
  <2> QED
    BY <1>1, <2>1, <2>2, <2>3 DEF Stored, Processed
<1>4. CASE Link
  <2>1. ~Mark /\ job.at \in AtBlock /\ peer' = peer /\ fetched' = fetched /\ state' = state
    BY <1>4 DEF Mark, Link, net, AtBlock
  <2>2. job.block \in Block
    BY <2>1 DEF IInv
  <2> QED
    BY <2>1, <2>2 DEF Stored, Processed
<1>5. CASE Mark
  <2>1. ~(WipeBlocks \/ Write \/ Link) /\ job.at \in AtBlock /\ peer' = peer /\ fetched' = fetched
    BY <1>5 DEF WipeBlocks, Mark, Write, Link, net, AtBlock
  <2>2. job.block \in Block
    BY <2>1 DEF IInv
  <2>3. state' = [state EXCEPT ![job.block] = "processed"]
    BY <1>5 DEF Mark
  <2> QED
    BY <1>1, <2>1, <2>2, <2>3 DEF Stored, Processed
<1> QED
  BY <1>2, <1>3, <1>4, <1>5

\* What is written comes from the node, so that it is no higher.
LEMMA NoneHigherStep ==
    ASSUME IInv, AtHeight, Heavier, NoneHigher, [Next]_vars
    PROVE  NoneHigher'
<1>1. CASE Quiet
  BY <1>1, HeavierStep
<1>2. CASE WipeBlocks \/ Write \/ Link \/ Mark
  <2>1. peer' = peer /\ Stored' \subseteq Stored \cup {job.block}
    BY <1>2, BlockWrites
  <2>2. CASE Stored' \subseteq Stored
    BY <2>1, <2>2 DEF NoneHigher
  <2>3. CASE Write \/ Link \/ Mark
    <3>1. fetched \in Block /\ job.block \in Branch[fetched]
      BY <1>2, <2>3, BlockWrites DEF AtHeight
    <3>2. Height[job.block] <= Height[fetched] /\ Height[fetched] <= Height[peer]
      BY <3>1, BranchHeights DEF Heavier
    <3>3. job.block \in Block /\ fetched \in Block /\ peer \in Block
      BY <3>1, BranchHeights DEF IInv, TypeOK
    <3>4. Height[job.block] \in Int /\ Height[fetched] \in Int /\ Height[peer] \in Int
      BY <3>3, TreeAssumption
    <3>5. Height[job.block] <= Height[peer]
      BY <3>2, <3>4
    <3> QED
      BY <2>1, <3>5 DEF NoneHigher
  <2>4. WipeBlocks => Stored' \subseteq Stored
    BY DEF WipeBlocks, Stored
  <2> QED
    BY <1>2, <2>2, <2>3, <2>4
<1> QED
  BY <1>1, <1>2, BlockMoves

\* What the database answers.
LEMMA TipHighest ==
    ASSUME NEW tip \in Tips
    PROVE  \A b \in Processed : tip # {} =>
              /\ Height[b] <= Height[CHOOSE c \in tip : TRUE]
              /\ (CHOOSE c \in tip : TRUE) \in Processed
<1> SUFFICES ASSUME NEW b \in Processed, tip # {}
             PROVE  /\ Height[b] <= Height[CHOOSE c \in tip : TRUE]
                    /\ (CHOOSE c \in tip : TRUE) \in Processed
  OBVIOUS
<1>1. (CHOOSE c \in tip : TRUE) \in tip
  OBVIOUS
<1>2. tip \subseteq LocalTip
  BY DEF Tips
<1> QED
  BY <1>1, <1>2 DEF LocalTip

\* It answers something if a block is processed.
LEMMA TipExists ==
    ASSUME IInv, NoneHigher, NEW b \in Processed
    PROVE  LocalTip # {}
<1> DEFINE S == {Height[c] : c \in Processed}
<1>1. Processed \subseteq Block /\ Processed \subseteq Stored /\ peer \in Block
  BY DEF Processed, Stored, IInv, TypeOK
<1>2. S \in SUBSET Nat /\ S # {} /\ Height[peer] \in Nat
  BY <1>1, TreeAssumption
<1>3. \A s \in S : s <= Height[peer]
  BY <1>1 DEF NoneHigher
<1> HIDE DEF S
<1>4. PICK m \in S : \A s \in S : s <= m
  BY <1>2, <1>3, Greatest
<1> USE DEF S
<1>5. PICK c \in Processed : m = Height[c]
  BY <1>4
<1>6. c \in LocalTip
  BY <1>4, <1>5 DEF LocalTip
<1> QED
  BY <1>6

\* The job that the loop starts next.
LEMMA LoopFields ==
    ASSUME NEW height, NEW best, Loop(height, best)
    PROVE  /\ job'.at = IF height <= best THEN "fetch" ELSE "finish"
           /\ job'.check = job.check /\ job'.height = height /\ job'.best = best
<1> DEFINE at == IF height <= best THEN "fetch" ELSE "finish"
           check == job.check
<1>1. job' = [NoJob EXCEPT !.at = at, !.check = check, !.height = height, !.best = best]
  BY DEF Loop
<1> HIDE DEF at, check
<1>2. /\ job'.at = at /\ job'.check = check /\ job'.height = height /\ job'.best = best
  BY <1>1, NoJobFields
<1> QED
  BY <1>2 DEF at, check

\* Only the loop itself, and the end of an import, lead back to the loop.
LEMMA StaysBusy ==
    ASSUME IInv, Deleting, [Next]_vars, ~Start, ~Advance, ~Mark
    PROVE  job' = job \/ job'.at \notin {"fetch", "ask"}
<1>t. job \in Job
  BY DEF IInv, TypeOK
<1>1. CASE Check \/ Reorg
  <2>1. (\E b, o : o \in {"reorg", "import"} /\ HandleReorg(b, o)) \/ To("reorg")
    BY <1>1 DEF Check, Reorg
  <2> QED
    BY <1>t, <2>1, ToFields, ReorgFields
<1>2. CASE WipeBlocks \/ WipeTxs
  BY <1>t, <1>2, DoneFields DEF WipeBlocks, WipeTxs, Deleting
<1>3. CASE ImportTxs \/ PruneMempool \/ Fetch
  BY <1>t, <1>3 DEF ImportTxs, PruneMempool, Job, Fetch
<1>4. CASE Write \/ Link
  BY <1>t, <1>4, ToFields DEF Write, Link
<1>5. CASE Reject \/ Finish \/ Fault \/ Crash \/ Announce \/ Retry
  BY <1>5, NoJobFields DEF Reject, Finish, Fault, Crash, Announce, Retry, Begin
<1>6. CASE \/ NewBlock \/ UNCHANGED vars
           \/ \E t \in Tx : Receive(t) \/ RelayPrune(t) \/ RelayInsert(t)
  BY <1>6 DEF NewBlock, Receive, RelayPrune, RelayInsert, vars
<1> QED
  BY <1>1, <1>2, <1>3, <1>4, <1>5, <1>6 DEF Next, Step

\* The block at hand is the highest that is processed.
LEMMA UpwardsStep ==
    ASSUME IInv, Deleting, AtHeight, NoneHigher, Upwards, [Next]_vars
    PROVE  Upwards'
<1>t. job \in Job /\ peer \in Block /\ Processed \subseteq Block
  BY DEF IInv, TypeOK, Processed
<1>h. \A b \in Block : Height[b] \in Int
  BY TreeAssumption
<1>1. CASE Start
  <2>1. Processed' = Processed
    BY <1>1 DEF Start, blocks, Processed
  <2>2. PICK tip \in Tips :
          LET h == IF tip = {} THEN 0 ELSE Height[CHOOSE b \in tip : TRUE] IN
          job' = [NoJob EXCEPT !.at = IF h <= Height[peer] THEN "fetch" ELSE "finish",
                               !.check = complete, !.height = h, !.best = Height[peer]]
    BY <1>1 DEF Start
  <2> DEFINE h == IF tip = {} THEN 0 ELSE Height[CHOOSE b \in tip : TRUE]
  <2>3. job'.height = h /\ job'.at \in {"fetch", "finish"}
    BY <2>2, NoJobFields
  <2>4. \A b \in Processed : Height[b] <= h
    <3>1. CASE tip = {}
      BY <3>1, TipExists DEF Tips
    <3>2. CASE tip # {}
      BY <3>2, TipHighest
    <3> QED
      BY <3>1, <3>2
  <2> QED
    BY <2>1, <2>3, <2>4 DEF Upwards
<1>2. CASE Advance
  <2>1. Processed' = Processed
    BY <1>2 DEF Advance, blocks, Processed
  <2>2. PICK b \in LocalTip : \E best : Loop(Height[b] + 1, best)
    BY <1>2 DEF Advance
  <2>3. job'.height = Height[b] + 1 /\ job'.at \in {"fetch", "finish"}
    BY <2>2, LoopFields
  <2>4. \A c \in Processed : Height[c] <= Height[b] + 1
    BY <1>t, <1>h DEF LocalTip
  <2> QED
    BY <2>1, <2>3, <2>4 DEF Upwards
<1>3. CASE Mark
  <2>1. Processed' = Processed \cup {job.block} /\ job.block \in Block /\ job.at = "mark"
    BY <1>3, BlockWrites DEF Mark
  <2>2. job'.at = "ask" /\ job'.height = job.height /\ job'.block = job.block
    BY <1>t, <1>3, ToFields DEF Mark
  <2>3. Height[job.block] = job.height /\ Height[job.block] \in Int
    BY <1>h, <2>1 DEF AtHeight, AtBlock
  <2> QED
    BY <2>1, <2>2, <2>3 DEF Upwards, AtBlock
<1>4. CASE ~Start /\ ~Advance /\ ~Mark
  <2>1. Processed' \subseteq Processed
    BY <1>4, BlockMoves, BlockWrites DEF Quiet, Processed
  <2>2. job' = job \/ job'.at \notin {"fetch", "ask"}
    BY <1>4, StaysBusy
  <2>3. \/ job' = job
        \/ job'.at \notin AtBlock \cup {"fetch", "ask"}
        \/ job'.height = job.height /\ job.at \in AtBlock \cup {"fetch"}
    BY <2>2, JobMoves DEF JobMove, SameBlock, AtBlock
  <2>4. job' = job => (job.at = "ask" => Processed' = Processed)
    BY <1>4, BlockMoves DEF Quiet, WipeBlocks, Write, Link, Processed
  <2> QED
    BY <2>1, <2>2, <2>3, <2>4 DEF Upwards
<1> QED
  BY <1>1, <1>2, <1>3, <1>4

\* A sync ends when the block that it asked for last is stored.
LEMMA ArrivedStep ==
    ASSUME IInv, Deleting, AtHeight, Heavier, NoneHigher, Upwards, Arrived, [Next]_vars
    PROVE  Arrived'
<1>t. job \in Job /\ peer \in Block /\ Processed \subseteq Block /\ retry \in BOOLEAN
  BY DEF IInv, TypeOK, Processed
<1>h. \A b \in Block : Height[b] \in Int
  BY TreeAssumption
<1>1. CASE Start
  <2>1. PICK tip \in Tips :
          LET h == IF tip = {} THEN 0 ELSE Height[CHOOSE b \in tip : TRUE] IN
          job' = [NoJob EXCEPT !.at = IF h <= Height[peer] THEN "fetch" ELSE "finish",
                               !.check = complete, !.height = h, !.best = Height[peer]]
    BY <1>1 DEF Start
  <2> DEFINE h == IF tip = {} THEN 0 ELSE Height[CHOOSE b \in tip : TRUE]
  <2>2. h <= Height[peer]
    <3>1. CASE tip = {}
      BY <1>t, <3>1, TreeAssumption
    <3>2. CASE tip # {}
      <4>1. /\ (CHOOSE b \in tip : TRUE) \in tip
            /\ tip \subseteq Processed /\ Processed \subseteq Stored
        BY <3>2 DEF Tips, LocalTip, Processed, Stored
      <4> QED
        BY <3>2, <4>1 DEF NoneHigher
    <3> QED
      BY <3>1, <3>2
  <2>3. job'.at = "fetch"
    BY <2>1, <2>2, NoJobFields
  <2> QED
    BY <2>3 DEF Arrived
<1>2. CASE Advance
  <2>1. UNCHANGED <<state, peer, fetched>> /\ job.at = "ask"
    BY <1>2 DEF Advance, blocks, net
  <2>2. PICK b \in LocalTip :
          Loop(Height[b] + 1, IF job.height = job.best THEN Height[peer] ELSE job.best)
    BY <1>2 DEF Advance
  <2> DEFINE best == IF job.height = job.best THEN Height[peer] ELSE job.best
  <2>3. job'.at = IF Height[b] + 1 <= best THEN "fetch" ELSE "finish"
    BY <2>2, LoopFields
  <2>4. /\ fetched \in Block /\ job.block \in Branch[fetched] /\ job.block \in Processed
        /\ Height[job.block] = job.height /\ job.height <= job.best
        /\ \A c \in Processed : Height[c] <= job.height
    BY <2>1 DEF AtHeight, Upwards
  <2>5. b \in Block /\ Height[b] = job.height /\ job.height \in Int /\ job.best \in Int
    <3>1. b \in Processed /\ \A c \in Processed : Height[c] <= Height[b]
      BY DEF LocalTip
    <3>2. b \in Block /\ Height[b] <= job.height /\ job.height <= Height[b]
      BY <1>t, <2>4, <3>1
    <3>3. job.height \in Int /\ job.best \in Int
      BY <1>t DEF Job
    <3> QED
      BY <1>h, <3>2, <3>3
  <2> SUFFICES ASSUME job'.at = "finish", peer = fetched PROVE peer \in LocalTip
    BY <2>1, <2>3 DEF Arrived, LocalTip, Processed
  <2>6. job.height = job.best /\ Height[peer] < job.height + 1
    BY <1>t, <1>h, <2>3, <2>4, <2>5
  <2>7. Height[job.block] = Height[peer]
    <3>1. Height[job.block] <= Height[peer]
      BY <2>4, BranchHeights
    <3> QED
      BY <1>t, <1>h, <2>4, <2>5, <2>6, <3>1
  <2>8. job.block = peer
    BY <2>4, <2>7, BranchHeights
  <2> QED
    BY <2>4, <2>8 DEF LocalTip
<1>3. CASE Finish
  BY <1>3, NoJobFields DEF Finish, Arrived, LocalTip, Processed, blocks, net
<1>4. CASE Fault
  BY <1>t, <1>4, NoJobFields DEF Fault, Arrived, LocalTip, Processed, blocks, net
<1>5. CASE NewBlock
  <2>1. peer' # fetched
    <3>1. peer' \in Block /\ Weight[peer'] > Weight[peer]
      BY <1>5 DEF NewBlock
    <3>2. fetched \in Block => fetched = peer \/ Weight[fetched] < Weight[peer]
      BY DEF Heavier
    <3>3. Root \notin Block /\ (fetched \in Block \/ fetched = Root)
      BY TreeAssumption DEF IInv, TypeOK
    <3>4. \A c \in Block : Weight[c] \in Int
      BY TreeAssumption
    <3> QED
      BY <1>t, <3>1, <3>2, <3>3, <3>4
  <2> QED
    BY <1>5, <2>1 DEF NewBlock, Arrived
<1>6. CASE Announce \/ Retry
  BY <1>6, NoJobFields DEF Announce, Retry, Begin, Arrived, LocalTip, Processed, blocks, net
<1>7. CASE Reject
  BY <1>7 DEF Reject, NoJobFields, Arrived, NoJob
<1>8. CASE UNCHANGED vars \/ \E t \in Tx : Receive(t) \/ RelayPrune(t) \/ RelayInsert(t)
  BY <1>8 DEF vars, Receive, RelayPrune, RelayInsert, blocks, net, Arrived, LocalTip, Processed
<1>9. CASE Crash
  BY <1>9, NoJobFields DEF Crash, Arrived
<1>10. CASE \/ Fetch \/ Check \/ Reorg \/ WipeBlocks \/ WipeTxs
            \/ ImportTxs \/ PruneMempool \/ Write \/ Link \/ Mark
  <2>1. job'.at \notin {"finish", "idle"}
    <3>1. CASE Check \/ Reorg
      <4>1. (\E b, o : o \in {"reorg", "import"} /\ HandleReorg(b, o)) \/ To("reorg")
        BY <3>1 DEF Check, Reorg
      <4> QED
        BY <1>t, <4>1, ToFields, ReorgFields
    <3>2. CASE WipeBlocks \/ WipeTxs
      BY <1>t, <3>2, DoneFields DEF WipeBlocks, WipeTxs, Deleting
    <3>3. CASE ImportTxs \/ PruneMempool \/ Fetch
      BY <1>t, <3>3 DEF ImportTxs, PruneMempool, Job, Fetch
    <3>4. CASE Write \/ Link \/ Mark
      BY <1>t, <3>4, ToFields DEF Write, Link, Mark
    <3> QED
      BY <1>10, <3>1, <3>2, <3>3, <3>4
  <2> QED
    BY <2>1 DEF Arrived
<1> QED
  BY <1>1, <1>2, <1>3, <1>4, <1>5, <1>6, <1>7, <1>8, <1>9, <1>10 DEF Next, Step

-----------------------------------------------------------------------------
\* What is imported goes onto one chain

\* No two blocks of one height; each block goes with the next lower one.
Distinct(S) == \A b, c \in S : Height[b] = Height[c] => b = c

Linked(S, nx) ==
    \A b, c \in S :
        Height[b] > Height[c] /\ ~(\E d \in S : Height[b] > Height[d] /\ Height[d] > Height[c])
            => nx[c] = b /\ Parent[b] = c

\* T holds the lowest blocks of S.
Lowest(T, S) == T \subseteq S /\ \A d \in S, t \in T : Height[d] <= Height[t] => d \in T

\* From below, the blocks are linked until there are two of one height.
Sound(S, nx) == \A T \in SUBSET S : Lowest(T, S) /\ Distinct(T) => Linked(T, nx)

Below(S, h) == {b \in S : Height[b] < h}

\* What validateLocatorHashes found is deleted, or will be.
Onto ==
    /\ job.check /\ job.at \in {"reorg", "import"} => Sound(Processed, next)
    /\ job.at = "wipe" /\ job.then # "reject" => Sound(Below(Processed, job.from), next)

\* The blocks below a height are the lowest.
LEMMA BelowSound ==
    ASSUME NEW S \in SUBSET Block, NEW nx, NEW h \in Int, Sound(S, nx)
    PROVE  Sound(Below(S, h), nx)
<1> SUFFICES ASSUME NEW T \in SUBSET Below(S, h), Lowest(T, Below(S, h)), Distinct(T)
             PROVE  Linked(T, nx)
  BY DEF Sound
<1>1. Lowest(T, S)
  <2> SUFFICES ASSUME NEW d \in S, NEW t \in T, Height[d] <= Height[t] PROVE d \in T
    BY DEF Lowest, Below
  <2>1. Height[t] < h /\ Height[t] \in Int /\ Height[d] \in Int
    BY TreeAssumption DEF Below
  <2>2. d \in Below(S, h)
    BY <2>1 DEF Below
  <2> QED
    BY <2>2 DEF Lowest
<1> QED
  BY <1>1 DEF Sound, Below

\* The next lower block of a block is beside it for validateLocatorHashes, so
\* that it sees whether they are linked.
LEMMA SeenUnlinked ==
    ASSUME NEW lead, NEW T \in SUBSET Processed, Lowest(T, Processed), Distinct(T),
           NEW p \in T, NEW q \in T, Height[p] > Height[q],
           ~(\E d \in T : Height[p] > Height[d] /\ Height[d] > Height[q]),
           ~(next[q] = p /\ Parent[p] = q)
    PROVE  q \in Mismatched(lead)
<1>1. \A b \in Processed : Height[b] \in Int
  BY TreeAssumption DEF Processed
<1>2. ASSUME NEW b \in Processed, Before(p, b, lead), Before(b, q, lead) PROVE FALSE
  <2>1. Height[p] >= Height[b] /\ Height[b] >= Height[q]
    BY <1>1, <1>2 DEF Before
  <2>2. b \in T
    BY <1>1, <2>1 DEF Lowest
  <2>3. Height[p] = Height[b] \/ Height[b] = Height[q]
    BY <1>1, <2>1, <2>2
  <2>4. p = b \/ b = q
    BY <2>2, <2>3 DEF Distinct
  <2> QED
    BY <1>1, <1>2, <2>4 DEF Before
<1>3. <<p, q>> \in Unlinked(lead)
  BY <1>2 DEF Unlinked, Before
<1> QED
  BY <1>3 DEF Mismatched

\* When it finds nothing, or only what is not among S, S is sound.
LEMMA MatchedSound ==
    ASSUME NEW lead, NEW h \in Int,
           \A x \in Mismatched(lead) : ~(Height[x] < h)
    PROVE  Sound(Below(Processed, h), next)
<1> SUFFICES ASSUME NEW T \in SUBSET Below(Processed, h), Lowest(T, Below(Processed, h)),
                    Distinct(T), NEW p \in T, NEW q \in T, Height[p] > Height[q],
                    ~(\E d \in T : Height[p] > Height[d] /\ Height[d] > Height[q]),
                    ~(next[q] = p /\ Parent[p] = q)
             PROVE  FALSE
  BY DEF Sound, Linked
<1>1. Lowest(T, Processed)
  <2> SUFFICES ASSUME NEW d \in Processed, NEW t \in T, Height[d] <= Height[t] PROVE d \in T
    BY DEF Lowest, Below
  <2>1. Height[t] < h /\ Height[t] \in Int /\ Height[d] \in Int
    BY TreeAssumption DEF Below, Processed
  <2>2. d \in Below(Processed, h)
    BY <2>1 DEF Below
  <2> QED
    BY <2>2 DEF Lowest
<1>2. q \in Mismatched(lead)
  BY <1>1, SeenUnlinked DEF Below
<1> QED
  BY <1>2 DEF Below

\* The same when what it finds is no lower than any block.
LEMMA TopSound ==
    ASSUME NEW lead, \A x \in Mismatched(lead), b \in Processed : Height[b] <= Height[x]
    PROVE  Sound(Processed, next)
<1> SUFFICES ASSUME NEW T \in SUBSET Processed, Lowest(T, Processed),
                    Distinct(T), NEW p \in T, NEW q \in T, Height[p] > Height[q],
                    ~(\E d \in T : Height[p] > Height[d] /\ Height[d] > Height[q]),
                    ~(next[q] = p /\ Parent[p] = q)
             PROVE  FALSE
  BY DEF Sound, Linked
<1>1. q \in Mismatched(lead)
  BY SeenUnlinked
<1>2. Height[p] <= Height[q]
  BY <1>1
<1>3. Height[p] \in Int /\ Height[q] \in Int
  BY TreeAssumption DEF Processed
<1> QED
  BY <1>2, <1>3

\* addBlock looks at all that is stored: it goes on with blocks that are sound,
\* or deletes so that they will be.
LEMMA CheckOnto ==
    ASSUME IInv, NoneHigher, Check
    PROVE  Onto'
<1>t. job \in Job /\ Processed \subseteq Block /\ \A b \in Block : Height[b] \in Int
  BY TreeAssumption DEF IInv, TypeOK, Processed
<1>s. Processed' = Processed /\ next' = next
  BY DEF Check, blocks, Processed
<1>1. PICK lead \in Leads :
        IF Mismatched(lead) = {}
        THEN To("reorg")
        ELSE \E b \in Block :
                 IsLast(b, Mismatched(lead), lead) /\ HandleReorg(b, "reorg")
  BY DEF Check
<1>2. CASE Mismatched(lead) = {}
  <2>1. job'.at = "reorg"
    BY <1>t, <1>1, <1>2, ToFields
  <2>2. Sound(Processed, next)
    BY <1>2, TopSound
  <2> QED
    BY <1>s, <2>1, <2>2 DEF Onto
<1>3. CASE Mismatched(lead) # {}
  <2>1. PICK b \in Block : IsLast(b, Mismatched(lead), lead) /\ HandleReorg(b, "reorg")
    BY <1>1, <1>3
  <2>2. b \in Processed /\ Mismatched(lead) \subseteq Processed
    BY <2>1 DEF IsLast, Mismatched, Unlinked
  <2>3. \A x \in Mismatched(lead) : Height[b] <= Height[x]
    BY <1>t, <2>1, <2>2 DEF IsLast, Before
  <2>4. PICK tip \in Tips :
          \/ InOrder(b, tip) /\ To("reorg") /\ job'.at = "reorg"
          \/ /\ ~InOrder(b, tip) /\ job'.at = "wipe" /\ job'.from = WipeFrom(b, tip)
             /\ job'.then = IF Parent[b] \in Stored THEN "reorg" ELSE "reject"
    BY <1>t, <2>1, ReorgFields
  <2>5. CASE InOrder(b, tip) /\ job'.at = "reorg"
    <3>1. tip # {} /\ tip \subseteq LocalTip
      BY <2>2, TipExists DEF Tips
    <3>2. PICK c \in tip : c = Parent[b] \/ c = b \/ Height[c] = 0
      BY <2>5, <3>1 DEF InOrder
    <3>3. c \in Processed /\ \A d \in Processed : Height[d] <= Height[c]
      BY <3>1 DEF LocalTip
    <3>4. c # Parent[b]
      BY <1>t, <2>2, <3>3, TreeAssumption
    <3>5. \A d \in Processed : Height[d] <= Height[b]
      BY <1>t, <2>2, <3>2, <3>3, <3>4, TreeAssumption
    <3>6. \A x \in Mismatched(lead), d \in Processed : Height[d] <= Height[x]
      BY <1>t, <2>2, <2>3, <3>5
    <3>7. Sound(Processed, next)
      BY <3>6, TopSound
    <3> QED
      BY <1>s, <2>5, <3>7 DEF Onto
  <2>6. CASE /\ job'.at = "wipe" /\ job'.from = WipeFrom(b, tip)
             /\ job'.then = IF Parent[b] \in Stored THEN "reorg" ELSE "reject"
    <3>1. SUFFICES ASSUME Parent[b] \in Stored
                   PROVE  Sound(Below(Processed, Height[Parent[b]]), next)
      BY <1>s, <2>6 DEF Onto, WipeFrom
    <3>2. Height[Parent[b]] \in Int /\ Height[b] = Height[Parent[b]] + 1
      BY <3>1, TreeAssumption DEF Stored
    <3>3. \A x \in Mismatched(lead) : ~(Height[x] < Height[Parent[b]])
      BY <1>t, <2>2, <2>3, <3>2
    <3> QED
      BY <3>2, <3>3, MatchedSound
  <2> QED
    BY <2>4, <2>5, <2>6
<1> QED
  BY <1>2, <1>3

\* handleReorg for the block at hand imports or deletes.
LEMMA ReorgOnto ==
    ASSUME IInv, Deleting, Onto, Reorg
    PROVE  Onto'
<1>t. job \in Job /\ Processed \subseteq Block /\ job.block \in Block
  BY DEF IInv, TypeOK, Processed, Reorg, AtBlock
<1>s. Processed' = Processed /\ next' = next
  BY DEF Reorg, blocks, Processed
<1>1. Sound(Processed, next)
  BY DEF Reorg, Onto, Deleting
<1>2. PICK tip \in Tips :
          \/ InOrder(job.block, tip) /\ To("import") /\ job'.at = "import"
          \/ /\ job'.at = "wipe" /\ job'.from = WipeFrom(job.block, tip)
             /\ job'.then = IF Parent[job.block] \in Stored THEN "import" ELSE "reject"
  BY <1>t, ReorgFields DEF Reorg
<1>3. CASE job'.at = "import"
  BY <1>s, <1>1, <1>3 DEF Onto
<1>4. CASE /\ job'.at = "wipe" /\ job'.from = WipeFrom(job.block, tip)
           /\ job'.then = IF Parent[job.block] \in Stored THEN "import" ELSE "reject"
  <2>1. SUFFICES ASSUME Parent[job.block] \in Stored
                 PROVE  Sound(Below(Processed, Height[Parent[job.block]]), next)
    BY <1>s, <1>4 DEF Onto, WipeFrom
  <2>2. Height[Parent[job.block]] \in Int
    BY <2>1, TreeAssumption DEF Stored
  <2> QED
    BY <1>t, <1>1, <2>2, BelowSound
<1> QED
  BY <1>2, <1>3, <1>4

\* A deletion leaves what is below, linked as it was.
LEMMA WipeOnto ==
    ASSUME IInv, Deleting, Onto, WipeBlocks \/ WipeTxs
    PROVE  Onto'
<1>t. job \in Job /\ Processed \subseteq Block /\ \A b \in Block : Height[b] \in Int
  BY TreeAssumption DEF IInv, TypeOK, Processed
<1>f. job.from \in Int
  BY <1>t DEF Job
<1> DEFINE low == Below(Processed, job.from)
<1>1. /\ job.at = "wipe"
      /\ \/ job'.at = job.then
         \/ /\ job'.at = "wipe" /\ job'.from = job.from /\ job'.then = job.then
            /\ "blocks" \notin job'.left => WipeBlocks \/ "blocks" \notin job.left
      /\ job.then \in {"reorg", "import", "reject"}
  BY <1>t, DoneFields DEF WipeBlocks, WipeTxs, Deleting
<1>2. SUFFICES ASSUME job.then # "reject"
               PROVE  /\ job'.at = job.then => Sound(Processed, next)'
                      /\ job'.at = "wipe" => Sound(Below(Processed, job.from), next)'
  BY <1>1 DEF Onto
<1>3. Sound(low, next)
  BY <1>1, <1>2 DEF Onto
<1>4. CASE WipeBlocks
  <2>1. Processed' = low
    <3>1. state' = [b \in Block |-> IF Height[b] >= job.from THEN "none" ELSE state[b]]
      BY <1>4 DEF WipeBlocks
    <3>2. \A b \in Block : b \in Processed' <=> b \in Processed /\ ~(Height[b] >= job.from)
      BY <3>1 DEF Processed
    <3>3. Processed' \subseteq Block
      BY DEF Processed
    <3> QED
      BY <1>t, <1>f, <3>2, <3>3 DEF Below
  <2>2. \A b \in low : next'[b] = next[b]
    BY <1>t, <1>f, <1>4 DEF WipeBlocks, Below
  <2>3. Sound(low, next')
    BY <1>3, <2>2 DEF Sound, Linked
  <2>4. Below(low, job.from) = low
    BY DEF Below
  <2>5. job'.from = job.from \/ job'.at # "wipe"
    BY <1>1
  <2> HIDE DEF low
  <2> QED
    BY <1>1, <2>1, <2>3, <2>4, <2>5
<1>5. CASE WipeTxs
  <2>1. Processed' = Processed /\ next' = next
    BY <1>5 DEF WipeTxs, blocks, Processed
  <2>2. job'.at = job.then => job.left = {"txs"} \/ job.then = "wipe"
    BY <1>t, <1>1, <1>5, DoneFields DEF WipeTxs
  <2>3. job.left = {"txs"} => Processed = low
    BY <1>1 DEF Deleting, Below
  <2> QED
    BY <1>1, <1>3, <2>1, <2>2, <2>3
<1> QED
  BY <1>4, <1>5

\* Every step keeps what validateLocatorHashes made sure of.
LEMMA OntoStep ==
    ASSUME IInv, Deleting, NoneHigher, Onto, [Next]_vars
    PROVE  Onto'
<1>t. job \in Job
  BY DEF IInv, TypeOK
<1>1. ASSUME job'.at \notin {"reorg", "import", "wipe"} PROVE Onto'
  BY <1>1 DEF Onto
<1>2. ASSUME job' = job, Quiet PROVE Onto'
  BY <1>2 DEF Onto, Quiet, Processed
<1>3. CASE Start \/ Advance
  <2>1. CASE Start
    <3>1. job'.at \in {"fetch", "finish"}
      BY <2>1 DEF Start, NoJob
    <3> QED
      BY <1>1, <3>1
  <2>2. CASE Advance
    <3>1. \E height, best : Loop(height, best)
      BY <2>2, Zenon DEF Advance
    <3> QED
      BY <1>1, <3>1, LoopFields
  <2> QED
    BY <1>3, <2>1, <2>2
<1>4. CASE Fetch
  <2>1. job'.check = job.check /\ job'.at = IF job.check THEN "check" ELSE "import"
    BY <1>t, <1>4 DEF Fetch, Job
  <2> QED
    BY <2>1 DEF Onto
<1>5. CASE Check \/ Reorg \/ WipeBlocks \/ WipeTxs
  BY <1>5, CheckOnto, ReorgOnto, WipeOnto
<1>6. CASE ImportTxs \/ PruneMempool
  <2>1. job'.at = "import" /\ job.at = "import" /\ job'.check = job.check /\ Quiet
    BY <1>t, <1>6 DEF ImportTxs, PruneMempool, Job, Quiet, blocks
  <2> QED
    BY <2>1 DEF Onto, Quiet, Processed
<1>7. CASE Write \/ Link \/ Mark
  BY <1>t, <1>1, <1>7, ToFields DEF Write, Link, Mark
<1>8. CASE Reject \/ Finish \/ Fault \/ Crash
  BY <1>1, <1>8, NoJobFields DEF Reject, Finish, Fault, Crash
<1>9. CASE Announce \/ Retry
  BY <1>1, <1>2, <1>9, NoJobFields DEF Announce, Retry, Begin, blocks, Quiet
<1>10. CASE \/ NewBlock \/ UNCHANGED vars
            \/ \E t \in Tx : Receive(t) \/ RelayPrune(t) \/ RelayInsert(t)
  BY <1>2, <1>10 DEF NewBlock, vars, blocks, Quiet, Receive, RelayPrune, RelayInsert
<1> QED
  BY <1>3, <1>4, <1>5, <1>6, <1>7, <1>8, <1>9, <1>10 DEF Next, Step

\* Linked blocks of different heights are what validateLocatorHashes accepts.
LEMMA OntoImplies ==
    ASSUME IInv, Onto
    PROVE  ImportsOntoChain
<1> SUFFICES ASSUME job.check, job.at = "import", Distinct(Processed), NEW lead \in Leads,
                    NEW p \in Unlinked(lead)
             PROVE  FALSE
  BY DEF ImportsOntoChain, Distinct, Mismatched
<1>1. /\ p[1] \in Processed /\ p[2] \in Processed /\ Before(p[1], p[2], lead)
      /\ ~ \E b \in Processed : Before(p[1], b, lead) /\ Before(b, p[2], lead)
      /\ ~ (next[p[2]] = p[1] /\ Parent[p[1]] = p[2])
  BY DEF Unlinked
<1>2. Height[p[1]] > Height[p[2]]
  BY <1>1 DEF Before, Distinct
<1>3. ~(\E d \in Processed : Height[p[1]] > Height[d] /\ Height[d] > Height[p[2]])
  BY <1>1 DEF Before
<1>4. Linked(Processed, next)
  BY DEF Onto, Sound, Lowest
<1> QED
  BY <1>1, <1>2, <1>3, <1>4 DEF Linked

-----------------------------------------------------------------------------
\* The transactions go with the blocks

Confirmed(x) == txs[x] \in Nat

\* What a deletion or an import has done to the transactions.
TxsDone ==
    /\ job.at = "wipe" /\ "txs" \notin job.left =>
          \A x \in Tx : Confirmed(x) => txs[x] < job.from
    /\ (job.at = "import" /\ "txs" \notin job.left) \/ job.at \in {"link", "mark"} =>
          \A x \in TxsOf[job.block] : txs[x] = job.height

\* The transactions of a processed block are there, unless they are deleted
\* before it.
HasTxs ==
    "wipe" \notin torn => \A b \in Processed : \A x \in Own[b] :
        \/ txs[x] = Height[b]
        \/ job.at = "wipe" /\ "blocks" \in job.left /\ "txs" \notin job.left
           /\ job.from <= Height[b]

\* A confirmed transaction has its block, unless it is imported before the
\* block or deleted after it.
HasBlock ==
    torn = {} => \A x \in Tx : Confirmed(x) =>
        \/ \E b \in Stored : x \in TxsOf[b] /\ Height[b] = txs[x]
        \/ job.at = "import" /\ x \in TxsOf[job.block] /\ txs[x] = job.height
        \/ job.at = "wipe" /\ "txs" \in job.left /\ "blocks" \notin job.left
           /\ job.from <= txs[x]

Matches == TxsDone /\ HasTxs /\ HasBlock

\* Whatever else is written, a confirmed transaction stays, and none is added.
SameConfirmed ==
    \A x \in Tx : txs[x] \in Nat \/ txs'[x] \in Nat => txs'[x] = txs[x]

\* Only a deletion and the import of a block write confirmed transactions.
LEMMA ConfirmedSame ==
    ASSUME IInv, [Next]_vars, ~WipeTxs, ~ImportTxs
    PROVE  SameConfirmed
<1>t. txs \in [Tx -> Nat \cup {pending, conflicting, Absent}]
  BY DEF IInv, TypeOK
<1>n. pending \notin Nat /\ conflicting \notin Nat /\ Absent \notin Nat
  BY TxAssumption DEF pending, conflicting
<1>1. CASE PruneMempool
  BY <1>n, <1>1 DEF PruneMempool, SameConfirmed
<1>2. ASSUME NEW u \in Tx, RelayPrune(u) PROVE SameConfirmed
  BY <1>n, <1>2 DEF RelayPrune, SameConfirmed
<1>3. ASSUME NEW u \in Tx, RelayInsert(u) PROVE SameConfirmed
  BY <1>t, <1>n, <1>3 DEF RelayInsert, SameConfirmed
<1>4. CASE ~PruneMempool /\ \A u \in Tx : ~RelayPrune(u) /\ ~RelayInsert(u)
  <2>1. txs' = txs
    BY <1>4 DEF Next, Step, Start, Fetch, Check, Reorg, WipeBlocks, Reject, Write, Link,
                Mark, Advance, Finish, Announce, Retry, NewBlock, Fault, Crash, Receive, vars
  <2> QED
    BY <2>1 DEF SameConfirmed
<1> QED
  BY <1>1, <1>2, <1>3, <1>4

\* The transactions of a block are transactions, and its height is a number.
LEMMA TxTypes ==
    /\ \A b \in Block : TxsOf[b] \subseteq Tx /\ Own[b] \subseteq TxsOf[b] /\ Height[b] \in Nat
    /\ \A b, c \in Block : \A x \in Own[b] : x \in TxsOf[c] => b = c
    /\ Processed \subseteq Stored /\ Stored \subseteq Block
BY TreeAssumption, TxAssumption DEF Own, Processed, Stored

\* A step within a stage that writes neither blocks nor confirmed transactions.
LEMMA MatchesSame ==
    ASSUME IInv, Matches, SameConfirmed, state' = state, torn' = torn,
           job' = job
    PROVE  Matches'
<1>t. Stored' = Stored /\ Processed' = Processed
  BY DEF Stored, Processed
<1>b. job.at \in AtBlock => job.block \in Block /\ job.height \in Nat
  BY DEF IInv, TypeOK, Job
<1>1. TxsDone'
  BY <1>b, TxTypes DEF TxsDone, Matches, SameConfirmed, Confirmed, AtBlock
<1>2. HasTxs'
  <2> SUFFICES ASSUME "wipe" \notin torn, NEW b \in Processed, NEW x \in Own[b],
                      txs'[x] # Height[b]
               PROVE  job.at = "wipe" /\ "blocks" \in job.left /\ "txs" \notin job.left
                      /\ job.from <= Height[b]
    BY <1>t DEF HasTxs
  <2>1. x \in Tx /\ Height[b] \in Nat
    BY TxTypes
  <2>2. txs[x] # Height[b]
    BY <2>1 DEF SameConfirmed
  <2> QED
    BY <2>2 DEF Matches, HasTxs
<1>3. HasBlock'
  BY <1>t DEF HasBlock, Matches, SameConfirmed, Confirmed
<1> QED
  BY <1>1, <1>2, <1>3 DEF Matches

\* A step from one stage to another.
LEMMA MatchesEnter ==
    ASSUME IInv, Matches, SameConfirmed, state' = state, torn' = torn,
           job.at \notin {"wipe", "import"},
           \/ job'.at \notin {"wipe", "import", "link", "mark"}
           \/ job'.at = "wipe" /\ job'.left = {"blocks", "txs"}
           \/ job'.at = "import" /\ "txs" \in job'.left
    PROVE  Matches'
<1>t. Stored' = Stored /\ Processed' = Processed
  BY DEF Stored, Processed
<1>1. TxsDone'
  BY DEF TxsDone
<1>2. HasTxs'
  <2> SUFFICES ASSUME "wipe" \notin torn, NEW b \in Processed, NEW x \in Own[b]
               PROVE  txs'[x] = Height[b]
    BY <1>t DEF HasTxs
  <2>1. x \in Tx /\ Height[b] \in Nat
    BY TxTypes
  <2> QED
    BY <2>1 DEF Matches, HasTxs, SameConfirmed
<1>3. HasBlock'
  BY <1>t DEF HasBlock, Matches, SameConfirmed, Confirmed
<1> QED
  BY <1>1, <1>2, <1>3 DEF Matches

\* An error or a crash is remembered when it cuts something short.
LEMMA MatchesTorn ==
    ASSUME IInv, Matches, SameConfirmed, state' = state, torn' = torn \cup Torn,
           job'.at \notin {"wipe", "import", "link", "mark"}
    PROVE  Matches'
<1>t. Stored' = Stored /\ Processed' = Processed
  BY DEF Stored, Processed
<1>1. TxsDone'
  BY DEF TxsDone
<1>2. HasTxs'
  <2> SUFFICES ASSUME "wipe" \notin torn, "wipe" \notin Torn, NEW b \in Processed, NEW x \in Own[b]
               PROVE  txs'[x] = Height[b]
    BY <1>t DEF HasTxs
  <2>1. x \in Tx /\ Height[b] \in Nat
    BY TxTypes
  <2>2. ~(job.at = "wipe" /\ "txs" \notin job.left)
    BY DEF Torn
  <2> QED
    BY <2>1, <2>2 DEF Matches, HasTxs, SameConfirmed
<1>3. HasBlock'
  <2> SUFFICES ASSUME torn = {}, Torn = {}, NEW x \in Tx, txs'[x] \in Nat
               PROVE  \E b \in Stored : x \in TxsOf[b] /\ Height[b] = txs'[x]
    BY <1>t DEF HasBlock, Confirmed
  <2>1. txs'[x] = txs[x] /\ txs[x] \in Nat
    BY DEF SameConfirmed
  <2>2. job.at # "import" /\ ~(job.at = "wipe" /\ "blocks" \notin job.left)
    BY DEF Torn
  <2> QED
    BY <2>1, <2>2 DEF Matches, HasBlock, Confirmed
<1> QED
  BY <1>1, <1>2, <1>3 DEF Matches

\* A deletion takes the transactions and the blocks from one height on.
LEMMA MatchesWipe ==
    ASSUME IInv, Deleting, Matches, WipeBlocks \/ WipeTxs, [Next]_vars
    PROVE  Matches'
<1>t. job \in Job /\ job.from \in Nat /\ job.at = "wipe" /\ torn' = torn
  BY DEF IInv, TypeOK, Job, WipeBlocks, WipeTxs
<1>x. txs \in [Tx -> Nat \cup {pending, conflicting, Absent}] /\ Absent \notin Nat
  BY TxAssumption DEF IInv, TypeOK
<1>1. ASSUME NEW what, Done(what)
      PROVE  \/ job.left = {what} /\ \/ job'.at \in {"reorg", "reject"}
                                     \/ job'.at = "import" /\ "txs" \in job'.left
             \/ /\ job.left # {what} /\ job'.at = "wipe" /\ job'.from = job.from
                /\ job'.left = job.left \ {what}
  <2>1. CASE job.left = {what} /\ To(job.then)
    <3>1. job.then \in {"reorg", "import", "reject"}
      BY <1>t DEF Deleting
    <3>2. job'.at = job.then /\ (job.then = "import" => "txs" \in job'.left)
      BY <1>t, <2>1, ToFields
    <3> QED
      BY <2>1, <3>1, <3>2
  <2>2. CASE job.left # {what}
    BY <1>t, <1>1, <2>2, DoneFields
  <2> QED
    BY <1>t, <1>1, <2>1, <2>2, DoneFields
<1>2. CASE WipeBlocks
  <2>1. SameConfirmed
    BY <1>2, ConfirmedSame DEF WipeBlocks, WipeTxs, ImportTxs, SameConfirmed
  <2>2. \A b \in Block : /\ b \in Processed' <=> b \in Processed /\ Height[b] < job.from
                         /\ b \in Stored' <=> b \in Stored /\ Height[b] < job.from
    <3>1. \A b \in Block : state'[b] = IF Height[b] >= job.from THEN "none" ELSE state[b]
      BY <1>2 DEF WipeBlocks
    <3> QED
      BY <1>t, <3>1, TxTypes DEF Processed, Stored
  <2>3. Processed' \subseteq Block /\ Stored' \subseteq Block
    BY DEF Processed, Stored
  <2>4. \/ "txs" \notin job.left /\ \/ job'.at \in {"reorg", "reject"}
                                    \/ job'.at = "import" /\ "txs" \in job'.left
                                    \/ job'.at = "wipe" /\ "txs" \notin job'.left
        \/ /\ "txs" \in job.left /\ job'.at = "wipe" /\ "txs" \in job'.left
           /\ "blocks" \notin job'.left
    <3>1. "blocks" \in job.left /\ Done("blocks")
      BY <1>2 DEF WipeBlocks
    <3> QED
      BY <1>1, <3>1
  <2>5. job'.at = "wipe" => job'.from = job.from
    BY <1>1, <1>2 DEF WipeBlocks
  <2>6. TxsDone'
    BY <1>t, <2>1, <2>4, <2>5 DEF TxsDone, Matches, SameConfirmed, Confirmed
  <2>7. HasTxs'
    <3> SUFFICES ASSUME "wipe" \notin torn, NEW b \in Processed', NEW x \in Own[b]
                 PROVE  txs'[x] = Height[b]
      BY <1>t DEF HasTxs
    <3>1. b \in Block /\ b \in Processed /\ Height[b] < job.from
      BY <2>2, <2>3
    <3>2. x \in Tx /\ Height[b] \in Nat
      BY <3>1, TxTypes
    <3>3. txs[x] = Height[b]
      BY <1>t, <3>1, <3>2 DEF Matches, HasTxs
    <3> QED
      BY <2>1, <3>2, <3>3 DEF SameConfirmed
  <2>8. HasBlock'
    <3> SUFFICES ASSUME torn = {}, NEW x \in Tx, txs'[x] \in Nat
                 PROVE  \/ \E b \in Stored' : x \in TxsOf[b] /\ Height[b] = txs'[x]
                        \/ job'.at = "wipe" /\ "txs" \in job'.left /\ "blocks" \notin job'.left
                           /\ job'.from <= txs'[x]
      BY <1>t DEF HasBlock, Confirmed
    <3>1. txs'[x] = txs[x] /\ txs[x] \in Nat
      BY <2>1 DEF SameConfirmed
    <3>2. PICK b \in Stored : x \in TxsOf[b] /\ Height[b] = txs[x]
      BY <1>t, <1>2, <3>1 DEF Matches, HasBlock, Confirmed, WipeBlocks
    <3>3. CASE Height[b] < job.from
      BY <2>2, <3>1, <3>2, <3>3, TxTypes
    <3>4. CASE ~(Height[b] < job.from)
      <4>1. job.from <= txs[x]
        BY <1>t, <3>1, <3>2, <3>4
      <4>2. "txs" \in job.left
        BY <1>t, <3>1, <3>2, <3>4 DEF Matches, TxsDone, Confirmed
      <4> QED
        BY <2>4, <2>5, <3>1, <4>1, <4>2
    <3> QED
      BY <3>3, <3>4
  <2> QED
    BY <2>6, <2>7, <2>8 DEF Matches
<1>3. CASE WipeTxs
  <2>1. Processed' = Processed /\ Stored' = Stored /\ "txs" \in job.left
    BY <1>3 DEF WipeTxs, blocks, Processed, Stored
  <2>2. \A x \in Tx : /\ txs'[x] \in Nat => txs'[x] = txs[x] /\ txs[x] < job.from
                      /\ txs[x] \in Nat /\ txs[x] < job.from => txs'[x] = txs[x]
    <3>1. \A x \in Tx : txs'[x] = IF txs[x] # Absent /\ txs[x] >= job.from
                                  THEN Absent ELSE txs[x]
      BY <1>3 DEF WipeTxs
    <3> QED
      BY <1>t, <1>x, <3>1
  <2>3. \/ "blocks" \notin job.left /\ \/ job'.at \in {"reorg", "reject"}
                                       \/ job'.at = "import" /\ "txs" \in job'.left
                                       \/ job'.at = "wipe" /\ "txs" \notin job'.left
        \/ /\ "blocks" \in job.left /\ job'.at = "wipe" /\ "blocks" \in job'.left
           /\ "txs" \notin job'.left
    <3>1. "txs" \in job.left /\ Done("txs")
      BY <1>3 DEF WipeTxs
    <3> QED
      BY <1>1, <3>1
  <2>4. job'.at = "wipe" => job'.from = job.from
    BY <1>1, <1>3 DEF WipeTxs
  <2>5. TxsDone'
    BY <1>t, <2>2, <2>3, <2>4 DEF TxsDone, Confirmed
  <2>6. HasTxs'
    <3> SUFFICES ASSUME "wipe" \notin torn, NEW b \in Processed, NEW x \in Own[b],
                        txs'[x] # Height[b]
                 PROVE  job'.at = "wipe" /\ "blocks" \in job'.left /\ "txs" \notin job'.left
                        /\ job'.from <= Height[b]
      BY <1>t, <2>1 DEF HasTxs
    <3>1. b \in Block /\ x \in Tx /\ Height[b] \in Nat
      BY TxTypes
    <3>2. txs[x] = Height[b]
      BY <1>t, <2>1 DEF Matches, HasTxs
    <3>3. ~(Height[b] < job.from)
      BY <2>2, <3>1, <3>2
    <3>4. "blocks" \in job.left
      BY <1>t, <3>3 DEF Deleting
    <3> QED
      BY <1>t, <2>3, <2>4, <3>1, <3>3, <3>4
  <2>7. HasBlock'
    <3> SUFFICES ASSUME torn = {}, NEW x \in Tx, txs'[x] \in Nat
                 PROVE  \E b \in Stored : x \in TxsOf[b] /\ Height[b] = txs'[x]
      BY <1>t, <2>1 DEF HasBlock, Confirmed
    <3>1. txs'[x] = txs[x] /\ txs[x] \in Nat /\ txs[x] < job.from
      BY <2>2
    <3> QED
      BY <1>t, <3>1 DEF Matches, HasBlock, Confirmed
  <2> QED
    BY <2>5, <2>6, <2>7 DEF Matches
<1> QED
  BY <1>2, <1>3

\* An import writes the transactions before the block.
LEMMA MatchesImport ==
    ASSUME IInv, AtHeight, Matches, [Next]_vars,
           ImportTxs \/ PruneMempool \/ Write \/ Link \/ Mark
    PROVE  Matches'
<1>t. /\ job \in Job /\ job.block \in Block /\ job.height \in Nat /\ torn' = torn
      /\ Height[job.block] = job.height /\ job.at \in {"import", "link", "mark"}
  BY DEF IInv, TypeOK, Job, AtHeight, AtBlock, ImportTxs, PruneMempool, Write, Link, Mark
<1>p. Stored \subseteq Block /\ Processed \subseteq Block
  BY TxTypes
<1>x. txs \in [Tx -> Nat \cup {pending, conflicting, Absent}]
      /\ state \in [Block -> {"none", "written", "processed"}]
  BY DEF IInv, TypeOK
<1>s. ~ImportTxs => SameConfirmed
  BY <1>t, ConfirmedSame DEF WipeTxs
<1>1. CASE ImportTxs
  <2>1. /\ Processed' = Processed /\ Stored' = Stored /\ job.at = "import"
        /\ job'.at = "import" /\ job'.block = job.block /\ job'.height = job.height
        /\ "txs" \notin job'.left
    BY <1>t, <1>1 DEF ImportTxs, blocks, Processed, Stored, Job
  <2>2. \A x \in Tx : txs'[x] = IF x \in TxsOf[job.block] THEN job.height ELSE txs[x]
    BY <1>1 DEF ImportTxs
  <2>3. TxsDone'
    BY <1>t, <2>1, <2>2, TxTypes DEF TxsDone
  <2>4. HasTxs'
    <3> SUFFICES ASSUME "wipe" \notin torn, NEW b \in Processed, NEW x \in Own[b]
                 PROVE  txs'[x] = Height[b]
      BY <1>t, <2>1 DEF HasTxs
    <3>1. b \in Block /\ x \in Tx
      BY TxTypes
    <3>2. CASE x \in TxsOf[job.block]
      BY <1>t, <2>2, <3>1, <3>2, TxTypes
    <3>3. CASE x \notin TxsOf[job.block]
      BY <2>1, <2>2, <3>1, <3>3 DEF Matches, HasTxs
    <3> QED
      BY <3>2, <3>3
  <2>5. HasBlock'
    BY <1>t, <2>1, <2>2 DEF HasBlock, Matches, Confirmed
  <2> QED
    BY <2>3, <2>4, <2>5 DEF Matches
<1>2. CASE PruneMempool
  <2>1. /\ Processed' = Processed /\ Stored' = Stored /\ job.at = "import"
        /\ job'.at = "import" /\ job'.block = job.block /\ job'.height = job.height
        /\ "txs" \notin job'.left => "txs" \notin job.left
    BY <1>t, <1>2 DEF PruneMempool, blocks, Processed, Stored, Job
  <2>2. SameConfirmed
    <3>1. "prune" \in job.left /\ job' = [job EXCEPT !.left = @ \ {"prune"}]
      BY <1>2 DEF PruneMempool
    <3>2. "prune" \notin job'.left
      BY <1>t, <3>1 DEF Job
    <3>3. ImportTxs => "prune" \in job'.left
      BY <1>t, <3>1 DEF ImportTxs, Job
    <3> QED
      BY <1>s, <3>2, <3>3
  <2>3. TxsDone'
    BY <1>t, <2>1, <2>2, TxTypes DEF TxsDone, Matches, SameConfirmed
  <2>4. HasTxs'
    BY <1>t, <2>1, <2>2, TxTypes DEF HasTxs, Matches, SameConfirmed
  <2>5. HasBlock'
    BY <1>t, <2>1, <2>2 DEF HasBlock, Matches, Confirmed, SameConfirmed
  <2> QED
    BY <2>3, <2>4, <2>5 DEF Matches
<1>3. CASE Write \/ Link \/ Mark
  <2>1. SameConfirmed
    <3>1. ~ImportTxs
      BY <1>3 DEF Write, Link, Mark, ImportTxs
    <3> QED
      BY <1>s, <3>1
  <2>2. /\ job'.at \in {"link", "mark", "ask"} /\ job'.block = job.block
        /\ job'.height = job.height
        /\ \A x \in TxsOf[job.block] : txs[x] = job.height
    <3>1. job'.at \in {"link", "mark", "ask"} /\ job'.block = job.block
          /\ job'.height = job.height
      BY <1>t, <1>3, ToFields DEF Write, Link, Mark
    <3>2. (job.at = "import" /\ job.left = {}) \/ job.at \in {"link", "mark"}
      BY <1>3 DEF Write, Link, Mark
    <3> QED
      BY <3>1, <3>2 DEF Matches, TxsDone
  <2>3. Processed' \subseteq Processed \cup {job.block}
    BY <1>3, BlockWrites
  <2>4. Stored \subseteq Stored' /\ (job.at = "import" => job.block \in Stored')
    BY <1>t, <1>x, <1>3 DEF Write, Link, Mark, Stored
  <2>5. TxsDone'
    BY <1>t, <2>1, <2>2, TxTypes DEF TxsDone, SameConfirmed
  <2>6. HasTxs'
    <3> SUFFICES ASSUME "wipe" \notin torn, NEW b \in Processed', NEW x \in Own[b]
                 PROVE  txs'[x] = Height[b]
      BY <1>t DEF HasTxs
    <3>1. b \in Block /\ x \in Tx /\ Height[b] \in Nat /\ x \in TxsOf[b]
      BY TxTypes DEF Processed
    <3>2. txs[x] = Height[b]
      <4>1. CASE b = job.block
        BY <1>t, <2>2, <3>1, <4>1
      <4>2. CASE b \in Processed
        BY <1>t, <4>2 DEF Matches, HasTxs
      <4> QED
        BY <2>3, <4>1, <4>2
    <3> QED
      BY <2>1, <3>1, <3>2 DEF SameConfirmed
  <2>7. HasBlock'
    <3> SUFFICES ASSUME torn = {}, NEW x \in Tx, txs'[x] \in Nat
                 PROVE  \E b \in Stored' : x \in TxsOf[b] /\ Height[b] = txs'[x]
      BY <1>t DEF HasBlock, Confirmed
    <3>1. txs'[x] = txs[x] /\ txs[x] \in Nat
      BY <2>1 DEF SameConfirmed
    <3>2. \/ \E b \in Stored : x \in TxsOf[b] /\ Height[b] = txs[x]
          \/ job.at = "import" /\ x \in TxsOf[job.block] /\ txs[x] = job.height
      BY <1>t, <3>1 DEF Matches, HasBlock, Confirmed
    <3> QED
      BY <1>t, <2>4, <3>1, <3>2
  <2> QED
    BY <2>5, <2>6, <2>7 DEF Matches
<1> QED
  BY <1>1, <1>2, <1>3

\* Every step keeps blocks and transactions together.
LEMMA MatchesStep ==
    ASSUME IInv, Deleting, AtHeight, Matches, [Next]_vars
    PROVE  Matches'
<1>t. job \in Job
  BY DEF IInv, TypeOK
<1>1. CASE Start \/ Advance
  <2>1. SameConfirmed /\ state' = state /\ torn' = torn /\ job.at \notin {"wipe", "import"}
    BY <1>1 DEF Start, Advance, SameConfirmed, blocks
  <2>2. job'.at \in {"fetch", "finish"}
    <3>1. CASE Start
      BY <3>1 DEF Start, NoJob
    <3>2. CASE Advance
      <4>1. \E height, best : Loop(height, best)
        BY <3>2, Zenon DEF Advance
      <4> QED
        BY <4>1, LoopFields
    <3> QED
      BY <1>1, <3>1, <3>2
  <2> QED
    BY <2>1, <2>2, MatchesEnter
<1>2. CASE Fetch \/ Check \/ Reorg
  <2>1. SameConfirmed /\ state' = state /\ torn' = torn /\ job.at \notin {"wipe", "import"}
    BY <1>2 DEF Fetch, Check, Reorg, SameConfirmed, blocks
  <2>2. \/ job'.at \notin {"wipe", "import", "link", "mark"}
        \/ job'.at = "wipe" /\ job'.left = {"blocks", "txs"}
        \/ job'.at = "import" /\ "txs" \in job'.left
    <3>1. CASE Fetch
      BY <1>t, <3>1 DEF Fetch, Job
    <3>2. ASSUME NEW stage \in {"reorg", "import"}, To(stage)
          PROVE  job'.at = "reorg" \/ (job'.at = "import" /\ "txs" \in job'.left)
      BY <1>t, <3>2, ToFields
    <3>3. CASE Check \/ Reorg
      <4>1. \E o \in {"reorg", "import"} : To(o) \/ \E b : HandleReorg(b, o)
        BY <3>3 DEF Check, Reorg
      <4>2. ASSUME NEW o \in {"reorg", "import"}, NEW b, HandleReorg(b, o)
            PROVE  To(o) \/ (job'.at = "wipe" /\ job'.left = {"blocks", "txs"})
        BY <1>t, <4>2, ReorgFields
      <4> QED
        BY <3>2, <4>1, <4>2
    <3> QED
      BY <1>2, <3>1, <3>3
  <2> QED
    BY <2>1, <2>2, MatchesEnter
<1>3. CASE WipeBlocks \/ WipeTxs
  BY <1>3, MatchesWipe
<1>4. CASE ImportTxs \/ PruneMempool \/ Write \/ Link \/ Mark
  BY <1>4, MatchesImport
<1>5. CASE Reject \/ Finish
  <2>1. /\ SameConfirmed /\ state' = state /\ torn' = torn
        /\ job.at \notin {"wipe", "import"} /\ job'.at = "idle"
    BY <1>5, NoJobFields DEF Reject, Finish, SameConfirmed, blocks
  <2> QED
    BY <2>1, MatchesEnter
<1>6. CASE Announce \/ Retry
  <2>1. /\ SameConfirmed /\ state' = state /\ torn' = torn
        /\ job' = job \/ (job.at = "idle" /\ job'.at = "start")
    BY <1>6, NoJobFields DEF Announce, Retry, Begin, SameConfirmed, blocks
  <2> QED
    BY <2>1, MatchesEnter, MatchesSame
<1>7. CASE Fault \/ Crash
  <2>1. SameConfirmed /\ state' = state /\ torn' = torn \cup Torn /\ job'.at \in {"idle", "start"}
    BY <1>7, NoJobFields DEF Fault, Crash, SameConfirmed, blocks
  <2> QED
    BY <2>1, MatchesTorn
<1>8. CASE \/ NewBlock \/ UNCHANGED vars
            \/ \E t \in Tx : Receive(t) \/ RelayPrune(t) \/ RelayInsert(t)
  <2>1. state' = state /\ torn' = torn /\ job' = job
    BY <1>8 DEF NewBlock, vars, blocks, Receive, RelayPrune, RelayInsert
  <2>2. ~WipeTxs /\ ~ImportTxs
    <3>1. WipeTxs \/ ImportTxs => job'.left # job.left \/ job'.at # job.at
      BY <1>t, ToFields, DoneFields DEF WipeTxs, ImportTxs, Job
    <3> QED
      BY <2>1, <3>1
  <2>3. SameConfirmed
    BY <2>2, ConfirmedSame
  <2> QED
    BY <2>1, <2>3, MatchesSame
<1> QED
  BY <1>1, <1>2, <1>3, <1>4, <1>5, <1>6, <1>7, <1>8 DEF Next, Step

\* At rest nothing is missing and nothing is left over.
LEMMA MatchesImply ==
    ASSUME IInv, Matches
    PROVE  TxsMatchBlocks
<1>1. TxsOfProcessed
  BY DEF TxsOfProcessed, Matches, HasTxs
<1>2. ConfirmedInBlock
  <2> SUFFICES ASSUME AtRest, torn = {}, NEW t \in Tx, txs[t] # Absent, txs[t] >= 0
               PROVE  \E b \in Stored : t \in TxsOf[b] /\ Height[b] = txs[t]
    BY DEF ConfirmedInBlock
  <2>1. txs[t] \in Nat
    BY DEF IInv, TypeOK, pending, conflicting
  <2> QED
    BY <2>1 DEF AtRest, Matches, HasBlock, Confirmed
<1> QED
  BY <1>1, <1>2 DEF TxsMatchBlocks

-----------------------------------------------------------------------------
\* All of it

SyncInv == /\ IInv /\ Deleting /\ AtHeight
           /\ Heavier /\ NoneHigher /\ Upwards /\ Arrived
           /\ Onto /\ Matches

\* start() begins with an empty database.
LEMMA InitIInv == Init => IInv
<1> SUFFICES ASSUME Init PROVE IInv
  OBVIOUS
<1>1. First \in Block
  BY TreeAssumption DEF First
<1>2. job \in Job /\ job.at = "start"
  BY IdleTypes DEF Init, NoJob
<1>3. TypeOK
  <2>1. /\ state \in [Block -> {"none", "written", "processed"}]
        /\ next \in [Block -> Block \cup {Root}]
        /\ txs \in [Tx -> Nat \cup {pending, conflicting, Absent}]
        /\ relay \in [Tx -> SUBSET {"prune", "insert"}] /\ seen \subseteq Tx
    BY DEF Init
  <2>2. complete \in BOOLEAN /\ retry \in BOOLEAN /\ news \in BOOLEAN
    BY DEF Init
  <2>3. /\ peer \in Block /\ fetched \in Block \cup {Root}
        /\ faults \in 0 .. MaxFaults /\ torn \subseteq {"wipe", "import"}
    BY <1>1, FaultAssumption DEF Init
  <2> QED
    BY <1>2, <2>1, <2>2, <2>3 DEF TypeOK
<1> QED
  BY <1>2, <1>3 DEF IInv, AtBlock

\* An empty database is in order.
LEMMA InitSync == Init => SyncInv
<1> SUFFICES ASSUME Init PROVE SyncInv
  OBVIOUS
<1>1. IInv
  BY InitIInv
<1>2. /\ job.at = "start" /\ Processed = {} /\ Stored = {} /\ fetched \notin Block
      /\ \A x \in Tx : txs[x] = Absent
  BY NoJobFields, TreeAssumption DEF Init, Processed, Stored
<1>3. Deleting /\ AtHeight /\ Upwards /\ Arrived /\ Onto
  BY <1>2 DEF Deleting, AtHeight, Upwards, Arrived, Onto, AtBlock
<1>4. Heavier /\ NoneHigher
  BY <1>2 DEF Heavier, NoneHigher
<1>5. Matches
  BY <1>2, TxAssumption DEF Matches, TxsDone, HasTxs, HasBlock, Confirmed
<1> QED
  BY <1>1, <1>3, <1>4, <1>5 DEF SyncInv

\* Every step keeps it.
LEMMA SyncStep ==
    ASSUME SyncInv, [Next]_vars
    PROVE  SyncInv'
<1>1. /\ IInv /\ Deleting /\ AtHeight /\ Heavier /\ NoneHigher /\ Upwards /\ Arrived
      /\ Onto /\ Matches
  BY DEF SyncInv
<1>2. IInv'
  BY <1>1, TypesStep, BlockStep DEF IInv
<1>3. Deleting' /\ AtHeight'
  BY <1>1, DeletingStep, AtHeightStep
<1>4. Heavier' /\ NoneHigher' /\ Upwards' /\ Arrived'
  BY <1>1, HeavierStep, NoneHigherStep, UpwardsStep, ArrivedStep
<1>5. Onto' /\ Matches'
  BY <1>1, OntoStep, MatchesStep
<1> QED
  BY <1>2, <1>3, <1>4, <1>5 DEF SyncInv

-----------------------------------------------------------------------------
\* The theorems

\* The documents, the jobs and the transactions on their way are of their types.
THEOREM TypeCorrect == Spec => []TypeOK
<1>1. Init => IInv
  BY InitIInv
<1>2. IInv /\ [Next]_vars => IInv'
  BY TypesStep, BlockStep DEF IInv
<1>3. IInv => TypeOK
  BY DEF IInv
<1> QED
  BY <1>1, <1>2, <1>3, PTL DEF Spec

\* Through every fetch, reorg, deletion, import, error and crash the block at
\* hand is the one of its height on the chain of the node, nothing stored is
\* higher than the node, what was checked is sound, and a deletion or import
\* has done to blocks and transactions what its stage says (p2p.ts, block.ts).
THEOREM SyncInvariant == Spec => []SyncInv
<1>1. Init => SyncInv
  BY InitSync
<1>2. SyncInv /\ [Next]_vars => SyncInv'
  BY SyncStep
<1> QED
  BY <1>1, <1>2, PTL DEF Spec

\* A sync that rests, with nothing on its way, has the last block of the node
\* as its tip (syncBlocks asks again when it comes to the height it knew).
THEOREM NodeFollowed == Spec => []FollowsNode
<1>1. SyncInv => FollowsNode
  BY DEF SyncInv, Arrived, FollowsNode, AtRest
<1> QED
  BY <1>1, SyncInvariant, PTL

\* Once the first sync is complete, a block is imported only when the processed
\* blocks are one chain, whatever an earlier reorg or crash has left
\* (validateLocatorHashes, handleReorg).
THEOREM OneChain == Spec => []ImportsOntoChain
<1>1. SyncInv => ImportsOntoChain
  BY OntoImplies DEF SyncInv
<1> QED
  BY <1>1, SyncInvariant, PTL

\* The transactions that only a processed block has are confirmed at its
\* height, and a confirmed transaction is one of a stored block (processBlock
\* writes them first, handleReorg deletes both).
THEOREM TxsWithBlocks == Spec => []TxsMatchBlocks
<1>1. SyncInv => TxsMatchBlocks
  BY MatchesImply DEF SyncInv
<1> QED
  BY <1>1, SyncInvariant, PTL

\* Only a block that is imported, or a deletion, changes a transaction that is
\* confirmed: what the subscription brings does not (toMempoolSafeUpsert,
\* pruneMempool).
THEOREM ConfirmedStays == Spec => ConfirmedKept
<1> DEFINE Kept == \A t \in Tx : txs[t] # Absent /\ txs[t] >= 0 /\ txs'[t] # txs[t]
                                => WipeTxs \/ ImportTxs
<1>1. TypeOK /\ [Next]_vars => [Kept]_vars
  <2> SUFFICES ASSUME TypeOK, Next, NEW t \in Tx, txs[t] # Absent, txs[t] >= 0,
                      ~WipeTxs, ~ImportTxs
               PROVE  txs'[t] = txs[t]
    OBVIOUS
  <2>1. txs[t] # pending
    BY DEF pending
  <2>2. CASE PruneMempool
    BY <2>1, <2>2 DEF PruneMempool
  <2>3. ASSUME NEW u \in Tx, RelayPrune(u) PROVE txs'[t] = txs[t]
    BY <2>1, <2>3 DEF RelayPrune
  <2>4. ASSUME NEW u \in Tx, RelayInsert(u) PROVE txs'[t] = txs[t]
    BY <2>4 DEF RelayInsert, TypeOK
  <2>5. CASE ~PruneMempool /\ \A u \in Tx : ~RelayPrune(u) /\ ~RelayInsert(u)
    BY <2>5 DEF Next, Step, Start, Fetch, Check, Reorg, WipeBlocks, Reject, Write, Link,
                Mark, Advance, Finish, Announce, Retry, NewBlock, Fault, Crash, Receive
  <2> QED
    BY <2>2, <2>3, <2>4, <2>5
<1> QED
  BY <1>1, TypeCorrect, PTL DEF Spec, ConfirmedKept

=============================================================================
