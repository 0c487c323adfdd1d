-------------------------- MODULE EvmThreads_proofs --------------------------
(***************************************************************************)
(* Proofs about EvmThreads, for any number of threads, any heights and any *)
(* number of faults, exits and restarts: its types, that no height that    *)
(* the manager has passed is lost, that syncingThreads counts the threads  *)
(* at work, and that a first sync that is complete leaves no gap.          *)
(***************************************************************************)
EXTENDS EvmThreads, FiniteSetTheorems, SequenceTheorems,
        WellFoundedInduction, TLAPS

-----------------------------------------------------------------------------
\* The inductive invariant

\* The threads with a block or an answer the manager has not dealt with.
Busy == {t \in Thread : work[t].at # "idle"}

\* The heights that are synced.
FromStart == {h \in Nat : h >= FirstHeight}

\* Nothing below the start is queued or worked on, and what is written is a
\* block the node has.
HeightsOK ==
    /\ mgr.at # "off" => mgr.syncHeight \in FromStart
    /\ mgr.syncQueue \in Seq(FromStart)
    /\ \A t \in Thread :
        /\ work[t].at # "idle" => work[t].block \in FromStart
        /\ work[t].at \in {"writing", "written"} => work[t].block <= best

\* A block that was written, or answered as found, is stored.
FoundOK ==
    \A t \in Thread :
        work[t].at = "written" \/ (work[t].at \in {"answered", "deciding"} /\ work[t].found)
            => work[t].block \in stored

\* A manager that does not sync has no thread at work, unless one has exited.
IdleOK ==
    /\ mgr.at = "off" => alive = Thread
    /\ mgr.at # "syncing" /\ alive = Thread => Busy = {}

\* What the last check for gaps found stays true.
DoneOK ==
    mgr.at = "done" /\ alive = Thread => Gaps(mgr.checked) = {}

\* What the proof of Accounted needs,
TInv == TypeOK /\ HeightsOK /\ FoundOK /\ Accounted

\* and what the proof of NoGapWhenDone adds to it.
IInv == TInv /\ IdleOK /\ CounterExact /\ DoneOK

-----------------------------------------------------------------------------
\* Heights and gaps

\* A set of heights that is not empty has a highest (getLocalTip).
LEMMA HighestIn ==
    ASSUME NEW S \in SUBSET (FirstHeight .. MaxBest), S # {}
    PROVE  Highest(S) \in S /\ \A i \in S : i <= Highest(S)
<1> DEFINE depths == {MaxBest - h : h \in S}
<1>1. depths \subseteq Nat /\ depths # {}
  <2>1. \A h \in S : MaxBest - h \in Nat
    BY HeightAssumption
  <2>2. PICK h \in S : TRUE
    OBVIOUS
  <2>3. MaxBest - h \in depths
    BY <2>2
  <2> QED
    BY <2>1, <2>3
<1>2. \E m \in depths : \A n \in depths : ~(<<n, m>> \in OpToRel(<, Nat))
  <2> HIDE DEF depths
  <2> QED
    BY <1>1, NatLessThanWellFounded, WFMin
<1>3. PICK m \in depths : \A n \in depths : ~(n < m)
  BY <1>1, <1>2 DEF OpToRel
<1>4. PICK h \in S : MaxBest - h = m
  BY <1>3
<1>5. ASSUME NEW i \in S PROVE i <= h
  <2>1. MaxBest - i \in depths /\ m \in Int
    BY <1>1, <1>3
  <2>2. ~(MaxBest - i < m)
    BY <1>3, <2>1
  <2> QED
    BY <1>4, <2>2, HeightAssumption
<1> QED
  BY <1>4, <1>5 DEF Highest

\* The gaps of the stored blocks are heights of the chain, from the start of
\* the check on (getBlockSyncGaps).
LEMMA GapsInChain ==
    ASSUME TypeOK, NEW start \in Nat, start >= FirstHeight
    PROVE  Gaps(start) \subseteq start .. MaxBest
<1> DEFINE P == {h \in processed : h >= start}
           U == {h \in stored \ processed : h >= start}
           met == IF U = {} THEN P
                  ELSE IF P # {} /\ Highest(P) < Lowest(U) THEN U \cup P ELSE U
<1>1. met \in SUBSET (FirstHeight .. MaxBest)
  BY DEF TypeOK
<1>2. Gaps(start) = IF met = {} THEN {} ELSE (start .. Highest(met)) \ met
  BY DEF Gaps
<1> HIDE DEF met
<1>3. CASE met = {}
  BY <1>2, <1>3
<1>4. CASE met # {}
  <2>1. Highest(met) \in FirstHeight .. MaxBest
    BY <1>1, <1>4, HighestIn
  <2> QED
    BY <1>2, <1>4, <2>1, HeightAssumption
<1> QED
  BY <1>3, <1>4

\* The tip is a height of the chain.
LEMMA TipInChain ==
    ASSUME TypeOK
    PROVE  TipHeight \in FirstHeight .. MaxBest
<1>1. CASE processed = {}
  BY <1>1, HeightAssumption DEF TipHeight
<1>2. CASE processed # {}
  BY <1>2, HighestIn DEF TipHeight, TypeOK
<1> QED
  BY <1>1, <1>2

-----------------------------------------------------------------------------
\* Threads and messages

\* Threads are finitely many.
LEMMA ThreadsFinite ==
    ASSUME NEW S \in SUBSET Thread
    PROVE  IsFiniteSet(S) /\ Cardinality(S) \in Nat
<1>1. IsFiniteSet(1 .. Threads)
  BY FS_Interval, ThreadAssumption
<1> QED
  BY <1>1, FS_Subset, FS_CardinalityType DEF Thread

\* A thread that is asked gets the block, and only one that runs.
LEMMA AskWork ==
    ASSUME NEW t, NEW h \in Nat
    PROVE  /\ Ask(t, h) \in Work
           /\ t \in alive => Ask(t, h).at = "asked" /\ Ask(t, h).block = h
           /\ t \notin alive => Ask(t, h).at = "idle"
<1>1. NoWork \in Work /\ NoWork.at = "idle"
  BY DEF NoWork, Work
<1>2. CASE t \in alive
  <2>1. Ask(t, h) = [at |-> "asked", block |-> h, found |-> FALSE, atTip |-> FALSE]
    BY <1>2 DEF Ask, NoWork
  <2> QED
    BY <1>2, <2>1 DEF Work
<1>3. CASE t \notin alive
  BY <1>1, <1>3 DEF Ask
<1> QED
  BY <1>2, <1>3

\* sync starts every thread that runs, from the tip on, and leaves the others.
LEMMA KickOff ==
    ASSUME TypeOK, NEW queue \in Seq(FromStart), Kick(queue)
    PROVE  /\ mgr' \in Manager
           /\ mgr'.at = "syncing" /\ mgr'.active = Cardinality(alive)
           /\ mgr'.from = mgr'.syncHeight /\ mgr'.syncHeight \in FromStart
           /\ mgr'.syncQueue \in Seq(FromStart)
           /\ work' \in [Thread -> Work]
           /\ \A t \in alive : work'[t].at = "asked" /\ work'[t].block \in FromStart
           /\ \A t \in Thread \ alive : work'[t] = work[t]
<1> DEFINE rank == [t \in Thread |-> Cardinality({u \in alive : u <= t})]
           queued == Len(queue)
           start == TipHeight
           n == Cardinality(alive)
           extra == IF n > queued THEN n - queued ELSE 0
           rest == SubSeq(queue, n + 1, queued)
           block(t) == IF rank[t] <= queued THEN queue[rank[t]]
                       ELSE start + rank[t] - queued - 1
<1>1. /\ mgr' = [at |-> "syncing", bestBlock |-> best,
                  syncHeight |-> start, from |-> start,
                  currentHeight |-> start + extra,
                  syncQueue |-> rest, active |-> n, checked |-> mgr.checked]
      /\ work' = [t \in Thread |-> IF t \notin alive THEN work[t] ELSE Ask(t, block(t))]
  BY DEF Kick
<1>2. alive \subseteq Thread /\ n \in Nat /\ queued \in Nat /\ best \in Nat
  BY ThreadsFinite, HeightAssumption DEF TypeOK
<1>3. start \in FromStart
  BY TipInChain, HeightAssumption DEF FromStart
<1>4. rest \in Seq(FromStart)
  <2>1. n + 1 \in Int /\ queued \in Int
    BY <1>2
  <2>2. \A i \in n + 1 .. queued : queue[i] \in FromStart
    BY <1>2
  <2> QED
    BY <2>1, <2>2, SubSeqProperties
<1>5. ASSUME NEW t \in alive
      PROVE  block(t) \in FromStart
  <2>1. t <= t
    BY <1>2 DEF Thread
  <2>2. {u \in alive : u <= t} \in SUBSET Thread /\ {u \in alive : u <= t} # {}
    BY <1>2, <2>1
  <2>3. rank[t] \in Nat /\ rank[t] # 0
    BY <1>2, <2>2, ThreadsFinite, FS_EmptySet
  <2> HIDE DEF rank, start, queued
  <2>4. CASE rank[t] <= queued
    BY <1>2, <2>3, <2>4 DEF queued
  <2>5. CASE ~(rank[t] <= queued)
    BY <1>2, <1>3, <2>3, <2>5, HeightAssumption DEF FromStart
  <2> QED
    BY <2>4, <2>5
<1> HIDE DEF rank, queued, start, n, extra, rest, block
<1>6. extra \in Nat /\ start \in Nat /\ start + extra \in Nat /\ rest \in Seq(Nat)
  BY <1>2, <1>3, <1>4 DEF extra, FromStart
<1>7. mgr' \in Manager
  <2>1. mgr.checked \in Nat /\ n \in Int
    BY <1>2 DEF TypeOK, Manager
  <2> QED
    BY <1>1, <1>2, <1>6, <2>1 DEF Manager
<1>8. /\ mgr'.at = "syncing" /\ mgr'.active = n /\ mgr'.syncQueue = rest
      /\ mgr'.from = start /\ mgr'.syncHeight = start
  BY <1>1
<1>9. ASSUME NEW t \in alive
      PROVE  /\ work'[t] \in Work
             /\ work'[t].at = "asked" /\ work'[t].block \in FromStart
  <2>1. work'[t] = Ask(t, block(t))
    BY <1>1, <1>2
  <2>2. block(t) \in FromStart /\ block(t) \in Nat
    BY <1>5 DEF FromStart
  <2> QED
    BY <2>1, <2>2, AskWork
<1>10. ASSUME NEW t \in Thread \ alive
       PROVE  work'[t] = work[t]
  BY <1>1
<1>11. work' \in [Thread -> Work]
  <2>1. \A t \in Thread : work'[t] \in Work
    BY <1>9, <1>10 DEF TypeOK
  <2> QED
    BY <1>1, <2>1
<1> QED
  BY <1>3, <1>4, <1>7, <1>8, <1>9, <1>10, <1>11 DEF n

-----------------------------------------------------------------------------
\* Types and heights

\* A thread that answers keeps its block, and the others their work.
LEMMA AnswerWork ==
    ASSUME TypeOK, NEW t \in Thread, NEW found \in BOOLEAN, Answer(t, found)
    PROVE  /\ work' \in [Thread -> Work]
           /\ work'[t].at = "answered" /\ work'[t].found = found
           /\ work'[t].block = work[t].block
           /\ \A u \in Thread \ {t} : work'[u] = work[u]
BY DEF Answer, TypeOK, Work

\* Nor does a thread that goes on to its next step lose its block.
LEMMA MoveWork ==
    ASSUME TypeOK, NEW t \in Thread, NEW at \in {"writing", "written"},
           work' = [work EXCEPT ![t].at = at]
    PROVE  /\ work' \in [Thread -> Work]
           /\ work'[t].at = at /\ work'[t].block = work[t].block
           /\ work'[t].found = work[t].found
           /\ \A u \in Thread \ {t} : work'[u] = work[u]
BY DEF TypeOK, Work

\* A thread that is given a block, or none.
LEMMA GiveWork ==
    ASSUME TypeOK, NEW t \in Thread, NEW w \in Work, work' = [work EXCEPT ![t] = w]
    PROVE  /\ work' \in [Thread -> Work]
           /\ work'[t] = w
           /\ \A u \in Thread \ {t} : work'[u] = work[u]
BY DEF TypeOK

\* A thread whose answer the manager looks at.
LEMMA DecideWork ==
    ASSUME TypeOK, NEW t \in Thread, AreWeAtTheTip(t)
    PROVE  /\ work' \in [Thread -> Work]
           /\ work'[t].at = "deciding" /\ work'[t].block = work[t].block
           /\ work'[t].found = work[t].found
           /\ \A u \in Thread \ {t} : work'[u] = work[u]
<1> DEFINE far(b) == b > mgr.syncHeight + Pad
<1>1. PICK tip \in BOOLEAN :
        work' = [work EXCEPT ![t].at = "deciding", ![t].atTip = tip]
  <2>1. CASE far(mgr.bestBlock)
    BY <2>1 DEF AreWeAtTheTip
  <2>2. CASE ~far(mgr.bestBlock)
    <3>1. work' = [work EXCEPT ![t].at = "deciding", ![t].atTip = ~far(best)]
      BY <2>2, Zenon DEF AreWeAtTheTip
    <3> HIDE DEF far
    <3>2. (~far(best)) = TRUE \/ (~far(best)) = FALSE
      BY Zenon
    <3> QED
      BY <3>1, <3>2, Zenon
  <2> QED
    BY <2>1, <2>2
<1> QED
  BY <1>1 DEF TypeOK, Work

\* A manager that ends, well or not, keeps its heights (finishSync),
LEMMA ManagerAt ==
    ASSUME TypeOK, NEW at \in {"failed", "done"}, mgr' = [mgr EXCEPT !.at = at]
    PROVE  /\ mgr' \in Manager /\ mgr'.at = at
           /\ mgr'.syncHeight = mgr.syncHeight /\ mgr'.from = mgr.from
           /\ mgr'.syncQueue = mgr.syncQueue /\ mgr'.active = mgr.active
BY DEF TypeOK, Manager

\* and so does one that counts a thread out (threadSync).
LEMMA ManagerActive ==
    ASSUME TypeOK, NEW at \in {mgr.at, "finishing"}, NEW active \in Int,
           mgr' = [mgr EXCEPT !.active = active, !.at = at]
    PROVE  /\ mgr' \in Manager /\ mgr'.at = at /\ mgr'.active = active
           /\ mgr'.syncHeight = mgr.syncHeight /\ mgr'.from = mgr.from
           /\ mgr'.syncQueue = mgr.syncQueue
BY DEF TypeOK, Manager

\* The initial state, and every restart, is idle.
LEMMA NewTypes == NewManager \in Manager /\ NoWork \in Work
BY DEF NewManager, Manager, NoWork, Work

\* The sync starts, or goes on with the gaps, at heights of the chain.
LEMMA KickTypes ==
    ASSUME TypeOK, HeightsOK, Sync \/ FillGaps
    PROVE  \E queue \in Seq(FromStart) : Kick(queue)
<1>1. mgr.syncQueue \in Seq(FromStart)
  BY DEF HeightsOK
<1>2. CASE Sync
  BY <1>1, <1>2 DEF Sync
<1>3. CASE FillGaps
  <2> DEFINE G == Gaps(VerifiedHeight)
  <2>1. VerifiedHeight \in FromStart
    BY HeightAssumption DEF VerifiedHeight, FromStart, TypeOK
  <2>2. G \subseteq VerifiedHeight .. MaxBest
    BY <2>1, GapsInChain DEF FromStart
  <2>3. IsFiniteSet(VerifiedHeight .. MaxBest)
    BY <2>1, FS_Interval, HeightAssumption DEF FromStart
  <2>4. G \subseteq FromStart /\ Cardinality(G) \in Nat
    <3>1. G \subseteq FromStart
      BY <2>1, <2>2, HeightAssumption DEF FromStart
    <3>2. Cardinality(G) \in Nat
      BY <2>2, <2>3, FS_Subset, FS_CardinalityType
    <3> QED
      BY <3>1, <3>2
  <2>5. PICK gaps \in [1 .. Cardinality(G) -> G] : Kick(mgr.syncQueue \o gaps)
    BY <1>3 DEF FillGaps
  <2>6. gaps \in Seq(FromStart)
    BY <2>4, <2>5
  <2>7. mgr.syncQueue \o gaps \in Seq(FromStart)
    BY <1>1, <2>6, ConcatProperties
  <2> QED
    BY <2>5, <2>7
<1> QED
  BY <1>2, <1>3

\* Only a manager that has started has threads at work.
LEMMA Started ==
    ASSUME IdleOK, NEW t \in Thread, work[t].at # "idle"
    PROVE  mgr.at # "off"
BY DEF IdleOK, Busy

\* Every step keeps the types and the bounds of heights.
LEMMA TypesStep ==
    ASSUME TypeOK, HeightsOK, FoundOK, IdleOK, [Next]_vars
    PROVE  TypeOK' /\ HeightsOK'
<1> USE HeightAssumption
<1>1. CASE Sync \/ FillGaps
  <2>1. PICK queue \in Seq(FromStart) : Kick(queue)
    BY <1>1, KickTypes
  <2>2. UNCHANGED <<db, best, alive, given, used>>
    BY <1>1 DEF Sync, FillGaps
  <2>3. TypeOK'
    BY <2>1, <2>2, KickOff DEF TypeOK, db
  <2>4. HeightsOK'
    <3>1. ASSUME NEW t \in Thread
          PROVE  /\ work'[t].at # "idle" => work'[t].block \in FromStart
                 /\ work'[t].at \in {"writing", "written"} => work'[t].block <= best'
      <4>1. CASE t \in alive
        BY <2>1, <4>1, KickOff
      <4>2. CASE t \notin alive
        BY <2>1, <2>2, <4>2, KickOff DEF HeightsOK
      <4> QED
        BY <4>1, <4>2
    <3> QED
      BY <2>1, <3>1, KickOff DEF HeightsOK
  <2> QED
    BY <2>3, <2>4
<1>2. CASE Finish
  BY <1>2 DEF Finish, TypeOK, HeightsOK, Manager, VerifiedHeight
<1>3. CASE FinishFails
  <2>1. /\ mgr' = [mgr EXCEPT !.at = "failed"]
        /\ UNCHANGED <<stored, processed, verified, best, work, alive, given>>
    BY <1>3 DEF FinishFails, db
  <2>2. used' \in [faults : 0 .. MaxFaults, exits : 0 .. MaxExits,
                    restarts : 0 .. MaxRestarts]
    BY <1>3, BoundAssumption DEF FinishFails, TypeOK
  <2>3. mgr' \in Manager /\ mgr'.syncHeight = mgr.syncHeight
        /\ mgr'.syncQueue = mgr.syncQueue
    BY <2>1, ManagerAt
  <2>4. TypeOK'
    BY <2>1, <2>2, <2>3 DEF TypeOK
  <2>5. HeightsOK'
    BY <1>3, <2>1, <2>3 DEF HeightsOK, FinishFails
  <2> QED
    BY <2>4, <2>5
<1>4. ASSUME NEW t \in Thread, AreWeAtTheTip(t)
      PROVE  TypeOK' /\ HeightsOK'
  <2>1. mgr' \in Manager /\ mgr'.at = mgr.at /\ mgr'.syncHeight = mgr.syncHeight
        /\ mgr'.syncQueue = mgr.syncQueue
    BY <1>4 DEF AreWeAtTheTip, TypeOK, Manager
  <2>2. UNCHANGED <<stored, processed, verified, best, alive, given, used>>
    BY <1>4 DEF AreWeAtTheTip, db
  <2>3. TypeOK'
    BY <1>4, <2>1, <2>2, DecideWork DEF TypeOK
  <2>4. HeightsOK'
    BY <1>4, <2>1, <2>2, DecideWork DEF HeightsOK, AreWeAtTheTip
  <2> QED
    BY <2>3, <2>4
<1>5. ASSUME NEW t \in Thread, GiveNext(t)
      PROVE  TypeOK' /\ HeightsOK'
  <2> DEFINE q == mgr.syncQueue
             h == IF q = <<>> THEN mgr.syncHeight ELSE Head(q)
  <2>1. /\ work' = [work EXCEPT ![t] = Ask(t, h)]
        /\ mgr' = [mgr EXCEPT
                !.syncQueue = IF q = <<>> THEN q ELSE Tail(q),
                !.syncHeight = IF q = <<>> THEN @ + 1 ELSE @,
                !.currentHeight = IF work[t].block > @ THEN work[t].block ELSE @]
        /\ given' = given \cup Returned(t, h)
        /\ UNCHANGED <<stored, processed, verified, best, alive, used>>
    BY <1>5 DEF GiveNext, db
  <2>2. mgr.at # "off" /\ work[t].block \in Nat
    BY <1>5, Started DEF GiveNext, TypeOK, Work
  <2>3. mgr.syncHeight \in FromStart /\ mgr.syncHeight + 1 \in FromStart
    BY <2>2 DEF HeightsOK, FromStart
  <2>4. q \in Seq(FromStart) /\ q \in Seq(Nat)
    BY DEF HeightsOK, TypeOK, Manager
  <2>5. /\ h \in FromStart
        /\ q # <<>> => Tail(q) \in Seq(FromStart) /\ Tail(q) \in Seq(Nat)
    BY <2>3, <2>4, HeadTailProperties
  <2> HIDE DEF h
  <2>6. h \in Nat /\ mgr.syncHeight + 1 \in Nat
    BY <2>3, <2>5 DEF FromStart
  <2>7. /\ mgr' \in Manager /\ mgr'.at = mgr.at
        /\ mgr'.syncHeight \in FromStart /\ mgr'.syncQueue \in Seq(FromStart)
    BY <2>1, <2>2, <2>3, <2>4, <2>5, <2>6 DEF TypeOK, Manager
  <2>8. TypeOK'
    BY <2>1, <2>6, <2>7, AskWork, GiveWork DEF TypeOK, Returned
  <2>9. HeightsOK'
    BY <2>1, <2>5, <2>6, <2>7, AskWork, GiveWork DEF HeightsOK
  <2> QED
    BY <2>8, <2>9
<1>6. ASSUME NEW t \in Thread, GiveAgain(t)
      PROVE  TypeOK' /\ HeightsOK'
  <2>1. work[t].block \in FromStart /\ work[t].block \in Nat
    BY <1>6 DEF GiveAgain, HeightsOK, TypeOK, Work
  <2>2. /\ work' = [work EXCEPT ![t] = Ask(t, work[t].block)]
        /\ given' = given \cup Returned(t, work[t].block)
        /\ UNCHANGED <<stored, processed, verified, best, mgr, alive, used>>
    BY <1>6 DEF GiveAgain, db
  <2>3. TypeOK'
    BY <2>1, <2>2, AskWork, GiveWork DEF TypeOK, Returned
  <2>4. HeightsOK'
    BY <2>1, <2>2, AskWork, GiveWork DEF HeightsOK
  <2> QED
    BY <2>3, <2>4
<1>7. ASSUME NEW t \in Thread, Retire(t)
      PROVE  TypeOK' /\ HeightsOK'
  <2>1. /\ mgr' \in Manager /\ mgr'.syncHeight = mgr.syncHeight
        /\ mgr'.syncQueue = mgr.syncQueue /\ (mgr.at = mgr'.at \/ mgr'.at = "finishing")
    <3> DEFINE at == IF mgr.active = 1 THEN "finishing" ELSE mgr.at
    <3>1. mgr' = [mgr EXCEPT !.active = mgr.active - 1, !.at = at]
      BY <1>7 DEF Retire, TypeOK, Manager
    <3>2. mgr.active - 1 \in Int
      BY DEF TypeOK, Manager
    <3> QED
      BY <3>1, <3>2, ManagerActive
  <2>2. /\ work' = [work EXCEPT ![t] = NoWork]
        /\ given' \subseteq given \cup {work[t].block}
        /\ UNCHANGED <<stored, processed, verified, best, alive, used>>
    BY <1>7 DEF Retire, db
  <2>3. TypeOK'
    BY <2>1, <2>2, NewTypes, GiveWork DEF TypeOK, Work
  <2>4. HeightsOK'
    <3>1. mgr.at # "off"
      BY <1>7, Started DEF Retire
    <3> QED
      BY <2>1, <2>2, <3>1, NewTypes, GiveWork DEF HeightsOK, NoWork
  <2> QED
    BY <2>3, <2>4
<1>8. ASSUME NEW t \in Thread, Fetch(t)
      PROVE  TypeOK' /\ HeightsOK'
  <2>1. UNCHANGED <<stored, processed, verified, best, mgr, alive, given, used>>
    BY <1>8 DEF Fetch, db
  <2>2. CASE work[t].block <= best
    <3>1. work' = [work EXCEPT ![t].at = "writing"]
      BY <1>8, <2>2 DEF Fetch
    <3>2. TypeOK'
      BY <2>1, <3>1, MoveWork DEF TypeOK
    <3>3. HeightsOK'
      BY <1>8, <2>1, <2>2, <3>1, MoveWork DEF HeightsOK, Fetch
    <3> QED
      BY <3>2, <3>3
  <2>3. CASE ~(work[t].block <= best)
    <3>1. Answer(t, FALSE)
      BY <1>8, <2>3 DEF Fetch
    <3>2. TypeOK'
      BY <2>1, <3>1, AnswerWork DEF TypeOK
    <3>3. HeightsOK'
      BY <1>8, <2>1, <3>1, AnswerWork DEF HeightsOK, Fetch
    <3> QED
      BY <3>2, <3>3
  <2> QED
    BY <2>2, <2>3
<1>9. ASSUME NEW t \in Thread, Write(t)
      PROVE  TypeOK' /\ HeightsOK'
  <2>1. /\ stored' = stored \cup {work[t].block} /\ processed' = processed \ {work[t].block}
        /\ work' = [work EXCEPT ![t].at = "written"]
        /\ UNCHANGED <<verified, best, mgr, alive, given, used>>
    BY <1>9 DEF Write
  <2>2. work[t].block \in FirstHeight .. MaxBest
    BY <1>9 DEF Write, HeightsOK, FromStart, TypeOK
  <2>3. TypeOK'
    BY <2>1, <2>2, MoveWork DEF TypeOK
  <2>4. HeightsOK'
    BY <1>9, <2>1, MoveWork DEF HeightsOK, Write
  <2> QED
    BY <2>3, <2>4
<1>10. ASSUME NEW t \in Thread, Mark(t)
       PROVE  TypeOK' /\ HeightsOK'
  <2>1. /\ processed' = processed \cup {work[t].block} /\ Answer(t, TRUE)
        /\ UNCHANGED <<stored, verified, best, mgr, alive, given, used>>
    BY <1>10 DEF Mark
  <2>2. work[t].block \in stored
    BY <1>10 DEF Mark, FoundOK
  <2>3. TypeOK'
    BY <2>1, <2>2, AnswerWork DEF TypeOK
  <2>4. HeightsOK'
    BY <1>10, <2>1, AnswerWork DEF HeightsOK, Mark
  <2> QED
    BY <2>3, <2>4
<1>11. ASSUME NEW t \in Thread, Fail(t)
       PROVE  TypeOK' /\ HeightsOK'
  <2>1. /\ Answer(t, FALSE)
        /\ UNCHANGED <<stored, processed, verified, best, mgr, alive, given>>
    BY <1>11 DEF Fail, db
  <2>2. used' \in [faults : 0 .. MaxFaults, exits : 0 .. MaxExits,
                    restarts : 0 .. MaxRestarts]
    BY <1>11, BoundAssumption DEF Fail, TypeOK
  <2>3. TypeOK'
    BY <2>1, <2>2, AnswerWork DEF TypeOK
  <2>4. HeightsOK'
    BY <1>11, <2>1, AnswerWork DEF HeightsOK, Fail
  <2> QED
    BY <2>3, <2>4
<1>12. ASSUME NEW t \in Thread, Exit(t)
       PROVE  TypeOK' /\ HeightsOK'
  <2>1. /\ mgr' \in Manager /\ mgr'.at = mgr.at /\ mgr'.syncHeight = mgr.syncHeight
        /\ mgr'.syncQueue = mgr.syncQueue
    <3>1. mgr' = [mgr EXCEPT !.active = mgr.active - 1, !.at = mgr.at]
      BY <1>12 DEF Exit, TypeOK, Manager
    <3>2. mgr.active - 1 \in Int
      BY DEF TypeOK, Manager
    <3> QED
      BY <3>1, <3>2, ManagerActive
  <2>2. used' \in [faults : 0 .. MaxFaults, exits : 0 .. MaxExits,
                    restarts : 0 .. MaxRestarts]
    BY <1>12, BoundAssumption DEF Exit, TypeOK
  <2>3. /\ alive' \subseteq Thread /\ given' \subseteq Nat
        /\ UNCHANGED <<stored, processed, verified, best>>
    BY <1>12 DEF Exit, TypeOK, Work, db
  <2>4. work' = work \/ work' = [work EXCEPT ![t] = NoWork]
    BY <1>12 DEF Exit
  <2>5. TypeOK'
    BY <2>1, <2>2, <2>3, <2>4, NewTypes, GiveWork DEF TypeOK
  <2>6. HeightsOK'
    <3>1. CASE work' = work
      BY <2>1, <2>3, <3>1 DEF HeightsOK
    <3>2. CASE work' = [work EXCEPT ![t] = NoWork]
      BY <2>1, <2>3, <3>2, NewTypes, GiveWork DEF HeightsOK, NoWork
    <3> QED
      BY <2>4, <3>1, <3>2
  <2> QED
    BY <2>5, <2>6
<1>13. CASE NewBlock
  BY <1>13 DEF NewBlock, TypeOK, HeightsOK, Work, db
<1>14. CASE Restart
  <2>1. TypeOK'
    BY <1>14, BoundAssumption, NewTypes DEF Restart, TypeOK, db
  <2>2. HeightsOK'
    BY <1>14 DEF Restart, HeightsOK, NewManager, NoWork
  <2> QED
    BY <2>1, <2>2
<1>15. CASE UNCHANGED vars
  BY <1>15 DEF vars, TypeOK, HeightsOK
<1> QED
  BY <1>1, <1>2, <1>3, <1>4, <1>5, <1>6, <1>7, <1>8, <1>9, <1>10, <1>11,
     <1>12, <1>13, <1>14, <1>15 DEF Next, Manage, RunThread

-----------------------------------------------------------------------------
\* What is stored, and what is accounted for

\* Thread t has a block that it, or an earlier one, has stored.
Known(t) ==
    work[t].at = "written" \/ (work[t].at \in {"answered", "deciding"} /\ work[t].found)

\* No step takes back a stored block or tells of one that is not stored.
LEMMA FoundStep ==
    ASSUME TypeOK, HeightsOK, FoundOK, [Next]_vars
    PROVE  FoundOK' /\ stored \subseteq stored'
<1>1. \A t \in Thread : Known(t) => work[t].block \in stored
  BY DEF FoundOK, Known
<1>2. SUFFICES /\ \A t \in Thread : Known(t)' => work'[t].block \in stored'
               /\ stored \subseteq stored'
  BY DEF FoundOK, Known
<1>3. CASE Sync \/ FillGaps
  <2>1. PICK queue \in Seq(FromStart) : Kick(queue)
    BY <1>3, KickTypes
  <2>2. stored' = stored
    BY <1>3 DEF Sync, FillGaps, db
  <2>3. ASSUME NEW t \in Thread, Known(t)'
        PROVE  work'[t].block \in stored
    <3>1. t \notin alive
      BY <2>1, <2>3, KickOff DEF Known
    <3>2. work'[t] = work[t]
      BY <2>1, <3>1, KickOff
    <3> QED
      BY <1>1, <2>3, <3>2 DEF Known
  <2> QED
    BY <2>2, <2>3
<1>4. CASE Finish \/ FinishFails \/ NewBlock \/ UNCHANGED vars
  <2>1. work' = work /\ stored' = stored
    BY <1>4 DEF Finish, FinishFails, NewBlock, vars, db
  <2> QED
    BY <1>1, <2>1 DEF Known
<1>5. CASE Restart
  BY <1>5 DEF Restart, NoWork, Known, db
<1>6. ASSUME NEW t \in Thread, AreWeAtTheTip(t)
      PROVE  stored' = stored /\ \A u \in Thread : Known(u)' => work'[u].block \in stored
  <2>1. stored' = stored /\ work[t].at = "answered"
    BY <1>6 DEF AreWeAtTheTip, db
  <2>2. Known(t)' => work'[t].block \in stored
    BY <1>1, <1>6, <2>1, DecideWork DEF Known
  <2>3. \A u \in Thread \ {t} : Known(u)' => work'[u].block \in stored
    BY <1>1, <1>6, DecideWork DEF Known
  <2> QED
    BY <2>1, <2>2, <2>3
<1>7. ASSUME NEW t \in Thread, GiveNext(t) \/ GiveAgain(t) \/ Retire(t)
      PROVE  stored' = stored /\ \A u \in Thread : Known(u)' => work'[u].block \in stored
  <2>1. stored' = stored
    BY <1>7 DEF GiveNext, GiveAgain, Retire, db
  <2>2. \A u \in Thread \ {t} : work'[u] = work[u]
    BY <1>7 DEF GiveNext, GiveAgain, Retire, TypeOK
  <2>3. work'[t].at \in {"asked", "idle"}
    <3>1. (\E h : work'[t] = Ask(t, h)) \/ work'[t] = NoWork
      BY <1>7 DEF GiveNext, GiveAgain, Retire, TypeOK
    <3>2. NoWork.at = "idle" /\ \A h : [NoWork EXCEPT !.at = "asked", !.block = h].at = "asked"
      BY DEF NoWork
    <3> QED
      BY <3>1, <3>2 DEF Ask
  <2> QED
    BY <1>1, <2>1, <2>2, <2>3 DEF Known
<1>8. ASSUME NEW t \in Thread, Fetch(t) \/ Fail(t)
      PROVE  stored' = stored /\ \A u \in Thread : Known(u)' => work'[u].block \in stored
  <2>1. stored' = stored
    BY <1>8 DEF Fetch, Fail, db
  <2>2. work' = [work EXCEPT ![t].at = "writing"] \/ Answer(t, FALSE)
    BY <1>8 DEF Fetch, Fail
  <2>3. CASE work' = [work EXCEPT ![t].at = "writing"]
    BY <1>1, <2>1, <2>3, MoveWork DEF Known
  <2>4. CASE Answer(t, FALSE)
    BY <1>1, <2>1, <2>4, AnswerWork DEF Known
  <2> QED
    BY <2>1, <2>2, <2>3, <2>4
<1>9. ASSUME NEW t \in Thread, Write(t)
      PROVE  stored \subseteq stored' /\ \A u \in Thread : Known(u)' => work'[u].block \in stored'
  <2>1. stored' = stored \cup {work[t].block} /\ work' = [work EXCEPT ![t].at = "written"]
    BY <1>9 DEF Write
  <2> QED
    BY <1>1, <2>1, MoveWork DEF Known
<1>10. ASSUME NEW t \in Thread, Mark(t)
       PROVE  stored' = stored /\ \A u \in Thread : Known(u)' => work'[u].block \in stored
  <2>1. stored' = stored /\ Answer(t, TRUE) /\ work[t].at = "written"
    BY <1>10 DEF Mark
  <2> QED
    BY <1>1, <2>1, AnswerWork DEF Known
<1>11. ASSUME NEW t \in Thread, Exit(t)
       PROVE  stored' = stored /\ \A u \in Thread : Known(u)' => work'[u].block \in stored
  <2>1. stored' = stored /\ (work' = work \/ work' = [work EXCEPT ![t] = NoWork])
    BY <1>11 DEF Exit, db
  <2>2. CASE work' = work
    BY <1>1, <2>1, <2>2 DEF Known
  <2>3. CASE work' = [work EXCEPT ![t] = NoWork]
    BY <1>1, <2>1, <2>3, NewTypes, GiveWork DEF Known, NoWork
  <2> QED
    BY <2>1, <2>2, <2>3
<1> QED
  BY <1>3, <1>4, <1>5, <1>6, <1>7, <1>8, <1>9, <1>10, <1>11 DEF Next, Manage, RunThread

\* No step loses a height that the manager has passed.
LEMMA AccountedStep ==
    ASSUME TInv, IdleOK, [Next]_vars
    PROVE  Accounted'
<1> USE DEF TInv
<1>1. stored \subseteq stored'
  BY FoundStep
<1>2. CASE Sync \/ FillGaps
  <2>1. PICK queue \in Seq(FromStart) : Kick(queue)
    BY <1>2, KickTypes
  <2>2. mgr'.from = mgr'.syncHeight /\ mgr'.syncHeight \in Int
    BY <2>1, KickOff DEF FromStart
  <2>3. mgr'.from .. mgr'.syncHeight - 1 = {}
    BY <2>2
  <2> QED
    BY <2>3 DEF Accounted
<1>3. CASE Restart
  BY <1>3 DEF Restart, NewManager, Accounted
<1>4. ASSUME mgr'.from = mgr.from, mgr'.syncHeight = mgr.syncHeight, given \subseteq given',
             \A t \in Thread : \/ work[t].at = "idle"
                               \/ work'[t].at # "idle" /\ work'[t].block = work[t].block
                               \/ work[t].block \in stored \cup given'
      PROVE  Accounted'
  <2>1. ASSUME NEW h \in mgr.from .. mgr.syncHeight - 1
        PROVE  h \in stored' \cup InFlight' \cup given'
    <3>1. CASE h \in stored \cup given
      BY <1>1, <1>4, <3>1
    <3>2. CASE h \in InFlight
      <4>1. PICK t \in Thread : work[t].at # "idle" /\ work[t].block = h
        BY <3>2 DEF InFlight
      <4> QED
        BY <1>1, <1>4, <4>1 DEF InFlight
    <3> QED
      BY <3>1, <3>2 DEF Accounted
  <2> QED
    BY <1>4, <2>1 DEF Accounted
<1>5. CASE Finish \/ FinishFails \/ NewBlock \/ UNCHANGED vars
  <2>1. /\ UNCHANGED <<work, given>>
        /\ mgr'.from = mgr.from /\ mgr'.syncHeight = mgr.syncHeight
    BY <1>5 DEF Finish, FinishFails, NewBlock, vars, TypeOK, Manager
  <2> QED
    BY <1>4, <2>1
<1>6. ASSUME NEW t \in Thread, AreWeAtTheTip(t)
      PROVE  Accounted'
  <2>1. /\ given' = given /\ mgr'.from = mgr.from /\ mgr'.syncHeight = mgr.syncHeight
    BY <1>6 DEF AreWeAtTheTip, TypeOK, Manager
  <2> QED
    BY <1>4, <1>6, <2>1, DecideWork
<1>7. ASSUME NEW t \in Thread, GiveNext(t)
      PROVE  Accounted'
  <2> DEFINE q == mgr.syncQueue
             h == IF q = <<>> THEN mgr.syncHeight ELSE Head(q)
  <2>1. /\ work' = [work EXCEPT ![t] = Ask(t, h)]
        /\ given' = given \cup Returned(t, h)
        /\ work[t].at = "deciding" /\ work[t].found
    BY <1>7 DEF GiveNext
  <2>2. work[t].block \in stored
    BY <2>1 DEF FoundOK
  <2>3. mgr.syncHeight \in Int /\ mgr.from \in Int
    BY DEF TypeOK, Manager
  <2>4. h \in Nat
    <3>1. q \in Seq(Nat) /\ mgr.syncHeight \in Nat
      BY DEF TypeOK, Manager
    <3> QED
      BY <3>1, HeadTailProperties
  <2>5. \A u \in Thread \ {t} : work'[u] = work[u]
    BY <2>1, <2>4, GiveWork, AskWork
  <2> HIDE DEF h
  <2>6. h \in InFlight' \cup given'
    <3>1. CASE t \in alive
      <4>1. /\ Ask(t, h) \in Work
            /\ Ask(t, h).at = "asked" /\ Ask(t, h).block = h
        BY <2>4, <3>1, AskWork
      <4>2. work'[t] = Ask(t, h)
        BY <2>1, <4>1, GiveWork
      <4>3. work'[t].at # "idle" /\ work'[t].block = h
        BY <4>1, <4>2
      <4> QED
        BY <4>3 DEF InFlight
    <3>2. CASE t \notin alive
      BY <2>1, <3>2 DEF Returned
    <3> QED
      BY <3>1, <3>2
  <2> USE DEF h
  <2>7. CASE q # <<>>
    <3>1. mgr'.from = mgr.from /\ mgr'.syncHeight = mgr.syncHeight
      BY <1>7, <2>7 DEF GiveNext, TypeOK, Manager
    <3> QED
      BY <1>4, <2>1, <2>2, <2>5, <3>1
  <2>8. CASE q = <<>>
    <3>1. mgr'.from = mgr.from /\ mgr'.syncHeight = mgr.syncHeight + 1
      BY <1>7, <2>8 DEF GiveNext, TypeOK, Manager
    <3>2. ASSUME NEW i \in mgr.from .. mgr.syncHeight - 1
          PROVE  i \in stored' \cup InFlight' \cup given'
      <4>1. CASE i \in stored \cup given
        BY <1>1, <2>1, <4>1
      <4>2. CASE i \in InFlight
        <5>1. PICK u \in Thread : work[u].at # "idle" /\ work[u].block = i
          BY <4>2 DEF InFlight
        <5> QED
          BY <1>1, <2>2, <2>5, <5>1 DEF InFlight
      <4> QED
        BY <4>1, <4>2 DEF Accounted
    <3>3. \A i \in mgr'.from .. mgr'.syncHeight - 1 :
            i \in mgr.from .. mgr.syncHeight - 1 \/ i = h
      BY <2>3, <2>8, <3>1
    <3> QED
      BY <2>6, <3>2, <3>3 DEF Accounted
  <2> QED
    BY <2>7, <2>8
<1>8. ASSUME NEW t \in Thread, GiveAgain(t)
      PROVE  Accounted'
  <2>1. /\ work' = [work EXCEPT ![t] = Ask(t, work[t].block)]
        /\ given' = given \cup Returned(t, work[t].block) /\ mgr' = mgr
        /\ work[t].block \in Nat
    BY <1>8 DEF GiveAgain, TypeOK, Work
  <2>2. \A u \in Thread \ {t} : work'[u] = work[u]
    BY <2>1, GiveWork, AskWork
  <2>3. \/ work'[t].at # "idle" /\ work'[t].block = work[t].block
        \/ work[t].block \in given'
    <3>1. CASE t \in alive
      <4>1. /\ Ask(t, work[t].block) \in Work
            /\ Ask(t, work[t].block).at = "asked"
            /\ Ask(t, work[t].block).block = work[t].block
        BY <2>1, <3>1, AskWork
      <4>2. work'[t] = Ask(t, work[t].block)
        BY <2>1, <4>1, GiveWork
      <4> QED
        BY <4>1, <4>2
    <3>2. CASE t \notin alive
      BY <2>1, <3>2 DEF Returned
    <3> QED
      BY <3>1, <3>2
  <2> QED
    BY <1>4, <2>1, <2>2, <2>3
<1>9. ASSUME NEW t \in Thread, Retire(t)
      PROVE  Accounted'
  <2>1. /\ work' = [work EXCEPT ![t] = NoWork] /\ given \subseteq given'
        /\ mgr'.from = mgr.from /\ mgr'.syncHeight = mgr.syncHeight
        /\ work[t].found \/ work[t].block \in given'
    BY <1>9 DEF Retire, TypeOK, Manager
  <2>2. work[t].block \in stored \cup given'
    BY <1>9, <2>1 DEF Retire, FoundOK
  <2> QED
    BY <1>4, <2>1, <2>2, NewTypes, GiveWork
<1>10. ASSUME NEW t \in Thread, Fetch(t) \/ Fail(t)
       PROVE  Accounted'
  <2>1. given' = given /\ mgr' = mgr
    BY <1>10 DEF Fetch, Fail
  <2>2. work' = [work EXCEPT ![t].at = "writing"] \/ Answer(t, FALSE)
    BY <1>10 DEF Fetch, Fail
  <2>3. CASE work' = [work EXCEPT ![t].at = "writing"]
    BY <1>4, <2>1, <2>3, MoveWork
  <2>4. CASE Answer(t, FALSE)
    BY <1>4, <2>1, <2>4, AnswerWork
  <2> QED
    BY <2>2, <2>3, <2>4
<1>11. ASSUME NEW t \in Thread, Write(t)
       PROVE  Accounted'
  <2>1. given' = given /\ mgr' = mgr /\ work' = [work EXCEPT ![t].at = "written"]
    BY <1>11 DEF Write
  <2> QED
    BY <1>4, <2>1, MoveWork
<1>12. ASSUME NEW t \in Thread, Mark(t)
       PROVE  Accounted'
  <2>1. given' = given /\ mgr' = mgr /\ Answer(t, TRUE)
    BY <1>12 DEF Mark
  <2> QED
    BY <1>4, <2>1, AnswerWork
<1>13. ASSUME NEW t \in Thread, Exit(t)
       PROVE  Accounted'
  <2>1. mgr'.from = mgr.from /\ mgr'.syncHeight = mgr.syncHeight
    BY <1>13 DEF Exit, TypeOK, Manager
  <2>2. CASE work[t].at \in {"asked", "writing", "written"}
    <3>1. /\ work' = [work EXCEPT ![t] = NoWork]
          /\ given' = given \cup {work[t].block}
      BY <1>13, <2>2 DEF Exit
    <3> QED
      BY <1>4, <2>1, <3>1, NewTypes, GiveWork
  <2>3. CASE work[t].at \notin {"asked", "writing", "written"}
    <3>1. work' = work /\ given' = given
      BY <1>13, <2>3 DEF Exit
    <3> QED
      BY <1>4, <2>1, <3>1
  <2> QED
    BY <2>2, <2>3
<1> QED
  BY <1>2, <1>3, <1>5, <1>6, <1>7, <1>8, <1>9, <1>10, <1>11, <1>12, <1>13
     DEF Next, Manage, RunThread

-----------------------------------------------------------------------------
\* The count of the threads at work

\* A step that leaves as many threads at work keeps the count.
LEMMA SameBusy ==
    ASSUME IdleOK, CounterExact, alive' = alive, mgr'.at = mgr.at,
           mgr'.active = mgr.active, alive = Thread => Busy' = Busy
    PROVE  IdleOK' /\ CounterExact'
BY DEF IdleOK, CounterExact, Busy

\* A thread that goes on is at work before and after.
LEMMA StillBusy ==
    ASSUME TypeOK, IdleOK, CounterExact, NEW t \in Thread, work[t].at # "idle",
           alive = Thread => work'[t].at # "idle",
           \A u \in Thread \ {t} : work'[u] = work[u],
           alive' = alive, mgr'.at = mgr.at, mgr'.active = mgr.active
    PROVE  IdleOK' /\ CounterExact'
<1>1. alive = Thread => Busy' = Busy
  BY DEF Busy
<1> QED
  BY <1>1, SameBusy

\* Every step keeps the count of threads at work exact, and a manager that
\* does not sync without them.
LEMMA CounterStep ==
    ASSUME TypeOK, HeightsOK, IdleOK, CounterExact, [Next]_vars
    PROVE  IdleOK' /\ CounterExact'
<1>1. CASE Sync \/ FillGaps
  <2>1. PICK queue \in Seq(FromStart) : Kick(queue)
    BY <1>1, KickTypes
  <2>2. alive' = alive
    BY <1>1 DEF Sync, FillGaps
  <2>3. mgr'.at = "syncing" /\ mgr'.active = Cardinality(alive)
    BY <2>1, KickOff
  <2>4. ASSUME alive = Thread
        PROVE  {t \in Thread : work'[t].at # "idle"} = Thread
    BY <2>1, <2>4, KickOff
  <2> QED
    BY <2>2, <2>3, <2>4 DEF IdleOK, CounterExact
<1>2. CASE Finish \/ FinishFails
  <2>1. /\ mgr.at = "finishing" /\ UNCHANGED <<work, alive>>
        /\ mgr'.at \in {"done", "failed"} /\ mgr'.active = mgr.active
    BY <1>2 DEF Finish, FinishFails, TypeOK, Manager
  <2> QED
    BY <2>1 DEF IdleOK, CounterExact, Busy
<1>3. CASE NewBlock \/ UNCHANGED vars
  <2>1. UNCHANGED <<work, alive, mgr>>
    BY <1>3 DEF NewBlock, vars
  <2> QED
    BY <2>1, SameBusy DEF Busy
<1>4. CASE Restart
  BY <1>4 DEF Restart, IdleOK, CounterExact, Busy, NewManager, NoWork
<1>5. ASSUME NEW t \in Thread, AreWeAtTheTip(t)
      PROVE  IdleOK' /\ CounterExact'
  <2>1. /\ alive' = alive /\ work[t].at # "idle"
        /\ mgr'.at = mgr.at /\ mgr'.active = mgr.active
    BY <1>5 DEF AreWeAtTheTip, TypeOK, Manager
  <2> QED
    BY <1>5, <2>1, DecideWork, StillBusy
<1>6. ASSUME NEW t \in Thread, GiveNext(t) \/ GiveAgain(t)
      PROVE  IdleOK' /\ CounterExact'
  <2>1. /\ alive' = alive /\ work[t].at # "idle"
        /\ mgr'.at = mgr.at /\ mgr'.active = mgr.active
    BY <1>6 DEF GiveNext, GiveAgain, TypeOK, Manager
  <2>2. PICK h : work' = [work EXCEPT ![t] = Ask(t, h)]
    BY <1>6 DEF GiveNext, GiveAgain
  <2>3. work'[t] = Ask(t, h) /\ \A u \in Thread \ {t} : work'[u] = work[u]
    BY <2>2 DEF TypeOK
  <2>4. alive = Thread => Ask(t, h).at = "asked"
    BY DEF Ask, NoWork
  <2> QED
    BY <2>1, <2>3, <2>4, StillBusy
<1>7. ASSUME NEW t \in Thread, Fetch(t) \/ Write(t) \/ Mark(t) \/ Fail(t)
      PROVE  IdleOK' /\ CounterExact'
  <2>1. alive' = alive /\ work[t].at # "idle" /\ mgr' = mgr
    BY <1>7 DEF Fetch, Write, Mark, Fail
  <2>2. \/ \E at \in {"writing", "written"} : work' = [work EXCEPT ![t].at = at]
        \/ \E found \in BOOLEAN : Answer(t, found)
    BY <1>7 DEF Fetch, Write, Mark, Fail
  <2>3. work'[t].at # "idle" /\ \A u \in Thread \ {t} : work'[u] = work[u]
    BY <2>2, MoveWork, AnswerWork
  <2> QED
    BY <2>1, <2>3, StillBusy
<1>8. ASSUME NEW t \in Thread, Retire(t)
      PROVE  IdleOK' /\ CounterExact'
  <2>1. /\ t \in Busy /\ alive' = alive
        /\ work' = [work EXCEPT ![t] = NoWork]
    BY <1>8 DEF Retire, Busy
  <2>2. /\ mgr.at # "off" /\ mgr.active \in Int
        /\ mgr.at = "finishing" => alive # Thread
    BY <2>1, Started DEF Busy, TypeOK, Manager, IdleOK
  <2>3. /\ mgr'.active = mgr.active - 1
        /\ mgr'.at = IF mgr.active = 1 THEN "finishing" ELSE mgr.at
    BY <1>8 DEF Retire, TypeOK, Manager
  <2>4. Busy' = Busy \ {t}
    BY <2>1 DEF Busy, NoWork, TypeOK
  <2>5. IsFiniteSet(Busy) /\ Cardinality(Busy) \in Nat
    BY ThreadsFinite DEF Busy
  <2>6. Cardinality(Busy') = Cardinality(Busy) - 1 /\ IsFiniteSet(Busy')
    BY <2>1, <2>4, <2>5, FS_RemoveElement
  <2>7. alive = Thread => mgr.active = Cardinality(Busy)
    BY <2>2 DEF CounterExact, Busy
  <2>8. CounterExact'
    BY <2>1, <2>2, <2>3, <2>6, <2>7 DEF CounterExact, Busy
  <2>9. IdleOK'
    <3>1. mgr'.at # "off"
      BY <2>2, <2>3
    <3>2. ASSUME mgr'.at # "syncing", alive = Thread
          PROVE  Busy' = {}
      <4>1. mgr.active = 1
        BY <2>1, <2>3, <3>2 DEF IdleOK
      <4>2. Cardinality(Busy') = 0
        BY <2>5, <2>6, <2>7, <3>2, <4>1
      <4> QED
        BY <2>6, <4>2, FS_EmptySet
    <3> QED
      BY <2>1, <3>1, <3>2 DEF IdleOK
  <2> QED
    BY <2>8, <2>9
<1>9. ASSUME NEW t \in Thread, Exit(t)
      PROVE  IdleOK' /\ CounterExact'
  <2>1. mgr'.at = "syncing" /\ alive' # Thread
    BY <1>9 DEF Exit, TypeOK, Manager
  <2> QED
    BY <2>1 DEF IdleOK, CounterExact
<1> QED
  BY <1>1, <1>2, <1>3, <1>4, <1>5, <1>6, <1>7, <1>8, <1>9 DEF Next, Manage, RunThread

\* What is complete stays complete until a restart.
LEMMA DoneStep ==
    ASSUME TypeOK, HeightsOK, IdleOK, DoneOK, [Next]_vars
    PROVE  DoneOK'
<1>1. SUFFICES ASSUME mgr'.at = "done", alive' = Thread
               PROVE  Gaps(mgr.checked)' = {}
  BY DEF DoneOK
<1>2. CASE Finish
  <2>1. /\ Gaps(VerifiedHeight) = {} /\ mgr'.checked = VerifiedHeight
        /\ UNCHANGED <<stored, processed>>
    BY <1>2 DEF Finish, TypeOK, Manager
  <2> QED
    BY <2>1 DEF Gaps
<1>3. CASE NewBlock \/ UNCHANGED vars
  <2>1. UNCHANGED <<stored, processed, mgr, alive>>
    BY <1>3 DEF NewBlock, vars, db
  <2> QED
    BY <1>1, <2>1 DEF Gaps, DoneOK
<1>4. CASE Sync \/ FillGaps
  <2>1. PICK queue \in Seq(FromStart) : Kick(queue)
    BY <1>4, KickTypes
  <2> QED
    BY <1>1, <2>1, KickOff
<1>5. CASE FinishFails
  BY <1>1, <1>5 DEF FinishFails, TypeOK, Manager
<1>6. CASE Restart
  BY <1>1, <1>6 DEF Restart, NewManager
<1>7. ASSUME NEW t \in Thread, Manage(t) \/ RunThread(t) \/ Fail(t) \/ Exit(t)
      PROVE  FALSE
  <2>1. ~Exit(t)
    BY <1>1 DEF Exit, TypeOK, Manager
  <2>2. work[t].at # "idle" /\ alive' = alive
    BY <1>7, <2>1 DEF Manage, RunThread, AreWeAtTheTip, GiveNext, GiveAgain, Retire,
                      Fetch, Write, Mark, Fail
  <2>3. mgr.at = "syncing"
    BY <1>1, <2>2 DEF IdleOK, Busy
  <2>4. mgr'.at \in {mgr.at, "finishing"}
    BY <1>7, <2>1 DEF Manage, RunThread, AreWeAtTheTip, GiveNext, GiveAgain, Retire,
                      Fetch, Write, Mark, Fail, TypeOK, Manager
  <2> QED
    BY <1>1, <2>3, <2>4
<1> QED
  BY <1>2, <1>3, <1>4, <1>5, <1>6, <1>7 DEF Next

-----------------------------------------------------------------------------
\* The theorems

\* The invariant holds at the beginning and in every step.
THEOREM Invariance == Spec => []IInv
<1>1. Init => IInv
  <2> SUFFICES ASSUME Init PROVE IInv
    OBVIOUS
  <2>1. TypeOK
    BY HeightAssumption, BoundAssumption, NewTypes DEF Init, TypeOK
  <2>2. HeightsOK /\ FoundOK /\ Accounted /\ IdleOK /\ CounterExact /\ DoneOK
    BY DEF Init, HeightsOK, FoundOK, Accounted, IdleOK, CounterExact, DoneOK,
           Busy, NewManager, NoWork
  <2> QED
    BY <2>1, <2>2 DEF IInv, TInv
<1>2. IInv /\ [Next]_vars => IInv'
  <2> SUFFICES ASSUME IInv, [Next]_vars PROVE IInv'
    OBVIOUS
  <2>1. TypeOK' /\ HeightsOK'
    BY TypesStep DEF IInv, TInv
  <2>2. FoundOK'
    BY FoundStep DEF IInv, TInv
  <2>3. Accounted'
    BY AccountedStep DEF IInv
  <2>4. IdleOK' /\ CounterExact'
    BY CounterStep DEF IInv, TInv
  <2>5. DoneOK'
    BY DoneStep DEF IInv, TInv
  <2> QED
    BY <2>1, <2>2, <2>3, <2>4, <2>5 DEF IInv, TInv
<1> QED
  BY <1>1, <1>2, PTL DEF Spec

\* The heights of the database, of the manager and of the threads are of their
\* types; no block is marked as processed that is not stored (syncBlock).
THEOREM TypeCorrect == Spec => []TypeOK
<1>1. IInv => TypeOK
  BY DEF IInv, TInv
<1> QED
  BY <1>1, Invariance, PTL

\* threadSync never passes a height without storing it, leaving it to a thread
\* or giving it back.
THEOREM NoHeightLost == Spec => []Accounted
<1>1. IInv => Accounted
  BY DEF IInv, TInv
<1> QED
  BY <1>1, Invariance, PTL

\* syncingThreads is the number of threads at work, as long as none exits.
THEOREM CountIsExact == Spec => []CounterExact
<1>1. IInv => CounterExact
  BY DEF IInv
<1> QED
  BY <1>1, Invariance, PTL

\* A first sync that is complete leaves no gap above the start of its check
\* (finishSync), unless a write was torn or a thread has exited.
THEOREM CompleteHasNoGap == Spec => []NoGapWhenDone
<1>1. IInv => NoGapWhenDone
  <2> SUFFICES ASSUME IInv, mgr.at = "done", stored = processed, stored # {},
                      alive = Thread, NEW h \in mgr.checked .. TipHeight
               PROVE  h \in stored
    BY DEF NoGapWhenDone
  <2> DEFINE P == {i \in processed : i >= mgr.checked}
             U == {i \in stored \ processed : i >= mgr.checked}
  <2>1. TypeOK /\ Gaps(mgr.checked) = {}
    BY DEF IInv, TInv, DoneOK
  <2>2. /\ TipHeight = Highest(processed) /\ TipHeight \in processed
        /\ \A i \in processed : i <= TipHeight
    BY <2>1, HighestIn DEF TipHeight, TypeOK
  <2>3. processed \subseteq FirstHeight .. MaxBest /\ mgr.checked \in Nat
    BY <2>1 DEF TypeOK, Manager
  <2>4. TipHeight \in P
    BY <2>2, <2>3, HeightAssumption
  <2>5. Highest(P) = TipHeight
    <3>1. P \in SUBSET (FirstHeight .. MaxBest)
      BY <2>3
    <3>2. Highest(P) \in P /\ \A i \in P : i <= Highest(P)
      BY <2>4, <3>1, HighestIn
    <3>3. Highest(P) <= TipHeight /\ TipHeight <= Highest(P)
      BY <2>2, <2>4, <3>2
    <3>4. Highest(P) \in Int /\ TipHeight \in Int
      <4>1. Highest(P) \in FirstHeight .. MaxBest /\ TipHeight \in FirstHeight .. MaxBest
        BY <2>2, <2>3, <3>1, <3>2
      <4> QED
        BY <4>1, HeightAssumption
    <3> QED
      BY <3>3, <3>4
  <2>6. Gaps(mgr.checked) = (mgr.checked .. Highest(P)) \ P
    <3>1. U = {} /\ P # {}
      BY <2>4
    <3> QED
      BY <3>1 DEF Gaps
  <2> QED
    BY <2>1, <2>5, <2>6
<1> QED
  BY <1>1, Invariance, PTL

=============================================================================
