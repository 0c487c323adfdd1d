----------------------------- MODULE EvmThreads -----------------------------
(***************************************************************************)
(* The first sync of an account chain: class MultiThreadSync of            *)
(* providers/chain-state/evm/p2p/sync.ts, its threads (syncWorker.ts), and *)
(* what they write to the blocks collection (evm/models/block.ts).         *)
(*                                                                         *)
(* The manager gives block numbers to threads; a thread fetches a block    *)
(* from the node, writes it, unprocessed, and then marks it as processed.  *)
(* When no thread is at work the manager looks for gaps in what is stored, *)
(* gives those out the same way, and is done when there are none.          *)
(*                                                                         *)
(* A block is its height: nothing looks at hashes before the first sync is *)
(* complete.  The messages of a thread and the awaits of the manager are   *)
(* steps of their own.  A restart loses all but the database.              *)
(***************************************************************************)
EXTENDS Integers, FiniteSets, Sequences

CONSTANTS Threads,      \* how many threads
          FirstHeight,  \* syncStartHeight
          FirstBest,    \* the height of the node at the beginning
          MaxBest,      \* and the bound of its growth
          Pad,          \* mtSyncTipPad
          MaxFaults,    \* bound on failing calls of threads
          MaxExits,     \* bound on threads that exit
          MaxRestarts   \* bound on restarts of the process

ASSUME HeightAssumption ==
    /\ FirstHeight \in Nat /\ FirstBest \in Nat /\ MaxBest \in Nat
    /\ FirstHeight <= FirstBest /\ FirstBest <= MaxBest
ASSUME ThreadAssumption == Threads \in Nat \ {0} /\ Pad \in Nat
ASSUME BoundAssumption ==
    MaxFaults \in Nat /\ MaxExits \in Nat /\ MaxRestarts \in Nat

Thread == 1 .. Threads

VARIABLES stored,    \* the heights of the blocks of the database
          processed, \* those marked as processed
          verified,  \* verifiedBlockHeight of the state document
          best,      \* the height of the node
          mgr,       \* the manager
          work,      \* what each thread works on, or has answered
          alive,     \* the threads that have not exited
          given,     \* history: blocks a thread returned without storing them
          used       \* how many faults, exits and restarts there were

vars == <<stored, processed, verified, best, mgr, work, alive, given, used>>

-----------------------------------------------------------------------------
\* State

Manager == [at            : {"off", "syncing", "finishing", "failed", "done"},
            bestBlock     : Nat,
            syncHeight    : Nat,
            currentHeight : Nat,
            syncQueue     : Seq(Nat),
            active        : Int,     \* syncingThreads
            from          : Nat,     \* where this sync has started
            checked       : Nat]     \* where the last check for gaps started

NewManager == [at |-> "off", bestBlock |-> 0, syncHeight |-> 0,
               currentHeight |-> 0, syncQueue |-> <<>>, active |-> 0,
               from |-> 0, checked |-> 0]

\* A thread has nothing to do, has been given a block, writes it, or has
\* answered; the manager then asks the node for its height and decides.
Work == [at    : {"idle", "asked", "writing", "written", "answered", "deciding"},
         block : Nat,
         found : BOOLEAN,
         atTip : BOOLEAN]

NoWork == [at |-> "idle", block |-> 0, found |-> FALSE, atTip |-> FALSE]

TypeOK ==
    /\ stored \subseteq FirstHeight .. MaxBest
    /\ processed \subseteq stored
    /\ verified \in Nat
    /\ best \in FirstBest .. MaxBest
    /\ mgr \in Manager
    /\ work \in [Thread -> Work]
    /\ alive \subseteq Thread
    /\ given \subseteq Nat
    /\ used \in [faults : 0 .. MaxFaults, exits : 0 .. MaxExits,
                 restarts : 0 .. MaxRestarts]

Init ==
    /\ stored = {} /\ processed = {}
    /\ verified = 0
    /\ best = FirstBest
    /\ mgr = NewManager
    /\ work = [t \in Thread |-> NoWork]
    /\ alive = Thread
    /\ given = {}
    /\ used = [faults |-> 0, exits |-> 0, restarts |-> 0]

db == <<stored, processed, verified>>

Highest(S) == CHOOSE h \in S : \A i \in S : i <= h
Lowest(S)  == CHOOSE h \in S : \A i \in S : h <= i

\* getLocalTip, or the configured start.
TipHeight == IF processed = {} THEN FirstHeight ELSE Highest(processed)

-----------------------------------------------------------------------------
\* The manager

\* A thread is given a block; a message to one that has exited is lost.
Ask(t, h) ==
    IF t \in alive THEN [NoWork EXCEPT !.at = "asked", !.block = h] ELSE NoWork

\* What is given back when thread t is sent block h.
Returned(t, h) == IF t \in alive THEN {} ELSE {h}

\* sync: start again from the tip.  The threads get what is queued, and then
\* the heights from currentHeight on; syncHeight stays at the tip.
Kick(queue) ==
    LET rank == [t \in Thread |-> Cardinality({u \in alive : u <= t})]
        queued == Len(queue)
        start == TipHeight
        extra == IF Cardinality(alive) > queued
                 THEN Cardinality(alive) - queued ELSE 0
    IN  /\ mgr' = [at |-> "syncing", bestBlock |-> best,
                   syncHeight |-> start, from |-> start,
                   currentHeight |-> start + extra,
                   syncQueue |-> SubSeq(queue, Cardinality(alive) + 1, queued),
                   active |-> Cardinality(alive), checked |-> mgr.checked]
        /\ work' = [t \in Thread |->
                      IF t \notin alive THEN work[t]
                      ELSE Ask(t, IF rank[t] <= queued THEN queue[rank[t]]
                                  ELSE start + rank[t] - queued - 1)]

Sync ==
    /\ mgr.at = "off"
    /\ Kick(mgr.syncQueue)
    /\ UNCHANGED <<db, best, alive, given, used>>

\* threadSync starts with areWeAtTheTip, which asks the node for its height
\* unless the one known is high enough.
AreWeAtTheTip(t) ==
    /\ work[t].at = "answered"
    /\ LET far(b) == b > mgr.syncHeight + Pad
       IN  IF far(mgr.bestBlock)
           THEN /\ work' = [work EXCEPT ![t].at = "deciding", ![t].atTip = FALSE]
                /\ UNCHANGED mgr
           ELSE /\ work' = [work EXCEPT ![t].at = "deciding",
                                        ![t].atTip = ~far(best)]
                /\ mgr' = [mgr EXCEPT !.bestBlock = best]
    /\ UNCHANGED <<db, best, alive, given, used>>

\* Mutant: two numbers are taken and one is given out.
GiveNextSkips(t) ==
    /\ work[t].at = "deciding"
    /\ work[t].found
    /\ ~work[t].atTip \/ mgr.syncQueue # <<>>
    /\ LET q == mgr.syncQueue
           h == IF q = <<>> THEN mgr.syncHeight + 1 ELSE Head(q)
       IN  /\ work' = [work EXCEPT ![t] = Ask(t, h)]
           /\ mgr' = [mgr EXCEPT
                !.syncQueue = IF q = <<>> THEN q ELSE Tail(q),
                !.syncHeight = IF q = <<>> THEN @ + 2 ELSE @]
    /\ UNCHANGED <<db, best, alive, given, used>>

\* The block was found and there are more: from the queue, or the next one.
GiveNext(t) ==
    /\ work[t].at = "deciding"
    /\ work[t].found
    /\ ~work[t].atTip \/ mgr.syncQueue # <<>>
    /\ LET q == mgr.syncQueue
           h == IF q = <<>> THEN mgr.syncHeight ELSE Head(q)
       IN  /\ work' = [work EXCEPT ![t] = Ask(t, h)]
           /\ mgr' = [mgr EXCEPT
                !.syncQueue = IF q = <<>> THEN q ELSE Tail(q),
                !.syncHeight = IF q = <<>> THEN @ + 1 ELSE @,
                !.currentHeight = IF work[t].block > @ THEN work[t].block ELSE @]
           /\ given' = given \cup Returned(t, h)
    /\ UNCHANGED <<db, best, alive, used>>

\* A block that the node must have was not found: the thread tries again.
MustExist(t) == work[t].block < mgr.bestBlock /\ ~work[t].atTip

GiveAgain(t) ==
    /\ work[t].at = "deciding"
    /\ ~work[t].found
    /\ MustExist(t)
    /\ work' = [work EXCEPT ![t] = Ask(t, work[t].block)]
    /\ given' = given \cup Returned(t, work[t].block)
    /\ UNCHANGED <<db, best, mgr, alive, used>>

\* Mutant: a thread that found nothing is forgotten, and still counted.
RetireUncounted(t) ==
    /\ work[t].at = "deciding"
    /\ IF work[t].found THEN work[t].atTip /\ mgr.syncQueue = <<>>
                        ELSE ~MustExist(t)
    /\ work' = [work EXCEPT ![t] = NoWork]
    /\ LET active == IF work[t].found THEN mgr.active - 1 ELSE mgr.active
       IN  mgr' = [mgr EXCEPT !.active = active,
                              !.at = IF active = 0 THEN "finishing" ELSE @]
    /\ given' = IF work[t].found THEN given ELSE given \cup {work[t].block}
    /\ UNCHANGED <<db, best, alive, used>>

\* Otherwise the thread has nothing to do; the last one ends the sync.
Retire(t) ==
    /\ work[t].at = "deciding"
    /\ IF work[t].found THEN work[t].atTip /\ mgr.syncQueue = <<>>
                        ELSE ~MustExist(t)
    /\ work' = [work EXCEPT ![t] = NoWork]
    /\ mgr' = [mgr EXCEPT !.active = @ - 1,
                          !.at = IF mgr.active = 1 THEN "finishing" ELSE @]
    /\ given' = IF work[t].found THEN given ELSE given \cup {work[t].block}
    /\ UNCHANGED <<db, best, alive, used>>

\* getBlockSyncGaps walks down from the first block of its cursor, and counts
\* each height that the next block does not have as missing.  The cursor
\* gives the unprocessed blocks first: with any, the walk starts from the
\* highest of them, and does not get past the last of them unless every
\* processed block is lower.
Gaps(start) ==
    LET P == {h \in processed : h >= start}
        U == {h \in stored \ processed : h >= start}
        met == IF U = {} THEN P
               ELSE IF P # {} /\ Highest(P) < Lowest(U) THEN U \cup P ELSE U
    IN  IF met = {} THEN {} ELSE (start .. Highest(met)) \ met

\* Where the check for gaps starts.
VerifiedHeight == IF verified > FirstHeight THEN verified ELSE FirstHeight

\* finishSync: fill the gaps, from the lowest on,
FillGaps ==
    /\ mgr.at = "finishing"
    /\ LET G == Gaps(VerifiedHeight)
       IN  /\ G # {}
           /\ \E gaps \in [1 .. Cardinality(G) -> G] :
                /\ \A i, j \in DOMAIN gaps : i < j => gaps[i] < gaps[j]
                /\ Kick(mgr.syncQueue \o gaps)
    /\ UNCHANGED <<db, best, alive, given, used>>

\* Mutant: the sync ends without a look at the gaps.
FinishUnchecked ==
    /\ mgr.at = "finishing"
    /\ mgr' = [mgr EXCEPT !.at = "done", !.checked = VerifiedHeight]
    /\ verified' = mgr.currentHeight
    /\ UNCHANGED <<stored, processed, best, work, alive, given, used>>

\* or, with none, the sync is complete: the height is kept as verified, and
\* the main process goes on alone.
Finish ==
    /\ mgr.at = "finishing"
    /\ Gaps(VerifiedHeight) = {}
    /\ mgr' = [mgr EXCEPT !.at = "done", !.checked = VerifiedHeight]
    /\ verified' = mgr.currentHeight
    /\ UNCHANGED <<stored, processed, best, work, alive, given, used>>

\* A database error in finishSync: nobody awaits it, and syncing stays set.
FinishFails ==
    /\ mgr.at = "finishing"
    /\ used.faults < MaxFaults
    /\ used' = [used EXCEPT !.faults = @ + 1]
    /\ mgr' = [mgr EXCEPT !.at = "failed"]
    /\ UNCHANGED <<db, best, work, alive, given>>

-----------------------------------------------------------------------------
\* The threads (syncBlock)

Answer(t, found) ==
    work' = [work EXCEPT ![t].at = "answered", ![t].found = found]

\* Mutant: a block the node has is marked, and was never written.
FetchUnwritten(t) ==
    /\ work[t].at = "asked"
    /\ IF work[t].block <= best
       THEN work' = [work EXCEPT ![t].at = "written"]
       ELSE Answer(t, FALSE)
    /\ UNCHANGED <<db, best, mgr, alive, given, used>>

Fetch(t) ==
    /\ work[t].at = "asked"
    /\ IF work[t].block <= best
       THEN work' = [work EXCEPT ![t].at = "writing"]
       ELSE Answer(t, FALSE)
    /\ UNCHANGED <<db, best, mgr, alive, given, used>>

\* The block replaces the one stored; either way it is not processed.
Write(t) ==
    /\ work[t].at = "writing"
    /\ stored' = stored \cup {work[t].block}
    /\ processed' = processed \ {work[t].block}
    /\ work' = [work EXCEPT ![t].at = "written"]
    /\ UNCHANGED <<verified, best, mgr, alive, given, used>>

Mark(t) ==
    /\ work[t].at = "written"
    /\ processed' = processed \cup {work[t].block}
    /\ Answer(t, TRUE)
    /\ UNCHANGED <<stored, verified, best, mgr, alive, given, used>>

\* A call of the thread fails: it answers that the block was not found.
Fail(t) ==
    /\ work[t].at \in {"asked", "writing", "written"}
    /\ used.faults < MaxFaults
    /\ used' = [used EXCEPT !.faults = @ + 1]
    /\ Answer(t, FALSE)
    /\ UNCHANGED <<db, best, mgr, alive, given>>

\* A thread exits.  It is counted down, and nobody gets its block.
Exit(t) ==
    /\ t \in alive
    /\ mgr.at = "syncing"
    /\ used.exits < MaxExits
    /\ used' = [used EXCEPT !.exits = @ + 1]
    /\ alive' = alive \ {t}
    /\ mgr' = [mgr EXCEPT !.active = @ - 1]
    /\ IF work[t].at \in {"asked", "writing", "written"}
       THEN /\ work' = [work EXCEPT ![t] = NoWork]
            /\ given' = given \cup {work[t].block}
       ELSE UNCHANGED <<work, given>>
    /\ UNCHANGED <<db, best>>

-----------------------------------------------------------------------------
\* The node and the process

NewBlock ==
    /\ best < MaxBest
    /\ best' = best + 1
    /\ UNCHANGED <<db, mgr, work, alive, given, used>>

\* The process stops, by itself or on an error nobody handles, and starts
\* again: the first sync runs again even when it was complete.
Restart ==
    /\ used.restarts < MaxRestarts
    /\ used' = [used EXCEPT !.restarts = @ + 1]
    /\ mgr' = NewManager
    /\ work' = [t \in Thread |-> NoWork]
    /\ alive' = Thread
    /\ given' = {}
    /\ UNCHANGED <<db, best>>

Manage(t) == AreWeAtTheTip(t) \/ GiveNext(t) \/ GiveAgain(t) \/ Retire(t)
RunThread(t) == Fetch(t) \/ Write(t) \/ Mark(t)

Next ==
    \/ Sync \/ FillGaps \/ Finish \/ FinishFails
    \/ \E t \in Thread : Manage(t) \/ RunThread(t) \/ Fail(t) \/ Exit(t)
    \/ NewBlock \/ Restart

\* The manager goes on, and so does every thread that has work.
Fairness ==
    /\ WF_vars(Sync) /\ WF_vars(FillGaps) /\ WF_vars(Finish)
    /\ \A t \in Thread : WF_vars(Manage(t)) /\ WF_vars(RunThread(t))

Spec == Init /\ [][Next]_vars /\ Fairness

-----------------------------------------------------------------------------
\* Properties

InFlight == {work[t].block : t \in {u \in Thread : work[u].at # "idle"}}

\* Every height that the manager has passed since it started is stored, in
\* the hands of a thread, or was given back (threadSync hands out each height
\* before it moves on): a gap can only come from a thread that failed or
\* exited, or from an earlier run of the process.
Accounted ==
    \A h \in mgr.from .. mgr.syncHeight - 1 : h \in stored \cup InFlight \cup given

\* As long as no thread has exited, syncingThreads is the number of threads
\* that have a block or an answer the manager has not dealt with
\* (threadSync): the sync neither ends while one writes nor waits for none.
CounterExact ==
    alive = Thread /\ mgr.at # "off"
        => mgr.active = Cardinality({t \in Thread : work[t].at # "idle"})

\* When the first sync is declared complete, has stored a block at all, tore
\* no write and lost no thread, there is no gap between where its check
\* started and the highest block (finishSync).
NoGapWhenDone ==
    mgr.at = "done" /\ stored = processed /\ stored # {} /\ alive = Thread =>
        \A h \in mgr.checked .. TipHeight : h \in stored

\* The first sync ends: gaps are filled, and blocks that were not found are
\* asked for again or left to the next check.  Excepted are a block that is
\* stored and never marked, a thread that exited, and a failed finishSync.
SyncEnds ==
    \/ <>(mgr.at \in {"done", "failed"})
    \/ <>[](stored # processed)
    \/ <>[](alive # Thread)
=============================================================================
