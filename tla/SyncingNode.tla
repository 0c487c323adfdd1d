----------------------------- MODULE SyncingNode -----------------------------
(***************************************************************************)
(* Which worker of ducatuscore-node syncs a chain: the heartbeat in the    *)
(* state document (src/models/state.ts) and the loop that each worker runs *)
(* to read it, to renew it and to take it over (BaseP2PWorker of           *)
(* src/services/p2p.ts).                                                   *)
(*                                                                         *)
(* A heartbeat is hostname:pid:timestamp.  A worker renews its own at once *)
(* and offers itself, 5 minutes later, for one it has seen; the database   *)
(* takes a nomination only if the heartbeat is still that one, or if there *)
(* is none.  Time is counted in ticks, 5 minutes are Lease of them.        *)
(***************************************************************************)
EXTENDS Integers, FiniteSets

CONSTANTS Node, NoBeat,
          Lease,      \* ticks in 5 minutes
          MaxTime,    \* bound on the clock
          MaxQueued   \* bound on the registrations a worker has queued

ASSUME LeaseAssumption == Lease \in Nat \ {0}

\* A heartbeat: who wrote it, and its timestamp.
Beat == [by : Node, at : Nat]

ASSUME NoBeatAssumption == NoBeat \notin Beat

VARIABLES now,
          syncingNode,    \* the heartbeat that is stored
          loop,           \* where the refresh loop of each worker is
          was,            \* wasSyncingNode of the round at hand
          got,            \* the heartbeat it has read, not yet kept
          lastHeartBeat,
          isSyncingNode,  \* the flag that lets a worker import what it receives
          queued,         \* queuedRegistrations
          stopping,       \* how far a worker is in stop()
          resigned        \* the heartbeat it gives back

memory == <<was, got, lastHeartBeat, isSyncingNode, queued, resigned>>
vars == <<now, syncingNode, loop, stopping, memory>>

Registration == [due : Nat, lastHeartBeat : Beat \cup {NoBeat}]

\* Mutant: a heartbeat of exactly 5 minutes is fresh.
IsOwnFreshLate(n, beat) == beat # NoBeat /\ beat.by = n /\ now - beat.at <= Lease

\* getIsSyncingNode: the heartbeat is one's own, and fresh.
IsOwnFresh(n, beat) == beat # NoBeat /\ beat.by = n /\ now - beat.at < Lease

GetIsSyncingNode(n) == IsOwnFresh(n, lastHeartBeat[n])

Init ==
    /\ now = 0
    /\ syncingNode = NoBeat
    /\ loop = [n \in Node |-> "off"]
    /\ was = [n \in Node |-> FALSE]
    /\ got = [n \in Node |-> NoBeat]
    /\ lastHeartBeat = [n \in Node |-> NoBeat]
    /\ isSyncingNode = [n \in Node |-> FALSE]
    /\ queued = [n \in Node |-> {}]
    /\ stopping = [n \in Node |-> "no"]
    /\ resigned = [n \in Node |-> NoBeat]

Start(n) ==
    /\ loop[n] = "off"
    /\ loop' = [loop EXCEPT ![n] = "wait"]
    /\ UNCHANGED <<now, syncingNode, stopping, memory>>

-----------------------------------------------------------------------------
\* refreshSyncingNode

\* A round begins: wasSyncingNode.
BeginRefresh(n) ==
    /\ loop[n] = "wait" /\ stopping[n] = "no"
    /\ loop' = [loop EXCEPT ![n] = "read"]
    /\ was' = [was EXCEPT ![n] = GetIsSyncingNode(n)]
    /\ UNCHANGED <<now, syncingNode, stopping, got, lastHeartBeat, isSyncingNode,
                   queued, resigned>>

\* getSyncingNode
ReadBeat(n) ==
    /\ loop[n] = "read"
    /\ loop' = [loop EXCEPT ![n] = "got"]
    /\ got' = [got EXCEPT ![n] = syncingNode]
    /\ UNCHANGED <<now, syncingNode, stopping, was, lastHeartBeat, isSyncingNode,
                   queued, resigned>>

\* Mutant: the delay has the wrong sign.
DueBefore(n, beat) ==
    IF beat = NoBeat \/ IsOwnFresh(n, beat) THEN now ELSE now - Lease

\* registerSyncingNode: at once when primary, else in 5 minutes.
Due(n, beat) ==
    IF beat = NoBeat \/ IsOwnFresh(n, beat) THEN now ELSE now + Lease

\* Its answer: keep it, and register for a nomination, now or in 5 minutes.
\* A worker that lost its place throws, and the process stops.
EndRefresh(n) ==
    /\ loop[n] = "got"
    /\ lastHeartBeat' = [lastHeartBeat EXCEPT ![n] = got[n]]
    /\ isSyncingNode' = [isSyncingNode EXCEPT ![n] = IsOwnFresh(n, got[n])]
    /\ IF was[n] /\ ~IsOwnFresh(n, got[n])
       THEN /\ loop' = [loop EXCEPT ![n] = "dead"]
            /\ stopping' = [stopping EXCEPT ![n] = IF @ = "no" THEN "begin" ELSE @]
            /\ UNCHANGED queued
       ELSE /\ loop' = [loop EXCEPT ![n] = "wait"]
            /\ queued' = [queued EXCEPT ![n] =
                  @ \cup {[due |-> Due(n, got[n]), lastHeartBeat |-> got[n]]}]
            /\ Cardinality(queued'[n]) <= MaxQueued
            /\ UNCHANGED stopping
    /\ was' = [was EXCEPT ![n] = FALSE]
    /\ got' = [got EXCEPT ![n] = NoBeat]
    /\ UNCHANGED <<now, syncingNode, resigned>>

\* The database fails: the loop is over, and the process goes on.
RefreshFails(n) ==
    /\ loop[n] = "read"
    /\ loop' = [loop EXCEPT ![n] = "dead"]
    /\ UNCHANGED <<now, syncingNode, stopping, memory>>

\* Mutant: the heartbeat is set whatever is stored.
NominateAlways(n) ==
    /\ \E q \in queued[n] :
          /\ q.due <= now
          /\ queued' = [queued EXCEPT ![n] = @ \ {q}]
          /\ \E t \in q.due .. now : syncingNode' = [by |-> n, at |-> t]
    /\ UNCHANGED <<now, loop, stopping, was, got, lastHeartBeat, isSyncingNode, resigned>>

\* selfNominateSyncingNode: the timestamp is taken some time before the
\* database compares and sets.
Nominate(n) ==
    /\ \E q \in queued[n] :
          /\ q.due <= now
          /\ queued' = [queued EXCEPT ![n] = @ \ {q}]
          /\ IF syncingNode \in {NoBeat, q.lastHeartBeat}
             THEN \E t \in q.due .. now : syncingNode' = [by |-> n, at |-> t]
             ELSE UNCHANGED syncingNode
    /\ UNCHANGED <<now, loop, stopping, was, got, lastHeartBeat, isSyncingNode, resigned>>

-----------------------------------------------------------------------------
\* stop

\* The timers are cleared; a round of the loop that has begun goes on.
Stop(n) ==
    /\ loop[n] # "off" /\ stopping[n] = "no"
    /\ stopping' = [stopping EXCEPT ![n] = "begin"]
    /\ queued' = [queued EXCEPT ![n] = {}]
    /\ UNCHANGED <<now, syncingNode, loop, was, got, lastHeartBeat, isSyncingNode, resigned>>

\* unregisterSyncingNode reads the heartbeat ...
Unregister(n) ==
    /\ stopping[n] = "begin"
    /\ lastHeartBeat' = [lastHeartBeat EXCEPT ![n] = syncingNode]
    /\ stopping' = [stopping EXCEPT ![n] = IF IsOwnFresh(n, syncingNode) THEN "resign" ELSE "exit"]
    /\ resigned' = [resigned EXCEPT ![n] =
                       IF IsOwnFresh(n, syncingNode) THEN syncingNode ELSE NoBeat]
    /\ UNCHANGED <<now, syncingNode, loop, was, got, isSyncingNode, queued>>

\* ... and selfResignSyncingNode removes it, if it is still that one.
Resign(n) ==
    /\ stopping[n] = "resign"
    /\ syncingNode' = IF syncingNode = resigned[n] THEN NoBeat ELSE syncingNode
    /\ stopping' = [stopping EXCEPT ![n] = "exit"]
    /\ resigned' = [resigned EXCEPT ![n] = NoBeat]
    /\ UNCHANGED <<now, loop, was, got, lastHeartBeat, isSyncingNode, queued>>

\* The process ends, after a stop or by itself; it may start again.
Exit(n) ==
    /\ loop[n] # "off"
    /\ loop' = [loop EXCEPT ![n] = "off"]
    /\ was' = [was EXCEPT ![n] = FALSE]
    /\ got' = [got EXCEPT ![n] = NoBeat]
    /\ lastHeartBeat' = [lastHeartBeat EXCEPT ![n] = NoBeat]
    /\ isSyncingNode' = [isSyncingNode EXCEPT ![n] = FALSE]
    /\ queued' = [queued EXCEPT ![n] = {}]
    /\ stopping' = [stopping EXCEPT ![n] = "no"]
    /\ resigned' = [resigned EXCEPT ![n] = NoBeat]
    /\ UNCHANGED <<now, syncingNode>>

Tick ==
    /\ now < MaxTime
    /\ now' = now + 1
    /\ UNCHANGED <<syncingNode, loop, stopping, memory>>

Next ==
    \/ \E n \in Node :
          \/ Start(n) \/ BeginRefresh(n) \/ ReadBeat(n) \/ EndRefresh(n)
          \/ RefreshFails(n) \/ Nominate(n)
          \/ Stop(n) \/ Unregister(n) \/ Resign(n) \/ Exit(n)
    \/ Tick

Spec == Init /\ [][Next]_vars

-----------------------------------------------------------------------------
\* Properties

TypeOK ==
    /\ now \in Nat
    /\ syncingNode \in Beat \cup {NoBeat}
    /\ loop \in [Node -> {"off", "wait", "read", "got", "dead"}]
    /\ was \in [Node -> BOOLEAN]
    /\ got \in [Node -> Beat \cup {NoBeat}]
    /\ lastHeartBeat \in [Node -> Beat \cup {NoBeat}]
    /\ isSyncingNode \in [Node -> BOOLEAN]
    /\ queued \in [Node -> SUBSET Registration]
    /\ stopping \in [Node -> {"no", "begin", "resign", "exit"}]
    /\ resigned \in [Node -> Beat \cup {NoBeat}]

\* At most one worker may believe, by the last heartbeat it read, that it is
\* the syncing node, until it resigns: whatever is slow, fails or stops
\* (services/p2p.ts, getIsSyncingNode).  A worker whose loop is stuck still
\* has its flag, but its heartbeat is stale by then.
OneSyncingNode ==
    \A m, n \in Node :
        /\ GetIsSyncingNode(m) /\ stopping[m] # "exit"
        /\ GetIsSyncingNode(n) /\ stopping[n] # "exit"
        => m = n

\* A worker takes over from another one only when the heartbeat has not been
\* renewed for 5 minutes, or has been given back (models/state.ts).
TakeoverAfterSilence ==
    [][syncingNode # NoBeat /\ syncingNode' # NoBeat /\ syncingNode'.by # syncingNode.by
       => now - syncingNode.at >= Lease]_vars
=============================================================================
