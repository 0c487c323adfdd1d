------------------------- MODULE SyncingNode_proofs -------------------------
(***************************************************************************)
(* Proofs about SyncingNode, for any workers and any lease: its type       *)
(* invariant, that one worker at most holds a fresh heartbeat of its own,  *)
(* and that another one takes over only after a lease of silence.          *)
(***************************************************************************)
EXTENDS SyncingNode, TLAPS

\* Every step keeps the types.
LEMMA TypeStep == TypeOK /\ [Next]_vars => TypeOK'
<1> USE LeaseAssumption, NoBeatAssumption
<1> SUFFICES ASSUME TypeOK, [Next]_vars PROVE TypeOK'
  OBVIOUS
<1> USE DEF TypeOK, memory
<1>1. ASSUME NEW n \in Node, Start(n) PROVE TypeOK'
  BY <1>1 DEF Start
<1>2. ASSUME NEW n \in Node, BeginRefresh(n) PROVE TypeOK'
  <2>1. GetIsSyncingNode(n) \in BOOLEAN
    BY DEF GetIsSyncingNode, IsOwnFresh
  <2> QED
    BY <1>2, <2>1 DEF BeginRefresh
<1>3. ASSUME NEW n \in Node, ReadBeat(n) PROVE TypeOK'
  BY <1>3 DEF ReadBeat
<1>4. ASSUME NEW n \in Node, EndRefresh(n) PROVE TypeOK'
  <2> DEFINE new == [due |-> Due(n, got[n]), lastHeartBeat |-> got[n]]
  <2>1. IsOwnFresh(n, got[n]) \in BOOLEAN
    BY DEF IsOwnFresh
  <2>2. new \in Registration
    BY DEF Registration, Due
  <2>3. queued' \in [Node -> SUBSET Registration]
    <3>1. queued' = queued \/ queued' = [queued EXCEPT ![n] = @ \cup {new}]
      BY <1>4 DEF EndRefresh
    <3> HIDE DEF new
    <3> QED
      BY <3>1, <2>2
  <2>4. isSyncingNode' \in [Node -> BOOLEAN]
    BY <1>4, <2>1 DEF EndRefresh
  <2>5. /\ loop' \in [Node -> {"off", "wait", "read", "got", "dead"}]
        /\ stopping' \in [Node -> {"no", "begin", "resign", "exit"}]
    BY <1>4 DEF EndRefresh
  <2>6. /\ lastHeartBeat' \in [Node -> Beat \cup {NoBeat}]
        /\ got' \in [Node -> Beat \cup {NoBeat}]
        /\ was' \in [Node -> BOOLEAN]
    BY <1>4 DEF EndRefresh
  <2> QED
    BY <1>4, <2>3, <2>4, <2>5, <2>6 DEF EndRefresh
<1>5. ASSUME NEW n \in Node, RefreshFails(n) PROVE TypeOK'
  BY <1>5 DEF RefreshFails
<1>6. ASSUME NEW n \in Node, Nominate(n) PROVE TypeOK'
  <2>1. queued' \in [Node -> SUBSET Registration]
    BY <1>6 DEF Nominate
  <2>2. syncingNode' \in Beat \cup {NoBeat}
    <3>1. PICK q \in queued[n] :
            IF syncingNode \in {NoBeat, q.lastHeartBeat}
            THEN \E t \in q.due .. now : syncingNode' = [by |-> n, at |-> t]
            ELSE UNCHANGED syncingNode
      BY <1>6 DEF Nominate
    <3>2. q.due \in Nat
      BY DEF Registration
    <3>3. \A t \in q.due .. now : [by |-> n, at |-> t] \in Beat
      BY <3>2 DEF Beat
    <3> QED
      BY <3>1, <3>3
  <2> QED
    BY <1>6, <2>1, <2>2 DEF Nominate
<1>7. ASSUME NEW n \in Node, Stop(n) PROVE TypeOK'
  BY <1>7 DEF Stop
<1>8. ASSUME NEW n \in Node, Unregister(n) PROVE TypeOK'
  BY <1>8 DEF Unregister
<1>9. ASSUME NEW n \in Node, Resign(n) PROVE TypeOK'
  BY <1>9 DEF Resign
<1>10. ASSUME NEW n \in Node, Exit(n) PROVE TypeOK'
  BY <1>10 DEF Exit
<1>11. ASSUME Tick PROVE TypeOK'
  BY <1>11 DEF Tick
<1>12. CASE UNCHANGED vars
  BY <1>12 DEF vars
<1> QED
  BY <1>1, <1>2, <1>3, <1>4, <1>5, <1>6, <1>7, <1>8, <1>9, <1>10, <1>11, <1>12
     DEF Next

\* The clock, the heartbeats, the registrations and the loops keep their types.
THEOREM TypeCorrect == Spec => []TypeOK
<1>1. Init => TypeOK
  BY NoBeatAssumption DEF Init, TypeOK
<1> QED
  BY <1>1, TypeStep, PTL DEF Spec

-----------------------------------------------------------------------------
\* The inductive invariant

Beats(n) == {lastHeartBeat[n], got[n], resigned[n]}

\* No heartbeat is from the future.
Known ==
    /\ syncingNode # NoBeat => syncingNode.at <= now
    /\ \A n \in Node : \A b \in Beats(n) : b # NoBeat => b.at <= now

\* A registration is due after the heartbeat that it would replace, and a
\* lease after one of another worker.
Queued ==
    \A n \in Node : \A q \in queued[n] :
        q.lastHeartBeat # NoBeat =>
            /\ q.due >= q.lastHeartBeat.at
            /\ q.lastHeartBeat.by # n => q.due >= q.lastHeartBeat.at + Lease

\* A worker that knows a fresh heartbeat of its own holds the stored one.
Holder ==
    \A n \in Node : \A b \in {lastHeartBeat[n], got[n]} :
        stopping[n] # "exit" /\ IsOwnFresh(n, b) =>
            /\ syncingNode # NoBeat
            /\ syncingNode.by = n
            /\ syncingNode.at >= b.at

\* A worker gives back a heartbeat of its own.
Resigned == \A n \in Node : resigned[n] # NoBeat => resigned[n].by = n

IInv == TypeOK /\ Known /\ Queued /\ Holder /\ Resigned

-----------------------------------------------------------------------------

\* Every step keeps the invariant.
LEMMA InvariantStep == IInv /\ [Next]_vars => IInv'
<1> SUFFICES ASSUME IInv, [Next]_vars
             PROVE  Known' /\ Queued' /\ Holder' /\ Resigned'
  BY TypeStep DEF IInv
<1> USE LeaseAssumption, NoBeatAssumption
<1>t. TypeOK /\ Known /\ Queued /\ Holder /\ Resigned /\ TypeOK'
  BY TypeStep DEF IInv
<1> USE <1>t
<1>1. ASSUME NEW n \in Node, Start(n) PROVE Known' /\ Queued' /\ Holder' /\ Resigned'
  BY <1>1 DEF Start, memory, Known, Queued, Holder, Resigned, Beats, IsOwnFresh
<1>2. ASSUME NEW n \in Node, BeginRefresh(n) PROVE Known' /\ Queued' /\ Holder' /\ Resigned'
  BY <1>2 DEF BeginRefresh, Known, Queued, Holder, Resigned, Beats, IsOwnFresh
<1>3. ASSUME NEW n \in Node, ReadBeat(n) PROVE Known' /\ Queued' /\ Holder' /\ Resigned'
  <2> USE <1>3 DEF ReadBeat
  <2>1. Known'
    BY DEF Known, Beats, TypeOK
  <2>2. Queued' /\ Resigned'
    BY DEF Queued, Resigned
  <2>3. Holder'
    BY DEF Holder, IsOwnFresh, TypeOK, Beat
  <2> QED
    BY <2>1, <2>2, <2>3
<1>4. ASSUME NEW n \in Node, EndRefresh(n) PROVE Known' /\ Queued' /\ Holder' /\ Resigned'
  <2> DEFINE new == [due |-> Due(n, got[n]), lastHeartBeat |-> got[n]]
  <2>1. /\ lastHeartBeat' = [lastHeartBeat EXCEPT ![n] = got[n]]
        /\ got' = [got EXCEPT ![n] = NoBeat]
        /\ UNCHANGED <<now, syncingNode, resigned>>
        /\ queued' = queued \/ queued' = [queued EXCEPT ![n] = @ \cup {new}]
        /\ \A m \in Node : stopping'[m] # "exit" => stopping[m] # "exit"
    BY <1>4 DEF EndRefresh, TypeOK
  <2>2. Known' /\ Resigned'
    BY <2>1 DEF Known, Resigned, Beats, TypeOK
  <2>3. Queued'
    <3>1. new.lastHeartBeat # NoBeat =>
            /\ new.due >= new.lastHeartBeat.at
            /\ new.lastHeartBeat.by # n => new.due >= new.lastHeartBeat.at + Lease
      <4>1. got[n] # NoBeat => got[n] \in Beat /\ got[n].at <= now
        BY DEF Known, Beats, TypeOK
      <4>2. got[n] # NoBeat /\ got[n].by # n => Due(n, got[n]) = now + Lease
        BY DEF Due, IsOwnFresh
      <4>3. Due(n, got[n]) \in {now, now + Lease} /\ now \in Nat
        BY DEF Due, TypeOK
      <4> QED
        BY <4>1, <4>2, <4>3 DEF Beat
    <3> HIDE DEF new
    <3>2. \A m \in Node : \A q \in queued'[m] : q \in queued[m] \/ (m = n /\ q = new)
      BY <2>1 DEF TypeOK
    <3> QED
      BY <3>1, <3>2 DEF Queued
  <2>4. Holder'
    BY <2>1 DEF Holder, IsOwnFresh, TypeOK
  <2> QED
    BY <2>2, <2>3, <2>4
<1>5. ASSUME NEW n \in Node, RefreshFails(n) PROVE Known' /\ Queued' /\ Holder' /\ Resigned'
  BY <1>5 DEF RefreshFails, memory, Known, Queued, Holder, Resigned, Beats, IsOwnFresh
<1>6. ASSUME NEW n \in Node, Nominate(n) PROVE Known' /\ Queued' /\ Holder' /\ Resigned'
  <2>1. /\ UNCHANGED <<now, loop, stopping, was, got, lastHeartBeat, isSyncingNode, resigned>>
        /\ \A m \in Node : queued'[m] \subseteq queued[m]
    BY <1>6 DEF Nominate, TypeOK
  <2>2. Queued' /\ Resigned'
    BY <2>1 DEF Queued, Resigned
  <2>3. CASE UNCHANGED syncingNode
    BY <2>1, <2>2, <2>3 DEF Known, Holder, Beats, IsOwnFresh
  <2>4. ASSUME NEW q \in queued[n], syncingNode \in {NoBeat, q.lastHeartBeat},
               NEW t \in q.due .. now, syncingNode' = [by |-> n, at |-> t]
        PROVE  Known' /\ Holder'
    <3>1. q \in Registration /\ q.due \in Nat /\ t \in Nat /\ t <= now /\ t >= q.due
      BY DEF TypeOK, Registration
    <3>2. Known'
      BY <2>1, <2>4, <3>1 DEF Known, Beats
    <3>3. Holder'
      <4> SUFFICES ASSUME NEW m \in Node, NEW b \in {lastHeartBeat[m], got[m]},
                          stopping[m] # "exit", IsOwnFresh(m, b)
                   PROVE  m = n /\ t >= b.at
        BY <2>1, <2>4, <3>1 DEF Holder, IsOwnFresh, TypeOK, Beat
      <4>1. syncingNode # NoBeat /\ syncingNode.by = m /\ syncingNode.at >= b.at
        BY DEF Holder
      <4>2. syncingNode \in Beat /\ b \in Beat /\ syncingNode = q.lastHeartBeat
        BY <2>4, <4>1 DEF TypeOK, IsOwnFresh
      <4>3. /\ q.due >= syncingNode.at
            /\ m # n => q.due >= syncingNode.at + Lease
        BY <4>1, <4>2 DEF Queued
      <4>4. now - b.at < Lease
        BY DEF IsOwnFresh
      <4> QED
        BY <3>1, <4>1, <4>2, <4>3, <4>4 DEF Beat, TypeOK
    <3> QED
      BY <3>2, <3>3
  <2> QED
    BY <1>6, <2>2, <2>3, <2>4 DEF Nominate
<1>7. ASSUME NEW n \in Node, Stop(n) PROVE Known' /\ Queued' /\ Holder' /\ Resigned'
  BY <1>7 DEF Stop, Known, Queued, Holder, Resigned, Beats, IsOwnFresh, TypeOK
<1>8. ASSUME NEW n \in Node, Unregister(n) PROVE Known' /\ Queued' /\ Holder' /\ Resigned'
  <2> USE <1>8 DEF Unregister
  <2>1. Known'
    BY DEF Known, Beats, TypeOK
  <2>2. Queued'
    BY DEF Queued
  <2>3. Resigned'
    BY DEF Resigned, IsOwnFresh, TypeOK
  <2>4. Holder'
    BY DEF Holder, IsOwnFresh, TypeOK, Beat
  <2> QED
    BY <2>1, <2>2, <2>3, <2>4
<1>9. ASSUME NEW n \in Node, Resign(n) PROVE Known' /\ Queued' /\ Holder' /\ Resigned'
  <2> USE <1>9 DEF Resign
  <2>1. Known'
    BY DEF Known, Beats, TypeOK
  <2>2. Queued' /\ Resigned'
    BY DEF Queued, Resigned, TypeOK
  <2>3. Holder'
    <3> SUFFICES ASSUME NEW m \in Node, NEW b \in {lastHeartBeat[m], got[m]},
                        stopping'[m] # "exit", IsOwnFresh(m, b)
                 PROVE  syncingNode' # NoBeat /\ syncingNode'.by = m /\ syncingNode'.at >= b.at
      BY DEF Holder, IsOwnFresh
    <3>1. m # n /\ stopping[m] # "exit"
      BY DEF TypeOK
    <3>2. syncingNode # NoBeat /\ syncingNode.by = m /\ syncingNode.at >= b.at
      BY <3>1 DEF Holder
    <3>3. syncingNode # resigned[n]
      BY <3>1, <3>2 DEF Resigned
    <3> QED
      BY <3>2, <3>3
  <2> QED
    BY <2>1, <2>2, <2>3
<1>10. ASSUME NEW n \in Node, Exit(n) PROVE Known' /\ Queued' /\ Holder' /\ Resigned'
  BY <1>10 DEF Exit, Known, Queued, Holder, Resigned, Beats, IsOwnFresh, TypeOK
<1>11. ASSUME Tick PROVE Known' /\ Queued' /\ Holder' /\ Resigned'
  <2> USE <1>11 DEF Tick, memory
  <2>1. Known'
    BY DEF Known, Beats, TypeOK, Beat
  <2>2. Queued' /\ Resigned'
    BY DEF Queued, Resigned
  <2>3. Holder'
    BY DEF Holder, IsOwnFresh, TypeOK, Beat
  <2> QED
    BY <2>1, <2>2, <2>3
<1>12. CASE UNCHANGED vars
  BY <1>12 DEF vars, memory, Known, Queued, Holder, Resigned, Beats, IsOwnFresh
<1> QED
  BY <1>1, <1>2, <1>3, <1>4, <1>5, <1>6, <1>7, <1>8, <1>9, <1>10, <1>11, <1>12 DEF Next

\* A worker that knows a fresh heartbeat of its own holds the stored one, as
\* long as it has not resigned; a registration is due a lease after another's
\* heartbeat.
THEOREM InductiveInvariant == Spec => []IInv
<1>1. Init => IInv
  BY NoBeatAssumption DEF Init, IInv, TypeOK, Known, Queued, Holder, Resigned, Beats, IsOwnFresh
<1> QED
  BY <1>1, InvariantStep, PTL DEF Spec

\* At most one worker believes that it is the syncing node, as long as it has
\* not resigned (services/p2p.ts, getIsSyncingNode).
THEOREM OneSyncing == Spec => []OneSyncingNode
<1>1. IInv => OneSyncingNode
  BY DEF IInv, Holder, OneSyncingNode, GetIsSyncingNode
<1> QED
  BY <1>1, InductiveInvariant, PTL

\* A worker takes over from another one only after a lease of silence, or when
\* the heartbeat was given back (models/state.ts).
THEOREM Takeover == Spec => TakeoverAfterSilence
<1> DEFINE Silence ==
      syncingNode # NoBeat /\ syncingNode' # NoBeat /\ syncingNode'.by # syncingNode.by
        => now - syncingNode.at >= Lease
<1>1. IInv /\ [Next]_vars => [Silence]_vars
  <2> SUFFICES ASSUME IInv, Next, syncingNode # NoBeat, syncingNode' # NoBeat,
                      syncingNode'.by # syncingNode.by
               PROVE  now - syncingNode.at >= Lease
    OBVIOUS
  <2>1. TypeOK /\ Queued
    BY DEF IInv
  <2>2. PICK n \in Node : Nominate(n) \/ Resign(n)
    BY DEF Next, Start, BeginRefresh, ReadBeat, EndRefresh, RefreshFails, Stop,
           Unregister, Exit, Tick
  <2>3. Nominate(n)
    BY <2>2 DEF Resign
  <2>4. PICK q \in queued[n] :
          /\ q.due <= now
          /\ syncingNode \in {NoBeat, q.lastHeartBeat}
          /\ \E t \in q.due .. now : syncingNode' = [by |-> n, at |-> t]
    BY <2>3 DEF Nominate
  <2>5. syncingNode = q.lastHeartBeat /\ syncingNode.by # n
    BY <2>4
  <2>6. q.due >= syncingNode.at + Lease
    BY <2>1, <2>5 DEF Queued
  <2>7. q.due \in Nat /\ now \in Nat /\ syncingNode.at \in Nat
    BY <2>1 DEF TypeOK, Registration, Beat
  <2> QED
    BY <2>4, <2>6, <2>7, LeaseAssumption
<1> QED
  BY <1>1, InductiveInvariant, PTL DEF Spec, TakeoverAfterSilence
=============================================================================
