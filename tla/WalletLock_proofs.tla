------------------------- MODULE WalletLock_proofs -------------------------
(***************************************************************************)
(* Proofs about WalletLock: its type invariant, mutual exclusion for as    *)
(* long as no lock time elapses, and that it implements LeaseLock.         *)
(***************************************************************************)
EXTENDS WalletLock, TLAPS

-----------------------------------------------------------------------------
\* The documents, the clears, the calls and the times stay what they are.
THEOREM TypeCorrect == Spec => []TypeOK
<1>1. Init => TypeOK
  BY PatienceAssumption DEF Init, TypeOK, CallState, InitialTime
<1>2. TypeOK /\ [Next]_vars => TypeOK'
  <2> SUFFICES ASSUME TypeOK, [Next]_vars PROVE TypeOK'
    OBVIOUS
  <2> USE DEF TypeOK, CallState
  <2>1. ASSUME NEW c \in Client, RunLocked(c) PROVE TypeOK'
    BY <2>1 DEF RunLocked
  <2>2. ASSUME NEW c \in Client, Acquire(c) PROVE TypeOK'
    BY <2>2 DEF Acquire
  <2>3. ASSUME NEW c \in Client, AcquireFails(c) PROVE TypeOK'
    <3>1. clear' \in [Client -> {"none", "find", "delete"}]
      BY <2>3 DEF AcquireFails
    <3>2. CASE OutOfTime(c)
      BY <2>3, <3>1, <3>2 DEF AcquireFails
    <3>3. CASE ~OutOfTime(c)
      <4>1. 0 <= timeLeft[c] /\ Decrement(c) \in Int /\ -1 <= Decrement(c)
        BY <3>3 DEF OutOfTime, Decrement
      <4> QED
        BY <2>3, <3>1, <3>3, <4>1 DEF AcquireFails
    <3> QED
      BY <3>2, <3>3
  <2>4. ASSUME NEW c \in Client, AcquireError(c) PROVE TypeOK'
    BY <2>4 DEF AcquireError
  <2>5. ASSUME NEW c \in Client, ClearFind(c) PROVE TypeOK'
    BY <2>5 DEF ClearFind
  <2>6. ASSUME NEW c \in Client, ClearDelete(c) PROVE TypeOK'
    BY <2>6 DEF ClearDelete
  <2>7. ASSUME NEW c \in Client, Finish(c) PROVE TypeOK'
    BY <2>7 DEF Finish
  <2>8. ASSUME NEW c \in Client, Release(c) PROVE TypeOK'
    BY <2>8 DEF Release
  <2>9. ASSUME NEW c \in Client, LockTimeElapses(c) PROVE TypeOK'
    BY <2>9 DEF LockTimeElapses
  <2>10. ASSUME NEW c \in Client, Crash(c) PROVE TypeOK'
    BY <2>10 DEF Crash
  <2>11. CASE UNCHANGED vars
    BY <2>11 DEF vars
  <2> QED
    BY <2>1, <2>2, <2>3, <2>4, <2>5, <2>6, <2>7, <2>8, <2>9, <2>10, <2>11
       DEF Next, Proceed
<1> QED
  BY <1>1, <1>2, PTL DEF Spec

-----------------------------------------------------------------------------
\* Why tasks exclude each other: until a lock time elapses, a task that runs
\* or gives the lock back is the one whose document is stored, and no clear
\* has found an expired document.  (That a task runs alone is not inductive
\* by itself: a release deletes the document of whoever inserted it.)
OwnDocument ==
    timeUp = {} =>
        \A c \in Client :
            /\ clear[c] # "delete"
            /\ call[c] \in {"running", "releasing"} => lockDoc = c

IInv == TypeOK /\ OwnDocument

\* In every state the stored document and the clears agree with the calls.
THEOREM InductiveInvariant == Spec => []IInv
<1>1. Init => OwnDocument
  BY DEF Init, OwnDocument
<1>2. TypeOK /\ OwnDocument /\ [Next]_vars => OwnDocument'
  <2> SUFFICES ASSUME TypeOK, OwnDocument, [Next]_vars PROVE OwnDocument'
    OBVIOUS
  <2> USE DEF TypeOK, CallState, OwnDocument
  <2>1. ASSUME NEW c \in Client, RunLocked(c) PROVE OwnDocument'
    BY <2>1 DEF RunLocked
  <2>2. ASSUME NEW c \in Client, Acquire(c) PROVE OwnDocument'
    BY <2>2, ClientAssumption DEF Acquire
  <2>3. ASSUME NEW c \in Client, AcquireFails(c) PROVE OwnDocument'
    BY <2>3 DEF AcquireFails
  <2>4. ASSUME NEW c \in Client, AcquireError(c) PROVE OwnDocument'
    BY <2>4 DEF AcquireError
  <2>5. ASSUME NEW c \in Client, ClearFind(c) PROVE OwnDocument'
    BY <2>5 DEF ClearFind, Expired
  <2>6. ASSUME NEW c \in Client, ClearDelete(c) PROVE OwnDocument'
    BY <2>6 DEF ClearDelete
  <2>7. ASSUME NEW c \in Client, Finish(c) PROVE OwnDocument'
    BY <2>7 DEF Finish
  <2>8. ASSUME NEW c \in Client, Release(c) PROVE OwnDocument'
    BY <2>8 DEF Release
  <2>9. ASSUME NEW c \in Client, LockTimeElapses(c) PROVE OwnDocument'
    BY <2>9 DEF LockTimeElapses
  <2>10. ASSUME NEW c \in Client, Crash(c) PROVE OwnDocument'
    BY <2>10 DEF Crash
  <2>11. CASE UNCHANGED vars
    BY <2>11 DEF vars
  <2> QED
    BY <2>1, <2>2, <2>3, <2>4, <2>5, <2>6, <2>7, <2>8, <2>9, <2>10, <2>11
       DEF Next, Proceed
<1> QED
  BY <1>1, <1>2, TypeCorrect, PTL DEF Spec, IInv

\* Until a lock time elapses, at most one task runs under the lock, for any
\* number of calls, any waiting times and any crashes.
THEOREM Mutex == Spec => []MutexUnlessElapsed
<1>1. IInv => MutexUnlessElapsed
  BY DEF IInv, TypeOK, OwnDocument, MutexUnlessElapsed, Running
<1> QED
  BY <1>1, InductiveInvariant, PTL

-----------------------------------------------------------------------------
\* Every behaviour of the lock is one of LeaseLock: an insertion grants the
\* lease, a release returns it or, once a lease has run out, loses it.
THEOREM Implements == Spec => ImplementsLease
<1> USE DEF Lease!lockVars
<1>1. Init => Lease!Init
  BY DEF Init, Lease!Init
<1>2. IInv /\ [Next]_vars => [Lease!Next]_(Lease!lockVars)
  <2> SUFFICES ASSUME IInv, [Next]_vars
               PROVE [Lease!Next]_(Lease!lockVars)
    OBVIOUS
  <2> USE DEF IInv
  <2>1. ASSUME NEW c \in Client, Acquire(c) PROVE Lease!Next
    BY <2>1 DEF Acquire, Lease!Next, Lease!Grant
  <2>2. ASSUME NEW c \in Client, ClearDelete(c) PROVE Lease!Next
    <3>1. timeUp # {}
      BY <2>2 DEF ClearDelete, OwnDocument
    <3> QED
      BY <2>2, <3>1 DEF ClearDelete, Lease!Next, Lease!Lost
  <2>3. ASSUME NEW c \in Client, Release(c) PROVE Lease!Next
    <3>1. CASE timeUp = {}
      <4>1. lockDoc = c
        BY <2>3, <3>1 DEF Release, OwnDocument
      <4> QED
        BY <2>3, <4>1 DEF Release, Lease!Next, Lease!Release
    <3>2. CASE timeUp # {}
      BY <2>3, <3>2 DEF Release, Lease!Next, Lease!Lost
    <3> QED
      BY <3>1, <3>2
  <2>4. ASSUME NEW c \in Client, LockTimeElapses(c)
        PROVE [Lease!Next]_(Lease!lockVars)
    <3>1. CASE timeUp = {}
      <4>1. lockDoc = c
        BY <2>4, <3>1 DEF LockTimeElapses, OwnDocument
      <4>2. lockDoc # NoClient
        BY <4>1, ClientAssumption
      <4> QED
        BY <2>4, <4>2 DEF LockTimeElapses, Lease!Next, Lease!LeaseEnds
    <3>2. CASE timeUp # {}
      BY <2>4, <3>2 DEF LockTimeElapses
    <3> QED
      BY <3>1, <3>2
  <2>5. CASE UNCHANGED <<lockDoc, timeUp>>
    BY <2>5
  <2> QED
    BY <2>1, <2>2, <2>3, <2>4, <2>5
       DEF Next, Proceed, vars, RunLocked, AcquireFails, AcquireError,
           ClearFind, Finish, Crash
<1> QED
  BY <1>1, <1>2, InductiveInvariant, PTL
     DEF Spec, ImplementsLease, Lease!Spec
=============================================================================
