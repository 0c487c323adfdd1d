----------------------------- MODULE WalletLock -----------------------------
(***************************************************************************)
(* The wallet lock of the wallet service: class Lock of src/lib/lock.ts    *)
(* over the LOCKS collection of src/lib/storage.ts, for one key (one       *)
(* wallet).  A lock is a MongoDB document {_id: key, expireOn}: inserting  *)
(* it takes the lock, a duplicate key error means it is taken, and         *)
(* deleting it, by key alone, gives it back.  A request that finds the     *)
(* lock taken starts clearExpiredLock without waiting for it and tries     *)
(* again every ACQUIRE_RETRY_STEP.                                         *)
(*                                                                         *)
(* A Client is one call of runLocked.  Each database call is a step.  Time *)
(* is abstracted to what the code compares: expireOn has passed or not.    *)
(***************************************************************************)
EXTENDS Integers, FiniteSets

CONSTANTS Client, NoClient,
          Patience,  \* waitTime of each call in retry steps, or Forever
          Forever,   \* waitTime undefined: retry with no end
          CanCrash   \* the calls whose process may stop

ASSUME ClientAssumption == NoClient \notin Client
ASSUME PatienceAssumption ==
    /\ Forever \notin Nat
    /\ Patience \in [Client -> Nat \cup {Forever}]
ASSUME CrashAssumption == CanCrash \subseteq Client

VARIABLES lockDoc,   \* who inserted the stored document (its _id is the key)
          call,      \* where each call of runLocked is
          timeLeft,  \* retries left; Patience + 1 stands for undefined
          clear,     \* the clearExpiredLock in flight of each call
          timeUp     \* the calls whose expireOn has passed

vars == <<lockDoc, call, timeLeft, clear, timeUp>>

CallState == {"idle", "acquiring", "running", "releasing",
              "done", "refused", "crashed"}

TypeOK ==
    /\ lockDoc \in Client \cup {NoClient}
    /\ call \in [Client -> CallState]
    /\ timeLeft \in [Client -> Int]
    /\ \A c \in Client : -1 <= timeLeft[c]
    /\ clear \in [Client -> {"none", "find", "delete"}]
    /\ timeUp \subseteq Client

\* The time a call has before its first attempt.
InitialTime(c) == IF Patience[c] = Forever THEN 0 ELSE Patience[c] + 1

Init ==
    /\ lockDoc = NoClient
    /\ call = [c \in Client |-> "idle"]
    /\ timeLeft = [c \in Client |-> InitialTime(c)]
    /\ clear = [c \in Client |-> "none"]
    /\ timeUp = {}

\* A handler calls runLocked.
RunLocked(c) ==
    /\ call[c] = "idle"
    /\ call' = [call EXCEPT ![c] = "acquiring"]
    /\ UNCHANGED <<lockDoc, timeLeft, clear, timeUp>>

\* insertOne succeeds: the task starts.
Acquire(c) ==
    /\ call[c] = "acquiring"
    /\ lockDoc = NoClient
    /\ lockDoc' = c
    /\ call' = [call EXCEPT ![c] = "running"]
    /\ UNCHANGED <<timeLeft, clear, timeUp>>

\* timeLeft is undefined at first, then waitTime, then one step less.
Decrement(c) == IF Patience[c] = Forever THEN timeLeft[c] ELSE timeLeft[c] - 1

\* Mutant: one more attempt after the waiting time.
OutOfTimeLate(c) == timeLeft[c] < -1

\* Has the waiting time expired?
OutOfTime(c) == timeLeft[c] < 0

\* Mutant: a failed attempt does not look for an expired lock.
AcquireFailsNoClear(c) ==
    /\ call[c] = "acquiring"
    /\ lockDoc # NoClient
    /\ IF OutOfTime(c)
       THEN call' = [call EXCEPT ![c] = "refused"] /\ UNCHANGED timeLeft
       ELSE timeLeft' = [timeLeft EXCEPT ![c] = Decrement(c)] /\ UNCHANGED call
    /\ UNCHANGED <<lockDoc, clear, timeUp>>

\* insertOne fails with E11000: start a clear, then give up or try again.
\* A call has at most one clear in flight here; other calls give the others.
AcquireFails(c) ==
    /\ call[c] = "acquiring"
    /\ lockDoc # NoClient
    /\ clear' = [clear EXCEPT ![c] = IF @ = "none" THEN "find" ELSE @]
    /\ IF OutOfTime(c)
       THEN call' = [call EXCEPT ![c] = "refused"] /\ UNCHANGED timeLeft
       ELSE timeLeft' = [timeLeft EXCEPT ![c] = Decrement(c)] /\ UNCHANGED call
    /\ UNCHANGED <<lockDoc, timeUp>>

\* Mutant: a call that fails releases all the same.
AcquireErrorReleases(c) ==
    /\ call[c] = "acquiring"
    /\ call' = [call EXCEPT ![c] = "refused"]
    /\ lockDoc' = NoClient
    /\ UNCHANGED <<timeLeft, clear, timeUp>>

\* insertOne fails for another reason.
AcquireError(c) ==
    /\ call[c] = "acquiring"
    /\ call' = [call EXCEPT ![c] = "refused"]
    /\ UNCHANGED <<lockDoc, timeLeft, clear, timeUp>>

\* Has the expireOn of the stored document passed?
Expired == lockDoc \in timeUp

\* Mutant: expireOn is not compared with now.
ClearFindUnchecked(c) ==
    /\ clear[c] = "find"
    /\ clear' = [clear EXCEPT ![c] = "delete"]
    /\ UNCHANGED <<lockDoc, call, timeLeft, timeUp>>

\* clearExpiredLock, first call: findOne, and compare expireOn with now.
ClearFind(c) ==
    /\ clear[c] = "find"
    /\ clear' = [clear EXCEPT ![c] = IF Expired THEN "delete" ELSE "none"]
    /\ UNCHANGED <<lockDoc, call, timeLeft, timeUp>>

\* clearExpiredLock, second call: releaseLock, which deletes by key the
\* document that is stored now.
ClearDelete(c) ==
    /\ clear[c] = "delete"
    /\ clear' = [clear EXCEPT ![c] = "none"]
    /\ lockDoc' = NoClient
    /\ UNCHANGED <<call, timeLeft, timeUp>>

\* The task calls back: runLocked answers the caller, then calls release.
Finish(c) ==
    /\ call[c] = "running"
    /\ call' = [call EXCEPT ![c] = "releasing"]
    /\ UNCHANGED <<lockDoc, timeLeft, clear, timeUp>>

\* releaseLock: deleteMany by key, whoever inserted the document.
Release(c) ==
    /\ call[c] = "releasing"
    /\ call' = [call EXCEPT ![c] = "done"]
    /\ lockDoc' = NoClient
    /\ UNCHANGED <<timeLeft, clear, timeUp>>

\* LOCK_EXE_TIME has passed since the document of c was inserted.
LockTimeElapses(c) ==
    /\ c = lockDoc \/ call[c] \in {"running", "releasing"}
    /\ c \notin timeUp
    /\ timeUp' = timeUp \cup {c}
    /\ UNCHANGED <<lockDoc, call, timeLeft, clear>>

\* The process of c stops: its timers and its callbacks are gone.
Crash(c) ==
    /\ c \in CanCrash
    /\ call[c] \in {"acquiring", "running", "releasing"}
    /\ call' = [call EXCEPT ![c] = "crashed"]
    /\ clear' = [clear EXCEPT ![c] = "none"]
    /\ UNCHANGED <<lockDoc, timeLeft, timeUp>>

\* What goes on by itself once a handler has called runLocked.
Proceed(c) ==
    \/ Acquire(c) \/ AcquireFails(c) \/ ClearFind(c) \/ ClearDelete(c)
    \/ Release(c)

Next == \E c \in Client :
    \/ RunLocked(c) \/ Proceed(c) \/ AcquireError(c)
    \/ Finish(c) \/ LockTimeElapses(c) \/ Crash(c)

Spec == Init /\ [][Next]_vars

\* Timers fire, the database answers, tasks call back and time passes.
Fairness == \A c \in Client :
    /\ WF_vars(Acquire(c)) /\ WF_vars(AcquireFails(c))
    /\ WF_vars(ClearFind(c)) /\ WF_vars(ClearDelete(c)) /\ WF_vars(Release(c))
    /\ WF_vars(Finish(c)) /\ WF_vars(LockTimeElapses(c))

FairSpec == Spec /\ Fairness

-----------------------------------------------------------------------------
\* Properties

Running == {c \in Client : call[c] = "running"}

\* As long as nobody outlived its lock time, at most one task runs under the
\* lock, whatever crashes and however the clears interleave with the
\* insertions (test/lock.js, 'should lock tasks using the same token').
MutexUnlessElapsed ==
    timeUp = {} => \A c, d \in Running : c = d

\* A request that waits for the lock is answered in the end, even when the
\* process that held it stopped and left its document behind: the retries
\* clear it (test/lock.js, 'should release lock if acquired for a long time').
EventuallyAnswered ==
    \A c \in Client :
        call[c] = "acquiring" ~> call[c] \in {"done", "refused", "crashed"}

\* The lock keeps the promise of LeaseLock: until a lease runs out only the
\* holder frees it, and it is never granted while it is held.
Lease == INSTANCE LeaseLock WITH held <- lockDoc, over <- timeUp # {}
ImplementsLease == Lease!Spec
=============================================================================
