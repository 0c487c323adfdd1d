----------------------------- MODULE LeaseLock -----------------------------
(***************************************************************************)
(* What the wallet lock of the wallet service promises to the handlers     *)
(* that run under it (class Lock, src/lib/lock.ts): a request is granted   *)
(* the lock only when nobody holds it, and only its holder gives it back,  *)
(* for as long as no granted request outlives the lock time.  From the     *)
(* first lease that runs out on, the lock may vanish at any moment: the    *)
(* lock document is deleted by key, whoever wrote it.                      *)
(*                                                                         *)
(* WalletLock implements this module, and TxProposals uses its actions.    *)
(***************************************************************************)
CONSTANTS Client,    \* the requests that may ask for the lock
          NoClient   \* the lock is free

VARIABLES held,      \* the request whose lock document is stored
          over       \* has a lease run out while its document was stored?

lockVars == <<held, over>>

Init == held = NoClient /\ over = FALSE

Grant(c) == /\ held = NoClient
            /\ held' = c
            /\ UNCHANGED over

Release(c) == /\ held = c
              /\ held' = NoClient
              /\ UNCHANGED over

LeaseEnds == /\ held # NoClient
             /\ over' = TRUE
             /\ UNCHANGED held

Lost == /\ over
        /\ held' = NoClient
        /\ UNCHANGED over

Next == \/ \E c \in Client : Grant(c) \/ Release(c)
        \/ LeaseEnds
        \/ Lost

Spec == Init /\ [][Next]_lockVars
=============================================================================
