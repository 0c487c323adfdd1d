--------------------------- MODULE CopayerWallets ---------------------------
(***************************************************************************)
(* Wallets, copayers and addresses of the wallet service: createWallet,    *)
(* joinWallet, addAccess, createAddress, startScan and scan of             *)
(* src/lib/server.ts over the WALLETS, COPAYERS_LOOKUP and ADDRESSES       *)
(* collections of src/lib/storage.ts.                                      *)
(*                                                                         *)
(* A wallet is one document; every handler that changes it writes its own  *)
(* copy back whole.  A Request is one call of a handler; each round trip   *)
(* to the database or to the block explorer is a step, and the steps of    *)
(* all requests interleave.  The wallet lock is the one of LeaseLock: it   *)
(* excludes until a lease runs out, which here is when its holder stopped. *)
(*                                                                         *)
(* One branch of addresses is kept, of receive addresses: the change       *)
(* branch runs the same code on an index of its own.  What an explorer     *)
(* knows of activity does not change while the requests run.               *)
(***************************************************************************)
EXTENDS Integers, FiniteSets, Sequences

CONSTANTS Wallet, Copayer,
          N,          \* copayers of every wallet
          Single,     \* the single address wallets
          Request, NoRequest,
          Op,         \* what each request is: its kind, wallet and copayer
          CanCrash,   \* the requests whose process may stop
          Gap,        \* MAX_MAIN_ADDRESS_GAP
          ScanGap,    \* SCAN_ADDRESS_GAP, of a power scan too
          Steps,      \* the steps of a power scan
          Used,       \* the addresses with activity, from an earlier life
          MaxKeys     \* MAX_KEYS

Kind == {"create", "join", "access", "address", "scan"}

ASSUME WalletAssumption == N \in Nat \ {0} /\ Single \subseteq Wallet
ASSUME RequestAssumption ==
    /\ Op \in [Request -> [kind : Kind, wallet : Wallet, copayer : Copayer]]
    /\ NoRequest \notin Request
    /\ CanCrash \subseteq Request
\* No two calls create a wallet of the same id: ids are drawn at random,
\* unless the client gives one.
ASSUME CreationAssumption ==
    \A r, s \in Request :
        Op[r].kind = "create" /\ Op[s].kind = "create" /\ Op[r].wallet = Op[s].wallet
            => r = s
ASSUME ScanAssumption ==
    /\ Gap \in Nat \ {0} /\ ScanGap \in Nat \ {0} /\ MaxKeys \in Nat
    /\ Steps \in Seq(Nat \ {0}) /\ Steps # <<>>
    /\ Used \subseteq Nat /\ IsFiniteSet(Used)

VARIABLES docs,    \* WALLETS
          lookup,  \* COPAYERS_LOOKUP
          stored,  \* ADDRESSES
          marked,  \* the addresses with beRegistered
          known,   \* the addresses the explorer has been given
          dropped, \* history: addresses an insertMany gave up
          lock,    \* who holds the lock of each wallet
          req,     \* the requests
          down,    \* the requests whose process stopped
          torn     \* history: the wallets whose lookup was last rewritten in part

vars == <<docs, lookup, stored, marked, known, dropped, lock, req, down, torn>>

-----------------------------------------------------------------------------
\* Documents

\* A wallet document: addCopayerRequestKey adds a key named by its request.
Doc == [exists     : BOOLEAN,
        copayers   : SUBSET Copayer,
        keys       : [Copayer -> SUBSET Request],
        index      : Nat,
        scan       : {"none", "running", "success", "error"},
        registered : BOOLEAN]

NoDoc == [exists |-> FALSE, copayers |-> {},
          keys |-> [c \in Copayer |-> {}],
          index |-> 0, scan |-> "none", registered |-> FALSE]

NewDoc == [NoDoc EXCEPT !.exists = TRUE]

\* Mutant: the wallet is complete one copayer early.
IsCompleteEarly(d) == Cardinality(d.copayers) >= N - 1

IsComplete(d) == Cardinality(d.copayers) = N

\* An address belongs to a wallet; the keys of the ring and the path derive it.
Address == [wallet : Wallet, ring : SUBSET Copayer, index : Nat]

AddressOf(w, d, i) == [wallet |-> w, ring |-> d.copayers, index |-> i]

\* The unique index of ADDRESSES is on the address, whatever the wallet.
IsStored(a) == \E b \in stored : b.ring = a.ring /\ b.index = a.index

AddressesOf(w) == {a \in stored : a.wallet = w}

LookupEntry == [copayer : Copayer, wallet : Wallet, keys : SUBSET Request]

Entries(w, d) ==
    {[copayer |-> c, wallet |-> w, keys |-> d.keys[c]] : c \in d.copayers}

\* A request in flight: the copy of the wallet it works on, the addresses it
\* is about to insert, those the explorer was given, the pass of a scan, and
\* the address it answers.
Stage == {"idle", "store new", "locking", "read", "lookup", "access",
          "delete lookup", "insert lookup", "store wallet and lookup",
          "insert", "store", "register", "add", "mark",
          "unmark", "scan read", "start scan", "scan", "scan done",
          "store scan", "release", "done", "refused"}

Req == [at    : Stage,
        seen  : Doc,
        todo  : Seq(Address),
        sent  : SUBSET Address,
        pass  : Nat,
        error : BOOLEAN,
        got   : SUBSET Address]

NewReq == [at |-> "idle", seen |-> NoDoc, todo |-> <<>>, sent |-> {}, pass |-> 0,
           error |-> FALSE, got |-> {}]

TypeOK ==
    /\ docs \in [Wallet -> Doc]
    /\ lookup \subseteq LookupEntry
    /\ stored \subseteq Address
    /\ marked \subseteq Address
    /\ known \subseteq Address
    /\ dropped \subseteq Address
    /\ lock \in [Wallet -> Request \cup {NoRequest}]
    /\ req \in [Request -> Req]
    /\ down \subseteq Request
    /\ torn \subseteq Wallet

Init ==
    /\ docs = [w \in Wallet |-> NoDoc]
    /\ lookup = {} /\ stored = {} /\ marked = {} /\ known = {} /\ dropped = {}
    /\ lock = [w \in Wallet |-> NoRequest]
    /\ req = [r \in Request |-> NewReq]
    /\ down = {} /\ torn = {}

-----------------------------------------------------------------------------
\* Steps of a request

\* Request r runs and is at this stage.
At(r, stage) == req[r].at = stage /\ r \notin down

Is(r, kind) == Op[r].kind = kind

W(r) == Op[r].wallet

GoTo(r, stage) == req' = [req EXCEPT ![r].at = stage]

\* The request goes on with this copy of the wallet.
GoWith(r, stage, d) == req' = [req EXCEPT ![r].at = stage, ![r].seen = d]

\* storeWallet: the copy of the request replaces the document.
StoreDoc(r, d) == docs' = [docs EXCEPT ![W(r)] = d]

dbAddresses == <<stored, marked, known, dropped>>

\* getInstanceWithAuth: the lookup says which wallet a copayer is of.
Authenticated(r) ==
    \E e \in lookup : e.copayer = Op[r].copayer /\ e.wallet = W(r)

\* Mutant: the task starts whoever holds the lock.
AcquireAnyway(r) ==
    /\ At(r, "locking")
    /\ lock' = [lock EXCEPT ![W(r)] = r]
    /\ GoTo(r, IF Is(r, "scan") THEN "start scan" ELSE "read")
    /\ UNCHANGED <<docs, lookup, dbAddresses, down, torn>>

\* The wallet lock is free: the task starts.
Acquire(r) ==
    /\ At(r, "locking")
    /\ lock[W(r)] = NoRequest
    /\ lock' = [lock EXCEPT ![W(r)] = r]
    /\ GoTo(r, IF Is(r, "scan") THEN "start scan" ELSE "read")
    /\ UNCHANGED <<docs, lookup, dbAddresses, down, torn>>

\* The lock is still taken when the waiting time is over: WALLET_BUSY.
Busy(r) ==
    /\ At(r, "locking")
    /\ lock[W(r)] # NoRequest
    /\ GoTo(r, "refused")
    /\ UNCHANGED <<docs, lookup, dbAddresses, lock, down, torn>>

\* The task calls back: the caller is answered and the lock given back.
Release(r) ==
    /\ At(r, "release")
    /\ lock' = [lock EXCEPT ![W(r)] = NoRequest]
    /\ GoTo(r, "done")
    /\ UNCHANGED <<docs, lookup, dbAddresses, down, torn>>

\* The request is between the delete and the end of
\* storeWalletAndUpdateCopayersLookup.
Rewriting(r) == req[r].at \in {"insert lookup", "store wallet and lookup"}

\* Another call to the database fails and has done nothing: the error is
\* answered, and a task gives the lock back.
CallFails(r) ==
    /\ r \notin down
    /\ \/ /\ req[r].at \in {"read", "lookup", "start scan", "store scan"}
          /\ GoTo(r, "release")
       \/ /\ req[r].at \in {"store new", "locking", "access", "scan read"}
          /\ GoTo(r, "refused")
    /\ UNCHANGED <<docs, lookup, dbAddresses, lock, down, torn>>

\* The process of a request stops where it is.
Crash(r) ==
    /\ r \in CanCrash \ down
    /\ req[r].at \notin {"idle", "done", "refused"}
    /\ down' = down \cup {r}
    /\ torn' = IF Rewriting(r) THEN torn \cup {W(r)} ELSE torn
    /\ UNCHANGED <<docs, lookup, dbAddresses, lock, req>>

\* The lock time of a holder that stopped has passed, and another request
\* clears its document.
LeaseEnds(w) ==
    /\ lock[w] \in down
    /\ lock' = [lock EXCEPT ![w] = NoRequest]
    /\ UNCHANGED <<docs, lookup, dbAddresses, req, down, torn>>

-----------------------------------------------------------------------------
\* createWallet, with an id that the client gives

CreateFetch(r) ==
    /\ At(r, "idle") /\ Is(r, "create")
    /\ GoTo(r, IF docs[W(r)].exists THEN "refused" ELSE "store new")
    /\ UNCHANGED <<docs, lookup, dbAddresses, lock, down, torn>>

CreateStore(r) ==
    /\ At(r, "store new")
    /\ StoreDoc(r, NewDoc)
    /\ GoTo(r, "done")
    /\ UNCHANGED <<lookup, dbAddresses, lock, down, torn>>

-----------------------------------------------------------------------------
\* storeWalletAndUpdateCopayersLookup, of joinWallet and addAccess

DeleteLookup(r) ==
    /\ At(r, "delete lookup")
    /\ lookup' = {e \in lookup : e.wallet # W(r)}
    /\ GoTo(r, "insert lookup")
    /\ UNCHANGED <<docs, dbAddresses, lock, down, torn>>

\* Mutant: the lookup is written with the wallet as it was.
InsertLookupOld(r) ==
    /\ At(r, "insert lookup")
    /\ lookup' = lookup \cup Entries(W(r), docs[W(r)])
    /\ torn' = torn \ {W(r)}
    /\ GoTo(r, "store wallet and lookup")
    /\ UNCHANGED <<docs, dbAddresses, lock, down>>

\* The lookup has all that the copy of the wallet has, whatever it lacked.
InsertLookup(r) ==
    /\ At(r, "insert lookup")
    /\ lookup' = lookup \cup Entries(W(r), req[r].seen)
    /\ torn' = torn \ {W(r)}
    /\ GoTo(r, "store wallet and lookup")
    /\ UNCHANGED <<docs, dbAddresses, lock, down>>

\* Only joinWallet holds the lock.
StoreAfterLookup(r) ==
    /\ At(r, "store wallet and lookup")
    /\ StoreDoc(r, req[r].seen)
    /\ GoTo(r, IF Is(r, "join") THEN "release" ELSE "done")
    /\ UNCHANGED <<lookup, dbAddresses, lock, down, torn>>

\* One of the three fails, before, after or in the midst of what it does.  The
\* error is answered and the lock given back; nothing repairs the lookup.
RewriteFails(r) ==
    /\ \/ /\ At(r, "delete lookup")
          /\ \E gone \in SUBSET {e \in lookup : e.wallet = W(r)} : lookup' = lookup \ gone
          /\ UNCHANGED docs
       \/ /\ At(r, "insert lookup")
          /\ \E new \in SUBSET Entries(W(r), req[r].seen) : lookup' = lookup \cup new
          /\ UNCHANGED docs
       \/ /\ At(r, "store wallet and lookup")
          /\ UNCHANGED docs \/ StoreDoc(r, req[r].seen)
          /\ UNCHANGED lookup
    /\ torn' = torn \cup {W(r)}
    /\ GoTo(r, IF Is(r, "join") THEN "release" ELSE "refused")
    /\ UNCHANGED <<dbAddresses, lock, down>>

-----------------------------------------------------------------------------
\* joinWallet

JoinStart(r) ==
    /\ At(r, "idle") /\ Is(r, "join")
    /\ GoTo(r, "locking")
    /\ UNCHANGED <<docs, lookup, dbAddresses, lock, down, torn>>

\* WALLET_NOT_FOUND, COPAYER_IN_WALLET and WALLET_FULL end the task.
JoinRead(r) ==
    /\ At(r, "read") /\ Is(r, "join")
    /\ LET d == docs[W(r)]
       IN  IF ~d.exists \/ Op[r].copayer \in d.copayers \/ IsComplete(d)
           THEN GoTo(r, "release")
           ELSE GoWith(r, "lookup", d)
    /\ UNCHANGED <<docs, lookup, dbAddresses, lock, down, torn>>

\* COPAYER_REGISTERED, or the copayer is added to the copy of the wallet.
JoinLookup(r) ==
    /\ At(r, "lookup")
    /\ IF \E e \in lookup : e.copayer = Op[r].copayer
       THEN GoTo(r, "release")
       ELSE GoWith(r, "delete lookup",
                   [req[r].seen EXCEPT !.copayers = @ \cup {Op[r].copayer}])
    /\ UNCHANGED <<docs, lookup, dbAddresses, lock, down, torn>>

-----------------------------------------------------------------------------
\* addAccess, without the lock

\* NOT_AUTHORIZED, TOO_MANY_KEYS, or go on: the join brought the first key.
AccessLookup(r) ==
    /\ At(r, "idle") /\ Is(r, "access")
    /\ \E e \in lookup :
         /\ e.copayer = Op[r].copayer /\ e.wallet = W(r)
         /\ GoTo(r, IF 1 + Cardinality(e.keys) > MaxKeys
                    THEN "refused" ELSE "access")
    /\ UNCHANGED <<docs, lookup, dbAddresses, lock, down, torn>>

\* The copayer must be in the wallet and the wallet complete, or it throws.
AccessRead(r) ==
    /\ At(r, "access")
    /\ LET d == docs[W(r)]
           c == Op[r].copayer
       IN  IF c \in d.copayers /\ IsComplete(d)
           THEN GoWith(r, "delete lookup", [d EXCEPT !.keys[c] = @ \cup {r}])
           ELSE GoTo(r, "refused")
    /\ UNCHANGED <<docs, lookup, dbAddresses, lock, down, torn>>

-----------------------------------------------------------------------------
\* createAddress

IsUsed(a) == a.index \in Used

\* The last Gap addresses of the wallet, as they were inserted.
Latest(w) == {a \in AddressesOf(w) :
                Cardinality({b \in AddressesOf(w) : b.index > a.index}) < Gap}

\* _canCreateAddress: few addresses yet, or activity in one of the last.
CanCreateAddress(w) ==
    \/ w \in Single
    \/ Cardinality(Latest(w)) < Gap
    \/ \E a \in Latest(w) : IsUsed(a)

\* The gap is checked before the lock is asked for.  The explorer may fail.
AddressStart(r) ==
    /\ At(r, "idle") /\ Is(r, "address")
    /\ Authenticated(r)
    /\ \/ docs[W(r)].exists /\ CanCreateAddress(W(r)) /\ GoTo(r, "locking")
       \/ GoTo(r, "refused")
    /\ UNCHANGED <<docs, lookup, dbAddresses, lock, down, torn>>

\* WALLET_NOT_COMPLETE and WALLET_NEED_SCAN end the task.  A single address
\* wallet answers its first address; others derive the one of the index.
AddressRead(r) ==
    /\ At(r, "read") /\ Is(r, "address")
    /\ LET d == docs[W(r)]
           first == {a \in AddressesOf(W(r)) :
                       \A b \in AddressesOf(W(r)) : a.index <= b.index}
       IN  IF ~IsComplete(d) \/ d.scan = "error"
           THEN GoTo(r, "release")
           ELSE IF W(r) \in Single /\ first # {}
           THEN req' = [req EXCEPT ![r].at = "release", ![r].got = first]
           ELSE req' = [req EXCEPT ![r].at = "insert",
                                   ![r].todo = <<AddressOf(W(r), d, d.index)>>,
                                   ![r].seen = [d EXCEPT !.index = @ + 1]]
    /\ UNCHANGED <<docs, lookup, dbAddresses, lock, down, torn>>

-----------------------------------------------------------------------------
\* _store, of createAddress and of each pass of a scan: storeAddressAndWallet,
\* then syncWallet

\* The stage after _store: a scan goes on, createAddress answers.
AfterStore(r) == IF Is(r, "scan") THEN "scan" ELSE "release"

\* The stage after a failure of storeAddressAndWallet.
AfterFailure(r) == IF Is(r, "scan") THEN "scan done" ELSE "release"

\* Which of these addresses insertMany stores: it stops at a duplicate.
Inserted(todo) == {k \in DOMAIN todo : \A j \in 1 .. k : ~IsStored(todo[j])}

\* Mutant: every error of the insert is passed over.
InsertFailsUnseen(r) ==
    /\ At(r, "insert")
    /\ GoTo(r, IF req[r].todo = <<>> THEN "register" ELSE "store")
    /\ UNCHANGED <<docs, lookup, dbAddresses, lock, down, torn>>

\* A duplicate key error is passed over, and what follows it is not stored.
InsertAddresses(r) ==
    /\ At(r, "insert")
    /\ LET todo == req[r].todo
       IN  /\ stored' = stored \cup {todo[k] : k \in Inserted(todo)}
           /\ dropped' = dropped \cup
                {a \in {todo[k] : k \in DOMAIN todo \ Inserted(todo)} : ~IsStored(a)}
           /\ GoTo(r, IF todo = <<>> THEN "register" ELSE "store")
    /\ UNCHANGED <<docs, lookup, marked, known, lock, down, torn>>

\* The insert, or storing the wallet after it, fails.
StoreFails(r) ==
    /\ At(r, "insert") \/ At(r, "store")
    /\ req' = [req EXCEPT ![r].at = AfterFailure(r), ![r].error = TRUE]
    /\ UNCHANGED <<docs, lookup, dbAddresses, lock, down, torn>>

\* createAddress answers what it derived, stored by itself or found stored.
StoreWallet(r) ==
    /\ At(r, "store")
    /\ StoreDoc(r, req[r].seen)
    /\ req' = [req EXCEPT ![r].at = "register",
                          ![r].got = IF Is(r, "scan") THEN {}
                                     ELSE {req[r].todo[k] : k \in DOMAIN req[r].todo}]
    /\ UNCHANGED <<lookup, dbAddresses, lock, down, torn>>

\* registerWalletV8: a wallet whose copy is not registered is stored whole.
Register(r) ==
    /\ At(r, "register")
    /\ IF req[r].seen.registered
       THEN GoTo(r, "add") /\ UNCHANGED docs
       ELSE LET d == [req[r].seen EXCEPT !.registered = TRUE]
            IN  GoWith(r, "add", d) /\ StoreDoc(r, d)
    /\ UNCHANGED <<lookup, dbAddresses, lock, down, torn>>

\* The unsynced addresses are given to the explorer.
AddAddresses(r) ==
    /\ At(r, "add")
    /\ LET new == AddressesOf(W(r)) \ marked
       IN  /\ known' = known \cup new
           /\ req' = [req EXCEPT ![r].at = "mark", ![r].sent = new]
    /\ UNCHANGED <<docs, lookup, stored, marked, dropped, lock, down, torn>>

\* markSyncedAddresses
MarkSynced(r) ==
    /\ At(r, "mark")
    /\ marked' = marked \cup req[r].sent
    /\ GoTo(r, AfterStore(r))
    /\ UNCHANGED <<docs, lookup, stored, known, dropped, lock, down, torn>>

\* syncWallet stops early: an error, which _store logs, or a wallet whose
\* number of addresses has been checked.
SyncStops(r) ==
    /\ At(r, "register") \/ At(r, "add") \/ At(r, "mark")
    /\ GoTo(r, AfterStore(r))
    /\ UNCHANGED <<docs, lookup, dbAddresses, lock, down, torn>>

-----------------------------------------------------------------------------
\* startScan and scan

\* startScan: deregisterWallet, first the wallet, then its addresses.
ScanStart(r) ==
    /\ At(r, "idle") /\ Is(r, "scan")
    /\ Authenticated(r)
    /\ LET d == docs[W(r)]
       IN  IF ~IsComplete(d) \/ W(r) \in Single
           THEN GoTo(r, "refused") /\ UNCHANGED docs
           ELSE GoTo(r, "unmark") /\ StoreDoc(r, [d EXCEPT !.registered = FALSE])
    /\ UNCHANGED <<lookup, dbAddresses, lock, down, torn>>

Unmark(r) ==
    /\ At(r, "unmark")
    /\ marked' = marked \ AddressesOf(W(r))
    /\ GoTo(r, "scan read")
    /\ UNCHANGED <<docs, lookup, stored, known, dropped, lock, down, torn>>

\* scan reads the wallet, and then asks for the lock.
ScanRead(r) ==
    /\ At(r, "scan read")
    /\ GoWith(r, "locking", docs[W(r)])
    /\ UNCHANGED <<docs, lookup, dbAddresses, lock, down, torn>>

\* Under the lock, the wallet that was read before it is stored as scanning.
ScanRunning(r) ==
    /\ At(r, "start scan")
    /\ LET d == [req[r].seen EXCEPT !.scan = "running"]
       IN  GoWith(r, "scan", d) /\ StoreDoc(r, d)
    /\ UNCHANGED <<lookup, dbAddresses, lock, down, torn>>

\* Mutant: the index is rewound although nothing was derived.
HitsRewound(i, step) == -ScanGap

\* scanBranch derives every step-th index from i on, until ScanGap of them in
\* a row have no activity.  It keeps the first Hits(i, step) of them.
Probe(i, step, k) == i + k * step + step - 1

Hits(i, step) ==
    LET hit == {k \in 0 .. Cardinality(Used) * ScanGap :
                  /\ Probe(i, step, k) \in Used
                  /\ \A a \in 0 .. k - ScanGap :
                       \E b \in a .. a + ScanGap - 1 : Probe(i, step, b) \in Used}
    IN  CHOOSE n \in {0} \cup {k + 1 : k \in hit} : \A k \in hit : k < n

\* The indexes that a pass from i on skips before the last one it keeps.
Skipped(i, step) ==
    {j \in i .. i + Hits(i, step) * step - 1 : (j - i + 1) % step # 0}

\* The indexes a pass stores, in order: those derived and kept, then the
\* skipped ones from the last to the first.
PassIndexes(i, step) ==
    LET kept == [k \in 1 .. Hits(i, step) |-> Probe(i, step, k - 1)]
    IN  {kept \o back : back \in
           {f \in [1 .. Cardinality(Skipped(i, step)) -> Skipped(i, step)] :
              \A j, k \in DOMAIN f : j < k => f[j] > f[k]}}

\* The explorer may fail: then the scan ends with an error.
ScanBranch(r) ==
    /\ At(r, "scan") /\ req[r].pass < Len(Steps)
    /\ LET d == req[r].seen
           step == Steps[req[r].pass + 1]
       IN  \/ \E found \in PassIndexes(d.index, step) :
                req' = [req EXCEPT
                          ![r].at = "insert", ![r].pass = @ + 1,
                          ![r].todo = [k \in DOMAIN found |->
                                         AddressOf(W(r), d, found[k])],
                          ![r].seen = [d EXCEPT !.index = @ + Hits(@, step) * step]]
           \/ req' = [req EXCEPT ![r].at = "scan done", ![r].error = TRUE]
    /\ UNCHANGED <<docs, lookup, dbAddresses, lock, down, torn>>

\* scanComplete, when every pass is done or one has failed, reads the wallet
ScanComplete(r) ==
    /\ \/ At(r, "scan") /\ req[r].pass = Len(Steps)
       \/ At(r, "scan done")
    /\ GoWith(r, "store scan",
              [docs[W(r)] EXCEPT !.scan = IF req[r].error THEN "error" ELSE "success"])
    /\ UNCHANGED <<docs, lookup, dbAddresses, lock, down, torn>>

\* and stores it with the status of the scan.
ScanEnd(r) ==
    /\ At(r, "store scan")
    /\ StoreDoc(r, req[r].seen)
    /\ GoTo(r, "release")
    /\ UNCHANGED <<lookup, dbAddresses, lock, down, torn>>

-----------------------------------------------------------------------------
Step(r) ==
    \/ CreateFetch(r) \/ CreateStore(r)
    \/ JoinStart(r) \/ JoinRead(r) \/ JoinLookup(r)
    \/ AccessLookup(r) \/ AccessRead(r)
    \/ DeleteLookup(r) \/ InsertLookup(r) \/ StoreAfterLookup(r) \/ RewriteFails(r)
    \/ AddressStart(r) \/ AddressRead(r)
    \/ InsertAddresses(r) \/ StoreWallet(r) \/ StoreFails(r)
    \/ Register(r) \/ AddAddresses(r) \/ MarkSynced(r) \/ SyncStops(r)
    \/ ScanStart(r) \/ Unmark(r) \/ ScanRead(r) \/ ScanRunning(r)
    \/ ScanBranch(r) \/ ScanComplete(r) \/ ScanEnd(r)
    \/ Acquire(r) \/ Busy(r) \/ Release(r) \/ CallFails(r) \/ Crash(r)

Next == \/ \E r \in Request : Step(r)
        \/ \E w \in Wallet : LeaseEnds(w)

Spec == Init /\ [][Next]_vars

-----------------------------------------------------------------------------
\* Properties

\* A copayer who has joined stays: no handler writes back a copy of the
\* wallet from before the join (joinWallet reads under the lock, and the
\* others need a wallet that is complete).
CopayersKept ==
    [][\A w \in Wallet : docs[w].copayers \subseteq docs'[w].copayers]_vars

\* Every stored address is derived from the keys of all the copayers the
\* wallet will ever have (createAddress and scan check isComplete, joinWallet
\* refuses a full wallet), so all of them can take part in spending from it.
FullRing ==
    \A a \in stored : /\ Cardinality(a.ring) = N
                      /\ a.ring = docs[a.wallet].copayers

\* Whatever crashes or fails, and whatever stale copy is written back, the
\* index of a wallet never passes an address that is not stored: its coins
\* would not be seen (storeAddressAndWallet stores the addresses first).
\* An address that another wallet of the same copayers has is stored there.
\* The exception is what an insertMany gave up at a duplicate.
NoHole ==
    \A w \in Wallet : \A i \in 0 .. docs[w].index - 1 :
        LET a == AddressOf(w, docs[w], i) IN IsStored(a) \/ a \in dropped

\* Those who can be authenticated for a wallet.
Registered(w) == {e.copayer : e \in {f \in lookup : f.wallet = w}}

\* The lookup is written in three steps, any of which may fail or be the last,
\* and by addAccess without the lock.  Of a complete wallet it never lets in
\* anybody but a copayer.  And it has the copayers of the wallet, neither fewer
\* nor more, whenever nobody rewrites it, unless the last rewrite was cut short;
\* the next insert of joinWallet or addAccess makes up for that.
LookupMatches ==
    \A w \in Wallet :
        /\ IsComplete(docs[w]) => Registered(w) \subseteq docs[w].copayers
        /\ \/ \E r \in Request \ down : Rewriting(r) /\ W(r) = w
           \/ w \in torn
           \/ Registered(w) = docs[w].copayers
=============================================================================
