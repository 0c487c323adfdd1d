---------------------------- MODULE TxProposals ----------------------------
(***************************************************************************)
(* The life of the transaction proposals of one multisignature wallet of   *)
(* the wallet service: createTx, publishTx, signTx, rejectTx, broadcastTx, *)
(* removePendingTx and getPendingTxs of src/lib/server.ts, the TXS         *)
(* collection of src/lib/storage.ts, the status rules of                   *)
(* src/lib/model/txproposal.ts, the check of the inputs of                 *)
(* src/lib/chain/btc/index.ts and the third party broadcasts of            *)
(* src/lib/blockchainmonitor.ts.                                           *)
(*                                                                         *)
(* A handler reads a whole document, works on its copy and writes the      *)
(* whole document back.  Only createTx, publishTx and removePendingTx take *)
(* the wallet lock.  A Request is a handler in flight; each call to the    *)
(* database, to the block explorer or to the network is a step of it, and  *)
(* the steps of all requests interleave.  A call that answers without      *)
(* having changed anything (an unknown proposal, a vote cast twice, a      *)
(* wrong signature) is a request that does not start.                      *)
(*                                                                         *)
(* The wallet is P2SH m of n: the id of a transaction covers its           *)
(* signatures, so another set of signers is another transaction.           *)
(***************************************************************************)
EXTENDS Integers, FiniteSets, Sequences

CONSTANTS Copayer,     \* the copayers of the wallet
          M,           \* the signatures it requires
          TxpId,       \* proposal ids
          Creator,     \* who creates each proposal
          InputsOf,    \* the UTXOs each proposal spends
          Input,       \* the UTXOs of the wallet
          Request,     \* requests in flight at one time
          Monitor,     \* those that may also be events of the monitor
          NoRequest,   \* nobody holds the wallet lock
          CanExpire,   \* may a lock be held beyond LOCK_EXE_TIME?
          MaxDocs      \* bound on the documents stored under one id

N == Cardinality(Copayer)

ASSUME WalletAssumption ==
    /\ IsFiniteSet(Copayer)
    /\ M \in 1 .. N
ASSUME ProposalAssumption ==
    /\ Creator \in [TxpId -> Copayer]
    /\ InputsOf \in [TxpId -> (SUBSET Input) \ {{}}]
ASSUME RequestAssumption ==
    /\ Monitor \subseteq Request
    /\ NoRequest \notin Request
    /\ CanExpire \in BOOLEAN
    /\ MaxDocs \in Nat \ {0}

VARIABLES txps,      \* the documents stored under each id, oldest first
          network,   \* the transactions the network has accepted
          signed,    \* the fully signed transactions copayers have got
          created,   \* the ids used so far: a client makes a new one each time
          aged,      \* the proposals older than DELETE_LOCKTIME
          req,       \* the requests in flight
          lock,      \* who holds the wallet lock
          leaseOver, \* has a lock been held beyond LOCK_EXE_TIME?
          clobbered  \* history: ids with a document that a stale copy replaced

vars == <<txps, network, signed, created, aged, req, lock, leaseOver, clobbered>>

Lock == INSTANCE LeaseLock
        WITH Client <- Request, NoClient <- NoRequest,
             held <- lock, over <- leaseOver

-----------------------------------------------------------------------------
\* Proposals

Status == {"temporary", "pending", "accepted", "rejected", "broadcasted"}

\* A stored proposal.  Its actions are a vote of each copayer; its txid is
\* given by the set of copayers whose signatures it carries, {} if undefined.
Txp == [status : Status,
        votes  : [Copayer -> {"none", "accept", "reject"}],
        txid   : SUBSET Copayer]

\* A transaction of a proposal, signed by a set of copayers.
Tx == [id : TxpId, signers : SUBSET Copayer]

NewTxp == [status |-> "temporary",
           votes  |-> [c \in Copayer |-> "none"],
           txid   |-> {}]

RequiredRejections == IF M < N - M + 1 THEN M ELSE N - M + 1

Approvers(t) == {c \in Copayer : t.votes[c] = "accept"}
Rejecters(t) == {c \in Copayer : t.votes[c] = "reject"}

\* Mutant: the comparison is strict.
IsAcceptedLate(t) == Cardinality(Approvers(t)) > M

IsAccepted(t) == Cardinality(Approvers(t)) >= M
IsRejected(t) == Cardinality(Rejecters(t)) >= RequiredRejections
IsPending(t)  == t.status \notin {"temporary", "broadcasted", "rejected"}

UpdatedStatus(t) ==
    IF t.status # "pending" THEN t.status
    ELSE IF IsRejected(t) THEN "rejected"
    ELSE IF IsAccepted(t) THEN "accepted"
    ELSE "pending"

\* addAction: push the vote, then update the status.
AddAction(t, c, type) ==
    LET u == [t EXCEPT !.votes = [@ EXCEPT ![c] = type]]
    IN  [u EXCEPT !.status = UpdatedStatus(u)]

\* sign: a proposal that becomes accepted gets the id of its transaction.
Sign(t, c) ==
    LET u == AddAction(t, c, "accept")
    IN  IF u.status = "accepted" THEN [u EXCEPT !.txid = Approvers(u)] ELSE u

\* Mutant: the vote is recorded under another name.
RejectMisnamed(t, c) == AddAction(t, c, "rejected")

Reject(t, c) == AddAction(t, c, "reject")

\* Mutant: a transaction that has all its signatures takes one more.
CanSignAccepted(t, c) == t.votes[c] = "none" /\ IsPending(t)

\* Mutant: a copayer that has voted may sign.
CanSignTwice(t, c) == IsPending(t) /\ Cardinality(Approvers(t)) < M

\* A signature on a transaction that has them all is refused.
CanSign(t, c) == /\ t.votes[c] = "none"
                 /\ IsPending(t)
                 /\ Cardinality(Approvers(t)) < M

CanReject(t, c) == t.votes[c] = "none" /\ t.status = "pending"

\* getRemainingDeleteLockTime is 0.
CanDelete(i, t, c) == \/ i \in aged
                      \/ c = Creator[i] /\ Approvers(t) \subseteq {c}

SetBroadcasted(t) == [t EXCEPT !.status = "broadcasted"]

-----------------------------------------------------------------------------
\* Storage and network

Exists(i) == txps[i] # <<>>

\* fetchTx: findOne gives the oldest document with this id.
Fetch(i) == txps[i][1]

\* storeTx: replace the oldest document, or insert (upsert).
Store(docs, t) == IF docs = <<>> THEN <<t>> ELSE [docs EXCEPT ![1] = t]

Docs(i) == {txps[i][k] : k \in DOMAIN txps[i]}

\* fetchTxByHash: the documents with a txid, oldest first; findOne gives one.
ByHash(i, signers) ==
    {k \in DOMAIN txps[i] : /\ txps[i][k].txid = signers
                            /\ \A l \in 1 .. k - 1 : txps[i][l].txid # signers}

TxOf(i, t) == [id |-> i, signers |-> Approvers(t)]

\* The network refuses a second transaction that spends an input.
Conflicts(tx) == \E u \in network : u # tx /\ InputsOf[u.id] \cap InputsOf[tx.id] # {}

-----------------------------------------------------------------------------
\* Requests

Stage == {"create", "pendings", "spents", "publish", "remove",
          "sign", "reject", "send", "check", "mark", "wait", "third"}

Locked == {"create", "pendings", "spents", "publish", "remove"}

\* A request: its next call, the proposal, the copayer and the copy it read.
Req == [at : Stage, id : TxpId, who : Copayer, txp : Txp]

Idle == [at |-> "idle"]

\* r starts a handler for copayer c with the copy t of proposal i.
Start(r, stage, i, c, t) ==
    /\ req[r] = Idle
    /\ req' = [req EXCEPT ![r] = [at |-> stage, id |-> i, who |-> c, txp |-> t]]

Go(r, stage) == req' = [req EXCEPT ![r].at = stage]

End(r) == req' = [req EXCEPT ![r] = Idle]

\* The release of a locked handler deletes the lock document by key.
Unlock(r) == Lock!Release(r) \/ (lock # r /\ Lock!Lost)

KeepLock == UNCHANGED <<lock, leaseOver>>

\* Is the document that r is about to write no longer the one it read?
Stale(r) == LET i == req[r].id
            IN  Exists(i) => Fetch(i) # req[r].txp

\* r writes t; the history notes when it replaces what r has not seen.
Write(r, t) ==
    LET i == req[r].id IN
    /\ txps' = [txps EXCEPT ![i] = Store(@, t)]
    /\ clobbered' = IF ~Exists(i) \/ Stale(r) THEN clobbered \cup {i}
                    ELSE clobbered

Init ==
    /\ txps = [i \in TxpId |-> <<>>]
    /\ network = {}
    /\ signed = {}
    /\ created = {}
    /\ aged = {}
    /\ req = [r \in Request |-> Idle]
    /\ Lock!Init
    /\ clobbered = {}

-----------------------------------------------------------------------------
\* createTx

\* Under the lock: no proposal with this id yet.
CreateTx(r, i) ==
    /\ i \notin created
    /\ ~Exists(i)
    /\ created' = created \cup {i}
    /\ Start(r, "create", i, Creator[i], NewTxp)
    /\ Lock!Grant(r)
    /\ UNCHANGED <<txps, network, signed, aged, clobbered>>

CreateStore(r) ==
    LET i == req[r].id IN
    /\ req[r].at = "create"
    /\ txps' = [txps EXCEPT ![i] = Store(@, NewTxp)]
    /\ clobbered' = IF Exists(i) THEN clobbered \cup {i} ELSE clobbered
    /\ End(r)
    /\ Unlock(r)
    /\ UNCHANGED <<network, signed, created, aged>>

-----------------------------------------------------------------------------
\* publishTx

\* Under the lock: the proposal is temporary.
PublishTx(r, i) ==
    /\ Exists(i)
    /\ Fetch(i).status = "temporary"
    /\ Start(r, "pendings", i, Creator[i], Fetch(i))
    /\ Lock!Grant(r)
    /\ UNCHANGED <<txps, network, signed, created, aged, clobbered>>

\* An accepted proposal whose transaction the explorer knows.
OnNetwork(i, t) == /\ t.status = "accepted"
                   /\ [id |-> i, signers |-> t.txid] \in network

\* getPendingTxs stores such a proposal as broadcasted.
Marked(i) ==
    LET done == {t \in Docs(i) : OnNetwork(i, t)}
    IN  IF done = {} THEN txps[i]
        ELSE Store(txps[i], SetBroadcasted(CHOOSE t \in done : TRUE))

\* Mutant: an accepted proposal no longer locks its UTXOs.
LockedUntilAccepted ==
    UNION {InputsOf[i] : i \in {j \in TxpId :
        \E t \in Docs(j) : t.status = "pending"}}

\* The UTXOs that the proposals still pending lock.
LockedInputs ==
    UNION {InputsOf[i] : i \in {j \in TxpId :
        \E t \in Docs(j) : IsPending(t) /\ ~OnNetwork(j, t)}}

\* checkTxUTXOs, first the pending proposals.  getUtxosForCurrentWallet asks
\* the explorer before; its answer may lag behind the network, so it never
\* excludes a spent input by itself, and it may always fail (Abort).
\* GetPendingTxs below has the gap between the reads and the writes of Marked.
PublishPendings(r) ==
    /\ req[r].at = "pendings"
    /\ LockedInputs \cap InputsOf[req[r].id] = {}
    /\ txps' = [i \in TxpId |-> Marked(i)]
    /\ clobbered' = clobbered \cup
          {i \in TxpId : Marked(i) # txps[i] /\ ~OnNetwork(i, Fetch(i))}
    /\ Go(r, "spents")
    /\ KeepLock
    /\ UNCHANGED <<network, signed, created, aged>>

\* The UTXOs that the proposals broadcasted in the last 24 h spend.
SpentInputs ==
    UNION {InputsOf[i] : i \in {j \in TxpId :
        \E t \in Docs(j) : t.status = "broadcasted"}}

\* Then the broadcasted proposals.
PublishSpents(r) ==
    /\ req[r].at = "spents"
    /\ SpentInputs \cap InputsOf[req[r].id] = {}
    /\ Go(r, "publish")
    /\ KeepLock
    /\ UNCHANGED <<txps, network, signed, created, aged, clobbered>>

PublishStore(r) ==
    /\ req[r].at = "publish"
    /\ Write(r, [req[r].txp EXCEPT !.status = "pending"])
    /\ End(r)
    /\ Unlock(r)
    /\ UNCHANGED <<network, signed, created, aged>>

-----------------------------------------------------------------------------
\* signTx and rejectTx: no lock

SignTx(r, c, i) ==
    /\ Exists(i)
    /\ CanSign(Fetch(i), c)
    /\ Start(r, "sign", i, c, Fetch(i))
    /\ KeepLock
    /\ UNCHANGED <<txps, network, signed, created, aged, clobbered>>

SignStore(r) ==
    LET i == req[r].id
        t == Sign(req[r].txp, req[r].who)
    IN
    /\ req[r].at = "sign"
    /\ Write(r, t)
    /\ signed' = IF t.status = "accepted" THEN signed \cup {TxOf(i, t)} ELSE signed
    /\ End(r)
    /\ KeepLock
    /\ UNCHANGED <<network, created, aged>>

RejectTx(r, c, i) ==
    /\ Exists(i)
    /\ CanReject(Fetch(i), c)
    /\ Start(r, "reject", i, c, Fetch(i))
    /\ KeepLock
    /\ UNCHANGED <<txps, network, signed, created, aged, clobbered>>

RejectStore(r) ==
    /\ req[r].at = "reject"
    /\ Write(r, Reject(req[r].txp, req[r].who))
    /\ End(r)
    /\ KeepLock
    /\ UNCHANGED <<network, signed, created, aged>>

-----------------------------------------------------------------------------
\* broadcastTx and getPendingTxs: no lock

BroadcastTx(r, i) ==
    /\ Exists(i)
    /\ Fetch(i).status = "accepted"
    /\ Start(r, "send", i, Creator[i], Fetch(i))
    /\ KeepLock
    /\ UNCHANGED <<txps, network, signed, created, aged, clobbered>>

\* The network takes the transaction, built from the signatures of the copy;
\* its answer is the txid of the copy, or it is lost or another (check).
BroadcastSend(r) ==
    LET tx == TxOf(req[r].id, req[r].txp) IN
    /\ req[r].at = "send"
    /\ ~Conflicts(tx)
    /\ network' = network \cup {tx}
    /\ \/ tx.signers = req[r].txp.txid /\ Go(r, "mark")
       \/ Go(r, "check")
    /\ KeepLock
    /\ UNCHANGED <<txps, signed, created, aged, clobbered>>

\* The explorer answers with an error: a conflict, a known transaction, ...
BroadcastError(r) ==
    /\ req[r].at = "send"
    /\ Go(r, "check")
    /\ KeepLock
    /\ UNCHANGED <<txps, network, signed, created, aged, clobbered>>

\* Mutant: an answer without the transaction counts as one with it.
CheckUnread(r) ==
    /\ req[r].at = "check"
    /\ Go(r, "mark")
    /\ KeepLock
    /\ UNCHANGED <<txps, network, signed, created, aged, clobbered>>

\* _checkTxInBlockchain, for the txid of the copy.
CheckInBlockchain(r) ==
    /\ req[r].at = "check"
    /\ IF [id |-> req[r].id, signers |-> req[r].txp.txid] \in network
       THEN Go(r, "mark") ELSE End(r)
    /\ KeepLock
    /\ UNCHANGED <<txps, network, signed, created, aged, clobbered>>

\* _processBroadcast
ProcessBroadcast(r) ==
    /\ req[r].at = "mark"
    /\ Write(r, SetBroadcasted(req[r].txp))
    /\ End(r)
    /\ KeepLock
    /\ UNCHANGED <<network, signed, created, aged>>

\* A client lists the pending proposals: each accepted one is checked.
GetPendingTxs(r, i) ==
    /\ \E t \in Docs(i) : /\ t.status = "accepted"
                          /\ Start(r, "check", i, Creator[i], t)
    /\ KeepLock
    /\ UNCHANGED <<txps, network, signed, created, aged, clobbered>>

-----------------------------------------------------------------------------
\* removePendingTx

\* Under the lock.
RemovePendingTx(r, c, i) ==
    /\ Exists(i)
    /\ IsPending(Fetch(i))
    /\ CanDelete(i, Fetch(i), c)
    /\ Start(r, "remove", i, c, Fetch(i))
    /\ Lock!Grant(r)
    /\ UNCHANGED <<txps, network, signed, created, aged, clobbered>>

\* deleteOne removes the oldest document with the id, if there is one.
RemoveTx(r) ==
    LET i == req[r].id IN
    /\ req[r].at = "remove"
    /\ txps' = [txps EXCEPT ![i] = IF @ = <<>> THEN @ ELSE Tail(@)]
    /\ clobbered' = IF Stale(r) \/ Len(txps[i]) > 1 THEN clobbered \cup {i}
                    ELSE clobbered
    /\ End(r)
    /\ Unlock(r)
    /\ UNCHANGED <<network, signed, created, aged>>

-----------------------------------------------------------------------------
\* _handleThirdPartyBroadcasts of the blockchain monitor: no lock

\* The explorer reports a transaction: is it that of an accepted proposal?
MonitorNotice(r, tx) ==
    /\ tx \in network
    /\ \E k \in ByHash(tx.id, tx.signers) :
          LET t == txps[tx.id][k]
          IN  t.status = "accepted" /\ Start(r, "wait", tx.id, Creator[tx.id], t)
    /\ KeepLock
    /\ UNCHANGED <<txps, network, signed, created, aged, clobbered>>

\* 20 s later: read again, by txid.
MonitorRefetch(r) ==
    LET i == req[r].id
        found == {txps[i][k] : k \in ByHash(i, req[r].txp.txid)}
    IN
    /\ req[r].at = "wait"
    /\ \/ \E t \in found :
             /\ t.status = "accepted"
             /\ req' = [req EXCEPT ![r].at = "third", ![r].txp = t]
       \/ /\ \A t \in found : t.status # "accepted"
          /\ End(r)
    /\ KeepLock
    /\ UNCHANGED <<txps, network, signed, created, aged, clobbered>>

\* storeTx(this.walletId, txp): the monitor has no walletId, its filter
\* matches no document, and the upsert inserts a further one.
MonitorStore(r) ==
    LET i == req[r].id IN
    /\ req[r].at = "third"
    /\ Len(txps[i]) < MaxDocs
    /\ txps' = [txps EXCEPT ![i] = Append(@, SetBroadcasted(req[r].txp))]
    /\ clobbered' = clobbered \cup {i}
    /\ End(r)
    /\ KeepLock
    /\ UNCHANGED <<network, signed, created, aged>>

-----------------------------------------------------------------------------
\* The environment

\* A call to the database or to the explorer fails, the inputs are not
\* available, a process stops while it holds no lock: answer, and release.
Abort(r) ==
    /\ req[r] # Idle
    /\ End(r)
    /\ IF req[r].at \in Locked THEN Unlock(r) ELSE KeepLock
    /\ UNCHANGED <<txps, network, signed, created, aged, clobbered>>

\* The process of a locked request stops: its lock document stays.
Crash(r) ==
    /\ req[r].at \in Locked
    /\ End(r)
    /\ KeepLock
    /\ UNCHANGED <<txps, network, signed, created, aged, clobbered>>

\* The lock outlives LOCK_EXE_TIME, and then is cleared by who waits for it.
LockExpires ==
    /\ CanExpire
    /\ Lock!LeaseEnds \/ Lock!Lost
    /\ UNCHANGED <<txps, network, signed, created, aged, req, clobbered>>

\* DELETE_LOCKTIME passes; only the delete lock of a pending proposal asks.
Age(i) ==
    /\ Exists(i)
    /\ IsPending(Fetch(i))
    /\ aged' = aged \cup {i}
    /\ KeepLock
    /\ UNCHANGED <<txps, network, signed, created, req, clobbered>>

\* A copayer broadcasts a fully signed transaction by its own means.
BroadcastByThirdParty(tx) ==
    /\ tx \in signed
    /\ ~Conflicts(tx)
    /\ network' = network \cup {tx}
    /\ KeepLock
    /\ UNCHANGED <<txps, signed, created, aged, req, clobbered>>

Handler(r, i) ==
    \/ CreateTx(r, i) \/ PublishTx(r, i) \/ BroadcastTx(r, i)
    \/ GetPendingTxs(r, i)
    \/ \E c \in Copayer :
          SignTx(r, c, i) \/ RejectTx(r, c, i) \/ RemovePendingTx(r, c, i)

Continue(r) ==
    \/ CreateStore(r) \/ PublishPendings(r) \/ PublishSpents(r) \/ PublishStore(r)
    \/ SignStore(r) \/ RejectStore(r) \/ RemoveTx(r)
    \/ BroadcastSend(r) \/ BroadcastError(r) \/ CheckInBlockchain(r)
    \/ ProcessBroadcast(r)
    \/ MonitorRefetch(r) \/ MonitorStore(r)
    \/ Abort(r) \/ Crash(r)

Next ==
    \/ \E r \in Request, i \in TxpId : Handler(r, i)
    \/ \E r \in Monitor, tx \in network : MonitorNotice(r, tx)
    \/ \E r \in Request : Continue(r)
    \/ \E i \in TxpId : Age(i)
    \/ \E tx \in signed : BroadcastByThirdParty(tx)
    \/ LockExpires

Spec == Init /\ [][Next]_vars

-----------------------------------------------------------------------------
\* Properties

TypeOK ==
    /\ txps \in [TxpId -> Seq(Txp)]
    /\ network \subseteq Tx
    /\ signed \subseteq Tx
    /\ created \subseteq TxpId
    /\ aged \subseteq TxpId
    /\ req \in [Request -> Req \cup {Idle}]
    /\ lock \in Request \cup {NoRequest}
    /\ leaseOver \in BOOLEAN
    /\ clobbered \subseteq TxpId

\* A document and the copies in flight always agree with the status rules:
\* the threshold that ended the vote is met exactly, and an accepted proposal
\* carries the id of the transaction that its own approvers signed.
Consistent(t) ==
    /\ t.status = "temporary" => Approvers(t) \cup Rejecters(t) = {}
    /\ t.status \in {"accepted", "broadcasted"}
          => Cardinality(Approvers(t)) = M /\ t.txid = Approvers(t)
    /\ t.status \notin {"accepted", "broadcasted"}
          => Cardinality(Approvers(t)) < M /\ t.txid = {}
    /\ IF t.status = "rejected" THEN Cardinality(Rejecters(t)) = RequiredRejections
       ELSE Cardinality(Rejecters(t)) < RequiredRejections

\* Whatever is lost or overwritten, no handler ever stores or works on a
\* proposal in between: the votes, the status and the txid always belong
\* together (model/txproposal.ts, _updateStatus and sign).
DocsConsistent ==
    /\ \A i \in TxpId : \A t \in Docs(i) : Consistent(t)
    /\ \A r \in Request : req[r] # Idle => Consistent(req[r].txp)

\* A proposal is stored as broadcasted only if the network has exactly the
\* transaction of its txid, through all the paths that store it: the answer of
\* the network, a lost answer, another copayer, a poll or the monitor.
BroadcastedOnNetwork ==
    \A i \in TxpId : \A t \in Docs(i) :
        t.status = "broadcasted" => [id |-> i, signers |-> t.txid] \in network

\* A transaction that reached the network is the one its proposal records,
\* whoever broadcasted it and however late the handler that did: only the
\* proposals that a stale copy overwrote, and the removed ones, lose track of
\* it (server.ts, broadcastTx and removePendingTx, which take no common lock).
NetworkTxRecorded ==
    \A tx \in network :
        Exists(tx.id) /\ tx.id \notin clobbered
        => /\ Fetch(tx.id).status \in {"accepted", "broadcasted"}
           /\ Fetch(tx.id).txid = tx.signers

\* The proposals that keep their inputs from other proposals.
Holds(i) == \E t \in Docs(i) : IsPending(t) \/ t.status = "broadcasted"

\* Two published proposals never hold the same UTXO, unless the lock of a
\* handler ran out or a stale copy overwrote one of them: publishTx reads the
\* pending proposals first and the broadcasted ones after (server.ts,
\* getUtxosForCurrentWallet), and proposals only move that way.
InputsHeldOnce ==
    \A i, j \in TxpId :
        /\ i # j /\ InputsOf[i] \cap InputsOf[j] # {}
        /\ Holds(i) /\ Holds(j)
        => leaseOver \/ i \in clobbered \/ j \in clobbered

\* The order of the states of a proposal.
Rank == [temporary |-> 0, pending |-> 1, accepted |-> 2, rejected |-> 3,
         broadcasted |-> 4]

MovesForward(t, u) ==
    /\ Rank[t.status] <= Rank[u.status]
    /\ t.status = "rejected" => u = t
    /\ t.status = "broadcasted" => u = t
    /\ \A c \in Copayer : t.votes[c] # "none" => u.votes[c] = t.votes[c]
    /\ t.txid # {} => u.txid = t.txid

\* Only a stale copy takes a proposal back: otherwise no vote is lost, what is
\* rejected or broadcasted stays as it is, and only a pending one is removed.
ForwardOnly ==
    [][\A i \in TxpId :
          Exists(i) /\ i \notin clobbered' =>
             IF Exists(i)' THEN MovesForward(Fetch(i), Fetch(i)')
             ELSE IsPending(Fetch(i))]_vars
=============================================================================
