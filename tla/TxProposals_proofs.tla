------------------------- MODULE TxProposals_proofs -------------------------
(***************************************************************************)
(* Proofs about TxProposals, for any wallet, any proposals and any number  *)
(* of requests in flight: its type invariant, that the votes, the status   *)
(* and the txid of every document and of every copy belong together, that  *)
(* what is stored as broadcasted is on the network and what is on the      *)
(* network is recorded, that only a stale copy takes a proposal back, and  *)
(* that two published proposals never hold the same input.                 *)
(***************************************************************************)
EXTENDS TxProposals, FiniteSetTheorems, SequenceTheorems, TLAPS

-----------------------------------------------------------------------------
\* Proposals and documents

\* An approver or a rejecter is a copayer.
LEMMA VotersType ==
    ASSUME NEW t \in Txp
    PROVE  /\ Approvers(t) \in SUBSET Copayer
           /\ Rejecters(t) \in SUBSET Copayer
BY DEF Approvers, Rejecters

\* A new proposal is one.
LEMMA NewTxpType == NewTxp \in Txp
BY DEF NewTxp, Txp, Status

\* A vote, a publication and a broadcast give a proposal.
LEMMA TxpType ==
    ASSUME NEW t \in Txp, NEW c \in Copayer
    PROVE  /\ Sign(t, c) \in Txp
           /\ Reject(t, c) \in Txp
           /\ SetBroadcasted(t) \in Txp
           /\ [t EXCEPT !.status = "pending"] \in Txp
<1>1. ASSUME NEW type \in {"accept", "reject"}
      PROVE  AddAction(t, c, type) \in Txp
  <2> DEFINE u == [t EXCEPT !.votes = [@ EXCEPT ![c] = type]]
  <2>1. u \in Txp
    BY DEF Txp
  <2>2. UpdatedStatus(u) \in Status
    BY <2>1 DEF UpdatedStatus, Txp, Status
  <2>3. AddAction(t, c, type) = [u EXCEPT !.status = UpdatedStatus(u)]
    BY DEF AddAction
  <2> HIDE DEF u
  <2> QED
    BY <2>1, <2>2, <2>3 DEF Txp
<1>2. Sign(t, c) \in Txp
  <2> DEFINE u == AddAction(t, c, "accept")
  <2>1. u \in Txp /\ Approvers(u) \in SUBSET Copayer
    BY <1>1, VotersType
  <2>2. Sign(t, c) = IF u.status = "accepted" THEN [u EXCEPT !.txid = Approvers(u)] ELSE u
    BY DEF Sign
  <2> HIDE DEF u
  <2> QED
    BY <2>1, <2>2 DEF Txp
<1>3. Reject(t, c) \in Txp
  BY <1>1 DEF Reject
<1>4. SetBroadcasted(t) \in Txp /\ [t EXCEPT !.status = "pending"] \in Txp
  BY DEF SetBroadcasted, Txp, Status
<1> QED
  BY <1>2, <1>3, <1>4

Elements(docs) == {docs[k] : k \in DOMAIN docs}

\* storeTx leaves one document at least: the one it stores, and old ones.
LEMMA StoreDocs ==
    ASSUME NEW docs \in Seq(Txp), NEW t \in Txp
    PROVE  /\ Store(docs, t) \in Seq(Txp)
           /\ Elements(Store(docs, t)) \subseteq Elements(docs) \cup {t}
BY DEF Store, Elements

\* A document is a proposal.
LEMMA DocsType ==
    ASSUME NEW docs \in Seq(Txp)
    PROVE  /\ Elements(docs) \subseteq Txp
           /\ docs # <<>> => docs[1] \in Elements(docs)
BY DEF Elements

\* deleteOne leaves old documents, and so does an insertion but for the new one.
LEMMA OtherDocs ==
    ASSUME NEW docs \in Seq(Txp), NEW t \in Txp
    PROVE  /\ Append(docs, t) \in Seq(Txp)
           /\ Elements(Append(docs, t)) \subseteq Elements(docs) \cup {t}
           /\ docs # <<>> => /\ Tail(docs) \in Seq(Txp)
                             /\ Elements(Tail(docs)) \subseteq Elements(docs)
BY DEF Elements

-----------------------------------------------------------------------------
\* Requests

\* A request whose next call is known is in flight.
LEMMA BusyType ==
    ASSUME TypeOK, NEW r \in Request, req[r] # Idle \/ req[r].at \in Stage
    PROVE  /\ req[r] \in Req
           /\ req[r] # Idle
           /\ req[r].id \in TxpId
           /\ req[r].who \in Copayer
           /\ req[r].txp \in Txp
BY DEF TypeOK, Idle, Stage, Req

\* A request starts, goes on or ends.
LEMMA StartType ==
    ASSUME TypeOK, NEW r \in Request, NEW stage \in Stage, NEW i \in TxpId,
           NEW c \in Copayer, NEW t \in Txp, Start(r, stage, i, c, t)
    PROVE  req' \in [Request -> Req \cup {Idle}]
BY DEF TypeOK, Start, Req

\* A request goes on.
LEMMA GoType ==
    ASSUME TypeOK, NEW r \in Request, req[r] # Idle, NEW stage \in Stage, Go(r, stage)
    PROVE  req' \in [Request -> Req \cup {Idle}]
<1>1. req[r] \in Req
  BY BusyType
<1>2. [req[r] EXCEPT !.at = stage] \in Req
  BY <1>1 DEF Req
<1> QED
  BY <1>2 DEF TypeOK, Go

\* A request ends.
LEMMA EndType ==
    ASSUME TypeOK, NEW r \in Request, End(r)
    PROVE  req' \in [Request -> Req \cup {Idle}]
BY DEF TypeOK, End

\* What happens to the wallet lock.
LEMMA LockType ==
    ASSUME TypeOK, NEW r \in Request,
           KeepLock \/ Unlock(r) \/ Lock!Grant(r) \/ Lock!LeaseEnds \/ Lock!Lost
    PROVE  lock' \in Request \cup {NoRequest} /\ leaseOver' \in BOOLEAN
BY DEF TypeOK, KeepLock, Unlock, Lock!Grant, Lock!Release, Lock!LeaseEnds, Lock!Lost

\* A write leaves old documents and the one it writes.
LEMMA WriteType ==
    ASSUME TypeOK, NEW r \in Request, req[r] # Idle, NEW t \in Txp,
           txps' = [txps EXCEPT ![req[r].id] = Store(@, t)],
           clobbered' \subseteq clobbered \cup {req[r].id}
    PROVE  /\ txps' \in [TxpId -> Seq(Txp)]
           /\ clobbered' \subseteq TxpId
           /\ \A i \in TxpId : \A d \in Docs(i)' :
                 d \in Docs(i) \/ (d = t /\ i = req[r].id)
<1>1. req[r].id \in TxpId
  BY BusyType
<1>2. /\ Store(txps[req[r].id], t) \in Seq(Txp)
      /\ Elements(Store(txps[req[r].id], t)) \subseteq Elements(txps[req[r].id]) \cup {t}
  BY <1>1, StoreDocs DEF TypeOK
<1> DEFINE i == req[r].id
           docs == Store(txps[i], t)
<1>3. /\ txps' = [txps EXCEPT ![i] = docs]
      /\ clobbered' \subseteq clobbered \cup {i}
  OBVIOUS
<1>4. \A j \in TxpId : txps'[j] = txps[j] \/ (j = i /\ txps'[j] = docs)
  BY <1>3 DEF TypeOK
<1>5. txps' \in [TxpId -> Seq(Txp)] /\ clobbered' \subseteq TxpId
  <2> HIDE DEF i, docs
  <2> QED
    BY <1>1, <1>2, <1>3 DEF TypeOK, i, docs
<1>6. ASSUME NEW j \in TxpId, NEW d \in Docs(j)'
      PROVE  d \in Docs(j) \/ (d = t /\ j = i)
  <2>1. Docs(j)' = Elements(txps'[j]) /\ Docs(j) = Elements(txps[j])
    BY DEF Docs, Elements
  <2> HIDE DEF docs
  <2>2. CASE txps'[j] = txps[j]
    BY <1>6, <2>1, <2>2
  <2>3. CASE j = i /\ txps'[j] = docs
    BY <1>6, <1>2, <2>1, <2>3 DEF docs
  <2> QED
    BY <1>4, <2>2, <2>3
<1> QED
  BY <1>5, <1>6

\* The documents of a proposal are proposals.
LEMMA FetchType ==
    ASSUME TypeOK, NEW i \in TxpId
    PROVE  /\ Docs(i) \subseteq Txp
           /\ Exists(i) => Fetch(i) \in Docs(i)
BY DocsType DEF TypeOK, Docs, Elements, Exists, Fetch

\* Marked leaves old documents and a proposal that is marked as broadcasted.
LEMMA MarkedDocs ==
    ASSUME TypeOK, NEW i \in TxpId
    PROVE  /\ Marked(i) \in Seq(Txp)
           /\ \A d \in Elements(Marked(i)) :
                 \/ d \in Docs(i)
                 \/ \E t \in Docs(i) : OnNetwork(i, t) /\ d = SetBroadcasted(t)
<1>1. txps[i] \in Seq(Txp) /\ Elements(txps[i]) = Docs(i)
  BY DEF TypeOK, Docs, Elements
<1>2. CASE Marked(i) = txps[i]
  BY <1>1, <1>2
<1>3. CASE Marked(i) # txps[i]
  <2>1. PICK t \in Docs(i) : OnNetwork(i, t) /\ Marked(i) = Store(txps[i], SetBroadcasted(t))
    BY <1>3 DEF Marked
  <2>2. t \in Txp
    BY <2>1, FetchType
  <2>3. SetBroadcasted(t) \in Txp
    BY <2>2 DEF SetBroadcasted, Txp, Status
  <2>4. /\ Marked(i) \in Seq(Txp)
        /\ Elements(Marked(i)) \subseteq Elements(txps[i]) \cup {SetBroadcasted(t)}
    BY <1>1, <2>1, <2>3, StoreDocs
  <2> QED
    BY <1>1, <2>1, <2>4
<1> QED
  BY <1>2, <1>3

-----------------------------------------------------------------------------
\* The rules of the votes

\* A vote is counted once.
LEMMA VoteCount ==
    ASSUME NEW t \in Txp, NEW c \in Copayer, t.votes[c] = "none",
           NEW type \in {"accept", "reject"},
           NEW u, u = [t EXCEPT !.votes = [@ EXCEPT ![c] = type]]
    PROVE  /\ Cardinality(Approvers(t)) \in Nat
           /\ Cardinality(Rejecters(t)) \in Nat
           /\ Cardinality(Approvers(u)) =
                 IF type = "accept" THEN Cardinality(Approvers(t)) + 1
                 ELSE Cardinality(Approvers(t))
           /\ Cardinality(Rejecters(u)) =
                 IF type = "reject" THEN Cardinality(Rejecters(t)) + 1
                 ELSE Cardinality(Rejecters(t))
<1>1. IsFiniteSet(Approvers(t)) /\ IsFiniteSet(Rejecters(t))
  BY VotersType, WalletAssumption, FS_Subset
<1>2. /\ u.votes = [t.votes EXCEPT ![c] = type]
      /\ t.votes \in [Copayer -> {"none", "accept", "reject"}]
  BY DEF Txp
<1>3. c \notin Approvers(t) /\ c \notin Rejecters(t)
  BY DEF Approvers, Rejecters
<1>4. Approvers(u) = IF type = "accept" THEN Approvers(t) \cup {c} ELSE Approvers(t)
  BY <1>2 DEF Approvers
<1>5. Rejecters(u) = IF type = "reject" THEN Rejecters(t) \cup {c} ELSE Rejecters(t)
  BY <1>2 DEF Rejecters
<1>6. /\ Cardinality(Approvers(t)) \in Nat
      /\ Cardinality(Rejecters(t)) \in Nat
      /\ Cardinality(Approvers(t) \cup {c}) = Cardinality(Approvers(t)) + 1
      /\ Cardinality(Rejecters(t) \cup {c}) = Cardinality(Rejecters(t)) + 1
  BY <1>1, <1>3, FS_AddElement, FS_CardinalityType
<1> QED
  BY <1>4, <1>5, <1>6

\* Some rejections are required, and some signatures.
LEMMA Thresholds == M \in Nat \ {0} /\ RequiredRejections \in Nat \ {0}
<1>1. N \in Nat
  BY WalletAssumption, FS_CardinalityType DEF N
<1> QED
  BY <1>1, WalletAssumption DEF RequiredRejections

\* A new proposal is consistent, and a temporary one when it is published.
LEMMA ConsistentNew == Consistent(NewTxp)
<1>1. Approvers(NewTxp) = {} /\ Rejecters(NewTxp) = {}
  BY DEF Approvers, Rejecters, NewTxp
<1>2. NewTxp.status = "temporary" /\ NewTxp.txid = {}
  BY DEF NewTxp
<1>3. Cardinality({}) = 0
  BY FS_EmptySet
<1> QED
  BY <1>1, <1>2, <1>3, Thresholds DEF Consistent

\* A published proposal still agrees with the rules.
LEMMA ConsistentPublished ==
    ASSUME NEW t \in Txp, Consistent(t), t.status = "temporary"
    PROVE  Consistent([t EXCEPT !.status = "pending"])
<1> DEFINE u == [t EXCEPT !.status = "pending"]
<1>1. u.votes = t.votes /\ u.txid = t.txid /\ u.status = "pending"
  BY DEF Txp
<1>2. Approvers(u) = Approvers(t) /\ Rejecters(u) = Rejecters(t)
  BY <1>1 DEF Approvers, Rejecters
<1> HIDE DEF u
<1> QED
  BY <1>1, <1>2 DEF Consistent, u

\* A pending proposal is consistent after a vote, an accepted one when it is
\* marked as broadcasted.
LEMMA ConsistentVote ==
    ASSUME NEW t \in Txp, Consistent(t), NEW c \in Copayer
    PROVE  /\ CanSign(t, c) => Consistent(Sign(t, c)) /\ Sign(t, c).status # "broadcasted"
           /\ CanReject(t, c) => Consistent(Reject(t, c)) /\ Reject(t, c).status # "broadcasted"
<1>1. ASSUME CanSign(t, c)
      PROVE  Consistent(Sign(t, c)) /\ Sign(t, c).status # "broadcasted"
  <2> DEFINE u == [t EXCEPT !.votes = [@ EXCEPT ![c] = "accept"]]
             v == AddAction(t, c, "accept")
             w == Sign(t, c)
  <2>1. t.status = "pending" /\ t.votes[c] = "none" /\ t.txid = {}
    BY <1>1, Thresholds DEF CanSign, IsPending, Consistent, Txp, Status
  <2>2. /\ Cardinality(Approvers(u)) = Cardinality(Approvers(t)) + 1
        /\ Cardinality(Rejecters(u)) = Cardinality(Rejecters(t))
        /\ Cardinality(Approvers(t)) \in Nat
        /\ Cardinality(Rejecters(t)) \in Nat
    BY <2>1, VoteCount
  <2>3. /\ Cardinality(Approvers(u)) <= M
        /\ Cardinality(Rejecters(u)) < RequiredRejections
    BY <1>1, <2>1, <2>2, Thresholds DEF CanSign, Consistent
  <2>4. u \in Txp /\ u.status = "pending" /\ u.txid = {}
    BY <2>1 DEF Txp
  <2>5. UpdatedStatus(u) = IF Cardinality(Approvers(u)) = M THEN "accepted" ELSE "pending"
    BY <2>2, <2>3, <2>4, Thresholds DEF UpdatedStatus, IsAccepted, IsRejected
  <2>6. v = [u EXCEPT !.status = UpdatedStatus(u)]
    BY DEF AddAction
  <2>7. /\ v.votes = u.votes /\ v.txid = {} /\ v.status = UpdatedStatus(u)
        /\ v \in [status : {UpdatedStatus(u)}, votes : {u.votes}, txid : {{}}]
    <3> HIDE DEF u
    <3> QED
      BY <2>4, <2>6 DEF Txp
  <2>8. Approvers(v) = Approvers(u)
    BY <2>7 DEF Approvers
  <2>9. w = IF v.status = "accepted" THEN [v EXCEPT !.txid = Approvers(v)] ELSE v
    BY DEF Sign
  <2>10. w.votes = u.votes /\ w.status = UpdatedStatus(u)
         /\ w.txid = IF w.status = "accepted" THEN Approvers(u) ELSE {}
    <3> HIDE DEF u, v, w
    <3> QED
      BY <2>7, <2>8, <2>9
  <2>11. Approvers(w) = Approvers(u) /\ Rejecters(w) = Rejecters(u)
    BY <2>10 DEF Approvers, Rejecters
  <2> HIDE DEF u, v, w
  <2>12. Consistent(w)
    BY <2>2, <2>3, <2>5, <2>10, <2>11, Thresholds DEF Consistent
  <2> QED
    BY <2>5, <2>10, <2>12 DEF w
<1>2. ASSUME CanReject(t, c)
      PROVE  Consistent(Reject(t, c)) /\ Reject(t, c).status # "broadcasted"
  <2> DEFINE u == [t EXCEPT !.votes = [@ EXCEPT ![c] = "reject"]]
             w == Reject(t, c)
  <2>1. t.status = "pending" /\ t.votes[c] = "none" /\ t.txid = {}
    BY <1>2 DEF CanReject, Consistent
  <2>2. /\ Cardinality(Approvers(u)) = Cardinality(Approvers(t))
        /\ Cardinality(Rejecters(u)) = Cardinality(Rejecters(t)) + 1
        /\ Cardinality(Approvers(t)) \in Nat
        /\ Cardinality(Rejecters(t)) \in Nat
    BY <2>1, VoteCount
  <2>3. /\ Cardinality(Approvers(u)) < M
        /\ Cardinality(Rejecters(u)) <= RequiredRejections
    BY <2>1, <2>2, Thresholds DEF Consistent
  <2>4. u \in Txp /\ u.status = "pending" /\ u.txid = {}
    BY <2>1 DEF Txp
  <2>5. UpdatedStatus(u) =
           IF Cardinality(Rejecters(u)) = RequiredRejections THEN "rejected" ELSE "pending"
    BY <2>2, <2>3, <2>4, Thresholds DEF UpdatedStatus, IsAccepted, IsRejected
  <2>6. w = [u EXCEPT !.status = UpdatedStatus(u)]
    BY DEF AddAction, Reject
  <2>7. w.votes = u.votes /\ w.txid = {} /\ w.status = UpdatedStatus(u)
    <3> HIDE DEF u, w
    <3> QED
      BY <2>4, <2>6 DEF Txp
  <2>8. Approvers(w) = Approvers(u) /\ Rejecters(w) = Rejecters(u)
    BY <2>7 DEF Approvers, Rejecters
  <2> HIDE DEF u, w
  <2>9. Consistent(w)
    BY <2>2, <2>3, <2>5, <2>7, <2>8, Thresholds DEF Consistent
  <2> QED
    BY <2>5, <2>7, <2>9 DEF w
<1> QED
  BY <1>1, <1>2

\* So does an accepted proposal that is broadcasted.
LEMMA ConsistentBroadcasted ==
    ASSUME NEW t \in Txp, Consistent(t), t.status = "accepted"
    PROVE  /\ Consistent(SetBroadcasted(t))
           /\ SetBroadcasted(t).txid = t.txid
<1> DEFINE u == SetBroadcasted(t)
<1>1. u.votes = t.votes /\ u.txid = t.txid /\ u.status = "broadcasted"
  BY DEF SetBroadcasted, Txp
<1>2. Approvers(u) = Approvers(t) /\ Rejecters(u) = Rejecters(t)
  BY <1>1 DEF Approvers, Rejecters
<1> HIDE DEF u
<1> QED
  BY <1>1, <1>2 DEF Consistent, u

-----------------------------------------------------------------------------
\* The inductive invariant

\* A document that is broadcasted has its transaction among those of net.
Good(i, t, net) ==
    /\ Consistent(t)
    /\ t.status = "broadcasted" => [id |-> i, signers |-> t.txid] \in net

\* A copy in flight still passes the checks of its handler, and what is about
\* to be marked as broadcasted is on the network.
GoodCopy(s, net) ==
    s # Idle =>
        /\ Consistent(s.txp)
        /\ s.at \in {"pendings", "spents", "publish"} => s.txp.status = "temporary"
        /\ s.at = "sign" => CanSign(s.txp, s.who)
        /\ s.at = "reject" => CanReject(s.txp, s.who)
        /\ s.at \in {"send", "check", "mark", "wait", "third"} => s.txp.status = "accepted"
        /\ s.at \in {"mark", "wait", "third"}
              => [id |-> s.id, signers |-> s.txp.txid] \in net

GoodDocs == \A i \in TxpId : \A t \in Docs(i) : Good(i, t, network)
GoodCopies == \A r \in Request : GoodCopy(req[r], network)

IInv == TypeOK /\ GoodDocs /\ GoodCopies

\* The documents and the copies stay good when the network takes transactions.
LEMMA NetworkGrows ==
    ASSUME GoodDocs, GoodCopies, NEW net, network \subseteq net
    PROVE  /\ \A i \in TxpId : \A t \in Docs(i) : Good(i, t, net)
           /\ \A r \in Request : GoodCopy(req[r], net)
<1>1. \A i \in TxpId : \A t \in Docs(i) : Good(i, t, net)
  BY DEF GoodDocs, Good
<1>2. \A r \in Request : GoodCopy(req[r], net)
  BY DEF GoodCopies, GoodCopy
<1> QED
  BY <1>1, <1>2

\* The documents that are written are good.
LEMMA DocsStep ==
    ASSUME GoodDocs, network \subseteq network',
           \A i \in TxpId : \A d \in Docs(i)' : d \in Docs(i) \/ Good(i, d, network')
    PROVE  GoodDocs'
BY DEF GoodDocs, Good

\* One request changes to s.
LEMMA NewCopy ==
    ASSUME TypeOK, GoodCopies, network \subseteq network', NEW r \in Request, NEW s,
           GoodCopy(s, network'), req' = [req EXCEPT ![r] = s]
    PROVE  GoodCopies'
<1>1. \A q \in Request : req'[q] = req[q] \/ req'[q] = s
  BY DEF TypeOK
<1>2. ASSUME NEW q \in Request PROVE GoodCopy(req'[q], network')
  <2>1. CASE req'[q] = req[q]
    BY <2>1 DEF GoodCopies, GoodCopy
  <2>2. CASE req'[q] = s
    BY <2>2
  <2> QED
    BY <1>1, <2>1, <2>2
<1> QED
  BY <1>2 DEF GoodCopies

\* A request that ends has no copy.
LEMMA EndCopy ==
    ASSUME TypeOK, GoodCopies, network \subseteq network', NEW r \in Request, End(r)
    PROVE  GoodCopies'
<1>1. GoodCopy(Idle, network')
  BY DEF GoodCopy
<1> QED
  BY <1>1, NewCopy DEF End

\* A request goes on with the same copy.
LEMMA GoCopy ==
    ASSUME TypeOK, GoodCopies, network \subseteq network', NEW r \in Request, req[r] # Idle,
           NEW stage \in Stage, Go(r, stage),
           GoodCopy([req[r] EXCEPT !.at = stage], network')
    PROVE  GoodCopies'
<1>1. req' = [req EXCEPT ![r] = [req[r] EXCEPT !.at = stage]]
  BY DEF Go
<1> QED
  BY <1>1, NewCopy

-----------------------------------------------------------------------------
\* Kinds of steps

\* A handler starts with a good copy.
LEMMA StartStep ==
    ASSUME IInv, NEW r \in Request, NEW stage \in Stage, NEW i \in TxpId,
           NEW c \in Copayer, NEW t \in Txp, Start(r, stage, i, c, t),
           GoodCopy([at |-> stage, id |-> i, who |-> c, txp |-> t], network),
           KeepLock \/ Lock!Grant(r), created' \subseteq TxpId,
           UNCHANGED <<txps, network, signed, aged, clobbered>>
    PROVE  IInv'
<1> USE DEF IInv
<1>1. TypeOK'
  <2>1. lock' \in Request \cup {NoRequest} /\ leaseOver' \in BOOLEAN
    BY LockType
  <2> QED
    BY <2>1, StartType DEF TypeOK
<1>2. GoodDocs'
  BY DocsStep DEF Docs
<1>3. GoodCopies'
  BY NewCopy DEF Start
<1> QED
  BY <1>1, <1>2, <1>3

\* A handler goes on with the same copy, and the network may take a transaction.
LEMMA GoStep ==
    ASSUME IInv, NEW r \in Request, req[r] # Idle, NEW stage \in Stage, Go(r, stage),
           network \subseteq network', network' \subseteq Tx,
           GoodCopy([req[r] EXCEPT !.at = stage], network'),
           KeepLock, UNCHANGED <<txps, signed, created, aged, clobbered>>
    PROVE  IInv'
<1> USE DEF IInv
<1>1. TypeOK'
  BY LockType, GoType DEF TypeOK, KeepLock
<1>2. GoodDocs'
  BY DocsStep DEF Docs
<1>3. GoodCopies'
  BY GoCopy
<1> QED
  BY <1>1, <1>2, <1>3

\* A handler ends and writes nothing.
LEMMA EndStep ==
    ASSUME IInv, NEW r \in Request, End(r), KeepLock \/ Unlock(r),
           UNCHANGED <<txps, network, signed, created, aged, clobbered>>
    PROVE  IInv'
<1> USE DEF IInv
<1>1. TypeOK'
  <2>1. lock' \in Request \cup {NoRequest} /\ leaseOver' \in BOOLEAN
    BY LockType
  <2> QED
    BY <2>1, EndType DEF TypeOK
<1>2. GoodDocs'
  BY DocsStep DEF Docs
<1>3. GoodCopies'
  BY EndCopy
<1> QED
  BY <1>1, <1>2, <1>3

\* A handler writes t and ends.
LEMMA WriteStep ==
    ASSUME IInv, NEW r \in Request, req[r] # Idle, NEW t \in Txp,
           Good(req[r].id, t, network),
           txps' = [txps EXCEPT ![req[r].id] = Store(@, t)],
           clobbered' \subseteq clobbered \cup {req[r].id},
           End(r), KeepLock \/ Unlock(r), signed' \subseteq Tx,
           UNCHANGED <<network, created, aged>>
    PROVE  IInv'
<1> USE DEF IInv
<1>1. /\ txps' \in [TxpId -> Seq(Txp)]
      /\ clobbered' \subseteq TxpId
      /\ \A i \in TxpId : \A d \in Docs(i)' :
            d \in Docs(i) \/ (d = t /\ i = req[r].id)
  BY WriteType
<1>2. TypeOK'
  <2>1. lock' \in Request \cup {NoRequest} /\ leaseOver' \in BOOLEAN
    BY LockType
  <2> QED
    BY <1>1, <2>1, EndType DEF TypeOK
<1>3. GoodDocs'
  <2>1. \A i \in TxpId : \A d \in Docs(i)' : d \in Docs(i) \/ Good(i, d, network')
    BY <1>1
  <2> QED
    BY <2>1, DocsStep
<1>4. GoodCopies'
  BY EndCopy
<1> QED
  BY <1>2, <1>3, <1>4

-----------------------------------------------------------------------------
\* The actions

\* What a handler reads is good.
LEMMA ReadGood ==
    ASSUME IInv, NEW i \in TxpId
    PROVE  /\ Docs(i) \subseteq Txp
           /\ \A t \in Docs(i) : Good(i, t, network)
           /\ Exists(i) => Fetch(i) \in Docs(i)
BY FetchType DEF IInv, GoodDocs

\* What a handler has read is good, too.
LEMMA CopyGood ==
    ASSUME IInv, NEW r \in Request, req[r].at \in Stage
    PROVE  /\ req[r] # Idle
           /\ req[r].id \in TxpId
           /\ req[r].who \in Copayer
           /\ req[r].txp \in Txp
           /\ GoodCopy(req[r], network)
BY BusyType DEF IInv, GoodCopies

\* A handler that starts reads a document that is good and passes its checks.
LEMMA HandlerStep ==
    ASSUME IInv, NEW r \in Request, NEW i \in TxpId, Handler(r, i)
    PROVE  IInv'
<1> USE DEF Stage
<1>0. Creator[i] \in Copayer /\ created \subseteq TxpId
  BY ProposalAssumption DEF IInv, TypeOK
<1>1. CASE CreateTx(r, i)
  <2>1. NewTxp \in Txp
    BY NewTxpType
  <2>2. GoodCopy([at |-> "create", id |-> i, who |-> Creator[i], txp |-> NewTxp], network)
    BY ConsistentNew DEF GoodCopy
  <2> QED
    BY <1>0, <1>1, <2>1, <2>2, StartStep DEF CreateTx
<1>2. CASE PublishTx(r, i)
  <2>1. Fetch(i) \in Txp /\ Consistent(Fetch(i)) /\ Fetch(i).status = "temporary"
    BY <1>2, ReadGood DEF PublishTx, Good
  <2>2. GoodCopy([at |-> "pendings", id |-> i, who |-> Creator[i], txp |-> Fetch(i)], network)
    BY <2>1 DEF GoodCopy
  <2> QED
    BY <1>0, <1>2, <2>1, <2>2, StartStep DEF PublishTx
<1>3. CASE BroadcastTx(r, i)
  <2>1. Fetch(i) \in Txp /\ Consistent(Fetch(i)) /\ Fetch(i).status = "accepted"
    BY <1>3, ReadGood DEF BroadcastTx, Good
  <2>2. GoodCopy([at |-> "send", id |-> i, who |-> Creator[i], txp |-> Fetch(i)], network)
    BY <2>1 DEF GoodCopy
  <2> QED
    BY <1>0, <1>3, <2>1, <2>2, StartStep DEF BroadcastTx
<1>4. CASE GetPendingTxs(r, i)
  <2>1. PICK t \in Docs(i) : t.status = "accepted" /\ Start(r, "check", i, Creator[i], t)
    BY <1>4 DEF GetPendingTxs
  <2>2. t \in Txp /\ Consistent(t)
    BY ReadGood DEF Good
  <2>3. GoodCopy([at |-> "check", id |-> i, who |-> Creator[i], txp |-> t], network)
    BY <2>1, <2>2 DEF GoodCopy
  <2> QED
    BY <1>0, <1>4, <2>1, <2>2, <2>3, StartStep DEF GetPendingTxs
<1>5. ASSUME NEW c \in Copayer, SignTx(r, c, i) PROVE IInv'
  <2>1. Fetch(i) \in Txp /\ Consistent(Fetch(i)) /\ CanSign(Fetch(i), c)
    BY <1>5, ReadGood DEF SignTx, Good
  <2>2. GoodCopy([at |-> "sign", id |-> i, who |-> c, txp |-> Fetch(i)], network)
    BY <2>1 DEF GoodCopy
  <2> QED
    BY <1>0, <1>5, <2>1, <2>2, StartStep DEF SignTx
<1>6. ASSUME NEW c \in Copayer, RejectTx(r, c, i) PROVE IInv'
  <2>1. Fetch(i) \in Txp /\ Consistent(Fetch(i)) /\ CanReject(Fetch(i), c)
    BY <1>6, ReadGood DEF RejectTx, Good
  <2>2. GoodCopy([at |-> "reject", id |-> i, who |-> c, txp |-> Fetch(i)], network)
    BY <2>1 DEF GoodCopy
  <2> QED
    BY <1>0, <1>6, <2>1, <2>2, StartStep DEF RejectTx
<1>7. ASSUME NEW c \in Copayer, RemovePendingTx(r, c, i) PROVE IInv'
  <2>1. Fetch(i) \in Txp /\ Consistent(Fetch(i))
    BY <1>7, ReadGood DEF RemovePendingTx, Good
  <2>2. GoodCopy([at |-> "remove", id |-> i, who |-> c, txp |-> Fetch(i)], network)
    BY <2>1 DEF GoodCopy
  <2> QED
    BY <1>0, <1>7, <2>1, <2>2, StartStep DEF RemovePendingTx
<1> QED
  BY <1>1, <1>2, <1>3, <1>4, <1>5, <1>6, <1>7 DEF Handler

\* The steps that write the proposal.
LEMMA StoreStep ==
    ASSUME IInv, NEW r \in Request,
           \/ CreateStore(r) \/ PublishStore(r) \/ SignStore(r)
           \/ RejectStore(r) \/ ProcessBroadcast(r)
    PROVE  IInv'
<1> DEFINE i == req[r].id
           t == req[r].txp
           c == req[r].who
<1>0. req[r].at \in Stage /\ signed \subseteq Tx
  BY DEF CreateStore, PublishStore, SignStore, RejectStore, ProcessBroadcast, Stage,
         IInv, TypeOK
<1>1. req[r] # Idle /\ i \in TxpId /\ c \in Copayer /\ t \in Txp /\ GoodCopy(req[r], network)
  BY <1>0, CopyGood
<1>2. Consistent(t)
  BY <1>1 DEF GoodCopy
<1>t. /\ NewTxp \in Txp
      /\ Sign(t, c) \in Txp
      /\ Reject(t, c) \in Txp
      /\ SetBroadcasted(t) \in Txp
      /\ [t EXCEPT !.status = "pending"] \in Txp
  BY <1>1, NewTxpType, TxpType
<1>w. ASSUME NEW u, Write(r, u)
      PROVE  /\ txps' = [txps EXCEPT ![i] = Store(@, u)]
             /\ clobbered' \subseteq clobbered \cup {i}
  BY <1>w DEF Write
<1>3. CASE CreateStore(r)
  <2>1. Good(i, NewTxp, network)
    BY ConsistentNew DEF Good, NewTxp
  <2> QED
    BY <1>0, <1>1, <1>3, <1>t, <2>1, WriteStep DEF CreateStore
<1>4. CASE PublishStore(r)
  <2>1. t.status = "temporary"
    BY <1>1, <1>4 DEF PublishStore, GoodCopy
  <2>2. Good(i, [t EXCEPT !.status = "pending"], network)
    BY <1>1, <1>2, <2>1, ConsistentPublished DEF Good, Txp
  <2> QED
    BY <1>0, <1>1, <1>4, <1>t, <1>w, <2>2, WriteStep DEF PublishStore
<1>5. CASE SignStore(r)
  <2>1. CanSign(t, c)
    BY <1>1, <1>5 DEF SignStore, GoodCopy
  <2>2. Good(i, Sign(t, c), network)
    BY <1>1, <1>2, <2>1, ConsistentVote DEF Good
  <2>3. signed' \subseteq Tx
    <3>1. TxOf(i, Sign(t, c)) \in Tx
      BY <1>1, <1>t, VotersType DEF TxOf, Tx
    <3> QED
      BY <1>0, <1>5, <3>1 DEF SignStore
  <2> QED
    BY <1>1, <1>5, <1>t, <1>w, <2>2, <2>3, WriteStep DEF SignStore
<1>6. CASE RejectStore(r)
  <2>1. CanReject(t, c)
    BY <1>1, <1>6 DEF RejectStore, GoodCopy
  <2>2. Good(i, Reject(t, c), network)
    BY <1>1, <1>2, <2>1, ConsistentVote DEF Good
  <2> QED
    BY <1>0, <1>1, <1>6, <1>t, <1>w, <2>2, WriteStep DEF RejectStore
<1>7. CASE ProcessBroadcast(r)
  <2>1. t.status = "accepted" /\ [id |-> i, signers |-> t.txid] \in network
    BY <1>1, <1>7 DEF ProcessBroadcast, GoodCopy
  <2>2. Good(i, SetBroadcasted(t), network)
    BY <1>1, <1>2, <2>1, ConsistentBroadcasted DEF Good
  <2> QED
    BY <1>0, <1>1, <1>7, <1>t, <1>w, <2>2, WriteStep DEF ProcessBroadcast
<1> QED
  BY <1>3, <1>4, <1>5, <1>6, <1>7

\* A request that goes on is in flight, and keeps its copy.
LEMMA GoFields ==
    ASSUME NEW s \in Req, NEW stage \in Stage
    PROVE  /\ [s EXCEPT !.at = stage].at = stage
           /\ [s EXCEPT !.at = stage].id = s.id
           /\ [s EXCEPT !.at = stage].who = s.who
           /\ [s EXCEPT !.at = stage].txp = s.txp
BY DEF Req

\* publishTx
LEMMA PublishStep ==
    ASSUME IInv, NEW r \in Request, PublishPendings(r) \/ PublishSpents(r)
    PROVE  IInv'
<1> DEFINE t == req[r].txp
<1>1. req[r].at \in {"pendings", "spents"} /\ req[r].at \in Stage
  BY DEF PublishPendings, PublishSpents, Stage
<1>2. req[r] # Idle /\ req[r] \in Req /\ GoodCopy(req[r], network) /\ TypeOK
  BY <1>1, CopyGood, BusyType DEF IInv
<1>3. Consistent(t) /\ t.status = "temporary"
  BY <1>1, <1>2 DEF GoodCopy
<1>4. ASSUME NEW stage \in {"spents", "publish"}
      PROVE  stage \in Stage /\ GoodCopy([req[r] EXCEPT !.at = stage], network)
  <2>1. stage \in Stage
    BY DEF Stage
  <2> QED
    BY <1>2, <1>3, <2>1, GoFields DEF GoodCopy
<1>5. CASE PublishSpents(r)
  <2>1. network \subseteq Tx
    BY <1>2 DEF TypeOK
  <2> QED
    BY <1>2, <1>4, <1>5, <2>1, GoStep DEF PublishSpents
<1>6. CASE PublishPendings(r)
  <2> USE <1>6 DEF PublishPendings
  <2>1. \A i \in TxpId : /\ txps'[i] = Marked(i)
                         /\ Marked(i) \in Seq(Txp)
                         /\ \A d \in Elements(Marked(i)) :
                               \/ d \in Docs(i)
                               \/ \E u \in Docs(i) : OnNetwork(i, u) /\ d = SetBroadcasted(u)
    BY <1>2, MarkedDocs
  <2>2. TypeOK'
    <3>1. txps' \in [TxpId -> Seq(Txp)]
      BY <2>1
    <3>2. req' \in [Request -> Req \cup {Idle}]
      BY <1>2, <1>4, GoType
    <3>3. lock' \in Request \cup {NoRequest} /\ leaseOver' \in BOOLEAN
      BY <1>2 DEF TypeOK, KeepLock
    <3>4. clobbered' \subseteq TxpId
      BY <1>2 DEF TypeOK
    <3> QED
      BY <1>2, <3>1, <3>2, <3>3, <3>4 DEF TypeOK
  <2>3. GoodDocs'
    <3>1. ASSUME NEW i \in TxpId, NEW d \in Docs(i)'
          PROVE  d \in Docs(i) \/ Good(i, d, network')
      <4>1. d \in Elements(Marked(i))
        BY <2>1, <3>1 DEF Docs, Elements
      <4>2. CASE d \in Docs(i)
        BY <4>2
      <4>3. ASSUME NEW u \in Docs(i), OnNetwork(i, u), d = SetBroadcasted(u)
            PROVE  Good(i, d, network')
        <5>1. u \in Txp /\ Consistent(u) /\ u.status = "accepted"
          BY <4>3, ReadGood DEF OnNetwork, Good
        <5>2. [id |-> i, signers |-> u.txid] \in network'
          BY <4>3 DEF OnNetwork
        <5> QED
          BY <4>3, <5>1, <5>2, ConsistentBroadcasted DEF Good
      <4> QED
        BY <2>1, <4>1, <4>2, <4>3
    <3> QED
      BY <3>1, DocsStep DEF IInv
  <2>4. GoodCopies'
    BY <1>2, <1>4, GoCopy DEF IInv
  <2> QED
    BY <2>2, <2>3, <2>4 DEF IInv
<1> QED
  BY <1>5, <1>6

\* broadcastTx and getPendingTxs
LEMMA BroadcastStep ==
    ASSUME IInv, NEW r \in Request,
           BroadcastSend(r) \/ BroadcastError(r) \/ CheckInBlockchain(r)
    PROVE  IInv'
<1> DEFINE t == req[r].txp
           i == req[r].id
<1>1. req[r].at \in {"send", "check"} /\ req[r].at \in Stage
  BY DEF BroadcastSend, BroadcastError, CheckInBlockchain, Stage
<1>2. /\ req[r] # Idle /\ req[r] \in Req /\ i \in TxpId /\ t \in Txp
      /\ GoodCopy(req[r], network) /\ network \subseteq Tx
  BY <1>1, CopyGood, BusyType DEF IInv, TypeOK
<1>3. Consistent(t) /\ t.status = "accepted"
  BY <1>1, <1>2 DEF GoodCopy
<1>4. "check" \in Stage /\ "mark" \in Stage
  BY DEF Stage
<1>5. \A net : GoodCopy([req[r] EXCEPT !.at = "check"], net)
  BY <1>2, <1>3, <1>4, GoFields DEF GoodCopy
<1>6. \A net : [id |-> i, signers |-> t.txid] \in net
                  => GoodCopy([req[r] EXCEPT !.at = "mark"], net)
  BY <1>2, <1>3, <1>4, GoFields DEF GoodCopy
<1>7. CASE BroadcastSend(r)
  <2>1. TxOf(i, t) \in Tx
    BY <1>2, VotersType DEF TxOf, Tx
  <2>2. network' = network \cup {TxOf(i, t)}
    BY <1>7 DEF BroadcastSend
  <2>3. network \subseteq network' /\ network' \subseteq Tx
    BY <1>2, <2>1, <2>2
  <2>4. CASE TxOf(i, t).signers = t.txid /\ Go(r, "mark")
    <3>1. [id |-> i, signers |-> t.txid] \in network'
      BY <2>2, <2>4 DEF TxOf
    <3> QED
      BY <1>2, <1>4, <1>6, <1>7, <2>3, <2>4, <3>1, GoStep DEF BroadcastSend
  <2>5. CASE Go(r, "check")
    BY <1>2, <1>4, <1>5, <1>7, <2>3, <2>5, GoStep DEF BroadcastSend
  <2> QED
    BY <1>7, <2>4, <2>5 DEF BroadcastSend
<1>8. CASE BroadcastError(r)
  BY <1>2, <1>4, <1>5, <1>8, GoStep DEF BroadcastError
<1>9. CASE CheckInBlockchain(r)
  <2>1. CASE [id |-> i, signers |-> t.txid] \in network
    BY <1>2, <1>4, <1>6, <1>9, <2>1, GoStep DEF CheckInBlockchain
  <2>2. CASE [id |-> i, signers |-> t.txid] \notin network
    BY <1>2, <1>9, <2>2, EndStep DEF CheckInBlockchain
  <2> QED
    BY <2>1, <2>2
<1> QED
  BY <1>7, <1>8, <1>9

\* removePendingTx leaves old documents.
LEMMA RemoveStep ==
    ASSUME IInv, NEW r \in Request, RemoveTx(r)
    PROVE  IInv'
<1> DEFINE i == req[r].id
<1>1. req[r].at \in Stage
  BY DEF RemoveTx, Stage
<1>2. i \in TxpId /\ TypeOK
  BY <1>1, CopyGood DEF IInv
<1>3. \A j \in TxpId : /\ txps'[j] \in Seq(Txp)
                       /\ Elements(txps'[j]) \subseteq Elements(txps[j])
  BY <1>2, OtherDocs DEF RemoveTx, TypeOK
<1>4. TypeOK'
  <2>1. lock' \in Request \cup {NoRequest} /\ leaseOver' \in BOOLEAN
    BY <1>2, LockType DEF RemoveTx
  <2>2. req' \in [Request -> Req \cup {Idle}]
    BY <1>2, EndType DEF RemoveTx
  <2>3. txps' \in [TxpId -> Seq(Txp)] /\ clobbered' \subseteq TxpId
    BY <1>2, <1>3 DEF RemoveTx, TypeOK
  <2> QED
    BY <1>2, <2>1, <2>2, <2>3 DEF RemoveTx, TypeOK
<1>5. GoodDocs'
  BY <1>3, DocsStep DEF RemoveTx, IInv, Docs, Elements
<1>6. GoodCopies'
  BY EndCopy DEF RemoveTx, IInv
<1> QED
  BY <1>4, <1>5, <1>6 DEF IInv

\* The monitor finds documents with the txid it asks for.
LEMMA FoundByHash ==
    ASSUME IInv, NEW i \in TxpId, NEW signers, NEW k \in ByHash(i, signers)
    PROVE  /\ txps[i][k] \in Docs(i)
           /\ txps[i][k] \in Txp
           /\ Consistent(txps[i][k])
           /\ txps[i][k].txid = signers
<1>1. txps[i][k] \in Docs(i) /\ txps[i][k].txid = signers
  BY DEF ByHash, Docs
<1> QED
  BY <1>1, ReadGood DEF Good

\* _handleThirdPartyBroadcasts
LEMMA MonitorNoticeStep ==
    ASSUME IInv, NEW r \in Request, NEW tx \in network, MonitorNotice(r, tx)
    PROVE  IInv'
<1>1. tx \in Tx /\ created \subseteq TxpId
  BY DEF IInv, TypeOK
<1>2. tx.id \in TxpId /\ Creator[tx.id] \in Copayer /\ tx = [id |-> tx.id, signers |-> tx.signers]
  BY <1>1, ProposalAssumption DEF Tx
<1>3. PICK k \in ByHash(tx.id, tx.signers) :
         /\ txps[tx.id][k].status = "accepted"
         /\ Start(r, "wait", tx.id, Creator[tx.id], txps[tx.id][k])
  BY DEF MonitorNotice
<1> DEFINE t == txps[tx.id][k]
<1>4. t \in Txp /\ Consistent(t) /\ t.txid = tx.signers
  BY <1>2, FoundByHash
<1>5. GoodCopy([at |-> "wait", id |-> tx.id, who |-> Creator[tx.id], txp |-> t], network)
  BY <1>2, <1>3, <1>4 DEF GoodCopy
<1>6. "wait" \in Stage
  BY DEF Stage
<1> QED
  BY <1>1, <1>2, <1>3, <1>4, <1>5, <1>6, StartStep DEF MonitorNotice

\* A copy read again, for another step of the same request.
LEMMA NewStage ==
    ASSUME NEW q \in Req, NEW stage \in Stage, NEW u \in Txp
    PROVE  [[q EXCEPT !.at = stage] EXCEPT !.txp = u]
              = [at |-> stage, id |-> q.id, who |-> q.who, txp |-> u]
<1> DEFINE p == [q EXCEPT !.at = stage]
<1>1. /\ p \in Req
      /\ p.at = stage /\ p.id = q.id /\ p.who = q.who
  BY DEF Req
<1> HIDE DEF p
<1>2. [p EXCEPT !.txp = u] = [at |-> p.at, id |-> p.id, who |-> p.who, txp |-> u]
  BY <1>1 DEF Req
<1> QED
  BY <1>1, <1>2 DEF p

\* The monitor stores, once more, a proposal whose transaction is on the network.
LEMMA MonitorStep ==
    ASSUME IInv, NEW r \in Request, MonitorRefetch(r) \/ MonitorStore(r)
    PROVE  IInv'
<1> DEFINE t == req[r].txp
           i == req[r].id
<1>1. req[r].at \in {"wait", "third"} /\ req[r].at \in Stage
  BY DEF MonitorRefetch, MonitorStore, Stage
<1>2. /\ req[r] # Idle /\ req[r] \in Req /\ i \in TxpId /\ t \in Txp
      /\ GoodCopy(req[r], network) /\ TypeOK
  BY <1>1, CopyGood, BusyType DEF IInv
<1>3. Consistent(t) /\ t.status = "accepted" /\ [id |-> i, signers |-> t.txid] \in network
  BY <1>1, <1>2 DEF GoodCopy
<1>4. CASE MonitorRefetch(r)
  <2> DEFINE found == {txps[i][k] : k \in ByHash(i, t.txid)}
  <2>1. CASE End(r)
    BY <1>4, <2>1, EndStep DEF MonitorRefetch
  <2>2. ASSUME NEW u \in found, u.status = "accepted",
               req' = [req EXCEPT ![r].at = "third", ![r].txp = u]
        PROVE  IInv'
    <3>1. u \in Txp /\ Consistent(u) /\ u.txid = t.txid
      BY <1>2, FoundByHash
    <3> DEFINE s == [at |-> "third", id |-> i, who |-> req[r].who, txp |-> u]
    <3>2. req' = [req EXCEPT ![r] = s]
      <4>1. [[req[r] EXCEPT !.at = "third"] EXCEPT !.txp = u] = s
        BY <1>2, <3>1, NewStage DEF Stage
      <4>2. req' = [req EXCEPT ![r] = [[req[r] EXCEPT !.at = "third"] EXCEPT !.txp = u]]
        BY <1>2, <2>2 DEF TypeOK
      <4> QED
        BY <4>1, <4>2
    <3>3. s \in Req
      BY <1>2, <3>1 DEF Req, Stage
    <3>4. GoodCopy(s, network)
      BY <1>3, <2>2, <3>1 DEF GoodCopy
    <3> HIDE DEF s
    <3>5. TypeOK'
      BY <1>2, <1>4, <3>2, <3>3 DEF MonitorRefetch, TypeOK, KeepLock
    <3>6. GoodDocs'
      BY <1>4, DocsStep DEF MonitorRefetch, IInv, Docs
    <3>7. GoodCopies'
      BY <1>2, <1>4, <3>2, <3>4, NewCopy DEF MonitorRefetch, IInv
    <3> QED
      BY <3>5, <3>6, <3>7 DEF IInv
  <2> QED
    BY <1>4, <2>1, <2>2 DEF MonitorRefetch
<1>5. CASE MonitorStore(r)
  <2> DEFINE u == SetBroadcasted(t)
  <2>1. u \in Txp
    <3>1. t \in Txp /\ req[r].who \in Copayer
      BY <1>1, <1>2, CopyGood
    <3> HIDE DEF t
    <3> QED
      BY <3>1, TxpType
  <2>2. Good(i, u, network)
    BY <1>2, <1>3, ConsistentBroadcasted DEF Good
  <2>3. \A j \in TxpId : /\ txps'[j] \in Seq(Txp)
                         /\ \A d \in Elements(txps'[j]) :
                               d \in Elements(txps[j]) \/ (j = i /\ d = u)
    <3> HIDE DEF u
    <3>1. txps' = [txps EXCEPT ![i] = Append(@, u)]
      BY <1>5 DEF MonitorStore, u
    <3>2. txps[i] \in Seq(Txp)
      BY <1>2 DEF TypeOK
    <3>3. /\ Append(txps[i], u) \in Seq(Txp)
          /\ Elements(Append(txps[i], u)) \subseteq Elements(txps[i]) \cup {u}
      BY <2>1, <3>2, OtherDocs
    <3>4. ASSUME NEW j \in TxpId
          PROVE  txps'[j] = IF j = i THEN Append(txps[i], u) ELSE txps[j]
      BY <1>2, <3>1 DEF TypeOK
    <3> QED
      BY <1>2, <3>3, <3>4 DEF TypeOK
  <2>4. TypeOK'
    <3>1. txps' \in [TxpId -> Seq(Txp)] /\ clobbered' \subseteq TxpId
      BY <1>2, <1>5, <2>3 DEF MonitorStore, TypeOK
    <3>2. req' \in [Request -> Req \cup {Idle}]
      BY <1>2, <1>5, EndType DEF MonitorStore
    <3> QED
      BY <1>2, <1>5, <3>1, <3>2 DEF MonitorStore, TypeOK, KeepLock
  <2>5. GoodDocs'
    <3> HIDE DEF u
    <3>1. \A j \in TxpId : \A d \in Docs(j)' : d \in Docs(j) \/ Good(j, d, network')
      BY <1>5, <2>2, <2>3 DEF MonitorStore, Docs, Elements
    <3> QED
      BY <1>5, <3>1, DocsStep DEF MonitorStore, IInv
  <2>6. GoodCopies'
    BY <1>5, EndCopy DEF MonitorStore, IInv
  <2> QED
    BY <2>4, <2>5, <2>6 DEF IInv
<1> QED
  BY <1>4, <1>5

\* Errors, crashes, time, and copayers that broadcast by themselves.
LEMMA EnvironmentStep ==
    ASSUME IInv,
           \/ \E r \in Request : Abort(r) \/ Crash(r)
           \/ \E i \in TxpId : Age(i)
           \/ \E tx \in signed : BroadcastByThirdParty(tx)
           \/ LockExpires
    PROVE  IInv'
<1>1. TypeOK
  BY DEF IInv
<1>2. ASSUME NEW r \in Request, Abort(r) \/ Crash(r) PROVE IInv'
  BY <1>2, EndStep DEF Abort, Crash
<1>3. ASSUME NEW i \in TxpId, Age(i) PROVE IInv'
  <2>1. TypeOK'
    BY <1>1, <1>3 DEF Age, TypeOK, KeepLock
  <2>2. GoodDocs' /\ GoodCopies'
    BY <1>3 DEF Age, IInv, GoodDocs, GoodCopies, Docs
  <2> QED
    BY <2>1, <2>2 DEF IInv
<1>4. ASSUME NEW tx \in signed, BroadcastByThirdParty(tx) PROVE IInv'
  <2>1. TypeOK'
    BY <1>1, <1>4 DEF BroadcastByThirdParty, TypeOK, KeepLock
  <2>2. GoodDocs'
    BY <1>4, DocsStep DEF BroadcastByThirdParty, IInv, Docs
  <2>3. GoodCopies'
    BY <1>4, NetworkGrows DEF BroadcastByThirdParty, IInv, GoodCopies
  <2> QED
    BY <2>1, <2>2, <2>3 DEF IInv
<1>5. ASSUME LockExpires PROVE IInv'
  <2>1. TypeOK'
    BY <1>1, <1>5 DEF LockExpires, TypeOK, Lock!LeaseEnds, Lock!Lost
  <2>2. GoodDocs' /\ GoodCopies'
    BY <1>5 DEF LockExpires, IInv, GoodDocs, GoodCopies, Docs
  <2> QED
    BY <2>1, <2>2 DEF IInv
<1> QED
  BY <1>2, <1>3, <1>4, <1>5

-----------------------------------------------------------------------------
\* What a step does to a proposal that no stale copy overwrites

Unclobbered == TxpId \ clobbered

\* A proposal that keeps its inputs from others.
Holding(t) == IsPending(t) \/ t.status = "broadcasted"

\* A proposal does not move back by staying as it is.
LEMMA ForwardSame ==
    ASSUME NEW t \in Txp
    PROVE  MovesForward(t, t)
<1>1. Rank[t.status] \in Int
  BY DEF Rank, Txp, Status
<1> QED
  BY <1>1 DEF MovesForward

\* Moving forward twice is moving forward.
LEMMA ForwardTwice ==
    ASSUME NEW t \in Txp, NEW u \in Txp, NEW v \in Txp,
           MovesForward(t, u), MovesForward(u, v)
    PROVE  MovesForward(t, v)
<1>1. Rank[t.status] \in Int /\ Rank[u.status] \in Int /\ Rank[v.status] \in Int
  BY DEF Rank, Txp, Status
<1>2. Rank[t.status] <= Rank[v.status]
  BY <1>1 DEF MovesForward
<1>3. /\ t.status = "rejected" => v = t
      /\ t.status = "broadcasted" => v = t
  BY DEF MovesForward
<1>4. \A c \in Copayer : t.votes[c] # "none" => v.votes[c] = t.votes[c]
  BY DEF MovesForward
<1>5. t.txid # {} => v.txid = t.txid
  BY DEF MovesForward
<1> QED
  BY <1>2, <1>3, <1>4, <1>5 DEF MovesForward

\* A publication, a broadcast and a vote that its checks allow move forward.
LEMMA ForwardEdits ==
    ASSUME NEW t \in Txp, Consistent(t), NEW c \in Copayer
    PROVE  /\ t.status = "temporary" => MovesForward(t, [t EXCEPT !.status = "pending"])
           /\ t.status = "accepted" => MovesForward(t, SetBroadcasted(t))
           /\ CanSign(t, c) => MovesForward(t, Sign(t, c))
           /\ CanReject(t, c) => MovesForward(t, Reject(t, c))
<1>1. ASSUME t.status = "temporary"
      PROVE  MovesForward(t, [t EXCEPT !.status = "pending"])
  BY <1>1 DEF MovesForward, Rank, Txp
<1>2. ASSUME t.status = "accepted"
      PROVE  MovesForward(t, SetBroadcasted(t))
  BY <1>2 DEF MovesForward, Rank, Txp, SetBroadcasted
<1>3. ASSUME NEW type \in {"accept", "reject"}, t.status = "pending",
             t.votes[c] = "none", t.txid = {},
             NEW w, w = AddAction(t, c, type)
      PROVE  /\ w.status \in {"pending", "accepted", "rejected"} /\ w \in Txp
             /\ \A k \in Copayer : t.votes[k] # "none" => w.votes[k] = t.votes[k]
  <2> DEFINE u == [t EXCEPT !.votes = [@ EXCEPT ![c] = type]]
  <2>1. /\ u \in Txp /\ u.status = "pending"
        /\ \A k \in Copayer : t.votes[k] # "none" => u.votes[k] = t.votes[k]
    BY <1>3 DEF Txp
  <2>2. w = [u EXCEPT !.status = UpdatedStatus(u)]
    BY <1>3 DEF AddAction
  <2> HIDE DEF u
  <2>3. UpdatedStatus(u) \in {"pending", "accepted", "rejected"}
    BY <2>1 DEF UpdatedStatus
  <2> QED
    BY <2>1, <2>2, <2>3 DEF Txp, Status
<1>4. ASSUME CanReject(t, c) PROVE MovesForward(t, Reject(t, c))
  <2>1. t.status = "pending" /\ t.votes[c] = "none" /\ t.txid = {}
    BY <1>4 DEF CanReject, Consistent
  <2> DEFINE w == Reject(t, c)
  <2>2. /\ w.status \in {"pending", "accepted", "rejected"}
        /\ \A k \in Copayer : t.votes[k] # "none" => w.votes[k] = t.votes[k]
    BY <1>3, <2>1 DEF Reject
  <2> HIDE DEF w
  <2> QED
    BY <2>1, <2>2 DEF MovesForward, Rank, w
<1>5. ASSUME CanSign(t, c) PROVE MovesForward(t, Sign(t, c))
  <2>1. t.status = "pending" /\ t.votes[c] = "none" /\ t.txid = {}
    BY <1>5, Thresholds DEF CanSign, IsPending, Consistent, Txp, Status
  <2> DEFINE v == AddAction(t, c, "accept")
             w == Sign(t, c)
  <2>2. /\ v.status \in {"pending", "accepted", "rejected"} /\ v \in Txp
        /\ \A k \in Copayer : t.votes[k] # "none" => v.votes[k] = t.votes[k]
    BY <1>3, <2>1
  <2>3. w = IF v.status = "accepted" THEN [v EXCEPT !.txid = Approvers(v)] ELSE v
    BY DEF Sign
  <2> HIDE DEF v, w
  <2>4. w.status = v.status /\ w.votes = v.votes
    BY <2>2, <2>3 DEF Txp
  <2> QED
    BY <2>1, <2>2, <2>4 DEF MovesForward, Rank, w
<1> QED
  BY <1>1, <1>2, <1>4, <1>5

\* An accepted proposal stays one with the same transaction, or is broadcasted.
LEMMA ForwardFromAccepted ==
    ASSUME NEW t \in Txp, NEW u \in Txp, Consistent(t), Consistent(u),
           MovesForward(t, u), t.status \in {"accepted", "broadcasted"}
    PROVE  u.status \in {"accepted", "broadcasted"} /\ u.txid = t.txid
<1>1. t.txid # {}
  <2>1. Cardinality(t.txid) = M
    BY DEF Consistent
  <2> QED
    BY <2>1, Thresholds, FS_EmptySet
<1>2. u.txid = t.txid
  BY <1>1 DEF MovesForward
<1> QED
  BY <1>1, <1>2 DEF Consistent

-----------------------------------------------------------------------------
\* What the proposals, the copies and the lock are to each other

\* Only a stale copy or the monitor makes a second document of an id.
OneDoc == \A i \in Unclobbered : Len(txps[i]) <= 1

\* A copy in flight is a state that its proposal has been in.
Followed ==
    \A i \in Unclobbered, r \in Request :
        Exists(i) /\ req[r] # Idle /\ req[r].id = i => MovesForward(req[r].txp, Fetch(i))

\* The proposal has this transaction.
Recorded(tx) == /\ Fetch(tx.id).status \in {"accepted", "broadcasted"}
                /\ Fetch(tx.id).txid = tx.signers

TxRecorded ==
    \A tx \in network \cup signed :
        tx.id \in Unclobbered /\ Exists(tx.id) => Recorded(tx)

\* No document and no transaction has this id.
Untouched(i) == ~Exists(i) /\ \A tx \in network \cup signed : tx.id # i

\* Until createTx stores it, a proposal is only in the hands of createTx.
Fresh ==
    /\ \A i \in TxpId \ created :
          Untouched(i) /\ \A r \in Request : req[r] # Idle => req[r].id # i
    /\ \A r \in Request : req[r].at = "create" =>
          /\ Untouched(req[r].id)
          /\ \A q \in Request \ {r} : req[q] # Idle => req[q].id # req[r].id

\* removePendingTx works on a pending proposal.
Removable == \A r \in Request : req[r].at = "remove" => IsPending(req[r].txp)

History == OneDoc /\ Followed /\ TxRecorded /\ Fresh /\ Removable

\* What an unclobbered proposal may become in a step.
Change(i) ==
    \/ txps'[i] = txps[i]
    \/ /\ txps'[i] = <<NewTxp>>
       /\ \E r \in Request : req[r].at = "create" /\ req[r].id = i /\ req'[r] = Idle
    \/ /\ Exists(i) /\ Len(txps[i]) = 1
       /\ \E u \in Txp :
             /\ txps'[i] = <<u>>
             /\ MovesForward(Fetch(i), u)
             /\ \/ Fetch(i).status # "temporary"
                \/ \E r \in Request : req[r].at = "publish" /\ req[r].id = i
    \/ Exists(i) /\ IsPending(Fetch(i)) /\ txps'[i] = <<>>

\* The only document of an id.
LEMMA OnlyDoc ==
    ASSUME NEW docs \in Seq(Txp), docs # <<>>, Len(docs) <= 1
    PROVE  /\ Len(docs) = 1
           /\ docs[1] \in Txp
           /\ Elements(docs) = {docs[1]}
           /\ Tail(docs) = <<>>
<1>1. Len(docs) \in Nat /\ Len(docs) # 0
  BY EmptySeq
<1>2. Len(docs) = 1 /\ DOMAIN docs = {1}
  <2>1. Len(docs) = 1
    BY <1>1
  <2>2. DOMAIN docs = 1 .. Len(docs)
    OBVIOUS
  <2> QED
    BY <2>1, <2>2
<1>3. Tail(docs) \in Seq(Txp) /\ Len(Tail(docs)) = 0
  <2>1. Tail(docs) \in Seq(Txp) /\ Len(Tail(docs)) = Len(docs) - 1
    BY HeadTailProperties
  <2> QED
    BY <1>2, <2>1
<1>4. Tail(docs) = <<>>
  BY <1>3, EmptySeq
<1>5. docs[1] \in Txp /\ Elements(docs) = {docs[1]}
  BY <1>2 DEF Elements
<1> QED
  BY <1>2, <1>4, <1>5

\* A handler that writes a proposal that is not stale moves it forward.
LEMMA WriteChange ==
    ASSUME IInv, OneDoc, NEW r \in Request, req[r].at \in Stage, NEW t \in Txp,
           Write(r, t), MovesForward(req[r].txp, t),
           req[r].txp.status = "temporary" => req[r].at = "publish",
           NEW i \in TxpId, i \notin clobbered'
    PROVE  Change(i)
<1>1. req[r].id \in TxpId /\ txps \in [TxpId -> Seq(Txp)]
  BY CopyGood DEF IInv, TypeOK
<1>2. CASE i # req[r].id
  BY <1>1, <1>2 DEF Write, Change
<1>3. CASE i = req[r].id
  <2>1. Exists(i) /\ Fetch(i) = req[r].txp /\ i \notin clobbered
    BY <1>3 DEF Write, Stale
  <2>2. Len(txps[i]) = 1 /\ txps[i] \in Seq(Txp) /\ Fetch(i) = txps[i][1]
    <3>1. txps[i] \in Seq(Txp) /\ txps[i] # <<>> /\ Len(txps[i]) <= 1
      BY <1>1, <2>1 DEF OneDoc, Unclobbered, Exists
    <3> QED
      BY <3>1, OnlyDoc DEF Fetch
  <2>3. txps'[i] = Store(txps[i], t)
    BY <1>1, <1>3 DEF Write
  <2>4. txps'[i] = <<t>>
    BY <2>2, <2>3 DEF Store
  <2> QED
    BY <1>3, <2>1, <2>2, <2>4 DEF Change
<1> QED
  BY <1>2, <1>3

\* Every step: only one that clobbers a proposal does anything else to it.
LEMMA Changes ==
    ASSUME IInv, OneDoc, Removable, Next, NEW i \in TxpId, i \notin clobbered'
    PROVE  Change(i) /\ i \notin clobbered
<1>t. TypeOK /\ txps \in [TxpId -> Seq(Txp)]
  BY DEF IInv, TypeOK
<1>1. ASSUME NEW r \in Request, CreateStore(r) PROVE Change(i) /\ i \notin clobbered
  <2>1. req[r].id \in TxpId
    BY <1>1, CopyGood DEF CreateStore, Stage
  <2>2. CASE i = req[r].id
    BY <1>1, <1>t, <2>1, <2>2 DEF CreateStore, Change, Store, Exists, End, TypeOK
  <2>3. CASE i # req[r].id
    BY <1>1, <1>t, <2>1, <2>3 DEF CreateStore, Change
  <2> QED
    BY <2>2, <2>3
<1>2. ASSUME NEW r \in Request,
             \/ PublishStore(r) \/ SignStore(r) \/ RejectStore(r) \/ ProcessBroadcast(r)
      PROVE  Change(i) /\ i \notin clobbered
  <2> DEFINE t == req[r].txp
             c == req[r].who
  <2>0. req[r].at \in Stage
    BY <1>2 DEF PublishStore, SignStore, RejectStore, ProcessBroadcast, Stage
  <2>1. t \in Txp /\ c \in Copayer /\ GoodCopy(req[r], network) /\ req[r] # Idle
    BY <2>0, CopyGood
  <2>2. Consistent(t)
    BY <2>1 DEF GoodCopy
  <2>3. ASSUME NEW u, Write(r, u) PROVE i \notin clobbered
    BY <2>3 DEF Write
  <2>4. CASE PublishStore(r)
    <3>1. t.status = "temporary" /\ [t EXCEPT !.status = "pending"] \in Txp
      BY <2>1, <2>4, TxpType DEF PublishStore, GoodCopy
    <3> QED
      BY <2>0, <2>1, <2>2, <2>3, <2>4, <3>1, ForwardEdits, WriteChange DEF PublishStore
  <2>5. CASE SignStore(r)
    <3>1. CanSign(t, c) /\ Sign(t, c) \in Txp
      BY <2>1, <2>5, TxpType DEF SignStore, GoodCopy
    <3>2. t.status # "temporary"
      BY <3>1 DEF CanSign, IsPending
    <3> QED
      BY <2>0, <2>1, <2>2, <2>3, <2>5, <3>1, <3>2, ForwardEdits, WriteChange DEF SignStore
  <2>6. CASE RejectStore(r)
    <3>1. CanReject(t, c) /\ Reject(t, c) \in Txp
      BY <2>1, <2>6, TxpType DEF RejectStore, GoodCopy
    <3>2. t.status # "temporary"
      BY <3>1 DEF CanReject
    <3> QED
      BY <2>0, <2>1, <2>2, <2>3, <2>6, <3>1, <3>2, ForwardEdits, WriteChange DEF RejectStore
  <2>7. CASE ProcessBroadcast(r)
    <3>1. t.status = "accepted" /\ SetBroadcasted(t) \in Txp
      BY <2>1, <2>7, TxpType DEF ProcessBroadcast, GoodCopy
    <3> QED
      BY <2>0, <2>1, <2>2, <2>3, <2>7, <3>1, ForwardEdits, WriteChange DEF ProcessBroadcast
  <2> QED
    BY <1>2, <2>4, <2>5, <2>6, <2>7
<1>3. ASSUME NEW r \in Request, PublishPendings(r) PROVE Change(i) /\ i \notin clobbered
  <2>1. i \notin clobbered /\ txps'[i] = Marked(i)
    BY <1>3 DEF PublishPendings
  <2>2. CASE Marked(i) = txps[i]
    BY <2>1, <2>2 DEF Change
  <2>3. CASE Marked(i) # txps[i]
    <3>1. OnNetwork(i, Fetch(i))
      BY <1>3, <2>3 DEF PublishPendings
    <3>2. Exists(i) /\ Len(txps[i]) = 1 /\ txps[i] \in Seq(Txp)
      <4>1. txps[i] # <<>>
        BY <2>3 DEF Marked, Docs
      <4>2. txps[i] \in Seq(Txp) /\ Len(txps[i]) <= 1
        BY <1>t, <2>1 DEF OneDoc, Unclobbered
      <4> QED
        BY <4>1, <4>2, OnlyDoc DEF Exists
    <3>3. Docs(i) = {Fetch(i)} /\ Fetch(i) \in Txp
      BY <3>2, OnlyDoc DEF Docs, Fetch, Exists, Elements
    <3>4. Marked(i) = Store(txps[i], SetBroadcasted(Fetch(i)))
      BY <2>3, <3>3 DEF Marked
    <3>5. Consistent(Fetch(i)) /\ Fetch(i).status = "accepted"
      BY <3>1, <3>3, ReadGood DEF Good, OnNetwork
    <3>6. SetBroadcasted(Fetch(i)) \in Txp /\ MovesForward(Fetch(i), SetBroadcasted(Fetch(i)))
      <4>1. PICK c : c \in Copayer
        BY ProposalAssumption
      <4> QED
        BY <3>3, <3>5, <4>1, TxpType, ForwardEdits
    <3>7. Marked(i) = <<SetBroadcasted(Fetch(i))>>
      BY <3>2, <3>4, <3>6 DEF Store
    <3> QED
      BY <2>1, <3>2, <3>5, <3>6, <3>7 DEF Change
  <2> QED
    BY <2>1, <2>2, <2>3
<1>4. ASSUME NEW r \in Request, RemoveTx(r) PROVE Change(i) /\ i \notin clobbered
  <2>1. req[r].id \in TxpId /\ i \notin clobbered
    BY <1>4, CopyGood DEF RemoveTx, Stage
  <2>2. CASE i # req[r].id
    BY <1>4, <1>t, <2>1, <2>2 DEF RemoveTx, Change
  <2>3. CASE i = req[r].id /\ ~Exists(i)
    BY <1>4, <1>t, <2>1, <2>3 DEF RemoveTx, Change, Exists
  <2>4. CASE i = req[r].id /\ Exists(i)
    <3>1. Fetch(i) = req[r].txp /\ ~(Len(txps[i]) > 1)
      BY <1>4, <2>4 DEF RemoveTx, Stale
    <3>2. IsPending(Fetch(i))
      BY <1>4, <3>1 DEF RemoveTx, Removable
    <3>4. txps'[i] = Tail(txps[i])
      BY <1>4, <1>t, <2>4 DEF RemoveTx, Exists
    <3>5. Tail(txps[i]) = <<>>
      BY <1>t, <2>4, <3>1, OnlyDoc DEF Exists
    <3> QED
      BY <2>1, <2>4, <3>2, <3>4, <3>5 DEF Change
  <2> QED
    BY <2>2, <2>3, <2>4
<1>5. ASSUME NEW r \in Request, MonitorStore(r) PROVE Change(i) /\ i \notin clobbered
  <2>1. req[r].id \in TxpId /\ i # req[r].id /\ i \notin clobbered
    BY <1>5, CopyGood DEF MonitorStore, Stage
  <2> QED
    BY <1>5, <1>t, <2>1 DEF MonitorStore, Change
<1>6. ASSUME UNCHANGED <<txps, clobbered>> PROVE Change(i) /\ i \notin clobbered
  BY <1>6 DEF Change
<1>7. ASSUME NEW r \in Request, NEW j \in TxpId, Handler(r, j)
      PROVE  UNCHANGED <<txps, clobbered>>
  BY <1>7 DEF Handler, CreateTx, PublishTx, BroadcastTx, GetPendingTxs, SignTx, RejectTx,
              RemovePendingTx
<1>8. ASSUME NEW r \in Request, Continue(r) PROVE Change(i) /\ i \notin clobbered
  <2>1. CASE \/ PublishSpents(r) \/ BroadcastSend(r) \/ BroadcastError(r)
             \/ CheckInBlockchain(r) \/ MonitorRefetch(r) \/ Abort(r) \/ Crash(r)
    BY <1>6, <2>1 DEF PublishSpents, BroadcastSend, BroadcastError, CheckInBlockchain,
                      MonitorRefetch, Abort, Crash
  <2> QED
    BY <1>1, <1>2, <1>3, <1>4, <1>5, <1>8, <2>1 DEF Continue
<1>9. CASE \/ \E r \in Monitor, tx \in network : MonitorNotice(r, tx)
           \/ \E j \in TxpId : Age(j)
           \/ \E tx \in signed : BroadcastByThirdParty(tx)
           \/ LockExpires
  BY <1>6, <1>9 DEF MonitorNotice, Age, BroadcastByThirdParty, LockExpires
<1> QED
  BY <1>6, <1>7, <1>8, <1>9 DEF Next

\* What may become of a request in a step.
Keeps(r) ==
    /\ req[r] # Idle /\ req'[r] \in Req
    /\ req'[r].id = req[r].id /\ req'[r].txp = req[r].txp
    /\ \/ PublishPendings(r) /\ req'[r].at = "spents"
       \/ PublishSpents(r) /\ req'[r].at = "publish"
       \/ req'[r].at \in {"check", "mark"}

Reads(r) ==
    /\ req'[r] \in Req /\ UNCHANGED txps
    /\ req'[r].txp \in Docs(req'[r].id)
    /\ req'[r].at \notin {"create", "spents", "publish"}
    /\ req'[r].at = "remove" => IsPending(req'[r].txp)

Creates(r) ==
    /\ req'[r] \in Req
    /\ req'[r].at = "create"
    /\ req'[r].id \notin created /\ req'[r].id \in created'
    /\ UNCHANGED txps
    /\ \A q \in Request \ {r} : req'[q] = req[q]

ReqChange(r) ==
    req'[r] = req[r] \/ req'[r] = Idle \/ Keeps(r) \/ Reads(r) \/ Creates(r)

\* A request that starts works on a document.
LEMMA StartReads ==
    ASSUME IInv, NEW r \in Request, NEW stage \in Stage, NEW i \in TxpId,
           NEW c \in Copayer, NEW t \in Docs(i), Start(r, stage, i, c, t), UNCHANGED txps,
           stage \notin {"create", "spents", "publish"},
           stage = "remove" => IsPending(t)
    PROVE  \A q \in Request : ReqChange(q)
<1>1. t \in Txp /\ TypeOK
  BY ReadGood DEF IInv
<1>2. req'[r] = [at |-> stage, id |-> i, who |-> c, txp |-> t]
  BY <1>1 DEF Start, TypeOK
<1>3. req'[r] \in Req
  BY <1>1, <1>2 DEF Req
<1>4. \A q \in Request \ {r} : req'[q] = req[q]
  BY <1>1 DEF Start, TypeOK
<1>5. Reads(r)
  BY <1>2, <1>3 DEF Reads
<1> QED
  BY <1>4, <1>5 DEF ReqChange

\* A request that goes on keeps its copy.
LEMMA GoKeeps ==
    ASSUME TypeOK, NEW r \in Request, req[r] # Idle, NEW stage \in Stage, Go(r, stage),
           \/ PublishPendings(r) /\ stage = "spents"
           \/ PublishSpents(r) /\ stage = "publish"
           \/ stage \in {"check", "mark"}
    PROVE  \A q \in Request : ReqChange(q)
<1>1. req[r] \in Req
  BY BusyType
<1>2. req'[r] = [req[r] EXCEPT !.at = stage] /\ \A q \in Request \ {r} : req'[q] = req[q]
  BY DEF Go, TypeOK
<1>3. [req[r] EXCEPT !.at = stage] \in Req
  BY <1>1 DEF Req
<1>4. Keeps(r)
  BY <1>1, <1>2, <1>3, GoFields DEF Keeps
<1> QED
  BY <1>2, <1>4 DEF ReqChange

\* A request may always end.
LEMMA EndChanges ==
    ASSUME TypeOK, NEW r \in Request, End(r)
    PROVE  \A q \in Request : ReqChange(q)
BY DEF End, ReqChange, TypeOK

\* Every step.
LEMMA ReqChanges ==
    ASSUME IInv, Next
    PROVE  \A r \in Request : ReqChange(r)
<1>t. TypeOK /\ \A i \in TxpId : Creator[i] \in Copayer
  BY ProposalAssumption DEF IInv
<1>1. ASSUME NEW r \in Request, NEW i \in TxpId, Handler(r, i)
      PROVE  \A q \in Request : ReqChange(q)
  <2> USE DEF Stage
  <2>1. CASE CreateTx(r, i)
    <3>1. req' = [req EXCEPT ![r] =
                     [at |-> "create", id |-> i, who |-> Creator[i], txp |-> NewTxp]]
      BY <2>1 DEF CreateTx, Start
    <3>2. req'[r] = [at |-> "create", id |-> i, who |-> Creator[i], txp |-> NewTxp]
      BY <1>t, <3>1 DEF TypeOK
    <3>3. req'[r] \in Req
      BY <1>t, <3>2, NewTxpType DEF Req
    <3>4. \A q \in Request \ {r} : req'[q] = req[q]
      BY <1>t, <3>1 DEF TypeOK
    <3>5. i \notin created /\ i \in created' /\ UNCHANGED txps
      BY <2>1 DEF CreateTx
    <3>6. Creates(r)
      BY <3>2, <3>3, <3>4, <3>5 DEF Creates
    <3> QED
      BY <3>4, <3>6 DEF ReqChange
  <2>2. CASE PublishTx(r, i)
    BY <1>t, <2>2, ReadGood, StartReads DEF PublishTx
  <2>3. CASE BroadcastTx(r, i)
    BY <1>t, <2>3, ReadGood, StartReads DEF BroadcastTx
  <2>4. CASE GetPendingTxs(r, i)
    BY <1>t, <2>4, ReadGood, StartReads DEF GetPendingTxs
  <2>5. ASSUME NEW c \in Copayer, SignTx(r, c, i) PROVE \A q \in Request : ReqChange(q)
    BY <1>t, <2>5, ReadGood, StartReads DEF SignTx
  <2>6. ASSUME NEW c \in Copayer, RejectTx(r, c, i) PROVE \A q \in Request : ReqChange(q)
    BY <1>t, <2>6, ReadGood, StartReads DEF RejectTx
  <2>7. ASSUME NEW c \in Copayer, RemovePendingTx(r, c, i)
        PROVE  \A q \in Request : ReqChange(q)
    BY <1>t, <2>7, ReadGood, StartReads DEF RemovePendingTx
  <2> QED
    BY <1>1, <2>1, <2>2, <2>3, <2>4, <2>5, <2>6, <2>7 DEF Handler
<1>2. ASSUME NEW r \in Request, MonitorRefetch(r) PROVE \A q \in Request : ReqChange(q)
  <2>1. req[r] \in Req /\ req[r].id \in TxpId
    BY <1>t, <1>2, BusyType DEF MonitorRefetch, Stage
  <2>2. CASE End(r)
    BY <1>t, <2>2, EndChanges
  <2>3. CASE ~End(r)
    <3>1. PICK k \in ByHash(req[r].id, req[r].txp.txid) :
             req' = [req EXCEPT ![r].at = "third", ![r].txp = txps[req[r].id][k]]
      BY <1>2, <2>3 DEF MonitorRefetch
    <3> DEFINE u == txps[req[r].id][k]
    <3>2. u \in Docs(req[r].id) /\ u \in Txp
      BY <2>1, FoundByHash
    <3>3. req'[r] = [at |-> "third", id |-> req[r].id, who |-> req[r].who, txp |-> u]
      <4>1. req'[r] = [[req[r] EXCEPT !.at = "third"] EXCEPT !.txp = u]
        BY <1>t, <2>1, <3>1 DEF TypeOK
      <4>2. "third" \in Stage
        BY DEF Stage
      <4> HIDE DEF u
      <4> QED
        BY <2>1, <3>2, <4>1, <4>2, NewStage
    <3>4. req'[r] \in Req
      BY <2>1, <3>2, <3>3 DEF Req, Stage
    <3>5. \A q \in Request \ {r} : req'[q] = req[q]
      BY <1>t, <3>1 DEF TypeOK
    <3>6. Reads(r)
      BY <1>2, <3>2, <3>3, <3>4 DEF Reads, MonitorRefetch
    <3> QED
      BY <3>5, <3>6 DEF ReqChange
  <2> QED
    BY <2>2, <2>3
<1>3. ASSUME NEW r \in Request, Continue(r) PROVE \A q \in Request : ReqChange(q)
  <2>1. CASE \/ CreateStore(r) \/ PublishStore(r) \/ SignStore(r) \/ RejectStore(r)
             \/ ProcessBroadcast(r) \/ RemoveTx(r) \/ MonitorStore(r) \/ Abort(r) \/ Crash(r)
    BY <1>t, <2>1, EndChanges
       DEF CreateStore, PublishStore, SignStore, RejectStore, ProcessBroadcast, RemoveTx,
           MonitorStore, Abort, Crash
  <2>2. CASE PublishPendings(r) \/ PublishSpents(r)
    <3>1. req[r] # Idle
      BY <1>t, <2>2, BusyType DEF PublishPendings, PublishSpents, Stage
    <3> QED
      BY <1>t, <2>2, <3>1, GoKeeps DEF PublishPendings, PublishSpents, Stage
  <2>3. CASE BroadcastSend(r) \/ BroadcastError(r) \/ CheckInBlockchain(r)
    <3>1. req[r] # Idle
      BY <1>t, <2>3, BusyType DEF BroadcastSend, BroadcastError, CheckInBlockchain, Stage
    <3>2. End(r) \/ Go(r, "check") \/ Go(r, "mark")
      BY <2>3 DEF BroadcastSend, BroadcastError, CheckInBlockchain
    <3> QED
      BY <1>t, <3>1, <3>2, GoKeeps, EndChanges DEF Stage
  <2> QED
    BY <1>2, <1>3, <2>1, <2>2, <2>3 DEF Continue
<1>4. ASSUME NEW r \in Monitor, NEW tx \in network, MonitorNotice(r, tx)
      PROVE  \A q \in Request : ReqChange(q)
  <2>1. tx.id \in TxpId /\ r \in Request
    BY <1>t, RequestAssumption DEF TypeOK, Tx
  <2>2. PICK k \in ByHash(tx.id, tx.signers) :
           Start(r, "wait", tx.id, Creator[tx.id], txps[tx.id][k])
    BY <1>4 DEF MonitorNotice
  <2>3. txps[tx.id][k] \in Docs(tx.id)
    BY <2>1, FoundByHash
  <2> QED
    BY <1>t, <1>4, <2>1, <2>2, <2>3, StartReads DEF MonitorNotice, Stage
<1>5. CASE (\E i \in TxpId : Age(i)) \/ (\E tx \in signed : BroadcastByThirdParty(tx))
           \/ LockExpires
  BY <1>5 DEF Age, BroadcastByThirdParty, LockExpires, ReqChange
<1> QED
  BY <1>1, <1>3, <1>4, <1>5 DEF Next

-----------------------------------------------------------------------------
\* The history of a proposal

\* The first document of an id has no request and no transaction of its own.
LEMMA NewProposal ==
    ASSUME IInv, Fresh, NEW r \in Request, req[r].at = "create", req'[r] = Idle,
           \A q \in Request : ReqChange(q), txps'[req[r].id] = <<NewTxp>>
    PROVE  /\ ~Exists(req[r].id)
           /\ \A q \in Request : req'[q] # Idle => req'[q].id # req[r].id
<1> DEFINE i == req[r].id
<1>1. ~Exists(i) /\ \A q \in Request \ {r} : req[q] # Idle => req[q].id # i
  BY DEF Fresh, Untouched
<1>2. i \in created /\ i \in TxpId
  <2>1. req[r] # Idle /\ i \in TxpId
    BY BusyType DEF IInv, Stage
  <2> QED
    BY <2>1 DEF Fresh
<1>3. txps[i] # txps'[i]
  <2>1. Len(<<NewTxp>>) = 1 /\ Len(<<>>) = 0
    OBVIOUS
  <2> HIDE DEF i
  <2>2. txps[i] = <<>> /\ txps'[i] = <<NewTxp>>
    BY <1>1 DEF Exists, i
  <2>3. <<NewTxp>> # <<>>
    BY <2>1
  <2> QED
    BY <2>2, <2>3
<1> SUFFICES ASSUME NEW q \in Request, req'[q] # Idle, req'[q].id = i, q # r
             PROVE  FALSE
  BY <1>1
<1>4. CASE req'[q] = req[q] \/ Keeps(q)
  BY <1>1, <1>4 DEF Keeps
<1>5. CASE Reads(q)
  BY <1>3, <1>5 DEF Reads
<1>6. CASE Creates(q)
  BY <1>3, <1>6 DEF Creates
<1> QED
  BY <1>4, <1>5, <1>6 DEF ReqChange

\* The transaction comes from the copy of r.
Makes(tx, r) ==
    /\ req[r].at \in {"send", "sign"}
    /\ \/ req[r].at = "send" /\ tx = TxOf(req[r].id, req[r].txp) /\ UNCHANGED txps
       \/ SignStore(r) /\ Sign(req[r].txp, req[r].who).status = "accepted"
          /\ tx = TxOf(req[r].id, Sign(req[r].txp, req[r].who))

\* A step makes the first document of an id only for a request that ends, a
\* transaction only of a request in flight, and uses up ids.
LEMMA Births ==
    ASSUME TypeOK, Next
    PROVE  /\ created \subseteq created'
           /\ \A tx \in network' \cup signed' :
                 tx \in network \cup signed \/ \E r \in Request : Makes(tx, r)
           /\ \A i \in TxpId : Exists(i)' => \/ Exists(i)
                                             \/ \E r \in Request : /\ req[r].at \in Stage
                                                                   /\ req[r].id = i
                                                                   /\ req'[r] = Idle
<1> DEFINE Written(i) == \E r \in Request : /\ req[r].at \in Stage
                                            /\ req[r].id = i
                                            /\ req'[r] = Idle
<1>1. created \subseteq created'
  BY DEF Next, Handler, Continue,
         CreateTx, PublishTx, BroadcastTx, GetPendingTxs, SignTx, RejectTx, RemovePendingTx,
         CreateStore, PublishPendings, PublishSpents, PublishStore, SignStore, RejectStore,
         RemoveTx, BroadcastSend, BroadcastError, CheckInBlockchain, ProcessBroadcast,
         MonitorRefetch, MonitorStore, Abort, Crash, MonitorNotice, Age,
         BroadcastByThirdParty, LockExpires
<1>2. \/ UNCHANGED <<network, signed>>
      \/ \E r \in Request : BroadcastSend(r) \/ SignStore(r)
      \/ \E tx \in signed : BroadcastByThirdParty(tx)
  <2>1. ASSUME NEW r \in Request, NEW i \in TxpId, Handler(r, i)
        PROVE  UNCHANGED <<network, signed>>
    BY <2>1 DEF Handler, CreateTx, PublishTx, BroadcastTx, GetPendingTxs, SignTx, RejectTx,
                RemovePendingTx
  <2>2. ASSUME NEW r \in Request, Continue(r)
        PROVE  UNCHANGED <<network, signed>> \/ BroadcastSend(r) \/ SignStore(r)
    <3>1. CASE \/ CreateStore(r) \/ PublishPendings(r) \/ PublishSpents(r) \/ PublishStore(r)
               \/ RejectStore(r) \/ RemoveTx(r)
      BY <3>1 DEF CreateStore, PublishPendings, PublishSpents, PublishStore, RejectStore, RemoveTx
    <3>2. CASE \/ BroadcastError(r) \/ CheckInBlockchain(r) \/ ProcessBroadcast(r)
               \/ MonitorRefetch(r) \/ MonitorStore(r) \/ Abort(r) \/ Crash(r)
      BY <3>2 DEF BroadcastError, CheckInBlockchain, ProcessBroadcast, MonitorRefetch,
                  MonitorStore, Abort, Crash
    <3> QED
      BY <2>2, <3>1, <3>2 DEF Continue
  <2>3. CASE \/ \E r \in Monitor, tx \in network : MonitorNotice(r, tx)
             \/ \E i \in TxpId : Age(i)
             \/ LockExpires
    BY <2>3 DEF MonitorNotice, Age, LockExpires
  <2> QED
    BY <2>1, <2>2, <2>3 DEF Next
<1>3. ASSUME NEW tx \in network' \cup signed', tx \notin network \cup signed
      PROVE  \E r \in Request : Makes(tx, r)
  <2>1. ASSUME NEW r \in Request, BroadcastSend(r) PROVE Makes(tx, r)
    BY <1>3, <2>1 DEF BroadcastSend, Makes
  <2>2. ASSUME NEW r \in Request, SignStore(r) PROVE Makes(tx, r)
    BY <1>3, <2>2 DEF SignStore, Makes
  <2>3. ASSUME NEW u \in signed, BroadcastByThirdParty(u) PROVE FALSE
    BY <1>3, <2>3 DEF BroadcastByThirdParty
  <2> QED
    BY <1>2, <1>3, <2>1, <2>2, <2>3
<1>4. ASSUME NEW i \in TxpId, ~Exists(i), Exists(i)' PROVE Written(i)
  <2>1. txps'[i] # txps[i] /\ txps[i] = <<>>
    BY <1>4 DEF Exists
  <2>2. \/ UNCHANGED txps
        \/ \E r \in Request : \/ CreateStore(r) \/ PublishPendings(r) \/ PublishStore(r)
                               \/ SignStore(r) \/ RejectStore(r) \/ RemoveTx(r)
                               \/ ProcessBroadcast(r) \/ MonitorStore(r)
    BY DEF Next, Handler, Continue,
         CreateTx, PublishTx, BroadcastTx, GetPendingTxs, SignTx, RejectTx, RemovePendingTx,
         PublishSpents, BroadcastSend, BroadcastError, CheckInBlockchain,
         MonitorRefetch, Abort, Crash, MonitorNotice, Age, BroadcastByThirdParty, LockExpires
  <2>3. ASSUME NEW r \in Request,
               \/ CreateStore(r) \/ PublishStore(r) \/ SignStore(r) \/ RejectStore(r)
               \/ RemoveTx(r) \/ ProcessBroadcast(r) \/ MonitorStore(r)
        PROVE  Written(i)
    <3>1. req[r].at \in Stage /\ End(r)
      BY <2>3 DEF CreateStore, PublishStore, SignStore, RejectStore, ProcessBroadcast,
                  RemoveTx, MonitorStore, Stage
    <3>2. req'[r] = Idle
      BY <3>1 DEF End, TypeOK
    <3>3. \E docs : txps' = [txps EXCEPT ![req[r].id] = docs]
      <4>1. CASE CreateStore(r)
        BY <4>1 DEF CreateStore
      <4>2. CASE PublishStore(r) \/ SignStore(r) \/ RejectStore(r) \/ ProcessBroadcast(r)
        BY <4>2 DEF PublishStore, SignStore, RejectStore, ProcessBroadcast, Write
      <4>3. CASE RemoveTx(r) \/ MonitorStore(r)
        BY <4>3 DEF RemoveTx, MonitorStore
      <4> QED
        BY <2>3, <4>1, <4>2, <4>3
    <3>4. req[r].id = i
      BY <2>1, <3>3 DEF TypeOK
    <3> QED
      BY <3>1, <3>2, <3>4
  <2>4. ASSUME NEW r \in Request, PublishPendings(r) PROVE FALSE
    BY <2>1, <2>4 DEF PublishPendings, Marked, Docs
  <2> QED
    BY <2>1, <2>2, <2>3, <2>4
<1> QED
  BY <1>1, <1>3, <1>4

\* A proposal that createTx has not stored stays in its hands.
LEMMA FreshStep ==
    ASSUME IInv, Fresh, Next
    PROVE  Fresh'
<1>t. TypeOK
  BY DEF IInv
<1>1. \A r \in Request : ReqChange(r)
  BY ReqChanges
<1>b. /\ created \subseteq created'
      /\ \A tx \in network' \cup signed' :
            tx \in network \cup signed \/ \E r \in Request : Makes(tx, r)
      /\ \A i \in TxpId : Exists(i)' => \/ Exists(i)
                                        \/ \E r \in Request : /\ req[r].at \in Stage
                                                              /\ req[r].id = i
                                                              /\ req'[r] = Idle
  BY <1>t, Births
<1>m. ASSUME NEW tx, NEW r \in Request, Makes(tx, r)
      PROVE  tx.id = req[r].id /\ req[r].at \in {"send", "sign"} /\ req[r].at \in Stage
  BY <1>m DEF Makes, TxOf, Stage
<1>2. ASSUME NEW i \in TxpId, Untouched(i),
             \A r \in Request : req[r].at \in Stage /\ req[r].id = i
                                => req[r].at = "create" /\ req'[r] # Idle
      PROVE  Untouched(i)'
  <2>1. ~Exists(i)'
    BY <1>2, <1>b DEF Untouched
  <2>2. \A tx \in network' \cup signed' : tx.id # i
    <3> SUFFICES ASSUME NEW tx \in network' \cup signed', tx.id = i PROVE FALSE
      OBVIOUS
    <3>1. tx \notin network \cup signed
      BY <1>2 DEF Untouched
    <3>2. PICK r \in Request : Makes(tx, r)
      BY <1>b, <3>1
    <3> QED
      BY <1>2, <1>m, <3>2
  <2> QED
    BY <2>1, <2>2 DEF Untouched
<1>3. ASSUME NEW i \in TxpId, Untouched(i), NEW q \in Request, req'[q] # Idle, req'[q].id = i
      PROVE  (req[q] # Idle /\ req[q].id = i) \/ Creates(q)
  <2>1. Docs(i) = {}
    BY <1>3 DEF Untouched, Exists, Docs
  <2>2. ReqChange(q)
    BY <1>1
  <2>3. CASE req'[q] = req[q]
    BY <1>3, <2>3
  <2>4. CASE Keeps(q)
    BY <1>3, <2>4 DEF Keeps
  <2>5. CASE Reads(q)
    BY <1>3, <2>1, <2>5 DEF Reads
  <2> QED
    BY <1>3, <2>2, <2>3, <2>4, <2>5 DEF ReqChange
<1>4. ASSUME NEW i \in TxpId \ created
      PROVE  /\ Untouched(i)'
             /\ \A q \in Request : req'[q] # Idle /\ req'[q].id = i => Creates(q)
  <2>1. Untouched(i) /\ \A q \in Request : req[q] # Idle => req[q].id # i
    BY DEF Fresh
  <2>2. \A q \in Request : req[q].at \in Stage => req[q].id # i
    BY <1>t, <2>1, BusyType
  <2> QED
    BY <1>2, <1>3, <2>1, <2>2
<1>5. ASSUME NEW r \in Request, req'[r].at = "create", NEW i, i = req'[r].id
      PROVE  /\ Untouched(i)'
             /\ \A q \in Request \ {r} : req'[q] # Idle => req'[q].id # i
  <2>1. CASE Creates(r)
    <3>1. i \in TxpId \ created /\ \A q \in Request \ {r} : req'[q] = req[q]
      BY <1>5, <2>1 DEF Creates, Req
    <3>2. \A q \in Request : req[q] # Idle => req[q].id # i
      BY <3>1 DEF Fresh
    <3> QED
      BY <1>4, <3>1, <3>2
  <2>2. CASE req'[r] = req[r]
    <3>1. req[r] # Idle /\ i \in TxpId /\ req[r].at = "create" /\ req[r].id = i
      BY <1>t, <1>5, <2>2, BusyType DEF Stage
    <3>2. /\ Untouched(i) /\ i \in created
          /\ \A q \in Request \ {r} : req[q] # Idle => req[q].id # i
      BY <3>1 DEF Fresh
    <3>3. \A q \in Request : req[q].at \in Stage /\ req[q].id = i => q = r
      BY <1>t, <3>2, BusyType
    <3>4. Untouched(i)'
      BY <1>2, <2>2, <3>1, <3>2, <3>3
    <3>5. ASSUME NEW q \in Request \ {r}, req'[q] # Idle PROVE req'[q].id # i
      <4>1. Creates(q) => req'[q].id # i
        BY <3>2 DEF Creates
      <4> QED
        BY <1>3, <3>1, <3>2, <3>5, <4>1
    <3> QED
      BY <3>4, <3>5
  <2>3. req'[r] = req[r] \/ Creates(r)
    <3>1. ReqChange(r)
      BY <1>1
    <3>2. req'[r] # Idle
      BY <1>5 DEF Idle
    <3>3. ~Keeps(r) /\ ~Reads(r)
      BY <1>5 DEF Keeps, Reads
    <3> QED
      BY <3>1, <3>2, <3>3 DEF ReqChange
  <2> QED
    BY <2>1, <2>2, <2>3
<1>6. ASSUME NEW i \in TxpId \ created'
      PROVE  Untouched(i)' /\ \A q \in Request : req'[q] # Idle => req'[q].id # i
  <2>1. i \in TxpId \ created
    BY <1>b
  <2> QED
    BY <1>4, <1>6, <2>1 DEF Creates
<1> QED
  BY <1>5, <1>6 DEF Fresh

\* An unclobbered proposal has one document.
LEMMA SingleDoc ==
    ASSUME IInv, OneDoc, NEW i \in Unclobbered, Exists(i)
    PROVE  /\ i \in TxpId
           /\ Docs(i) = {Fetch(i)}
           /\ Fetch(i) \in Txp
           /\ Consistent(Fetch(i))
           /\ Len(txps[i]) = 1
<1>1. i \in TxpId /\ txps[i] \in Seq(Txp) /\ txps[i] # <<>> /\ Len(txps[i]) <= 1
  BY DEF Unclobbered, IInv, TypeOK, Exists, OneDoc
<1>2. Docs(i) = {Fetch(i)} /\ Fetch(i) \in Txp /\ Len(txps[i]) = 1
  BY <1>1, OnlyDoc DEF Docs, Elements, Fetch
<1>3. Consistent(Fetch(i))
  BY <1>1, <1>2, ReadGood DEF Good
<1> QED
  BY <1>1, <1>2, <1>3

\* removePendingTx still works on a pending proposal.
LEMMA RemovableStep ==
    ASSUME IInv, Removable, Next
    PROVE  Removable'
<1> SUFFICES ASSUME NEW r \in Request, req'[r].at = "remove"
             PROVE  IsPending(req'[r].txp)
  BY DEF Removable
<1>1. ReqChange(r)
  BY ReqChanges
<1>2. CASE req'[r] = req[r]
  BY <1>2 DEF Removable
<1>3. req'[r] # Idle
  BY DEF Idle
<1>4. ~Keeps(r) /\ ~Creates(r)
  BY DEF Keeps, Creates
<1>5. CASE Reads(r)
  BY <1>5 DEF Reads
<1> QED
  BY <1>1, <1>2, <1>3, <1>4, <1>5 DEF ReqChange

\* An unclobbered proposal still has one document at most.
LEMMA OneDocStep ==
    ASSUME IInv, OneDoc, Removable, Next
    PROVE  OneDoc'
<1> SUFFICES ASSUME NEW i \in TxpId, i \notin clobbered' PROVE Len(txps'[i]) <= 1
  BY DEF OneDoc, Unclobbered
<1>1. Change(i) /\ i \notin clobbered
  BY Changes
<1>2. CASE txps'[i] = txps[i]
  BY <1>1, <1>2 DEF OneDoc, Unclobbered
<1>3. ASSUME NEW u, txps'[i] = <<u>> PROVE Len(txps'[i]) <= 1
  BY <1>3
<1>4. CASE txps'[i] = <<>>
  BY <1>4
<1> QED
  BY <1>1, <1>2, <1>3, <1>4 DEF Change

\* The copies are still states that their proposals have been in.
LEMMA FollowedStep ==
    ASSUME IInv, OneDoc, Followed, Fresh, Removable, Next
    PROVE  Followed'
<1> SUFFICES ASSUME NEW i \in TxpId, i \notin clobbered', Exists(i)',
                    NEW r \in Request, req'[r] # Idle, req'[r].id = i
             PROVE  MovesForward(req'[r].txp, Fetch(i)')
  BY DEF Followed, Unclobbered
<1>1. Change(i) /\ i \notin clobbered /\ i \in Unclobbered
  BY Changes DEF Unclobbered
<1>2. /\ \A q \in Request : ReqChange(q)
      /\ ReqChange(r)
  BY ReqChanges
<1>3. ASSUME req'[r] = req[r] \/ Keeps(r), Exists(i)
      PROVE  req'[r].txp \in Txp /\ MovesForward(req'[r].txp, Fetch(i))
  <2>1. req[r] # Idle /\ req[r].id = i /\ req'[r].txp = req[r].txp
    BY <1>3 DEF Keeps
  <2> QED
    BY <1>1, <1>3, <2>1, BusyType DEF Followed, IInv
<1>4. ASSUME UNCHANGED txps \/ txps'[i] = txps[i]
      PROVE  MovesForward(req'[r].txp, Fetch(i)')
  <2>1. Exists(i) /\ Fetch(i)' = Fetch(i)
    BY <1>4 DEF Exists, Fetch
  <2>2. CASE req'[r] = req[r] \/ Keeps(r)
    BY <1>3, <2>1, <2>2
  <2>3. CASE Reads(r)
    BY <1>1, <2>1, <2>3, SingleDoc, ForwardSame DEF Reads
  <2>4. CASE Creates(r)
    BY <2>1, <2>4 DEF Creates, Fresh, Untouched
  <2> QED
    BY <1>2, <2>2, <2>3, <2>4 DEF ReqChange
<1>5. ASSUME NEW q \in Request, req[q].at = "create", req[q].id = i, req'[q] = Idle,
             txps'[i] = <<NewTxp>>
      PROVE  FALSE
  BY <1>2, <1>5, NewProposal
<1>6. ASSUME Exists(i), NEW u \in Txp, txps'[i] = <<u>>, MovesForward(Fetch(i), u)
      PROVE  MovesForward(req'[r].txp, Fetch(i)')
  <2>1. Fetch(i)' = u
    BY <1>6 DEF Fetch
  <2>2. CASE req'[r] = req[r] \/ Keeps(r)
    <3>1. req'[r].txp \in Txp /\ MovesForward(req'[r].txp, Fetch(i)) /\ Fetch(i) \in Txp
      BY <1>1, <1>3, <1>6, <2>2, SingleDoc
    <3> QED
      BY <1>6, <2>1, <3>1, ForwardTwice
  <2>3. CASE Reads(r) \/ Creates(r)
    BY <1>4, <2>3 DEF Reads, Creates
  <2> QED
    BY <1>2, <2>2, <2>3 DEF ReqChange
<1>7. txps'[i] # <<>>
  BY DEF Exists
<1> QED
  BY <1>1, <1>4, <1>5, <1>6, <1>7 DEF Change

\* The transactions, old and new, are still those that their proposals have.
LEMMA TxRecordedStep ==
    ASSUME IInv, IInv', OneDoc, Followed, TxRecorded, Fresh, Removable, Next
    PROVE  TxRecorded'
<1> SUFFICES ASSUME NEW tx \in network' \cup signed', tx.id \in TxpId,
                    tx.id \notin clobbered', Exists(tx.id)'
             PROVE  Recorded(tx)'
  BY DEF TxRecorded, Unclobbered
<1> DEFINE i == tx.id
<1>1. Change(i) /\ i \notin clobbered /\ i \in Unclobbered
  BY Changes DEF Unclobbered
<1>2. OneDoc'
  BY OneDocStep
<1>3. Fetch(i)' \in Txp /\ Consistent(Fetch(i)')
  <2>1. /\ Docs(i)' \subseteq Txp
        /\ \A t \in Docs(i)' : Good(i, t, network')
        /\ Fetch(i)' \in Docs(i)'
    BY FetchType DEF IInv, GoodDocs, TypeOK, Docs, Exists, Fetch
  <2> QED
    BY <2>1 DEF Good
<1>4. ASSUME tx \in network \cup signed PROVE Recorded(tx)'
  <2>1. CASE txps'[i] = txps[i]
    BY <1>1, <1>4, <2>1 DEF TxRecorded, Recorded, Exists, Fetch
  <2>2. ASSUME NEW q \in Request, req[q].at = "create", req[q].id = i
        PROVE  FALSE
    BY <1>4, <2>2 DEF Fresh, Untouched
  <2>3. ASSUME Exists(i), NEW u \in Txp, txps'[i] = <<u>>, MovesForward(Fetch(i), u)
        PROVE  Recorded(tx)'
    <3>1. Fetch(i)' = u
      BY <2>3 DEF Fetch
    <3>2. Recorded(tx)
      BY <1>1, <1>4, <2>3 DEF TxRecorded
    <3>3. Fetch(i) \in Txp /\ Consistent(Fetch(i))
      BY <1>1, <2>3, SingleDoc
    <3>4. u.status \in {"accepted", "broadcasted"} /\ u.txid = Fetch(i).txid
      BY <1>3, <2>3, <3>1, <3>2, <3>3, ForwardFromAccepted DEF Recorded
    <3> QED
      BY <3>1, <3>2, <3>4 DEF Recorded
  <2>4. txps'[i] # <<>>
    BY DEF Exists
  <2> QED
    BY <1>1, <2>1, <2>2, <2>3, <2>4 DEF Change
<1>5. ASSUME NEW r \in Request, Makes(tx, r) PROVE Recorded(tx)'
  <2> DEFINE t == req[r].txp
  <2>1. req[r].at \in Stage
    BY <1>5 DEF Makes, Stage
  <2>2. /\ req[r] # Idle /\ req[r].id \in TxpId /\ req[r].who \in Copayer
        /\ t \in Txp /\ GoodCopy(req[r], network) /\ Consistent(t)
    BY <2>1, CopyGood DEF GoodCopy
  <2>3. CASE req[r].at = "send" /\ tx = TxOf(req[r].id, t) /\ UNCHANGED txps
    <3>1. t.status = "accepted" /\ req[r].id = i /\ tx.signers = t.txid
      BY <2>2, <2>3 DEF GoodCopy, TxOf, Consistent
    <3>2. Exists(i) /\ Fetch(i)' = Fetch(i)
      BY <2>3 DEF Exists, Fetch
    <3>3. MovesForward(t, Fetch(i)) /\ Fetch(i) \in Txp /\ Consistent(Fetch(i))
      BY <1>1, <2>2, <3>1, <3>2, SingleDoc DEF Followed
    <3> QED
      BY <2>2, <3>1, <3>2, <3>3, ForwardFromAccepted DEF Recorded
  <2>4. CASE /\ SignStore(r) /\ Sign(t, req[r].who).status = "accepted"
             /\ tx = TxOf(req[r].id, Sign(t, req[r].who))
    <3> DEFINE u == Sign(t, req[r].who)
    <3>1. u \in Txp /\ CanSign(t, req[r].who)
      BY <2>2, <2>4, TxpType DEF SignStore, GoodCopy
    <3>2. Consistent(u)
      BY <2>2, <3>1, ConsistentVote
    <3>3. u.status = "accepted" /\ u.txid = tx.signers /\ req[r].id = i
      BY <2>4, <3>2 DEF Consistent, TxOf
    <3> HIDE DEF u
    <3>4. txps' = [txps EXCEPT ![i] = Store(@, u)]
      BY <2>4, <3>3 DEF SignStore, Write, u
    <3>5. txps'[i] = Store(txps[i], u) /\ txps[i] \in Seq(Txp)
      BY <2>2, <3>3, <3>4 DEF IInv, TypeOK
    <3>6. txps'[i][1] = u
      <4>1. CASE txps[i] = <<>>
        BY <3>5, <4>1 DEF Store
      <4>2. CASE txps[i] # <<>>
        <5>1. Len(txps[i]) \in Nat /\ Len(txps[i]) # 0
          BY <3>5, <4>2, EmptySeq
        <5>2. 1 \in DOMAIN txps[i]
          BY <3>5, <5>1
        <5> QED
          BY <3>5, <4>2, <5>2 DEF Store
      <4> QED
        BY <4>1, <4>2
    <3> QED
      BY <3>3, <3>6 DEF Recorded, Fetch
  <2> QED
    BY <1>5, <2>3, <2>4 DEF Makes
<1> QED
  BY <1>4, <1>5, Births DEF IInv

-----------------------------------------------------------------------------
\* The lock and the inputs

\* A locked handler runs under the lock, until a lease runs out.
UnderLock == leaseOver \/ \A r \in Request : req[r].at \in Locked => lock = r

Competes(i, j) == i # j /\ InputsOf[i] \cap InputsOf[j] # {}

\* publishTx has seen the proposals that compete with its own: those that it
\* has not seen as pending can only be broadcasted, and then none.
Checked ==
    leaseOver \/ \A r \in Request : req[r].at \in {"spents", "publish"} =>
        \A j \in Unclobbered : Competes(req[r].id, j) /\ Holds(j) =>
            req[r].at = "spents" /\ Fetch(j).status = "broadcasted"

\* What a step may do to the lock.
LockChange ==
    /\ leaseOver => leaseOver'
    /\ \/ leaseOver'
       \/ /\ lock' = lock
          /\ \A q \in Request : req'[q].at \in Locked => req[q].at \in Locked
       \/ \E r \in Request : /\ lock = NoRequest /\ lock' = r
                             /\ \A q \in Request \ {r} : req'[q] = req[q]
       \/ \E r \in Request : /\ lock = r /\ lock' = NoRequest
                             /\ req'[r] = Idle
                             /\ \A q \in Request \ {r} : req'[q] = req[q]

\* A locked handler that ends gives the lock back, or leaves it (a crash).
LEMMA LockUnlock ==
    ASSUME TypeOK, NEW r \in Request, End(r), Unlock(r) \/ KeepLock
    PROVE  LockChange
<1>1. req'[r] = Idle /\ \A q \in Request \ {r} : req'[q] = req[q]
  BY DEF End, TypeOK
<1>2. Idle.at \notin Locked
  BY DEF Idle, Locked
<1>3. CASE KeepLock
  BY <1>1, <1>2, <1>3 DEF KeepLock, LockChange
<1>4. CASE Unlock(r)
  BY <1>1, <1>4 DEF Unlock, LockChange, Lock!Release, Lock!Lost
<1> QED
  BY <1>3, <1>4

\* A handler starts under the lock, or outside of it.
LEMMA LockStart ==
    ASSUME TypeOK, NEW r \in Request, NEW stage, NEW i, NEW c, NEW t, Start(r, stage, i, c, t),
           Lock!Grant(r) \/ (KeepLock /\ stage \notin Locked)
    PROVE  LockChange
<1>1. req'[r].at = stage /\ \A q \in Request \ {r} : req'[q] = req[q]
  BY DEF Start, TypeOK
<1>2. CASE Lock!Grant(r)
  BY <1>1, <1>2 DEF LockChange, Lock!Grant
<1>3. CASE KeepLock /\ stage \notin Locked
  BY <1>1, <1>3 DEF LockChange, KeepLock
<1> QED
  BY <1>2, <1>3

\* A handler goes on as it is.
LEMMA LockGo ==
    ASSUME TypeOK, NEW r \in Request, req[r] # Idle, NEW stage \in Stage, Go(r, stage),
           KeepLock, stage \notin Locked \/ req[r].at \in Locked
    PROVE  LockChange
<1>1. req[r] \in Req
  BY BusyType
<1>2. req'[r] = [req[r] EXCEPT !.at = stage] /\ \A q \in Request \ {r} : req'[q] = req[q]
  BY DEF Go, TypeOK
<1>3. req'[r].at = stage
  BY <1>1, <1>2, GoFields
<1> QED
  BY <1>2, <1>3 DEF LockChange, KeepLock

\* Every step.
LEMMA LockChanges ==
    ASSUME TypeOK, Next
    PROVE  LockChange
<1>1. ASSUME NEW r \in Request, NEW i \in TxpId, Handler(r, i) PROVE LockChange
  <2>1. CASE CreateTx(r, i) \/ PublishTx(r, i) \/ \E c \in Copayer : RemovePendingTx(r, c, i)
    BY <2>1, LockStart DEF CreateTx, PublishTx, RemovePendingTx
  <2>2. CASE \/ BroadcastTx(r, i) \/ GetPendingTxs(r, i)
             \/ \E c \in Copayer : SignTx(r, c, i) \/ RejectTx(r, c, i)
    BY <2>2, LockStart DEF BroadcastTx, GetPendingTxs, SignTx, RejectTx, Locked
  <2> QED
    BY <1>1, <2>1, <2>2 DEF Handler
<1>2. ASSUME NEW r \in Request, Continue(r) PROVE LockChange
  <2>1. CASE \/ CreateStore(r) \/ PublishStore(r) \/ SignStore(r) \/ RejectStore(r)
             \/ ProcessBroadcast(r) \/ RemoveTx(r) \/ MonitorStore(r) \/ Abort(r) \/ Crash(r)
    BY <2>1, LockUnlock
       DEF CreateStore, PublishStore, SignStore, RejectStore, ProcessBroadcast, RemoveTx,
           MonitorStore, Abort, Crash
  <2>2. CASE PublishPendings(r) \/ PublishSpents(r)
    <3>1. req[r] # Idle
      BY <2>2, BusyType DEF PublishPendings, PublishSpents, Stage
    <3> QED
      BY <2>2, <3>1, LockGo DEF PublishPendings, PublishSpents, Stage, Locked
  <2>3. CASE BroadcastSend(r) \/ BroadcastError(r) \/ CheckInBlockchain(r)
    <3>1. req[r] # Idle
      BY <2>3, BusyType DEF BroadcastSend, BroadcastError, CheckInBlockchain, Stage
    <3>2. KeepLock /\ (End(r) \/ Go(r, "check") \/ Go(r, "mark"))
      BY <2>3 DEF BroadcastSend, BroadcastError, CheckInBlockchain
    <3> QED
      BY <3>1, <3>2, LockGo, LockUnlock DEF Stage, Locked
  <2>4. CASE MonitorRefetch(r)
    <3>1. CASE End(r)
      BY <2>4, <3>1, LockUnlock DEF MonitorRefetch
    <3>2. CASE \E u : req' = [req EXCEPT ![r].at = "third", ![r].txp = u]
      <4>1. PICK u : req' = [req EXCEPT ![r].at = "third", ![r].txp = u]
        BY <3>2
      <4>2. req[r] \in Req
        BY <2>4, BusyType DEF MonitorRefetch, Stage
      <4>3. req'[r].at = "third" /\ \A q \in Request \ {r} : req'[q] = req[q]
        BY <4>1, <4>2 DEF TypeOK, Req
      <4> QED
        BY <2>4, <4>3 DEF MonitorRefetch, KeepLock, LockChange, Locked
    <3> QED
      BY <2>4, <3>1, <3>2 DEF MonitorRefetch
  <2> QED
    BY <1>2, <2>1, <2>2, <2>3, <2>4 DEF Continue
<1>3. ASSUME NEW r \in Monitor, NEW tx \in network, MonitorNotice(r, tx) PROVE LockChange
  BY <1>3, LockStart, RequestAssumption DEF MonitorNotice, Locked
<1>4. CASE (\E i \in TxpId : Age(i)) \/ (\E tx \in signed : BroadcastByThirdParty(tx))
  BY <1>4 DEF Age, BroadcastByThirdParty, KeepLock, LockChange
<1>5. CASE LockExpires
  BY <1>5 DEF LockExpires, LockChange, Lock!LeaseEnds, Lock!Lost
<1> QED
  BY <1>1, <1>2, <1>3, <1>4, <1>5 DEF Next

\* The lock still covers the locked handlers.
LEMMA UnderLockStep ==
    ASSUME TypeOK, UnderLock, Next
    PROVE  UnderLock'
<1> SUFFICES ASSUME ~leaseOver' PROVE \A r \in Request : req'[r].at \in Locked => lock' = r
  BY DEF UnderLock
<1>1. LockChange /\ ~leaseOver
  BY LockChanges DEF LockChange
<1>2. \A r \in Request : req[r].at \in Locked => lock = r
  BY <1>1 DEF UnderLock
<1>3. Idle.at \notin Locked
  BY DEF Idle, Locked
<1>4. NoRequest \notin Request
  BY RequestAssumption
<1> QED
  BY <1>1, <1>2, <1>3, <1>4 DEF LockChange

\* A proposal comes to hold its inputs only through publishTx.
LEMMA NewHold ==
    ASSUME IInv, OneDoc, Removable, Next, NEW i \in TxpId, i \notin clobbered', Holds(i)'
    PROVE  /\ i \in Unclobbered /\ Exists(i)
           /\ \/ Holds(i) /\ (Fetch(i).status = "broadcasted" => Fetch(i)' = Fetch(i))
              \/ \E r \in Request : req[r].at = "publish" /\ req[r].id = i
<1>1. Change(i) /\ i \in Unclobbered
  BY Changes DEF Unclobbered
<1>2. CASE txps'[i] = txps[i]
  <2>1. Docs(i)' = Docs(i) /\ Fetch(i)' = Fetch(i)
    BY <1>2 DEF Docs, Fetch
  <2>2. Holds(i) /\ Exists(i)
    BY <2>1 DEF Holds, Exists, Docs
  <2> QED
    BY <1>1, <2>1, <2>2
<1>3. ASSUME NEW u, txps'[i] = <<u>> PROVE Docs(i)' = {u} /\ Fetch(i)' = u
  <2>1. Docs(i)' = {<<u>>[k] : k \in DOMAIN <<u>>}
    BY <1>3 DEF Docs
  <2>2. DOMAIN <<u>> = {1} /\ <<u>>[1] = u
    OBVIOUS
  <2> QED
    BY <1>3, <2>1, <2>2 DEF Fetch
<1>4. txps'[i] # <<NewTxp>>
  <2> SUFFICES ASSUME txps'[i] = <<NewTxp>> PROVE FALSE
    OBVIOUS
  <2>1. Docs(i)' = {NewTxp}
    BY <1>3
  <2> QED
    BY <2>1 DEF Holds, IsPending, NewTxp
<1>5. ASSUME Exists(i), NEW u \in Txp, txps'[i] = <<u>>, MovesForward(Fetch(i), u),
             Fetch(i).status # "temporary"
      PROVE  Holds(i) /\ (Fetch(i).status = "broadcasted" => Fetch(i)' = Fetch(i))
  <2>1. Docs(i)' = {u} /\ Fetch(i)' = u
    BY <1>3, <1>5
  <2>2. u.status # "rejected" 
    BY <2>1 DEF Holds, IsPending
  <2>3. Fetch(i).status # "rejected"
    BY <1>5, <2>2 DEF MovesForward
  <2>4. Fetch(i) \in Docs(i) /\ Fetch(i) \in Txp
    BY <1>1, <1>5, SingleDoc
  <2>5. Holds(i)
    BY <1>5, <2>3, <2>4 DEF Holds, IsPending
  <2> QED
    BY <1>5, <2>1, <2>5 DEF MovesForward
<1>6. txps'[i] # <<>>
  BY DEF Holds, Docs
<1> QED
  BY <1>1, <1>2, <1>4, <1>5, <1>6 DEF Change

\* A proposal that publishTx has not seen does not come to hold its inputs:
\* whoever publishes it waits for the lock.
LEMMA CheckedStep ==
    ASSUME IInv, OneDoc, Removable, UnderLock, Checked, Next
    PROVE  Checked'
<1>1. leaseOver => leaseOver'
  BY LockChanges DEF LockChange, IInv
<1> SUFFICES ASSUME ~leaseOver', NEW r \in Request, req'[r].at \in {"spents", "publish"},
                    NEW j \in TxpId, j \notin clobbered', Competes(req'[r].id, j), Holds(j)'
             PROVE  req'[r].at = "spents" /\ Fetch(j)'.status = "broadcasted"
  BY DEF Checked, Unclobbered, Competes
<1>2. /\ j \in Unclobbered /\ Exists(j)
      /\ \/ Holds(j) /\ (Fetch(j).status = "broadcasted" => Fetch(j)' = Fetch(j))
         \/ \E q \in Request : req[q].at = "publish" /\ req[q].id = j
  BY NewHold
<1>3. Fetch(j) \in Txp /\ Docs(j) = {Fetch(j)} /\ Len(txps[j]) = 1
  BY <1>2, SingleDoc
<1>4. ReqChange(r)
  BY ReqChanges
<1>5. CASE req'[r] = req[r]
  <2>1. Holds(j) /\ (Fetch(j).status = "broadcasted" => Fetch(j)' = Fetch(j))
    <3> SUFFICES ASSUME NEW q \in Request, req[q].at = "publish", req[q].id = j PROVE FALSE
      BY <1>2
    <3>1. q # r
      BY <1>5 DEF Competes
    <3>2. lock = q /\ lock = r
      BY <1>1, <1>5 DEF UnderLock, Locked
    <3> QED
      BY <3>1, <3>2
  <2> QED
    BY <1>1, <1>2, <1>5, <2>1 DEF Checked
<1>6. CASE PublishPendings(r) /\ Keeps(r)
  <2>1. req'[r].id = req[r].id /\ req'[r].at = "spents"
    BY <1>6 DEF Keeps, PublishPendings, PublishSpents
  <2>2. \A t \in Docs(j) : IsPending(t) => OnNetwork(j, t)
    BY <1>6, <2>1 DEF PublishPendings, LockedInputs, Competes
  <2>3. txps'[j] = Marked(j)
    BY <1>6 DEF PublishPendings
  <2>4. CASE OnNetwork(j, Fetch(j))
    <3>1. {t \in Docs(j) : OnNetwork(j, t)} = {Fetch(j)}
      BY <1>3, <2>4
    <3>2. Marked(j) = Store(txps[j], SetBroadcasted(Fetch(j)))
      BY <3>1 DEF Marked
    <3>3. Marked(j)[1] = SetBroadcasted(Fetch(j))
      BY <1>2, <1>3, <3>2 DEF Store, Exists, IInv, TypeOK
    <3>4. SetBroadcasted(Fetch(j)).status = "broadcasted"
      BY <1>3 DEF SetBroadcasted, Txp
    <3> QED
      BY <2>1, <2>3, <3>3, <3>4 DEF Fetch
  <2>5. CASE ~OnNetwork(j, Fetch(j))
    <3>1. txps'[j] = txps[j]
      BY <1>3, <2>3, <2>5 DEF Marked
    <3>2. Docs(j)' = Docs(j) /\ Fetch(j)' = Fetch(j)
      BY <3>1 DEF Docs, Fetch
    <3>3. IsPending(Fetch(j)) \/ Fetch(j).status = "broadcasted"
      BY <1>3, <3>2 DEF Holds
    <3> QED
      BY <1>3, <2>1, <2>2, <2>5, <3>2, <3>3
  <2> QED
    BY <2>4, <2>5
<1>7. CASE PublishSpents(r) /\ Keeps(r)
  <2>1. req'[r].id = req[r].id /\ req[r].at = "spents" /\ UNCHANGED txps
    BY <1>7 DEF Keeps, PublishSpents
  <2>2. Holds(j)
    BY <2>1 DEF Holds, Docs
  <2>3. Fetch(j).status = "broadcasted"
    BY <1>1, <1>2, <2>1, <2>2 DEF Checked
  <2> QED
    BY <1>3, <1>7, <2>1, <2>3 DEF PublishSpents, SpentInputs, Competes
<1>8. req'[r] # Idle
  BY DEF Idle
<1> QED
  BY <1>4, <1>5, <1>6, <1>7, <1>8 DEF ReqChange, Keeps, Reads, Creates

\* Two proposals that compete are not published at the same time.
LEMMA HeldOnceStep ==
    ASSUME IInv, OneDoc, Removable, UnderLock, Checked, InputsHeldOnce, Next
    PROVE  InputsHeldOnce'
<1>1. leaseOver => leaseOver'
  BY LockChanges DEF LockChange, IInv
<1> SUFFICES ASSUME ~leaseOver', NEW i \in TxpId, NEW j \in TxpId, Competes(i, j),
                    i \notin clobbered', j \notin clobbered', Holds(i)', Holds(j)'
             PROVE  FALSE
  BY DEF InputsHeldOnce, Competes
<1>2. i \in Unclobbered /\ j \in Unclobbered /\ i # j /\ Competes(j, i)
  BY NewHold DEF Competes
<1>3. ~Holds(i) \/ ~Holds(j)
  BY <1>1, <1>2 DEF InputsHeldOnce, Competes, Unclobbered
<1>4. /\ Holds(i) \/ \E r \in Request : req[r].at = "publish" /\ req[r].id = i
      /\ Holds(j) \/ \E r \in Request : req[r].at = "publish" /\ req[r].id = j
  BY NewHold
<1>5. ASSUME NEW r \in Request, req[r].at = "publish", req[r].id = i PROVE ~Holds(j)
  BY <1>1, <1>2, <1>5 DEF Checked
<1>6. ASSUME NEW r \in Request, req[r].at = "publish", req[r].id = j PROVE ~Holds(i)
  BY <1>1, <1>2, <1>6 DEF Checked
<1>7. PICK r \in Request, q \in Request : /\ req[r].at = "publish" /\ req[r].id = i
                                          /\ req[q].at = "publish" /\ req[q].id = j
  BY <1>3, <1>4, <1>5, <1>6
<1>8. lock = r /\ lock = q
  BY <1>1, <1>7 DEF UnderLock, Locked
<1> QED
  BY <1>2, <1>7, <1>8

-----------------------------------------------------------------------------
\* The theorems

\* In every state the documents and the copies in flight are good.
THEOREM InductiveInvariant == Spec => []IInv
<1>1. Init => IInv
  <2> SUFFICES ASSUME Init PROVE IInv
    OBVIOUS
  <2>1. TypeOK
    <3>1. txps \in [TxpId -> Seq(Txp)]
      <4>1. <<>> \in Seq(Txp)
        OBVIOUS
      <4> QED
        BY <4>1 DEF Init
    <3>2. req \in [Request -> Req \cup {Idle}]
      BY DEF Init
    <3>3. lock \in Request \cup {NoRequest} /\ leaseOver \in BOOLEAN
      BY DEF Init, Lock!Init
    <3>4. /\ network \subseteq Tx /\ signed \subseteq Tx
          /\ created \subseteq TxpId /\ aged \subseteq TxpId
          /\ clobbered \subseteq TxpId
      BY DEF Init
    <3> QED
      BY <3>1, <3>2, <3>3, <3>4 DEF TypeOK
  <2>2. GoodDocs /\ GoodCopies
    BY DEF Init, GoodDocs, GoodCopies, GoodCopy, Docs
  <2> QED
    BY <2>1, <2>2 DEF IInv
<1>2. IInv /\ [Next]_vars => IInv'
  <2> SUFFICES ASSUME IInv, [Next]_vars PROVE IInv'
    OBVIOUS
  <2>1. ASSUME NEW r \in Request, NEW i \in TxpId, Handler(r, i) PROVE IInv'
    BY <2>1, HandlerStep
  <2>2. ASSUME NEW r \in Monitor, NEW tx \in network, MonitorNotice(r, tx) PROVE IInv'
    BY <2>2, RequestAssumption, MonitorNoticeStep
  <2>3. ASSUME NEW r \in Request, Continue(r) PROVE IInv'
    BY <2>3, StoreStep, PublishStep, BroadcastStep, RemoveStep, MonitorStep,
       EnvironmentStep DEF Continue
  <2>4. CASE \/ \E i \in TxpId : Age(i)
             \/ \E tx \in signed : BroadcastByThirdParty(tx)
             \/ LockExpires
    BY <2>4, EnvironmentStep
  <2>5. CASE UNCHANGED vars
    BY <2>5 DEF vars, IInv, TypeOK, GoodDocs, GoodCopies, Docs
  <2> QED
    BY <2>1, <2>2, <2>3, <2>4, <2>5 DEF Next
<1> QED
  BY <1>1, <1>2, PTL DEF Spec

\* The documents, the network, the requests and the lock keep their types.
THEOREM TypeCorrect == Spec => []TypeOK
<1>1. IInv => TypeOK
  BY DEF IInv
<1> QED
  BY <1>1, InductiveInvariant, PTL

\* Votes, status and txid of every document and of every copy belong together
\* (model/txproposal.ts).
THEOREM Documents == Spec => []DocsConsistent
<1>1. IInv => DocsConsistent
  BY DEF IInv, GoodDocs, GoodCopies, Good, GoodCopy, DocsConsistent
<1> QED
  BY <1>1, InductiveInvariant, PTL

\* What is stored as broadcasted is on the network (server.ts, broadcastTx,
\* getPendingTxs and the monitor).
THEOREM Broadcasted == Spec => []BroadcastedOnNetwork
<1>1. IInv => BroadcastedOnNetwork
  BY DEF IInv, GoodDocs, Good, BroadcastedOnNetwork
<1> QED
  BY <1>1, InductiveInvariant, PTL

\* What holds of the history of the proposals, besides.
HInv == History /\ UnderLock /\ Checked /\ InputsHeldOnce

\* In every state the copies in flight are states that their proposals have
\* been in, the transactions are recorded, and publishTx has seen who competes.
THEOREM HistoryInvariant == Spec => []HInv
<1>1. Init => HInv
  <2> SUFFICES ASSUME Init PROVE HInv
    OBVIOUS
  <2>1. \A i \in TxpId : ~Exists(i) /\ ~Holds(i)
    BY DEF Init, Exists, Holds, Docs
  <2>2. \A r \in Request : req[r] = Idle /\ req[r].at = "idle"
    BY DEF Init, Idle
  <2>3. OneDoc
    <3>1. Len(<<>>) <= 1
      OBVIOUS
    <3> QED
      BY <3>1 DEF Init, OneDoc, Unclobbered
  <2>4. Followed /\ TxRecorded /\ Removable
    BY <2>1, <2>2 DEF Followed, TxRecorded, Removable, Unclobbered, Init
  <2>5. Fresh
    BY <2>1, <2>2 DEF Fresh, Untouched, Init
  <2>6. UnderLock /\ Checked
    BY <2>2 DEF UnderLock, Checked, Locked
  <2>7. InputsHeldOnce
    BY <2>1 DEF InputsHeldOnce
  <2> QED
    BY <2>3, <2>4, <2>5, <2>6, <2>7 DEF HInv, History
<1>2. IInv /\ IInv' /\ HInv /\ [Next]_vars => HInv'
  <2> SUFFICES ASSUME IInv, IInv', HInv, [Next]_vars PROVE HInv'
    OBVIOUS
  <2>1. CASE Next
    BY <2>1, OneDocStep, FollowedStep, TxRecordedStep, FreshStep, RemovableStep,
       UnderLockStep, CheckedStep, HeldOnceStep DEF HInv, History, IInv
  <2>2. CASE UNCHANGED vars
    BY <2>2 DEF vars, HInv, History, OneDoc, Followed, TxRecorded, Recorded, Fresh, Untouched,
                Removable, UnderLock, Checked, InputsHeldOnce, Exists, Fetch, Holds, Docs,
                Unclobbered
  <2> QED
    BY <2>1, <2>2
<1> QED
  BY <1>1, <1>2, InductiveInvariant, PTL DEF Spec

\* A transaction on the network is the one its proposal records, unless a
\* stale copy overwrote the proposal (server.ts, broadcastTx, signTx, publishTx).
THEOREM NetworkRecorded == Spec => []NetworkTxRecorded
<1>1. IInv /\ HInv => NetworkTxRecorded
  BY DEF IInv, TypeOK, Tx, HInv, History, TxRecorded, Recorded, Unclobbered, NetworkTxRecorded
<1> QED
  BY <1>1, InductiveInvariant, HistoryInvariant, PTL

\* Two published proposals hold the same input only after a lock ran out or a
\* stale copy overwrote one of them (server.ts, getUtxosForCurrentWallet).
THEOREM HeldOnce == Spec => []InputsHeldOnce
<1>1. HInv => InputsHeldOnce
  BY DEF HInv
<1> QED
  BY <1>1, HistoryInvariant, PTL

\* Only a stale copy takes a proposal back (model/txproposal.ts, storage.ts).
THEOREM Forward == Spec => ForwardOnly
<1> DEFINE Onward == \A i \in TxpId :
                        Exists(i) /\ i \notin clobbered' =>
                           IF Exists(i)' THEN MovesForward(Fetch(i), Fetch(i)')
                           ELSE IsPending(Fetch(i))
<1>1. IInv /\ HInv /\ [Next]_vars => [Onward]_vars
  <2> SUFFICES ASSUME IInv, HInv, Next, NEW i \in TxpId, Exists(i), i \notin clobbered'
               PROVE  IF Exists(i)' THEN MovesForward(Fetch(i), Fetch(i)')
                      ELSE IsPending(Fetch(i))
    OBVIOUS
  <2>1. OneDoc /\ Removable /\ Fresh
    BY DEF HInv, History
  <2>2. Change(i) /\ i \in Unclobbered
    BY <2>1, Changes DEF Unclobbered
  <2>3. CASE txps'[i] = txps[i]
    <3>1. Exists(i)' /\ Fetch(i)' = Fetch(i)
      BY <2>3 DEF Exists, Fetch
    <3> QED
      BY <2>1, <2>2, <3>1, SingleDoc, ForwardSame
  <2>4. ASSUME NEW r \in Request, req[r].at = "create", req[r].id = i PROVE FALSE
    BY <2>1, <2>4 DEF Fresh, Untouched
  <2>5. ASSUME NEW u \in Txp, txps'[i] = <<u>>, MovesForward(Fetch(i), u)
        PROVE  Exists(i)' /\ MovesForward(Fetch(i), Fetch(i)')
    <3>1. Len(<<u>>) = 1 /\ Len(<<>>) = 0
      OBVIOUS
    <3>2. <<u>> # <<>>
      BY <3>1
    <3> QED
      BY <2>5, <3>2 DEF Exists, Fetch
  <2>6. CASE IsPending(Fetch(i)) /\ txps'[i] = <<>>
    BY <2>6 DEF Exists
  <2> QED
    BY <2>2, <2>3, <2>4, <2>5, <2>6 DEF Change
<1> QED
  BY <1>1, InductiveInvariant, HistoryInvariant, PTL DEF Spec, ForwardOnly
=============================================================================
