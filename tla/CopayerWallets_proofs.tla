------------------------ MODULE CopayerWallets_proofs ------------------------
(***************************************************************************)
(* Proofs about CopayerWallets, for any wallets, copayers and requests and *)
(* whatever crashes or fails: its types, that no copayer who has joined is *)
(* lost, that every address has the keys of all the copayers of its        *)
(* wallet, that the lookup never has more than the copayers of a complete  *)
(* wallet, nor fewer unless a rewrite goes on or was cut short, and that   *)
(* no index passes an address that was never stored.                       *)
(***************************************************************************)
EXTENDS CopayerWallets, FiniteSetTheorems, SequenceTheorems,
        WellFoundedInduction, TLAPS

-----------------------------------------------------------------------------
\* The inductive invariant

Ended == {"done", "refused"}
Rewrite == {"delete lookup", "insert lookup", "store wallet and lookup"}
Storing == {"insert", "store", "register", "add", "mark"}

\* The stages that each kind of request goes through.
OnCourse(r) ==
    \/ Is(r, "create") /\ req[r].at \in {"idle", "store new"} \cup Ended
    \/ Is(r, "join") /\ req[r].at \in {"idle", "locking", "read", "lookup", "release"}
                                        \cup Rewrite \cup Ended
    \/ Is(r, "access") /\ req[r].at \in {"idle", "access"} \cup Rewrite \cup Ended
    \/ Is(r, "address") /\ req[r].at \in {"idle", "locking", "read", "release"}
                                           \cup Storing \cup Ended
    \/ Is(r, "scan") /\ req[r].at \in {"idle", "unmark", "scan read", "locking",
                                        "start scan", "scan", "scan done",
                                        "store scan", "release"} \cup Storing \cup Ended

\* A request in its task holds the lock: all but the rewrite of addAccess.
InTask(r) ==
    \/ req[r].at \in {"read", "lookup", "start scan", "scan", "scan done", "store scan",
                      "release"} \cup Storing
    \/ Is(r, "join") /\ req[r].at \in Rewrite

\* The document is as complete as it will ever be, and so is the copy.
CopyOfComplete(r) ==
    \/ Is(r, "access") /\ req[r].at \in Rewrite
    \/ Is(r, "address") /\ req[r].at \in Storing
    \/ Is(r, "scan") /\ req[r].at \in {"locking", "start scan", "scan", "scan done",
                                        "store scan"} \cup Storing

\* What a request that runs can rely on.
RequestOK(r) ==
    LET d == docs[W(r)]
        copy == req[r].seen
    IN  /\ OnCourse(r)
        /\ InTask(r) => lock[W(r)] = r
        /\ req[r].at = "store new" => ~d.exists
        /\ req[r].at = "lookup" =>
             d.exists /\ copy.exists /\ ~IsComplete(d) /\ copy.copayers = d.copayers
        /\ Is(r, "join") /\ req[r].at \in Rewrite =>
             d.exists /\ copy.exists /\ ~IsComplete(d) /\ d.copayers \subseteq copy.copayers
        /\ CopyOfComplete(r) =>
             copy.exists /\ IsComplete(d) /\ copy.copayers = d.copayers
        /\ req[r].at \in {"unmark", "scan read"} => IsComplete(d)
        /\ req[r].at = "insert" =>
             \A k \in DOMAIN req[r].todo :
               req[r].todo[k].wallet = W(r) /\ req[r].todo[k].ring = d.copayers

RequestsOK == \A r \in Request \ down : RequestOK(r)

\* A wallet without a document has no copayers.
DocsOK == \A w \in Wallet : ~docs[w].exists => docs[w].copayers = {}

IInv == TypeOK /\ RequestsOK /\ DocsOK /\ FullRing

-----------------------------------------------------------------------------
\* Indexes of a scan

\* Some number of a finite set bounds what precedes it: a scan keeps a number
\* of the indexes it derived (scanBranch).
LEMMA HitsTypes ==
    ASSUME NEW i \in Nat, NEW step \in Nat \ {0}
    PROVE  Hits(i, step) \in Nat
<1> DEFINE bound == Cardinality(Used) * ScanGap
           hit == {k \in 0 .. bound :
                     /\ Probe(i, step, k) \in Used
                     /\ \A a \in 0 .. k - ScanGap :
                          \E b \in a .. a + ScanGap - 1 : Probe(i, step, b) \in Used}
           counts == {0} \cup {k + 1 : k \in hit}
           depths == {bound + 1 - n : n \in counts}
<1>1. bound \in Nat
  BY FS_CardinalityType, ScanAssumption
<1>2. counts \subseteq 0 .. bound + 1
  <2>1. hit \subseteq 0 .. bound
    OBVIOUS
  <2> HIDE DEF hit, bound
  <2> QED
    BY <1>1, <2>1
<1>3. Hits(i, step) = CHOOSE n \in counts : \A k \in hit : k < n
  BY DEF Hits
<1>4. \A k \in hit : k + 1 \in counts
  OBVIOUS
<1>5. hit \subseteq Nat
  <2>1. hit \subseteq 0 .. bound
    OBVIOUS
  <2> HIDE DEF hit, bound
  <2> QED
    BY <1>1, <2>1
<1>6. 0 \in counts
  OBVIOUS
<1> HIDE DEF bound, hit, counts
<1>7. depths \subseteq Nat /\ depths # {}
  <2>1. \A n \in counts : bound + 1 - n \in Nat
    BY <1>1, <1>2
  <2>2. bound + 1 - 0 \in depths
    BY <1>6
  <2> QED
    BY <2>1, <2>2
<1>8. \E m \in depths : \A n \in depths : ~(<<n, m>> \in OpToRel(<, Nat))
  <2> HIDE DEF depths
  <2> QED
    BY <1>7, NatLessThanWellFounded, WFMin
<1>9. PICK m \in depths : \A n \in depths : ~(n < m)
  BY <1>7, <1>8 DEF OpToRel
<1>10. PICK n \in counts : bound + 1 - n = m
  BY <1>9
<1>11. ASSUME NEW k \in hit PROVE k < n
  <2>1. bound + 1 - (k + 1) \in depths
    BY <1>4, <1>11
  <2>2. ~(bound + 1 - (k + 1) < bound + 1 - n)
    BY <1>9, <1>10, <2>1
  <2>3. k \in Int /\ n \in Int
    BY <1>1, <1>2, <1>5, <1>11
  <2> QED
    BY <1>1, <2>2, <2>3
<1>12. Hits(i, step) \in counts
  BY <1>3, <1>10, <1>11
<1>13. \A j \in 0 .. bound + 1 : j \in Nat
  BY <1>1
<1> QED
  BY <1>2, <1>12, <1>13

\* Each pass of a scan stores indexes (_runScan).
LEMMA PassTypes ==
    ASSUME NEW i \in Nat, NEW step \in Nat \ {0}, NEW found \in PassIndexes(i, step)
    PROVE  found \in Seq(Nat)
<1> DEFINE n == Hits(i, step)
           S == Skipped(i, step)
           kept == [k \in 1 .. n |-> Probe(i, step, k - 1)]
<1>1. n \in Nat /\ n * step \in Nat
  BY HitsTypes
<1>2. S \subseteq i .. i + n * step - 1
  BY DEF Skipped
<1> HIDE DEF n, S
<1>3. S \subseteq Nat /\ Cardinality(S) \in Nat
  <2> DEFINE top == i + n * step - 1
  <2>1. top \in Int /\ i \in Int
    BY <1>1
  <2>2. S \subseteq i .. top
    BY <1>2
  <2> HIDE DEF top
  <2>3. IsFiniteSet(i .. top)
    BY <2>1, FS_Interval
  <2>4. i .. top \subseteq Nat
    BY <2>1
  <2> QED
    BY <2>2, <2>3, <2>4, FS_Subset, FS_CardinalityType
<1>4. kept \in Seq(Nat)
  <2>1. \A k \in 1 .. n : Probe(i, step, k - 1) \in Nat
    <3>1. ASSUME NEW k \in 1 .. n PROVE Probe(i, step, k - 1) \in Nat
      <4>1. k - 1 \in Nat
        BY <1>1
      <4>2. (k - 1) * step \in Nat
        BY <4>1
      <4> QED
        BY <4>2 DEF Probe
    <3> QED
      BY <3>1
  <2> QED
    BY <1>1, <2>1
<1>5. PICK back \in [1 .. Cardinality(S) -> S] : found = kept \o back
  BY DEF PassIndexes, n, S
<1>6. back \in Seq(Nat)
  <2> DEFINE c == Cardinality(S)
  <2>1. c \in Nat /\ back \in [1 .. c -> S]
    BY <1>3, <1>5
  <2> HIDE DEF c
  <2>2. back \in [1 .. c -> Nat]
    BY <1>3, <2>1
  <2> QED
    BY <2>1, <2>2
<1> QED
  BY <1>4, <1>5, <1>6, ConcatProperties

\* The order in which a pass stores what it skipped.
Decreasing(f) == \A j, k \in DOMAIN f : j < k => f[j] > f[k]

\* A decreasing sequence of all the numbers there are of a set has them all:
\* the addresses a pass skipped are stored too (_runScan).
LEMMA DecreasingHasAll ==
    ASSUME NEW S \in SUBSET Int, IsFiniteSet(S),
           NEW f \in [1 .. Cardinality(S) -> S],
           Decreasing(f),
           NEW x \in S
    PROVE  \E k \in DOMAIN f : f[k] = x
<1> DEFINE D == 1 .. Cardinality(S)
<1>1. Cardinality(S) \in Nat
  BY FS_CardinalityType
<1>2. IsFiniteSet(D) /\ Cardinality(D) = Cardinality(S)
  BY <1>1, FS_Interval
<1>3. DOMAIN f = D /\ D \subseteq Int
  BY <1>1
<1> HIDE DEF D
<1>4. \A j, k \in D : f[j] = f[k] => j = k
  <2>1. ASSUME NEW j \in D, NEW k \in D, f[j] = f[k], j # k PROVE FALSE
    <3>1. f[j] \in Int /\ f[k] \in Int /\ j \in Int /\ k \in Int
      BY <1>3
    <3>2. j < k \/ k < j
      BY <2>1, <3>1
    <3> QED
      BY <1>3, <2>1, <3>1, <3>2 DEF Decreasing
  <2> QED
    BY <2>1
<1>5. f \in Injection(D, S)
  BY <1>3, <1>4 DEF Injection, IsInjective
<1>6. f \in Surjection(D, S)
  BY <1>2, <1>5, FS_Injection
<1> QED
  BY <1>3, <1>6 DEF Surjection

\* What a pass stores has no hole: every index between the old one and the
\* new one is among those it keeps or those it skipped (scanBranch).
LEMMA PassCovers ==
    ASSUME NEW i \in Nat, NEW step \in Nat \ {0}, NEW found \in PassIndexes(i, step),
           NEW j \in i .. i + Hits(i, step) * step - 1
    PROVE  \E k \in DOMAIN found : found[k] = j
<1> DEFINE n == Hits(i, step)
           S == Skipped(i, step)
           kept == [k \in 1 .. n |-> Probe(i, step, k - 1)]
           top == i + n * step - 1
<1>1. n \in Nat /\ n * step \in Nat
  BY HitsTypes
<1>2. top \in Int /\ j \in Int /\ i <= j /\ j <= top
  BY <1>1
<1>3. S = {m \in i .. top : (m - i + 1) % step # 0}
  BY DEF Skipped
<1>4. S \in SUBSET Int /\ IsFiniteSet(S)
  <2> HIDE DEF top, S
  <2>1. S \subseteq i .. top /\ i .. top \subseteq Int
    BY <1>2, <1>3
  <2>2. IsFiniteSet(i .. top)
    BY <1>2, FS_Interval
  <2> QED
    BY <2>1, <2>2, FS_Subset
<1>5. PICK back \in [1 .. Cardinality(S) -> S] :
        found = kept \o back /\ Decreasing(back)
  BY DEF PassIndexes, Decreasing
<1>6. kept \in Seq(Int) /\ Len(kept) = n
  <2>1. \A k \in 1 .. n : Probe(i, step, k - 1) \in Int
    <3> SUFFICES ASSUME NEW k \in 1 .. n PROVE Probe(i, step, k - 1) \in Int
      OBVIOUS
    <3>1. (k - 1) * step \in Int
      BY <1>1
    <3> QED
      BY <3>1 DEF Probe
  <2> HIDE DEF n
  <2>2. kept \in [1 .. n -> Int]
    BY <2>1
  <2> HIDE DEF kept
  <2> QED
    BY <1>1, <2>2
<1>7. back \in Seq(Int) /\ Len(back) = Cardinality(S)
  <2> DEFINE c == Cardinality(S)
  <2> HIDE DEF S
  <2>1. c \in Nat /\ back \in [1 .. c -> Int]
    BY <1>4, <1>5, FS_CardinalityType
  <2> HIDE DEF c
  <2>2. back \in Seq(Int) /\ Len(back) = c
    BY <2>1
  <2> QED
    BY <2>2 DEF c
<1> HIDE DEF kept, S, n, top
<1>10. /\ DOMAIN found = 1 .. Len(kept) + Len(back)
       /\ \A k \in 1 .. Len(kept) + Len(back) :
            found[k] = IF k <= Len(kept) THEN kept[k] ELSE back[k - Len(kept)]
  <2>1. found \in Seq(Int) /\ Len(found) = Len(kept) + Len(back)
    BY <1>5, <1>6, <1>7, ConcatProperties
  <2>2. DOMAIN found = 1 .. Len(found)
    BY <2>1
  <2> QED
    BY <1>5, <1>6, <1>7, <2>1, <2>2, ConcatProperties
<1>8. CASE (j - i + 1) % step = 0
  <2> DEFINE m == j - i + 1
             q == m \div step
  <2>1. m \in Nat /\ m >= 1 /\ m <= n * step
    BY <1>1, <1>2 DEF top
  <2>2. q \in Nat /\ m = q * step
    <3> HIDE DEF m
    <3>1. m % step = 0
      BY <1>8 DEF m
    <3> QED
      BY <2>1, <3>1
  <2> HIDE DEF q
  <2>3. q >= 1 /\ q <= n
    <3> HIDE DEF m
    <3>1. q # 0
      BY <2>1, <2>2
    <3>2. ASSUME q >= n + 1 PROVE FALSE
      <4>1. q * step >= (n + 1) * step
        BY <1>1, <2>2, <3>2
      <4>2. (n + 1) * step = n * step + step
        BY <1>1
      <4> QED
        BY <1>1, <2>1, <2>2, <4>1, <4>2
    <3> QED
      BY <1>1, <2>2, <3>1, <3>2
  <2>4. kept[q] = j
    <3>1. kept[q] = Probe(i, step, q - 1)
      BY <1>1, <2>2, <2>3 DEF kept
    <3>2. (q - 1) * step = q * step - step
      BY <2>2
    <3> QED
      BY <1>2, <2>2, <3>1, <3>2 DEF Probe
  <2>5. q \in DOMAIN found /\ found[q] = kept[q]
    <3>1. q <= Len(kept) /\ q \in 1 .. Len(kept) + Len(back)
      BY <1>1, <1>6, <1>7, <2>2, <2>3
    <3> QED
      BY <1>10, <3>1
  <2> QED
    BY <2>4, <2>5
<1>9. CASE (j - i + 1) % step # 0
  <2>1. j \in S
    BY <1>2, <1>3, <1>9
  <2>2. PICK k \in DOMAIN back : back[k] = j
    <3>1. back \in [1 .. Cardinality(S) -> S] /\ Decreasing(back)
      BY <1>5
    <3>2. \A T \in SUBSET Int : IsFiniteSet(T) =>
            \A f \in [1 .. Cardinality(T) -> T] : Decreasing(f) =>
              \A x \in T : \E k \in DOMAIN f : f[k] = x
      BY DecreasingHasAll
    <3>3. \A f \in [1 .. Cardinality(S) -> S] : Decreasing(f) =>
            \A x \in S : \E k \in DOMAIN f : f[k] = x
      BY <1>4, <3>2
    <3>4. \A x \in S : \E k \in DOMAIN back : back[k] = x
      BY <3>1, <3>3
    <3> QED
      BY <2>1, <3>4
  <2>3. Len(kept) + k \in DOMAIN found /\ found[Len(kept) + k] = back[k]
    <3>1. k \in 1 .. Len(back)
      BY <1>7, <2>2
    <3>2. Len(kept) + k \in 1 .. Len(kept) + Len(back) /\ ~(Len(kept) + k <= Len(kept))
      BY <1>1, <1>6, <1>7, <3>1
    <3>3. Len(kept) + k - Len(kept) = k
      BY <1>1, <1>6, <1>7, <3>1
    <3> QED
      BY <1>10, <3>2, <3>3
  <2> QED
    BY <2>2, <2>3
<1> QED
  BY <1>8, <1>9

-----------------------------------------------------------------------------
\* Types

\* The parts of the state that a step of a request may replace.
LEMMA Fields ==
    ASSUME TypeOK, NEW r \in Request
    PROVE  /\ req[r].at \in Stage /\ req[r].seen \in Doc
           /\ req[r].todo \in Seq(Address) /\ req[r].sent \subseteq Address
           /\ req[r].pass \in Nat /\ req[r].error \in BOOLEAN
           /\ req[r].got \subseteq Address
           /\ W(r) \in Wallet /\ Op[r].copayer \in Copayer /\ docs[W(r)] \in Doc
<1>1. req[r] \in Req
  BY DEF TypeOK
<1>2. W(r) \in Wallet /\ Op[r].copayer \in Copayer
  BY RequestAssumption DEF W
<1>3. docs[W(r)] \in Doc
  BY <1>2 DEF TypeOK
<1> QED
  BY <1>1, <1>2, <1>3 DEF Req

\* A request goes on, with what it has
LEMMA GoToReq ==
    ASSUME TypeOK, NEW r \in Request, NEW stage \in Stage, GoTo(r, stage)
    PROVE  /\ req' \in [Request -> Req]
           /\ req'[r].at = stage /\ req'[r].seen = req[r].seen
           /\ req'[r].todo = req[r].todo
           /\ \A s \in Request \ {r} : req'[s] = req[s]
BY DEF GoTo, TypeOK, Req

\* or with another copy of its wallet.
LEMMA GoWithReq ==
    ASSUME TypeOK, NEW r \in Request, NEW stage \in Stage, NEW d \in Doc,
           GoWith(r, stage, d)
    PROVE  /\ req' \in [Request -> Req]
           /\ req'[r].at = stage /\ req'[r].seen = d /\ req'[r].todo = req[r].todo
           /\ \A s \in Request \ {r} : req'[s] = req[s]
BY DEF GoWith, TypeOK, Req

\* One that has failed keeps its copy too (_store, scan).
LEMMA FailReq ==
    ASSUME TypeOK, NEW r \in Request, NEW stage \in Stage,
           req' = [req EXCEPT ![r].at = stage, ![r].error = TRUE]
    PROVE  /\ req' \in [Request -> Req]
           /\ req'[r].at = stage /\ req'[r].seen = req[r].seen
           /\ \A s \in Request \ {r} : req'[s] = req[s]
<1> DEFINE q == [req[r] EXCEPT !.at = stage]
           p == [q EXCEPT !.error = TRUE]
<1>1. req[r] \in Req
  BY DEF TypeOK
<1>2. q \in Req /\ q.at = stage /\ q.seen = req[r].seen
  BY <1>1 DEF Req
<1>3. req' = [req EXCEPT ![r] = p]
  BY Zenon
<1> HIDE DEF q
<1>4. p \in Req /\ p.at = q.at /\ p.seen = q.seen
  BY <1>2 DEF Req
<1> HIDE DEF p
<1> QED
  BY <1>2, <1>3, <1>4 DEF TypeOK

\* What it stores replaces the document of its wallet only.
LEMMA StoreDocs ==
    ASSUME TypeOK, NEW r \in Request, NEW d \in Doc, StoreDoc(r, d)
    PROVE  /\ docs' \in [Wallet -> Doc]
           /\ docs'[W(r)] = d
           /\ \A w \in Wallet \ {W(r)} : docs'[w] = docs[w]
BY Fields DEF StoreDoc, TypeOK

\* Copies of a wallet, with one field changed.
LEMMA DocTypes ==
    ASSUME NEW d \in Doc
    PROVE  /\ NewDoc \in Doc /\ NoDoc \in Doc /\ NoDoc.copayers = {} /\ ~NoDoc.exists
           /\ NewDoc.copayers = {} /\ NewDoc.exists = TRUE
           /\ \A c \in Copayer :
                LET e == [d EXCEPT !.copayers = @ \cup {c}]
                IN  e \in Doc /\ e.copayers = d.copayers \cup {c} /\ e.exists = d.exists
           /\ \A c \in Copayer, r \in Request :
                LET e == [d EXCEPT !.keys[c] = @ \cup {r}]
                IN  e \in Doc /\ e.copayers = d.copayers /\ e.exists = d.exists
           /\ \A i \in Nat :
                LET e == [d EXCEPT !.index = i]
                IN  e \in Doc /\ e.copayers = d.copayers /\ e.exists = d.exists
           /\ \A status \in {"none", "running", "success", "error"} :
                LET e == [d EXCEPT !.scan = status]
                IN  e \in Doc /\ e.copayers = d.copayers /\ e.exists = d.exists
           /\ \A b \in {TRUE, FALSE} :
                LET e == [d EXCEPT !.registered = b]
                IN  e \in Doc /\ e.copayers = d.copayers /\ e.exists = d.exists
<1>1. /\ NewDoc \in Doc /\ NoDoc \in Doc /\ NoDoc.copayers = {} /\ ~NoDoc.exists
      /\ NewDoc.copayers = {} /\ NewDoc.exists = TRUE
  BY DEF NewDoc, NoDoc, Doc
<1>2. ASSUME NEW c \in Copayer
      PROVE  LET e == [d EXCEPT !.copayers = @ \cup {c}]
             IN  e \in Doc /\ e.copayers = d.copayers \cup {c} /\ e.exists = d.exists
  BY DEF Doc
<1>3. ASSUME NEW c \in Copayer, NEW r \in Request
      PROVE  LET e == [d EXCEPT !.keys[c] = @ \cup {r}]
             IN  e \in Doc /\ e.copayers = d.copayers /\ e.exists = d.exists
  BY DEF Doc
<1>4. ASSUME NEW i \in Nat
      PROVE  LET e == [d EXCEPT !.index = i]
             IN  e \in Doc /\ e.copayers = d.copayers /\ e.exists = d.exists
  BY DEF Doc
<1>5. ASSUME NEW status \in {"none", "running", "success", "error"}
      PROVE  LET e == [d EXCEPT !.scan = status]
             IN  e \in Doc /\ e.copayers = d.copayers /\ e.exists = d.exists
  BY DEF Doc
<1>6. ASSUME NEW b \in {TRUE, FALSE}
      PROVE  LET e == [d EXCEPT !.registered = b]
             IN  e \in Doc /\ e.copayers = d.copayers /\ e.exists = d.exists
  BY DEF Doc
<1> QED
  BY <1>1, <1>2, <1>3, <1>4, <1>5, <1>6

\* An address of a wallet with this copy.
LEMMA AddressTypes ==
    ASSUME NEW w \in Wallet, NEW d \in Doc, NEW i \in Nat
    PROVE  /\ AddressOf(w, d, i) \in Address
           /\ AddressOf(w, d, i).wallet = w /\ AddressOf(w, d, i).ring = d.copayers
BY DEF AddressOf, Address, Doc

\* The addresses that a pass of a scan is to store.
Found(r, indexes) ==
    [k \in DOMAIN indexes |-> AddressOf(W(r), req[r].seen, indexes[k])]

\* They are addresses (scanBranch).
LEMMA FoundTypes ==
    ASSUME TypeOK, NEW r \in Request, NEW indexes \in Seq(Nat)
    PROVE  Found(r, indexes) \in Seq(Address)
<1>1. W(r) \in Wallet /\ req[r].seen \in Doc
  BY Fields
<1>2. \A i \in Nat : AddressOf(W(r), req[r].seen, i) \in Address
  BY <1>1, AddressTypes
<1>3. DOMAIN indexes = 1 .. Len(indexes) /\ \A k \in DOMAIN indexes : indexes[k] \in Nat
  OBVIOUS
<1>4. Found(r, indexes) \in [1 .. Len(indexes) -> Address]
  BY <1>2, <1>3 DEF Found
<1>5. Len(indexes) \in Nat
  OBVIOUS
<1> QED
  BY <1>4, <1>5

\* A pass of a scan with success: what it found, and the copy it goes on with
\* (scanBranch, _runScan).
LEMMA ScanBranchOK ==
    ASSUME TypeOK, NEW r \in Request, ScanBranch(r)
    PROVE  \/ /\ req'[r].at = "insert" /\ req' \in [Request -> Req]
              /\ req'[r].seen.copayers = req[r].seen.copayers
              /\ req'[r].seen.exists = req[r].seen.exists
              /\ \A k \in DOMAIN req'[r].todo :
                   /\ req'[r].todo[k].wallet = W(r)
                   /\ req'[r].todo[k].ring = req[r].seen.copayers
              /\ \A i \in 0 .. req'[r].seen.index - 1 :
                   \/ i < req[r].seen.index
                   \/ \E k \in DOMAIN req'[r].todo :
                        req'[r].todo[k] = AddressOf(W(r), req[r].seen, i)
              /\ \A s \in Request \ {r} : req'[s] = req[s]
           \/ /\ req'[r].at = "scan done" /\ req' \in [Request -> Req]
              /\ req'[r].seen = req[r].seen
              /\ \A s \in Request \ {r} : req'[s] = req[s]
<1> DEFINE d == req[r].seen
           step == Steps[req[r].pass + 1]
           index == d.index + Hits(d.index, step) * step
           e == [d EXCEPT !.index = index]
<1>1. d \in Doc /\ d.index \in Nat /\ req[r] \in Req /\ req[r].pass + 1 \in Nat
  <2>1. d \in Doc /\ req[r].pass \in Nat
    BY Fields
  <2>2. d.index \in Nat
    BY <2>1 DEF Doc
  <2>3. req[r] \in Req
    BY DEF TypeOK
  <2> QED
    BY <2>1, <2>2, <2>3
<1>2. step \in Nat \ {0}
  <2>1. req[r].pass < Len(Steps)
    BY DEF ScanBranch
  <2>2. Steps \in Seq(Nat \ {0}) /\ Len(Steps) \in Nat
    BY ScanAssumption
  <2>3. req[r].pass + 1 \in 1 .. Len(Steps)
    <3>1. req[r].pass \in Nat
      BY Fields
    <3> QED
      BY <2>1, <2>2, <3>1
  <2> QED
    BY <2>2, <2>3
<1>3. index \in Nat /\ Hits(d.index, step) * step \in Nat
  <2>1. Hits(d.index, step) \in Nat
    BY <1>1, <1>2, HitsTypes
  <2> HIDE DEF d, step
  <2>2. Hits(d.index, step) * step \in Nat
    BY <1>2, <2>1
  <2> QED
    BY <1>1, <2>2
<1>4. e \in Doc /\ e.copayers = d.copayers /\ e.exists = d.exists /\ e.index = index
  <2> HIDE DEF index
  <2>1. e.index = index
    BY <1>1 DEF Doc
  <2> QED
    BY <1>1, <1>3, <2>1, DocTypes
<1>5. \/ \E found \in PassIndexes(d.index, step) :
           req' = [req EXCEPT ![r].at = "insert", ![r].pass = @ + 1,
                              ![r].todo = Found(r, found), ![r].seen = e]
      \/ req' = [req EXCEPT ![r].at = "scan done", ![r].error = TRUE]
  BY DEF ScanBranch, Found
<1>6. "insert" \in Stage /\ "scan done" \in Stage
  BY DEF Stage
<1>9. index = d.index + Hits(d.index, step) * step
  OBVIOUS
<1> HIDE DEF e, step, index
<1>7. CASE \E found \in PassIndexes(d.index, step) :
             req' = [req EXCEPT ![r].at = "insert", ![r].pass = @ + 1,
                                ![r].todo = Found(r, found), ![r].seen = e]
  <2>1. PICK found \in PassIndexes(d.index, step) :
          req' = [req EXCEPT ![r].at = "insert", ![r].pass = @ + 1,
                             ![r].todo = Found(r, found), ![r].seen = e]
    BY <1>7
  <2>2. found \in Seq(Nat)
    BY <1>1, <1>2, <2>1, PassTypes
  <2>3. Found(r, found) \in Seq(Address)
    BY <2>2, FoundTypes
  <2>4. \A k \in DOMAIN Found(r, found) :
          /\ Found(r, found)[k].wallet = W(r)
          /\ Found(r, found)[k].ring = d.copayers
    BY <2>2, Fields, AddressTypes DEF Found
  <2>5. req' \in [Request -> Req]
    BY <1>1, <1>4, <1>6, <2>1, <2>3 DEF TypeOK, Req
  <2>6. /\ req'[r].at = "insert" /\ req'[r].seen = e /\ req'[r].todo = Found(r, found)
        /\ \A s \in Request \ {r} : req'[s] = req[s]
    BY <2>1 DEF TypeOK, Req
  <2>7. ASSUME NEW i \in 0 .. index - 1, ~(i < d.index)
        PROVE  \E k \in DOMAIN Found(r, found) : Found(r, found)[k] = AddressOf(W(r), d, i)
    <3>1. i \in d.index .. index - 1
      BY <1>1, <1>3, <2>7
    <3>2. PICK k \in DOMAIN found : found[k] = i
      <4>1. i \in d.index .. d.index + Hits(d.index, step) * step - 1
        BY <1>1, <1>3, <1>9, <3>1
      <4>2. d.index \in Nat /\ step \in Nat \ {0} /\ found \in PassIndexes(d.index, step)
        BY <1>1, <1>2, <2>1
      <4> DEFINE n == d.index
      <4> HIDE DEF n, step
      <4> QED
        BY <4>1, <4>2, PassCovers DEF n
    <3> QED
      BY <3>2 DEF Found
  <2> QED
    BY <1>4, <2>4, <2>5, <2>6, <2>7
<1>8. CASE req' = [req EXCEPT ![r].at = "scan done", ![r].error = TRUE]
  BY <1>6, <1>8, FailReq
<1> QED
  BY <1>5, <1>7, <1>8

\* Every step of a request keeps the type of the requests, and touches no
\* other request.
LEMMA RequestsStep ==
    ASSUME TypeOK, NEW r \in Request, Step(r)
    PROVE  /\ req' \in [Request -> Req]
           /\ \A s \in Request \ {r} : req'[s] = req[s]
<1> DEFINE Goal == /\ req' \in [Request -> Req]
                   /\ \A s \in Request \ {r} : req'[s] = req[s]
<1>1. ASSUME NEW stage \in Stage, GoTo(r, stage) PROVE Goal
  BY <1>1, GoToReq
<1>2. ASSUME NEW stage \in Stage, NEW d \in Doc, GoWith(r, stage, d) PROVE Goal
  BY <1>2, GoWithReq
<1>4. docs[W(r)] \in Doc /\ req[r].seen \in Doc /\ Op[r].copayer \in Copayer
  BY Fields
<1>5. CASE Acquire(r)
  <2>1. (IF Is(r, "scan") THEN "start scan" ELSE "read") \in Stage
    BY DEF Stage
  <2> QED
    BY <1>1, <1>5, <2>1 DEF Acquire
<1>6. CASE Busy(r)
  <2>1. "refused" \in Stage
    BY DEF Stage
  <2> QED
    BY <1>1, <1>6, <2>1 DEF Busy
<1>7. CASE Release(r)
  <2>1. "done" \in Stage
    BY DEF Stage
  <2> QED
    BY <1>1, <1>7, <2>1 DEF Release
<1>8. CASE CreateFetch(r)
  <2>1. (IF docs[W(r)].exists THEN "refused" ELSE "store new") \in Stage
    BY DEF Stage
  <2> QED
    BY <1>1, <1>8, <2>1 DEF CreateFetch
<1>9. CASE CreateStore(r)
  <2>1. "done" \in Stage
    BY DEF Stage
  <2> QED
    BY <1>1, <1>9, <2>1 DEF CreateStore
<1>10. CASE JoinStart(r)
  <2>1. "locking" \in Stage
    BY DEF Stage
  <2> QED
    BY <1>1, <1>10, <2>1 DEF JoinStart
<1>11. CASE DeleteLookup(r)
  <2>1. "insert lookup" \in Stage
    BY DEF Stage
  <2> QED
    BY <1>1, <1>11, <2>1 DEF DeleteLookup
<1>12. CASE InsertLookup(r)
  <2>1. "store wallet and lookup" \in Stage
    BY DEF Stage
  <2> QED
    BY <1>1, <1>12, <2>1 DEF InsertLookup
<1>13. CASE StoreAfterLookup(r)
  <2>1. (IF Is(r, "join") THEN "release" ELSE "done") \in Stage
    BY DEF Stage
  <2> QED
    BY <1>1, <1>13, <2>1 DEF StoreAfterLookup
<1>14. CASE JoinRead(r)
  <2>1. "release" \in Stage /\ "lookup" \in Stage
    BY DEF Stage
  <2> QED
    BY <1>1, <1>2, <1>14, <2>1, <1>4 DEF JoinRead
<1>15. CASE JoinLookup(r)
  <2>1. "release" \in Stage /\ "delete lookup" \in Stage
    BY DEF Stage
  <2> DEFINE e == [req[r].seen EXCEPT !.copayers = @ \cup {Op[r].copayer}]
  <2>2. e \in Doc
    BY <1>4, DocTypes
  <2>3. GoTo(r, "release") \/ GoWith(r, "delete lookup", e)
    BY <1>15 DEF JoinLookup
  <2> HIDE DEF e
  <2> QED
    BY <1>1, <1>2, <2>1, <2>2, <2>3
<1>16. CASE AccessLookup(r)
  <2>1. PICK e \in lookup :
          GoTo(r, IF 1 + Cardinality(e.keys) > MaxKeys THEN "refused" ELSE "access")
    BY <1>16 DEF AccessLookup
  <2>2. (IF 1 + Cardinality(e.keys) > MaxKeys THEN "refused" ELSE "access") \in Stage
    BY DEF Stage
  <2> QED
    BY <1>1, <2>1, <2>2
<1>17. CASE AccessRead(r)
  <2>1. "refused" \in Stage /\ "delete lookup" \in Stage
    BY DEF Stage
  <2> DEFINE e == [docs[W(r)] EXCEPT !.keys[Op[r].copayer] = @ \cup {r}]
  <2>2. e \in Doc
    BY <1>4, DocTypes
  <2>3. GoTo(r, "refused") \/ GoWith(r, "delete lookup", e)
    BY <1>17 DEF AccessRead
  <2> HIDE DEF e
  <2> QED
    BY <1>1, <1>2, <2>1, <2>2, <2>3
<1>18. CASE AddressStart(r)
  <2>1. "locking" \in Stage /\ "refused" \in Stage
    BY DEF Stage
  <2> QED
    BY <1>1, <1>18, <2>1 DEF AddressStart
<1>19. CASE AddressRead(r)
  <2> DEFINE d == docs[W(r)]
             e == [d EXCEPT !.index = d.index + 1]
             first == {a \in AddressesOf(W(r)) :
                         \A b \in AddressesOf(W(r)) : a.index <= b.index}
             todo == <<AddressOf(W(r), d, d.index)>>
  <2>1. first \in SUBSET Address
    BY DEF AddressesOf, TypeOK
  <2>2. d.index \in Nat /\ d.index + 1 \in Nat
    BY <1>4 DEF Doc
  <2>3. e \in Doc
    BY <1>4, <2>2, DocTypes
  <2>4. todo \in Seq(Address)
    BY <1>4, <2>2, Fields, AddressTypes
  <2>5. \/ GoTo(r, "release")
        \/ req' = [req EXCEPT ![r].at = "release", ![r].got = first]
        \/ req' = [req EXCEPT ![r].at = "insert", ![r].todo = todo, ![r].seen = e]
    BY <1>19, Zenon DEF AddressRead
  <2>6. "release" \in Stage /\ "insert" \in Stage
    BY DEF Stage
  <2> HIDE DEF d, e, first, todo
  <2>7. CASE GoTo(r, "release")
    BY <1>1, <2>6, <2>7
  <2>8. CASE req' = [req EXCEPT ![r].at = "release", ![r].got = first]
    BY <2>1, <2>6, <2>8 DEF TypeOK, Req, Goal
  <2>9. CASE req' = [req EXCEPT ![r].at = "insert", ![r].todo = todo, ![r].seen = e]
    <3>1. req[r] \in Req
      BY DEF TypeOK
    <3> DEFINE q == [req[r] EXCEPT !.at = "insert", !.todo = todo]
               p == [q EXCEPT !.seen = e]
    <3>2. q \in Req
      BY <2>4, <2>6, <3>1 DEF Req
    <3>3. req' = [req EXCEPT ![r] = p]
      BY <2>9, Zenon
    <3> HIDE DEF q
    <3>4. p \in Req
      BY <2>3, <3>2 DEF Req
    <3> HIDE DEF p
    <3> QED
      BY <3>3, <3>4 DEF TypeOK
  <2> QED
    BY <2>5, <2>7, <2>8, <2>9
<1>20. CASE InsertAddresses(r)
  <2>1. (IF req[r].todo = <<>> THEN "register" ELSE "store") \in Stage
    BY DEF Stage
  <2> QED
    BY <1>1, <1>20, <2>1 DEF InsertAddresses
<1>21. CASE MarkSynced(r)
  <2>1. AfterStore(r) \in Stage
    BY DEF Stage, AfterStore
  <2> QED
    BY <1>1, <1>21, <2>1 DEF MarkSynced
<1>22. CASE SyncStops(r)
  <2>1. AfterStore(r) \in Stage
    BY DEF Stage, AfterStore
  <2> QED
    BY <1>1, <1>22, <2>1 DEF SyncStops
<1>23. CASE Unmark(r)
  <2>1. "scan read" \in Stage
    BY DEF Stage
  <2> QED
    BY <1>1, <1>23, <2>1 DEF Unmark
<1>24. CASE StoreFails(r)
  <2>1. AfterFailure(r) \in Stage
    BY DEF Stage, AfterFailure
  <2> QED
    BY <1>24, <2>1, FailReq DEF StoreFails, Goal
<1>25. CASE StoreWallet(r)
  <2> DEFINE got == IF Is(r, "scan") THEN {} ELSE {req[r].todo[k] : k \in DOMAIN req[r].todo}
  <2>1. got \in SUBSET Address
    BY Fields
  <2>2. req' = [req EXCEPT ![r].at = "register", ![r].got = got]
    BY <1>25 DEF StoreWallet
  <2>3. "register" \in Stage
    BY DEF Stage
  <2> HIDE DEF got
  <2> QED
    BY <2>1, <2>2, <2>3 DEF TypeOK, Req, Goal
<1>26. CASE Register(r)
  <2>1. "add" \in Stage
    BY DEF Stage
  <2> DEFINE e == [req[r].seen EXCEPT !.registered = TRUE]
  <2>2. e \in Doc
    BY <1>4, DocTypes
  <2>3. GoTo(r, "add") \/ GoWith(r, "add", e)
    BY <1>26 DEF Register
  <2> HIDE DEF e
  <2> QED
    BY <1>1, <1>2, <2>1, <2>2, <2>3
<1>27. CASE AddAddresses(r)
  <2> DEFINE new == AddressesOf(W(r)) \ marked
  <2>1. new \in SUBSET Address
    BY DEF AddressesOf, TypeOK
  <2>2. req' = [req EXCEPT ![r].at = "mark", ![r].sent = new]
    BY <1>27 DEF AddAddresses
  <2>3. "mark" \in Stage
    BY DEF Stage
  <2> HIDE DEF new
  <2> QED
    BY <2>1, <2>2, <2>3 DEF TypeOK, Req, Goal
<1>28. CASE ScanStart(r)
  <2>1. "refused" \in Stage /\ "unmark" \in Stage
    BY DEF Stage
  <2> QED
    BY <1>1, <1>28, <2>1 DEF ScanStart
<1>29. CASE Crash(r)
  BY <1>29 DEF Crash, TypeOK, Goal
<1>30. CASE ScanRead(r)
  <2>1. "locking" \in Stage
    BY DEF Stage
  <2> QED
    BY <1>2, <1>30, <2>1, <1>4 DEF ScanRead
<1>31. CASE ScanRunning(r)
  <2>1. "scan" \in Stage
    BY DEF Stage
  <2> DEFINE e == [req[r].seen EXCEPT !.scan = "running"]
  <2>2. e \in Doc
    BY <1>4, DocTypes
  <2>3. GoWith(r, "scan", e)
    BY <1>31 DEF ScanRunning
  <2> HIDE DEF e
  <2> QED
    BY <1>2, <2>1, <2>2, <2>3
<1>32. CASE ScanBranch(r)
  BY <1>32, ScanBranchOK DEF Goal
<1>33. CASE ScanComplete(r)
  <2>1. "store scan" \in Stage
    BY DEF Stage
  <2> DEFINE status == IF req[r].error THEN "error" ELSE "success"
             e == [docs[W(r)] EXCEPT !.scan = status]
  <2>2. e \in Doc
    BY <1>4, DocTypes
  <2>3. GoWith(r, "store scan", e)
    BY <1>33 DEF ScanComplete
  <2> HIDE DEF e
  <2> QED
    BY <1>2, <2>1, <2>2, <2>3
<1>34. CASE ScanEnd(r)
  <2>1. "release" \in Stage
    BY DEF Stage
  <2> QED
    BY <1>1, <1>34, <2>1 DEF ScanEnd
<1>35. CASE RewriteFails(r)
  <2>1. (IF Is(r, "join") THEN "release" ELSE "refused") \in Stage
    BY DEF Stage
  <2> QED
    BY <1>1, <1>35, <2>1 DEF RewriteFails
<1>36. CASE CallFails(r)
  <2>1. "release" \in Stage /\ "refused" \in Stage
    BY DEF Stage
  <2> QED
    BY <1>1, <1>36, <2>1 DEF CallFails
<1> QED
  BY <1>5, <1>6, <1>7, <1>8, <1>9, <1>10, <1>11, <1>12, <1>13, <1>14,
     <1>15, <1>16, <1>17, <1>18, <1>19, <1>20, <1>21, <1>22, <1>23, <1>24,
     <1>25, <1>26, <1>27, <1>28, <1>29, <1>30, <1>31, <1>32, <1>33, <1>34,
     <1>35, <1>36 DEF Step, Goal

\* addAccess adds a key to those of a copayer.
LEMMA KeyTypes ==
    ASSUME NEW d \in Doc, NEW c \in Copayer, NEW r \in Request
    PROVE  /\ [d EXCEPT !.keys[c] = @ \cup {r}] \in Doc
           /\ [d EXCEPT !.keys[c] = @ \cup {r}].exists = d.exists
           /\ [d EXCEPT !.keys[c] = @ \cup {r}].copayers = d.copayers
BY DEF Doc

-----------------------------------------------------------------------------
\* Documents

\* A complete wallet has a document: N is not zero.
LEMMA CompleteExists ==
    ASSUME TypeOK, DocsOK, NEW w \in Wallet, IsComplete(docs[w])
    PROVE  docs[w].exists
<1>1. CASE docs[w].copayers = {}
  BY <1>1, FS_EmptySet, WalletAssumption DEF IsComplete
<1> QED
  BY <1>1 DEF DocsOK

\* What a step may make of the document of its wallet: it keeps the copayers,
\* createWallet stores the first one, or joinWallet adds a copayer to one that
\* is not complete.
Kept(r) == /\ docs'[W(r)].copayers = docs[W(r)].copayers
           /\ docs'[W(r)].exists = docs[W(r)].exists
Created(r) == /\ Is(r, "create") /\ ~docs[W(r)].exists
              /\ docs'[W(r)].exists /\ docs'[W(r)].copayers = {}
Joined(r) == /\ Is(r, "join") /\ req[r].at = "store wallet and lookup"
             /\ docs[W(r)].exists /\ docs'[W(r)].exists /\ ~IsComplete(docs[W(r)])
             /\ docs[W(r)].copayers \subseteq docs'[W(r)].copayers

\* No step touches the document of another wallet, nor loses a copayer
\* (storeWallet replaces the document whole).
LEMMA DocsStep ==
    ASSUME IInv, NEW r \in Request, Step(r)
    PROVE  /\ docs' \in [Wallet -> Doc]
           /\ \A w \in Wallet \ {W(r)} : docs'[w] = docs[w]
           /\ Kept(r) \/ Created(r) \/ Joined(r)
<1> USE DEF IInv
<1> DEFINE d == docs[W(r)]
           copy == req[r].seen
<1>1. CASE UNCHANGED docs
  BY <1>1 DEF TypeOK, Kept
<1>2. d \in Doc /\ copy \in Doc /\ W(r) \in Wallet
  BY Fields
<1>3. ASSUME NEW e \in Doc, StoreDoc(r, e), r \notin down,
             e.copayers = copy.copayers, e.exists = copy.exists, CopyOfComplete(r)
      PROVE  /\ docs' \in [Wallet -> Doc]
             /\ \A w \in Wallet \ {W(r)} : docs'[w] = docs[w]
             /\ Kept(r)
  <2>1. copy.exists /\ IsComplete(d) /\ copy.copayers = d.copayers
    BY <1>3 DEF RequestsOK, RequestOK
  <2>2. d.exists
    BY <1>2, <2>1, CompleteExists
  <2>3. d.exists \in BOOLEAN /\ copy.exists \in BOOLEAN
    BY <1>2 DEF Doc
  <2> QED
    BY <1>3, <2>1, <2>2, <2>3, StoreDocs DEF Kept
<1>4. CASE CreateStore(r)
  <2>1. StoreDoc(r, NewDoc) /\ NewDoc \in Doc
    BY <1>2, <1>4, DocTypes DEF CreateStore
  <2>2. ~d.exists /\ Is(r, "create")
    BY <1>4
    DEF CreateStore, At, RequestsOK, RequestOK, OnCourse, Is, Ended, Rewrite, Storing
  <2>3. NewDoc.exists = TRUE /\ NewDoc.copayers = {}
    BY <1>2, DocTypes
  <2>4. docs'[W(r)] = NewDoc
    BY <2>1, StoreDocs
  <2> QED
    BY <2>1, <2>2, <2>3, <2>4, StoreDocs DEF Created
<1>5. ASSUME At(r, "store wallet and lookup"), StoreDoc(r, copy)
      PROVE  /\ docs' \in [Wallet -> Doc]
             /\ \A w \in Wallet \ {W(r)} : docs'[w] = docs[w]
             /\ Kept(r) \/ Joined(r)
  <2>1. r \notin down /\ req[r].at = "store wallet and lookup" /\ StoreDoc(r, copy)
    BY <1>5 DEF At
  <2>2. RequestOK(r)
    BY <2>1 DEF RequestsOK
  <2>3. CASE Is(r, "join")
    <3>1. d.exists /\ copy.exists /\ ~IsComplete(d)
          /\ d.copayers \subseteq copy.copayers
      BY <2>1, <2>2, <2>3 DEF RequestOK, Rewrite
    <3>2. docs'[W(r)] = copy
      BY <1>2, <2>1, StoreDocs
    <3> QED
      BY <1>2, <2>1, <2>3, <3>1, <3>2, StoreDocs DEF Joined
  <2>4. CASE ~Is(r, "join")
    <3>1. CopyOfComplete(r)
      BY <2>1, <2>2, <2>4
      DEF RequestOK, OnCourse, CopyOfComplete, Rewrite, Ended, Storing
    <3> QED
      BY <1>2, <1>3, <2>1, <3>1
  <2> QED
    BY <2>3, <2>4
<1>6. CASE StoreWallet(r)
  <2>1. r \notin down /\ req[r].at = "store" /\ StoreDoc(r, copy)
    BY <1>6 DEF StoreWallet, At
  <2>2. CopyOfComplete(r)
    BY <2>1
    DEF RequestsOK, RequestOK, OnCourse, CopyOfComplete, Rewrite, Ended, Storing
  <2> QED
    BY <1>2, <1>3, <2>1, <2>2
<1>7. CASE Register(r)
  <2> DEFINE e == [copy EXCEPT !.registered = TRUE]
  <2>1. r \notin down /\ req[r].at = "register" /\ (UNCHANGED docs \/ StoreDoc(r, e))
    BY <1>7 DEF Register, At
  <2>2. CopyOfComplete(r)
    BY <2>1
    DEF RequestsOK, RequestOK, OnCourse, CopyOfComplete, Rewrite, Ended, Storing
  <2>3. e \in Doc /\ e.copayers = copy.copayers /\ e.exists = copy.exists
    BY <1>2, DocTypes
  <2> HIDE DEF e
  <2> QED
    BY <1>1, <1>3, <2>1, <2>2, <2>3
<1>8. CASE ScanStart(r)
  <2> DEFINE e == [d EXCEPT !.registered = FALSE]
  <2>1. UNCHANGED docs \/ StoreDoc(r, e)
    BY <1>8 DEF ScanStart
  <2>2. e \in Doc /\ e.copayers = d.copayers /\ e.exists = d.exists
    BY <1>2, DocTypes
  <2> HIDE DEF e
  <2>3. CASE StoreDoc(r, e)
    BY <2>2, <2>3, StoreDocs DEF Kept
  <2> QED
    BY <1>1, <2>1, <2>3
<1>9. CASE ScanRunning(r)
  <2> DEFINE e == [copy EXCEPT !.scan = "running"]
  <2>1. r \notin down /\ req[r].at = "start scan" /\ StoreDoc(r, e)
    BY <1>9 DEF ScanRunning, At
  <2>2. CopyOfComplete(r)
    BY <2>1
    DEF RequestsOK, RequestOK, OnCourse, CopyOfComplete, Rewrite, Ended, Storing
  <2>3. e \in Doc /\ e.copayers = copy.copayers /\ e.exists = copy.exists
    BY <1>2, DocTypes
  <2> HIDE DEF e
  <2> QED
    BY <1>3, <2>1, <2>2, <2>3
<1>10. CASE ScanEnd(r)
  <2>1. r \notin down /\ req[r].at = "store scan" /\ StoreDoc(r, copy)
    BY <1>10 DEF ScanEnd, At
  <2>2. CopyOfComplete(r)
    BY <2>1
    DEF RequestsOK, RequestOK, OnCourse, CopyOfComplete, Rewrite, Ended, Storing
  <2> QED
    BY <1>2, <1>3, <2>1, <2>2
<1>11. CASE StoreAfterLookup(r) \/ RewriteFails(r)
  BY <1>1, <1>5, <1>11 DEF StoreAfterLookup, RewriteFails
<1> QED
  BY <1>1, <1>4, <1>6, <1>7, <1>8, <1>9, <1>10, <1>11
  DEF Step, CreateFetch, JoinStart, JoinRead, JoinLookup, AccessLookup, AccessRead,
      DeleteLookup, InsertLookup, AddressStart, AddressRead, InsertAddresses,
      StoreFails, AddAddresses, MarkSynced, SyncStops, Unmark, ScanRead, ScanBranch,
      ScanComplete, Acquire, Busy, Release, CallFails, Crash

-----------------------------------------------------------------------------
\* Locks and collections

\* A step changes the lock of its own wallet only, and takes it from nobody
\* else (the wallet lock: acquire finds it free, release gives back one's own).
LEMMA LockStep ==
    ASSUME IInv, NEW r \in Request, Step(r)
    PROVE  /\ lock' \in [Wallet -> Request \cup {NoRequest}]
           /\ \A w \in Wallet, s \in Request \ {r} : lock[w] = s => lock'[w] = s
           /\ down \subseteq down' /\ down' \subseteq Request
<1> USE DEF IInv
<1>1. CASE UNCHANGED lock
  <2>1. down \subseteq down' /\ down' \subseteq Request
    BY RequestAssumption DEF TypeOK, Step, Acquire, Busy, Release, Crash,
       CreateFetch, CreateStore, JoinStart, JoinRead, JoinLookup, AccessLookup,
       AccessRead, DeleteLookup, InsertLookup, StoreAfterLookup, RewriteFails,
       AddressStart, AddressRead, InsertAddresses, StoreWallet, StoreFails, Register,
       AddAddresses, MarkSynced, SyncStops, ScanStart, Unmark, ScanRead, ScanRunning,
       ScanBranch, ScanComplete, ScanEnd, CallFails
  <2> QED
    BY <1>1, <2>1 DEF TypeOK
<1>2. CASE Acquire(r)
  BY <1>2, Fields, RequestAssumption DEF Acquire, TypeOK
<1>3. CASE Release(r)
  <2>1. r \notin down /\ req[r].at = "release"
    BY <1>3 DEF Release, At
  <2>2. lock[W(r)] = r
    BY <2>1 DEF RequestsOK, RequestOK, InTask
  <2> QED
    BY <1>3, <2>2, Fields DEF Release, TypeOK
<1> QED
  BY <1>1, <1>2, <1>3
  DEF Step, Busy, Crash, CreateFetch, CreateStore, JoinStart, JoinRead, JoinLookup,
      AccessLookup, AccessRead, DeleteLookup, InsertLookup, StoreAfterLookup,
      RewriteFails, AddressStart, AddressRead, InsertAddresses, StoreWallet, StoreFails,
      Register, AddAddresses, MarkSynced, SyncStops, ScanStart, Unmark, ScanRead,
      ScanRunning, ScanBranch, ScanComplete, ScanEnd, CallFails

\* The entries of a wallet in the lookup are typed (storeWalletAndUpdateCopayersLookup).
LEMMA EntriesTypes ==
    ASSUME NEW w \in Wallet, NEW d \in Doc
    PROVE  Entries(w, d) \subseteq LookupEntry
BY DEF Entries, LookupEntry, Doc

\* The collections that a step writes to keep their types.
LEMMA CollectionsStep ==
    ASSUME IInv, NEW r \in Request, Step(r)
    PROVE  /\ lookup' \subseteq LookupEntry
           /\ stored' \subseteq Address /\ marked' \subseteq Address
           /\ known' \subseteq Address /\ dropped' \subseteq Address
<1> USE DEF IInv
<1>1. CASE DeleteLookup(r)
  BY <1>1 DEF DeleteLookup, dbAddresses, TypeOK
<1>2. CASE InsertLookup(r)
  <2>1. Entries(W(r), req[r].seen) \subseteq LookupEntry
    BY Fields, EntriesTypes
  <2> QED
    BY <1>2, <2>1 DEF InsertLookup, dbAddresses, TypeOK
<1>3. CASE InsertAddresses(r)
  <2> DEFINE todo == req[r].todo
  <2>1. \A k \in DOMAIN todo : todo[k] \in Address
    BY Fields
  <2>2. Inserted(todo) \subseteq DOMAIN todo
    BY DEF Inserted
  <2> QED
    BY <1>3, <2>1, <2>2 DEF InsertAddresses, TypeOK
<1>4. CASE AddAddresses(r)
  BY <1>4 DEF AddAddresses, AddressesOf, TypeOK
<1>5. CASE MarkSynced(r)
  BY <1>5, Fields DEF MarkSynced, TypeOK
<1>6. CASE Unmark(r)
  BY <1>6 DEF Unmark, TypeOK
<1>7. CASE UNCHANGED <<lookup, dbAddresses>>
  BY <1>7 DEF dbAddresses, TypeOK
<1>8. CASE RewriteFails(r)
  <2>1. lookup' \subseteq lookup \cup Entries(W(r), req[r].seen)
    BY <1>8 DEF RewriteFails
  <2>2. Entries(W(r), req[r].seen) \subseteq LookupEntry
    BY Fields, EntriesTypes
  <2> QED
    BY <1>8, <2>1, <2>2 DEF RewriteFails, dbAddresses, TypeOK
<1> QED
  BY <1>1, <1>2, <1>3, <1>4, <1>5, <1>6, <1>7, <1>8
  DEF Step, Busy, Crash, CreateFetch, CreateStore, JoinStart, JoinRead, JoinLookup,
      AccessLookup, AccessRead, StoreAfterLookup,
      AddressStart, AddressRead, StoreWallet, StoreFails, Register,
      SyncStops, ScanStart, ScanRead, ScanRunning, ScanBranch, ScanComplete, ScanEnd,
      Acquire, Release, CallFails, Crash

\* A step says of its own wallet only whether the lookup was rewritten in part
\* (storeWalletAndUpdateCopayersLookup).
LEMMA TornStep ==
    ASSUME IInv, NEW r \in Request, Step(r)
    PROVE  /\ torn' \subseteq Wallet
           /\ \A w : w # W(r) => (w \in torn' <=> w \in torn)
<1>1. W(r) \in Wallet /\ torn \subseteq Wallet
  BY Fields DEF IInv, TypeOK
<1>2. torn' \in {torn, torn \cup {W(r)}, torn \ {W(r)}}
  BY DEF Step, Acquire, Busy, Release, CallFails, Crash, CreateFetch, CreateStore,
     JoinStart, JoinRead, JoinLookup, AccessLookup, AccessRead, DeleteLookup,
     InsertLookup, StoreAfterLookup, RewriteFails, AddressStart, AddressRead,
     InsertAddresses, StoreWallet, StoreFails, Register, AddAddresses, MarkSynced,
     SyncStops, ScanStart, Unmark, ScanRead, ScanRunning, ScanBranch, ScanComplete,
     ScanEnd
<1> QED
  BY <1>1, <1>2

-----------------------------------------------------------------------------
\* What requests rely on

\* A request that does not move keeps what it relies on while the copayers of
\* its wallet stay and its lock is not taken from it.
LEMMA StaysOK ==
    ASSUME NEW s \in Request, RequestOK(s), req'[s] = req[s],
           docs'[W(s)].copayers = docs[W(s)].copayers,
           docs'[W(s)].exists = docs[W(s)].exists,
           InTask(s) => lock'[W(s)] = s
    PROVE  RequestOK(s)'
<1> DEFINE d == docs[W(s)]
           e == docs'[W(s)]
           q == req[s]
<1>1. e.copayers = d.copayers /\ e.exists = d.exists
      /\ (IsComplete(e) <=> IsComplete(d))
  BY DEF IsComplete
<1>2. /\ OnCourse(s)' /\ (InTask(s)' <=> InTask(s))
      /\ (CopyOfComplete(s)' <=> CopyOfComplete(s))
  BY DEF OnCourse, InTask, CopyOfComplete, RequestOK
<1>3. /\ q.at = "store new" => ~d.exists
      /\ q.at = "lookup" =>
           d.exists /\ q.seen.exists /\ ~IsComplete(d) /\ q.seen.copayers = d.copayers
      /\ Is(s, "join") /\ q.at \in Rewrite =>
           /\ d.exists /\ q.seen.exists /\ ~IsComplete(d)
           /\ d.copayers \subseteq q.seen.copayers
      /\ CopyOfComplete(s) =>
           q.seen.exists /\ IsComplete(d) /\ q.seen.copayers = d.copayers
      /\ q.at \in {"unmark", "scan read"} => IsComplete(d)
      /\ q.at = "insert" =>
           \A k \in DOMAIN q.todo :
             q.todo[k].wallet = W(s) /\ q.todo[k].ring = d.copayers
  BY DEF RequestOK
<1>4. req'[s] = q
  OBVIOUS
<1> HIDE DEF d, q
<1>5. /\ q.at = "store new" => ~e.exists
      /\ q.at = "lookup" =>
           e.exists /\ q.seen.exists /\ ~IsComplete(e) /\ q.seen.copayers = e.copayers
      /\ Is(s, "join") /\ q.at \in Rewrite =>
           /\ e.exists /\ q.seen.exists /\ ~IsComplete(e)
           /\ e.copayers \subseteq q.seen.copayers
      /\ CopyOfComplete(s) =>
           q.seen.exists /\ IsComplete(e) /\ q.seen.copayers = e.copayers
      /\ q.at \in {"unmark", "scan read"} => IsComplete(e)
      /\ q.at = "insert" =>
           \A k \in DOMAIN q.todo :
             q.todo[k].wallet = W(s) /\ q.todo[k].ring = e.copayers
  BY <1>1, <1>3
<1> QED
  BY <1>2, <1>4, <1>5, Zenon DEF RequestOK

\* A step of one request leaves the others what they rely on: a document they
\* hold a copy of may only be replaced by one with the same copayers, since a
\* join needs the lock and a wallet that is not complete.
LEMMA OthersOK ==
    ASSUME IInv, NEW r \in Request, Step(r), NEW s \in Request \ {r}, s \notin down
    PROVE  RequestOK(s)'
<1> USE DEF IInv
<1>1. RequestOK(s) /\ req'[s] = req[s] /\ W(s) \in Wallet
  BY RequestsStep, Fields DEF RequestsOK
<1>2. InTask(s) => lock'[W(s)] = s
  BY <1>1, LockStep DEF RequestOK
<1>3. CASE W(s) # W(r) \/ Kept(r)
  <2>1. /\ docs'[W(s)].copayers = docs[W(s)].copayers
        /\ docs'[W(s)].exists = docs[W(s)].exists
    BY <1>1, <1>3, DocsStep DEF Kept
  <2> QED
    BY <1>1, <1>2, <2>1, StaysOK
<1>4. CASE W(s) = W(r) /\ Created(r)
  <2>1. ~Is(s, "create")
    BY <1>4, CreationAssumption DEF Created, Is, W
  <2>2. ~docs[W(s)].exists /\ ~IsComplete(docs[W(s)])
    BY <1>1, <1>4, CompleteExists DEF Created
  <2>3. /\ req[s].at # "lookup" /\ ~(Is(s, "join") /\ req[s].at \in Rewrite)
        /\ ~CopyOfComplete(s) /\ req[s].at \notin {"unmark", "scan read"}
    BY <1>1, <2>2 DEF RequestOK
  <2>4. req[s].at # "store new" /\ req[s].at # "insert"
    BY <1>1, <2>1, <2>3
    DEF RequestOK, OnCourse, CopyOfComplete, Ended, Rewrite, Storing, Is
  <2> QED
    BY <1>1, <1>2, <2>3, <2>4 DEF RequestOK, OnCourse, InTask, CopyOfComplete
<1>5. CASE W(s) = W(r) /\ Joined(r) /\ r \notin down
  <2>1. lock[W(s)] = r
    BY <1>5 DEF RequestsOK, RequestOK, Joined, InTask, Rewrite
  <2>2. ~InTask(s)
    BY <1>1, <2>1 DEF RequestOK
  <2>3. docs[W(s)].exists /\ ~IsComplete(docs[W(s)])
    BY <1>5 DEF Joined
  <2>4. /\ req[s].at # "lookup" /\ ~(Is(s, "join") /\ req[s].at \in Rewrite)
        /\ ~CopyOfComplete(s) /\ req[s].at \notin {"unmark", "scan read"}
        /\ req[s].at # "store new" /\ req[s].at # "insert"
    BY <1>1, <2>2, <2>3 DEF RequestOK, InTask, Storing
  <2> QED
    BY <1>1, <1>2, <2>4 DEF RequestOK, OnCourse, InTask, CopyOfComplete
<1>6. r \in down => UNCHANGED docs
  BY DEF Step, At, Busy, Crash, CreateFetch, CreateStore, JoinStart, JoinRead,
     JoinLookup, AccessLookup, AccessRead, DeleteLookup, InsertLookup,
     StoreAfterLookup, RewriteFails, AddressStart, AddressRead, InsertAddresses,
     StoreWallet, StoreFails, Register, AddAddresses, MarkSynced, SyncStops, ScanStart,
     Unmark, ScanRead, ScanRunning, ScanBranch, ScanComplete, ScanEnd, Acquire,
     Release, CallFails
<1> QED
  BY <1>3, <1>4, <1>5, <1>6, DocsStep DEF Kept

\* A request whose next stage relies on nothing but its course and its lock.
LEMMA PlainOK ==
    ASSUME NEW r \in Request,
           OnCourse(r)', InTask(r)' => lock'[W(r)] = r,
           ~CopyOfComplete(r)',
           ~(Is(r, "join") /\ req'[r].at \in Rewrite),
           req'[r].at \notin {"store new", "lookup", "unmark", "scan read", "insert"}
    PROVE  RequestOK(r)'
BY DEF RequestOK

\* A request that goes on with its copy of a complete wallet.
LEMMA CopyOK ==
    ASSUME NEW r \in Request,
           OnCourse(r)', InTask(r)' => lock'[W(r)] = r,
           ~Is(r, "join"), Is(r, "create") => req'[r].at # "store new",
           req'[r].at \notin {"store new", "lookup", "unmark", "scan read", "insert"},
           req'[r].seen.exists, IsComplete(docs'[W(r)]),
           req'[r].seen.copayers = docs'[W(r)].copayers
    PROVE  RequestOK(r)'
BY DEF RequestOK

\* A request that runs has, after its step, what its next stage relies on.
LEMMA SelfOK ==
    ASSUME IInv, NEW r \in Request \ down, Step(r), r \notin down'
    PROVE  RequestOK(r)'
<1> USE DEF IInv
<1> DEFINE d == docs[W(r)]
           copy == req[r].seen
<1>1. RequestOK(r) /\ TypeOK /\ d \in Doc /\ copy \in Doc /\ W(r) \in Wallet
      /\ Op[r].copayer \in Copayer
  BY Fields DEF RequestsOK
<1>2. ASSUME NEW stage \in Stage, GoTo(r, stage)
      PROVE  req'[r].at = stage /\ req'[r].seen = copy /\ req'[r].todo = req[r].todo
  BY <1>2, GoToReq
<1>3. ASSUME NEW stage \in Stage, NEW e \in Doc, GoWith(r, stage, e)
      PROVE  req'[r].at = stage /\ req'[r].seen = e
  BY <1>3, GoWithReq
<1>4. Kept(r) => /\ docs'[W(r)].copayers = d.copayers /\ docs'[W(r)].exists = d.exists
                 /\ IsComplete(docs'[W(r)]) <=> IsComplete(d)
  BY DEF Kept, IsComplete
<1>5. CopyOfComplete(r) =>
        /\ copy.exists /\ IsComplete(d) /\ copy.copayers = d.copayers
        /\ ~Is(r, "create") /\ ~Is(r, "join")
  BY <1>1 DEF RequestOK, CopyOfComplete, Is
<1>6. ASSUME CopyOfComplete(r), OnCourse(r)', InTask(r)' => lock'[W(r)] = r,
             req'[r].seen.copayers = copy.copayers, req'[r].seen.exists = copy.exists,
             req'[r].at \notin {"store new", "lookup", "unmark", "scan read", "insert"}
      PROVE  RequestOK(r)'
  <2>1. Kept(r)
    BY <1>5, <1>6, DocsStep DEF Created, Joined
  <2>2. IsComplete(docs'[W(r)]) /\ docs'[W(r)].copayers = d.copayers
    BY <1>4, <1>5, <1>6, <2>1
  <2> QED
    BY <1>5, <1>6, <2>2, CopyOK
<1>7. CASE Busy(r)
  <2>1. "refused" \in Stage
    BY DEF Stage
  <2>2. req'[r].at = "refused" /\ req[r].at = "locking" /\ UNCHANGED lock
    BY <1>1, <1>2, <1>7, <2>1 DEF Busy, At
  <2>3. OnCourse(r)' /\ (InTask(r)' => InTask(r))
    BY <1>1, <2>2, <1>7
    DEF RequestOK, OnCourse, InTask, Ended, Rewrite, Storing, Is, Busy
  <2>4. InTask(r)' => lock'[W(r)] = r
    BY <1>1, <2>2, <2>3 DEF RequestOK
  <2> QED
    BY <1>1, <2>2, <2>3, <2>4, PlainOK, <1>7
    DEF RequestOK, OnCourse, CopyOfComplete, Ended, Rewrite, Storing, Is, Busy
<1>8. CASE CreateStore(r)
  <2>1. "done" \in Stage
    BY DEF Stage
  <2>2. req'[r].at = "done" /\ req[r].at = "store new" /\ UNCHANGED lock
    BY <1>1, <1>2, <1>8, <2>1 DEF CreateStore, At
  <2>3. OnCourse(r)' /\ (InTask(r)' => InTask(r))
    BY <1>1, <2>2, <1>8
    DEF RequestOK, OnCourse, InTask, Ended, Rewrite, Storing, Is, CreateStore
  <2>4. InTask(r)' => lock'[W(r)] = r
    BY <1>1, <2>2, <2>3 DEF RequestOK
  <2> QED
    BY <1>1, <2>2, <2>3, <2>4, PlainOK, <1>8
    DEF RequestOK, OnCourse, CopyOfComplete, Ended, Rewrite, Storing, Is, CreateStore
<1>9. CASE JoinStart(r)
  <2>1. "locking" \in Stage
    BY DEF Stage
  <2>2. req'[r].at = "locking" /\ req[r].at = "idle" /\ UNCHANGED lock
    BY <1>1, <1>2, <1>9, <2>1 DEF JoinStart, At
  <2>3. OnCourse(r)' /\ (InTask(r)' => InTask(r))
    BY <1>1, <2>2, <1>9
    DEF RequestOK, OnCourse, InTask, Ended, Rewrite, Storing, Is, JoinStart
  <2>4. InTask(r)' => lock'[W(r)] = r
    BY <1>1, <2>2, <2>3 DEF RequestOK
  <2> QED
    BY <1>1, <2>2, <2>3, <2>4, PlainOK, <1>9
    DEF RequestOK, OnCourse, CopyOfComplete, Ended, Rewrite, Storing, Is, JoinStart
<1>10. CASE Release(r)
  <2>1. "done" \in Stage
    BY DEF Stage
  <2>2. req'[r].at = "done" /\ req[r].at = "release"
    BY <1>2, <1>10, <2>1 DEF Release, At
  <2>3. OnCourse(r)' /\ ~InTask(r)'
    BY <1>1, <2>2 DEF RequestOK, OnCourse, InTask, Ended, Rewrite, Storing, Is
  <2> QED
    BY <2>2, <2>3, PlainOK DEF CopyOfComplete, Ended, Rewrite, Storing
<1>11. CASE CreateFetch(r)
  <2> DEFINE stage == IF d.exists THEN "refused" ELSE "store new"
  <2>1. stage \in Stage
    BY DEF Stage
  <2>2. req'[r].at = stage /\ Is(r, "create") /\ UNCHANGED docs
    BY <1>2, <1>11, <2>1 DEF CreateFetch
  <2> QED
    BY <2>2
    DEF RequestOK, OnCourse, InTask, CopyOfComplete, Ended, Rewrite, Storing, Is
<1>12. CASE JoinRead(r)
  <2>1. "release" \in Stage /\ "lookup" \in Stage
    BY DEF Stage
  <2>2. /\ Is(r, "join") /\ req[r].at = "read" /\ UNCHANGED <<docs, lock>>
        /\ \/ GoTo(r, "release")
           \/ d.exists /\ ~IsComplete(d) /\ GoWith(r, "lookup", d)
    BY <1>12 DEF JoinRead, At
  <2>3. lock'[W(r)] = r
    BY <1>1, <2>2 DEF RequestOK, InTask
  <2>4. CASE GoTo(r, "release")
    BY <1>2, <2>1, <2>2, <2>3, <2>4, PlainOK
    DEF OnCourse, CopyOfComplete, Ended, Rewrite, Storing, Is
  <2>5. CASE d.exists /\ ~IsComplete(d) /\ GoWith(r, "lookup", d)
    <3>1. req'[r].at = "lookup" /\ req'[r].seen = d /\ docs'[W(r)] = d
      BY <1>1, <1>3, <2>1, <2>2, <2>5
    <3>2. OnCourse(r)' /\ ~CopyOfComplete(r)'
      BY <2>2, <3>1 DEF OnCourse, CopyOfComplete, Ended, Rewrite, Storing, Is
    <3> QED
      BY <2>2, <2>3, <2>5, <3>1, <3>2 DEF RequestOK, Ended, Rewrite, Storing
  <2> QED
    BY <2>2, <2>4, <2>5
<1>13. CASE JoinLookup(r)
  <2> DEFINE e == [copy EXCEPT !.copayers = @ \cup {Op[r].copayer}]
  <2>1. "release" \in Stage /\ "delete lookup" \in Stage
    BY DEF Stage
  <2>2. /\ req[r].at = "lookup" /\ UNCHANGED <<docs, lock>>
        /\ GoTo(r, "release") \/ GoWith(r, "delete lookup", e)
    BY <1>13 DEF JoinLookup, At
  <2>3. e \in Doc /\ e.exists = copy.exists
        /\ e.copayers = copy.copayers \cup {Op[r].copayer}
    BY <1>1, DocTypes
  <2>4. Is(r, "join") /\ lock'[W(r)] = r
    BY <1>1, <2>2 DEF RequestOK, OnCourse, InTask, Ended, Rewrite, Storing, Is
  <2>5. d.exists /\ copy.exists /\ ~IsComplete(d) /\ copy.copayers = d.copayers
    BY <1>1, <2>2 DEF RequestOK
  <2> HIDE DEF e
  <2>6. CASE GoTo(r, "release")
    BY <1>2, <2>1, <2>4, <2>6, PlainOK
    DEF OnCourse, CopyOfComplete, Ended, Rewrite, Storing, Is
  <2>7. CASE GoWith(r, "delete lookup", e)
    <3>1. req'[r].at = "delete lookup" /\ req'[r].seen = e /\ docs'[W(r)] = d
      BY <1>3, <2>1, <2>2, <2>3, <2>7
    <3>2. OnCourse(r)' /\ ~CopyOfComplete(r)'
      BY <2>4, <3>1 DEF OnCourse, CopyOfComplete, Ended, Rewrite, Storing, Is
    <3> QED
      BY <2>3, <2>4, <2>5, <3>1, <3>2 DEF RequestOK
  <2> QED
    BY <2>2, <2>6, <2>7
<1>14. CASE AccessLookup(r)
  <2>1. PICK f \in lookup :
          GoTo(r, IF 1 + Cardinality(f.keys) > MaxKeys THEN "refused" ELSE "access")
    BY <1>14 DEF AccessLookup
  <2> DEFINE stage == IF 1 + Cardinality(f.keys) > MaxKeys THEN "refused" ELSE "access"
  <2>2. stage \in Stage
    BY DEF Stage
  <2>3. stage \in {"refused", "access"}
    OBVIOUS
  <2>4. GoTo(r, stage) /\ Is(r, "access")
    BY <1>14, <2>1 DEF AccessLookup
  <2> HIDE DEF stage
  <2>5. req'[r].at \in {"refused", "access"}
    BY <1>2, <2>2, <2>3, <2>4
  <2> QED
    BY <2>4, <2>5, PlainOK
    DEF OnCourse, InTask, CopyOfComplete, Ended, Rewrite, Storing, Is
<1>15. CASE AccessRead(r)
  <2> DEFINE c == Op[r].copayer
             e == [d EXCEPT !.keys[c] = @ \cup {r}]
  <2>1. "refused" \in Stage /\ "delete lookup" \in Stage
    BY DEF Stage
  <2>2. /\ req[r].at = "access" /\ UNCHANGED <<docs, lock>>
        /\ GoTo(r, "refused") \/ (IsComplete(d) /\ GoWith(r, "delete lookup", e))
    <3>1. req[r].at = "access" /\ UNCHANGED <<docs, lock>>
      BY <1>15 DEF AccessRead, At
    <3>2. GoTo(r, "refused") \/ (IsComplete(d) /\ GoWith(r, "delete lookup", e))
      BY <1>15 DEF AccessRead
    <3> QED
      BY <3>1, <3>2
  <2>3. e \in Doc /\ e.exists = d.exists /\ e.copayers = d.copayers
    <3>1. r \in Request /\ c \in Copayer
      BY <1>1
    <3> HIDE DEF d, c
    <3> QED
      BY <1>1, <3>1, KeyTypes
  <2>4. Is(r, "access")
    BY <1>1, <2>2 DEF RequestOK, OnCourse, Ended, Rewrite, Storing, Is
  <2> HIDE DEF e
  <2>5. CASE GoTo(r, "refused")
    BY <1>2, <2>1, <2>4, <2>5, PlainOK
    DEF OnCourse, InTask, CopyOfComplete, Ended, Rewrite, Storing, Is
  <2>6. CASE IsComplete(d) /\ GoWith(r, "delete lookup", e)
    <3>1. req'[r].at = "delete lookup" /\ req'[r].seen = e /\ docs'[W(r)] = d
      BY <1>3, <2>1, <2>2, <2>3, <2>6
    <3>2. OnCourse(r)' /\ ~InTask(r)' /\ ~Is(r, "join")
      BY <2>4, <3>1 DEF OnCourse, InTask, Ended, Rewrite, Storing, Is
    <3>3. e.exists
      BY <1>1, <2>3, <2>6, CompleteExists
    <3> QED
      BY <2>3, <2>6, <3>1, <3>2, <3>3, CopyOK
  <2> QED
    BY <2>2, <2>5, <2>6
<1>16. CASE DeleteLookup(r)
  <2>1. "insert lookup" \in Stage
    BY DEF Stage
  <2>2. req'[r].at = "insert lookup" /\ req'[r].seen = copy
        /\ req[r].at = "delete lookup"
        /\ UNCHANGED <<docs, lock>>
    BY <1>2, <1>16, <2>1 DEF DeleteLookup, At
  <2>3. CASE Is(r, "join")
    <3>1. OnCourse(r)' /\ ~CopyOfComplete(r)' /\ lock'[W(r)] = r
      BY <1>1, <2>2, <2>3
      DEF RequestOK, OnCourse, InTask, CopyOfComplete, Ended, Rewrite, Storing, Is
    <3> QED
      BY <1>1, <2>2, <2>3, <3>1 DEF RequestOK, Ended, Rewrite, Storing
  <2>4. CASE ~Is(r, "join")
    <3>1. CopyOfComplete(r) /\ OnCourse(r)' /\ ~InTask(r)'
      BY <1>1, <2>2, <2>4
      DEF RequestOK, OnCourse, InTask, CopyOfComplete, Ended, Rewrite, Storing, Is
    <3> QED
      BY <1>6, <2>2, <3>1
  <2> QED
    BY <2>3, <2>4
<1>17. CASE InsertLookup(r)
  <2>1. "store wallet and lookup" \in Stage
    BY DEF Stage
  <2>2. req'[r].at = "store wallet and lookup" /\ req'[r].seen = copy
        /\ req[r].at = "insert lookup"
        /\ UNCHANGED <<docs, lock>>
    BY <1>2, <1>17, <2>1 DEF InsertLookup, At
  <2>3. CASE Is(r, "join")
    <3>1. OnCourse(r)' /\ ~CopyOfComplete(r)' /\ lock'[W(r)] = r
      BY <1>1, <2>2, <2>3
      DEF RequestOK, OnCourse, InTask, CopyOfComplete, Ended, Rewrite, Storing, Is
    <3> QED
      BY <1>1, <2>2, <2>3, <3>1 DEF RequestOK, Ended, Rewrite, Storing
  <2>4. CASE ~Is(r, "join")
    <3>1. CopyOfComplete(r) /\ OnCourse(r)' /\ ~InTask(r)'
      BY <1>1, <2>2, <2>4
      DEF RequestOK, OnCourse, InTask, CopyOfComplete, Ended, Rewrite, Storing, Is
    <3> QED
      BY <1>6, <2>2, <3>1
  <2> QED
    BY <2>3, <2>4
<1>18. CASE StoreAfterLookup(r)
  <2> DEFINE stage == IF Is(r, "join") THEN "release" ELSE "done"
  <2>1. stage \in Stage
    BY DEF Stage
  <2>2. req'[r].at = stage /\ req[r].at = "store wallet and lookup" /\ UNCHANGED lock
    BY <1>2, <1>18, <2>1 DEF StoreAfterLookup, At
  <2>3. CASE Is(r, "join")
    <3>1. OnCourse(r)' /\ ~CopyOfComplete(r)' /\ lock'[W(r)] = r
      BY <1>1, <2>2, <2>3
      DEF RequestOK, OnCourse, InTask, CopyOfComplete, Ended, Rewrite, Storing, Is
    <3> QED
      BY <2>2, <2>3, <3>1, PlainOK DEF Ended, Rewrite, Storing
  <2>4. CASE ~Is(r, "join")
    <3>1. OnCourse(r)' /\ ~CopyOfComplete(r)' /\ ~InTask(r)'
      BY <1>1, <2>2, <2>4
      DEF RequestOK, OnCourse, InTask, CopyOfComplete, Ended, Rewrite, Storing, Is
    <3> QED
      BY <2>2, <2>4, <3>1, PlainOK
  <2> QED
    BY <2>3, <2>4
<1>19. CASE AddressStart(r)
  <2>1. "locking" \in Stage /\ "refused" \in Stage
    BY DEF Stage
  <2>2. Is(r, "address") /\ (GoTo(r, "locking") \/ GoTo(r, "refused"))
    BY <1>19 DEF AddressStart
  <2>3. req'[r].at \in {"locking", "refused"}
    BY <1>2, <2>1, <2>2
  <2> QED
    BY <2>2, <2>3, PlainOK
    DEF OnCourse, InTask, CopyOfComplete, Ended, Rewrite, Storing, Is
<1>20. CASE AddressRead(r)
  <2> DEFINE a == AddressOf(W(r), d, d.index)
             e == [d EXCEPT !.index = d.index + 1]
             first == {b \in AddressesOf(W(r)) :
                         \A c \in AddressesOf(W(r)) : b.index <= c.index}
  <2>1. /\ Is(r, "address") /\ req[r].at = "read" /\ UNCHANGED <<docs, lock>>
        /\ lock'[W(r)] = r
    BY <1>1, <1>20 DEF AddressRead, At, RequestOK, InTask
  <2>2. \/ GoTo(r, "release")
        \/ req' = [req EXCEPT ![r].at = "release", ![r].got = first]
        \/ /\ IsComplete(d)
           /\ req' = [req EXCEPT ![r].at = "insert", ![r].todo = <<a>>, ![r].seen = e]
    BY <1>20, Zenon DEF AddressRead
  <2>3. "release" \in Stage /\ "insert" \in Stage
    BY DEF Stage
  <2>4. d.index \in Nat /\ e \in Doc /\ e.copayers = d.copayers /\ e.exists = d.exists
    <3>1. d.index \in Nat /\ d.index + 1 \in Nat
      BY <1>1 DEF Doc
    <3> QED
      BY <1>1, <3>1, DocTypes
  <2>5. a.wallet = W(r) /\ a.ring = d.copayers
    BY <1>1, <2>4, AddressTypes
  <2> HIDE DEF e, first, a
  <2>6. CASE \/ GoTo(r, "release")
             \/ req' = [req EXCEPT ![r].at = "release", ![r].got = first]
    <3>1. req'[r].at = "release"
      BY <1>2, <2>3, <2>6 DEF TypeOK, Req
    <3> QED
      BY <2>1, <3>1, PlainOK DEF OnCourse, CopyOfComplete, Ended, Rewrite, Storing, Is
  <2>7. CASE /\ IsComplete(d)
             /\ req' = [req EXCEPT ![r].at = "insert", ![r].todo = <<a>>, ![r].seen = e]
    <3>1. req'[r].at = "insert" /\ req'[r].todo = <<a>> /\ req'[r].seen = e
      BY <2>7 DEF TypeOK, Req
    <3>2. OnCourse(r)' /\ ~Is(r, "join")
      BY <2>1, <3>1 DEF OnCourse, Ended, Rewrite, Storing, Is
    <3>3. e.exists /\ docs'[W(r)] = d
      BY <1>1, <2>1, <2>4, <2>7, CompleteExists
    <3>4. \A k \in DOMAIN <<a>> : <<a>>[k].wallet = W(r) /\ <<a>>[k].ring = d.copayers
      BY <2>5
    <3> QED
      BY <2>1, <2>4, <2>7, <3>1, <3>2, <3>3, <3>4 DEF RequestOK
  <2> QED
    BY <2>2, <2>6, <2>7
<1>21. CASE InsertAddresses(r)
  <2> DEFINE stage == IF req[r].todo = <<>> THEN "register" ELSE "store"
  <2>1. stage \in Stage /\ stage \in {"register", "store"}
    BY DEF Stage
  <2> HIDE DEF stage
  <2>2. /\ req'[r].at \in {"register", "store"} /\ req'[r].seen = copy
        /\ req[r].at = "insert" /\ UNCHANGED lock
    BY <1>2, <2>1, <1>21 DEF InsertAddresses, At, stage
  <2>3. OnCourse(r)' /\ CopyOfComplete(r) /\ lock'[W(r)] = r
    BY <1>1, <2>2
    DEF RequestOK, OnCourse, InTask, CopyOfComplete, Ended, Rewrite, Storing, Is
  <2> QED
    BY <1>6, <2>2, <2>3
<1>22. CASE MarkSynced(r)
  <2>1. AfterStore(r) \in Stage
    BY DEF Stage, AfterStore
  <2>2. /\ req'[r].at = AfterStore(r) /\ req'[r].seen = copy
        /\ req[r].at \in {"mark"} /\ UNCHANGED lock
    BY <1>2, <2>1, <1>22 DEF MarkSynced, At
  <2>3. OnCourse(r)' /\ CopyOfComplete(r) /\ lock'[W(r)] = r
    BY <1>1, <2>2
    DEF RequestOK, OnCourse, InTask, CopyOfComplete, Ended, Rewrite, Storing, Is, AfterStore
  <2> QED
    BY <1>6, <2>2, <2>3 DEF AfterStore
<1>23. CASE SyncStops(r)
  <2>1. AfterStore(r) \in Stage
    BY DEF Stage, AfterStore
  <2>2. /\ req'[r].at = AfterStore(r) /\ req'[r].seen = copy
        /\ req[r].at \in {"register", "add", "mark"} /\ UNCHANGED lock
    BY <1>2, <2>1, <1>23 DEF SyncStops, At
  <2>3. OnCourse(r)' /\ CopyOfComplete(r) /\ lock'[W(r)] = r
    BY <1>1, <2>2
    DEF RequestOK, OnCourse, InTask, CopyOfComplete, Ended, Rewrite, Storing, Is, AfterStore
  <2> QED
    BY <1>6, <2>2, <2>3 DEF AfterStore
<1>24. CASE StoreFails(r)
  <2>1. AfterFailure(r) \in Stage
    BY DEF Stage, AfterFailure
  <2>2. /\ req'[r].at = AfterFailure(r) /\ req'[r].seen = copy
        /\ req[r].at \in {"insert", "store"} /\ UNCHANGED lock
    BY <2>1, <1>24, FailReq DEF StoreFails, At
  <2>3. OnCourse(r)' /\ CopyOfComplete(r) /\ lock'[W(r)] = r
    BY <1>1, <2>2
    DEF RequestOK, OnCourse, InTask, CopyOfComplete, Ended, Rewrite, Storing, Is, AfterFailure
  <2> QED
    BY <1>6, <2>2, <2>3 DEF AfterFailure
<1>25. CASE StoreWallet(r)
  <2> DEFINE got == IF Is(r, "scan") THEN {} ELSE {req[r].todo[k] : k \in DOMAIN req[r].todo}
  <2>1. req' = [req EXCEPT ![r].at = "register", ![r].got = got]
    BY <1>25 DEF StoreWallet
  <2> HIDE DEF got
  <2>2. /\ req'[r].at = "register" /\ req'[r].seen = copy
        /\ req[r].at = "store" /\ UNCHANGED lock
    BY <2>1, <1>25 DEF StoreWallet, At, TypeOK, Req
  <2>3. OnCourse(r)' /\ CopyOfComplete(r) /\ lock'[W(r)] = r
    BY <1>1, <2>2
    DEF RequestOK, OnCourse, InTask, CopyOfComplete, Ended, Rewrite, Storing, Is
  <2> QED
    BY <1>6, <2>2, <2>3
<1>26. CASE AddAddresses(r)
  <2> DEFINE new == AddressesOf(W(r)) \ marked
  <2>1. req' = [req EXCEPT ![r].at = "mark", ![r].sent = new]
    BY <1>26 DEF AddAddresses
  <2> HIDE DEF new
  <2>2. /\ req'[r].at = "mark" /\ req'[r].seen = copy
        /\ req[r].at = "add" /\ UNCHANGED lock
    BY <2>1, <1>26 DEF AddAddresses, At, TypeOK, Req
  <2>3. OnCourse(r)' /\ CopyOfComplete(r) /\ lock'[W(r)] = r
    BY <1>1, <2>2
    DEF RequestOK, OnCourse, InTask, CopyOfComplete, Ended, Rewrite, Storing, Is
  <2> QED
    BY <1>6, <2>2, <2>3
<1>27. CASE Register(r)
  <2> DEFINE e == [copy EXCEPT !.registered = TRUE]
  <2>1. "add" \in Stage
    BY DEF Stage
  <2>2. e \in Doc /\ e.copayers = copy.copayers /\ e.exists = copy.exists
    BY <1>1, DocTypes
  <2>3. /\ req[r].at = "register" /\ UNCHANGED lock
        /\ GoTo(r, "add") \/ GoWith(r, "add", e)
    BY <1>27 DEF Register, At
  <2> HIDE DEF e
  <2>4. /\ req'[r].at = "add" /\ req'[r].seen.copayers = copy.copayers
        /\ req'[r].seen.exists = copy.exists
    BY <1>2, <1>3, <2>1, <2>2, <2>3
  <2>5. OnCourse(r)' /\ CopyOfComplete(r) /\ lock'[W(r)] = r
    BY <1>1, <2>3, <2>4
    DEF RequestOK, OnCourse, InTask, CopyOfComplete, Ended, Rewrite, Storing, Is
  <2> QED
    BY <1>6, <2>4, <2>5
<1>28. CASE ScanRunning(r)
  <2> DEFINE e == [copy EXCEPT !.scan = "running"]
  <2>1. "scan" \in Stage
    BY DEF Stage
  <2>2. e \in Doc /\ e.copayers = copy.copayers /\ e.exists = copy.exists
    BY <1>1, DocTypes
  <2>3. req[r].at = "start scan" /\ UNCHANGED lock /\ GoWith(r, "scan", e)
    BY <1>28 DEF ScanRunning, At
  <2> HIDE DEF e
  <2>4. /\ req'[r].at = "scan" /\ req'[r].seen.copayers = copy.copayers
        /\ req'[r].seen.exists = copy.exists
    BY <1>3, <2>1, <2>2, <2>3
  <2>5. OnCourse(r)' /\ CopyOfComplete(r) /\ lock'[W(r)] = r
    BY <1>1, <2>3, <2>4
    DEF RequestOK, OnCourse, InTask, CopyOfComplete, Ended, Rewrite, Storing, Is
  <2> QED
    BY <1>6, <2>4, <2>5
<1>29. CASE ScanEnd(r)
  <2>1. "release" \in Stage
    BY DEF Stage
  <2>2. /\ req'[r].at = "release" /\ req'[r].seen = copy
        /\ req[r].at = "store scan" /\ UNCHANGED lock
    BY <1>2, <1>29, <2>1 DEF ScanEnd, At
  <2>3. OnCourse(r)' /\ CopyOfComplete(r) /\ lock'[W(r)] = r
    BY <1>1, <2>2
    DEF RequestOK, OnCourse, InTask, CopyOfComplete, Ended, Rewrite, Storing, Is
  <2> QED
    BY <1>6, <2>2, <2>3
<1>30. CASE ScanStart(r)
  <2>1. "refused" \in Stage /\ "unmark" \in Stage
    BY DEF Stage
  <2>2. /\ Is(r, "scan") /\ UNCHANGED lock
        /\ GoTo(r, "refused") \/ (IsComplete(d) /\ GoTo(r, "unmark"))
    BY <1>30 DEF ScanStart
  <2>3. CASE GoTo(r, "refused")
    BY <1>2, <2>1, <2>2, <2>3, PlainOK
    DEF OnCourse, InTask, CopyOfComplete, Ended, Rewrite, Storing, Is
  <2>4. CASE IsComplete(d) /\ GoTo(r, "unmark")
    <3>1. req'[r].at = "unmark"
      BY <1>2, <2>1, <2>4
    <3>2. Kept(r)
      BY <2>2, DocsStep DEF Created, Joined, Is
    <3>3. OnCourse(r)' /\ ~InTask(r)' /\ ~CopyOfComplete(r)' /\ ~Is(r, "join")
      BY <2>2, <3>1 DEF OnCourse, InTask, CopyOfComplete, Ended, Rewrite, Storing, Is
    <3> QED
      BY <1>4, <2>4, <3>1, <3>2, <3>3 DEF RequestOK
  <2> QED
    BY <2>2, <2>3, <2>4
<1>31. CASE Unmark(r)
  <2>1. "scan read" \in Stage
    BY DEF Stage
  <2>2. req'[r].at = "scan read" /\ req[r].at = "unmark" /\ UNCHANGED docs
    BY <1>2, <1>31, <2>1 DEF Unmark, At
  <2>3. OnCourse(r)' /\ ~InTask(r)' /\ ~CopyOfComplete(r)' /\ Is(r, "scan")
    BY <1>1, <2>2
    DEF RequestOK, OnCourse, InTask, CopyOfComplete, Ended, Rewrite, Storing, Is
  <2> QED
    BY <1>1, <2>2, <2>3 DEF RequestOK, Is
<1>32. CASE ScanRead(r)
  <2>1. "locking" \in Stage
    BY DEF Stage
  <2>2. /\ req'[r].at = "locking" /\ req'[r].seen = d /\ docs'[W(r)] = d
        /\ req[r].at = "scan read"
    BY <1>1, <1>3, <1>32, <2>1 DEF ScanRead, At
  <2>3. IsComplete(d) /\ d.exists
    BY <1>1, <2>2, CompleteExists DEF RequestOK
  <2>4. OnCourse(r)' /\ ~InTask(r)' /\ Is(r, "scan")
    BY <1>1, <2>2 DEF RequestOK, OnCourse, InTask, Ended, Rewrite, Storing, Is
  <2> QED
    BY <2>2, <2>3, <2>4, CopyOK DEF Is
<1>33. CASE ScanBranch(r)
  <2>1. /\ req[r].at = "scan" /\ UNCHANGED <<docs, lock>>
    BY <1>33 DEF ScanBranch, At
  <2>2. CopyOfComplete(r) /\ Is(r, "scan") /\ lock'[W(r)] = r
    BY <1>1, <2>1
    DEF RequestOK, OnCourse, InTask, CopyOfComplete, Ended, Rewrite, Storing, Is
  <2>3. CASE /\ req'[r].at = "insert"
             /\ req'[r].seen.copayers = copy.copayers /\ req'[r].seen.exists = copy.exists
             /\ \A k \in DOMAIN req'[r].todo :
                  req'[r].todo[k].wallet = W(r) /\ req'[r].todo[k].ring = copy.copayers
    <3>1. OnCourse(r)' /\ ~Is(r, "join")
      BY <2>2, <2>3 DEF OnCourse, Ended, Rewrite, Storing, Is
    <3>2. docs'[W(r)] = d
      BY <2>1
    <3> QED
      BY <1>5, <2>2, <2>3, <3>1, <3>2 DEF RequestOK
  <2>4. CASE req'[r].at = "scan done" /\ req'[r].seen = copy
    <3>1. OnCourse(r)'
      BY <2>2, <2>4 DEF OnCourse, Ended, Rewrite, Storing, Is
    <3> QED
      BY <1>6, <2>2, <2>4, <3>1
  <2> QED
    BY <1>33, <2>3, <2>4, ScanBranchOK
<1>34. CASE ScanComplete(r)
  <2> DEFINE status == IF req[r].error THEN "error" ELSE "success"
             e == [d EXCEPT !.scan = status]
  <2>1. "store scan" \in Stage
    BY DEF Stage
  <2>2. e \in Doc /\ e.copayers = d.copayers /\ e.exists = d.exists
    <3>1. status \in {"none", "running", "success", "error"}
      OBVIOUS
    <3> HIDE DEF status
    <3> QED
      BY <1>1, <3>1, DocTypes
  <2>3. req[r].at \in {"scan", "scan done"} /\ UNCHANGED lock
        /\ GoWith(r, "store scan", e)
    BY <1>34 DEF ScanComplete, At
  <2>4. CopyOfComplete(r) /\ Is(r, "scan") /\ lock'[W(r)] = r
    BY <1>1, <2>3
    DEF RequestOK, OnCourse, InTask, CopyOfComplete, Ended, Rewrite, Storing, Is
  <2>5. d.exists
    BY <1>1, <1>5, <2>4, CompleteExists
  <2> HIDE DEF e
  <2>6. /\ req'[r].at = "store scan" /\ req'[r].seen.copayers = copy.copayers
        /\ req'[r].seen.exists = copy.exists
    <3>1. copy.exists = d.exists
      BY <1>1, <1>5, <2>4, <2>5 DEF Doc
    <3> QED
      BY <1>3, <1>5, <2>1, <2>2, <2>3, <2>4, <3>1
  <2>7. OnCourse(r)'
    BY <2>4, <2>6 DEF OnCourse, Ended, Rewrite, Storing, Is
  <2> QED
    BY <1>6, <2>4, <2>6, <2>7
<1>35. CASE Acquire(r)
  <2> DEFINE stage == IF Is(r, "scan") THEN "start scan" ELSE "read"
  <2>1. stage \in Stage
    BY DEF Stage
  <2>2. /\ req'[r].at = stage /\ req'[r].seen = copy /\ req[r].at = "locking"
        /\ lock'[W(r)] = r
    BY <1>1, <1>2, <1>35, <2>1 DEF Acquire, At, TypeOK
  <2>3. CASE Is(r, "scan")
    <3>1. OnCourse(r)' /\ CopyOfComplete(r)
      BY <1>1, <2>2, <2>3
      DEF RequestOK, OnCourse, CopyOfComplete, Ended, Rewrite, Storing, Is
    <3> QED
      BY <1>6, <2>2, <2>3, <3>1
  <2>4. CASE ~Is(r, "scan")
    <3>1. OnCourse(r)' /\ ~CopyOfComplete(r)'
      BY <1>1, <2>2, <2>4
      DEF RequestOK, OnCourse, CopyOfComplete, Ended, Rewrite, Storing, Is
    <3> QED
      BY <2>2, <2>4, <3>1, PlainOK DEF Ended, Rewrite, Storing
  <2> QED
    BY <2>3, <2>4
<1>36. CASE Crash(r)
  BY <1>36 DEF Crash
<1>37. CASE RewriteFails(r)
  <2> DEFINE stage == IF Is(r, "join") THEN "release" ELSE "refused"
  <2>1. stage \in Stage
    BY DEF Stage
  <2>2. req'[r].at = stage /\ req[r].at \in Rewrite /\ UNCHANGED lock
    BY <1>2, <1>37, <2>1 DEF RewriteFails, At, Rewrite
  <2>3. CASE Is(r, "join")
    <3>1. OnCourse(r)' /\ ~CopyOfComplete(r)' /\ lock'[W(r)] = r
      BY <1>1, <2>2, <2>3
      DEF RequestOK, OnCourse, InTask, CopyOfComplete, Ended, Rewrite, Storing, Is
    <3> QED
      BY <2>2, <2>3, <3>1, PlainOK DEF Ended, Rewrite, Storing
  <2>4. CASE ~Is(r, "join")
    <3>1. OnCourse(r)' /\ ~CopyOfComplete(r)' /\ ~InTask(r)'
      BY <1>1, <2>2, <2>4
      DEF RequestOK, OnCourse, InTask, CopyOfComplete, Ended, Rewrite, Storing, Is
    <3> QED
      BY <2>2, <2>4, <3>1, PlainOK
  <2> QED
    BY <2>3, <2>4
<1>38. CASE CallFails(r)
  <2>1. "release" \in Stage /\ "refused" \in Stage
    BY DEF Stage
  <2>2. CASE /\ req[r].at \in {"read", "lookup", "start scan", "store scan"}
             /\ GoTo(r, "release")
    <3>1. req'[r].at = "release" /\ UNCHANGED lock
      BY <1>2, <1>38, <2>1, <2>2 DEF CallFails
    <3>2. OnCourse(r)' /\ lock'[W(r)] = r
      BY <1>1, <2>2, <3>1
      DEF RequestOK, OnCourse, InTask, Ended, Rewrite, Storing, Is
    <3> QED
      BY <3>1, <3>2, PlainOK DEF CopyOfComplete, Ended, Rewrite, Storing
  <2>3. CASE GoTo(r, "refused")
    <3>1. req'[r].at = "refused"
      BY <1>2, <2>1, <2>3
    <3>2. OnCourse(r)' /\ ~InTask(r)'
      BY <1>1, <3>1 DEF RequestOK, OnCourse, InTask, Ended, Rewrite, Storing, Is
    <3> QED
      BY <3>1, <3>2, PlainOK DEF CopyOfComplete, Ended, Rewrite, Storing
  <2> QED
    BY <1>38, <2>2, <2>3 DEF CallFails, At
<1> QED
  BY <1>7, <1>8, <1>9, <1>10, <1>11, <1>12, <1>13, <1>14, <1>15, <1>16,
     <1>17, <1>18, <1>19, <1>20, <1>21, <1>22, <1>23, <1>24, <1>25, <1>26,
     <1>27, <1>28, <1>29, <1>30, <1>31, <1>32, <1>33, <1>34, <1>35, <1>36,
     <1>37, <1>38 DEF Step

-----------------------------------------------------------------------------
\* The invariant

\* Nothing has happened yet.
LEMMA InitOK == Init => IInv
<1> SUFFICES ASSUME Init PROVE IInv
  OBVIOUS
<1>1. NoDoc \in Doc /\ NoDoc.copayers = {}
  BY DEF NoDoc, Doc
<1>2. NewReq \in Req /\ NewReq.at = "idle"
  <2>1. "idle" \in Stage /\ <<>> \in Seq(Address)
    BY DEF Stage
  <2> QED
    BY <1>1, <2>1 DEF NewReq, Req
<1>3. \A r \in Request : req[r].at = "idle" /\ OnCourse(r)
  <2>1. ASSUME NEW r \in Request PROVE req[r].at = "idle" /\ OnCourse(r)
    <3>1. req[r].at = "idle"
      BY <1>2 DEF Init
    <3>2. Op[r].kind \in {"create", "join", "access", "address", "scan"}
      BY RequestAssumption DEF Kind
    <3> QED
      BY <3>1, <3>2 DEF OnCourse, Is
  <2> QED
    BY <2>1
<1>4. TypeOK
  BY <1>1, <1>2 DEF Init, TypeOK
<1>5. RequestsOK
  BY <1>3 DEF RequestsOK, RequestOK, InTask, CopyOfComplete, Rewrite, Storing
<1>6. DocsOK /\ FullRing
  BY <1>1 DEF Init, DocsOK, FullRing
<1> QED
  BY <1>4, <1>5, <1>6 DEF IInv

\* A step of a request keeps a ring full: an insert takes the ring of a
\* complete wallet, and a complete wallet gains nobody (createAddress, scan,
\* joinWallet).
LEMMA RingStep ==
    ASSUME IInv, NEW r \in Request, Step(r)
    PROVE  FullRing'
<1> USE DEF IInv
<1>1. ASSUME NEW a \in Address, Cardinality(a.ring) = N, a.ring = docs[a.wallet].copayers
      PROVE  a.ring = docs'[a.wallet].copayers
  <2>1. a.wallet \in Wallet
    BY DEF Address
  <2>2. IsComplete(docs[a.wallet])
    BY <1>1 DEF IsComplete
  <2>3. docs[a.wallet].exists
    BY <2>1, <2>2, CompleteExists
  <2> QED
    BY <1>1, <2>1, <2>2, <2>3, DocsStep DEF Kept, Created, Joined
<1>2. stored \subseteq Address
  BY DEF TypeOK
<1>3. CASE UNCHANGED stored
  BY <1>1, <1>2, <1>3 DEF FullRing
<1>4. CASE InsertAddresses(r)
  <2> DEFINE todo == req[r].todo
  <2>1. r \notin down /\ req[r].at = "insert" /\ UNCHANGED docs
    BY <1>4 DEF InsertAddresses, At
  <2>2. CopyOfComplete(r)
    BY <2>1
    DEF RequestsOK, RequestOK, OnCourse, CopyOfComplete, Ended, Rewrite, Storing
  <2>3. /\ IsComplete(docs[W(r)])
        /\ \A k \in DOMAIN todo : todo[k].wallet = W(r) /\ todo[k].ring = docs[W(r)].copayers
    BY <2>1, <2>2 DEF RequestsOK, RequestOK
  <2>4. stored' = stored \cup {todo[k] : k \in Inserted(todo)}
        /\ Inserted(todo) \subseteq DOMAIN todo
    BY <1>4 DEF InsertAddresses, Inserted
  <2> HIDE DEF todo
  <2>5. ASSUME NEW a \in stored'
        PROVE Cardinality(a.ring) = N /\ a.ring = docs'[a.wallet].copayers
    <3>1. CASE a \in stored
      BY <2>1, <3>1 DEF FullRing
    <3>2. CASE a \notin stored
      <4>1. PICK k \in DOMAIN todo : a = todo[k]
        BY <2>4, <2>5, <3>2
      <4> QED
        BY <2>1, <2>3, <4>1 DEF IsComplete
    <3> QED
      BY <3>1, <3>2
  <2> QED
    BY <2>5 DEF FullRing
<1> QED
  BY <1>3, <1>4
  DEF Step, dbAddresses, Busy, Crash, CreateFetch, CreateStore, JoinStart, JoinRead,
      JoinLookup, AccessLookup, AccessRead, DeleteLookup, InsertLookup,
      StoreAfterLookup, RewriteFails, AddressStart, AddressRead, StoreWallet, StoreFails,
      Register, AddAddresses, MarkSynced, SyncStops, ScanStart, Unmark, ScanRead,
      ScanRunning, ScanBranch, ScanComplete, ScanEnd, Acquire, Release, CallFails

\* Every step keeps the invariant.
LEMMA NextOK == IInv /\ [Next]_vars => IInv'
<1> SUFFICES ASSUME IInv, [Next]_vars PROVE IInv'
  OBVIOUS
<1>1. ASSUME NEW r \in Request, Step(r) PROVE IInv'
  <2>1. TypeOK'
    BY <1>1, RequestsStep, DocsStep, LockStep, CollectionsStep, TornStep
    DEF IInv, TypeOK
  <2>2. ASSUME NEW s \in Request \ down' PROVE RequestOK(s)'
    <3>1. s \notin down
      BY <1>1, LockStep
    <3> QED
      BY <1>1, <2>2, <3>1, OthersOK, SelfOK
  <2>3. RequestsOK'
    BY <2>2 DEF RequestsOK
  <2>4. DocsOK'
    <3>1. ASSUME NEW w \in Wallet, ~docs'[w].exists PROVE docs'[w].copayers = {}
      BY <1>1, <3>1, DocsStep DEF IInv, DocsOK, Kept, Created, Joined
    <3> QED
      BY <3>1 DEF DocsOK
  <2>5. FullRing'
    BY <1>1, RingStep
  <2> QED
    BY <2>1, <2>3, <2>4, <2>5 DEF IInv
<1>2. ASSUME NEW w \in Wallet, LeaseEnds(w) PROVE IInv'
  <2>1. UNCHANGED <<docs, lookup, stored, marked, known, dropped, req, down, torn>>
    BY <1>2 DEF LeaseEnds, dbAddresses
  <2>2. lock' \in [Wallet -> Request \cup {NoRequest}]
    BY <1>2 DEF LeaseEnds, IInv, TypeOK
  <2>3. ASSUME NEW r \in Request \ down PROVE RequestOK(r)'
    <3>1. RequestOK(r)
      BY DEF IInv, RequestsOK
    <3>2. InTask(r) => lock'[W(r)] = r
      BY <1>2, <3>1, Fields DEF RequestOK, LeaseEnds, IInv, TypeOK
    <3> QED
      BY <2>1, <3>1, <3>2, StaysOK
  <2> QED
    BY <2>1, <2>2, <2>3 DEF IInv, TypeOK, RequestsOK, DocsOK, FullRing
<1>3. CASE UNCHANGED vars
  <2>1. \A r \in Request \ down : RequestOK(r)'
    BY <1>3, StaysOK DEF vars, IInv, RequestsOK, RequestOK
  <2> QED
    BY <1>3, <2>1 DEF vars, IInv, TypeOK, RequestsOK, DocsOK, FullRing
<1> QED
  BY <1>1, <1>2, <1>3 DEF Next

\* What the requests rely on holds in every reachable state (createWallet,
\* joinWallet, addAccess, createAddress, startScan, scan).
THEOREM Invariance == Spec => []IInv
BY InitOK, NextOK, PTL DEF Spec

\* Whatever interleaves and crashes, the documents, the lookup, the addresses
\* and the requests keep their types (the collections of storage.ts).
THEOREM TypeCorrect == Spec => []TypeOK
BY Invariance, PTL DEF IInv

\* For any number of requests, every stored address has the keys of all the
\* N copayers that its wallet has (createAddress, scan and joinWallet).
THEOREM EveryRingFull == Spec => []FullRing
BY Invariance, PTL DEF IInv

\* For any number of requests, no handler writes back a copy of a wallet that
\* lacks a copayer who has joined meanwhile (storeWallet).
THEOREM NoCopayerLost == Spec => CopayersKept
<1>1. ASSUME IInv, [Next]_vars
      PROVE  [\A w \in Wallet : docs[w].copayers \subseteq docs'[w].copayers]_vars
  <2>1. ASSUME NEW r \in Request, Step(r), NEW w \in Wallet
        PROVE  docs[w].copayers \subseteq docs'[w].copayers
    BY <1>1, <2>1, DocsStep DEF IInv, DocsOK, Kept, Created, Joined
  <2>2. ASSUME NEW v \in Wallet, LeaseEnds(v), NEW w \in Wallet
        PROVE  docs[w].copayers \subseteq docs'[w].copayers
    BY <2>2 DEF LeaseEnds
  <2> QED
    BY <1>1, <2>1, <2>2 DEF Next
<1> QED
  BY <1>1, Invariance, PTL DEF Spec, CopayersKept

-----------------------------------------------------------------------------
\* The lookup

\* A request that runs is to insert what the lookup of the wallet is to have,
\* or has done so and is to store the wallet.
Inserting(r, w) == W(r) = w /\ At(r, "insert lookup")
Linking(r, w) == W(r) = w /\ At(r, "store wallet and lookup")

\* The lookup never has anybody whom the copy that is stored next lacks.  Nor
\* does it lack anybody, unless there is an insert to come or there was none.
LookupOK(w) ==
    /\ IsComplete(docs[w]) => Registered(w) \subseteq docs[w].copayers
    /\ \A r \in Request : Inserting(r, w) \/ Linking(r, w) =>
         Registered(w) \subseteq req[r].seen.copayers
    /\ w \notin torn /\ (\A r \in Request : ~Inserting(r, w)) =>
         /\ \A r \in Request : Linking(r, w) => Registered(w) = req[r].seen.copayers
         /\ (\A r \in Request : ~Linking(r, w)) => Registered(w) = docs[w].copayers

\* A join that rewrites the lookup has a wallet that is not complete yet, and
\* addAccess has a copy with the copayers of a complete one.
LEMMA RewriterKnows ==
    ASSUME IInv, NEW w \in Wallet, NEW r \in Request, Inserting(r, w) \/ Linking(r, w)
    PROVE  \/ Is(r, "join") /\ lock[w] = r /\ ~IsComplete(docs[w])
           \/ /\ Is(r, "access") /\ IsComplete(docs[w])
              /\ req[r].seen.copayers = docs[w].copayers
<1>1. W(r) = w /\ req[r].at \in Rewrite /\ RequestOK(r)
  BY DEF Inserting, Linking, At, Rewrite, IInv, RequestsOK
<1>2. Is(r, "join") \/ Is(r, "access")
  BY <1>1 DEF RequestOK, OnCourse, Rewrite, Ended, Storing
<1> QED
  BY <1>1, <1>2 DEF RequestOK, InTask, CopyOfComplete

\* Two requests that rewrite one lookup at the same time have copies with the
\* same copayers: a join has the lock and a wallet that is not complete.
LEMMA RewritersAgree ==
    ASSUME IInv, NEW w \in Wallet, NEW r \in Request, NEW s \in Request, r # s,
           Inserting(r, w) \/ Linking(r, w), Inserting(s, w) \/ Linking(s, w)
    PROVE  req[r].seen.copayers = req[s].seen.copayers
BY RewriterKnows

\* The steps of a rewrite, and the failure of each.
RewriteStep(r) ==
    DeleteLookup(r) \/ InsertLookup(r) \/ StoreAfterLookup(r) \/ RewriteFails(r)

\* Nobody rewrites the lookup by another step.
LEMMA RewriteSteps ==
    ASSUME IInv, NEW r \in Request, Step(r), ~RewriteStep(r), ~Crash(r)
    PROVE  /\ lookup' = lookup /\ torn' = torn /\ down' = down
           /\ req[r].at \notin {"insert lookup", "store wallet and lookup"}
           /\ req'[r].at \notin {"insert lookup", "store wallet and lookup"}
<1> USE DEF RewriteStep
<1>t. TypeOK
  BY DEF IInv
<1>1. lookup' = lookup /\ torn' = torn /\ down' = down
  BY DEF Step, Acquire, Busy, Release, CallFails, CreateFetch, CreateStore, JoinStart,
     JoinRead, JoinLookup, AccessLookup, AccessRead, AddressStart, AddressRead,
     InsertAddresses, StoreWallet, StoreFails, Register, AddAddresses, MarkSynced,
     SyncStops, ScanStart, Unmark, ScanRead, ScanRunning, ScanBranch, ScanComplete,
     ScanEnd
<1>2. req[r].at \notin {"insert lookup", "store wallet and lookup"}
  BY DEF Step, At, Acquire, Busy, Release, CallFails, CreateFetch, CreateStore, JoinStart,
     JoinRead, JoinLookup, AccessLookup, AccessRead, AddressStart, AddressRead,
     InsertAddresses, StoreWallet, StoreFails, Register, AddAddresses, MarkSynced,
     SyncStops, ScanStart, Unmark, ScanRead, ScanRunning, ScanBranch, ScanComplete,
     ScanEnd
<1>3. ASSUME NEW stage, GoTo(r, stage) PROVE req'[r].at = stage
  BY <1>t, <1>3 DEF GoTo, TypeOK, Req
<1>4. ASSUME NEW stage, NEW d, GoWith(r, stage, d) PROVE req'[r].at = stage
  BY <1>t, <1>4 DEF GoWith, TypeOK, Req
<1>5. CASE Acquire(r) \/ Busy(r) \/ Release(r) \/ CreateFetch(r) \/ CreateStore(r)
  BY <1>1, <1>2, <1>3, <1>5 DEF Acquire, Busy, Release, CreateFetch, CreateStore
<1>6. CASE JoinStart(r) \/ JoinRead(r) \/ JoinLookup(r)
  BY <1>1, <1>2, <1>3, <1>4, <1>6 DEF JoinStart, JoinRead, JoinLookup
<1>7. CASE AccessLookup(r) \/ AccessRead(r)
  BY <1>1, <1>2, <1>3, <1>4, <1>7, Zenon DEF AccessLookup, AccessRead
<1>8. CASE AddressStart(r)
  BY <1>1, <1>2, <1>3, <1>8 DEF AddressStart
<1>9. CASE AddressRead(r)
  <2>1. \/ GoTo(r, "release")
        \/ \E first : req' = [req EXCEPT ![r].at = "release", ![r].got = first]
        \/ \E todo, e : req' = [req EXCEPT ![r].at = "insert", ![r].todo = todo, ![r].seen = e]
    BY <1>9, Zenon DEF AddressRead
  <2>2. req'[r].at \in {"release", "insert"}
    BY <1>t, <1>3, <2>1 DEF TypeOK, Req
  <2> QED
    BY <1>1, <1>2, <2>2
<1>10. CASE InsertAddresses(r) \/ MarkSynced(r) \/ SyncStops(r)
  BY <1>1, <1>2, <1>3, <1>10 DEF InsertAddresses, MarkSynced, SyncStops, AfterStore
<1>11. CASE StoreFails(r)
  <2>1. req'[r].at = AfterFailure(r)
    BY <1>t, <1>11 DEF StoreFails, TypeOK, Req
  <2> QED
    BY <1>1, <1>2, <2>1 DEF AfterFailure
<1>12. CASE StoreWallet(r)
  <2>1. \E got : req' = [req EXCEPT ![r].at = "register", ![r].got = got]
    BY <1>12, Zenon DEF StoreWallet
  <2>2. req'[r].at = "register"
    BY <1>t, <2>1 DEF TypeOK, Req
  <2> QED
    BY <1>1, <1>2, <2>2
<1>13. CASE Register(r)
  <2>1. GoTo(r, "add") \/ \E d : GoWith(r, "add", d)
    BY <1>13, Zenon DEF Register
  <2> QED
    BY <1>1, <1>2, <1>3, <1>4, <2>1
<1>14. CASE AddAddresses(r)
  <2>1. \E new : req' = [req EXCEPT ![r].at = "mark", ![r].sent = new]
    BY <1>14, Zenon DEF AddAddresses
  <2>2. req'[r].at = "mark"
    BY <1>t, <2>1 DEF TypeOK, Req
  <2> QED
    BY <1>1, <1>2, <2>2
<1>15. CASE ScanStart(r) \/ Unmark(r)
  BY <1>1, <1>2, <1>3, <1>15 DEF ScanStart, Unmark
<1>16. CASE ScanRead(r) \/ ScanRunning(r) \/ ScanComplete(r)
  <2>1. \E stage \in {"locking", "scan", "store scan"} : \E d : GoWith(r, stage, d)
    BY <1>16, Zenon DEF ScanRead, ScanRunning, ScanComplete
  <2> QED
    BY <1>1, <1>2, <1>4, <2>1
<1>17. CASE ScanBranch(r)
  BY <1>t, <1>1, <1>2, <1>17, ScanBranchOK
<1>18. CASE ScanEnd(r)
  BY <1>1, <1>2, <1>3, <1>18 DEF ScanEnd
<1>19. CASE CallFails(r)
  BY <1>1, <1>2, <1>3, <1>19 DEF CallFails
<1> QED
  BY <1>5, <1>6, <1>7, <1>8, <1>9, <1>10, <1>11, <1>12, <1>13, <1>14, <1>15, <1>16,
     <1>17, <1>18, <1>19 DEF Step

\* Entries that are inserted bring in nobody but the copayers of their copy,
\* and all of them if all are inserted.
LEMMA RegisteredMore ==
    ASSUME NEW w, NEW d, NEW new \in SUBSET Entries(w, d), lookup' = lookup \cup new
    PROVE  /\ Registered(w)' \subseteq Registered(w) \cup d.copayers
           /\ new = Entries(w, d) => Registered(w)' = Registered(w) \cup d.copayers
<1> DEFINE added == {e.copayer : e \in {f \in new : f.wallet = w}}
<1>1. Registered(w)' = Registered(w) \cup added
  BY DEF Registered
<1>2. \A f \in Entries(w, d) : f.wallet = w /\ f.copayer \in d.copayers
  BY DEF Entries
<1>3. ASSUME new = Entries(w, d), NEW c \in d.copayers PROVE c \in added
  <2> DEFINE f == [copayer |-> c, wallet |-> w, keys |-> d.keys[c]]
  <2>1. f \in Entries(w, d) /\ f.wallet = w /\ f.copayer = c
    BY DEF Entries
  <2> HIDE DEF f
  <2> QED
    BY <1>3, <2>1
<1> QED
  BY <1>1, <1>2, <1>3

\* A step rewrites the lookup of its own wallet only.
LEMMA LookupElsewhere ==
    ASSUME IInv, NEW r \in Request, Step(r), NEW w \in Wallet, w # W(r)
    PROVE  Registered(w)' = Registered(w)
<1>1. SUFFICES \A f : f.wallet = w => (f \in lookup' <=> f \in lookup)
  BY DEF Registered
<1>2. \A f \in Entries(W(r), req[r].seen) : f.wallet = W(r)
  BY DEF Entries
<1>3. CASE DeleteLookup(r)
  BY <1>3 DEF DeleteLookup
<1>4. CASE InsertLookup(r)
  BY <1>2, <1>4 DEF InsertLookup
<1>5. CASE RewriteFails(r)
  BY <1>2, <1>5 DEF RewriteFails
<1>6. CASE ~DeleteLookup(r) /\ ~InsertLookup(r) /\ ~RewriteFails(r)
  BY <1>6, RewriteSteps DEF RewriteStep, StoreAfterLookup, Crash
<1> QED
  BY <1>3, <1>4, <1>5, <1>6

\* Every step of a request keeps the lookup of every wallet.
LEMMA LookupStep ==
    ASSUME IInv, NEW r \in Request, Step(r), NEW w \in Wallet, LookupOK(w)
    PROVE  LookupOK(w)'
<1>t. TypeOK
  BY DEF IInv
<1>o. \A s \in Request \ {r} : req'[s] = req[s]
  BY <1>t, RequestsStep
<1> DEFINE Same == /\ Registered(w)' = Registered(w)
                   /\ docs'[w].copayers = docs[w].copayers
                   /\ w \in torn' <=> w \in torn
                   /\ \A s \in Request : /\ Inserting(s, w)' <=> Inserting(s, w)
                                         /\ Linking(s, w)' <=> Linking(s, w)
                                         /\ Inserting(s, w) \/ Linking(s, w) =>
                                              req'[s].seen = req[s].seen
<1>1. ASSUME Same PROVE LookupOK(w)'
  BY <1>1 DEF LookupOK, IsComplete
<1>m. ASSUME UNCHANGED down
      PROVE  \A s \in Request \ {r} : /\ Inserting(s, w)' <=> Inserting(s, w)
                                      /\ Linking(s, w)' <=> Linking(s, w)
                                      /\ req'[s].seen = req[s].seen
  BY <1>o, <1>m DEF Inserting, Linking, At
<1>2. CASE W(r) # w
  <2>1. docs'[w] = docs[w]
    BY <1>2, DocsStep
  <2>2. Registered(w)' = Registered(w) /\ (w \in torn' <=> w \in torn)
    BY <1>2, LookupElsewhere, TornStep
  <2>3. \A s \in Request : W(s) = w => (s \in down' <=> s \in down)
    BY <1>2
    DEF Step, Acquire, Busy, Release, CallFails, Crash, CreateFetch, CreateStore,
        JoinStart, JoinRead, JoinLookup, AccessLookup, AccessRead, DeleteLookup,
        InsertLookup, StoreAfterLookup, RewriteFails, AddressStart, AddressRead,
        InsertAddresses, StoreWallet, StoreFails, Register, AddAddresses, MarkSynced,
        SyncStops, ScanStart, Unmark, ScanRead, ScanRunning, ScanBranch, ScanComplete,
        ScanEnd
  <2>4. \A s \in Request : W(s) = w => req'[s] = req[s]
    BY <1>o, <1>2
  <2>5. Same
    BY <2>1, <2>2, <2>3, <2>4 DEF Inserting, Linking, At
  <2> QED
    BY <1>1, <2>5
<1>3. CASE W(r) = w /\ ~RewriteStep(r) /\ ~Crash(r)
  <2>1. /\ lookup' = lookup /\ torn' = torn /\ down' = down
        /\ req[r].at \notin {"insert lookup", "store wallet and lookup"}
        /\ req'[r].at \notin {"insert lookup", "store wallet and lookup"}
    BY <1>3, RewriteSteps
  <2>2. docs'[w].copayers = docs[w].copayers
    BY <1>3, <2>1, DocsStep DEF Kept, Created, Joined, IInv, DocsOK
  <2>3. Same
    BY <1>m, <2>1, <2>2 DEF Inserting, Linking, At, Registered
  <2> QED
    BY <1>1, <2>3
<1>4. CASE W(r) = w /\ Crash(r)
  <2>1. /\ UNCHANGED <<docs, lookup, req>> /\ down' = down \cup {r}
        /\ torn' = IF Rewriting(r) THEN torn \cup {w} ELSE torn
    BY <1>4 DEF Crash
  <2>2. \A s \in Request : /\ Inserting(s, w)' => Inserting(s, w)
                           /\ Linking(s, w)' => Linking(s, w)
    BY <2>1 DEF Inserting, Linking, At
  <2>3. ~Rewriting(r) => \A s \in Request : /\ Inserting(s, w) => Inserting(s, w)'
                                            /\ Linking(s, w) => Linking(s, w)'
    BY <2>1 DEF Rewriting, Inserting, Linking, At
  <2>4. Registered(w)' = Registered(w)
    BY <2>1 DEF Registered
  <2> QED
    BY <2>1, <2>2, <2>3, <2>4 DEF LookupOK, IsComplete
<1>5. CASE W(r) = w /\ DeleteLookup(r)
  <2>1. Registered(w)' = {}
    BY <1>5 DEF DeleteLookup, Registered
  <2>2. Inserting(r, w)'
    <3>1. "insert lookup" \in Stage
      BY DEF Stage
    <3> QED
      BY <1>t, <1>5, <3>1, GoToReq DEF DeleteLookup, Inserting, At
  <2> QED
    BY <2>1, <2>2 DEF LookupOK
<1>6. CASE W(r) = w /\ InsertLookup(r)
  <2>1. Inserting(r, w) /\ ~Linking(r, w) /\ UNCHANGED <<docs, down>> /\ w \notin torn'
    BY <1>6 DEF InsertLookup, At, Inserting, Linking
  <2>2. req'[r].at = "store wallet and lookup" /\ req'[r].seen = req[r].seen
    <3>1. "store wallet and lookup" \in Stage
      BY DEF Stage
    <3> QED
      BY <1>t, <1>6, <3>1, GoToReq DEF InsertLookup
  <2>3. Registered(w)' = req[r].seen.copayers
    <3>1. lookup' = lookup \cup Entries(w, req[r].seen)
      BY <1>6 DEF InsertLookup
    <3>2. Registered(w)' = Registered(w) \cup req[r].seen.copayers
      BY <3>1, RegisteredMore
    <3> QED
      BY <2>1, <3>2 DEF LookupOK
  <2>4. ~Inserting(r, w)' /\ Linking(r, w)'
    BY <1>6, <2>1, <2>2 DEF Inserting, Linking, At
  <2>5. \A s \in Request : Inserting(s, w)' \/ Linking(s, w)' =>
          req'[s].seen.copayers = req[r].seen.copayers
    BY <1>m, <2>1, <2>2, RewritersAgree
  <2>6. IsComplete(docs[w])' => Registered(w)' \subseteq docs'[w].copayers
    BY <2>1, <2>3, RewriterKnows DEF IsComplete
  <2> QED
    BY <2>3, <2>4, <2>5, <2>6 DEF LookupOK
<1>7. CASE W(r) = w /\ StoreAfterLookup(r)
  <2>1. Linking(r, w) /\ ~Inserting(r, w) /\ UNCHANGED <<lookup, down, torn>>
    BY <1>7 DEF StoreAfterLookup, At, Linking, Inserting
  <2>2. ~Linking(r, w)' /\ ~Inserting(r, w)'
    <3>1. (IF Is(r, "join") THEN "release" ELSE "done") \in Stage
      BY DEF Stage
    <3>2. req'[r].at = IF Is(r, "join") THEN "release" ELSE "done"
      BY <1>t, <1>7, <3>1, GoToReq DEF StoreAfterLookup
    <3> QED
      BY <3>2 DEF Linking, Inserting, At
  <2>3. docs'[w] = req[r].seen
    BY <1>t, <1>7, Fields, StoreDocs DEF StoreAfterLookup
  <2>4. Registered(w)' = Registered(w)
    BY <2>1 DEF Registered
  <2> QED
    BY <1>m, <2>1, <2>2, <2>3, <2>4 DEF LookupOK
<1>8. CASE W(r) = w /\ RewriteFails(r)
  <2>1. w \in torn' /\ UNCHANGED down
    BY <1>8 DEF RewriteFails
  <2>2. ~Linking(r, w)' /\ ~Inserting(r, w)'
    <3>1. (IF Is(r, "join") THEN "release" ELSE "refused") \in Stage
      BY DEF Stage
    <3>2. req'[r].at = IF Is(r, "join") THEN "release" ELSE "refused"
      BY <1>t, <1>8, <3>1, GoToReq DEF RewriteFails
    <3> QED
      BY <3>2 DEF Linking, Inserting, At
  <2>3. SUFFICES /\ IsComplete(docs[w])' => Registered(w)' \subseteq docs'[w].copayers
                 /\ \A s \in Request \ {r} : Inserting(s, w) \/ Linking(s, w) =>
                      Registered(w)' \subseteq req[s].seen.copayers
    BY <1>m, <2>1, <2>2 DEF LookupOK
  <2>4. CASE \E gone : lookup' = lookup \ gone /\ UNCHANGED docs
    <3>1. Registered(w)' \subseteq Registered(w)
      BY <2>4 DEF Registered
    <3> QED
      BY <2>4, <3>1 DEF LookupOK, IsComplete
  <2>5. CASE /\ Inserting(r, w) /\ UNCHANGED docs
             /\ \E new \in SUBSET Entries(w, req[r].seen) : lookup' = lookup \cup new
    <3>1. Registered(w)' \subseteq req[r].seen.copayers
      <4>1. Registered(w)' \subseteq Registered(w) \cup req[r].seen.copayers
        BY <2>5, RegisteredMore
      <4> QED
        BY <2>5, <4>1 DEF LookupOK
    <3>2. \A s \in Request \ {r} : Inserting(s, w) \/ Linking(s, w) =>
            req[s].seen.copayers = req[r].seen.copayers
      BY <2>5, RewritersAgree
    <3> QED
      BY <2>5, <3>1, <3>2, RewriterKnows DEF IsComplete
  <2>6. CASE Linking(r, w) /\ UNCHANGED lookup /\ (UNCHANGED docs \/ StoreDoc(r, req[r].seen))
    <3>1. Registered(w)' = Registered(w)
      BY <2>6 DEF Registered
    <3>2. docs'[w] = docs[w] \/ docs'[w] = req[r].seen
      BY <1>t, <1>8, <2>6, Fields, StoreDocs
    <3> QED
      BY <2>6, <3>1, <3>2 DEF LookupOK, IsComplete
  <2> QED
    BY <1>8, <2>4, <2>5, <2>6 DEF RewriteFails, Inserting, Linking
<1> QED
  BY <1>2, <1>3, <1>4, <1>5, <1>6, <1>7, <1>8 DEF RewriteStep

\* What the end of a lease leaves, and a step of nobody.
LEMMA LookupStays ==
    ASSUME UNCHANGED <<docs, lookup, req, down, torn>>, NEW w \in Wallet, LookupOK(w)
    PROVE  LookupOK(w)'
BY DEF LookupOK, Registered, Inserting, Linking, At, IsComplete

LookupInv == IInv /\ \A w \in Wallet : LookupOK(w)

\* Through every join, new key, failed call and crash the lookup has nobody
\* whom the copy that is stored next lacks, and it lacks nobody unless an insert
\* is to come or the last rewrite was cut short (storeWalletAndUpdateCopayersLookup).
THEOREM LookupInvariant == Spec => []LookupInv
<1>1. Init => LookupInv
  <2>1. ASSUME Init, NEW w \in Wallet PROVE LookupOK(w)
    <3>1. Registered(w) = {} /\ docs[w].copayers = {}
      BY <2>1 DEF Init, Registered, NoDoc
    <3>2. \A r \in Request : ~Inserting(r, w) /\ ~Linking(r, w)
      BY <2>1 DEF Init, NewReq, Inserting, Linking, At
    <3> QED
      BY <3>1, <3>2 DEF LookupOK
  <2> QED
    BY <2>1, InitOK DEF LookupInv
<1>2. LookupInv /\ [Next]_vars => LookupInv'
  <2> SUFFICES ASSUME LookupInv, [Next]_vars PROVE LookupInv'
    OBVIOUS
  <2>1. IInv /\ IInv'
    BY NextOK DEF LookupInv
  <2>2. ASSUME NEW w \in Wallet PROVE LookupOK(w)'
    <3>1. LookupOK(w)
      BY DEF LookupInv
    <3>2. ASSUME NEW r \in Request, Step(r) PROVE LookupOK(w)'
      BY <2>1, <3>1, <3>2, LookupStep
    <3>3. CASE UNCHANGED vars \/ \E v \in Wallet : LeaseEnds(v)
      BY <3>1, <3>3, LookupStays DEF vars, LeaseEnds
    <3> QED
      BY <3>2, <3>3 DEF Next
  <2> QED
    BY <2>1, <2>2 DEF LookupInv
<1> QED
  BY <1>1, <1>2, PTL DEF Spec

\* Nobody but its copayers can ever be authenticated for a complete wallet, and
\* all of a wallet's copayers can, unless its lookup is being rewritten or the
\* last rewrite failed or was stopped (joinWallet, addAccess).
THEOREM LookupIsExact == Spec => []LookupMatches
<1>1. LookupInv => LookupMatches
  <2> SUFFICES ASSUME LookupInv, NEW w \in Wallet
               PROVE  /\ IsComplete(docs[w]) => Registered(w) \subseteq docs[w].copayers
                      /\ \/ \E r \in Request \ down : Rewriting(r) /\ W(r) = w
                         \/ w \in torn
                         \/ Registered(w) = docs[w].copayers
    BY DEF LookupMatches
  <2>1. ASSUME ~(\E r \in Request \ down : Rewriting(r) /\ W(r) = w)
        PROVE  \A r \in Request : ~Inserting(r, w) /\ ~Linking(r, w)
    BY <2>1 DEF Rewriting, Inserting, Linking, At
  <2> QED
    BY <2>1 DEF LookupInv, LookupOK
<1> QED
  BY <1>1, LookupInvariant, PTL

-----------------------------------------------------------------------------
\* The index

\* An address has been stored or given up, and will have been ever after.
Had(a) == IsStored(a) \/ a \in dropped

\* Every address below the index of this copy of wallet w was.
Below(w, d) == \A i \in 0 .. d.index - 1 : Had(AddressOf(w, d, i))

\* A wallet has no index before it is complete.
DocHole ==
    \A w \in Wallet : Below(w, docs[w]) /\ (~IsComplete(docs[w]) => docs[w].index = 0)

\* Every copy that may be stored is below its index too, and before the insert
\* what is not yet had is what is to be inserted.
CopyHole(r) ==
    LET copy == req[r].seen
        todo == req[r].todo
    IN  /\ CopyOfComplete(r) /\ req[r].at \notin {"insert", "scan done"} => Below(W(r), copy)
        /\ req[r].at = "insert" =>
             \A i \in 0 .. copy.index - 1 :
               \/ Had(AddressOf(W(r), copy, i))
               \/ \E k \in DOMAIN todo : todo[k] = AddressOf(W(r), copy, i)
        /\ req[r].at = "lookup" => copy.index = 0
        /\ Is(r, "join") /\ req[r].at \in Rewrite => copy.index = 0

HoleInv == IInv /\ DocHole /\ \A r \in Request \ down : CopyHole(r)

\* No step takes an address back (ADDRESSES only grows).
LEMMA HadStays ==
    ASSUME NEW r \in Request, Step(r)
    PROVE  /\ \A a : Had(a) => Had(a)'
           /\ \A w, d : Below(w, d) => Below(w, d)'
<1>1. stored \subseteq stored' /\ dropped \subseteq dropped'
  BY DEF Step, dbAddresses, Acquire, Busy, Release, Crash, CreateFetch, CreateStore,
     JoinStart, JoinRead, JoinLookup, AccessLookup, AccessRead, DeleteLookup,
     InsertLookup, StoreAfterLookup, RewriteFails, AddressStart, AddressRead,
     InsertAddresses, StoreWallet, StoreFails, Register, AddAddresses, MarkSynced,
     SyncStops, ScanStart, Unmark, ScanRead, ScanRunning, ScanBranch, ScanComplete,
     ScanEnd, CallFails
<1>2. ASSUME NEW a, Had(a) PROVE Had(a)'
  BY <1>1, <1>2 DEF Had, IsStored
<1>3. ASSUME NEW w, NEW d, Below(w, d) PROVE Below(w, d)'
  BY <1>2, <1>3 DEF Below, AddressOf
<1> QED
  BY <1>2, <1>3

\* Copies with the same copayers and index have the same addresses.
LEMMA BelowSame ==
    ASSUME NEW w, NEW d, NEW e, d.copayers = e.copayers, d.index = e.index, Below(w, d)
    PROVE  Below(w, e)
BY DEF Below, AddressOf

\* The index of a copy that is changed elsewhere.
LEMMA DocIndex ==
    ASSUME NEW d \in Doc
    PROVE  /\ NewDoc.index = 0
           /\ d.index \in Nat
           /\ \A c \in Copayer : [d EXCEPT !.copayers = @ \cup {c}].index = d.index
           /\ \A c \in Copayer, r \in Request :
                [d EXCEPT !.keys[c] = @ \cup {r}].index = d.index
           /\ \A status \in {"none", "running", "success", "error"} :
                [d EXCEPT !.scan = status].index = d.index
           /\ \A b \in {TRUE, FALSE} : [d EXCEPT !.registered = b].index = d.index
BY DEF NewDoc, NoDoc, Doc

\* A document that is stored has no hole: it is a copy of a complete wallet
\* whose addresses were inserted first, or has no index yet
\* (storeAddressAndWallet, storeWalletAndUpdateCopayersLookup).
LEMMA DocHoleStep ==
    ASSUME HoleInv, NEW r \in Request, Step(r)
    PROVE  DocHole'
<1> USE DEF HoleInv
<1> DEFINE d == docs[W(r)]
           copy == req[r].seen
           Goal == /\ Below(W(r), docs'[W(r)])
                   /\ ~IsComplete(docs'[W(r)]) => docs'[W(r)].index = 0
<1>t. TypeOK
  BY DEF IInv
<1>1. d \in Doc /\ copy \in Doc /\ W(r) \in Wallet
  BY <1>t, Fields
<1>2. Below(W(r), d) /\ (~IsComplete(d) => d.index = 0)
  BY <1>1 DEF DocHole
<1>s. ASSUME Goal PROVE DocHole'
  <2>1. ASSUME NEW w \in Wallet
        PROVE  Below(w, docs[w])' /\ (~IsComplete(docs'[w]) => docs'[w].index = 0)
    <3>1. Below(w, docs'[w]) /\ (~IsComplete(docs'[w]) => docs'[w].index = 0)
      BY <1>s, <2>1, DocsStep DEF DocHole
    <3>2. ASSUME NEW e, e = docs'[w] PROVE Below(w, docs[w])'
      <4>1. Below(w, e)'
        BY <3>1, <3>2, HadStays
      <4> QED
        BY <3>2, <4>1 DEF Below
    <3> QED
      BY <3>1, <3>2
  <2> QED
    BY <2>1 DEF DocHole, IsComplete
<1>3. CASE UNCHANGED docs
  BY <1>2, <1>3, <1>s
<1>4. ASSUME NEW e \in Doc, StoreDoc(r, e), r \notin down, CopyOfComplete(r),
             e.copayers = copy.copayers, e.index = copy.index,
             req[r].at \notin {"insert", "scan done"}
      PROVE  DocHole'
  <2>1. docs'[W(r)] = e
    BY <1>t, <1>4, StoreDocs
  <2>2. Below(W(r), copy)
    BY <1>4 DEF CopyHole
  <2>3. Below(W(r), e)
    BY <1>4, <2>2, BelowSame
  <2>4. IsComplete(e)
    <3>1. RequestOK(r)
      BY <1>4 DEF IInv, RequestsOK
    <3>2. IsComplete(d) /\ copy.copayers = d.copayers
      BY <1>4, <3>1 DEF RequestOK
    <3> QED
      BY <1>4, <3>2 DEF IsComplete
  <2> QED
    BY <1>s, <2>1, <2>3, <2>4
<1>5. CASE CreateStore(r)
  <2>1. docs'[W(r)] = NewDoc
    BY <1>1, <1>t, <1>5, DocTypes, StoreDocs DEF CreateStore
  <2>2. NewDoc.index = 0
    BY <1>1, DocIndex
  <2>3. Below(W(r), NewDoc)
    BY <2>2 DEF Below
  <2> QED
    BY <1>s, <2>1, <2>2, <2>3
<1>6. ASSUME At(r, "store wallet and lookup"), StoreDoc(r, copy)
      PROVE  DocHole'
  <2>1. r \notin down /\ req[r].at = "store wallet and lookup" /\ StoreDoc(r, copy)
    BY <1>6 DEF At
  <2>2. RequestOK(r) /\ CopyHole(r)
    BY <2>1 DEF IInv, RequestsOK
  <2>3. CASE Is(r, "join")
    <3>1. copy.index = 0 /\ docs'[W(r)] = copy
      BY <1>1, <1>t, <2>1, <2>2, <2>3, StoreDocs DEF CopyHole, Rewrite
    <3>2. Below(W(r), copy)
      BY <3>1 DEF Below
    <3> QED
      BY <1>s, <3>1, <3>2
  <2>4. CASE ~Is(r, "join")
    <3>1. CopyOfComplete(r)
      BY <2>1, <2>2, <2>4 DEF RequestOK, OnCourse, CopyOfComplete, Rewrite, Ended, Storing
    <3> QED
      BY <1>1, <1>4, <2>1, <3>1
  <2> QED
    BY <2>3, <2>4
<1>7. CASE StoreWallet(r) \/ ScanEnd(r)
  <2>1. /\ r \notin down /\ req[r].at \in {"store", "store scan"}
        /\ StoreDoc(r, copy)
    BY <1>7 DEF StoreWallet, ScanEnd, At
  <2>2. CopyOfComplete(r)
    BY <2>1
    DEF IInv, RequestsOK, RequestOK, OnCourse, CopyOfComplete, Rewrite, Ended, Storing
  <2> QED
    BY <1>1, <1>4, <2>1, <2>2
<1>8. CASE Register(r)
  <2> DEFINE e == [copy EXCEPT !.registered = TRUE]
  <2>1. r \notin down /\ req[r].at = "register" /\ (UNCHANGED docs \/ StoreDoc(r, e))
    BY <1>8 DEF Register, At
  <2>2. CopyOfComplete(r)
    BY <2>1
    DEF IInv, RequestsOK, RequestOK, OnCourse, CopyOfComplete, Rewrite, Ended, Storing
  <2>3. e \in Doc /\ e.copayers = copy.copayers /\ e.index = copy.index
    BY <1>1, DocTypes, DocIndex
  <2> HIDE DEF e
  <2> QED
    BY <1>3, <1>4, <2>1, <2>2, <2>3
<1>9. CASE ScanStart(r)
  <2> DEFINE e == [d EXCEPT !.registered = FALSE]
  <2>1. UNCHANGED docs \/ StoreDoc(r, e)
    BY <1>9 DEF ScanStart
  <2>2. e \in Doc /\ e.copayers = d.copayers /\ e.index = d.index
    BY <1>1, DocTypes, DocIndex
  <2> HIDE DEF e
  <2>3. Below(W(r), e) /\ (~IsComplete(e) => e.index = 0)
    BY <1>2, <2>2, BelowSame DEF IsComplete
  <2>4. CASE StoreDoc(r, e)
    <3>1. docs'[W(r)] = e
      BY <1>t, <2>2, <2>4, StoreDocs
    <3> QED
      BY <1>s, <2>3, <3>1
  <2> QED
    BY <1>3, <2>1, <2>4
<1>10. CASE ScanRunning(r)
  <2> DEFINE e == [copy EXCEPT !.scan = "running"]
  <2>1. r \notin down /\ req[r].at = "start scan" /\ StoreDoc(r, e)
    BY <1>10 DEF ScanRunning, At
  <2>2. CopyOfComplete(r)
    BY <2>1
    DEF IInv, RequestsOK, RequestOK, OnCourse, CopyOfComplete, Rewrite, Ended, Storing
  <2>3. e \in Doc /\ e.copayers = copy.copayers /\ e.index = copy.index
    BY <1>1, DocTypes, DocIndex
  <2> HIDE DEF e
  <2> QED
    BY <1>4, <2>1, <2>2, <2>3
<1>11. CASE StoreAfterLookup(r) \/ RewriteFails(r)
  BY <1>3, <1>6, <1>11 DEF StoreAfterLookup, RewriteFails
<1> QED
  BY <1>3, <1>5, <1>7, <1>8, <1>9, <1>10, <1>11
  DEF Step, CreateFetch, JoinStart, JoinRead, JoinLookup, AccessLookup, AccessRead,
      DeleteLookup, InsertLookup, AddressStart, AddressRead, InsertAddresses,
      StoreFails, AddAddresses, MarkSynced, SyncStops, Unmark, ScanRead, ScanBranch,
      ScanComplete, Acquire, Busy, Release, CallFails, Crash

\* A step of one request leaves the copies of the others.
LEMMA OthersHole ==
    ASSUME TypeOK, NEW r \in Request, Step(r), NEW s \in Request \ {r}, CopyHole(s)
    PROVE  CopyHole(s)'
<1> DEFINE q == req[s]
           Tried(i) == \E k \in DOMAIN q.todo : q.todo[k] = AddressOf(W(s), q.seen, i)
<1>1. req'[s] = q
  BY RequestsStep
<1>2. CopyOfComplete(s)' <=> CopyOfComplete(s)
  BY <1>1 DEF CopyOfComplete
<1>3. Below(W(s), q.seen) => Below(W(s), req[s].seen)'
  <2>1. ASSUME NEW e, e = q.seen, Below(W(s), e) PROVE Below(W(s), req[s].seen)'
    <3>1. Below(W(s), e)'
      BY <2>1, HadStays
    <3> QED
      BY <1>1, <2>1, <3>1 DEF Below
  <2> QED
    BY <2>1
<1>4. ASSUME NEW i, Had(AddressOf(W(s), q.seen, i)) \/ Tried(i)
      PROVE  Had(AddressOf(W(s), req[s].seen, i))' \/ Tried(i)
  <2>1. ASSUME NEW a, a = AddressOf(W(s), q.seen, i), Had(a)
        PROVE  Had(AddressOf(W(s), req[s].seen, i))'
    <3>1. Had(a)' /\ a = AddressOf(W(s), req[s].seen, i)'
      BY <1>1, <2>1, HadStays DEF AddressOf
    <3> QED
      BY <3>1 DEF Had, IsStored
  <2> QED
    BY <1>4, <2>1
<1>5. q.at = "insert" =>
        \A i \in 0 .. q.seen.index - 1 : Had(AddressOf(W(s), q.seen, i)) \/ Tried(i)
  BY DEF CopyHole
<1>6. q.at = "insert" =>
        \A i \in 0 .. q.seen.index - 1 : Had(AddressOf(W(s), req[s].seen, i))' \/ Tried(i)
  BY <1>4, <1>5
<1>7. \A i : Tried(i) => \E k \in DOMAIN req'[s].todo :
                 req'[s].todo[k] = AddressOf(W(s), req'[s].seen, i)
  BY <1>1
<1>8. q.at = "insert" =>
        \A i \in 0 .. req'[s].seen.index - 1 :
          \/ Had(AddressOf(W(s), req[s].seen, i))'
          \/ \E k \in DOMAIN req'[s].todo :
               req'[s].todo[k] = AddressOf(W(s), req'[s].seen, i)
  BY <1>1, <1>6, <1>7
<1>9. /\ CopyOfComplete(s) /\ q.at \notin {"insert", "scan done"} => Below(W(s), q.seen)
      /\ q.at = "lookup" => q.seen.index = 0
      /\ Is(s, "join") /\ q.at \in Rewrite => q.seen.index = 0
  BY DEF CopyHole
<1> QED
  BY <1>1, <1>2, <1>3, <1>8, <1>9 DEF CopyHole

\* A request whose next copy is below its index, or needs not be.
LEMMA PlainHole ==
    ASSUME NEW r \in Request, req'[r].at \notin {"insert", "lookup"},
           Is(r, "join") => req'[r].at \notin Rewrite,
           \/ ~CopyOfComplete(r)'
           \/ req'[r].at = "scan done"
           \/ \A e : e = req'[r].seen => Below(W(r), e)'
    PROVE  CopyHole(r)'
<1>1. ASSUME NEW e, Below(W(r), e)', e = req'[r].seen
      PROVE  Below(W(r), req[r].seen)'
  BY <1>1 DEF Below
<1> QED
  BY <1>1 DEF CopyHole

\* A request that runs has a copy below its index after its step too, or is
\* about to insert what the copy lacks (createAddress, _store, scanBranch).
LEMMA SelfHole ==
    ASSUME HoleInv, NEW r \in Request \ down, Step(r), ~Crash(r)
    PROVE  CopyHole(r)'
<1> USE DEF HoleInv
<1> DEFINE d == docs[W(r)]
           copy == req[r].seen
<1>t. TypeOK /\ RequestOK(r) /\ CopyHole(r)
  BY DEF IInv, RequestsOK
<1>1. d \in Doc /\ copy \in Doc /\ W(r) \in Wallet /\ Op[r].copayer \in Copayer
  BY <1>t, Fields
<1>d. /\ \A e : e.copayers = d.copayers /\ e.index = d.index => Below(W(r), e)'
      /\ ~IsComplete(d) => d.index = 0
  <2>1. Below(W(r), d) /\ (~IsComplete(d) => d.index = 0)
    BY <1>1 DEF DocHole
  <2>2. ASSUME NEW e, e.copayers = d.copayers, e.index = d.index PROVE Below(W(r), e)'
    <3>1. Below(W(r), e)
      BY <2>1, <2>2, BelowSame
    <3> QED
      BY <3>1, HadStays
  <2> QED
    BY <2>1, <2>2
<1>c. CopyOfComplete(r) /\ req[r].at \notin {"insert", "scan done"} =>
        \A e : e.copayers = copy.copayers /\ e.index = copy.index => Below(W(r), e)'
  <2> SUFFICES ASSUME CopyOfComplete(r), req[r].at \notin {"insert", "scan done"},
                      NEW e, e.copayers = copy.copayers, e.index = copy.index
               PROVE  Below(W(r), e)'
    OBVIOUS
  <2>1. Below(W(r), copy)
    BY <1>t DEF CopyHole
  <2>2. Below(W(r), e)
    BY <2>1, BelowSame
  <2> QED
    BY <2>2, HadStays
<1>2. ASSUME NEW stage, GoTo(r, stage) PROVE req'[r].at = stage /\ req'[r].seen = copy
  BY <1>t, <1>2 DEF GoTo, TypeOK, Req
<1>3. ASSUME NEW stage, NEW e, GoWith(r, stage, e)
      PROVE  req'[r].at = stage /\ req'[r].seen = e
  BY <1>t, <1>3 DEF GoWith, TypeOK, Req
<1>k. req[r].at \in Storing => CopyOfComplete(r) /\ ~Is(r, "join") /\ ~Is(r, "access")
  BY <1>t DEF RequestOK, OnCourse, CopyOfComplete, Storing, Rewrite, Ended, Is
<1>4. ASSUME req'[r].at \in {"refused", "done", "release", "store new", "unmark", "scan read",
                             "access", "read"}
      PROVE  CopyHole(r)'
  <2>1. ~CopyOfComplete(r)'
    BY <1>4 DEF CopyOfComplete, Rewrite, Storing
  <2> QED
    BY <1>4, <2>1, PlainHole DEF Rewrite
<1>5. ASSUME req'[r].at \notin {"insert", "lookup"} \cup Rewrite, req'[r].seen = copy,
             CopyOfComplete(r), req[r].at \notin {"insert", "scan done"}
      PROVE  CopyHole(r)'
  BY <1>5, <1>c, PlainHole
<1>6. CASE \/ Busy(r) \/ Release(r) \/ CreateFetch(r) \/ CreateStore(r)
           \/ StoreAfterLookup(r) \/ RewriteFails(r) \/ CallFails(r)
           \/ ScanStart(r) \/ Unmark(r) \/ ScanEnd(r)
  BY <1>2, <1>4, <1>6
  DEF Busy, Release, CreateFetch, CreateStore, StoreAfterLookup, RewriteFails, CallFails,
      ScanStart, Unmark, ScanEnd
<1>7. CASE AccessLookup(r)
  <2>1. GoTo(r, "refused") \/ GoTo(r, "access")
    BY <1>7, Zenon DEF AccessLookup
  <2> QED
    BY <1>2, <1>4, <2>1
<1>8. CASE JoinStart(r) \/ AddressStart(r)
  <2>1. ~Is(r, "scan") /\ (GoTo(r, "refused") \/ GoTo(r, "locking"))
    BY <1>8 DEF JoinStart, AddressStart, Is
  <2>2. CASE GoTo(r, "locking")
    <3>1. req'[r].at = "locking"
      BY <1>2, <2>2
    <3>2. ~CopyOfComplete(r)'
      BY <2>1, <3>1 DEF CopyOfComplete, Rewrite, Storing
    <3> QED
      BY <3>1, <3>2, PlainHole DEF Rewrite
  <2> QED
    BY <1>2, <1>4, <2>1, <2>2
<1>9. CASE Acquire(r)
  <2>1. CASE Is(r, "scan")
    <3>1. CopyOfComplete(r) /\ req[r].at = "locking"
      BY <1>9, <2>1 DEF Acquire, At, CopyOfComplete
    <3>2. req'[r].at = "start scan" /\ req'[r].seen = copy
      BY <1>2, <1>9, <2>1 DEF Acquire
    <3> QED
      BY <1>5, <3>1, <3>2 DEF Rewrite
  <2>2. CASE ~Is(r, "scan")
    BY <1>2, <1>4, <1>9, <2>2 DEF Acquire
  <2> QED
    BY <2>1, <2>2
<1>10. CASE JoinRead(r)
  <2>1. GoTo(r, "release") \/ (~IsComplete(d) /\ GoWith(r, "lookup", d))
    BY <1>10 DEF JoinRead
  <2>2. CASE ~IsComplete(d) /\ GoWith(r, "lookup", d)
    <3>1. req'[r].at = "lookup" /\ req'[r].seen = d
      BY <1>3, <2>2
    <3>2. ~CopyOfComplete(r)'
      BY <3>1 DEF CopyOfComplete, Rewrite, Storing
    <3> QED
      BY <1>d, <2>2, <3>1, <3>2 DEF CopyHole, Rewrite
  <2> QED
    BY <1>2, <1>4, <2>1, <2>2
<1>11. CASE JoinLookup(r)
  <2> DEFINE e == [copy EXCEPT !.copayers = @ \cup {Op[r].copayer}]
  <2>1. req[r].at = "lookup" /\ (GoTo(r, "release") \/ GoWith(r, "delete lookup", e))
    BY <1>11 DEF JoinLookup, At
  <2>2. e.index = 0
    BY <1>1, <1>t, <2>1, DocIndex DEF CopyHole
  <2>3. Is(r, "join")
    BY <1>t, <2>1 DEF RequestOK, OnCourse, Ended, Rewrite, Storing
  <2> HIDE DEF e
  <2>4. CASE GoWith(r, "delete lookup", e)
    <3>1. req'[r].at = "delete lookup" /\ req'[r].seen = e
      BY <1>3, <2>4
    <3>2. ~CopyOfComplete(r)'
      BY <2>3, <3>1 DEF CopyOfComplete, Storing, Is
    <3> QED
      BY <2>2, <3>1, <3>2 DEF CopyHole
  <2> QED
    BY <1>2, <1>4, <2>1, <2>4
<1>12. CASE AccessRead(r)
  <2> DEFINE e == [d EXCEPT !.keys[Op[r].copayer] = @ \cup {r}]
  <2>1. req[r].at = "access" /\ (GoTo(r, "refused") \/ GoWith(r, "delete lookup", e))
    BY <1>12, Zenon DEF AccessRead, At
  <2>2. e.copayers = d.copayers /\ e.index = d.index
    BY <1>1, KeyTypes, DocIndex
  <2>3. ~Is(r, "join")
    BY <1>t, <2>1 DEF RequestOK, OnCourse, Ended, Rewrite, Storing, Is
  <2> HIDE DEF e
  <2>4. CASE GoWith(r, "delete lookup", e)
    <3>1. req'[r].at = "delete lookup" /\ req'[r].seen = e
      BY <1>3, <2>4
    <3> QED
      BY <1>d, <2>2, <2>3, <3>1, PlainHole
  <2> QED
    BY <1>2, <1>4, <2>1, <2>4
<1>13. CASE DeleteLookup(r) \/ InsertLookup(r)
  <2>1. /\ req[r].at \in {"delete lookup", "insert lookup"}
        /\ req'[r].at \in {"insert lookup", "store wallet and lookup"}
        /\ req'[r].seen = copy
    BY <1>2, <1>13 DEF DeleteLookup, InsertLookup, At
  <2>2. Is(r, "join") \/ Is(r, "access")
    BY <1>t, <2>1 DEF RequestOK, OnCourse, Ended, Rewrite, Storing
  <2>3. CASE Is(r, "join")
    <3>1. ~CopyOfComplete(r)'
      BY <2>1, <2>3 DEF CopyOfComplete, Storing, Is
    <3>2. copy.index = 0
      BY <1>t, <2>1, <2>3 DEF CopyHole, Rewrite
    <3> QED
      BY <2>1, <3>1, <3>2 DEF CopyHole
  <2>4. CASE Is(r, "access")
    <3>1. CopyOfComplete(r) /\ ~Is(r, "join")
      BY <2>1, <2>4 DEF CopyOfComplete, Rewrite, Is
    <3> QED
      BY <1>c, <2>1, <3>1, PlainHole
  <2> QED
    BY <2>2, <2>3, <2>4
<1>14. CASE AddressRead(r)
  <2> DEFINE e == [d EXCEPT !.index = @ + 1]
             todo == <<AddressOf(W(r), d, d.index)>>
  <2>1. \/ req'[r].at = "release"
        \/ req' = [req EXCEPT ![r].at = "insert", ![r].todo = todo, ![r].seen = e]
    <3>1. \/ GoTo(r, "release")
          \/ \E first : req' = [req EXCEPT ![r].at = "release", ![r].got = first]
          \/ req' = [req EXCEPT ![r].at = "insert", ![r].todo = todo, ![r].seen = e]
      BY <1>14, Zenon DEF AddressRead
    <3> HIDE DEF e, todo
    <3> QED
      BY <1>t, <1>2, <3>1 DEF TypeOK, Req
  <2>2. e.copayers = d.copayers /\ e.index = d.index + 1 /\ d.index \in Nat
    BY <1>1 DEF Doc
  <2>3. 1 \in DOMAIN todo /\ todo[1] = AddressOf(W(r), d, d.index)
    OBVIOUS
  <2>4. \A i : AddressOf(W(r), e, i) = AddressOf(W(r), d, i)
    BY <2>2 DEF AddressOf
  <2> HIDE DEF e, todo
  <2>5. CASE req' = [req EXCEPT ![r].at = "insert", ![r].todo = todo, ![r].seen = e]
    <3>1. req'[r].at = "insert" /\ req'[r].todo = todo /\ req'[r].seen = e
      BY <1>t, <2>5 DEF TypeOK, Req
    <3>2. ASSUME NEW i \in 0 .. d.index
          PROVE  \/ Had(AddressOf(W(r), req[r].seen, i))'
                 \/ \E k \in DOMAIN todo : todo[k] = AddressOf(W(r), e, i)
      <4>1. CASE i = d.index
        BY <2>3, <2>4, <4>1
      <4>2. CASE i # d.index
        <5>1. ASSUME NEW f, f = d PROVE Had(AddressOf(W(r), f, i))'
          BY <1>d, <2>2, <4>2, <5>1 DEF Below
        <5>2. AddressOf(W(r), req[r].seen, i)' = AddressOf(W(r), d, i)
          BY <2>2, <3>1 DEF AddressOf
        <5> QED
          BY <5>1, <5>2 DEF Had, IsStored, AddressOf
      <4> QED
        BY <4>1, <4>2
    <3>3. 0 .. req'[r].seen.index - 1 = 0 .. d.index
      BY <2>2, <3>1
    <3>4. \A i \in 0 .. req'[r].seen.index - 1 :
            \/ Had(AddressOf(W(r), req[r].seen, i))'
            \/ \E k \in DOMAIN req'[r].todo :
                 req'[r].todo[k] = AddressOf(W(r), req'[r].seen, i)
      BY <3>1, <3>2, <3>3
    <3> QED
      BY <3>1, <3>4 DEF CopyHole, Rewrite
  <2> QED
    BY <1>4, <2>1, <2>5
<1>15. CASE InsertAddresses(r)
  <2> DEFINE todo == req[r].todo
  <2>1. /\ req[r].at = "insert" /\ req'[r].seen = copy
        /\ req'[r].at \in {"register", "store"}
    BY <1>2, <1>15 DEF InsertAddresses, At
  <2>2. \A i \in 0 .. copy.index - 1 :
          \/ Had(AddressOf(W(r), copy, i))
          \/ \E k \in DOMAIN todo : todo[k] = AddressOf(W(r), copy, i)
    BY <1>t, <2>1 DEF CopyHole
  <2>3. \A k \in DOMAIN todo : Had(todo[k]) \/ todo[k] \in stored' \cup dropped'
    BY <1>15 DEF InsertAddresses, Had
  <2>4. ASSUME NEW a, a \in stored' \cup dropped' PROVE Had(a)'
    BY <2>4 DEF Had, IsStored
  <2>5. ASSUME NEW a, Had(a) \/ \E k \in DOMAIN todo : todo[k] = a PROVE Had(a)'
    <3>1. Had(a) \/ a \in stored' \cup dropped'
      BY <2>3, <2>5
    <3> QED
      BY <2>4, <3>1, HadStays
  <2>6. ASSUME NEW e, e = copy PROVE Below(W(r), e)'
    <3>1. \A i \in 0 .. e.index - 1 : Had(AddressOf(W(r), e, i))'
      BY <2>2, <2>5, <2>6
    <3> QED
      BY <3>1 DEF Below
  <2> QED
    BY <2>1, <2>6, PlainHole DEF Rewrite
<1>16. CASE StoreFails(r)
  <2>1. req'[r].at \in {"scan done", "release"}
    BY <1>t, <1>16 DEF StoreFails, AfterFailure, TypeOK, Req
  <2> QED
    BY <1>4, <2>1, PlainHole DEF Rewrite
<1>17. CASE StoreWallet(r)
  <2>1. \E got : req' = [req EXCEPT ![r].at = "register", ![r].got = got]
    BY <1>17, Zenon DEF StoreWallet
  <2>2. req'[r].at = "register" /\ req'[r].seen = copy
    BY <1>t, <2>1 DEF TypeOK, Req
  <2>3. req[r].at = "store"
    BY <1>17 DEF StoreWallet, At
  <2> QED
    BY <1>5, <1>k, <2>2, <2>3 DEF Rewrite, Storing
<1>18. CASE Register(r)
  <2> DEFINE e == [copy EXCEPT !.registered = TRUE]
  <2>1. req[r].at = "register" /\ (GoTo(r, "add") \/ GoWith(r, "add", e))
    BY <1>18 DEF Register, At
  <2>2. e.copayers = copy.copayers /\ e.index = copy.index
    BY <1>1, DocTypes, DocIndex
  <2> HIDE DEF e
  <2>3. req'[r].at = "add" /\ (req'[r].seen = copy \/ req'[r].seen = e)
    BY <1>2, <1>3, <2>1
  <2>4. CopyOfComplete(r)
    BY <1>k, <2>1 DEF Storing
  <2> QED
    BY <1>c, <2>1, <2>2, <2>3, <2>4, PlainHole DEF Rewrite
<1>19. CASE AddAddresses(r)
  <2>1. \E new : req' = [req EXCEPT ![r].at = "mark", ![r].sent = new]
    BY <1>19, Zenon DEF AddAddresses
  <2>2. req'[r].at = "mark" /\ req'[r].seen = copy
    BY <1>t, <2>1 DEF TypeOK, Req
  <2>3. req[r].at = "add"
    BY <1>19 DEF AddAddresses, At
  <2> QED
    BY <1>5, <1>k, <2>2, <2>3 DEF Rewrite, Storing
<1>20. CASE MarkSynced(r) \/ SyncStops(r)
  <2>1. req[r].at \in {"register", "add", "mark"} /\ GoTo(r, AfterStore(r))
    BY <1>20 DEF MarkSynced, SyncStops, At
  <2>2. req'[r].at \in {"scan", "release"} /\ req'[r].seen = copy
    BY <1>2, <2>1 DEF AfterStore
  <2> QED
    BY <1>5, <1>k, <2>1, <2>2 DEF Rewrite, Storing
<1>21. CASE ScanRead(r)
  <2>1. req'[r].at = "locking" /\ req'[r].seen = d
    BY <1>3, <1>21 DEF ScanRead
  <2> QED
    BY <1>d, <2>1, PlainHole DEF Rewrite
<1>22. CASE ScanComplete(r)
  <2> DEFINE status == IF req[r].error THEN "error" ELSE "success"
             e == [d EXCEPT !.scan = status]
  <2>1. GoWith(r, "store scan", e)
    BY <1>22 DEF ScanComplete
  <2>2. e.copayers = d.copayers /\ e.index = d.index
    BY <1>1, DocTypes, DocIndex
  <2> HIDE DEF e
  <2>3. req'[r].at = "store scan" /\ req'[r].seen = e
    BY <1>3, <2>1
  <2> QED
    BY <1>d, <2>2, <2>3, PlainHole DEF Rewrite
<1>23. CASE ScanRunning(r)
  <2> DEFINE e == [copy EXCEPT !.scan = "running"]
  <2>1. req[r].at = "start scan" /\ GoWith(r, "scan", e)
    BY <1>23 DEF ScanRunning, At
  <2>2. e.copayers = copy.copayers /\ e.index = copy.index
    BY <1>1, DocTypes, DocIndex
  <2> HIDE DEF e
  <2>3. req'[r].at = "scan" /\ req'[r].seen = e
    BY <1>3, <2>1
  <2>4. CopyOfComplete(r)
    BY <1>t, <2>1 DEF RequestOK, OnCourse, CopyOfComplete, Storing, Rewrite, Ended
  <2> QED
    BY <1>c, <2>1, <2>2, <2>3, <2>4, PlainHole DEF Rewrite
<1>24. CASE ScanBranch(r)
  <2>1. req[r].at = "scan"
    BY <1>24 DEF ScanBranch, At
  <2>2. CopyOfComplete(r)
    BY <1>t, <2>1 DEF RequestOK, OnCourse, CopyOfComplete, Storing, Rewrite, Ended
  <2>3. \A e : e = copy => Below(W(r), e)'
    BY <1>c, <2>1, <2>2
  <2>4. CASE req'[r].at = "insert"
    <3>1. /\ req'[r].seen.copayers = copy.copayers
          /\ \A i \in 0 .. req'[r].seen.index - 1 :
               \/ i < copy.index
               \/ \E k \in DOMAIN req'[r].todo : req'[r].todo[k] = AddressOf(W(r), copy, i)
      BY <1>t, <1>24, <2>4, ScanBranchOK
    <3>2. \A i : AddressOf(W(r), req'[r].seen, i) = AddressOf(W(r), copy, i)
      BY <3>1 DEF AddressOf
    <3>3. ASSUME NEW i \in Nat, i < copy.index
          PROVE  Had(AddressOf(W(r), req[r].seen, i))'
      <4>1. ASSUME NEW f, f = copy PROVE Had(AddressOf(W(r), f, i))'
        <5>1. i \in 0 .. f.index - 1
          BY <1>1, <3>3, <4>1 DEF Doc
        <5> QED
          BY <2>3, <4>1, <5>1 DEF Below
      <4> QED
        BY <3>2, <4>1 DEF Had, IsStored, AddressOf
    <3>4. req'[r].seen.index \in Nat
      BY <1>t, RequestsStep DEF Req, Doc
    <3>5. \A i \in 0 .. req'[r].seen.index - 1 :
            \/ Had(AddressOf(W(r), req[r].seen, i))'
            \/ \E k \in DOMAIN req'[r].todo :
                 req'[r].todo[k] = AddressOf(W(r), req'[r].seen, i)
      BY <3>1, <3>2, <3>3, <3>4
    <3> QED
      BY <2>4, <3>5 DEF CopyHole, Rewrite
  <2>5. CASE req'[r].at = "scan done"
    BY <2>5, PlainHole DEF Rewrite
  <2> QED
    BY <1>t, <1>24, <2>4, <2>5, ScanBranchOK
<1> QED
  BY <1>6, <1>7, <1>8, <1>9, <1>10, <1>11, <1>12, <1>13, <1>14, <1>15, <1>16, <1>17,
     <1>18, <1>19, <1>20, <1>21, <1>22, <1>23, <1>24 DEF Step

\* Every step keeps the indexes without a hole.
LEMMA HoleStep == HoleInv /\ [Next]_vars => HoleInv'
<1> SUFFICES ASSUME HoleInv, [Next]_vars PROVE HoleInv'
  OBVIOUS
<1>1. IInv /\ IInv' /\ TypeOK
  BY NextOK DEF HoleInv, IInv
<1>2. ASSUME NEW r \in Request, Step(r) PROVE HoleInv'
  <2>1. ASSUME NEW s \in Request \ down' PROVE CopyHole(s)'
    <3>1. s \notin down /\ CopyHole(s)
      BY <1>1, <1>2, <2>1, LockStep DEF HoleInv
    <3>2. Crash(r) => s # r
      BY <2>1 DEF Crash
    <3> QED
      BY <1>1, <1>2, <3>1, <3>2, OthersHole, SelfHole
  <2> QED
    BY <1>1, <1>2, <2>1, DocHoleStep DEF HoleInv
<1>3. CASE UNCHANGED vars \/ \E w \in Wallet : LeaseEnds(w)
  <2>1. UNCHANGED <<docs, stored, dropped, req, down>>
    BY <1>3 DEF vars, LeaseEnds, dbAddresses
  <2>2. DocHole'
    BY <2>1 DEF HoleInv, DocHole, Below, Had, IsStored, AddressOf, IsComplete
  <2>3. ASSUME NEW s \in Request \ down PROVE CopyHole(s)'
    BY <2>1, <2>3 DEF HoleInv, CopyHole, CopyOfComplete, Below, Had, IsStored, AddressOf
  <2> QED
    BY <1>1, <2>1, <2>2, <2>3 DEF HoleInv
<1> QED
  BY <1>2, <1>3 DEF Next

\* Whatever crashes, fails or is written back late, what is stored of a wallet
\* never counts an address that was not stored first (storeAddressAndWallet).
THEOREM IndexInvariant == Spec => []HoleInv
<1>1. Init => HoleInv
  <2> SUFFICES ASSUME Init PROVE HoleInv
    OBVIOUS
  <2>1. DocHole
    BY DEF Init, NoDoc, DocHole, Below
  <2>2. \A r \in Request : CopyHole(r)
    BY DEF Init, NewReq, CopyHole, CopyOfComplete, Rewrite, Storing
  <2> QED
    BY <2>1, <2>2, InitOK DEF HoleInv
<1> QED
  BY <1>1, HoleStep, PTL DEF Spec

\* Every address below the index of a wallet is stored, or an insertMany gave
\* it up at a duplicate (createAddress, scan).
THEOREM IndexHasNoHole == Spec => []NoHole
<1>1. HoleInv => NoHole
  BY DEF HoleInv, DocHole, Below, Had, NoHole
<1> QED
  BY <1>1, IndexInvariant, PTL

=============================================================================
