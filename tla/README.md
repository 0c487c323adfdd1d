# A TLA+ model of Ducatuscore

Ducatuscore is a fork of Bitcore: a node (`packages/ducatuscore-node`) that
indexes block chains into MongoDB, a wallet service
(`packages/ducatuscore-wallet-service`) for multisignature wallets that talks
to the node, and libraries for keys, transactions and the peer to peer
protocol.  This directory holds TLA+ modules of the parts whose correctness
depends on order, failure and time, the TLC configurations that check them,
and TLAPS proofs about them.  `PROJECT.json` maps every definition to the
lines it models; paths below are relative to `src/packages`.

## 1. Inventory

| Component | State | Operations | What makes it correct |
|---|---|---|---|
| Wallet lock (`wallet-service/src/lib/lock.ts`, `storage.ts`) | one document per wallet in LOCKS, with `expireOn` | acquire with retries, clear an expired lock, release | tasks exclude each other; a waiting call is answered even after a crash |
| Transaction proposals (`server.ts`, `storage.ts`, `model/txproposal.ts`, `chain/btc`, `blockchainmonitor.ts`) | TXS documents: status, votes, txid | createTx, publishTx, signTx, rejectTx, broadcastTx, getPendingTxs, removePendingTx, notices of third party broadcasts | votes, status and txid agree; broadcasted means on the network; a UTXO is held once |
| UTXO chain index (`node/src/models/{block,transaction,coin}.ts`, `modules/bitcoin/p2p.ts`) | blocks, transactions, coins; `isSyncing`, `invCache` | sync, addBlock, handleReorg, batchImport, pruneMempool, relayed transactions | the index is that of the chain of its tip; the tip becomes that of the peer; a sync ends |
| Syncing node election (`node/src/services/p2p.ts`, `models/state.ts`) | the heartbeat in the state document; what each worker last read of it | refresh, nominate, resign | one worker syncs; a takeover follows 5 minutes of silence |
| Wallets, copayers and addresses (`server.ts`, `storage.ts`, `model/{wallet,copayer,addressmanager}.ts`) | WALLETS documents, COPAYERS_LOOKUP, ADDRESSES; derivation indices | createWallet, joinWallet, addAccess, createAddress, startScan, scan, registration with the node | no join is lost; every address has the keys of all copayers; no index passes an address that is not stored; every copayer can sign in |
| Incoming payments (`blockchainmonitor.ts`) | notifications, confirmation subscriptions | explorer events | one notification per payment |
| Notifications, mail, push (`messagebroker.ts`, `emailservice.ts`, ...) | EMAIL_QUEUE | broadcast, render, send | each mail is sent once |
| EVM sync (`node/src/providers/chain-state/evm`) | blocks, transactions; a queue of heights, threads | first sync by threads, filling of gaps, sync of the main process, reorg, relayed transactions | no height is lost; no gap when the first sync is done; blocks follow the node's chain and have their transactions |
| Script interpreter (`ducatuscore-lib/lib/script/interpreter.js`, the same file in `-duc`) | stacks, conditionals, position, error of one verification | verify, evaluate, step, verifyWitnessProgram | branches match their conditionals; CHECKMULTISIG loses no solution; an output is spent by its signatures only; flags only narrow |
| Ripple (`node/src/modules/ripple`) | ledgers, transactions | sync | as above, without forks |
| Wallet tags of the node (`node/src/models/{wallet,walletAddress}.ts`) | `wallets` of coins and transactions | import addresses | a coin of an imported address is tagged |
| Pruning (`node/src/services/pruning.ts`) | the collections of the index | remove old mempool transactions | removes nothing confirmed |
| Verification (`node/src/services/verification.ts`) | none | compare and repair | an operator's tool |
| Fiat rates, chain adapters and explorers, API, node services, p2p protocol, primitives, clients, RPC, build | | | I/O, formats, cryptography: see `PROJECT.json` |

How they interact:

- Copayers call the wallet service; several processes of it share one MongoDB.
  `server.ts` runs some handlers under the wallet lock (createTx, publishTx,
  removePendingTx, joinWallet, createAddress) and others without it (signTx,
  rejectTx, broadcastTx, getPendingTxs, and the monitor, which is a process of
  its own).
- The wallet service asks the node's HTTP API for UTXOs and transactions and
  broadcasts through it; the node's sockets report new transactions to the
  monitor.
- A node worker gets blocks and transactions from its peers through callbacks,
  writes them to MongoDB and emits events; which worker does so is decided by
  the heartbeat in MongoDB.

The hard behaviours are the same everywhere: JavaScript handlers interleave at
every `await` or callback; a document is read, changed and written back whole;
there are no transactions over several documents; processes stop at any point;
locks and heartbeats expire; the explorer and the peers answer late.  The
interpreter of scripts runs alone: it is hard for its sheer number of cases.
The list `hazards` in `PROJECT.json` has the ones that weigh most at their line.

## 2. Modules

| Module | Models | Proofs |
|---|---|---|
| `LeaseLock` | the abstract lock: who is granted it, and that it may vanish once a lease has run out | |
| `WalletLock` | the lock of the wallet service, one database call at a time | `WalletLock_proofs` |
| `TxProposals` | proposals of one wallet; takes its lock from `LeaseLock` | `TxProposals_proofs` |
| `ChainIndex` | the index of a UTXO chain | `ChainIndex_proofs` |
| `SyncingNode` | the election of the worker that syncs | `SyncingNode_proofs` |
| `CopayerWallets` | wallets, copayers, addresses and scans | `CopayerWallets_proofs` |
| `EvmThreads` | the first sync of an account chain by several threads | `EvmThreads_proofs` |
| `EvmChain` | the sync of an account chain by the main process, with its reorgs | `EvmChain_proofs` |
| `ScriptInterpreter` | the verification of one input of a transaction | `ScriptInterpreter_proofs` |
| `MC...` | the values of the constants that the configurations use | |

`WalletLock` is shown to implement `LeaseLock` (`ImplementsLease`), and
`TxProposals` instantiates `LeaseLock`: what is checked of proposals therefore
speaks of the lock that the code has, losses included, without its round trips.
`ChainIndex` is what one syncing worker does; `SyncingNode` is what chooses it.
`CopayerWallets` has the lock of `LeaseLock` too, with the one way of losing it
that a stopped holder gives, as a variable of its own; it does not model a holder
that is slower than its lease.  `EvmThreads` is over before `EvmChain` begins: the
main process syncs when the threads have declared the first sync done.

### WalletLock

A client is one call of `runLocked`.  `Acquire` is a successful `insertOne`,
`AcquireFails` the duplicate key: it starts `clearExpiredLock`, which is not
awaited and has two round trips of its own (`ClearFind`, `ClearDelete`), and
gives up or retries.  `Release` deletes by key, whoever inserted the document.
Time is what the code compares: `timeUp` holds the clients whose `expireOn` has
passed.  `Patience` is `waitTime` in retry steps.  A client has one clear in
flight at most; those of other clients run beside it.

### TxProposals

A request is a handler in flight, with the copy of the document that it read.
Each handler is split at its calls: `SignTx` reads and checks, `SignStore`
writes the whole copy; `PublishTx`, `PublishPendings`, `PublishSpents` and
`PublishStore` are the calls of publishTx, and so on.  A further `Abort` is an
error of any call, and `Crash` a process that stops under the lock.
`storeTx` replaces the oldest document with the id or inserts one;
the monitor stores with an undefined wallet id, which always inserts, and so
there may be several documents of one id.  The wallet is P2SH: a transaction is
its proposal and its set of signers.  `clobbered` is a history variable: the
proposals in which a write replaced something that its handler had not read.

Left out: replace by fee, the escrow of BCH, nonces and the other rules of
EVM chains, proposal notes, and notifications.  A proposal id is used once, as
clients draw them at random.  Broadcasted proposals are looked up without the
bounds of 24 hours and 100 documents of the code.

### ChainIndex

`job[p]` is where a process is: the sync of blocks (`Sync`), or a handler of a
relayed transaction (`Relay`).  `HandleReorg`, `Wipe` (its three deletes, in any
order) and `Unspend` are `handleReorg`; `WriteBlock`, `LinkBlock`, the steps of
`BatchImport` and `BlockProcessed` are `processBlock`.  `Mint`, `Prune`,
`Invalidate`, `Mark`, `Spend` and `WriteTx` are the database calls of
`batchImport`, shared by blocks and relayed transactions.  The peer has a chain
of the block tree and may move to a longer one.  `Crash` restarts the process,
`SyncFails` is an error that `sync` catches, `ImportFails` one in a write stream
of `batchImport`, which no one does.  The history variables are the excuses of
the properties: `torn` (a reorg cut short between its deletes), `raced` (a
confirmed transaction marked as conflicting by a prune), `missed` (an
announcement between the last headers and the end of the sync).

Left out: wallet tags, fees, events, a parent chain, the split of a batch in
parts, the limit of 30 locators (the forks checked are shorter), peers that
do not answer.  `ChainAssumption` is what a peer that checks its blocks gives: a
transaction is once in a chain, after the ones whose outputs it spends, and spends
nothing twice there.  The node relies on it (it verifies no script and no amount).
`Branch`, here and in `EvmChain`, is a closure instead of a recursive walk, so that
proofs may use it.

### SyncingNode

`loop` is the refresh loop of each worker, split at the read of the heartbeat;
`queued` its nominations, now or in 5 minutes (`Lease` ticks); `stopping` the
resignation.  A nomination takes its timestamp before the database compares
and sets, so it may lie anywhere between the two.  Clocks of workers agree.  A
nomination that was sent before its process stopped is not modelled.

### CopayerWallets

A request is a call of a handler with the copy of the wallet that it works on.
`JoinStart`, `Acquire`, `JoinRead`, `JoinLookup`, `DeleteLookup`, `InsertLookup`,
`StoreAfterLookup` and `Release` are joinWallet, one round trip each; addAccess
shares the middle of it, without the lock.  `AddressStart` checks the gap before
the lock is asked for, `AddressRead` derives, and `InsertAddresses`, `StoreWallet`,
`Register`, `AddAddresses` and `MarkSynced` are `_store` and `syncWallet`, which a
scan runs once for each of its passes.  `ScanRead` reads the wallet before the lock
and `ScanRunning` stores that copy under it.  `Hits` is the loop of `scanBranch`:
how many indices it keeps when it stops after `ScanGap` unused ones;
`PassIndexes` orders what `insertMany` gets, the skipped indices last and backwards.
`dropped` is a history variable: what an ordered `insertMany` gave up at a duplicate.

Each of the three writes of `storeWalletAndUpdateCopayersLookup` may also fail
(`RewriteFails`), before, after or in the midst of what it does: the error is answered,
joinWallet gives the lock back, and nothing repairs the lookup.  `StoreFails` is the same
of `_store`, and `CallFails` an error of the reads and of the other stores of createWallet,
joinWallet, addAccess, createAddress and scan, which have done nothing then.  `torn` is a
history variable: the wallets whose last rewrite of the lookup failed or was stopped, until
an insert makes up for it.

`CreationAssumption`: no two calls create a wallet of one id.  createWallet
looks for the id and stores in a second call, so two calls with one id given by
the client could both store, the second over a wallet that others have joined;
ids are drawn at random otherwise.

Left out: preferences, `joinWallet` for support staff, BIP45 copayer branches, the
change branch (the same code on an index of its own), the cashaddr migration,
locks that are lost to slowness (`WalletLock` has them), and, outside the lookup, a write
that takes effect although its call fails; startScan passes over errors of its
deregistration, which the model lets succeed.  A process that ends because addAccess throws
for a copayer whom the lookup has and the wallet lacks (`server.ts:995`) is a refusal.

### EvmThreads

`mgr` is the object `MultiThreadSync`; `work[t]` is where thread t is: idle, with a block
asked for, between its two writes, or with an answer that the manager has not dealt
with.  A block is its height: nothing looks at hashes before the first sync is done.  `Sync` kicks the threads off, `GiveNext`, `GiveAgain` and `Retire` are
the outcomes of `threadSync`, `FillGaps` and `Finish` of `finishSync`.  `Fail` is an
error in a thread, `Exit` its end, `Restart` the process.  `Gaps` walks the blocks
in the order of `getBlockSyncGaps`: unprocessed ones first.

### EvmChain

`job` is the sync of the main process: `Begin`, `Start`, `Fetch`, `Check`, the deletes
of a reorg (`WipeBlocks`, `WipeTxs`), `ImportTxs`, `PruneMempool`, `Write`, `Link`,
`Mark`, `Advance`, `Finish`; a rejected import ends in `Retry`.  `relay` is what the
handlers of the subscription (`Receive`, `RelayPrune`, `RelayInsert`) have left to do.  `Fault` is an error that `sync` catches, `Crash` the
process.  The node has a tree of blocks and moves to a heavier branch at any
time (`NewBlock`).  Transactions of one account and nonce share a `Slot`.  `torn` is
a history variable: a deletion was cut short.  `Own` are the transactions that no
other block has: the properties of the collection of transactions are stated of them,
see "Disagreements" below.

Left out of both: wallet tags, events, the cache of balances, forks of a parent
chain, and the connection itself (a lost one is a call that fails).

### ScriptInterpreter

A behaviour verifies one of the `Spends`, a few times, each time under another set of
flags; `verdicts` keeps what came of it.  `Verify` is the beginning of `verify`, each
`Step...` an instruction or a group of them, `StepMultisig`, `TrySignature` and
`EndMultisig` the loop of OP_CHECKMULTISIG, and the `End...` actions are what `verify`
and `verifyWitnessProgram` do when a script is over: `phase` says which one was.  An
item of the stack is what instructions can tell apart: numbers with their encoding,
signatures, keys (compressed, uncompressed, hybrid, bad), scripts, hashes.  Each verification
is given the witness anew (the code empties the one of a key hash).  Hashes do not collide, and a signature is good for
one key and one script.  `ran` and `taken` are histories of the conditionals.
`Ops` are the instructions of the code, by name; `DataAssumption` says that spends and
scripts are made of them.

Left out: the bytes of scripts, keys and signatures beyond the form that the tests
of an encoding tell apart; `findAndDelete` (no script holds a signature of itself);
reusing one `Interpreter` (a second `verify` would start with the stack and the position
that the first one left).

## 3. Runs

| Run | Configuration | What it shows |
|---|---|---|
| `wallet_lock` | `MCWalletLock.cfg` | three calls, one may crash, two wait for ever and one gives up: mutual exclusion while no lock time has passed (`MutexUnlessElapsed`), answers (`EventuallyAnswered`), refinement (`ImplementsLease`) |
| `tx_votes` | `TxVotes.cfg` | one proposal, 2 of 3, two requests, locks may expire: `DocsConsistent`, `NetworkTxRecorded`, `ForwardOnly` |
| `tx_inputs` | `TxInputs.cfg` | two proposals on one UTXO, 1 of 2, with the monitor: `BroadcastedOnNetwork`, `InputsHeldOnce` |
| `chain_mempool` | `ChainMempool.cfg` | a reorg, and relayed transactions that conflict with the blocks: `IndexExact`, `UndoneByReorgOnly` |
| `chain_faults` | `ChainFaults.cfg` | a reorg and two faults: `IndexExact`, `FollowsPeer`, `SyncEnds` |
| `chain_pending` | `ChainPending.cfg` | violation of `PendingIsInMempool`: inputs of a child of a replaced transaction stay pending |
| `syncing_node` | `MCSyncingNode.cfg` | two workers that stop, crash and restart: `OneSyncingNode`, `TakeoverAfterSilence` |
| `wallets` | `Wallets.cfg` | a wallet from its creation on, with two joins, an address, a key, and a scan, one of two of which may crash, and calls to the database that fail: `CopayersKept`, `FullRing`, `NoHole`, `LookupMatches` |
| `evm_threads` | `EvmThreads.cfg` | two threads, one fault, one exit, one restart, a chain that grows: `Accounted`, `CounterExact`, `NoGapWhenDone`, `SyncEnds` |
| `evm_chain` | `EvmChain.cfg` | two branches that overtake each other, a relayed transaction, one fault: `FollowsNode`, `ImportsOntoChain`, `TxsMatchBlocks`, `ConfirmedKept`, `SyncRests` |
| `script` | `Script.cfg` | all short scripts of conditionals, short inputs and witnesses of every kind of standard output, every instruction on short stacks, subsets of flags: `BranchesMatch`, `MultisigExact`, `StandardExact`, `FlagsNarrow` |
| `script_low_s` | `ScriptLowS.cfg` | violation of `LowSNarrows`: with LOW_S a signature with an undefined type is accepted that STRICTENC alone rejects |

A `TypeOK` of each module is checked in one of its passing runs.  The violations are
disagreements of the code with its own comments; `findings` in `PROJECT.json` quotes
them.

### Disagreements the properties step around

While they were written, the modules showed more places where the code does not do
what it or its tests say.  No run keeps these; each passing property names the
condition under which the promise does hold.

- Lock: `releaseLock` deletes by key, and `clearExpiredLock` deletes what it judged a
  call earlier, so a task that outlived its lock time frees the lock of the next
  one and two run together (`lock.ts:51`; `test/lock.js:43`, "should lock tasks using
  the same token").  Hence `MutexUnlessElapsed`.
- Proposals: a vote that was in flight stores a removed proposal again, beside another
  one with the same input (`server.ts:2976`; `server.ts:2612`, "so inputs are locked"),
  or takes a broadcasted one back to pending (`server.ts:3144`).  Hence the `clobbered`
  of `InputsHeldOnce` and `ForwardOnly`.
- Index: a failed `bulkWrite` in `batchImport` rejects a promise nobody awaits: the
  import never ends and `isSyncing` stays set (`transaction.ts:174`;
  `workers/p2p.ts:16`, "the failed work is retried later").  Hence the exception of
  `SyncEnds`.
- Addresses: a scan stores the wallet that it read before the lock: the index of an
  address created meanwhile is undone, and the next createAddress answers that address
  a second time (`server.ts:4512`; `test/integration/server.js:1941`, "No two identical
  addresses").
- Addresses: an ordered `insertMany` stops at a duplicate, which is taken for the
  duplicate of all, and the wallet is stored with an index beyond what was not inserted
  (`storage.ts:840`).  Hence the `dropped` of `NoHole`.  An address that was given up
  for one wallet may be one that another wallet of the same copayers counts as well, so
  `dropped` is looked at for the address, and not for the wallet.
- Lookup: the lookup of copayers is deleted, inserted, and then the wallet stored, and an
  error or a stop in between is not made up for (`storage.ts:308`, `315` and `316`).  After
  the delete no copayer of the wallet can sign in; before the store a copayer is in the
  lookup whom the wallet lacks, and the retry of that join is refused as registered
  (`server.ts:907`).  The next join or key repairs it; but a complete wallet takes no join
  (`server.ts:1137`), and addAccess needs the lookup, so there an emptied one stays empty.
  Hence the `torn` of `LookupMatches`, up to the next insert only.  What holds in spite of
  all this, and has no exception, is its first half: nobody but a copayer is let in to a
  complete wallet.
- EVM: `getBlockSyncGaps` sorts by processed before height, so it starts from a block
  that was written and never marked, and misses the gaps above it
  (`evm/models/block.ts:202`; line 223, "we are descending in blockHeight as we
  iterate").  Hence `stored = processed` in `NoGapWhenDone`.  A first sync that has
  stored nothing at all is declared done too.
- EVM: a first sync checks no parents, so it may store blocks of two branches.  A
  transaction that both have is confirmed by the one imported last, and a reorg that
  deletes that one deletes the transaction of the other as well
  (`evm/models/block.ts:35` and `151`).  Hence the `Own` of `TxsMatchBlocks`.
- EVM: a thread that exits when it had already retired is counted down twice
  (`sync.ts:211`).  Hence `alive = Thread` in `CounterExact`.
- Scripts: of STRICTENC the code says that a key which fails its test is "skipped (not softfork
  safe: this flag can widen the validity of OP_CHECKSIG OP_NOT)" (`interpreter.js:353`).  It
  is not skipped: `checkPubkeyEncoding` fails the script (line 506), also for a hybrid key
  (first byte 6 or 7), which line 1469 would take.  So the flag narrows what is accepted like the
  others, and `FlagsNarrow`, with hybrid keys under CHECKSIG, CHECKSIG NOT, CHECKMULTISIG and in
  witnesses, asserts the opposite of the comment.
- Scripts: a witness program of a key hash takes the array of the caller for its stack
  (`interpreter.js:72` and `89`) and empties it, so a second verify of the same spend
  fails unless the caller gives a copy.
- Scripts: CLEANSTACK measures `stackCopy`, which was taken after scriptSig: a P2PKH or
  native witness spend always fails under it, and left-over items pass.
  SCRIPT_VERIFY_WITNESS and SCRIPT_VERIFY_CHECKSEQUENCEVERIFY are one bit
  (`interpreter.js:399` and `405`).  `checkSequence` throws in a transaction of
  version 2, as it names SEQUENCE_LOCKTIME_DISABLE_FLAG without `Interpreter.` (line 627).  The size of the stacks is
  measured at the end of a script only.

### Bounds

- Lock: three calls are the holder, the one that clears and the one that is let
  in; a fourth adds a second of one kind.
- Proposals: two requests in flight.  Every overwriting needs one handler with a
  stale copy and one that writes meanwhile; requests that are over leave room for
  others, so a behaviour may have any number of them.  `MaxDocs = 2` documents of one id:
  the second is the one that the monitor inserts, a third would equal it.  2 of
  3 is the smallest wallet in which a rejection and an approval by different
  copayers both leave the vote open.
- Index: blocks b1, b2, b3 and the fork c3, c4 from b2 are the smallest tree with a
  reorg to a longer branch above the two blocks that the locators need.  t and u spend the same output in the two
  branches, v is a child of t.  Two faults allow one
  inside the recovery from the other.
- Election: a lease of 1 tick and a clock to 2 allow a takeover and its renewal;
  `MaxQueued = 2` registrations are a primary one and a delayed one.
- Wallets: one wallet of two copayers is the smallest that a join can leave
  incomplete; each handler is called once, all at the same time.  `Used` = {0, 2}
  gives a scan a hit, a gap, and a hit that only a step of 2 skips over; `Gap = 1` lets
  the check of the gap refuse.  The interesting crash is that of a lock holder
  (`joinB` or `scan`, one of them in a behaviour: `OneStops`); what a second one would leave, a
  failed call leaves too.
- EVM threads: two threads suffice to take heights in any order and to retire one before
  the other; the node grows by one height, and there is one fault, exit and restart
  each: what a second one could do starts from states that the first one leaves.
- EVM chain: the fork is two blocks long, so that a reorg deletes, is rejected and
  deletes again; weights let each branch overtake the other.  t and u have one nonce, w is
  on both branches.
- Scripts: five conditionals nest two deep with an ELSE of each; 2 of 3 keys is the
  smallest CHECKMULTISIG in which a greedy choice could go wrong; `MaxOps = 8`,
  `MaxStack = 10`, `MaxNum = 100`, `MaxWide = 200` and `LocktimeThreshold = 50` stand for
  the limits of the code and are met by scripts of this size; `MaxVerifications = 2`
  compares sets of flags in pairs.

No run needs more than three minutes on two workers, and the theorems hold without
these bounds.  Deadlock is not checked where calls come to an end (a lock, a wallet or
a proposal that nobody uses any more, a verified spend, a peer with no further block, a
clock at its bound).

### Fairness

Safety needs none.  `WalletLock!FairSpec`: weak fairness of the steps that
follow by themselves once a handler is called (timers fire, MongoDB
answers, a task calls back) and of the passing of time; none for new calls,
errors and crashes.  `ChainIndex!FairSpec`: weak fairness of the sync, of its
imports and of the delivery of announcements; none for relayed transactions,
crashes, errors, or the growth of the peer's chain.  `SyncEnds` asks for a peer
with two blocks at least: with one, `getLocatorHashes` sends no
locator, the peer sends its only block again, and the sync takes it for a reorg,
for ever.  `EvmThreads!Fairness`: weak fairness of the manager and of every thread that
has work, none for the growth of the node, errors, exits and restarts; its `SyncEnds`
excepts a block that stays unmarked, a thread that exited, and a failed finishSync.
`EvmChain!FairSpec`: weak fairness of the sync, of announcements and of the delay of a
retry (`setTimeout` fires); none for the node, the subscription and faults, which are
bounded.

## 4. Proofs

The theorems hold for every value of the constants under the assumptions that
the modules state (`ASSUME`), which are: finite wallets with 1 <= M <= N, distinct
"nobody" values, block trees with heights (that of `EvmChain` with at most two blocks of
one height), a lease of one tick at least, no two
creations of one wallet, valid chains of the peer, scripts made of instructions, and
limits of scripts that are numbers and leave room for the five instructions and the
two items of the shortest output to a key hash (201 and 1000 in the code).  Every
safety invariant and every action property that a passing run checks is stated by a
theorem, but for `FlagsNarrow` (see the end of this section).

- `WalletLock_proofs`: `TypeCorrect`; `InductiveInvariant`: until a lock time
  passes the stored document belongs to the one task that runs or releases, and
  no clear is about to delete; it gives `Mutex` (`MutexUnlessElapsed`) and
  `Implements` (`ImplementsLease`).  Mutual exclusion alone is not inductive:
  nothing in it says that a clear found a document expired.
- `SyncingNode_proofs`: `TypeCorrect`; `InductiveInvariant`: a worker that knows
  a fresh heartbeat of its own holds the stored one, and a registration made for
  the heartbeat of another is due a lease after it; it gives `OneSyncing`
  (`OneSyncingNode`) and `Takeover` (`TakeoverAfterSilence`).  The delay of the
  registrations must be in the invariant: the nomination compares heartbeats and
  not times.
- `TxProposals_proofs`: `TypeCorrect`; `InductiveInvariant`: every stored document
  is consistent and, if broadcasted, on the network, and every copy in flight
  still passes the checks of the handler that read it; it gives `Documents`
  (`DocsConsistent`) and `Broadcasted` (`BroadcastedOnNetwork`).  The copies must
  be in the invariant because a handler writes back its whole copy, however old:
  the document stays good only because the copy was.  That a vote keeps a copy
  good is arithmetic of the two thresholds, each of which one vote at most can
  meet, for every M and N.

  `HistoryInvariant` goes on from there, for the proposals that no stale copy has
  overwritten (`clobbered`).  There is one document of each; every copy in flight is a
  state the document has gone through (`Followed`), so that a write of a copy which
  is not stale goes forward; a transaction that is signed or on the network is the
  one that its document records; and an id that is still unused is in no copy.  With the lock (`UnderLock`) it also has that a publish has seen
  every holder of its inputs that was there when it looked, and that no other
  publish can store in between.  It gives `NetworkRecorded` (`NetworkTxRecorded`),
  `HeldOnce` (`InputsHeldOnce`) and `Forward` (`ForwardOnly`), which is an action
  property: each write is compared with the document it replaces.
- `ChainIndex_proofs`: `TypeCorrect`; `InductiveInvariant`: a sync that imports a
  block has it stored, a reorg knows the height it goes back to, and a pending
  coin names its spender; it gives `Undone` (`UndoneByReorgOnly`).  The types
  need the rest: the processed flag is set on a document that must exist, and
  the transactions that `pruneMempool` marks are the spenders that pending coins
  name.  That some header is the lowest of those left is the
  well-foundedness of Nat.

  `PeerInvariant` gives `PeerFollowed` (`FollowsPeer`): no stored block is above
  the peer's tip, and a sync that rests has stored that tip, has an announcement to
  come, or is excused by `missed`.

  `IndexInvariant` gives `IndexIsExact` (`IndexExact`), the promise of the component:
  between two blocks the index is that of the chain of its tip.  It has two halves.
  `TreeInv` is about blocks: at every moment the processed ones are a chain, every
  stored one follows it, and a reorg that was cut short (`torn`) has deleted from no
  higher than the next of the tip.  `DataInv` is about the rest: whatever is confirmed
  comes from a stored block or from a reorg that has not ended; and every processed
  block below all imports and reorgs that have not ended is there in full, its
  outputs at its height and its inputs spent by it.  `IndexExact` says nothing
  while something is cut short, and is not inductive: that the next sync repairs
  what a crash has left is what the heights in `Sure` and `Cut` carry over.
- `EvmThreads_proofs`: `TypeCorrect`, `NoHeightLost` (`Accounted`), `CountIsExact`
  (`CounterExact`), `CompleteHasNoGap` (`NoGapWhenDone`), for any number of threads and any
  bounds of faults.  The invariant adds that every height in work is one above the
  start, that no thread writes above the node's best, that a block answered as found is
  stored, that threads are idle when the manager does not sync, and that what the last
  check for gaps found stays true.
- `EvmChain_proofs`: `TypeCorrect` and `ConfirmedStays` (`ConfirmedKept`), for any tree of
  blocks with at most two of one height (`TreeAssumption`: two branches at a time).  The types need that a sync that writes has a block.  `SyncInvariant` is
  what the loop of a sync knows between two of its steps: nothing above the block at
  hand is processed; no stored block is higher than the node, which only moves to
  a heavier chain; what the check of the locators found about the stored blocks stays
  true until the import; and what a deletion or an import has already done to the
  transactions.  It gives `NodeFollowed` (`FollowsNode`), `OneChain`
  (`ImportsOntoChain`) and `TxsWithBlocks` (`TxsMatchBlocks`).
- `CopayerWallets_proofs`: `TypeCorrect`; `Invariance`; it gives `EveryRingFull` (`FullRing`)
  and `NoCopayerLost` (`CopayersKept`), for any number of wallets, copayers, requests
  and crashes.  `CopayersKept` is not inductive: every handler writes back a copy.  The
  invariant says why this is harmless: joinWallet holds the lock from its read to its
  store, so its copy is current; every other handler has a copy of a complete wallet,
  which has the copayers that the document has for good; and createWallet, by
  `CreationAssumption`, is about to store only where no document is.  That lock, copy
  and stage belong together is what each of the 32 steps of a request is shown to keep,
  for the request that makes it and for the others.

  `LookupInvariant` gives `LookupIsExact` (`LookupMatches`): addAccess rewrites the
  lookup without the lock, so two requests may rewrite it at the same time; they have
  copies with the same copayers, because one that is not a join needs a complete
  wallet.  The invariant says of whatever rewrites fail or stop that nobody is in the
  lookup whom the copy stored next lacks, and that it lacks nobody of it unless an insert
  is still to come or the last rewrite was cut short (`torn`).  So the lookup of a complete
  wallet never has anybody else, without exception; and that of any wallet has exactly
  its copayers outside a rewrite, until a rewrite is cut short and from the next insert on
  again.  `IndexInvariant` gives `IndexHasNoHole` (`NoHole`): copies are stored late
  and may take the index back, so not the document alone but every copy that may yet be
  stored must count only what was stored or given up.
- `ScriptInterpreter_proofs`: `MultisigFindsMatch` (`MultisigExact`), for any number of
  signatures and keys and any script around them.  The invariant says that what is left
  to try has a solution exactly when the whole had one; that a signature may be given
  the last key it fits is an exchange argument, and that fewer keys than signatures have
  none is the pigeonhole principle.

  `BranchesFollowScript` (`BranchesMatch`), for any script: the bits of `vfExec` are, from
  the bottom up, the conditionals that the brackets of the script leave open
  (`Brackets`), each set as its condition and the ELSEs after it say.
  `BranchesMatch` speaks of the brackets alone and says nothing of `vfExec`; the
  invariant ties the two by the count of the brackets that each conditional encloses,
  which an instruction changes by one at most.

  `TypeCorrect` (`TypeOK`), for any spend.  Most of it is one fact for each group
  of instructions; what is not: the loop of CHECKMULTISIG cannot run out of
  keys, which is its invariant again, and verify finds something on `stackCopy`.
  That second one is `StackCopyThere`, what a comment of the code claims before it
  throws "internal error - stack copy empty" (`interpreter.js:221`).

  `StandardOutputsExact` (`StandardExact`) is what a verification is for: an output to a
  key, a key hash, m of n keys, the hash of such a script or a witness program of those
  is spent exactly by the signatures that it asks for.  The reference (`Authorised`) is
  stated over the data of the spend alone, and says nothing of stacks, `stackCopy`,
  `vfExec` or the order of the scripts; the theorem is for any m and n, any scripts behind the
  hashes, any pushes and witnesses, also those that are too many or too long.
  `StandardExact` speaks of an answer that is given
  up to three scripts later, so its invariant, `StandardInv`, says what is already decided
  at every instruction.  While the input runs, the stack is what it has pushed
  (`Pushing`).  While a later script runs, it is of one of the standard kinds, it
  started on a stack b that is the input's or the witness's, with or without its
  last item (`Bases`), and the stack is what that kind of script makes of b up to `pc`
  (`Kinds`, with one `...Run` for each kind); and the spend is authorised exactly if b answers what the
  running script asks (`Pending`).  Two lines of lemmas keep it: for each kind of script,
  an instruction fails or leads on to the next line of its `...Run`, where the loop of
  CHECKMULTISIG rests on `MultisigExact`; and for each end of a script, evaluate and
  verify answer `Pending` or load the script whose `Pending` is the same question
  (`Conclude`, `WitnessProgram`, the end of a redeem script).  The proof also showed what
  the reference had to say precisely: a witness program in a script hash must be all
  that the input pushes, and pushed minimally; a witness beside an output that is no
  program is refused; a hash may be that of the empty script; m of n fits into `MaxOps`.

Only model-checked:

- the liveness properties: TLAPS has no rules for fairness or ENABLED here;
- `FlagsNarrow`: it relates two verifications under different flags, which the
  model runs one after the other; an invariant would have to hold what the first one
  did at every instruction, that is, a second interpreter as a recursive definition,
  and an induction over its steps.

Induction over data is out of reach where it needs the induction theorems of the
library.  Where the proofs above need it, over heights or positions of a script, it is
done by the least element of a set of numbers, or by a closure that names every
set with the property (`Branch`), or the behaviour does the induction: the loops of the
code are steps of the model.

## 5. Not modelled

- Incoming payments, notifications, mail, push, fiat rates, the API: they read what
  others write and send it on.  The check and the store of a payment's notification
  (`blockchainmonitor.ts:260`) are not atomic, and removeTx announces a removal whose
  delete failed (`server.ts:2805`); with no model of what a client is told, no property
  speaks of either.
- Wallet tags and pruning of the node: further writers of the collections of
  `ChainIndex`, whose state space has no room for them.
- Ripple: a sync without forks.  Verification: an operator's tool.
- Keys, addresses, transactions, the peer to peer protocol, clients, RPC: encodings,
  cryptography and I/O.  The wallet client is a library that calls the API.
- The interpreter of `ducatuscore-lib-cash`: a file of its own with further
  instructions and flags.
- Left without a property: a database error ends the refresh loop of the election
  (`p2p.ts:102`), which queues timers it never removes (`p2p.ts:134`); `getBlock` asks a
  silent peer for ever (`bitcoin/p2p.ts:211`); the gap of addresses is checked before the
  lock is taken (`server.ts:1473`); the limit of keys is one higher than it says
  (`server.ts:1001`).
- Parts of components: listed under "Left out" in section 2.

What one could add next: `FlagsNarrow` over two interpreters that run side by side; the
step from `EvmThreads` to `EvmChain` as one refinement; the coin selection of `chain/btc`
as an operator against a reference.
