# A verification of ilxd

ilxd is a full node of the illium network: it validates and stores a chain of
blocks, keeps a set of validators that stake coins, decides between competing
blocks with an avalanche style poll of the validators, makes blocks itself when
it is a validator, and syncs to the tip of the chain when it starts. This
directory holds TLA+ models of its core, the TLC configurations that check them
on small instances, and proofs for TLAPS.

Every module translates the Go source; comments name the function, and
`PROJECT.json` ("map") gives the lines of each definition. Constants of the code
(window sizes, scores, limits) are CONSTANTS of the modules, named after them.

## 1. Inventory

| Part | State | Operations | What is hard |
|---|---|---|---|
| consensus engine (`consensus/`) | per height the blocks and their vote records, queries that are out, callbacks | `NewBlock`, `pollLoop`, answers, timeouts, deletion of old heights | late and malformed answers, map order, one callback per block, a budget of polls |
| mempool (`mempool/`) | pool, nullifier, coinbase and debit indices | `ProcessTransaction`, `RemoveBlockTransactions`, expiry | the chain moves between two operations, notifications arrive in any order |
| chain (`blockchain/chain.go`, `validate.go`) | one database transaction per block, a block index, nullifiers, roots, treasury | `ConnectBlock`, `CheckConnectBlock`, `ReindexChainState` | stores that are flushed at other times than the block |
| validator set (`blockchain/validatorset.go`) | validators, their stakes and rewards, a map of staked nullifiers | `ConnectBlock`, `CommitBlock`, epochs, flush, `Init` | copies of objects that outlive each other, removal and return, expiry |
| accumulator (`blockchain/accumulator.go`, `accumulatordb.go`) | a Merkle mountain range with proofs | `Insert`, `Commit`, flush, `Init` | crashes between the writes of a flush |
| sync manager (`sync/`) | buckets of peers, whether we are current | `Start`, `Close`, `SetCurrent` | forks, peers that grow or fail meanwhile, locks shared with the server |
| server (`server.go`) | orphans, active inventory, requests in flight, coinbases to stake | `processBlock`, `requestBlock`, notifications, shutdown | all of the above call it from their own goroutines |
| block generator (`gen/`) | active, quit channel, last block made | `Start`, `Close`, `Interrupt`, event loop | restarts while a block is being made |
| indexers (`blockchain/indexers/`) | transaction index; keys, nullifiers and proofs of wallets | `ConnectBlock`, rescan, flush | memory ahead of the transaction, rescans beside new blocks |
| network (`net/`) | bans, scores, pools of streams, connected stake | gossip, requests, `IncreaseBanscore` | retries, disconnects during a request |
| caches (`blockchain/nullifierset.go`, `txorootset.go`, `chainscore.go`) | cached answers, a temporary chain for a score | lookups, additions within a block's transaction, clones | lookups while a block is being committed |
| block compression (`mempool/xthinner.go`) | none | encode, decode | indices at the edges of the pool |
| Merkle database (`zk/lurk/merkledb`) | root, nodes by hash, values | `Put`, `Get`, `Exists`, `Delete`, `ValidateProof` | nodes shared by hash and deleted after new ones are written |
| RPC, CLI, repo, params, types, zk, crypto | none of their own, or libraries | requests, formats, cryptography | not concurrent logic |

How they interact. Gossip or a poll hands a block to `Server.processBlock`,
which checks it against the chain and passes it to the consensus engine with a
callback. A finalized block is connected; `ConnectBlock` commits it, updates and
perhaps flushes the validator set and the accumulator, and sends notifications,
each in a goroutine of its own, to the mempool, the generator, the sync manager
and the validator connector. The generator takes transactions from the mempool
and broadcasts a block, which its own node receives like any other. The sync
manager connects blocks directly while the node is behind, and asks the
consensus engine when peers disagree at the tip.

What makes each part correct:

* engine: one block per height is finalized, a callback hears one status and
  the right one, and an undecided height keeps being polled;
* mempool: no conflicting transactions, nothing already spent stays, what is in
  it makes a valid block, and everything leaves in the end;
* chain state: after any crash the node starts with exactly the blocks on disk;
* validator set: it is a function of the blocks, rewards are paid once, what was
  removed stays removed;
* sync: the fork is found where it is, the better side is followed, honest peers
  are not banned, `Start` and `Close` return;
* server and generator: nobody is banned for a race, no finalization and no
  request is lost, a validator generates, a stopped loop ends, and one loop
  does not make two blocks of a height too quickly;
* indexers: after any restart the index has the outputs of the chain, its proofs
  are for the right positions, and a wallet misses no transaction;
* network: a ban lasts, a request gets its own answer or fails on a fresh stream,
  every request returns;
* structures: a root depends on the contents alone, a proof is accepted for what
  is stored and nothing else, a compact block is decoded or completed, a cached
  answer is the chain's.

The hazards behind these, with their lines, are listed in `PROJECT.json`.

## 2. Plan

Done, in this order:

1. `BlockVote`, `ConsensusEngine` (vote records, then the engine around them)
2. `BlockRules`, `Mempool` (what a block may contain, then the pool beside a chain)
3. `ChainState` (crash and recovery)
4. `ValidatorSet`
5. `SyncManager`
6. `ConsensusEngineProofs`, `MempoolProofs`, `ValidatorSetProofs` (first results)
7. `BlockGenerator`, `Server` (the composition of the parts above, each as what
   its own module promises)
8. `Indexes`
9. `MessageSender`, `ConnectionGater`
10. `MerkleDB` with its abstract specification `KeyValueStore`, `Accumulator`,
    `Xthinner`, `ChainCaches`
11. `CachesIndexesProofs` (`ChainCaches` and `Indexes`), `SenderGeneratorProofs`
    (`MessageSender` and `BlockGenerator`), `ChainStateProofs`, `ServerProofs`,
    `SyncManagerProofs`, and more in the modules of point 6 (`InflightExact`,
    `Minable`, `RegularCurrent`, `PaidOnce`)

Not proved: the properties of `MerkleDB`, `Accumulator` and `Xthinner`, which are
about recursive definitions, and liveness (section 6 says why).

## 3. Modules

### `Maps`
Go maps as functions from the keys that are present.

### `BlockVote` (`consensus/vote.go`)
A vote record keeps a window of the last votes, a preference and a confidence
count. The code packs the window in two 16 bit words and the confidence in a
third; here a window is a sequence over yes, no and unknown, and the confidence
a pair. A `BlockChoice` has one record per block of a height and one for the
bit of the ID that is being decided. Where the code ranges over a map and the
result depends on the order, the operator is the set of possible results.

### `ConsensusEngine` (`consensus/engine.go`, `chooser.go`)
The engine's state belongs to one goroutine, so a handler is one action:
`handleNewBlock`, `pollLoop` (with the deletion of old heights), `handleQuery`,
`handleRegisterVotes`, `handleRequestExpiration`. A poll starts a goroutine
(`queueMessageToPeer`) that lives in `sending` until its answer, its failure or
its late or malformed answer is registered. Peers answer with any ID, with no
preference or with something that is no hash. `calls` records what each
callback heard.

### `BlockRules` (`blockchain/validate.go`)
The rules of a block that depend on the chain and on the rest of the block:
nullifiers spent, staked or banned, roots, coinbases against unclaimed rewards,
stakes and restakes, the treasury. A validator that has no stake left after a block
leaves the set, and its unclaimed coins with it. Proofs, signatures and the form of
a transaction are assumed to have been checked.

### `Mempool` (`mempool/mempool.go`)
Beside the pool runs a chain that connects any valid block of the known
transactions (not only the pool's own), ends epochs and bans validators. One
action per type of transaction, `RemoveBlock` when a notification arrives,
`Age` and `Tick` for the time to live. `pending` holds the notifications on
their way.

### `ChainState` (`blockchain/chain.go`, `validatorset.go`, `accumulatordb.go`)
A store is the sequence of heights applied to it. A flush is three writes, each
an action; the process may die before any of them, and a write of a flush may
fail. `Open`, `vsInit`, `vsRoll`, `accCommit` and the repair (`vsWipe`,
`vsReset`, `vsEmpty`) are the next start. `ds` tells the two datastores apart:
the in-memory one of the tests and badger, where the repair deletes within a
transaction it never commits. The repair of the first start connects the genesis
block on top of what memory holds (`vsEmpty`, `validatorset.go:259`), which is
that block already when the first flush failed and was only logged
(`chain.go:358`): the fault `firstError` is that failure, and `AppliedOnce` states
the one block it may double.

### `ValidatorSet` (`blockchain/validatorset.go`)
A block stages copies of the validators it touches and a commit installs them.
Installed objects are never changed, so that a pointer is its value; which copy
a transaction starts from depends on the order of the transactions and is a
choice of `Bases`. The history variables `staked`, `past` and `owed` are computed
from the blocks alone, and the properties compare the set with them. A validator
is `irregular` from the block on that gives it a second coin, a coin that was ever
staked for another validator, or a stake while its deletion is due: from then on
an older copy of it, or of the other validator, may be installed, and the set is
not what the blocks say (see "Findings"). `RegularCurrent` is about all others.
`OneLock` is the further condition for the weighted stake: `ConnectBlock` does not
count a coin that is staked again, but gives it the weight of its new lock
(`validatorset.go:450-463`), so that the sum is wrong when the locks differ.
`NoNaN` is another: a lock of less than a month has a weight that is not a number
(`approximateYieldCurve(0)` is 0/0); the total then counts the plain amount
(`Counted`) and the stake what the platform converts a NaN to (`WeightedAmount`,
`NaNAmount`).

### `SyncManager` (`sync/sync_manager.go`, `chain_service.go`)
`pc` is where `Start` is; a request to a peer and what follows from its answer
is one action, a round of the binary search for the fork another. Peers follow
one of `Chains`. Events that may disturb the sync are counted: a failed request
or a peer that leaves, a peer that connects a block, a block finalized by
consensus (with its later `SetCurrent`, from `server.go`), and `Close`. A failure
is a request without an answer or a stream that ends early: the lists of
`downloadHeaders` and `downloadBlockTxs` are then short without an error, so that
`syncHeaders` may return nil with part of the blocks connected, or ban the peer
for the block it does not end with, and a window may be cut (`WindowsCut`).
`Close` holds the read lock of `current` until `Start` has returned, which is
why `SetCurrent` and `Check` have guards on `quit`.

### `BlockGenerator` (`gen/generate.go` and its callers in `server.go`)
Every `Start` that finds the generator inactive makes a quit channel and a loop;
both carry its number, and a loop reads `g.quit` anew at each select, as the code
does. Notifications, the callback of `SetCurrent` and the resync are goroutines
that may overtake each other. `generateBlock` is three steps: the checks of the
last height and time, the block and its `CheckConnectBlock`, the broadcast.

### `Server` (`server.go`)
A call of `handleIncomingBlock` or `requestBlock`, and each goroutine that waits
for a callback of the engine, is a member of `Calls` and takes one step per lock
or request: decoding, the table of requests in flight, the check against the
chain, orphans, inventory, engine. The engine is what `ConsensusEngine` proves
(one block of a height, one status, later `NewBlock` calls ignored) and the sync
what `SyncManager` checks: while one runs it connects blocks one by one
(`SyncConnects`), beside everything else. Abstracted: two timers of one block are
one, ban scores of 100 and less are not added up, and when a finalized block
makes the node current, the rest of the first sync's batch is not connected.

### `Indexes` (`blockchain/indexers`)
`disk` and `mem` are what the transaction index and the wallet server index keep;
a block's writes are collected in `dbtx` and committed with it, while the
accumulator and the nullifiers in memory change before. A nullifier is the pair
of an output and the position it was computed from, so that a wrong position is
visible. Rescans run beside new blocks, block by block. A wallet may register
again, also one that was removed as stale, and be removed while it does. `Restart`
is `BuildServer` with any configuration it accepts and any of the drop options.
Notes deserialize and are locked to the script their wallet registered: what the
index does with others (`wallet_server.go:220`, 238, 504) is left out.

The chain is a constant: outputs are numbered in the order of the chain, and a
transaction has a block, the outputs it makes and those it spends. So what
`ConnectBlock` does for a range of blocks is `Connected`, a definition without
recursion: the outputs found, the nullifiers made, those that are spent.
`ConnectBlock` uses it for one block, `IndexManager.Init` for all it rolls forward,
and `ConnectingInParts` (section 6) shows that it makes no difference. The
definition rests on two facts of a valid chain, which `ChainAssumption` states: a
transaction proves its inputs against a root that existed before its block
(`validate.go:250`, `RootExists`), so an output is spent in a later block than its
own, and no nullifier is spent twice (`validate.go:235`).

### `MessageSender` (`net/message_manager.go`, `pool.go`)
Requests to one peer over pooled streams. The three locks (`smlk`, the pool's
`mu`, the sender's) are state, the stream handler of the chain service answers
late, never, or with the stream cut off, and the collector of idle senders and
`OnDisconnect` run beside the calls. A lock that fails because the context of the
call is cancelled (`message_manager.go:203`, 267) happens at shutdown only and is
left out.
The specification is `SenderSpec`: its names differ from those of
`BlockGenerator`, so that one module of proofs can extend both.

### `ConnectionGater` (`net/conngater.go`, `banscore.go`)
Scores with their decay, bans in memory and on disk, and a timer for each ban.
An operation is a list of writes, which another goroutine may interleave with
(the run has one goroutine, and its violation does not need a second).

### `MerkleDB`, `KeyValueStore` (`zk/lurk/merkledb`)
The hash of a node is the node itself, so the store of nodes is a set. `Put` and
`Delete` are the recursive functions of the code with their lists of nodes to
write and to delete; `Walk` is what `Get` and `Exists` do. `KeyValueStore` is a
plain map, and `Store == INSTANCE KeyValueStore WITH map <- Contents` maps the
tree to what a reader finds in it; `IsStore` says that the detailed module
implements it.

### `Accumulator` (`blockchain/accumulator.go`, `merkle.go`)
Hashes are terms, so that two are equal only when they were computed from the
same data. `Insert` with the bookkeeping of the proofs, `GetProof`, `DropProof`,
`MergeProofs`, the trees of `BuildMerkleTreeStore`, and the circuit's check of
an inclusion proof.

### `Xthinner` (`mempool/xthinner.go`)
IDs are sequences of digits. The encoder's stack of prefixes and the decoder's
lookups are operators; a behaviour fills two pools and makes a block of one.
`XthinnerAssumption` holds because the hash function clears two bits of the
first byte (`params/hash/hashfunc.go`): an ID that began with the decoder's
sentinel would be taken for unambiguous.

### `ChainCaches` (`nullifierset.go`, `txorootset.go`, `chainscore.go`)
The caches of the node's chain and of the temporary chain of a score, which reads
the node's datastore and writes to one that nothing reads. `ConnectBlock` is a
step per lookup, `AddNullifiers` and the commit; the steps hold `stateLock`,
which lookups and scores share. All limits are free constants; in the run both
caches are smaller than the set of nullifiers, so that entries are dropped on
either chain.

### `MC...`
Constants and instances for TLC. `MCStructures` puts the four modules of point
10 into one run: they share nothing, and a behaviour works with one of them.

## 4. Runs

| Run | Asks | Bounds |
|---|---|---|
| `engine_safety` | Can two blocks of a height be finalized, or a callback hear twice or hear a wrong rejection? | 2 competing blocks, 3 calls, window 2, all faults |
| `engine_polling` | Is the count of polls in flight exact, and does an undecided height keep being polled? | 2 heights, 2 requests at once, no faulty answers |
| `mempool_all` | Conflicts, spent transactions and indices for every type of transaction; does a pool that caught up make a valid block, and does everything leave? | transactions that overlap in nullifiers, owner and amount; 1 epoch, 2 notifications on their way |
| `chainstate_all` | Any three crashes or failed writes, anywhere | height 3, both datastores |
| `validators_all` | The set against the blocks | 4 blocks of up to 2 transactions, 2 coins, a lock of under and one of over a month, expiry after 2 epochs, 2 strikes |
| `sync_all` | Fork, choice, one chain, termination | 3 peers on 3 chains at heights 4, 5, 7, 2 checkpoints; 1 event |
| `generator_all` | Duplicates, a validator that generates, loops that end | 3 starts, 2 heights, 2 ticks, 1 interrupt, 1 resync |
| `server_all` | Bans, lost finalizations, lost requests | 2 rival blocks and a child, 2 calls at once, 1 failed request, 1 resync |
| `indexes_all` | The indexes against the chain | 4 blocks, 1 wallet paid twice, 2 restarts, 1 rescan |
| `network_all` | Whose answer is it, what is retried, does a call return? | 3 calls, 1 lost connection |
| `structures_all` | Pure structures and caches against reference definitions, and the refinement `IsStore` | 7 keys that share prefixes of every length, 8 elements, 6 IDs of 3 digits, 3 nullifiers with windows of 2 blocks |
| `gater_bans` (violated) | Does a ban last as long as it should? | 2 peers with one address, time 4, 2 calls by hand |

The configurations `ConsensusEngine_bits`, `ConsensusEngine_leak`,
`ChainState_errors`, `ValidatorSet_coins`, `SyncManager_tip`, `Server_orphans`,
`Server_spacing`, `MerkleDB_put` and `MessageSender_gc` reproduce what is
described under "Findings"; each checks one property, which TLC finds violated
(`tlc -config X.cfg M`, where `M` is the `MC` module of that name, or the module
itself).

Why the bounds are enough to be interesting. Two blocks and a window of two make
every sequence of flips and of conclusive windows happen; deletion and
re-creation of a height need the third call. Two notifications are the least
that can overtake each other, and the mempool's transactions overlap in every
way the rules compare. Three faults are a crash, a crash during the repair of
it, and one more. Four blocks are a stake, its expiry or restake, a removal and a
return, or a reward, its claim and an attempt to claim it again. The chains of the
sync fork at heights 4 and 5, one fork is invalid, the checkpoints are at 2 and 3
(two, so that one can be missed and the next one tried), the windows are filled or not depending on the heights, and the
lookahead of 4 takes the search through both of its branches. Peers are
interchangeable, so `MCSyncManager` starts with one of the initial states that
differ in their names only (symmetry would not be sound for the liveness
properties). One event is enough to reach every exception of `SyncEnds`: a stream
that ends early within a checkpoint, a block finalized during one, a panic.

In the generator's run three starts are what two overlapping loops and a later
one need. The server's blocks are two rivals of one producer, one of them
decoded wrongly by the mempool, and a child ahead of the clock, so that every
way into `processBlock` is taken; with two calls any step of one may fall
between two of the other. The wallet is paid, spends and is paid again around
the restarts. Three calls are a call that fails, one that reuses its sender and
one that holds a lock. Eight elements fill a tree of height 3, so that a proof
grows through every kind of merge. `MaxOrphans` of 0 with one orphan is the
limit of the pool.

Deadlock is not checked in any run: all of these systems may be at rest (no
block, no transaction, a sync that is done) or stop (a process that gave up),
and the bounds on calls, blocks and events end behaviours as well.

### What they found to hold, and where the limits are

`HeightDecidedOnce` relies on the server never handing in a height again that
was finalized and deleted hours ago; the guard of `handleNewBlock` says so.
`KeepsPolling` holds without faulty answers only. `Minable` is about spends:
with coinbases, stakes and bans the pool does keep transactions that no block
can include (a coinbase whose reward was claimed, a stake whose coin was
banned), until their time to live ends, because nothing validates the pool
again; the generator's own check then fails for the whole block meanwhile.
`Starts` leaves out badger with a validator set whose flush was cut short: the
repair deletes within a transaction that is not committed, finds the same
status and begins again. `OneChainSynced`, `BestForkWins` and `ForkPointFound`
are about syncs that no event disturbed, or in which no peer grew:
a peer that connects a block between two requests is banned by `SearchRaced` or
`syncBlocks`, and a lagging peer that catches up during the search moves the
fork point past the true one. `BestForkWins` has two more premises, without which
TLC finds a worse side that is followed: a checkpoint beyond the fork decides
before scores are compared, and when the side that wins forks again within the
window, while the lookahead ends below that, only one of its branches is asked
for. The first half of `SyncEnds` lists its exceptions: no peers,
a panic (`WindowPanics`), a `Close`, and a checkpoint worked on from another height
than the next one: below it when blocks were connected meanwhile, which
`syncToCheckpoints` asks for again from the same height for ever, above it when a
stream that ended early was taken for the whole of an earlier checkpoint
(`sync_manager.go:745`, 775), whose missing blocks nobody asks for any more.
The second half excepts the states in which `Close` and `Start` wait for each
other (`LockedOut`), which the model reaches.

`NoQuickDuplicates` is about times of a single loop, because two loops share
`lastGenHeight` and `lastGenTime` unprotected. `FinalizedHeard` excepts blocks
that the sync's chooser gave to the engine first: the engine ignores the callback
of a second `NewBlock` (`engine.go:206`), so that a chooser that gave up after 30
seconds swallows the finalization (`server.go:843`). `InflightAccounted` excepts
blocks that once could not be decoded (`server.go:504`). The properties of
`Indexes` except an index that a failed commit, or a flush before a crash, has
spoiled: `ConnectBlock` changes memory before the commit (`wallet_server.go:196`).
`IsStore` and `RootCanonical` leave out a value put over itself. `AnswersTrue`
excepts nullifiers that a window bans: `CalcChainScore` enters the nullifiers of
the window's transactions only (`chainscore.go:108`), and may score a window that
cannot be connected. The cache of a clone is limited to 100000 entries
(`nullifierset.go:90`) whatever the window spends, and what it drops is in no
datastore that the clone reads: `AnswersTrue` excepts these too (`Unknown`), on
the temporary chain only.

### Findings

Each of these contradicts a comment of the code.

* `gater_bans`: every ban starts a timer and none is stopped, so that a second
  ban of a peer ends with the timer of the first (`conngater.go:202`).
* `ConsensusEngine_bits.cfg`: a bit finalizes against the preferred block and the
  preference stays, where `vote.go:215` says that this should never happen.
* `ConsensusEngine_leak.cfg`: a late answer takes its poll out of the table and
  leaves the count (`engine.go:370`), until the height is not polled any more.
* `ChainState_errors.cfg`: after a failed flush of the accumulator
  (`accumulatordb.go:132`) the next block is added to the old one, and the next
  flush calls the result consistent; `chain.go:350` expects to repair it.
* `ValidatorSet_coins.cfg`: a spend copies the validator as it was when the coin
  was staked (`validatorset.go:468`), and what came later is lost.
* `SyncManager_tip.cfg`: peers of one chain at three heights look like a fork with
  two sides; one is followed, the others are banned (`sync_manager.go:254`), and
  the node calls itself current below the tip.
* `Server_orphans.cfg`: a block is found to be an orphan and stored in two steps
  (`server.go:610`); when its parent is connected in between, nothing processes
  it again, where line 608 says "will circle back after we connect the next block".
* `Server_spacing.cfg`: two blocks of a producer that are far enough apart are
  compared in the order of their arrival (`server.go:685`); when the earlier one
  comes second its relayer is banned for blocks "too close together".
* `MerkleDB_put.cfg`: `Put` of the value that a key already has deletes the nodes
  it has just written (`merkledb.go:84-120`), and the path to the key is lost.
* `MessageSender_gc.cfg`: the collector tears down a sender that is in use
  (`pool.go:81`), and the call opens its second stream on a host that is nil.

Seen while modelling, without a run of their own:

* two blocks of one height can be preferred at once, until one of them finalizes;
* a block handed to the engine after its height was finalized, or a second time,
  never hears from its callback; its goroutine waits until the shutdown;
* a transaction removed because one of its nullifiers was spent leaves its other
  nullifiers in the mempool's index, where they block later spends of these coins;
* the mempool subtracts pending treasury payments from the balance in unsigned
  arithmetic, and a block may have lowered the balance below them;
* `ReindexChainState` takes `stateLock` and calls `ConnectBlock`, which takes it
  too (`ChainState` models this as the last step of the process);
* a validator removed and staked again before a flush is put and deleted by
  that flush, and missing after a restart;
* a crash between the genesis block and the first flush, or within a repair,
  leaves a status that the next start takes for an empty store;
* a restake with another locktime changes the weight of a stake but not the
  total it is later subtracted from;
* `SetCurrent` by a finalized block while `Close` waits for `Start` deadlocks;
* with a single peer half of the peers is none: when it does not answer, the
  node calls itself current;
* `BuildServer` adds the treasury whitelist to `s.policy` before it is assigned;
* an expired stake leaves its validator without being subtracted from `TotalStake`
  (`validatorset.go:533`); a lock of less than a month has a weight of zero divided
  by zero (448), so that `WeightedStake` and `WeightedAmount` differ by what a NaN
  converts to (454, 460);
* when the very first flush of the validator set fails, the repair of that start
  connects the genesis block again (`validatorset.go:259`), and counts it twice;
* the temporary chain of a score forgets what its cache of 100000 entries drops
  (`nullifierset.go:90`), so that a window with a double spend may be scored;
* a query without heights gets no answer and its goroutine waits (`engine.go:280`);
* when all peers agree on an invalid block nobody is banned and the sync repeats
  (`sync_manager.go:164`); a score that is not a number chooses no fork (244); a
  second `Close` without a `Start` closes a closed channel (297); a stream that
  ends early is no error, so that an honest peer is banned for the header or the
  merkle root that does not fit (557, 599), or for a height of 0 (684), and a
  checkpoint may be left half connected for good (745, 775);
* in the server: a retried `fetchBlockTxids` is handed the nil block of the first
  call (`server.go:647`); of several orphans at the next height one is processed
  again (736); an orphan held back for its timestamp at the next height is not
  processed when its time comes; two requests for one block fit between the two
  locks of `requestBlock` (870); `coinbasesToStake` is written under a read lock (582);
* in the generator: a restart forgets the last height, so that a second block of
  it may follow at once; `MaxBlockFutureTime` in nanoseconds is added to seconds
  (`generate.go:168`); a locktime at the boundary is picked that the validation
  excludes (201); a goroutine of `Interrupt` that finds no loop waits for good (125);
* in the indexers: a rescan computes nullifiers from the size of the live
  accumulator (`wallet_server.go:470`), and misses the spends of what it finds;
  its proofs are lost in a crash before the next flush; a flush at height 0 leaves
  an index that loads a nil accumulator; dropping an index keeps its height
  (`manager.go:122`); a rescan ends without an error at a note locked to another
  script than the registered one (506), and forgets what it found; a key removed as
  stale while its wallet registers again is stored but not scanned for (395, 644);
  `Subscription.Close` waits for a sender that waits for it (589);
* in the chain: the checkpoint of an accumulator is looked up under the number of
  its interval (`chain.go:614`); a block node loaded from disk has the timestamp 0,
  so that the checkpoint before a time is always the last one (596); `GetNodeByID`
  writes the index's maps under a read lock (`blockindex.go:231`); `NewMerkleDB`
  sets the root of an existing database back to the empty one; the root of an
  accumulator without elements is an index out of range;
* in the network: a ban score without transient points does not decay
  (`banscore.go:145`); a score is read and deleted without its lock
  (`conngater.go:139`, 170), a dial that began before a ban may complete after it,
  and unblocking a peer frees an address that another banned peer shares; updates
  of the connected stake are computed outside their lock
  (`validator_connector.go:95`), and with no stake at all are not a number.

## 5. Fairness

* Engine: polls are strongly fair (the ticker never stops, and back-off and lost
  connections interrupt it only for a time), each query goroutine ends (its
  request has a timeout), a back-off elapses, the connected stake returns. No
  fairness on votes or on their content.
* Mempool: time passes for each transaction, the hourly ticker fires, each
  notification goroutine runs. Connecting blocks is not fair.
* Chain state: a started process takes its next step; starting is not forced to
  be free of faults, which are bounded.
* Sync: `Start`'s goroutine takes its next step; since a checkpoint's peer is
  picked at random, each peer that can be asked is asked; the goroutine of a
  finalized block runs on. Peers that grow or fail are not fair.
* Generator: goroutines run, the ticker fires and the chain keeps growing, so that
  `SetCurrent` is called again. `Quit` is strongly fair: a select chooses at random
  between a tick and a closed channel.
* Network: goroutines run, locks are passed on and reads time out; nobody has to
  call and the peer does not have to answer.
* Server: only `Server_orphans.cfg` uses fairness: calls go on, timers fire, the
  sync ends, and peers keep voting for what is undecided.

## 6. Proofs

The proofs hold for every value of the constants that satisfies the ASSUMEs of
the modules; no theorem is assumed.

* `ConsensusEngineProofs`: `EngineInvariant` proves `EngineInv`, from which
  `EngineTypeCorrect`, `HeightDecidedOnceHolds` and `CallbacksSoundHolds` follow.
  The properties speak about what callbacks heard and are not inductive. The
  strengthening ties that history to the state: a registered callback belongs to
  a call for its block that heard nothing (`PendingCallbacks`); a height that
  was reported is finalized in the engine or was deleted for good
  (`ReportedHeights`, `ClosedHeights`); an undecided height still has the
  callbacks of all its blocks (`UndecidedHeights`). Lemmas show that recording a
  vote, adding a block and moving to the next bit keep a `BlockChoice` well
  formed, in any order in which maps may be ranged over. The assumptions are
  that a quorum is more than half of the window and that no block has the zero ID.
* `MempoolProofs`: `MempoolInvariant` proves that type correctness, `Indexed`,
  `SpentIsLeaving` and `NoConflictInPool` are inductive together. Each needs the
  others: a conflict is excluded because the index names one owner per nullifier,
  and a spent transaction leaves because the index leads the removal to it.
  `PoolAlwaysMinable` adds that a pooled spend refers to a root the chain keeps and
  that the treasury is a natural number (`MinableInv`). The sum of the pooled
  treasury payments is a fold over a set; `SumExists`, `SumUnique` and
  `TreasuryTotalIs` show what it is by taking a set of least cardinality that
  would be wrong. It needs `IsFiniteSet(Txs)`: an ID is a hash.
* `ValidatorSetProofs`: `NoneReturnsHolds` is inductive by itself; the lemma
  `CommitNoneReturns` covers a commit with and without a flush. `SetInvariant`
  proves `SetInv`, from which `RegularAlwaysCurrent` and `AlwaysPaidOnce` follow.
  `Objects` says of every validator in the set and in `nullifierMap` that it has
  only coins that were staked for it at some time, however old the copy is;
  hence nothing that happens to another validator can take a coin of a regular
  one out of `nullifierMap`. `Sole` says that the copy `nullifierMap` has of a
  regular validator has that one coin, so that it does not matter which copy a
  change starts from. `StagedForm`, `EpochForm` and `StruckForm` say what the three
  parts of `ConnectBlock` do to a validator, `CoinsAfter` and `MapAfter` compare the
  result with the history, and sums are treated as in `MempoolProofs`. The first
  attempt failed for a good reason: with two validators TLC then found, after
  five blocks of one transaction, a regular validator whose entry was deleted
  through an old copy of another that once had its coin, and with two locks a
  wrong weighted stake. `past`, the wider meaning of `irregular` and `OneLock` come
  from there. `WeightsNat` says that the two weighings of a stake agree but for a
  NaN. Assumed: coins are finitely many and have an amount, a weight is a number
  or NaN, an expiry takes an epoch at least.
* `ConsensusEngineProofs`, `InflightExactHolds`: with the faults that lose or
  miscount an answer and the deletion of heights excluded (`Answered`; with them
  `ConsensusEngine_leak.cfg` is a counterexample), the counter of a height is the
  number of queries that are out for it and never above its limit. The
  strengthening is that a query only asks for heights that the engine has.
* `ChainStateProofs`: `ChainStateInvariant` proves `Types`, `Begun`, `InOrder`,
  `Statuses`, `Filled`, `Phases` and `Rebuilds` together; `MemoryAlwaysAtTip`,
  `StoresAlwaysSound`, `AlwaysAppliedOnce` and `FatalAlwaysMidFlush` follow. What is
  in a store cannot be told from the store alone: `Statuses` relates it to the
  status on disk, and `Phases` to the step at which a start, a flush or a repair is,
  so that a crash at any of them leaves something the next start recognizes.
  `Rebuilds` says what memory holds when the repair connects the genesis block, and
  so that nothing else is ever doubled.
* `ServerProofs`: `ServerInvariant` proves `Types`, `Linked`, `Lock`, `Checked`,
  `Heard`, `Accounted` and `NoUndeservedBan`; `BansDeserved`, `FinalizedAlwaysHeard`
  and `InflightAlwaysAccounted` follow. A ban is decided from what a call read some
  steps earlier: `Lock` says which calls can be between their locks, `Checked` what
  is still true of a block that a call has checked, `Heard` which goroutine waits
  for which block.
* `SyncManagerProofs`: `SyncInvariant` proves the types with `Shapes`, `NoneLost`,
  `Searching` and `ForkPointFound`. `Searching` is the loop invariant of the binary
  search: the peers asked differ at its upper end and agree at its lower end,
  unless that is where it began. That two peers who differ at a height differ at
  every height above (`ForksAbove`) is what makes the search right; it needs that a
  block has one height and one parent (`SyncAssumption`).
  `OneChainAlwaysSynced` and `BestForkAlwaysWins` rest on `SyncStaysCalm`, an
  invariant of syncs that nothing disturbs. `Calm` holds until the fork is passed:
  our chain is that of every peer as far as each goes (`Agree`), so that what
  `syncBlocks` downloads connects and no peer is banned; `blockMap` has an answer of
  every peer ahead of us and nothing else (`Answers`), so that one answer means one
  chain, and peers at two heights of one chain are never taken for a fork of more
  than one side; the fork found is the true one (`ForkPointAlwaysFound`), each side
  has a rival, and its window ends where that of every peer of the side does, so
  that the choice aims at a best side (`Aim`). Once the fork is passed the chain
  only grows, and `Beyond` says what remains. Assumed besides: checkpoints are above
  the genesis block and ascend (`syncToCheckpoints` downloads from one to the next),
  and peers are finitely many. The first attempt at `BestForkWins` failed for a good
  reason: as stated then it was false, and its two premises on checkpoints and on a
  second fork come from there (section 4).
* `SenderGeneratorProofs`, the generator: `GeneratorInvariant` proves `GeneratorInv`,
  from which `NeverQuickDuplicates` follows. It adds that the remembered height never
  falls and that no loop is about to broadcast above it (`Ordered`), and, while
  loops did not overlap, how far the block a loop holds is from the one remembered
  last, until it is remembered itself, and from the one broadcast last (`Held`). A
  block that was given up in between is remembered all the same, which only makes
  the next one later.
* `SenderGeneratorProofs`, requests: `SenderInvariant` proves `SenderTypeOK`,
  `Exclusive` (a sender is in one pool or in the hands of one call), `OneUnderWay`
  (a stream in use carries the request of its call and no older one),
  `SecondAttempt` and `AnswersMatch`; `AnswersAlwaysMatch` and the action property
  `CallsRetryFresh` follow.
* `CachesIndexesProofs`, the caches: `CachesInvariant` proves that outside a
  block's transaction the caches of the node's chain hold what its store says
  (`MainExact`), and those of a temporary chain what it had when it was cloned and
  what it connected since, but for what is `Unknown` (`TempExact`), while one
  process at a time changes either (`OneAtATime`). Nothing is assumed of the limits
  but that they are numbers. `CachesAnswer` is `AnswersTrue`;
  `CachesStopDoubleSpends` that no spent nullifier passes validation on the node's
  chain, and only an `Unknown` one in a window; `RoomyCloneForgetsNothing` that with
  room for all nullifiers the bans of the window are all that is `Unknown`.
* `CachesIndexesProofs`, the indexes: `IndexesInvariant` proves `IndexInv`, from which
  `IndexesAccumulatorExact`, `IndexesProofsExact` and `IndexesWalletComplete` follow.
  What the properties say while the index serves has to survive in what is on disk
  while it does not. The accumulator is there as of the last flush, at a height of
  its own (`DiskExact`; within a block's transaction that may be one above the
  chain), the entries and nullifiers as of the last commit. `DiskComplete` is the
  bridge: there is some height, at least that of the flushed accumulator, up to
  which the datastore has the transactions of every registered wallet and the
  nullifiers of all its outputs that are unspent there. The blocks between the two
  heights are connected again by the roll forward on top of their own results, those
  above for the first time; `RollForwardFacts` shows that both end in a complete
  index. Since a run without the wallet server index moves the chain and not that
  height, it cannot be a function of the state, hence the quantifier.
  `MemComplete` and `WritesComplete` carry a block from `ConnectBlock` to its commit,
  `RescanExact` is why a rescan at the height of the live accumulator may merge.
  All of this is premised on an index that is not spoiled; types, `TxIndexed` and
  `RescanExact` hold of any. `ConnectingInParts` is about `Connected` alone: blocks
  connected together leave the index, and once committed the datastore, that they
  leave when they are connected and committed in two parts. Assumed:
  `ChainAssumption`.

Least elements of sets of numbers come from the library's well-founded orders
(`LeastNat`); induction as such is not available to these provers.

Each of these inductive invariants was first checked by TLC on an instance of the
size of the module's run.

Only model-checked:

* `KeepsPolling`, `PoolDrains`, `Starts`, `SyncEnds`, `ValidatorGenerates`, `LoopsStop`
  and `CallsReturn`: liveness under fairness is out of the prover's reach.
* The properties of `MerkleDB` (with `IsStore`, that it implements
  `KeyValueStore`), `Accumulator` and `Xthinner`: they are about recursive
  definitions, and hold by induction over the data.

## 7. Not modelled

* RPC and CLI (`rpc/`, `cli/`) translate requests and formats, a third of the
  repository's lines with the generated protobuf code; the calls that change a
  modelled component are actions of its module.
* The wallet is a library outside the repository.
* `types`, `params`, `repo` are data, encodings and configuration; `zk` and `crypto`
  are circuits and bindings, whose verdicts are inputs of the models, and a
  preprocessor of program text without state.
* Proof and signature validation are batches of such verdicts.
* The block index keeps nodes of a chain that never reorganizes: a link is right
  whenever it is set, and loaded when it is not. What is wrong with it is listed
  above.
* `net/network.go` assembles libp2p services; the percentage of the validator
  connector and the score of a window are floating point sums.
* Pruning, subscriptions of the wallet server, the automatic stakes of the server,
  start and shutdown of the node.
* The test harness is not part of the node. Data races as such (maps written under
  read locks) are described; their outcome in Go is not a state of any model.
