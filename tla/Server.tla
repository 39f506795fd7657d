------------------------------- MODULE Server -------------------------------
(***************************************************************************)
(* How the server takes in blocks (server.go): blocks relayed by pubsub,   *)
(* blocks it requests because a peer voted for them, orphans it processes  *)
(* again, the consensus engine's callbacks, the chooser of the sync and    *)
(* the resync it starts when orphans pile up.                              *)
(*                                                                         *)
(* Each call of handleIncomingBlock or requestBlock, and each goroutine    *)
(* that waits for a callback, is a member of Calls and does one step per   *)
(* lock it takes or request it makes.  The engine is what                  *)
(* ConsensusEngine promises: at most one block of a height is finalized,   *)
(* the callback of the first NewBlock of a block is told, later ones are   *)
(* ignored.  The sync is what SyncManager promises: it extends the chain   *)
(* with blocks that connect, one by one, and then calls SetCurrent.        *)
(***************************************************************************)
EXTENDS Integers, Sequences, FiniteSets, Maps

CONSTANTS
    Blocks,
    Peers,
    Calls,          \* names for the calls and goroutines that run at once
    NoBlock,
    NoPeer,
    Height,         \* block -> height
    Parent,         \* block -> the block it extends, NoBlock: the genesis
    Producer,       \* block -> the validator that made it
    Time,           \* block -> its timestamp
    Fault,          \* block -> "none", "header" or "root": what is wrong in it
    Collides,       \* blocks that the mempool decodes to a wrong transaction
    Ahead,          \* blocks whose timestamp is ahead of our clock at first
    DupTime,        \* MinAllowableTimeBetweenDupBlocks
    MaxOrphans,     \* maxOrphans
    Threshold,      \* orphanResyncThreshold
    MaxFaults       \* bound: requests to peers that fail

ASSUME ServerAssumption ==
    /\ Height \in [Blocks -> Nat \ {0}]
    /\ Parent \in [Blocks -> Blocks \cup {NoBlock}]
    /\ Fault \in [Blocks -> {"none", "header", "root"}]
    /\ Collides \subseteq Blocks /\ Ahead \subseteq Blocks
    /\ {MaxOrphans, Threshold, MaxFaults} \subseteq Nat

VARIABLES
    chain,      \* the connected blocks above the genesis block
    current,    \* syncManager.IsCurrent()
    ripe,       \* blocks whose timestamp the clock has reached
    relayed,    \* blocks that pubsub delivered (it does so once)
    calls,      \* call -> where it is
    orphans,    \* orphanBlocks: block -> relayingPeer, and whether it is whole
    orphanLock, \* the calls that hold orphanLock over several steps
    inventory,  \* activeInventory
    inflight,   \* inflightRequests
    timers,     \* the blocks an AfterFunc will remove from inflightRequests;
                \* two AfterFuncs of one block are one
    engine,     \* block -> its status in the engine and who gets its callback
    chooser,    \* consensusChoose: "none", "waiting" or "gone"
    banned,     \* history: the blocks whose relaying peer was banned outright
    undecoded,  \* history: the blocks that could not be decoded
    faults,     \* requests that failed
    panicked    \* the process died of a nil pointer

intake == <<orphans, orphanLock, inventory, inflight, timers>>
vars == <<chain, current, ripe, relayed, calls, intake, engine, chooser,
          banned, undecoded, faults, panicked>>

NoCall == [pc |-> "idle", blk |-> NoBlock, peer |-> NoPeer, source |-> "none",
           whole |-> FALSE, recheck |-> FALSE]

Tip == IF chain = <<>> THEN NoBlock ELSE chain[Len(chain)]
BestHeight == Len(chain)
Decided(h) == \E b \in Blocks : Height[b] = h /\ engine[b].status = "finalized"

Init ==
    /\ chain = <<>>
    /\ current \in BOOLEAN
    /\ ripe = Blocks \ Ahead
    /\ relayed = {}
    /\ calls = [c \in Calls |-> NoCall]
    /\ orphans = EmptyMap
    /\ orphanLock = {}
    /\ inventory = {}
    /\ inflight = {}
    /\ timers = {}
    /\ engine = [b \in Blocks |-> [status |-> "unknown", cb |-> "none"]]
    /\ chooser = "none"
    /\ banned = {}
    /\ undecoded = {}
    /\ faults = 0
    /\ panicked = FALSE

\* Call c is at pc and goes on at another.
At(c, pc) == ~panicked /\ calls[c].pc = pc
\* c names the next call (the names are interchangeable).
Free(c) ==
    /\ \E d \in Calls : At(d, "idle")
    /\ c = CHOOSE d \in Calls : calls[d].pc = "idle"
Goto(c, pc) == calls' = [calls EXCEPT ![c].pc = pc]

\* Call c returns.  requestBlock then lets the block be requested again in
\* five minutes.
Return(c) ==
    /\ calls' = [calls EXCEPT ![c] = NoCall]
    /\ timers' = IF calls[c].source = "request"
                   THEN timers \cup {calls[c].blk} ELSE timers

\* The ban score of the relaying peer grows; a persistent score above 100 is
\* a ban.  Lesser scores, which add up over several blocks, are not kept.
IncreaseBanscore(c, persistent, transient) ==
    banned' = IF persistent > 100 THEN banned \cup {calls[c].blk} ELSE banned

Fail ==
    /\ faults < MaxFaults
    /\ faults' = faults + 1

-----------------------------------------------------------------------------
\* Pubsub delivers a block.  A node that is not current takes only blocks of
\* the next height.
handleIncomingBlock(c, b, p) ==
    /\ Free(c)
    /\ b \notin relayed
    /\ current \/ Height[b] = BestHeight + 1
    /\ relayed' = relayed \cup {b}
    /\ inflight' = inflight \cup {b}
    /\ calls' = [calls EXCEPT ![c] =
          [NoCall EXCEPT !.pc = "decode", !.blk = b, !.peer = p,
                         !.source = "relay"]]
    /\ UNCHANGED <<chain, current, ripe, orphans, orphanLock, inventory,
                   timers, engine, chooser, banned, undecoded, faults,
                   panicked>>

\* decodeXthinner succeeds, from the mempool or with transactions of the
\* relaying peer or, after that one failed, of another.
decodeXthinner(c) ==
    /\ At(c, "decode")
    /\ calls' = [calls EXCEPT ![c].pc = "check",
                              ![c].whole = calls[c].blk \notin Collides]
    /\ timers' = timers \cup {calls[c].blk}
    /\ \/ UNCHANGED <<banned, faults>>
       \/ Fail /\ IncreaseBanscore(c, 34, 0)
    /\ UNCHANGED <<chain, current, ripe, relayed, orphans, orphanLock,
                   inventory, inflight, engine, chooser, undecoded, panicked>>

\* It fails with all peers, and the block stays in inflightRequests.
DecodeFails(c) ==
    /\ At(c, "decode")
    /\ Fail
    /\ IncreaseBanscore(c, 34, 0)
    /\ undecoded' = undecoded \cup {calls[c].blk}
    /\ Return(c)
    /\ UNCHANGED <<chain, current, ripe, relayed, orphans, orphanLock,
                   inventory, inflight, engine, chooser, panicked>>

\* A peer voted for a block of a height we vote on and that the engine does
\* not have.  The test and the entry in inflightRequests are two critical
\* sections.
requestBlock(c, b, p) ==
    /\ Free(c)
    /\ engine[b].status = "unknown"
    /\ \E r \in Blocks : Height[r] = Height[b] /\ engine[r].status # "unknown"
    /\ ~Decided(Height[b])
    /\ current
    /\ b \notin inflight
    /\ calls' = [calls EXCEPT ![c] =
          [NoCall EXCEPT !.pc = "enter", !.blk = b, !.peer = p,
                         !.source = "request", !.whole = TRUE]]
    /\ UNCHANGED <<chain, current, ripe, relayed, intake, engine, chooser,
                   banned, undecoded, faults, panicked>>

EnterInflight(c) ==
    /\ At(c, "enter")
    /\ inflight' = inflight \cup {calls[c].blk}
    /\ Goto(c, "fetch")
    /\ UNCHANGED <<chain, current, ripe, relayed, orphans, orphanLock,
                   inventory, timers, engine, chooser, banned, undecoded,
                   faults, panicked>>

GetBlock(c) ==
    /\ At(c, "fetch")
    /\ Goto(c, "check")
    /\ UNCHANGED <<chain, current, ripe, relayed, intake, engine, chooser,
                   banned, undecoded, faults, panicked>>

\* Mutation of GetBlockFails: the block cannot be requested again.
GetBlockFails_KeepsInflight(c) ==
    /\ At(c, "fetch")
    /\ Fail
    /\ IncreaseBanscore(c, 0, 30)
    /\ calls' = [calls EXCEPT ![c] = NoCall]
    /\ UNCHANGED <<chain, current, ripe, relayed, intake, engine, chooser,
                   undecoded, panicked>>

GetBlockFails(c) ==
    /\ At(c, "fetch")
    /\ Fail
    /\ IncreaseBanscore(c, 0, 30)
    /\ inflight' = inflight \ {calls[c].blk}
    /\ calls' = [calls EXCEPT ![c] = NoCall]
    /\ UNCHANGED <<chain, current, ripe, relayed, orphans, orphanLock,
                   inventory, timers, engine, chooser, undecoded, panicked>>

-----------------------------------------------------------------------------
\* Blockchain.CheckConnectBlock: the context of the header, then the block.
\* whole: its transactions are the ones its producer chose.
CheckConnectBlock(b, whole) ==
    IF Height[b] <= BestHeight          THEN "stale"
    ELSE IF Height[b] > BestHeight + 1  THEN "orphan"
    ELSE IF Parent[b] # Tip             THEN "stale"
    ELSE IF b \notin ripe               THEN "orphan"
    ELSE IF Fault[b] = "header"         THEN "invalid"
    ELSE IF ~whole \/ Fault[b] = "root" THEN "txroot"
    ELSE "connects"

\* Mutation of RuleErrorPenalty: a block that does not connect is an invalid
\* one.
RuleErrorPenalty_NoRace(c) ==
    IF calls[c].recheck THEN IncreaseBanscore(c, 34, 0)
                        ELSE IncreaseBanscore(c, 101, 0)

\* The penalty for a rule error: light if the block is merely late.
RuleErrorPenalty(c) ==
    CASE calls[c].recheck -> IncreaseBanscore(c, 34, 0)
      [] ~calls[c].recheck
           /\ CheckConnectBlock(calls[c].blk, calls[c].whole) = "stale" ->
            IncreaseBanscore(c, 0, 1)
      [] OTHER -> IncreaseBanscore(c, 101, 0)

\* processBlock begins: the block is an orphan, breaks a rule, has a wrong
\* merkle root or connects.
processBlock(c) ==
    LET result == CheckConnectBlock(calls[c].blk, calls[c].whole)
    IN  /\ At(c, "check")
        /\ \/ /\ result = "orphan"
              /\ Goto(c, "orphan")
              /\ UNCHANGED <<timers, banned>>
           \/ /\ result = "connects"
              /\ Goto(c, "inventory")
              /\ UNCHANGED <<timers, banned>>
           \/ /\ result = "txroot" /\ ~calls[c].recheck
              /\ Goto(c, "txids")
              /\ UNCHANGED <<timers, banned>>
           \/ /\ \/ result \in {"stale", "invalid"}
                 \/ result = "txroot" /\ calls[c].recheck
              /\ RuleErrorPenalty(c)
              /\ Return(c)
        /\ UNCHANGED <<chain, current, ripe, relayed, orphans, orphanLock,
                       inventory, inflight, engine, chooser, undecoded,
                       faults, panicked>>

\* fetchBlockTxids gets the IDs, and the transactions that differ, from the
\* relaying peer, and the block is processed again.
fetchBlockTxids(c) ==
    /\ At(c, "txids")
    /\ Fault[calls[c].blk] # "root"
    /\ calls' = [calls EXCEPT ![c].pc = "check", ![c].whole = TRUE,
                              ![c].recheck = TRUE]
    /\ UNCHANGED <<chain, current, ripe, relayed, intake, engine, chooser,
                   banned, undecoded, faults, panicked>>

\* It fails, as it does for a block whose root is really wrong.  The other
\* peers are asked with the block that the first call returned, which is nil;
\* without other peers processBlock returns.
FetchTxidsFails(c) ==
    /\ At(c, "txids")
    /\ \/ Fault[calls[c].blk] = "root" /\ UNCHANGED faults
       \/ Fault[calls[c].blk] # "root" /\ Fail
    /\ IncreaseBanscore(c, 34, 0)
    /\ \/ panicked' = TRUE /\ UNCHANGED <<calls, timers>>
       \/ Return(c) /\ UNCHANGED panicked
    /\ UNCHANGED <<chain, current, ripe, relayed, orphans, orphanLock,
                   inventory, inflight, engine, chooser, undecoded>>

-----------------------------------------------------------------------------
\* What remains after limitOrphans: one orphan less if there were too many.
limitOrphans(m) ==
    IF Cardinality(DOMAIN m) > MaxOrphans
      THEN {Without(m, {b}) : b \in DOMAIN m} ELSE {m}

\* The orphan is kept.  With many of them and an old tip the sync is closed
\* and started again, all of it under orphanLock.
StoreOrphan(c) ==
    /\ At(c, "orphan")
    /\ orphanLock = {}
    /\ \E m \in limitOrphans(orphans) :
          orphans' = With(m, calls[c].blk, [peer |-> calls[c].peer,
                                            whole |-> calls[c].whole])
    /\ \/ /\ Return(c)
          /\ UNCHANGED <<current, orphanLock>>
       \/ /\ Cardinality(DOMAIN orphans') >= Threshold
          /\ current
          /\ current' = FALSE
          /\ orphanLock' = {c}
          /\ Goto(c, "resync")
          /\ UNCHANGED timers
    /\ UNCHANGED <<chain, ripe, relayed, inventory, inflight, engine, chooser,
                   banned, undecoded, faults, panicked>>

\* The sync has nothing more to connect: Start returns.
Resync(c) ==
    /\ At(c, "resync")
    /\ chooser # "waiting"
    /\ UNCHANGED chain
    /\ current' = TRUE
    /\ orphanLock' = {}
    /\ Return(c)
    /\ UNCHANGED <<ripe, relayed, orphans, inventory, inflight, engine,
                   chooser, banned, undecoded, faults, panicked>>

\* The producer made another block of this height too short a time before.
Duplicate(b) ==
    \E inv \in inventory :
        /\ Height[inv] = Height[b] /\ inv # b
        /\ Producer[inv] = Producer[b]
        /\ Time[b] < Time[inv] + DupTime

Inventory(c) ==
    LET b == calls[c].blk
    IN  /\ At(c, "inventory")
        /\ \/ /\ Duplicate(b)
              /\ IncreaseBanscore(c, 101, 0)
              /\ Return(c)
              /\ UNCHANGED inventory
           \/ /\ ~Duplicate(b)
              /\ inventory' = inventory \cup {b}
              /\ Goto(c, "give")
              /\ UNCHANGED <<timers, banned>>
        /\ UNCHANGED <<chain, current, ripe, relayed, orphans, orphanLock,
                       inflight, engine, chooser, undecoded, faults,
                       panicked>>

\* engine.NewBlock: only the first one registers its callback.
NewBlock(b, cb) ==
    IF engine[b].status = "unknown"
      THEN [engine EXCEPT ![b] = [status |-> "voting", cb |-> cb]]
      ELSE engine

\* The block is no orphan any more, interrupts the generator and goes to the
\* engine.  processBlock returns; a goroutine waits for the callback.
GiveToEngine(c) ==
    LET b == calls[c].blk
    IN  /\ At(c, "give")
        /\ orphanLock = {}
        /\ orphans' = Without(orphans, {b})
        /\ engine' = NewBlock(b, c)
        /\ timers' = IF calls[c].source = "request"
                       THEN timers \cup {b} ELSE timers
        \* a goroutine whose callback is ignored waits for ever
        /\ calls' = IF engine[b].status = "unknown"
                      THEN [calls EXCEPT ![c].pc = "wait"]
                      ELSE [calls EXCEPT ![c] = NoCall]
        /\ UNCHANGED <<chain, current, ripe, relayed, orphanLock, inventory,
                       inflight, chooser, banned, undecoded, faults,
                       panicked>>

-----------------------------------------------------------------------------
\* The engine finalizes b; the other blocks it votes on at this height are
\* rejected.
Finalize(b) ==
    /\ ~panicked
    /\ engine[b].status = "voting"
    /\ ~Decided(Height[b])
    /\ engine' = [x \in Blocks |->
          IF x = b THEN [engine[x] EXCEPT !.status = "finalized"]
          ELSE IF Height[x] = Height[b] /\ engine[x].status = "voting"
                 THEN [engine[x] EXCEPT !.status = "rejected"]
                 ELSE engine[x]]
    /\ UNCHANGED <<chain, current, ripe, relayed, calls, intake, chooser,
                   banned, undecoded, faults, panicked>>

\* Mutation of Connect: only a node that is current connects.
Connect_Current(c) ==
    LET b == calls[c].blk
    IN  /\ At(c, "wait")
        /\ engine[b].status = "finalized"
        /\ IF current /\ CheckConnectBlock(b, TRUE) = "connects"
             THEN chain' = Append(chain, b)
             ELSE UNCHANGED chain
        /\ Goto(c, "orphans")
        /\ UNCHANGED <<current, ripe, relayed, intake, engine, chooser, banned,
                       undecoded, faults, panicked>>

\* The callback says Finalized: the block is connected, unless the chain has
\* got past it, and the node is current.
Connect(c) ==
    LET b == calls[c].blk
    IN  /\ At(c, "wait")
        /\ engine[b].status = "finalized"
        /\ IF CheckConnectBlock(b, TRUE) = "connects"
             THEN /\ chain' = Append(chain, b)
                  /\ current' = TRUE
             ELSE UNCHANGED <<chain, current>>
        /\ Goto(c, "orphans")
        /\ UNCHANGED <<ripe, relayed, intake, engine, chooser, banned,
                       undecoded, faults, panicked>>

\* It says Rejected.
Reject(c) ==
    /\ At(c, "wait")
    /\ engine[calls[c].blk].status = "rejected"
    /\ Goto(c, "orphans")
    /\ UNCHANGED <<chain, current, ripe, relayed, intake, engine, chooser,
                   banned, undecoded, faults, panicked>>

\* The orphans are visited in the random order of the map: those of the
\* height of the block, and those kept too long, are dropped; the first one
\* of the next height is processed again, by a goroutine that takes the place
\* of this one, and ends the loop.
ProcessOrphans(c) ==
    LET h    == Height[calls[c].blk]
        same == {b \in DOMAIN orphans : Height[b] = h}
        next == {b \in DOMAIN orphans : Height[b] = h + 1}
    IN  /\ At(c, "orphans")
        /\ orphanLock = {}
        /\ \/ /\ next = {}
              /\ \E old \in SUBSET (DOMAIN orphans \ same) :
                    orphans' = Without(orphans, same \cup old)
              /\ calls' = [calls EXCEPT ![c] = NoCall]
           \/ \E b \in next, dropped \in SUBSET (DOMAIN orphans \ next) :
                 /\ orphans' = Without(orphans, dropped)
                 /\ calls' = [calls EXCEPT ![c] =
                       [NoCall EXCEPT !.pc = "check", !.blk = b,
                          !.peer = orphans[b].peer, !.source = "orphan",
                          !.whole = orphans[b].whole]]
        /\ UNCHANGED <<chain, current, ripe, relayed, orphanLock, inventory,
                       inflight, timers, engine, chooser, banned, undecoded,
                       faults, panicked>>

-----------------------------------------------------------------------------
\* The AfterFuncs of handleIncomingBlock and requestBlock.
ForgetRequest(b) ==
    /\ ~panicked
    /\ b \in timers
    /\ timers' = timers \ {b}
    /\ inflight' = inflight \ {b}
    /\ UNCHANGED <<chain, current, ripe, relayed, calls, orphans, orphanLock,
                   inventory, engine, chooser, banned, undecoded, faults,
                   panicked>>

\* The AfterFunc of the goroutine that got the callback of the block.
ForgetBlock(b) ==
    /\ ~panicked
    /\ b \in inventory
    /\ engine[b].status \in {"finalized", "rejected"}
    /\ engine[b].cb \in Calls
    /\ \A c \in Calls : ~(calls[c].blk = b /\ calls[c].pc = "wait")
    /\ inventory' = inventory \ {b}
    /\ UNCHANGED <<chain, current, ripe, relayed, calls, orphans, orphanLock,
                   inflight, timers, engine, chooser, banned, undecoded,
                   faults, panicked>>

\* consensusChoose: the sync gives the engine the first blocks of two sides of
\* a fork and waits for 30 seconds.
consensusChoose ==
    /\ ~panicked
    /\ ~current
    /\ chooser = "none"
    /\ chooser' = "waiting"
    /\ engine' = [b \in Blocks |->
          IF Height[b] = BestHeight + 1 /\ engine[b].status = "unknown"
            THEN [status |-> "voting", cb |-> "chooser"] ELSE engine[b]]
    /\ UNCHANGED <<chain, current, ripe, relayed, calls, intake, banned,
                   undecoded, faults, panicked>>

\* The chooser learns the block, or its time is up.
ChooserReturns ==
    /\ chooser = "waiting"
    /\ chooser' = "gone"
    /\ UNCHANGED <<chain, current, ripe, relayed, calls, intake, engine,
                   banned, faults, undecoded, panicked>>

\* What a sync may make of the chain: it adds a block that connects.
Synced(cs) ==
    {Append(cs, b) : b \in {x \in Blocks :
        /\ Height[x] = Len(cs) + 1
        /\ Parent[x] = (IF cs = <<>> THEN NoBlock ELSE cs[Len(cs)])
        /\ Fault[x] = "none"
        /\ x \in ripe}}

\* A sync that is running, the first one or that of processBlock, connects a
\* block.  One that SetCurrent overtakes may still connect the rest of its batch;
\* of the first sync this is left out.
SyncConnects ==
    /\ ~panicked
    /\ ~current \/ orphanLock # {}
    /\ chooser # "waiting"
    /\ chain' \in Synced(chain)
    /\ UNCHANGED <<current, ripe, relayed, calls, intake, engine, chooser, banned,
                   undecoded, faults, panicked>>

\* The first sync ends.
SyncEnds ==
    /\ ~panicked
    /\ ~current
    /\ orphanLock = {}
    /\ chooser # "waiting"
    /\ current' = TRUE
    /\ UNCHANGED <<chain, ripe, relayed, calls, intake, engine, chooser, banned,
                   undecoded, faults, panicked>>

\* The clock reaches the timestamp of a block.
Ripen(b) ==
    /\ b \notin ripe
    /\ ripe' = ripe \cup {b}
    /\ UNCHANGED <<chain, current, relayed, calls, intake, engine, chooser,
                   banned, undecoded, faults, panicked>>

Step(c) ==
    \/ decodeXthinner(c)
    \/ DecodeFails(c)
    \/ EnterInflight(c)
    \/ GetBlock(c)
    \/ GetBlockFails(c)
    \/ processBlock(c)
    \/ fetchBlockTxids(c)
    \/ FetchTxidsFails(c)
    \/ StoreOrphan(c)
    \/ Resync(c)
    \/ Inventory(c)
    \/ GiveToEngine(c)
    \/ Connect(c)
    \/ Reject(c)
    \/ ProcessOrphans(c)

Next ==
    \/ \E c \in Calls, b \in Blocks, p \in Peers :
          handleIncomingBlock(c, b, p) \/ requestBlock(c, b, p)
    \/ \E c \in Calls : Step(c)
    \/ \E b \in Blocks : Finalize(b)
    \/ \E b \in Blocks : ForgetRequest(b) \/ ForgetBlock(b)
    \/ consensusChoose
    \/ ChooserReturns
    \/ SyncConnects
    \/ SyncEnds
    \/ \E b \in Blocks : Ripen(b)

Spec == Init /\ [][Next]_vars

\* Calls go on, timers fire, the sync ends (SyncManager!SyncEnds), and
\* peers keep voting for a block as long as nothing is decided.
Fairness ==
    /\ \A c \in Calls : WF_vars(Step(c))
    /\ \A b \in Blocks :
          /\ WF_vars(ForgetRequest(b))
          /\ SF_vars(\E c \in Calls, p \in Peers : requestBlock(c, b, p))
    /\ WF_vars(ChooserReturns)
    /\ WF_vars(SyncEnds)

FairSpec == Spec /\ Fairness

-----------------------------------------------------------------------------
Steps == {"idle", "decode", "enter", "fetch", "check", "txids", "orphan",
          "resync", "inventory", "give", "wait", "orphans"}

TypeOK ==
    /\ \A i \in DOMAIN chain :
          /\ Height[chain[i]] = i
          /\ Parent[chain[i]] = IF i = 1 THEN NoBlock ELSE chain[i - 1]
    /\ current \in BOOLEAN
    /\ \A c \in Calls : calls[c].pc \in Steps
    /\ DOMAIN orphans \subseteq Blocks
    /\ orphanLock = {c \in Calls : calls[c].pc = "resync"}
    /\ inventory \subseteq Blocks
    /\ inflight \subseteq Blocks
    /\ engine \in [Blocks ->
          [status : {"unknown", "voting", "finalized", "rejected"},
           cb : Calls \cup {"none", "chooser"}]]
    /\ chooser \in {"none", "waiting", "gone"}

\* However blocks, finalizations, syncs and fetches interleave, a relaying
\* peer is banned outright (a score of 101, "Ban nodes that send us invalid
\* blocks") only for a block with a fault of its own or one that is not DupTime
\* later than another of its height and producer.
NoUndeservedBan ==
    \A b \in banned :
        \/ Fault[b] # "none"
        \/ \E x \in Blocks \ {b} :
              /\ Height[x] = Height[b] /\ Producer[x] = Producer[b]
              /\ Time[b] < Time[x] + DupTime

\* And such a ban is for two blocks made "too close together", as processBlock
\* says.  It does not hold: of two blocks DupTime apart that arrive in the
\* other order, the earlier one is taken for a duplicate.
SpacedNotBanned ==
    \A b \in banned :
        \/ Fault[b] # "none"
        \/ \E x \in Blocks \ {b} :
              /\ Height[x] = Height[b] /\ Producer[x] = Producer[b]
              /\ Time[b] < Time[x] + DupTime /\ Time[x] < Time[b] + DupTime

\* A finalization is never lost: while the chain is below a block that the
\* engine finalized, a goroutine of processBlock is still about to hear of it.
\* A block that the sync's chooser gave to the engine first is excepted: its
\* callback goes to the chooser, which may have given up.
FinalizedHeard ==
    \A b \in Blocks :
        /\ engine[b].status = "finalized"
        /\ engine[b].cb # "chooser"
        /\ BestHeight < Height[b]
        => \E c \in Calls : c = engine[b].cb /\ calls[c].blk = b
                              /\ calls[c].pc = "wait"

\* A block in inflightRequests, which is not requested whoever votes for it,
\* is being worked on or a timer will remove it, whatever fails meanwhile.
\* The exception is a block that once could not be decoded: handleIncomingBlock
\* returns and leaves it there.  The types are checked along with it.
InflightAccounted ==
    /\ TypeOK
    /\ \A b \in inflight \ undecoded :
          \/ b \in timers
          \/ \E c \in Calls : calls[c].blk = b /\ calls[c].source # "orphan"

\* An orphan whose parent is connected is processed again: processBlock says
\* of orphans that it "will circle back after we connect the next block".
OrphansResumed ==
    \A b \in Blocks :
        (b \in DOMAIN orphans /\ Parent[b] = Tip) ~>
            (b \notin DOMAIN orphans \/ Parent[b] # Tip \/ panicked)
=============================================================================
