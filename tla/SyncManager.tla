---------------------------- MODULE SyncManager ----------------------------
(***************************************************************************)
(* Syncing to the tip of the chain: SyncManager (sync/sync_manager.go) on  *)
(* top of the requests of ChainService (sync/chain_service.go).            *)
(*                                                                         *)
(* Peers follow chains of blocks.  Start syncs to the checkpoints, sorts   *)
(* the peers into buckets and then repeats: ask the peers for the block    *)
(* Lookahead above its own tip; sync to it if they agree; otherwise search *)
(* for the fork, sync to it, download a window of blocks of each side and  *)
(* follow the best one.  While it runs, peers connect blocks and leave,    *)
(* requests fail, the consensus engine finalizes blocks (server.go) and    *)
(* Close is called.                                                        *)
(*                                                                         *)
(* A chain is the sequence of its block IDs from height 1; two chains that *)
(* share an ID share everything below it.  There are at most eight peers,  *)
(* so that every query asks all of them.  The transient ban score of a     *)
(* failed request is left out.                                             *)
(***************************************************************************)
EXTENDS Integers, Sequences, FiniteSets, Functions, FiniteSetsExt, Maps

CONSTANTS
    Peers,
    Chains,         \* the chains of block IDs that peers follow
    Invalid,        \* the blocks that do not validate
    Genesis,
    NoBlock,        \* the zero ID
    Score,          \* the chain score of the window that a block ends
    Checkpoints,    \* heights of the checkpoints, in ascending order
    TrustedChain,   \* the chain the checkpoints are on
    Heights,        \* the heights a peer may start with
    Lookahead,      \* lookaheadSize
    Window,         \* evaluationWindow
    Kinds,          \* the events that may disturb Start, a subset of AllKinds
    MaxEvents       \* bound on their number

\* "fail": a request fails or a peer leaves; "grow": a peer connects a block;
\* "finalize": the consensus engine finalizes one; "close": Close is called
AllKinds == {"fail", "grow", "finalize", "close"}

\* A block ID is the hash of a header, which has the height and the parent.
ASSUME SyncAssumption ==
    /\ IsFiniteSet(Peers)
    /\ \A c \in Chains : c \in Seq(Range(c))
    /\ \A c, d \in Chains : \A i \in DOMAIN c, j \in DOMAIN d :
          c[i] = d[j] => i = j /\ \A k \in 1..i : c[k] = d[k]
    /\ \A c \in Chains : NoBlock \notin Range(c) /\ Genesis \notin Range(c)
    /\ NoBlock # Genesis
    /\ Heights \subseteq Nat
    /\ Checkpoints \in Seq(Nat \ {0})
    /\ \A i, j \in DOMAIN Checkpoints : i < j => Checkpoints[i] < Checkpoints[j]
    /\ TrustedChain \in Chains
    /\ Lookahead \in Nat \ {0}
    /\ Window \in Nat \ {0}
    /\ Kinds \subseteq AllKinds
    /\ MaxEvents \in Nat

VARIABLES
    follows,    \* peer -> the chain it is on
    has,        \* peer -> its height
    gone,       \* the peers that are no longer connected
    banned,     \* the peers whose ban score went over the limit
    buckets,    \* sm.buckets, as the set of its values
    chain,      \* our chain
    current,    \* sm.current
    quit,       \* sm.quit is closed
    setting,    \* a finalized block's goroutine is about to call SetCurrent
    pc,         \* where Start is
    base,       \* our height and tip when the iteration (or Start) began
    cp,         \* index of the checkpoint being synced and its startHeight
    blockMap,   \* block ID -> a peer that answered with it
    search,     \* findForkPoint: currentHeight, midPoint, toHeight, midID
    windows,    \* block ID -> the evaluation window downloaded for it
    target,     \* what to sync to: peer, height and ID of the last block
    events      \* kind -> how often it happened

net == <<follows, has, gone, banned, buckets>>
ours == <<chain, current, quit, setting>>
locals == <<base, cp, blockMap, search, windows, target>>
vars == <<net, ours, pc, locals, events>>

\* Where Start is.  "panic": the process died of a run-time error.
Steps == {"start", "checkpoints", "buckets", "loop", "check", "query", "tip",
          "straight", "search", "catchup", "window", "choose", "sync", "done",
          "panic"}

Connected == Peers \ gone

\* The block of height h on p's chain, and what p answers when asked for it:
\* the block, or its best block when it has none that high.
BlockAt(p, h) == IF h = 0 THEN Genesis ELSE follows[p][h]
Answer(p, h) == BlockAt(p, Min({h, has[p]}))

Height == Len(chain)
Tip == IF chain = <<>> THEN Genesis ELSE chain[Height]

NoSearch == [lo |-> 0, mid |-> 0, hi |-> 0, id |-> NoBlock]
NoTarget == [peer |-> NoBlock, height |-> 0, id |-> NoBlock]

Init ==
    /\ follows \in [Peers -> Chains]
    /\ has \in [Peers -> Heights]
    /\ \A p \in Peers : has[p] <= Len(follows[p])
    /\ gone = {}
    /\ banned = {}
    /\ buckets = {}
    /\ chain = <<>>
    /\ current = FALSE
    /\ quit = FALSE
    /\ setting = FALSE
    /\ pc = "start"
    /\ base = [height |-> 0, tip |-> Genesis]
    /\ cp = [index |-> 1, start |-> 1]
    /\ blockMap = EmptyMap
    /\ search = NoSearch
    /\ windows = EmptyMap
    /\ target = NoTarget
    /\ events = [k \in AllKinds |-> 0]

Events == SumFunction(events)

\* n events of kind k happen.
Happens(k, n) ==
    /\ pc # "panic"
    /\ n > 0 => k \in Kinds
    /\ Events + n <= MaxEvents
    /\ events' = [events EXCEPT ![k] = @ + n]

Fail(n) == Happens("fail", n)

\* A ban disconnects the peer; its bucket hears of it later.
Ban(S) ==
    /\ banned' = banned \cup S
    /\ gone' = gone \cup S

Goto(step) == pc' = step

(***************************************************************************)
(* syncBlocks: the headers from a to b (to the peer's tip when it has      *)
(* less), checked against the expected last block and first parent, then   *)
(* the blocks in batches, each of which is validated and then connected.   *)
(***************************************************************************)

downloadHeaders(p, a, b) ==
    SubSeq(follows[p], a, Min({Max({a, b}), has[p]}))

\* How many of the blocks hs, the first at height a, ConnectBlock accepts.
Connectable(hs, a, fast) ==
    IF a # Height + 1 THEN 0
    ELSE Max({n \in 0..Len(hs) :
                 fast \/ \A i \in 1..n : hs[i] \notin Invalid})

\* n failures of requests; none is no event.
Lost(n) == IF n = 0 THEN UNCHANGED events ELSE Fail(n)

\* What syncBlocks does with the headers hs, the first at height a, of which
\* the peer lost n requests so far.
syncHeaders(p, hs, n, a, parent, expected, fast, ok, err) ==
    LET good == Connectable(hs, a, fast)
        connect(i) == chain' = chain \o SubSeq(hs, 1, i)
    IN  IF hs[Len(hs)] # expected \/ BlockAt(p, a - 1) # parent
        THEN /\ Ban({p})
             /\ err
             /\ Lost(n)
             /\ UNCHANGED chain
        ELSE \/ /\ good = Len(hs)
                /\ connect(good)
                /\ ok
                /\ Lost(n)
                /\ UNCHANGED <<gone, banned>>
             \* a block, or its batch, fails to validate
             \/ /\ good < Len(hs)
                /\ \E i \in 0..good : connect(i)
                /\ err
                /\ Lost(n)
                /\ UNCHANGED <<gone, banned>>
             \* a later batch is not served
             \/ /\ \E i \in 1..(good - 1) : connect(i)
                /\ err
                /\ Fail(n + 1)
                /\ UNCHANGED <<gone, banned>>
             \* a batch ends early, which is no error: after the last one
             \* syncBlocks returns; any other is connected, and the next one
             \* does not belong to the headers that follow
             \/ /\ \E i \in 1..good : i < Len(hs) /\ connect(i)
                /\ Fail(n + 1)
                /\ \/ ok /\ UNCHANGED <<gone, banned>>
                   \/ err /\ Ban({p})

\* What follows when syncBlocks returns nil is ok, otherwise err.  A stream of
\* headers that ends early leaves the ones that have arrived.
syncBlocks(p, a, b, parent, expected, fast, ok, err) ==
    LET all == downloadHeaders(p, a, b)
    IN  \* no answer
        \/ /\ \/ p \in Connected /\ Fail(1)
              \/ (p \in gone \/ all = <<>>) /\ UNCHANGED events
           /\ err
           /\ UNCHANGED <<chain, gone, banned>>
        \/ /\ p \in Connected
           /\ all # <<>>
           /\ \/ syncHeaders(p, all, 0, a, parent, expected, fast, ok, err)
              \/ \E k \in 1..(Len(all) - 1) :
                    syncHeaders(p, SubSeq(all, 1, k), 1, a, parent, expected,
                                fast, ok, err)

(***************************************************************************)
(* Start.                                                                  *)
(***************************************************************************)

Start ==
    /\ pc = "start" \/ (pc = "done" /\ quit)
    /\ quit' = FALSE
    /\ base' = [height |-> Height, tip |-> Tip]
    /\ cp' = [index |-> 1, start |-> Height + 1]
    /\ Goto(IF Checkpoints # <<>> /\ Height < Checkpoints[Len(Checkpoints)]
            THEN "checkpoints" ELSE "buckets")
    /\ UNCHANGED <<net, chain, current, setting, blockMap, search, windows,
                   target, events>>

CheckpointID(i) == IF i = 0 THEN Genesis ELSE TrustedChain[Checkpoints[i]]

\* One attempt to reach the next checkpoint, from a peer picked at random.
syncToCheckpoints(p) ==
    /\ pc = "checkpoints"
    /\ cp.index <= Len(Checkpoints)
    /\ base.height <= Checkpoints[cp.index]
    /\ p \in Connected
    /\ LET height == Checkpoints[cp.index]
           ok == cp' = [index |-> cp.index + 1, start |-> height + 1]
       IN  syncBlocks(p, cp.start, height, CheckpointID(cp.index - 1),
                      CheckpointID(cp.index), TRUE, ok, UNCHANGED cp)
    /\ UNCHANGED <<follows, has, buckets, current, quit, setting, pc, base,
                   blockMap, search, windows, target>>

\* Skips a checkpoint that was passed before Start; the last one ends the loop.
NextCheckpoint ==
    /\ pc = "checkpoints"
    /\ IF cp.index > Len(Checkpoints)
       THEN Goto("buckets") /\ UNCHANGED cp
       ELSE /\ base.height > Checkpoints[cp.index]
            /\ cp' = [cp EXCEPT !.index = @ + 1]
            /\ UNCHANGED pc
    /\ UNCHANGED <<net, ours, base, blockMap, search, windows, target, events>>

\* The queries of Start: answered by the peers of R, the others fail.
Queried(R) ==
    /\ R \subseteq Connected
    /\ Fail(Cardinality(Connected \ R))

\* Without peers to ask a query fails, as when more than half of them do.
Enough(R) == Connected # {} /\ Cardinality(R) >= Cardinality(Connected) \div 2

\* Repeated until it succeeds; the quit channel is looked at when it fails.
populatePeerBuckets ==
    /\ pc = "buckets"
    /\ \E R \in SUBSET Connected :
          /\ Queried(R)
          /\ IF Enough(R)
             THEN /\ buckets' = {{q \in R : Answer(q, has[q]) = Answer(p, has[p])} : p \in R}
                  /\ Goto("loop")
             ELSE /\ Goto(IF quit THEN "done" ELSE "buckets")
                  /\ UNCHANGED buckets
    /\ UNCHANGED <<follows, has, gone, banned, ours, locals>>

\* The head of the loop: first the quit channel ...
Loop ==
    /\ pc = "loop"
    /\ Goto(IF quit THEN "done" ELSE "check")
    /\ blockMap' = EmptyMap
    /\ search' = NoSearch
    /\ windows' = EmptyMap
    /\ target' = NoTarget
    /\ UNCHANGED <<net, ours, base, cp, events>>

\* ... then current, under the read lock.  While Close holds the lock a waiting
\* writer (SetCurrent) keeps new readers out.
Check ==
    /\ pc = "check"
    /\ ~(quit /\ setting)
    /\ Goto(IF current THEN "done" ELSE "query")
    /\ base' = [height |-> Height, tip |-> Tip]
    /\ UNCHANGED <<net, ours, cp, blockMap, search, windows, target, events>>

\* Mutation of Ahead: an answer for our own height counts as well.
Ahead_OrEqual(p, h) == Min({h, has[p]}) >= Height

\* The answers that count: those for a block above our own height.
Ahead(p, h) == Min({h, has[p]}) > Height

queryPeersForBlockID ==
    /\ pc = "query"
    /\ LET want == base.height + Lookahead
           midPoint == base.height + (Lookahead \div 2)
       IN  \E R \in SUBSET Connected :
              /\ Queried(R)
              /\ IF Enough(R)
                 THEN LET ahead == {p \in R : Ahead(p, want)}
                          ids == {Answer(p, want) : p \in ahead}
                      IN  /\ \E m \in [ids -> ahead] :
                                /\ \A id \in ids : Answer(m[id], want) = id
                                /\ blockMap' = m
                          /\ search' = [lo |-> base.height, mid |-> midPoint,
                                        hi |-> want, id |-> NoBlock]
                          /\ Goto(IF ids = {} THEN "tip"
                                  ELSE IF Cardinality(ids) = 1 THEN "straight"
                                  ELSE "search")
                 ELSE Goto("loop") /\ UNCHANGED <<blockMap, search>>
    /\ UNCHANGED <<net, ours, base, cp, windows, target>>

\* SetCurrent waits for the lock, which Close holds until Start has returned.
SetCurrent ==
    /\ pc = "tip"
    /\ ~quit
    /\ current' = TRUE
    /\ Goto("done")
    /\ UNCHANGED <<net, chain, quit, setting, locals, events>>

\* The peers agree on the block at the requested height.
SyncAgreed ==
    /\ pc = "straight"
    /\ \E id \in DOMAIN blockMap :
          syncBlocks(blockMap[id], base.height + 1, base.height + Lookahead,
                     base.tip, id, FALSE, TRUE, TRUE)
    /\ Goto("loop")
    /\ UNCHANGED <<follows, has, buckets, current, quit, setting, locals>>

(***************************************************************************)
(* findForkPoint: a binary search for the highest block that the peers of  *)
(* blockMap agree on, one action per round.                                *)
(***************************************************************************)

\* Mutation of Narrowed: the ID of the round before is kept.
Narrowed_ShadowedID(s, ids) ==
    IF Cardinality(ids) > 1
    THEN [lo |-> s.lo, mid |-> s.lo + ((s.mid - s.lo) \div 2),
          hi |-> s.mid, id |-> s.id]
    ELSE [lo |-> s.mid, mid |-> s.mid + ((s.hi - s.mid) \div 2),
          hi |-> s.hi, id |-> s.id]

\* The next currentHeight, midPoint, toHeight and midID.
Narrowed(s, ids) ==
    IF Cardinality(ids) > 1
    THEN [lo |-> s.lo, mid |-> s.lo + ((s.mid - s.lo) \div 2),
          hi |-> s.mid, id |-> s.id]
    ELSE [lo |-> s.mid, mid |-> s.mid + ((s.hi - s.mid) \div 2),
          hi |-> s.hi, id |-> CHOOSE id \in ids : TRUE]

findForkPoint ==
    /\ pc = "search"
    /\ LET asked == Range(blockMap)
           next == Narrowed(search, {Answer(p, search.mid) : p \in asked})
       IN  /\ asked \subseteq Connected
           /\ search' = next
           /\ Goto(IF next.mid # search.mid THEN "search"
                   ELSE IF next.mid > base.height THEN "catchup" ELSE "window")
    /\ UNCHANGED <<net, ours, base, cp, blockMap, windows, target, events>>

\* A peer does not answer.  One that has no block that high and then does not
\* answer with its best block is taken to have height 0, and banned for it
\* unless that is where the sync began.
SearchFails ==
    /\ pc = "search"
    /\ \/ /\ \/ Fail(1)
             \/ Range(blockMap) \cap gone # {} /\ UNCHANGED events
          /\ UNCHANGED <<gone, banned>>
       \/ \E p \in Range(blockMap) \cap Connected :
             /\ has[p] < search.mid
             /\ base.height > 0
             /\ Fail(1)
             /\ Ban({p})
    /\ Goto("loop")
    /\ UNCHANGED <<follows, has, buckets, ours, locals>>

\* A peer connects the block asked for after it answered that it has none: its
\* best block is then as high as the one it did not have, and it is banned.
SearchRaced(p) ==
    /\ pc = "search"
    /\ p \in Range(blockMap) \cap Connected
    /\ has[p] = search.mid - 1
    /\ has[p] < Len(follows[p])
    /\ Happens("grow", 1)
    /\ has' = [has EXCEPT ![p] = @ + 1]
    /\ Ban({p})
    /\ Goto("loop")
    /\ UNCHANGED <<follows, buckets, ours, locals>>

\* Step two: sync to the fork, from any of the peers.
SyncToFork ==
    /\ pc = "catchup"
    /\ \E p \in Range(blockMap) :
          syncBlocks(p, base.height + 1, search.mid, base.tip, search.id, FALSE,
                     Goto("window"), Goto("loop"))
    /\ UNCHANGED <<follows, has, buckets, current, quit, setting, locals>>

(***************************************************************************)
(* Steps three and four: a window of blocks of each side of the fork, with *)
(* its score.                                                              *)
(***************************************************************************)

\* Mutation of Rivals: the fork point counts as a side.
Rivals_WithFork == DOMAIN blockMap

\* The sides of the fork: a peer whose tip is the fork itself is none.
Rivals == DOMAIN blockMap \ {search.id}

EvalWindow(p) == downloadHeaders(p, search.mid + 1, search.mid + Window)

\* CalcChainScore connects the window w of p to a copy of our chain.
CalcChainScore(p, w) ==
    /\ Height = search.mid
    /\ Tip = BlockAt(p, search.mid)
    /\ Range(w) \cap Invalid = {}

Serves(p) == p \in Connected /\ EvalWindow(p) # <<>>

downloadEvalWindow ==
    /\ pc = "window"
    /\ \A id \in Rivals : /\ Serves(blockMap[id])
                          /\ CalcChainScore(blockMap[id], EvalWindow(blockMap[id]))
    /\ windows' = [id \in Rivals |-> EvalWindow(blockMap[id])]
    /\ Goto("choose")
    /\ UNCHANGED <<net, ours, base, cp, blockMap, search, target, events>>

\* The streams of the peers of S end early: their windows are the n[id] blocks
\* that have arrived.
WindowsCut ==
    /\ pc = "window"
    /\ \E S \in (SUBSET Rivals) \ {{}} : \E n \in [S -> 1..Window] :
          LET cut == [id \in Rivals |->
                        IF id \in S THEN SubSeq(EvalWindow(blockMap[id]), 1, n[id])
                        ELSE EvalWindow(blockMap[id])]
          IN  /\ \A id \in S : n[id] < Len(EvalWindow(blockMap[id]))
              /\ \A id \in Rivals : /\ Serves(blockMap[id])
                                    /\ CalcChainScore(blockMap[id], cut[id])
              /\ windows' = cut
              /\ Fail(Cardinality({blockMap[id] : id \in S}))
    /\ Goto("choose")
    /\ UNCHANGED <<net, ours, base, cp, blockMap, search, target>>

\* A peer that does not serve a valid window is banned.
WindowFails(p) ==
    /\ pc = "window"
    /\ \E id \in Rivals : blockMap[id] = p
    /\ \/ ~(Serves(p) /\ CalcChainScore(p, EvalWindow(p))) /\ UNCHANGED events
       \/ Fail(1)
    /\ Ban({p})
    /\ Goto("loop")
    /\ UNCHANGED <<follows, has, buckets, ours, locals>>

\* The peer connects a block between the download of the headers and that of
\* the transactions, or only the headers end early: there are more transactions
\* than headers to index.
WindowPanics(p) ==
    /\ pc = "window"
    /\ \E id \in Rivals : blockMap[id] = p
    /\ Serves(p)
    /\ \/ /\ Len(EvalWindow(p)) < Window
          /\ has[p] < Len(follows[p])
          /\ Happens("grow", 1)
          /\ has' = [has EXCEPT ![p] = @ + 1]
       \/ /\ Len(EvalWindow(p)) > 1
          /\ Fail(1)
          /\ UNCHANGED has
    /\ Goto("panic")
    /\ UNCHANGED <<follows, gone, banned, buckets, ours, locals>>

(***************************************************************************)
(* The choice of a fork, by score or, when no side fills the window, by a  *)
(* poll of the consensus engine for the first blocks.                      *)
(***************************************************************************)

LastOf(w) == w[Len(w)]

tipOfChain == \A id \in Rivals : Len(windows[id]) < Window

\* Mutation of BestIDs: the highest score wins.
BestIDs_HighestScore ==
    IF tipOfChain THEN Rivals
    ELSE {id \in Rivals : \A x \in Rivals :
             Score[LastOf(windows[id])] >= Score[LastOf(windows[x])]}

\* consensusChoose answers with one of the first blocks; firstMap has any of the
\* IDs that share it.
BestIDs ==
    IF tipOfChain THEN Rivals
    ELSE {id \in Rivals : \A x \in Rivals :
             Score[LastOf(windows[id])] <= Score[LastOf(windows[x])]}

\* "And ban the nodes on bad fork": the peer of every other entry of blockMap
\* and all of the bucket it is in.
Losers(id) == {blockMap[x] : x \in DOMAIN blockMap \ {id}}
LosersBuckets(id) == {b \in buckets : b \cap Losers(id) # {}}

ChooseFork ==
    /\ pc = "choose"
    /\ \E id \in BestIDs :
          /\ target' = [peer |-> blockMap[id], id |-> LastOf(windows[id]),
                        height |-> search.mid + Len(windows[id])]
          /\ IF Cardinality(Rivals) > 1
             THEN /\ Ban(Losers(id) \cup UNION LosersBuckets(id))
                  /\ buckets' = buckets \ LosersBuckets(id)
             ELSE UNCHANGED <<gone, banned, buckets>>
    /\ Goto("sync")
    /\ UNCHANGED <<follows, has, ours, base, cp, blockMap, search, windows, events>>

\* No block is finalized in time.
ChooserFails ==
    /\ pc = "choose"
    /\ tipOfChain
    /\ Fail(1)
    /\ Goto("loop")
    /\ UNCHANGED <<net, ours, locals>>

SyncToBest ==
    /\ pc = "sync"
    /\ syncBlocks(target.peer, Height + 1, target.height, Tip, target.id, FALSE,
                  TRUE, TRUE)
    /\ Goto("loop")
    /\ UNCHANGED <<follows, has, buckets, current, quit, setting, locals>>

(***************************************************************************)
(* What else happens.                                                      *)
(***************************************************************************)

bucketPeerDisconnected(p) ==
    /\ p \in gone
    /\ p \in UNION buckets
    /\ buckets' = {b \ {p} : b \in buckets} \ {{}}
    /\ UNCHANGED <<follows, has, gone, banned, ours, pc, locals, events>>

\* Close cannot finish before Start has returned; it holds the read lock.
Close ==
    /\ ~quit
    /\ Happens("close", 1)
    /\ quit' = TRUE
    /\ current' = FALSE
    /\ UNCHANGED <<net, chain, setting, pc, locals>>

\* processBlock connects a block that the engine finalized ...
Finalize(b) ==
    /\ Happens("finalize", 1)
    /\ ~setting
    /\ b \notin Invalid
    /\ \E c \in Chains :
          /\ Height < Len(c)
          /\ c[Height + 1] = b
          /\ SubSeq(c, 1, Height) = chain
    /\ chain' = Append(chain, b)
    /\ setting' = TRUE
    /\ UNCHANGED <<net, current, quit, pc, locals>>

\* ... and then calls SetCurrent, which waits for Close.
ServerSetCurrent ==
    /\ setting
    /\ quit => pc \in {"start", "done"}
    /\ setting' = FALSE
    /\ current' = TRUE
    /\ UNCHANGED <<net, chain, quit, pc, locals, events>>

Grow(p) ==
    /\ Happens("grow", 1)
    /\ has[p] < Len(follows[p])
    /\ has' = [has EXCEPT ![p] = @ + 1]
    /\ UNCHANGED <<follows, gone, banned, buckets, ours, pc, locals>>

Leave(p) ==
    /\ p \in Connected
    /\ gone' = gone \cup {p}
    /\ Fail(1)
    /\ UNCHANGED <<follows, has, banned, buckets, ours, pc, locals>>

Sync ==
    \/ Start \/ NextCheckpoint \/ populatePeerBuckets
    \/ Loop \/ Check \/ queryPeersForBlockID
    \/ SetCurrent \/ SyncAgreed \/ findForkPoint \/ SearchFails \/ SyncToFork
    \/ downloadEvalWindow \/ WindowsCut \/ ChooseFork \/ ChooserFails \/ SyncToBest
    \/ \E p \in Peers : SearchRaced(p) \/ WindowFails(p) \/ WindowPanics(p)

Environment ==
    \/ Close \/ ServerSetCurrent
    \/ \E c \in Chains : \E b \in Range(c) : Finalize(b)
    \/ \E p \in Peers : Grow(p) \/ Leave(p) \/ bucketPeerDisconnected(p)

Next ==
    \/ Sync
    \/ \E p \in Peers : syncToCheckpoints(p)
    \/ Environment

Spec == Init /\ [][Next]_vars

\* Start's goroutine keeps running, its requests end, the peer it picks for a
\* checkpoint is random, and the other goroutines run on.
Fairness ==
    /\ WF_vars(Sync)
    /\ \A p \in Peers : WF_vars(syncToCheckpoints(p))
    /\ WF_vars(ServerSetCurrent)

FairSpec == Spec /\ Fairness

(***************************************************************************)
(* Properties.                                                             *)
(***************************************************************************)

Blocks == UNION {Range(c) : c \in Chains}

TypeOK ==
    /\ follows \in [Peers -> Chains]
    /\ has \in [Peers -> Nat]
    /\ \A p \in Peers : has[p] <= Len(follows[p])
    /\ banned \subseteq gone
    /\ gone \subseteq Peers
    /\ buckets \subseteq SUBSET Peers
    /\ {} \notin buckets
    /\ chain \in Seq(Blocks)
    /\ {current, quit, setting} \subseteq BOOLEAN
    /\ pc \in Steps
    /\ DOMAIN blockMap \subseteq Blocks
    /\ Range(blockMap) \subseteq Peers
    /\ DOMAIN windows \subseteq DOMAIN blockMap
    /\ search.lo <= search.mid /\ search.mid <= search.hi

\* Nothing but Start and its peers' answers decided where we are.
Undisturbed == \A k \in AllKinds : events[k] = 0

Forks(p, q, h) == Answer(p, h) # Answer(q, h)

\* Unless a peer connects blocks meanwhile, findForkPoint (sync_manager.go:655)
\* ends at the highest block that all peers it asked have, or at the height it
\* began with, without a block, when they have none in common from there on.
ForkPointFound ==
    pc \in {"catchup", "window"} /\ events["grow"] = 0 =>
        /\ \/ \A p \in Range(blockMap) : /\ has[p] >= search.mid
                                          /\ BlockAt(p, search.mid) = search.id
           \/ search.mid = base.height /\ search.id = NoBlock
        /\ \E p, q \in Range(blockMap) : Forks(p, q, search.mid + 1)

Tips == {Answer(p, has[p]) : p \in Peers}
Highest == Max({0} \cup {has[p] : p \in Peers})

\* All peers are on one valid chain.
NoFork ==
    /\ \A p, q \in Peers : \A h \in 1..Min({has[p], has[q]}) :
          BlockAt(p, h) = BlockAt(q, h)
    /\ \A p \in Peers : Range(follows[p]) \cap Invalid = {}

\* Every peer is past the checkpoints, and on their chain.
PastCheckpoints ==
    \A p \in Peers, i \in DOMAIN Checkpoints :
        has[p] >= Checkpoints[i] /\ BlockAt(p, Checkpoints[i]) = CheckpointID(i)

\* With all peers on one chain, at no more than two heights, past the
\* checkpoints, the sync (sync_manager.go:132-287) bans nobody and ends at the
\* height of the highest of them.  The types are checked along with it.
OneChainSynced ==
    /\ TypeOK
    /\ NoFork /\ Undisturbed /\ Cardinality(Tips) <= 2 /\ PastCheckpoints
       => /\ banned = {}
          /\ current => Height = Highest

\* Heights at which all peers have the same block.
Common == {h \in 0..Highest : \A p, q \in Peers :
              Min({has[p], has[q]}) >= h /\ BlockAt(p, h) = BlockAt(q, h)}
ForkHeight == Max(Common)

WindowEnd(p) == BlockAt(p, ForkHeight + Window)

\* Every peer fills a window of valid blocks beyond the fork, and the side it is
\* on does not fork again within the window.
SidesFilled ==
    /\ \A p \in Peers : /\ has[p] >= ForkHeight + Window
                        /\ Range(follows[p]) \cap Invalid = {}
    /\ \A p, q \in Peers :
          BlockAt(p, ForkHeight + 1) = BlockAt(q, ForkHeight + 1)
          => WindowEnd(p) = WindowEnd(q)

\* When every side of the fork fills an evaluation window of valid blocks, past
\* the checkpoints, the chain we connect beyond the fork is one of those with the
\* best chain score, however the peers were asked and at whatever heights they
\* are (sync_manager.go:201-250).
BestForkWins ==
    Undisturbed /\ SidesFilled /\ PastCheckpoints /\ Height > ForkHeight
    => \E p \in Peers : /\ chain[ForkHeight + 1] = BlockAt(p, ForkHeight + 1)
                        /\ \A q \in Peers : Score[WindowEnd(p)] <= Score[WindowEnd(q)]

\* Start (sync_manager.go:100) returns when all blocks its peers have are valid,
\* unless it is left without peers, dies, is told to stop, or works on a
\* checkpoint from a height that is not the one after ours: below it when blocks
\* were connected meanwhile (syncToCheckpoints asks for them again), above it
\* when a stream ended early and the blocks up to the last checkpoint are
\* missing.  What it asks for then never connects.
StartReturns ==
    (\A p \in Peers : Range(follows[p]) \cap Invalid = {})
    => <>(\/ pc \in {"done", "panic"}
          \/ Connected = {}
          \/ quit
          \/ pc = "checkpoints" /\ cp.start # Height + 1)

\* Start waits for currentMtx, whose read lock Close holds until Start returns.
LockedOut == pc = "tip" \/ (pc = "check" /\ setting)

\* "Close stops the sync" (sync_manager.go:290): Start sees the closed channel and
\* returns, and Close with it, except where the two wait for each other, during
\* the checkpoints, which do not look at the channel, and when Start panics.
CloseReturns ==
    quit ~> \/ pc \in {"done", "panic", "checkpoints"}
            \/ ~quit
            \/ LockedOut

\* Start and Close both come to an end (sync_manager.go:100, 290), with the
\* exceptions above.
SyncEnds == StartReturns /\ CloseReturns

\* "SyncManager is responsible for trustlessly syncing the blockchain to the tip
\* of the chain" (sync_manager.go:33): with all peers on one chain and no
\* failures, we are current only at the height of the highest of them.
SyncedToTip == NoFork /\ Undisturbed /\ current => Height = Highest
============================================================================
