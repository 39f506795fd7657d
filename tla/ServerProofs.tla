---------------------------- MODULE ServerProofs ----------------------------
(***************************************************************************)
(* For any blocks, peers, calls and bounds: the three safety invariants of *)
(* Server.                                                                 *)
(*                                                                         *)
(* Each speaks of what several goroutines and timers do between two locks, *)
(* so each needs to know what a call that is past a test may still rely    *)
(* on: Checked says what remains true of a block that once connected while *)
(* the chain grows, Heard which goroutine holds the callback of a block    *)
(* the engine votes on, Accounted which calls still owe a timer.           *)
(***************************************************************************)
EXTENDS Server, SequenceTheorems, TLAPS

-----------------------------------------------------------------------------
CallRecs == [pc : Steps, blk : Blocks \cup {NoBlock}, peer : Peers \cup {NoPeer},
             source : {"none", "relay", "request", "orphan"},
             whole : BOOLEAN, recheck : BOOLEAN]
Orphans == [peer : Peers \cup {NoPeer}, whole : BOOLEAN]
Engines == [Blocks ->
              [status : {"unknown", "voting", "finalized", "rejected"},
               cb : Calls \cup {"none", "chooser"}]]

\* A call that is not idle works on a block; the first steps belong to one
\* kind of call each.
Shaped(r) ==
    /\ r \in CallRecs
    /\ r.pc # "idle" => r.blk \in Blocks
    /\ r.pc = "decode" => r.source = "relay"
    /\ r.pc \in {"enter", "fetch"} => r.source = "request"

Types ==
    /\ chain \in Seq(Blocks)
    /\ current \in BOOLEAN
    /\ ripe \subseteq Blocks
    /\ calls \in [Calls -> CallRecs]
    /\ \A c \in Calls : Shaped(calls[c])
    /\ DOMAIN orphans \subseteq Blocks
    /\ \A b \in DOMAIN orphans : orphans[b] \in Orphans
    /\ inventory \subseteq Blocks
    /\ inflight \subseteq Blocks
    /\ engine \in Engines
    /\ chooser \in {"none", "waiting", "gone"}

Linked ==
    \A i \in 1..Len(chain) :
        /\ Height[chain[i]] = i
        /\ Parent[chain[i]] = IF i = 1 THEN NoBlock ELSE chain[i - 1]

\* The only call that holds orphanLock over several steps is the one in resync.
Lock ==
    /\ orphanLock = {c \in Calls : calls[c].pc = "resync"}
    /\ \A c, d \in orphanLock : c = d

\* What remains of CheckConnectBlock = "connects": the chain may have got to
\* the height of the block meanwhile, and that is all.
CheckedBlock(b) ==
    /\ Height[b] <= BestHeight + 1
    /\ Height[b] = BestHeight + 1 => Parent[b] = Tip
    /\ b \in ripe
    /\ Fault[b] = "none"

Checked ==
    \A c \in Calls :
        calls[c].pc \in {"inventory", "give", "wait"} =>
            CheckedBlock(calls[c].blk)

\* The goroutine that gave the engine the block is waiting for the callback.
Waited(b) ==
    \E c \in Calls : /\ c = engine[b].cb
                     /\ calls[c].blk = b
                     /\ calls[c].pc = "wait"

Heard ==
    \A b \in Blocks :
        /\ engine[b].cb # "chooser"
        /\ \/ engine[b].status = "voting"
           \/ engine[b].status = "finalized" /\ BestHeight < Height[b]
        => Waited(b)

\* The call will start the timer of its block, or take the block out of
\* inflightRequests, when it returns.
Owes(r) ==
    \/ r.source = "relay" /\ r.pc = "decode"
    \/ r.source = "request" /\ r.pc \in {"fetch", "check", "txids", "orphan",
                                         "resync", "inventory", "give"}

Accounted ==
    \A b \in inflight \ undecoded :
        \/ b \in timers
        \/ \E c \in Calls : calls[c].blk = b /\ Owes(calls[c])

\* The inductive invariant.
Inv == /\ Types /\ Linked /\ Lock /\ Checked /\ Heard /\ Accounted
       /\ NoUndeservedBan

-----------------------------------------------------------------------------
(* How one call moves.                                                     *)

\* Only call c moves.
OnlyMoves(c) ==
    /\ calls' \in [Calls -> CallRecs]
    /\ \A d \in Calls : d # c => calls'[d] = calls[d]

LEMMA StepsIn ==
    /\ {"idle", "decode", "enter", "fetch", "check", "txids"} \subseteq Steps
    /\ {"orphan", "resync", "inventory", "give", "wait", "orphans"} \subseteq Steps
BY DEF Steps

LEMMA NoCallIs ==
    /\ NoCall \in CallRecs /\ Shaped(NoCall)
    /\ NoCall.pc = "idle" /\ NoCall.blk = NoBlock /\ NoCall.source = "none"
<1>1. NoCall \in CallRecs
  BY StepsIn DEF NoCall, CallRecs
<1>2. NoCall.pc = "idle" /\ NoCall.blk = NoBlock /\ NoCall.source = "none"
  BY DEF NoCall
<1> QED
  BY <1>1, <1>2 DEF Shaped

LEMMA CallIs ==
    ASSUME Types, NEW c \in Calls
    PROVE  /\ calls[c] \in CallRecs /\ Shaped(calls[c])
           /\ calls[c].pc \in Steps
           /\ calls[c].pc # "idle" => calls[c].blk \in Blocks
           /\ calls[c].source \in {"none", "relay", "request", "orphan"}
           /\ calls[c].peer \in Peers \cup {NoPeer}
           /\ calls[c].whole \in BOOLEAN
           /\ calls[c].recheck \in BOOLEAN
BY DEF Types, CallRecs, Shaped

LEMMA GotoIs ==
    ASSUME Types, NEW c \in Calls, NEW q \in Steps, Goto(c, q)
    PROVE  /\ OnlyMoves(c)
           /\ calls'[c].pc = q
           /\ calls'[c].blk = calls[c].blk
           /\ calls'[c].source = calls[c].source
           /\ calls[c].blk \in Blocks /\ q \notin {"decode", "enter", "fetch"}
                => Shaped(calls'[c])
<1>1. calls \in [Calls -> CallRecs]
  BY DEF Types
<1>2. [calls[c] EXCEPT !.pc = q] \in CallRecs
  BY <1>1 DEF CallRecs
<1>3. calls' = [calls EXCEPT ![c] = [calls[c] EXCEPT !.pc = q]]
  BY DEF Goto
<1>4. OnlyMoves(c) /\ calls'[c] = [calls[c] EXCEPT !.pc = q]
  BY <1>1, <1>2, <1>3, Zenon DEF OnlyMoves
<1>5. /\ calls'[c].pc = q /\ calls'[c].blk = calls[c].blk
      /\ calls'[c].source = calls[c].source
  BY <1>1, <1>4 DEF CallRecs
<1> QED
  BY <1>2, <1>4, <1>5 DEF Shaped

LEMMA ReturnIs ==
    ASSUME Types, NEW c \in Calls, calls' = [calls EXCEPT ![c] = NoCall]
    PROVE  /\ OnlyMoves(c)
           /\ calls'[c] = NoCall
           /\ Shaped(calls'[c])
<1>1. calls \in [Calls -> CallRecs]
  BY DEF Types
<1>2. OnlyMoves(c) /\ calls'[c] = NoCall
  BY <1>1, NoCallIs, Zenon DEF OnlyMoves
<1> QED
  BY <1>2, NoCallIs

\* A call that neither holds the lock nor waits for a callback moves, and the
\* chain and the engine stay.
LEMMA Moves ==
    ASSUME Inv, NEW c \in Calls, OnlyMoves(c), Shaped(calls'[c]),
           calls[c].pc \notin {"resync", "wait"},
           calls'[c].pc \notin {"resync", "wait"},
           calls'[c].pc \in {"inventory", "give"} => CheckedBlock(calls'[c].blk),
           chain' = chain, ripe' = ripe, engine' = engine,
           orphanLock' = orphanLock
    PROVE  /\ calls' \in [Calls -> CallRecs]
           /\ \A d \in Calls : Shaped(calls'[d])
           /\ Linked' /\ Lock' /\ Checked' /\ Heard'
<1>1. \A d \in Calls : calls'[d] = calls[d] \/ d = c
  BY DEF OnlyMoves
<1>2. \A d \in Calls : Shaped(calls'[d])
  BY <1>1 DEF Inv, Types
<1>3. Linked'
  BY DEF Inv, Linked
<1>4. Lock'
  <2>1. \A d \in Calls : calls'[d].pc = "resync" <=> calls[d].pc = "resync"
    BY <1>1
  <2> QED
    BY <2>1 DEF Inv, Lock
<1>5. Checked'
  <2>1. \A b : CheckedBlock(b)' <=> CheckedBlock(b)
    BY DEF CheckedBlock, BestHeight, Tip
  <2>2. \A d \in Calls : calls'[d].pc \in {"inventory", "give", "wait"} =>
                            CheckedBlock(calls'[d].blk)
    BY <1>1 DEF Inv, Checked
  <2> QED
    BY <2>1, <2>2 DEF Checked
<1>6. Heard'
  <2>1. \A b : Waited(b) => Waited(b)'
    BY <1>1 DEF Waited
  <2>2. BestHeight' = BestHeight
    BY DEF BestHeight
  <2> QED
    BY <2>1, <2>2 DEF Inv, Heard
<1> QED
  BY <1>2, <1>3, <1>4, <1>5, <1>6 DEF OnlyMoves

\* It leaves behind no block that nobody will take out of inflightRequests.
LEMMA StaysAccounted ==
    ASSUME Inv, NEW c \in Calls, OnlyMoves(c),
           timers \subseteq timers', undecoded \subseteq undecoded',
           Owes(calls[c]) /\ calls[c].blk \in inflight' =>
               \/ calls[c].blk \in timers' \cup undecoded'
               \/ Owes(calls'[c]) /\ calls'[c].blk = calls[c].blk,
           \A b \in inflight' \ inflight : Owes(calls'[c]) /\ calls'[c].blk = b
    PROVE  Accounted'
<1> SUFFICES ASSUME NEW b \in inflight' \ undecoded'
             PROVE  \/ b \in timers'
                    \/ \E d \in Calls : calls'[d].blk = b /\ Owes(calls'[d])
  BY DEF Accounted
<1>1. CASE b \notin inflight
  BY <1>1
<1>2. CASE b \in inflight
  <2>1. b \in timers \/ \E d \in Calls : calls[d].blk = b /\ Owes(calls[d])
    BY <1>2 DEF Inv, Accounted
  <2>2. CASE b \in timers
    BY <2>2
  <2>3. ASSUME NEW d \in Calls, calls[d].blk = b, Owes(calls[d])
        PROVE  \/ b \in timers'
               \/ \E e \in Calls : calls'[e].blk = b /\ Owes(calls'[e])
    <3>1. CASE d = c
      BY <2>3, <3>1
    <3>2. CASE d # c
      BY <2>3, <3>2 DEF OnlyMoves
    <3> QED
      BY <3>1, <3>2
  <2> QED
    BY <2>1, <2>2, <2>3
<1> QED
  BY <1>1, <1>2

\* A score of at most 100 bans nobody.
LEMMA LightScore ==
    ASSUME NEW c \in Calls, NEW p \in Nat, NEW t \in Nat, p <= 100,
           IncreaseBanscore(c, p, t), NoUndeservedBan
    PROVE  NoUndeservedBan'
<1>1. banned' = banned
  BY DEF IncreaseBanscore
<1> QED
  BY <1>1 DEF NoUndeservedBan

LEMMA FreeIs ==
    ASSUME NEW c, Free(c)
    PROVE  c \in Calls /\ calls[c].pc = "idle"
BY DEF Free, At

-----------------------------------------------------------------------------
(* Relayed and requested blocks.                                           *)

LEMMA handleIncomingBlockKeeps ==
    ASSUME Inv, NEW c \in Calls, NEW b \in Blocks, NEW p \in Peers,
           handleIncomingBlock(c, b, p)
    PROVE  Inv'
<1>1. calls[c].pc = "idle"
  BY FreeIs DEF handleIncomingBlock
<1>2. PICK r : r = [NoCall EXCEPT !.pc = "decode", !.blk = b, !.peer = p,
                                  !.source = "relay"]
  OBVIOUS
<1>3. r \in CallRecs /\ r.pc = "decode" /\ r.blk = b /\ r.source = "relay"
  BY <1>2, NoCallIs, StepsIn DEF NoCall, CallRecs
<1>4. calls' = [calls EXCEPT ![c] = r]
  BY <1>2 DEF handleIncomingBlock
<1>5. calls \in [Calls -> CallRecs]
  BY DEF Inv, Types
<1>6. OnlyMoves(c) /\ calls'[c] = r
  BY <1>3, <1>4, <1>5, Zenon DEF OnlyMoves
<1>7. Shaped(calls'[c])
  BY <1>3, <1>6 DEF Shaped
<1>8. /\ calls' \in [Calls -> CallRecs]
      /\ \A d \in Calls : Shaped(calls'[d])
      /\ Linked' /\ Lock' /\ Checked' /\ Heard'
  BY <1>1, <1>3, <1>6, <1>7, Moves DEF handleIncomingBlock
<1>9. Types'
  BY <1>8 DEF Inv, Types, handleIncomingBlock
<1>10. Accounted'
  BY <1>1, <1>3, <1>6, StaysAccounted DEF handleIncomingBlock, Owes
<1>11. NoUndeservedBan'
  BY DEF Inv, NoUndeservedBan, handleIncomingBlock
<1> QED
  BY <1>8, <1>9, <1>10, <1>11 DEF Inv

LEMMA decodeXthinnerKeeps ==
    ASSUME Inv, NEW c \in Calls, decodeXthinner(c)
    PROVE  Inv'
<1>1. calls[c].pc = "decode"
  BY DEF decodeXthinner, At
<1>2. /\ calls \in [Calls -> CallRecs] /\ calls[c] \in CallRecs
      /\ calls[c].blk \in Blocks
  BY <1>1, CallIs DEF Inv, Types
<1> DEFINE w == calls[c].blk \notin Collides
<1>3. w \in BOOLEAN
  OBVIOUS
<1>4. calls' = [calls EXCEPT ![c] = [calls[c] EXCEPT !.pc = "check", !.whole = w]]
  BY <1>2 DEF decodeXthinner
<1> HIDE DEF w
<1>5. /\ [calls[c] EXCEPT !.pc = "check", !.whole = w] \in CallRecs
  BY <1>2, <1>3, StepsIn, Zenon DEF CallRecs
<1>6. /\ OnlyMoves(c)
      /\ calls'[c] = [calls[c] EXCEPT !.pc = "check", !.whole = w]
  BY <1>2, <1>4, <1>5, Zenon DEF OnlyMoves
<1>7. calls'[c].pc = "check" /\ calls'[c].blk = calls[c].blk
  BY <1>2, <1>6 DEF CallRecs
<1>8. Shaped(calls'[c])
  BY <1>2, <1>5, <1>6, <1>7 DEF Shaped
<1>9. /\ calls' \in [Calls -> CallRecs]
      /\ \A d \in Calls : Shaped(calls'[d])
      /\ Linked' /\ Lock' /\ Checked' /\ Heard'
  BY <1>1, <1>6, <1>7, <1>8, Moves DEF decodeXthinner
<1>10. Types'
  BY <1>9 DEF Inv, Types, decodeXthinner
<1>11. Accounted'
  BY <1>1, <1>6, <1>7, StaysAccounted DEF decodeXthinner
<1>12. NoUndeservedBan'
  <2>1. CASE UNCHANGED <<banned, faults>>
    BY <2>1 DEF Inv, NoUndeservedBan
  <2>2. CASE Fail /\ IncreaseBanscore(c, 34, 0)
    BY <2>2, LightScore DEF Inv
  <2> QED
    BY <2>1, <2>2 DEF decodeXthinner
<1> QED
  BY <1>9, <1>10, <1>11, <1>12 DEF Inv

LEMMA DecodeFailsKeeps ==
    ASSUME Inv, NEW c \in Calls, DecodeFails(c)
    PROVE  Inv'
<1>1. calls[c].pc = "decode" /\ calls' = [calls EXCEPT ![c] = NoCall]
  BY DEF DecodeFails, At, Return
<1>2. OnlyMoves(c) /\ calls'[c] = NoCall /\ Shaped(calls'[c])
  BY <1>1, ReturnIs DEF Inv
<1>3. /\ calls' \in [Calls -> CallRecs]
      /\ \A d \in Calls : Shaped(calls'[d])
      /\ Linked' /\ Lock' /\ Checked' /\ Heard'
  BY <1>1, <1>2, NoCallIs, Moves DEF DecodeFails
<1>4. Types'
  BY <1>3 DEF Inv, Types, DecodeFails
<1>5. Accounted'
  BY <1>1, <1>2, StaysAccounted DEF DecodeFails, Return
<1>6. NoUndeservedBan'
  BY LightScore DEF Inv, DecodeFails
<1> QED
  BY <1>3, <1>4, <1>5, <1>6 DEF Inv

LEMMA requestBlockKeeps ==
    ASSUME Inv, NEW c \in Calls, NEW b \in Blocks, NEW p \in Peers,
           requestBlock(c, b, p)
    PROVE  Inv'
<1>1. calls[c].pc = "idle"
  BY FreeIs DEF requestBlock
<1>2. PICK r : r = [NoCall EXCEPT !.pc = "enter", !.blk = b, !.peer = p,
                                  !.source = "request", !.whole = TRUE]
  OBVIOUS
<1>3. r \in CallRecs /\ r.pc = "enter" /\ r.blk = b /\ r.source = "request"
  BY <1>2, NoCallIs, StepsIn DEF NoCall, CallRecs
<1>4. calls' = [calls EXCEPT ![c] = r]
  BY <1>2 DEF requestBlock
<1>5. calls \in [Calls -> CallRecs]
  BY DEF Inv, Types
<1>6. OnlyMoves(c) /\ calls'[c] = r
  BY <1>3, <1>4, <1>5, Zenon DEF OnlyMoves
<1>7. Shaped(calls'[c])
  BY <1>3, <1>6 DEF Shaped
<1>8. /\ calls' \in [Calls -> CallRecs]
      /\ \A d \in Calls : Shaped(calls'[d])
      /\ Linked' /\ Lock' /\ Checked' /\ Heard'
  BY <1>1, <1>3, <1>6, <1>7, Moves DEF requestBlock, intake
<1>9. Types'
  BY <1>8 DEF Inv, Types, requestBlock, intake
<1>10. Accounted'
  BY <1>1, <1>6, StaysAccounted DEF requestBlock, intake, Owes
<1>11. NoUndeservedBan'
  BY DEF Inv, NoUndeservedBan, requestBlock
<1> QED
  BY <1>8, <1>9, <1>10, <1>11 DEF Inv

LEMMA EnterInflightKeeps ==
    ASSUME Inv, NEW c \in Calls, EnterInflight(c)
    PROVE  Inv'
<1>1. calls[c].pc = "enter" /\ Goto(c, "fetch")
  BY DEF EnterInflight, At
<1>2. calls[c].blk \in Blocks /\ calls[c].source = "request"
  BY <1>1, CallIs DEF Inv, Shaped
<1>3. /\ OnlyMoves(c) /\ calls'[c].pc = "fetch"
      /\ calls'[c].blk = calls[c].blk /\ calls'[c].source = calls[c].source
  BY <1>1, StepsIn, GotoIs DEF Inv
<1>4. Shaped(calls'[c])
  BY <1>2, <1>3 DEF Shaped, OnlyMoves
<1>5. /\ calls' \in [Calls -> CallRecs]
      /\ \A d \in Calls : Shaped(calls'[d])
      /\ Linked' /\ Lock' /\ Checked' /\ Heard'
  BY <1>1, <1>3, <1>4, Moves DEF EnterInflight
<1>6. Types'
  BY <1>2, <1>5 DEF Inv, Types, EnterInflight
<1>7. Accounted'
  BY <1>1, <1>2, <1>3, StaysAccounted DEF EnterInflight, Owes
<1>8. NoUndeservedBan'
  BY DEF Inv, NoUndeservedBan, EnterInflight
<1> QED
  BY <1>5, <1>6, <1>7, <1>8 DEF Inv

LEMMA GetBlockKeeps ==
    ASSUME Inv, NEW c \in Calls, GetBlock(c)
    PROVE  Inv'
<1>1. calls[c].pc = "fetch" /\ Goto(c, "check")
  BY DEF GetBlock, At
<1>2. calls[c].blk \in Blocks /\ calls[c].source = "request"
  BY <1>1, CallIs DEF Inv, Shaped
<1>3. /\ OnlyMoves(c) /\ calls'[c].pc = "check" /\ Shaped(calls'[c])
      /\ calls'[c].blk = calls[c].blk /\ calls'[c].source = calls[c].source
  BY <1>1, <1>2, StepsIn, GotoIs DEF Inv
<1>4. /\ calls' \in [Calls -> CallRecs]
      /\ \A d \in Calls : Shaped(calls'[d])
      /\ Linked' /\ Lock' /\ Checked' /\ Heard'
  BY <1>1, <1>3, Moves DEF GetBlock, intake
<1>5. Types'
  BY <1>4 DEF Inv, Types, GetBlock, intake
<1>6. Accounted'
  BY <1>2, <1>3, StaysAccounted DEF GetBlock, intake, Owes
<1>7. NoUndeservedBan'
  BY DEF Inv, NoUndeservedBan, GetBlock
<1> QED
  BY <1>4, <1>5, <1>6, <1>7 DEF Inv

LEMMA GetBlockFailsKeeps ==
    ASSUME Inv, NEW c \in Calls, GetBlockFails(c)
    PROVE  Inv'
<1>1. calls[c].pc = "fetch" /\ calls' = [calls EXCEPT ![c] = NoCall]
  BY DEF GetBlockFails, At
<1>2. OnlyMoves(c) /\ calls'[c] = NoCall /\ Shaped(calls'[c])
  BY <1>1, ReturnIs DEF Inv
<1>3. /\ calls' \in [Calls -> CallRecs]
      /\ \A d \in Calls : Shaped(calls'[d])
      /\ Linked' /\ Lock' /\ Checked' /\ Heard'
  BY <1>1, <1>2, NoCallIs, Moves DEF GetBlockFails
<1>4. Types'
  BY <1>3 DEF Inv, Types, GetBlockFails
<1>5. Accounted'
  BY <1>2, StaysAccounted DEF GetBlockFails
<1>6. NoUndeservedBan'
  BY LightScore DEF Inv, GetBlockFails
<1> QED
  BY <1>3, <1>4, <1>5, <1>6 DEF Inv

-----------------------------------------------------------------------------
(* A block is processed.                                                   *)

LEMMA ConnectsIsChecked ==
    ASSUME NEW b \in Blocks, NEW w, CheckConnectBlock(b, w) = "connects", Types
    PROVE  CheckedBlock(b)
<1>1. Fault[b] \in {"none", "header", "root"} /\ Height[b] \in Nat
  BY ServerAssumption
<1>2. BestHeight \in Nat
  BY LenProperties DEF Types, BestHeight
<1>3. /\ ~(Height[b] <= BestHeight) /\ ~(Height[b] > BestHeight + 1)
      /\ Parent[b] = Tip /\ b \in ripe /\ Fault[b] # "header"
      /\ Fault[b] # "root"
  BY DEF CheckConnectBlock
<1> QED
  BY <1>1, <1>2, <1>3 DEF CheckedBlock

LEMMA CheckedConnects ==
    ASSUME NEW b \in Blocks, CheckedBlock(b), Types,
           CheckConnectBlock(b, TRUE) # "connects"
    PROVE  Height[b] <= BestHeight
<1>1. Height[b] \in Nat /\ BestHeight \in Nat
  BY ServerAssumption, LenProperties DEF Types, BestHeight
<1>2. ~(Height[b] > BestHeight + 1)
  BY <1>1 DEF CheckedBlock
<1>3. Height[b] <= BestHeight \/ Height[b] = BestHeight + 1
  BY <1>1 DEF CheckedBlock
<1> QED
  BY <1>2, <1>3 DEF CheckedBlock, CheckConnectBlock

LEMMA InvalidIsFaulty ==
    ASSUME NEW b \in Blocks, NEW w, CheckConnectBlock(b, w) = "invalid"
    PROVE  Fault[b] # "none"
BY DEF CheckConnectBlock

LEMMA processBlockKeeps ==
    ASSUME Inv, NEW c \in Calls, processBlock(c)
    PROVE  Inv'
<1> DEFINE b == calls[c].blk
           result == CheckConnectBlock(b, calls[c].whole)
<1>1. calls[c].pc = "check" /\ b \in Blocks /\ calls[c].recheck \in BOOLEAN
  BY CallIs DEF Inv, processBlock, At
<1>2. /\ chain' = chain /\ current' = current /\ ripe' = ripe
      /\ orphans' = orphans /\ orphanLock' = orphanLock
      /\ inventory' = inventory /\ inflight' = inflight /\ engine' = engine
      /\ chooser' = chooser /\ undecoded' = undecoded
  BY DEF processBlock
<1>3. ASSUME NEW q \in {"orphan", "inventory", "txids"}, Goto(c, q),
             q = "inventory" => result = "connects",
             timers' = timers, banned' = banned
      PROVE  Inv'
  <2>1. q \in Steps /\ q \notin {"decode", "enter", "fetch", "resync", "wait", "give"}
    BY <1>3 DEF Steps
  <2>2. /\ OnlyMoves(c) /\ calls'[c].pc = q /\ Shaped(calls'[c])
        /\ calls'[c].blk = b /\ calls'[c].source = calls[c].source
    BY <1>1, <1>3, <2>1, GotoIs DEF Inv
  <2>3. q = "inventory" => CheckedBlock(b)
    BY <1>1, <1>3, ConnectsIsChecked DEF Inv
  <2>4. /\ calls' \in [Calls -> CallRecs]
        /\ \A d \in Calls : Shaped(calls'[d])
        /\ Linked' /\ Lock' /\ Checked' /\ Heard'
    BY <1>1, <1>2, <2>1, <2>2, <2>3, Moves
  <2>5. Types'
    BY <1>2, <2>4 DEF Inv, Types
  <2>6. Accounted'
    <3>1. Owes(calls[c]) => Owes(calls'[c])
      BY <1>1, <1>3, <2>2 DEF Owes
    <3> QED
      BY <1>2, <1>3, <2>2, <3>1, StaysAccounted
  <2>7. NoUndeservedBan'
    BY <1>3 DEF Inv, NoUndeservedBan
  <2> QED
    BY <2>4, <2>5, <2>6, <2>7 DEF Inv
<1>4. ASSUME \/ result \in {"stale", "invalid"}
             \/ result = "txroot" /\ calls[c].recheck,
             RuleErrorPenalty(c), Return(c)
      PROVE  Inv'
  <2>1. OnlyMoves(c) /\ calls'[c] = NoCall /\ Shaped(calls'[c])
    BY <1>4, ReturnIs DEF Inv, Return
  <2>2. /\ calls' \in [Calls -> CallRecs]
        /\ \A d \in Calls : Shaped(calls'[d])
        /\ Linked' /\ Lock' /\ Checked' /\ Heard'
    BY <1>1, <1>2, <2>1, NoCallIs, Moves
  <2>3. Types'
    BY <1>2, <2>2 DEF Inv, Types
  <2>4. Accounted'
    <3>1. timers \subseteq timers' /\ (Owes(calls[c]) => b \in timers')
      BY <1>1, <1>4 DEF Return, Owes
    <3> QED
      BY <1>2, <2>1, <3>1, StaysAccounted
  <2>5. NoUndeservedBan'
    <3>1. CASE calls[c].recheck
      BY <3>1, <1>4, LightScore DEF Inv, RuleErrorPenalty
    <3>2. CASE ~calls[c].recheck /\ result = "stale"
      BY <3>2, <1>4, LightScore DEF Inv, RuleErrorPenalty
    <3>3. CASE ~calls[c].recheck /\ result # "stale"
      <4>1. IncreaseBanscore(c, 101, 0)
        BY <3>3, <1>4 DEF RuleErrorPenalty
      <4>2. banned' = banned \cup {b}
        BY <4>1 DEF IncreaseBanscore
      <4>3. Fault[b] # "none"
        BY <1>1, <1>4, <3>3, InvalidIsFaulty
      <4> QED
        BY <4>2, <4>3 DEF Inv, NoUndeservedBan
    <3> QED
      BY <1>1, <3>1, <3>2, <3>3
  <2> QED
    BY <2>2, <2>3, <2>4, <2>5 DEF Inv
<1> QED
  BY <1>3, <1>4 DEF processBlock

LEMMA fetchBlockTxidsKeeps ==
    ASSUME Inv, NEW c \in Calls, fetchBlockTxids(c)
    PROVE  Inv'
<1>1. calls[c].pc = "txids"
  BY DEF fetchBlockTxids, At
<1>2. /\ calls \in [Calls -> CallRecs] /\ calls[c] \in CallRecs
      /\ calls[c].blk \in Blocks
  BY <1>1, CallIs DEF Inv, Types
<1> DEFINE r == [calls[c] EXCEPT !.pc = "check", !.whole = TRUE, !.recheck = TRUE]
<1>3. calls' = [calls EXCEPT ![c] = r]
  BY <1>2 DEF fetchBlockTxids
<1>4. r \in CallRecs
  BY <1>2, StepsIn, Zenon DEF CallRecs
<1>5. /\ r.pc = "check" /\ r.blk = calls[c].blk /\ r.source = calls[c].source
  BY <1>2 DEF CallRecs
<1> HIDE DEF r
<1>6. OnlyMoves(c) /\ calls'[c] = r
  BY <1>2, <1>3, <1>4, Zenon DEF OnlyMoves
<1>7. Shaped(calls'[c])
  BY <1>2, <1>4, <1>5, <1>6 DEF Shaped
<1>8. /\ calls' \in [Calls -> CallRecs]
      /\ \A d \in Calls : Shaped(calls'[d])
      /\ Linked' /\ Lock' /\ Checked' /\ Heard'
  BY <1>1, <1>5, <1>6, <1>7, Moves DEF fetchBlockTxids, intake
<1>9. Types'
  BY <1>8 DEF Inv, Types, fetchBlockTxids, intake
<1>10. Accounted'
  <2>1. Owes(calls[c]) => Owes(calls'[c])
    BY <1>1, <1>5, <1>6 DEF Owes
  <2> QED
    BY <1>5, <1>6, <2>1, StaysAccounted DEF fetchBlockTxids, intake
<1>11. NoUndeservedBan'
  BY DEF Inv, NoUndeservedBan, fetchBlockTxids
<1> QED
  BY <1>8, <1>9, <1>10, <1>11 DEF Inv

\* Call c, which neither holds the lock nor waits, returns; nothing but its
\* timer and the ban scores change.
LEMMA ReturnKeeps ==
    ASSUME Inv, NEW c \in Calls, Return(c), calls[c].pc \notin {"resync", "wait", "decode"},
           UNCHANGED <<chain, current, ripe, orphanLock, inventory, inflight,
                       engine, chooser, undecoded>>,
           DOMAIN orphans' \subseteq Blocks,
           \A b \in DOMAIN orphans' : orphans'[b] \in Orphans,
           NoUndeservedBan'
    PROVE  Inv'
<1>1. calls' = [calls EXCEPT ![c] = NoCall]
  BY DEF Return
<1>2. OnlyMoves(c) /\ calls'[c] = NoCall /\ Shaped(calls'[c])
  BY <1>1, ReturnIs DEF Inv
<1>3. /\ calls' \in [Calls -> CallRecs]
      /\ \A d \in Calls : Shaped(calls'[d])
      /\ Linked' /\ Lock' /\ Checked' /\ Heard'
  BY <1>2, NoCallIs, Moves
<1>4. Types'
  BY <1>3 DEF Inv, Types
<1>5. Accounted'
  <2>1. timers \subseteq timers' /\ (Owes(calls[c]) => calls[c].blk \in timers')
    BY DEF Return, Owes
  <2> QED
    BY <1>2, <2>1, StaysAccounted
<1> QED
  BY <1>3, <1>4, <1>5 DEF Inv

LEMMA FetchTxidsFailsKeeps ==
    ASSUME Inv, NEW c \in Calls, FetchTxidsFails(c)
    PROVE  Inv'
<1>1. calls[c].pc = "txids"
  BY DEF FetchTxidsFails, At
<1>2. NoUndeservedBan'
  BY LightScore DEF Inv, FetchTxidsFails
<1>3. /\ chain' = chain /\ current' = current /\ ripe' = ripe
      /\ orphans' = orphans /\ orphanLock' = orphanLock
      /\ inventory' = inventory /\ inflight' = inflight /\ engine' = engine
      /\ chooser' = chooser /\ undecoded' = undecoded
  BY DEF FetchTxidsFails
<1>4. CASE UNCHANGED <<calls, timers>>
  <2>1. Types' /\ Linked' /\ Lock' /\ Accounted'
    BY <1>3, <1>4 DEF Inv, Types, Linked, Lock, Accounted
  <2>2. Checked'
    BY <1>3, <1>4 DEF Inv, Checked, CheckedBlock, BestHeight, Tip
  <2>3. Heard'
    BY <1>3, <1>4 DEF Inv, Heard, Waited, BestHeight
  <2> QED
    BY <1>2, <2>1, <2>2, <2>3 DEF Inv
<1>5. CASE Return(c)
  BY <1>1, <1>2, <1>3, <1>5, ReturnKeeps DEF Inv, Types
<1> QED
  BY <1>4, <1>5 DEF FetchTxidsFails

-----------------------------------------------------------------------------
(* Orphans and the resync.                                                 *)

LEMMA WithoutIs ==
    ASSUME NEW m, NEW S, DOMAIN m \subseteq Blocks,
           \A b \in DOMAIN m : m[b] \in Orphans
    PROVE  /\ DOMAIN Without(m, S) \subseteq Blocks
           /\ \A b \in DOMAIN Without(m, S) : Without(m, S)[b] \in Orphans
BY DEF Without

LEMMA WithIs ==
    ASSUME NEW m, NEW k \in Blocks, NEW v \in Orphans, DOMAIN m \subseteq Blocks,
           \A b \in DOMAIN m : m[b] \in Orphans
    PROVE  /\ DOMAIN With(m, k, v) \subseteq Blocks
           /\ \A b \in DOMAIN With(m, k, v) : With(m, k, v)[b] \in Orphans
BY DEF With

LEMMA StoreOrphanKeeps ==
    ASSUME Inv, NEW c \in Calls, StoreOrphan(c)
    PROVE  Inv'
<1>1. calls[c].pc = "orphan" /\ calls[c].blk \in Blocks /\ orphanLock = {}
  BY CallIs DEF Inv, StoreOrphan, At
<1>2. /\ DOMAIN orphans' \subseteq Blocks
      /\ \A b \in DOMAIN orphans' : orphans'[b] \in Orphans
  <2> DEFINE v == [peer |-> calls[c].peer, whole |-> calls[c].whole]
  <2>1. PICK m \in limitOrphans(orphans) : orphans' = With(m, calls[c].blk, v)
    BY DEF StoreOrphan
  <2>2. v \in Orphans
    BY CallIs DEF Inv, Orphans
  <2>3. DOMAIN m \subseteq Blocks /\ \A b \in DOMAIN m : m[b] \in Orphans
    <3>1. CASE m = orphans
      BY <3>1 DEF Inv, Types
    <3>2. CASE \E b \in DOMAIN orphans : m = Without(orphans, {b})
      BY <3>2, WithoutIs DEF Inv, Types
    <3> QED
      BY <2>1, <3>1, <3>2 DEF limitOrphans
  <2> HIDE DEF v
  <2> QED
    BY <1>1, <2>1, <2>2, <2>3, WithIs
<1>3. /\ chain' = chain /\ ripe' = ripe /\ inventory' = inventory
      /\ inflight' = inflight /\ engine' = engine
      /\ chooser' = chooser /\ undecoded' = undecoded /\ banned' = banned
  BY DEF StoreOrphan
<1>4. NoUndeservedBan'
  BY <1>3 DEF Inv, NoUndeservedBan
<1>5. CASE Return(c) /\ UNCHANGED <<current, orphanLock>>
  BY <1>1, <1>2, <1>3, <1>4, <1>5, ReturnKeeps
<1>6. CASE current' = FALSE /\ orphanLock' = {c} /\ Goto(c, "resync") /\ timers' = timers
  <2>1. /\ OnlyMoves(c) /\ calls'[c].pc = "resync" /\ Shaped(calls'[c])
        /\ calls'[c].blk = calls[c].blk /\ calls'[c].source = calls[c].source
    BY <1>1, <1>6, StepsIn, GotoIs DEF Inv
  <2>2. \A d \in Calls : calls'[d] = calls[d] \/ d = c
    BY <2>1 DEF OnlyMoves
  <2>3. \A d \in Calls : Shaped(calls'[d])
    BY <2>1, <2>2 DEF Inv, Types
  <2>4. Types'
    BY <1>2, <1>3, <1>6, <2>1, <2>3 DEF Inv, Types, OnlyMoves
  <2>5. Lock'
    <3>1. \A d \in Calls : calls[d].pc # "resync"
      BY <1>1 DEF Inv, Lock
    <3>2. \A d \in Calls : calls'[d].pc = "resync" <=> d = c
      BY <2>1, <2>2, <3>1
    <3> QED
      BY <1>6, <3>2 DEF Lock
  <2>6. Linked'
    BY <1>3 DEF Inv, Linked
  <2>7. Checked'
    BY <1>3, <2>1, <2>2 DEF Inv, Checked, CheckedBlock, BestHeight, Tip
  <2>8. Heard'
    <3>1. \A b : Waited(b) => Waited(b)'
      BY <1>1, <1>3, <2>2 DEF Waited
    <3> QED
      BY <1>3, <3>1 DEF Inv, Heard, BestHeight
  <2>9. Accounted'
    <3>1. Owes(calls[c]) => Owes(calls'[c])
      BY <1>1, <2>1 DEF Owes
    <3> QED
      BY <1>3, <1>6, <2>1, <3>1, StaysAccounted
  <2> QED
    BY <1>4, <2>4, <2>5, <2>6, <2>7, <2>8, <2>9 DEF Inv
<1> QED
  BY <1>5, <1>6 DEF StoreOrphan

\* The chain grows by a block that connects: what was checked stays checked.
LEMMA Grows ==
    ASSUME Types, Linked, NEW b \in Blocks, chain' = Append(chain, b),
           Height[b] = BestHeight + 1, Parent[b] = Tip, ripe' = ripe
    PROVE  /\ chain' \in Seq(Blocks) /\ Linked'
           /\ BestHeight' = BestHeight + 1 /\ BestHeight \in Nat
           /\ \A x \in Blocks : CheckedBlock(x) => CheckedBlock(x)'
<1> DEFINE n == Len(chain)
<1>1. chain \in Seq(Blocks) /\ n \in Nat
  BY LenProperties DEF Types
<1>2. /\ chain' \in Seq(Blocks) /\ Len(chain') = n + 1
      /\ \A i \in 1..n : chain'[i] = chain[i]
      /\ chain'[n + 1] = b
  BY <1>1, AppendProperties
<1>3. BestHeight = n /\ BestHeight' = n + 1
  BY <1>2 DEF BestHeight
<1>4. Tip = IF n = 0 THEN NoBlock ELSE chain[n]
  BY <1>1 DEF Tip
<1>5. \A i \in 1..n : /\ Height[chain[i]] = i
                      /\ Parent[chain[i]] = IF i = 1 THEN NoBlock ELSE chain[i - 1]
  BY DEF Linked
<1> HIDE DEF n
<1>6. ASSUME NEW i \in 1..(n + 1)
      PROVE  /\ Height[chain'[i]] = i
             /\ Parent[chain'[i]] = IF i = 1 THEN NoBlock ELSE chain'[i - 1]
  <2>1. CASE i = n + 1
    <3>1. i # 1 => n \in 1..n /\ i - 1 = n /\ n # 0
      BY <1>1, <2>1
    <3>2. i = 1 => n = 0
      BY <1>1, <2>1
    <3> QED
      BY <1>2, <1>3, <1>4, <2>1, <3>1, <3>2
  <2>2. CASE i # n + 1
    <3>1. i \in 1..n /\ (i # 1 => i - 1 \in 1..n)
      BY <1>1, <2>2
    <3> QED
      BY <1>2, <1>5, <3>1
  <2> QED
    BY <2>1, <2>2
<1>7. Linked'
  BY <1>2, <1>6 DEF Linked
<1>8. ASSUME NEW x \in Blocks, CheckedBlock(x) PROVE CheckedBlock(x)'
  <2>1. Height[x] \in Nat
    BY ServerAssumption
  <2>2. Height[x] <= BestHeight' /\ x \in ripe' /\ Fault[x] = "none"
    BY <1>3, <1>8, <2>1 DEF CheckedBlock
  <2>3. Height[x] <= BestHeight' + 1 /\ Height[x] # BestHeight' + 1
    BY <1>1, <1>3, <2>1, <2>2
  <2> QED
    BY <2>2, <2>3 DEF CheckedBlock
<1> QED
  BY <1>1, <1>2, <1>3, <1>7, <1>8

LEMMA SyncedGrows ==
    ASSUME Types, Linked, chain' \in Synced(chain) \cup {chain}, ripe' = ripe
    PROVE  /\ chain' \in Seq(Blocks) /\ Linked'
           /\ BestHeight' \in Nat /\ BestHeight \in Nat /\ BestHeight' >= BestHeight
           /\ \A x \in Blocks : CheckedBlock(x) => CheckedBlock(x)'
<1>1. BestHeight \in Nat
  BY LenProperties DEF Types, BestHeight
<1>2. CASE chain' = chain
  <2>1. BestHeight' = BestHeight /\ Tip' = Tip
    BY <1>2 DEF BestHeight, Tip
  <2>2. \A x \in Blocks : CheckedBlock(x) => CheckedBlock(x)'
    BY <2>1 DEF CheckedBlock
  <2>3. chain' \in Seq(Blocks) /\ Linked'
    BY <1>2 DEF Types, Linked
  <2> QED
    BY <1>1, <2>1, <2>2, <2>3
<1>3. ASSUME NEW b \in Blocks, chain' = Append(chain, b),
             Height[b] = Len(chain) + 1,
             Parent[b] = (IF chain = <<>> THEN NoBlock ELSE chain[Len(chain)])
      PROVE  /\ chain' \in Seq(Blocks) /\ Linked'
             /\ BestHeight' \in Nat /\ BestHeight' >= BestHeight
             /\ \A x \in Blocks : CheckedBlock(x) => CheckedBlock(x)'
  <2>1. Height[b] = BestHeight + 1 /\ Parent[b] = Tip
    BY <1>3 DEF BestHeight, Tip
  <2>2. /\ chain' \in Seq(Blocks) /\ Linked'
        /\ BestHeight' = BestHeight + 1
        /\ \A x \in Blocks : CheckedBlock(x) => CheckedBlock(x)'
    BY <1>3, <2>1, Grows
  <2> QED
    BY <1>1, <2>2
<1> QED
  BY <1>1, <1>2, <1>3 DEF Synced

\* A chain that grows loses no callback.
LEMMA HeardGrows ==
    ASSUME Inv, engine' = engine, BestHeight \in Nat, BestHeight' \in Nat,
           BestHeight' >= BestHeight,
           \A b \in Blocks : Waited(b) => Waited(b)'
    PROVE  Heard'
<1>1. \A b \in Blocks : Height[b] \in Nat
  BY ServerAssumption
<1>2. \A b \in Blocks : BestHeight' < Height[b] => BestHeight < Height[b]
  BY <1>1
<1> QED
  BY <1>2 DEF Inv, Heard

LEMMA ResyncKeeps ==
    ASSUME Inv, NEW c \in Calls, Resync(c)
    PROVE  Inv'
<1>1. /\ calls[c].pc = "resync" /\ chain' \in Synced(chain) \cup {chain}
      /\ current' = TRUE /\ orphanLock' = {} /\ Return(c) /\ ripe' = ripe
      /\ orphans' = orphans /\ inventory' = inventory /\ inflight' = inflight
      /\ engine' = engine /\ chooser' = chooser /\ banned' = banned
      /\ undecoded' = undecoded
  BY DEF Resync, At
<1>2. OnlyMoves(c) /\ calls'[c] = NoCall /\ Shaped(calls'[c])
  BY <1>1, ReturnIs DEF Inv, Return
<1>3. \A d \in Calls : calls'[d] = calls[d] \/ d = c
  BY <1>2 DEF OnlyMoves
<1>4. \A d \in Calls : Shaped(calls'[d])
  BY <1>2, <1>3 DEF Inv, Types
<1>5. /\ chain' \in Seq(Blocks) /\ Linked'
      /\ BestHeight' \in Nat /\ BestHeight \in Nat /\ BestHeight' >= BestHeight
      /\ \A x \in Blocks : CheckedBlock(x) => CheckedBlock(x)'
  BY <1>1, SyncedGrows DEF Inv
<1>6. Types'
  BY <1>1, <1>2, <1>4, <1>5 DEF Inv, Types, OnlyMoves
<1>7. Lock'
  <2>1. \A d \in Calls : calls[d].pc = "resync" => d = c
    BY <1>1 DEF Inv, Lock
  <2>2. \A d \in Calls : calls'[d].pc # "resync"
    BY <1>2, <1>3, <2>1, NoCallIs
  <2> QED
    BY <1>1, <2>2 DEF Lock
<1>8. Checked'
  <2> SUFFICES ASSUME NEW d \in Calls,
                      calls'[d].pc \in {"inventory", "give", "wait"}
               PROVE  CheckedBlock(calls[d].blk)'
    BY DEF Checked
  <2>1. d # c /\ calls'[d] = calls[d]
    BY <1>2, <1>3, NoCallIs
  <2>2. CheckedBlock(calls[d].blk) /\ calls[d].blk \in Blocks
    BY <2>1, CallIs DEF Inv, Checked
  <2>3. PICK x \in Blocks : x = calls[d].blk
    BY <2>2
  <2>4. CheckedBlock(x)'
    BY <1>5, <2>2, <2>3
  <2> QED
    BY <2>1, <2>3, <2>4
<1>9. Heard'
  <2>1. \A b \in Blocks : Waited(b) => Waited(b)'
    BY <1>1, <1>3 DEF Waited
  <2> QED
    BY <1>1, <1>5, <2>1, HeardGrows
<1>10. Accounted'
  <2>1. timers \subseteq timers' /\ (Owes(calls[c]) => calls[c].blk \in timers')
    BY <1>1 DEF Return, Owes
  <2> QED
    BY <1>1, <1>2, <2>1, StaysAccounted
<1>11. NoUndeservedBan'
  BY <1>1 DEF Inv, NoUndeservedBan
<1> QED
  BY <1>5, <1>6, <1>7, <1>8, <1>9, <1>10, <1>11 DEF Inv

LEMMA SyncKeeps == Inv /\ (SyncConnects \/ SyncEnds) => Inv'
<1> SUFFICES ASSUME Inv, SyncConnects \/ SyncEnds PROVE Inv'
  OBVIOUS
<1>1. /\ chain' \in Synced(chain) \cup {chain} /\ current' \in {current, TRUE} /\ ripe' = ripe
      /\ calls' = calls /\ orphanLock' = orphanLock /\ timers' = timers
      /\ orphans' = orphans /\ inventory' = inventory /\ inflight' = inflight
      /\ engine' = engine /\ chooser' = chooser /\ banned' = banned
      /\ undecoded' = undecoded
  BY DEF SyncConnects, SyncEnds, intake
<1>2. /\ chain' \in Seq(Blocks) /\ Linked'
      /\ BestHeight' \in Nat /\ BestHeight \in Nat /\ BestHeight' >= BestHeight
      /\ \A x \in Blocks : CheckedBlock(x) => CheckedBlock(x)'
  BY <1>1, SyncedGrows DEF Inv
<1>3. Types' /\ Lock' /\ Accounted' /\ NoUndeservedBan'
  BY <1>1, <1>2 DEF Inv, Types, Lock, Accounted, NoUndeservedBan
<1>4. Checked'
  <2> SUFFICES ASSUME NEW d \in Calls,
                      calls'[d].pc \in {"inventory", "give", "wait"}
               PROVE  CheckedBlock(calls[d].blk)'
    BY DEF Checked
  <2>1. CheckedBlock(calls[d].blk) /\ calls[d].blk \in Blocks
    BY <1>1, CallIs DEF Inv, Checked
  <2>2. PICK x \in Blocks : x = calls[d].blk
    BY <2>1
  <2>3. CheckedBlock(x)'
    BY <1>2, <2>1, <2>2
  <2> QED
    BY <1>1, <2>2, <2>3
<1>5. Heard'
  <2>1. \A b \in Blocks : Waited(b) => Waited(b)'
    BY <1>1 DEF Waited
  <2> QED
    BY <1>1, <1>2, <2>1, HeardGrows
<1> QED
  BY <1>2, <1>3, <1>4, <1>5 DEF Inv

-----------------------------------------------------------------------------
(* The inventory and the engine.                                           *)

LEMMA InventoryKeeps ==
    ASSUME Inv, NEW c \in Calls, Inventory(c)
    PROVE  Inv'
<1> DEFINE b == calls[c].blk
<1>1. calls[c].pc = "inventory" /\ b \in Blocks
  BY CallIs DEF Inv, Inventory, At
<1>2. /\ chain' = chain /\ current' = current /\ ripe' = ripe
      /\ orphans' = orphans /\ orphanLock' = orphanLock /\ inflight' = inflight
      /\ engine' = engine /\ chooser' = chooser /\ undecoded' = undecoded
  BY DEF Inventory
<1>3. CASE /\ Duplicate(b) /\ IncreaseBanscore(c, 101, 0) /\ Return(c)
           /\ inventory' = inventory
  <2>1. banned' = banned \cup {b}
    BY <1>3 DEF IncreaseBanscore
  <2>2. \E x \in Blocks \ {b} :
           /\ Height[x] = Height[b] /\ Producer[x] = Producer[b]
           /\ Time[b] < Time[x] + DupTime
    BY <1>3 DEF Duplicate, Inv, Types
  <2>3. NoUndeservedBan'
    BY <2>1, <2>2 DEF Inv, NoUndeservedBan
  <2> QED
    BY <1>1, <1>2, <1>3, <2>3, ReturnKeeps DEF Inv, Types
<1>4. CASE /\ inventory' = inventory \cup {b} /\ Goto(c, "give")
           /\ timers' = timers /\ banned' = banned
  <2>1. /\ OnlyMoves(c) /\ calls'[c].pc = "give" /\ Shaped(calls'[c])
        /\ calls'[c].blk = b /\ calls'[c].source = calls[c].source
    BY <1>1, <1>4, StepsIn, GotoIs DEF Inv
  <2>2. CheckedBlock(b)
    BY <1>1 DEF Inv, Checked
  <2>3. /\ calls' \in [Calls -> CallRecs]
        /\ \A d \in Calls : Shaped(calls'[d])
        /\ Linked' /\ Lock' /\ Checked' /\ Heard'
    BY <1>1, <1>2, <2>1, <2>2, Moves
  <2>4. Types'
    BY <1>1, <1>2, <1>4, <2>3 DEF Inv, Types
  <2>5. Accounted'
    <3>1. Owes(calls[c]) => Owes(calls'[c])
      BY <1>1, <2>1 DEF Owes
    <3> QED
      BY <1>2, <1>4, <2>1, <3>1, StaysAccounted
  <2>6. NoUndeservedBan'
    BY <1>4 DEF Inv, NoUndeservedBan
  <2> QED
    BY <2>3, <2>4, <2>5, <2>6 DEF Inv
<1> QED
  BY <1>3, <1>4 DEF Inventory

LEMMA GiveToEngineKeeps ==
    ASSUME Inv, NEW c \in Calls, GiveToEngine(c)
    PROVE  Inv'
<1> DEFINE b == calls[c].blk
<1>1. calls[c].pc = "give" /\ b \in Blocks
  BY CallIs DEF Inv, GiveToEngine, At
<1>2. /\ chain' = chain /\ current' = current /\ ripe' = ripe
      /\ orphanLock' = orphanLock /\ inventory' = inventory
      /\ inflight' = inflight /\ chooser' = chooser /\ banned' = banned
      /\ undecoded' = undecoded
  BY DEF GiveToEngine
<1>3. /\ DOMAIN orphans' \subseteq Blocks
      /\ \A x \in DOMAIN orphans' : orphans'[x] \in Orphans
  BY WithoutIs DEF GiveToEngine, Inv, Types
<1>4. timers \subseteq timers' /\ (Owes(calls[c]) => b \in timers')
  BY <1>1 DEF GiveToEngine, Owes
<1>5. NoUndeservedBan'
  BY <1>2 DEF Inv, NoUndeservedBan
<1>6. CASE engine[b].status = "unknown"
  <2>1. /\ engine' = [engine EXCEPT ![b] = [status |-> "voting", cb |-> c]]
        /\ Goto(c, "wait")
    BY <1>6 DEF GiveToEngine, NewBlock, Goto
  <2>2. /\ OnlyMoves(c) /\ calls'[c].pc = "wait" /\ Shaped(calls'[c])
        /\ calls'[c].blk = b /\ calls'[c].source = calls[c].source
    BY <1>1, <2>1, StepsIn, GotoIs DEF Inv
  <2>3. \A d \in Calls : calls'[d] = calls[d] \/ d = c
    BY <2>2 DEF OnlyMoves
  <2>4. /\ engine' \in Engines
        /\ engine'[b].status = "voting" /\ engine'[b].cb = c
        /\ \A x \in Blocks : x # b => engine'[x] = engine[x]
    <3>1. engine \in Engines
      BY DEF Inv, Types
    <3>2. [status |-> "voting", cb |-> c] \in
             [status : {"unknown", "voting", "finalized", "rejected"},
              cb : Calls \cup {"none", "chooser"}]
      OBVIOUS
    <3> QED
      BY <1>1, <2>1, <3>1, <3>2 DEF Engines
  <2>5. Types'
    <3>1. \A d \in Calls : Shaped(calls'[d])
      BY <2>2, <2>3 DEF Inv, Types
    <3> QED
      BY <1>2, <1>3, <2>2, <2>4, <3>1 DEF Inv, Types, OnlyMoves
  <2>6. Linked'
    BY <1>2 DEF Inv, Linked
  <2>7. Lock'
    <3>1. \A d \in Calls : calls'[d].pc = "resync" <=> calls[d].pc = "resync"
      BY <1>1, <2>2, <2>3
    <3> QED
      BY <1>2, <3>1 DEF Inv, Lock
  <2>8. Checked'
    <3>1. \A x : CheckedBlock(x)' <=> CheckedBlock(x)
      BY <1>2 DEF CheckedBlock, BestHeight, Tip
    <3>2. \A d \in Calls : calls'[d].pc \in {"inventory", "give", "wait"} =>
                              CheckedBlock(calls'[d].blk)
      BY <1>1, <2>2, <2>3 DEF Inv, Checked
    <3> QED
      BY <3>1, <3>2 DEF Checked
  <2>9. Heard'
    <3>1. BestHeight' = BestHeight
      BY <1>2 DEF BestHeight
    <3>2. \A x \in Blocks : x # b /\ Waited(x) => Waited(x)'
      BY <1>1, <2>3, <2>4 DEF Waited
    <3>3. PICK y \in Blocks : y = b
      BY <1>1
    <3>4. Waited(y)'
      BY <2>2, <2>4, <3>3 DEF Waited
    <3>5. \A x \in Blocks : x # y /\ Waited(x) => Waited(x)'
      BY <3>2, <3>3
    <3> QED
      BY <2>4, <3>1, <3>3, <3>4, <3>5 DEF Inv, Heard
  <2>10. Accounted'
    BY <1>2, <1>4, <2>2, StaysAccounted
  <2> QED
    BY <1>5, <2>5, <2>6, <2>7, <2>8, <2>9, <2>10 DEF Inv
<1>7. CASE engine[b].status # "unknown"
  <2>1. engine' = engine /\ Return(c)
    BY <1>7 DEF GiveToEngine, NewBlock, Return
  <2> QED
    BY <1>1, <1>2, <1>3, <1>5, <2>1, ReturnKeeps
<1> QED
  BY <1>6, <1>7

LEMMA FinalizeKeeps ==
    ASSUME Inv, NEW b \in Blocks, Finalize(b)
    PROVE  Inv'
<1>1. /\ chain' = chain /\ current' = current /\ ripe' = ripe /\ calls' = calls
      /\ orphans' = orphans /\ orphanLock' = orphanLock /\ timers' = timers
      /\ inventory' = inventory /\ inflight' = inflight /\ chooser' = chooser
      /\ banned' = banned /\ undecoded' = undecoded
      /\ engine[b].status = "voting"
  BY DEF Finalize, intake
<1>2. engine \in Engines
  BY DEF Inv, Types
<1>3. \A x \in Blocks :
         /\ engine'[x] \in [status : {"unknown", "voting", "finalized", "rejected"},
                            cb : Calls \cup {"none", "chooser"}]
         /\ engine'[x].cb = engine[x].cb
         /\ \/ engine'[x].status = engine[x].status
            \/ engine'[x].status = "rejected"
            \/ engine'[x].status = "finalized" /\ engine[x].status = "voting"
  <2> TAKE x \in Blocks
  <2>1. /\ engine[x] \in [status : {"unknown", "voting", "finalized", "rejected"},
                          cb : Calls \cup {"none", "chooser"}]
    BY <1>2 DEF Engines
  <2>2. \/ x = b /\ engine'[x] = [engine[x] EXCEPT !.status = "finalized"]
        \/ engine'[x] = [engine[x] EXCEPT !.status = "rejected"]
        \/ engine'[x] = engine[x]
    BY DEF Finalize
  <2> QED
    BY <1>1, <2>1, <2>2
<1>4. engine' \in Engines
  <2>1. engine' = [x \in Blocks |-> engine'[x]]
    BY DEF Finalize
  <2> QED
    BY <1>3, <2>1 DEF Engines
<1>5. Types' /\ Linked' /\ Lock' /\ Accounted' /\ NoUndeservedBan'
  BY <1>1, <1>4 DEF Inv, Types, Linked, Lock, Accounted, NoUndeservedBan
<1>6. Checked'
  BY <1>1 DEF Inv, Checked, CheckedBlock, BestHeight, Tip
<1>7. Heard'
  <2>1. \A x \in Blocks : Waited(x) => Waited(x)'
    BY <1>1, <1>3 DEF Waited
  <2> QED
    BY <1>1, <1>3, <2>1 DEF Inv, Heard, BestHeight
<1> QED
  BY <1>5, <1>6, <1>7 DEF Inv

LEMMA ConnectKeeps ==
    ASSUME Inv, NEW c \in Calls, Connect(c)
    PROVE  Inv'
<1>1. PICK b \in Blocks : b = calls[c].blk
  BY CallIs DEF Inv, Connect, At
<1>2. /\ ripe' = ripe /\ orphans' = orphans /\ orphanLock' = orphanLock
      /\ inventory' = inventory /\ inflight' = inflight /\ timers' = timers
      /\ engine' = engine /\ chooser' = chooser /\ banned' = banned
      /\ undecoded' = undecoded /\ calls[c].pc = "wait" /\ Goto(c, "orphans")
  BY DEF Connect, At, intake
<1>3. /\ OnlyMoves(c) /\ calls'[c].pc = "orphans" /\ Shaped(calls'[c])
      /\ calls'[c].blk = b
  BY <1>1, <1>2, StepsIn, GotoIs DEF Inv
<1>4. \A d \in Calls : calls'[d] = calls[d] \/ d = c
  BY <1>3 DEF OnlyMoves
<1>5. CheckedBlock(b)
  BY <1>1, <1>2 DEF Inv, Checked
<1>6. /\ chain' \in Seq(Blocks) /\ Linked' /\ current' \in BOOLEAN
      /\ BestHeight \in Nat /\ BestHeight' \in Nat /\ BestHeight' >= BestHeight
      /\ Height[b] <= BestHeight'
      /\ \A x \in Blocks : CheckedBlock(x) => CheckedBlock(x)'
  <2>1. Height[b] \in Nat /\ BestHeight \in Nat
    BY ServerAssumption, LenProperties DEF Inv, Types, BestHeight
  <2>2. CASE CheckConnectBlock(b, TRUE) = "connects"
    <3>1. chain' = Append(chain, b) /\ current' = TRUE
      BY <1>1, <2>2 DEF Connect
    <3>2. Height[b] = BestHeight + 1 /\ Parent[b] = Tip
      BY <2>1, <2>2 DEF CheckConnectBlock
    <3>3. /\ chain' \in Seq(Blocks) /\ Linked'
          /\ BestHeight' = BestHeight + 1
          /\ \A x \in Blocks : CheckedBlock(x) => CheckedBlock(x)'
      BY <1>2, <3>1, <3>2, Grows DEF Inv
    <3> QED
      BY <2>1, <3>1, <3>2, <3>3
  <2>3. CASE CheckConnectBlock(b, TRUE) # "connects"
    <3>1. chain' = chain /\ current' = current
      BY <1>1, <2>3 DEF Connect
    <3>2. Height[b] <= BestHeight
      BY <1>5, <2>3, CheckedConnects DEF Inv
    <3>3. BestHeight' = BestHeight /\ Tip' = Tip
      BY <3>1 DEF BestHeight, Tip
    <3>4. \A x \in Blocks : CheckedBlock(x) => CheckedBlock(x)'
      BY <1>2, <3>3 DEF CheckedBlock
    <3>5. chain' \in Seq(Blocks) /\ Linked' /\ current' \in BOOLEAN
      BY <3>1 DEF Inv, Types, Linked
    <3> QED
      BY <2>1, <3>2, <3>3, <3>4, <3>5
  <2> QED
    BY <2>2, <2>3
<1>7. Types'
  <2>1. \A d \in Calls : Shaped(calls'[d])
    BY <1>3, <1>4 DEF Inv, Types
  <2> QED
    BY <1>2, <1>3, <1>6, <2>1 DEF Inv, Types, OnlyMoves
<1>8. Lock'
  <2>1. \A d \in Calls : calls'[d].pc = "resync" <=> calls[d].pc = "resync"
    BY <1>2, <1>3, <1>4
  <2> QED
    BY <1>2, <2>1 DEF Inv, Lock
<1>9. Checked'
  <2> SUFFICES ASSUME NEW d \in Calls,
                      calls'[d].pc \in {"inventory", "give", "wait"}
               PROVE  CheckedBlock(calls[d].blk)'
    BY DEF Checked
  <2>1. d # c /\ calls'[d] = calls[d]
    BY <1>3, <1>4
  <2>2. CheckedBlock(calls[d].blk) /\ calls[d].blk \in Blocks
    BY <2>1, CallIs DEF Inv, Checked
  <2>3. PICK x \in Blocks : x = calls[d].blk
    BY <2>2
  <2>4. CheckedBlock(x)'
    BY <1>6, <2>2, <2>3
  <2> QED
    BY <2>1, <2>3, <2>4
<1>10. Heard'
  <2> SUFFICES ASSUME NEW x \in Blocks,
                      engine[x].cb # "chooser",
                      \/ engine[x].status = "voting"
                      \/ engine[x].status = "finalized" /\ BestHeight' < Height[x]
               PROVE  Waited(x)'
    BY <1>2 DEF Heard
  <2>1. Height[x] \in Nat /\ Height[b] \in Nat
    BY ServerAssumption
  <2>2. x # b
    <3>1. engine[b].status = "finalized"
      BY <1>1 DEF Connect
    <3>2. ~(BestHeight' < Height[b])
      BY <1>6, <2>1
    <3> QED
      BY <3>1, <3>2
  <2>3. BestHeight' < Height[x] => BestHeight < Height[x]
    BY <1>6, <2>1
  <2>4. Waited(x)
    BY <2>3 DEF Inv, Heard
  <2> QED
    BY <1>1, <1>2, <1>4, <2>2, <2>4 DEF Waited
<1>11. Accounted'
  <2>1. ~Owes(calls[c])
    BY <1>2 DEF Owes
  <2> QED
    BY <1>2, <1>3, <2>1, StaysAccounted
<1>12. NoUndeservedBan'
  BY <1>2 DEF Inv, NoUndeservedBan
<1> QED
  BY <1>6, <1>7, <1>8, <1>9, <1>10, <1>11, <1>12 DEF Inv

LEMMA RejectKeeps ==
    ASSUME Inv, NEW c \in Calls, Reject(c)
    PROVE  Inv'
<1>1. PICK b \in Blocks : b = calls[c].blk
  BY CallIs DEF Inv, Reject, At
<1>2. /\ chain' = chain /\ current' = current
      /\ ripe' = ripe /\ orphans' = orphans /\ orphanLock' = orphanLock
      /\ inventory' = inventory /\ inflight' = inflight /\ timers' = timers
      /\ engine' = engine /\ chooser' = chooser /\ banned' = banned
      /\ undecoded' = undecoded /\ calls[c].pc = "wait" /\ Goto(c, "orphans")
      /\ engine[b].status = "rejected"
  BY <1>1 DEF Reject, At, intake
<1>3. /\ OnlyMoves(c) /\ calls'[c].pc = "orphans" /\ Shaped(calls'[c])
      /\ calls'[c].blk = b
  BY <1>1, <1>2, StepsIn, GotoIs DEF Inv
<1>4. \A d \in Calls : calls'[d] = calls[d] \/ d = c
  BY <1>3 DEF OnlyMoves
<1>5. Types'
  <2>1. \A d \in Calls : Shaped(calls'[d])
    BY <1>3, <1>4 DEF Inv, Types
  <2> QED
    BY <1>2, <1>3, <2>1 DEF Inv, Types, OnlyMoves
<1>6. Lock'
  <2>1. \A d \in Calls : calls'[d].pc = "resync" <=> calls[d].pc = "resync"
    BY <1>2, <1>3, <1>4
  <2> QED
    BY <1>2, <2>1 DEF Inv, Lock
<1>7. Linked' /\ NoUndeservedBan'
  BY <1>2 DEF Inv, Linked, NoUndeservedBan
<1>8. Checked'
  BY <1>2, <1>3, <1>4 DEF Inv, Checked, CheckedBlock, BestHeight, Tip
<1>9. Heard'
  <2>1. BestHeight' = BestHeight
    BY <1>2 DEF BestHeight
  <2>2. \A x \in Blocks : x # b /\ Waited(x) => Waited(x)'
    BY <1>1, <1>2, <1>4 DEF Waited
  <2> QED
    BY <1>2, <2>1, <2>2 DEF Inv, Heard
<1>10. Accounted'
  <2>1. ~Owes(calls[c])
    BY <1>2 DEF Owes
  <2> QED
    BY <1>2, <1>3, <2>1, StaysAccounted
<1> QED
  BY <1>5, <1>6, <1>7, <1>8, <1>9, <1>10 DEF Inv

LEMMA ProcessOrphansKeeps ==
    ASSUME Inv, NEW c \in Calls, ProcessOrphans(c)
    PROVE  Inv'
<1>1. calls[c].pc = "orphans" /\ calls \in [Calls -> CallRecs]
  BY DEF Inv, Types, ProcessOrphans, At
<1>2. /\ chain' = chain /\ current' = current /\ ripe' = ripe
      /\ orphanLock' = orphanLock /\ inventory' = inventory
      /\ inflight' = inflight /\ timers' = timers /\ engine' = engine
      /\ chooser' = chooser /\ banned' = banned /\ undecoded' = undecoded
  BY DEF ProcessOrphans
<1>3. \E S : orphans' = Without(orphans, S)
  BY DEF ProcessOrphans
<1>4. /\ DOMAIN orphans' \subseteq Blocks
      /\ \A x \in DOMAIN orphans' : orphans'[x] \in Orphans
  BY <1>3, WithoutIs DEF Inv, Types
<1>5. /\ OnlyMoves(c) /\ Shaped(calls'[c]) /\ calls'[c].pc \in {"idle", "check"}
  <2>1. CASE calls' = [calls EXCEPT ![c] = NoCall]
    BY <2>1, ReturnIs, NoCallIs DEF Inv
  <2>2. ASSUME NEW b \in DOMAIN orphans,
               calls' = [calls EXCEPT ![c] =
                   [NoCall EXCEPT !.pc = "check", !.blk = b,
                      !.peer = orphans[b].peer, !.source = "orphan",
                      !.whole = orphans[b].whole]]
        PROVE  OnlyMoves(c) /\ Shaped(calls'[c]) /\ calls'[c].pc \in {"idle", "check"}
    <3>1. /\ b \in Blocks /\ orphans[b].peer \in Peers \cup {NoPeer}
          /\ orphans[b].whole \in BOOLEAN
      BY DEF Inv, Types, Orphans
    <3>2. PICK r : r = [NoCall EXCEPT !.pc = "check", !.blk = b,
                      !.peer = orphans[b].peer, !.source = "orphan",
                      !.whole = orphans[b].whole]
      OBVIOUS
    <3>3. r \in CallRecs /\ r.pc = "check" /\ r.blk = b
      BY <3>1, <3>2, StepsIn DEF NoCall, CallRecs
    <3>4. calls' = [calls EXCEPT ![c] = r]
      BY <2>2, <3>2
    <3>5. OnlyMoves(c) /\ calls'[c] = r
      BY <1>1, <3>3, <3>4, Zenon DEF OnlyMoves
    <3> QED
      BY <3>1, <3>3, <3>5 DEF Shaped
  <2> QED
    BY <2>1, <2>2 DEF ProcessOrphans
<1>6. /\ calls' \in [Calls -> CallRecs]
      /\ \A d \in Calls : Shaped(calls'[d])
      /\ Linked' /\ Lock' /\ Checked' /\ Heard'
  BY <1>1, <1>2, <1>5, Moves
<1>7. Types'
  BY <1>2, <1>4, <1>6 DEF Inv, Types
<1>8. Accounted'
  <2>1. ~Owes(calls[c])
    BY <1>1 DEF Owes
  <2> QED
    BY <1>2, <1>5, <2>1, StaysAccounted
<1>9. NoUndeservedBan'
  BY <1>2 DEF Inv, NoUndeservedBan
<1> QED
  BY <1>6, <1>7, <1>8, <1>9 DEF Inv

-----------------------------------------------------------------------------
(* Timers, the chooser and the clock.                                      *)

\* Nothing changes that the calls and callbacks depend on.
LEMMA QuietKeeps ==
    ASSUME Inv, chain' = chain, ripe \subseteq ripe', calls' = calls,
           engine' = engine, orphanLock' = orphanLock, banned' = banned
    PROVE  Linked' /\ Lock' /\ Checked' /\ Heard' /\ NoUndeservedBan'
<1>1. Linked' /\ Lock' /\ NoUndeservedBan'
  BY DEF Inv, Linked, Lock, NoUndeservedBan
<1>2. Checked'
  BY DEF Inv, Checked, CheckedBlock, BestHeight, Tip
<1>3. Heard'
  BY DEF Inv, Heard, Waited, BestHeight
<1> QED
  BY <1>1, <1>2, <1>3

LEMMA ForgetRequestKeeps ==
    ASSUME Inv, NEW b \in Blocks, ForgetRequest(b)
    PROVE  Inv'
<1>1. Linked' /\ Lock' /\ Checked' /\ Heard' /\ NoUndeservedBan'
  BY QuietKeeps DEF ForgetRequest
<1>2. Types'
  BY DEF Inv, Types, ForgetRequest
<1>3. Accounted'
  BY DEF Inv, Accounted, ForgetRequest
<1> QED
  BY <1>1, <1>2, <1>3 DEF Inv

LEMMA ForgetBlockKeeps ==
    ASSUME Inv, NEW b \in Blocks, ForgetBlock(b)
    PROVE  Inv'
<1>1. Linked' /\ Lock' /\ Checked' /\ Heard' /\ NoUndeservedBan'
  BY QuietKeeps DEF ForgetBlock
<1>2. Types' /\ Accounted'
  BY DEF Inv, Types, Accounted, ForgetBlock
<1> QED
  BY <1>1, <1>2 DEF Inv

LEMMA consensusChooseKeeps == Inv /\ consensusChoose => Inv'
<1> SUFFICES ASSUME Inv, consensusChoose PROVE Inv'
  OBVIOUS
<1>1. /\ chain' = chain /\ current' = current /\ ripe' = ripe /\ calls' = calls
      /\ orphans' = orphans /\ orphanLock' = orphanLock /\ timers' = timers
      /\ inventory' = inventory /\ inflight' = inflight /\ chooser' = "waiting"
      /\ banned' = banned /\ undecoded' = undecoded
  BY DEF consensusChoose, intake
<1>2. \A x \in Blocks : \/ engine'[x] = engine[x]
                        \/ engine'[x] = [status |-> "voting", cb |-> "chooser"]
  BY DEF consensusChoose
<1>3. engine' \in Engines
  <2>1. engine' = [x \in Blocks |-> engine'[x]] /\ engine \in Engines
    BY DEF consensusChoose, Inv, Types
  <2> QED
    BY <1>2, <2>1 DEF Engines
<1>4. Types' /\ Linked' /\ Lock' /\ Accounted' /\ NoUndeservedBan'
  BY <1>1, <1>3 DEF Inv, Types, Linked, Lock, Accounted, NoUndeservedBan
<1>5. Checked'
  BY <1>1 DEF Inv, Checked, CheckedBlock, BestHeight, Tip
<1>6. Heard'
  <2>1. \A x \in Blocks : engine'[x].cb # "chooser" => engine'[x] = engine[x]
    BY <1>2
  <2>2. \A x \in Blocks : engine'[x] = engine[x] /\ Waited(x) => Waited(x)'
    BY <1>1 DEF Waited
  <2> QED
    BY <1>1, <2>1, <2>2 DEF Inv, Heard, BestHeight
<1> QED
  BY <1>4, <1>5, <1>6 DEF Inv

LEMMA ChooserReturnsKeeps == Inv /\ ChooserReturns => Inv'
<1> SUFFICES ASSUME Inv, ChooserReturns PROVE Inv'
  OBVIOUS
<1>1. Linked' /\ Lock' /\ Checked' /\ Heard' /\ NoUndeservedBan'
  BY QuietKeeps DEF ChooserReturns, intake
<1>2. Types' /\ Accounted'
  BY DEF Inv, Types, Accounted, ChooserReturns, intake
<1> QED
  BY <1>1, <1>2 DEF Inv

LEMMA RipenKeeps ==
    ASSUME Inv, NEW b \in Blocks, Ripen(b)
    PROVE  Inv'
<1>1. Linked' /\ Lock' /\ Checked' /\ Heard' /\ NoUndeservedBan'
  BY QuietKeeps DEF Ripen, intake
<1>2. Types' /\ Accounted'
  BY DEF Inv, Types, Accounted, Ripen, intake
<1> QED
  BY <1>1, <1>2 DEF Inv

-----------------------------------------------------------------------------
(* The theorems.                                                           *)

LEMMA InitInv == Init => Inv
<1> SUFFICES ASSUME Init PROVE Inv
  OBVIOUS
<1>1. calls \in [Calls -> CallRecs] /\ \A c \in Calls : calls[c] = NoCall
  BY NoCallIs DEF Init
<1>2. engine \in Engines /\ \A b \in Blocks : engine[b].status = "unknown"
  BY DEF Init, Engines
<1>3. chain \in Seq(Blocks) /\ Len(chain) = 0
  BY DEF Init
<1>4. DOMAIN orphans = {}
  BY DEF Init, EmptyMap
<1>5. Types
  BY <1>1, <1>2, <1>3, <1>4, NoCallIs DEF Init, Types
<1>6. Linked
  BY <1>3 DEF Linked
<1>7. Lock /\ Checked
  BY <1>1, NoCallIs DEF Init, Lock, Checked
<1>8. Heard
  BY <1>2 DEF Heard
<1>9. Accounted /\ NoUndeservedBan
  BY DEF Init, Accounted, NoUndeservedBan
<1> QED
  BY <1>5, <1>6, <1>7, <1>8, <1>9 DEF Inv

LEMMA StepKeeps ==
    ASSUME Inv, NEW c \in Calls, Step(c)
    PROVE  Inv'
<1>1. CASE decodeXthinner(c) \/ DecodeFails(c) \/ EnterInflight(c)
  BY <1>1, decodeXthinnerKeeps, DecodeFailsKeeps, EnterInflightKeeps
<1>2. CASE GetBlock(c) \/ GetBlockFails(c) \/ processBlock(c)
  BY <1>2, GetBlockKeeps, GetBlockFailsKeeps, processBlockKeeps
<1>3. CASE fetchBlockTxids(c) \/ FetchTxidsFails(c) \/ StoreOrphan(c)
  BY <1>3, fetchBlockTxidsKeeps, FetchTxidsFailsKeeps, StoreOrphanKeeps
<1>4. CASE Resync(c) \/ Inventory(c) \/ GiveToEngine(c)
  BY <1>4, ResyncKeeps, InventoryKeeps, GiveToEngineKeeps
<1>5. CASE Connect(c) \/ Reject(c) \/ ProcessOrphans(c)
  BY <1>5, ConnectKeeps, RejectKeeps, ProcessOrphansKeeps
<1> QED
  BY <1>1, <1>2, <1>3, <1>4, <1>5 DEF Step

LEMMA NextInv == Inv /\ [Next]_vars => Inv'
<1> SUFFICES ASSUME Inv, [Next]_vars PROVE Inv'
  OBVIOUS
<1>1. CASE \E c \in Calls, b \in Blocks, p \in Peers :
              handleIncomingBlock(c, b, p) \/ requestBlock(c, b, p)
  BY <1>1, handleIncomingBlockKeeps, requestBlockKeeps
<1>2. CASE \E c \in Calls : Step(c)
  BY <1>2, StepKeeps
<1>3. CASE \E b \in Blocks : Finalize(b)
  BY <1>3, FinalizeKeeps
<1>4. CASE \E b \in Blocks : ForgetRequest(b) \/ ForgetBlock(b)
  BY <1>4, ForgetRequestKeeps, ForgetBlockKeeps
<1>5. CASE consensusChoose \/ ChooserReturns \/ SyncConnects \/ SyncEnds
  BY <1>5, consensusChooseKeeps, ChooserReturnsKeeps, SyncKeeps
<1>6. CASE \E b \in Blocks : Ripen(b)
  BY <1>6, RipenKeeps
<1>7. CASE UNCHANGED vars
  <2>1. Linked' /\ Lock' /\ Checked' /\ Heard' /\ NoUndeservedBan'
    BY <1>7, QuietKeeps DEF vars, intake
  <2>2. Types' /\ Accounted'
    BY <1>7 DEF Inv, Types, Accounted, vars, intake
  <2> QED
    BY <2>1, <2>2 DEF Inv
<1> QED
  BY <1>1, <1>2, <1>3, <1>4, <1>5, <1>6, <1>7 DEF Next

\* Inv holds in every state of every behaviour.
THEOREM ServerInvariant == Spec => []Inv
BY InitInv, NextInv, PTL DEF Spec

\* However many calls handle however many blocks at once, no relaying peer is
\* banned outright for a block that is only late, an orphan, or decoded to a
\* wrong transaction (processBlock).
THEOREM BansDeserved == Spec => []NoUndeservedBan
<1>1. Inv => NoUndeservedBan
  BY DEF Inv
<1> QED
  BY <1>1, ServerInvariant, PTL

\* A finalized block the chain is still below has a goroutine that waits for
\* its callback, and that goroutine will find that the block connects: no sync,
\* resync or other block in between can make ConnectBlock refuse it (Heard,
\* Checked).
THEOREM FinalizedAlwaysHeard == Spec => []FinalizedHeard
<1>1. Inv => FinalizedHeard
  BY DEF Inv, Heard, Waited, FinalizedHeard
<1> QED
  BY <1>1, ServerInvariant, PTL

\* Unless it could not be decoded, a block in inflightRequests has a timer that
\* will take it out, or a call that will start one (handleIncomingBlock,
\* requestBlock); and the state is well typed.
THEOREM InflightAlwaysAccounted == Spec => []InflightAccounted
<1>1. Inv => InflightAccounted
  <2> SUFFICES ASSUME Inv PROVE InflightAccounted
    OBVIOUS
  <2>1. \A i \in DOMAIN chain :
          /\ Height[chain[i]] = i
          /\ Parent[chain[i]] = IF i = 1 THEN NoBlock ELSE chain[i - 1]
    BY LenProperties DEF Inv, Types, Linked
  <2>2. \A c \in Calls : calls[c].pc \in Steps
    BY CallIs DEF Inv
  <2>3. TypeOK
    BY <2>1, <2>2 DEF Inv, Types, Engines, Lock, TypeOK
  <2>4. \A r : Owes(r) => r.source # "orphan"
    BY DEF Owes
  <2>5. \A b \in inflight \ undecoded :
          \/ b \in timers
          \/ \E c \in Calls : calls[c].blk = b /\ calls[c].source # "orphan"
    BY <2>4 DEF Inv, Accounted
  <2> QED
    BY <2>3, <2>5 DEF InflightAccounted
<1> QED
  BY <1>1, ServerInvariant, PTL
=============================================================================
