-------------------------- MODULE ConnectionGater --------------------------
(***************************************************************************)
(* Ban scores and bans (net/conngater.go, net/banscore.go) and the two     *)
(* calls of rpc/node_service.go that block and unblock a peer.             *)
(*                                                                         *)
(* A ban is an entry in memory, an entry in the datastore and a timer,     *)
(* for the peer and for its address.  IncreaseBanscore, BlockPeer,         *)
(* BlockAddr, UnblockPeer and UnblockAddr write the datastore first and    *)
(* then, under the lock, the map; operations of different goroutines       *)
(* interleave between these writes.  Time is counted in half-lives of the  *)
(* transient score, and scores in whole points.  An operation takes no     *)
(* time and timers are punctual.                                           *)
(***************************************************************************)
EXTENDS Integers, Sequences, Maps

CONSTANTS
    Peers,
    AddrOf,         \* peers -> their address in the address book
    Threads,        \* goroutines that call the gater
    Penalties,      \* <<persistent, transient>> points of the callers
    MaxBanscore,
    BanDuration,
    Lifetime,
    MaxTime,        \* bound: the clock
    MaxCalls        \* bound: calls of the RPC service

Addrs == {AddrOf[p] : p \in Peers}
Keys == Peers \cup Addrs

VARIABLES
    scores,         \* peers -> [persistent, transient, last]
    blocked,        \* blockedPeers and blockedAddrs: keys -> expiration
    disk,           \* the same in the datastore
    timers,         \* pending AfterFuncs: [key, at]
    todo,           \* threads -> the writes of its operation that are left
    now,
    calls,          \* calls of the RPC service so far
    pardoned        \* history: unblocked by the RPC service since it was blocked

vars == <<scores, blocked, disk, timers, todo, now, calls, pardoned>>

Init ==
    /\ scores = EmptyMap
    /\ blocked = EmptyMap
    /\ disk = EmptyMap
    /\ timers = {}
    /\ todo = [t \in Threads |-> <<>>]
    /\ now = 0
    /\ calls = 0
    /\ pardoned = {}

Idle(t) == todo[t] = <<>>

\* The writes of BlockPeer or BlockAddr, and of UnblockPeer or UnblockAddr.
Block(k) == <<[do |-> "put", key |-> k], [do |-> "set", key |-> k]>>
Unblock(k) ==
    LET entry(x) == <<[do |-> "delete", key |-> x], [do |-> "clear", key |-> x]>>
    IN  IF k \in Peers THEN entry(k) \o entry(AddrOf[k]) ELSE entry(k)

-----------------------------------------------------------------------------
\* The transient points that are left at the time of now.
Decayed(s) ==
    LET dt == now - s.last
    IN  IF Lifetime < dt THEN 0
        ELSE IF s.transient > 1 THEN s.transient \div 2^dt ELSE s.transient

\* DynamicBanScore.int: the score at the time of now.
IntScore(s) ==
    s.persistent + (IF s.transient < 1 \/ Lifetime < now - s.last THEN 0
                    ELSE s.transient \div 2^(now - s.last))

\* DynamicBanScore.increase: the transient score decays only when it grows.
increase(s, persistent, transient) ==
    [persistent |-> s.persistent + persistent,
     transient  |-> IF transient > 0 THEN Decayed(s) + transient ELSE s.transient,
     last       |-> IF transient > 0 THEN now ELSE s.last]

NewScore == [persistent |-> 0, transient |-> 0, last |-> 0]

\* The scores that are not zero are kept.
Cleaned(m) == Without(m, {p \in DOMAIN m : IntScore(m[p]) = 0})

\* IncreaseBanscore up to the ban, or as a whole if there is none.
IncreaseBanscore(t, p, pen) ==
    LET old == IF p \in DOMAIN scores THEN scores[p] ELSE NewScore
        s   == increase(old, pen[1], pen[2])
    IN  /\ Idle(t)
        /\ p \notin DOMAIN blocked
        /\ IF s.persistent + s.transient > MaxBanscore
             THEN /\ scores' = With(scores, p, s)
                  /\ todo' = [todo EXCEPT ![t] =
                                Block(p) \o Block(AddrOf[p]) \o
                                <<[do |-> "forget", key |-> p]>>]
             ELSE /\ scores' = Cleaned(With(scores, p, s))
                  /\ UNCHANGED todo
        /\ UNCHANGED <<blocked, disk, timers, now, calls, pardoned>>

\* BlockPeer and UnblockPeer of the RPC service.
RpcBlockPeer(t, p) ==
    /\ Idle(t) /\ calls < MaxCalls
    /\ todo' = [todo EXCEPT ![t] = Block(p)]
    /\ calls' = calls + 1
    /\ UNCHANGED <<scores, blocked, disk, timers, now, pardoned>>

RpcUnblockPeer(t, p) ==
    /\ Idle(t) /\ calls < MaxCalls
    /\ todo' = [todo EXCEPT ![t] = Unblock(p)]
    /\ calls' = calls + 1
    /\ pardoned' = pardoned \cup {p, AddrOf[p]}
    /\ UNCHANGED <<scores, blocked, disk, timers, now>>

\* A timer unblocks its key, whatever blocks it by now.
TimerFires(t, timer) ==
    /\ Idle(t) /\ timer \in timers /\ timer.at <= now
    /\ timers' = timers \ {timer}
    /\ todo' = [todo EXCEPT ![t] = Unblock(timer.key)]
    /\ UNCHANGED <<scores, blocked, disk, now, calls, pardoned>>

\* The next write of an operation.
Write(t) ==
    LET w      == Head(todo[t])
        expiry == now + BanDuration
    IN  /\ ~Idle(t)
        /\ todo' = [todo EXCEPT ![t] = Tail(@)]
        /\ disk' = CASE w.do = "put" -> With(disk, w.key, expiry)
                     [] w.do = "delete" -> Without(disk, {w.key})
                     [] OTHER -> disk
        /\ blocked' = CASE w.do = "set" -> With(blocked, w.key, expiry)
                        [] w.do = "clear" -> Without(blocked, {w.key})
                        [] OTHER -> blocked
        /\ timers' = IF w.do = "set" THEN timers \cup {[key |-> w.key, at |-> expiry]}
                                     ELSE timers
        /\ pardoned' = IF w.do = "set" THEN pardoned \ {w.key} ELSE pardoned
        /\ scores' = IF w.do = "forget" THEN Cleaned(Without(scores, {w.key})) ELSE scores
        /\ UNCHANGED <<now, calls>>

\* The process dies and loadRules reads the bans that have not expired or are
\* about to be removed by their timers.
Restart ==
    /\ scores' = EmptyMap
    /\ blocked' = disk
    /\ timers' = {[key |-> k, at |-> disk[k]] : k \in DOMAIN disk}
    /\ todo' = [t \in Threads |-> <<>>]
    /\ UNCHANGED <<disk, now, calls, pardoned>>

Tick ==
    /\ now < MaxTime
    /\ \A t \in Threads : Idle(t)
    /\ \A timer \in timers : timer.at > now
    /\ now' = now + 1
    /\ UNCHANGED <<scores, blocked, disk, timers, todo, calls, pardoned>>

Next ==
    \/ \E t \in Threads :
          \/ \E p \in Peers : \/ RpcBlockPeer(t, p) \/ RpcUnblockPeer(t, p)
                              \/ \E pen \in Penalties : IncreaseBanscore(t, p, pen)
          \/ \E timer \in timers : TimerFires(t, timer)
          \/ Write(t)
    \/ Restart \/ Tick

Spec == Init /\ [][Next]_vars

-----------------------------------------------------------------------------
\* A peer that is blocked stays blocked for the time the gater bans for, unless
\* it is unblocked by hand (rpc/node_service.go on BlockPeer: it "blocks the
\* given peer for the provided time period").
BanLasts ==
    [][\A p \in Peers :
          p \in DOMAIN blocked /\ p \notin DOMAIN blocked' =>
              blocked[p] <= now \/ p \in pardoned]_vars

\* When nothing is under way, the next start would find the bans in force.
BansOnDisk == (\A t \in Threads : Idle(t)) => disk = blocked

\* Every ban has a timer that ends it.
BansEnd ==
    \A k \in DOMAIN blocked :
        (\E timer \in timers : timer.key = k) \/ \E t \in Threads : ~Idle(t)
=============================================================================
