--------------------------- MODULE MessageSender ---------------------------
(***************************************************************************)
(* Requests to a peer (net/message_manager.go, net/pool.go): senders with  *)
(* their streams are kept in a pool per peer and used by one call at a     *)
(* time; a call that fails is tried once more on a new stream.  The other  *)
(* end is the stream handler of the chain service                          *)
(* (sync/chain_service.go).                                                *)
(*                                                                         *)
(* There is one peer.  A call of SendRequest is a number, and a sender is  *)
(* named by the call that created it.  A stream is part of the sender that *)
(* owns it: a stream that is reset takes with it what was under way.       *)
(***************************************************************************)
EXTENDS Integers, Sequences, SequencesExt

CONSTANTS
    MaxCalls,   \* bound: calls of SendRequest
    MaxDrops    \* bound: connections lost

ASSUME BoundsAssumption == MaxCalls \in Nat /\ MaxDrops \in Nat

Calls == 1..MaxCalls
None == 0

VARIABLES
    call,       \* calls -> [pc, pool, sender, retry, got]; got is the answer
    sender,     \* senders -> [stream, invalid, torn]
    pools,      \* the pools made so far: [idle, lastUsed, waiting, done]
    strmap,     \* the peer's pool in strmap, or None
    smlk,       \* the call that holds smlk, or None
    drops,      \* connections lost: [made, pending], pending ones to be notified
    panicked

senderVars == <<call, sender, pools, strmap, smlk, drops, panicked>>

NoStream == [up |-> FALSE, asked |-> <<>>, answers |-> <<>>, by |-> None]
FreshStream(c) == [up |-> TRUE, asked |-> <<>>, answers |-> <<>>, by |-> c]

SenderInit ==
    /\ call = [c \in Calls |-> [pc |-> "new", pool |-> None, sender |-> None,
                                retry |-> FALSE, got |-> None]]
    /\ sender = [s \in Calls |->
                   [stream |-> NoStream, invalid |-> FALSE, torn |-> FALSE]]
    /\ pools = <<>>
    /\ strmap = None
    /\ smlk = None
    /\ drops = [made |-> 0, pending |-> 0]
    /\ panicked = FALSE

At(c, pc) == ~panicked /\ call[c].pc = pc
Goto(c, pc) == call' = [call EXCEPT ![c].pc = pc]

-----------------------------------------------------------------------------
(* SendRequest of messageSenderImpl.                                       *)

\* messageSenderForPeer takes the peer's pool, or makes one.  Calls are numbered
\* in the order in which they do.
FindPool(c) ==
    /\ At(c, "new") /\ smlk = None
    /\ \A d \in 1..(c - 1) : call[d].pc # "new"
    /\ IF strmap # None
         THEN UNCHANGED <<pools, strmap>>
         ELSE /\ pools' = Append(pools, [idle |-> <<>>, lastUsed |-> {},
                                         waiting |-> None, done |-> FALSE])
              /\ strmap' = Len(pools) + 1
    /\ call' = [call EXCEPT ![c].pc = "get", ![c].pool = strmap']
    /\ UNCHANGED <<sender, smlk, drops, panicked>>

\* A pool's collector holds mu while it waits for the lock of a sender.
MuFree(p) == pools[p].waiting = None

\* The sender that was put back last, or a new one.
Get(c) ==
    LET p == call[c].pool
        s == IF pools[p].idle = <<>> THEN c ELSE Last(pools[p].idle)
    IN  /\ At(c, "get") /\ MuFree(p)
        /\ pools' = [pools EXCEPT ![p].idle = IF @ = <<>> THEN @ ELSE Front(@),
                                  ![p].lastUsed = @ \cup {s}]
        /\ call' = [call EXCEPT ![c].pc = "prep", ![c].sender = s]
        /\ UNCHANGED <<sender, strmap, smlk, drops, panicked>>

\* SendRequest of the sender returns, which unlocks it.
Return(c, got) ==
    call' = [call EXCEPT ![c].pc = "return", ![c].got = got]

\* The deferred function takes smlk and then the mu of the pool that is the
\* peer's now.
PutLocks(c) ==
    /\ At(c, "return") /\ smlk = None
    /\ smlk' = c
    /\ Goto(c, "put")
    /\ UNCHANGED <<sender, pools, strmap, drops, panicked>>

Put(c) ==
    LET s == call[c].sender
    IN  /\ At(c, "put")
        /\ IF strmap = None
             THEN UNCHANGED pools
             ELSE /\ MuFree(strmap)
                  /\ pools' = [pools EXCEPT ![strmap].idle = Append(@, s),
                                            ![strmap].lastUsed = @ \cup {s}]
        /\ smlk' = None
        /\ Goto(c, "done")
        /\ UNCHANGED <<sender, strmap, drops, panicked>>

-----------------------------------------------------------------------------
(* SendRequest of the sender.                                              *)

\* Mutation of Locked: the lock is kept until the sender is put back.
Locked_UntilPut(s) ==
    \E c \in Calls : /\ call[c].sender = s
                     /\ call[c].pc \in {"prep", "send", "wait", "return", "put"}

\* The lock is held while a stream is opened and during a request, and free
\* between the two.  Lock(ctx) fails when the context of the call is cancelled,
\* which happens at shutdown only and is left out.
Locked(s) ==
    \E c \in Calls : call[c].sender = s /\ call[c].pc \in {"prep", "send", "wait"}

NeedsStream(s) == sender[s].invalid \/ sender[s].stream.by = None
invalidate(s) == sender' = [sender EXCEPT ![s].invalid = TRUE, ![s].stream = NoStream]

\* prep finds a stream that it takes to be usable.
PrepReady(c) ==
    /\ At(c, "prep") /\ ~NeedsStream(call[c].sender)
    /\ Goto(c, "ready")
    /\ UNCHANGED <<sender, pools, strmap, smlk, drops, panicked>>

\* prep opens a stream: in prepOrInvalidate, or in SendRequest because the
\* stream has been reset since.  Only the former makes the sender valid, but an
\* invalid sender has been through it.
PrepOpens(c) ==
    LET s == call[c].sender
    IN  /\ At(c, "prep") \/ At(c, "ready") \/ At(c, "send")
        /\ NeedsStream(s) /\ ~sender[s].torn
        /\ sender' = [sender EXCEPT ![s].stream = FreshStream(c), ![s].invalid = FALSE]
        /\ Goto(c, IF call[c].pc = "prep" THEN "ready" ELSE "send")
        /\ UNCHANGED <<pools, strmap, smlk, drops, panicked>>

PrepFails(c) ==
    LET s == call[c].sender
    IN  /\ At(c, "prep") \/ At(c, "ready") \/ At(c, "send")
        /\ NeedsStream(s) /\ ~sender[s].torn
        /\ invalidate(s)
        /\ Return(c, None)
        /\ UNCHANGED <<pools, strmap, smlk, drops, panicked>>

\* A sender that was torn down has no host to open a stream with.
PrepPanics(c) ==
    /\ At(c, "prep") \/ At(c, "ready") \/ At(c, "send")
    /\ NeedsStream(call[c].sender) /\ sender[call[c].sender].torn
    /\ panicked' = TRUE
    /\ UNCHANGED <<call, sender, pools, strmap, smlk, drops>>

Write(c) ==
    LET s == call[c].sender
    IN  /\ At(c, "ready") \/ At(c, "send")
        /\ ~NeedsStream(s) /\ sender[s].stream.up
        /\ sender' = [sender EXCEPT ![s].stream.asked = Append(@, c)]
        /\ Goto(c, "wait")
        /\ UNCHANGED <<pools, strmap, smlk, drops, panicked>>

\* Mutation of AttemptFails: the first failure is final.
AttemptFails_NoRetry(c) ==
    /\ invalidate(call[c].sender)
    /\ Return(c, None)

\* Mutation of AttemptFails: the stream is used again for the second attempt.
AttemptFails_NoReset(c) ==
    IF call[c].retry
      THEN invalidate(call[c].sender) /\ Return(c, None)
      ELSE /\ call' = [call EXCEPT ![c].pc = "send", ![c].retry = TRUE]
           /\ UNCHANGED sender

\* After a failure the stream is reset; the first one is followed by a second
\* attempt.
AttemptFails(c) ==
    IF call[c].retry
      THEN invalidate(call[c].sender) /\ Return(c, None)
      ELSE /\ call' = [call EXCEPT ![c].pc = "send", ![c].retry = TRUE]
           /\ sender' = [sender EXCEPT ![call[c].sender].stream = NoStream]

WriteFails(c) ==
    LET s == call[c].sender
    IN  /\ At(c, "ready") \/ At(c, "send")
        /\ ~NeedsStream(s) /\ ~sender[s].stream.up
        /\ AttemptFails(c)
        /\ UNCHANGED <<pools, strmap, smlk, drops, panicked>>

Read(c) ==
    LET s == call[c].sender
    IN  /\ At(c, "wait")
        /\ sender[s].stream.answers # <<>>
        /\ sender' = [sender EXCEPT ![s].stream.answers = Tail(@)]
        /\ Return(c, Head(sender[s].stream.answers))
        /\ UNCHANGED <<pools, strmap, smlk, drops, panicked>>

\* The stream has ended, or readMessageTimeout passes.
ReadFails(c) ==
    /\ At(c, "wait")
    /\ AttemptFails(c)
    /\ UNCHANGED <<pools, strmap, smlk, drops, panicked>>

-----------------------------------------------------------------------------
(* The peer and the network.                                               *)

\* The stream of s after the handler has taken its next message.
Handled(s) == [sender[s].stream EXCEPT !.asked = Tail(@)]

\* handleNewMessage answers, and closes the stream then if it was idle for a
\* minute before; or fails without an answer.
HandleMessage(s) ==
    LET stream == sender[s].stream
        answer == [Handled(s) EXCEPT !.answers = Append(@, Head(stream.asked))]
    IN  /\ stream.up /\ stream.asked # <<>>
        /\ \E next \in {answer, [answer EXCEPT !.up = FALSE], Handled(s)} :
              sender' = [sender EXCEPT ![s].stream = next]
        /\ UNCHANGED <<call, pools, strmap, smlk, drops, panicked>>

\* The connection is lost, with every stream.
Disconnect ==
    /\ drops.made < MaxDrops
    /\ \E s \in Calls : sender[s].stream.up
    /\ drops' = [made |-> drops.made + 1, pending |-> drops.pending + 1]
    /\ sender' = [s \in Calls |->
                    [sender[s] EXCEPT !.stream = [@ EXCEPT !.up = FALSE, !.asked = <<>>,
                                                           !.answers = <<>>]]]
    /\ UNCHANGED <<call, pools, strmap, smlk, panicked>>

OnDisconnect ==
    /\ drops.pending > 0 /\ smlk = None
    /\ drops' = [drops EXCEPT !.pending = @ - 1]
    /\ IF strmap = None
         THEN UNCHANGED <<pools, strmap>>
         ELSE /\ pools' = [pools EXCEPT ![strmap].done = TRUE]
              /\ strmap' = None
    /\ UNCHANGED <<call, sender, smlk, panicked>>

-----------------------------------------------------------------------------
(* The collector of a pool.                                                *)

\* seq without the sender s, which is in it once if at all.
Removed(seq, s) ==
    IF s \in ToSet(seq) THEN RemoveAt(seq, CHOOSE i \in DOMAIN seq : seq[i] = s) ELSE seq

\* runGC takes a sender that was last used more than gcInterval ago out of the
\* pool, if it is there.  Any sender may be: calls take as long as they like.
Collect(p, s) ==
    /\ ~pools[p].done /\ MuFree(p)
    /\ s \in pools[p].lastUsed
    /\ Len(pools[p].idle) > 1
    /\ pools' = [pools EXCEPT ![p].idle = Removed(@, s),
                              ![p].waiting = s]
    /\ UNCHANGED <<call, sender, strmap, smlk, drops, panicked>>

\* It waits for the sender's lock and tears the sender down.
teardown(p) ==
    LET s == pools[p].waiting
    IN  /\ s # None /\ ~Locked(s)
        /\ sender' = [sender EXCEPT ![s].stream = NoStream, ![s].torn = TRUE]
        /\ pools' = [pools EXCEPT ![p].lastUsed = @ \ {s}, ![p].waiting = None]
        /\ UNCHANGED <<call, strmap, smlk, drops, panicked>>

Step(c) ==
    \/ FindPool(c) \/ Get(c)
    \/ PrepReady(c) \/ PrepOpens(c) \/ PrepFails(c) \/ PrepPanics(c)
    \/ Write(c) \/ WriteFails(c) \/ Read(c) \/ ReadFails(c)
    \/ PutLocks(c) \/ Put(c)

SenderNext ==
    \/ \E c \in Calls : Step(c)
    \/ \E s \in Calls : HandleMessage(s)
    \/ Disconnect \/ OnDisconnect
    \/ \E p \in DOMAIN pools : teardown(p) \/ \E s \in Calls : Collect(p, s)

SenderSpec == SenderInit /\ [][SenderNext]_senderVars

\* Goroutines run, locks are passed on, and reads time out.  Nobody has to call,
\* and the peer does not have to answer.
SenderFairSpec ==
    /\ SenderSpec
    /\ \A c \in Calls : WF_senderVars(call[c].pc # "new" /\ Step(c))
    /\ \A p \in Calls : WF_senderVars(p \in DOMAIN pools /\ teardown(p))

-----------------------------------------------------------------------------
\* The answer a call returns is the one to its own request, although streams
\* are used again, answers arrive after their time and calls fail half-way.
AnswersMatch == \A c \in Calls : call[c].got \in {None, c}

\* A call fails only after it has failed to open a stream or on a stream that
\* it opened itself: one that broke while it was in the pool costs nothing but
\* the second attempt.
RetriedFresh ==
    [][\A c \in Calls :
          call[c].pc # "return" /\ call'[c].pc = "return" /\ call'[c].got = None =>
              LET s == call[c].sender
              IN  NeedsStream(s) \/ sender[s].stream.by = c]_senderVars

\* Every call returns, whatever the peer does, and whoever waits for which of
\* the three locks.
CallsReturn ==
    \A c \in Calls : call[c].pc # "new" ~> call[c].pc = "done" \/ panicked

\* No call finds a sender that the collector has torn down.
NeverTornDown == ~panicked
=============================================================================
