--------------------------- MODULE ConsensusEngine ---------------------------
(***************************************************************************)
(* The avalanche engine of one node: consensus/engine.go.                  *)
(*                                                                         *)
(* All the engine's state is owned by one goroutine (handler) that takes a *)
(* message from an unbuffered channel or a tick, so every handler is one   *)
(* atomic action.  A poll starts a goroutine (queueMessageToPeer) that     *)
(* sends the query and later hands the engine the answer or a failure.     *)
(***************************************************************************)
EXTENDS BlockVote, Maps

CONSTANTS
    Heights,        \* block heights
    HeightOf,       \* BlockIDs -> Heights: header.Height of the block
    Peers,          \* the validators that can be chosen, Self included
    Self,           \* eng.self
    Requests,       \* request IDs; bounds the polls that are out at once
    MaxCalls,       \* bound on the calls of NewBlock
    BadHash,        \* a vote that is not the length of a hash
    Faults          \* what may go wrong, a subset of FaultKinds

\* "late":     a peer answers after AvalancheRequestTimeout
\* "badcount": an answer whose number of votes is not the number of heights
\* "badid":    an answer that carries another request ID
\* "delete":   a height is not finalized within DeleteInventoryAfter
FaultKinds == {"late", "badcount", "badid", "delete"}

ASSUME EngineAssumption ==
    /\ HeightOf \in [BlockIDs -> Heights]
    /\ Self \in Peers
    /\ BadHash \notin BlockIDs \cup {ZeroID}
    /\ IsFiniteSet(Requests)
    /\ MaxCalls \in Nat
    /\ Faults \subseteq FaultKinds

VARIABLES
    blocks,     \* eng.blocks: height -> BlockChoice
    queries,    \* eng.queries: request -> the heights it asks for
    callbacks,  \* eng.callbacks: block -> the NewBlock call to notify
    sending,    \* queueMessageToPeer goroutines: request -> [peer, resp]
    backoff,    \* chooser.peerMap: "none", "waiting" or "elapsed" per peer
    connected,  \* ConnectedStakePercentage() >= MinConnectedStakeThreshold
    calls,      \* history: [block, got] of each NewBlock call; got holds the
                \* statuses sent on the call's callback channel
    closed,     \* history: heights whose finalized choice was deleted
    disagreed   \* history: a bit finalized against the preferred block

vars == <<blocks, queries, callbacks, sending, backoff, connected, calls,
          closed, disagreed>>

Init ==
    /\ blocks = EmptyMap
    /\ queries = EmptyMap
    /\ callbacks = EmptyMap
    /\ sending = EmptyMap
    /\ backoff = [p \in Peers |-> "none"]
    /\ connected \in BOOLEAN
    /\ calls = <<>>
    /\ closed = {}
    /\ disagreed = FALSE

-----------------------------------------------------------------------------
\* handleNewBlock.  The server only passes a block that extends the tip, so
\* a height whose finalized choice was deleted hours ago is not seen again.
handleNewBlock(b, acceptable) ==
    LET h   == HeightOf[b]
        bc  == IF h \in DOMAIN blocks THEN blocks[h] ELSE NewBlockChoice
        new == ~HasBlock(bc, b)
    IN  /\ Len(calls) < MaxCalls
        /\ h \notin closed
        /\ calls' = Append(calls, [block |-> b, got |-> <<>>])
        /\ blocks' = With(blocks, h,
                          IF new THEN AddNewBlock(bc, b, acceptable) ELSE bc)
        /\ callbacks' = IF new THEN With(callbacks, b, Len(calls) + 1)
                               ELSE callbacks
        /\ UNCHANGED <<queries, sending, backoff, connected, closed,
                       disagreed>>

\* pollLoop.  old are the heights older than DeleteInventoryAfter.
pollLoop(p, req, old) ==
    LET kept  == DOMAIN blocks \ old
        asked == {h \in kept :
                    /\ ~HasFinalized(blocks[h])
                    /\ blocks[h].inflight + 1 <=
                         VotesNeededToFinalize(blocks[h])}
    IN  /\ connected
        /\ backoff[p] # "waiting"
        /\ req \notin DOMAIN sending \cup DOMAIN queries
        /\ old \subseteq DOMAIN blocks
        /\ old # {} => "delete" \in Faults
        /\ asked \cup old # {}
        /\ blocks' = [h \in kept |->
                        IF h \in asked
                          THEN [blocks[h] EXCEPT !.inflight = @ + 1]
                          ELSE blocks[h]]
        /\ closed' = closed \cup {h \in old : HasFinalized(blocks[h])}
        /\ IF asked = {}
             THEN UNCHANGED <<queries, sending>>
             ELSE /\ queries' = With(queries, req, asked)
                  /\ sending' = With(sending, req,
                                     [peer |-> p, asked |-> asked,
                                      resp |-> EmptyMap])
        /\ UNCHANGED <<callbacks, backoff, connected, calls, disagreed>>

\* handleQuery for a poll of this node itself: the answer is the preference
\* now, or the ID of the connected block (getBlockID) when the engine has no
\* choice at that height; the answer is registered by a later message.
handleQuery(req) ==
    /\ req \in DOMAIN sending
    /\ sending[req].peer = Self
    /\ sending[req].resp = EmptyMap
    /\ \E resp \in [sending[req].asked -> BlockIDs \cup {ZeroID}] :
          /\ \A h \in sending[req].asked :
                IF h \in DOMAIN blocks
                  THEN resp[h] \in GetPreference(blocks[h].votes)
                  ELSE resp[h] # ZeroID => HeightOf[resp[h]] = h
          /\ sending' = [sending EXCEPT ![req].resp = resp]
    /\ UNCHANGED <<blocks, queries, callbacks, backoff, connected, calls,
                   closed, disagreed>>

\* Mutation of handleRequestExpiration: the heights keep their inflight count.
handleRequestExpiration_Leak(req) ==
    /\ req \in DOMAIN sending
    /\ sending[req].peer # Self
    /\ sending' = Without(sending, {req})
    /\ backoff' = [backoff EXCEPT ![sending[req].peer] = "waiting"]
    /\ queries' = Without(queries, {req})
    /\ UNCHANGED <<blocks, callbacks, connected, calls, closed, disagreed>>

\* RegisterDialFailure, then the request is forgotten.
handleRequestExpiration(req) ==
    /\ req \in DOMAIN sending
    /\ sending[req].peer # Self
    /\ sending' = Without(sending, {req})
    /\ backoff' = [backoff EXCEPT ![sending[req].peer] = "waiting"]
    /\ IF req \in DOMAIN queries
         THEN /\ queries' = Without(queries, {req})
              /\ blocks' = [h \in DOMAIN blocks |->
                              IF h \in queries[req]
                                THEN [blocks[h] EXCEPT !.inflight = @ - 1]
                                ELSE blocks[h]]
         ELSE UNCHANGED <<queries, blocks>>
    /\ UNCHANGED <<callbacks, connected, calls, closed, disagreed>>

\* What one vote does to the choice of a height that is still voted on.
Registered(bc, v) ==
    LET answered == [bc EXCEPT !.inflight = @ - 1]
    IN  IF HasFinalized(bc) \/ v = BadHash
          THEN {[bc |-> answered, finalized |-> ZeroID, agreed |-> TRUE]}
          ELSE RecordVote(answered, IF HasBlock(bc, v) THEN v ELSE ZeroID)

\* Mutation of Told: the callbacks fire whether or not a block finalized.
Told_AnyVote(out) ==
    {b \in DOMAIN callbacks :
        \E h \in DOMAIN out : b \in DOMAIN out[h].bc.votes}

\* The blocks whose callbacks fire: all those of a height that finalizes.
Told(out) ==
    {b \in DOMAIN callbacks :
        \E h \in DOMAIN out : /\ out[h].finalized # ZeroID
                              /\ b \in DOMAIN out[h].bc.votes}

\* Mutation of StatusOf: every callback of the height hears "Finalized".
StatusOf_Winner(out, b) == "Finalized"

\* The status a callback hears.
StatusOf(out, b) ==
    IF b = out[HeightOf[b]].finalized THEN "Finalized" ELSE "Rejected"

\* handleRegisterVotes for a well-formed answer: vote[h] is the vote for h.
RegisterVotes(req, vote) ==
    LET live == queries[req] \cap DOMAIN blocks
        All  == [h \in live |-> Registered(blocks[h], vote[h])]
    IN  \E out \in [live -> UNION {All[h] : h \in live}] :
          /\ \A h \in live : out[h] \in All[h]
          /\ blocks' = [h \in DOMAIN blocks |->
                          IF h \in live THEN out[h].bc ELSE blocks[h]]
          /\ callbacks' = Without(callbacks, Told(out))
          /\ calls' = [i \in DOMAIN calls |->
                IF \E b \in Told(out) : callbacks[b] = i
                  THEN [calls[i] EXCEPT !.got =
                          Append(@, StatusOf(out, calls[i].block))]
                  ELSE calls[i]]
          /\ disagreed' = (disagreed \/ \E h \in live : ~out[h].agreed)

\* handleRegisterVotes: RegisterDialSuccess, then the early returns.  None of
\* them gives the heights their inflight count back.
handleRegisterVotes(req, vote, fault) ==
    /\ req \in DOMAIN sending
    /\ sending' = Without(sending, {req})
    /\ backoff' = [backoff EXCEPT ![sending[req].peer] = "none"]
    /\ IF sending[req].peer = Self
         THEN /\ sending[req].resp # EmptyMap
              /\ vote = sending[req].resp
              /\ fault = "none"
         ELSE fault \in Faults \cup {"none"}
    /\ IF fault = "badid" \/ req \notin DOMAIN queries
         THEN UNCHANGED <<blocks, queries, callbacks, calls, disagreed>>
         ELSE /\ queries' = Without(queries, {req})
              /\ IF fault \in {"late", "badcount"}
                   THEN UNCHANGED <<blocks, callbacks, calls, disagreed>>
                   ELSE RegisterVotes(req, vote)
    /\ UNCHANGED <<connected, closed>>

\* The backoff time of a peer has passed.
BackoffElapsed(p) ==
    /\ backoff[p] = "waiting"
    /\ backoff' = [backoff EXCEPT ![p] = "elapsed"]
    /\ UNCHANGED <<blocks, queries, callbacks, sending, connected, calls,
                   closed, disagreed>>

\* ValidatorConnector: validators come and go.
StakeConnection ==
    /\ connected' = ~connected
    /\ UNCHANGED <<blocks, queries, callbacks, sending, backoff, calls,
                   closed, disagreed>>

\* The votes a peer may send: an ID, no preference, or not an ID at all.
PeerVotes == BlockIDs \cup {ZeroID, BadHash}

NewBlock == \E b \in BlockIDs, acceptable \in BOOLEAN :
                handleNewBlock(b, acceptable)

Poll == \E p \in Peers, req \in Requests, old \in SUBSET Heights :
            pollLoop(p, req, old)

Answer(req) ==
    \/ handleQuery(req)
    \/ handleRequestExpiration(req)
    \/ \E fault \in {"none", "late", "badcount", "badid"} :
         \E vote \in [sending[req].asked -> PeerVotes] :
            handleRegisterVotes(req, vote, fault)

Next ==
    \/ NewBlock
    \/ Poll
    \/ \E req \in DOMAIN sending : Answer(req)
    \/ \E p \in Peers : BackoffElapsed(p)
    \/ StakeConnection

Spec == Init /\ [][Next]_vars

\* The ticker fires every AvalancheTimeStep, a request ends by an answer or
\* by readMessageTimeout, backoffs pass and lost validators come back.
Fairness ==
    /\ SF_vars(\E p \in Peers, req \in Requests : pollLoop(p, req, {}))
    /\ \A req \in Requests : WF_vars(req \in DOMAIN sending /\ Answer(req))
    /\ \A p \in Peers : WF_vars(BackoffElapsed(p))
    /\ WF_vars(~connected /\ StakeConnection)

FairSpec == Spec /\ Fairness

-----------------------------------------------------------------------------
ChoicesOf(S) == [votes : [S -> BlockRecords], bit : BitRecords, inflight : Int]

Statuses == {"Finalized", "Rejected"}

TypeOK ==
    /\ DOMAIN blocks \subseteq Heights
    /\ \A h \in DOMAIN blocks :
          /\ blocks[h] \in ChoicesOf(DOMAIN blocks[h].votes)
          /\ \A b \in DOMAIN blocks[h].votes : b \in BlockIDs /\ HeightOf[b] = h
    /\ DOMAIN queries \subseteq Requests
    /\ \A r \in DOMAIN queries : queries[r] \in (SUBSET Heights) \ {{}}
    /\ DOMAIN callbacks \subseteq BlockIDs
    /\ \A b \in DOMAIN callbacks : callbacks[b] \in DOMAIN calls
    /\ DOMAIN sending \subseteq Requests
    /\ \A r \in DOMAIN sending :
          sending[r].peer \in Peers /\ sending[r].asked \in SUBSET Heights
    /\ backoff \in [Peers -> {"none", "waiting", "elapsed"}]
    /\ connected \in BOOLEAN
    /\ calls \in Seq([block : BlockIDs, got : Seq(Statuses)])
    /\ closed \subseteq Heights
    /\ disagreed \in BOOLEAN

Got(i, status) == \E k \in DOMAIN calls[i].got : calls[i].got[k] = status

SameHeight(i, j) == HeightOf[calls[i].block] = HeightOf[calls[j].block]

\* At most one block of a height is ever reported as finalized, whatever the
\* votes and whatever is deleted and seen again (handleRegisterVotes).
HeightDecidedOnce ==
    \A i, j \in DOMAIN calls :
        Got(i, "Finalized") /\ Got(j, "Finalized") /\ SameHeight(i, j) =>
            i = j

\* A callback channel, which has one reader that reads once, gets at most one
\* status; "Rejected" is only sent when a competing block was finalized
\* (StatusRejected, handleRegisterVotes).
CallbacksSound ==
    \A i \in DOMAIN calls :
        /\ Len(calls[i].got) <= 1
        /\ Got(i, "Rejected") =>
             \E j \in DOMAIN calls :
                /\ SameHeight(i, j) /\ calls[j].block # calls[i].block
                /\ Got(j, "Finalized")

\* The inductive invariant behind the two properties above.  A callback that
\* is registered belongs to a call for that block which has heard nothing; a
\* height reported as finalized is finalized in the engine or deleted for good;
\* and every block of an undecided height still has its callback.
PendingCallbacks ==
    \A b \in DOMAIN callbacks :
        /\ callbacks[b] \in DOMAIN calls
        /\ calls[callbacks[b]].block = b
        /\ calls[callbacks[b]].got = <<>>

ReportedHeights ==
    \A i \in DOMAIN calls :
        LET h == HeightOf[calls[i].block]
        IN  Got(i, "Finalized") =>
              h \in closed \/ (h \in DOMAIN blocks /\ HasFinalized(blocks[h]))

ClosedHeights == closed \cap DOMAIN blocks = {}

UndecidedHeights ==
    \A h \in DOMAIN blocks :
        ~HasFinalized(blocks[h]) =>
            DOMAIN blocks[h].votes \subseteq DOMAIN callbacks

EngineInv ==
    /\ TypeOK
    /\ PendingCallbacks
    /\ ReportedHeights
    /\ ClosedHeights
    /\ UndecidedHeights
    /\ HeightDecidedOnce
    /\ CallbacksSound

\* The queries out for a height are the ones its inflight counter counts, and
\* never more than AvalancheMaxInflightPoll (pollLoop, handleRegisterVotes,
\* handleRequestExpiration).
Outstanding(h) == {r \in DOMAIN queries : h \in queries[r]}

InflightExact ==
    \A h \in DOMAIN blocks :
        /\ blocks[h].inflight = Cardinality(Outstanding(h))
        /\ blocks[h].inflight <= MaxInflightPoll

\* Any unfinalized height the engine holds keeps being polled (the comment on
\* ConsensusEngine).
KeepsPolling ==
    \A h \in Heights :
        []<>(h \in DOMAIN blocks =>
                HasFinalized(blocks[h]) \/ Outstanding(h) # {})

\* When a bit finalizes the preferred block agrees with it (the comment in
\* BlockChoice.RecordVote).
PreferenceFollowsBits == ~disagreed
=============================================================================
