------------------------ MODULE ConsensusEngineProofs ------------------------
(***************************************************************************)
(* Proofs about the consensus engine, for every window, quorum, score,     *)
(* set of blocks, peers and faults.                                        *)
(***************************************************************************)
EXTENDS ConsensusEngine, FiniteSetTheorems, TLAPS

-----------------------------------------------------------------------------
(* Sequences.                                                              *)

LEMMA SeqElement ==
    ASSUME NEW X, NEW s \in Seq(X), NEW i \in DOMAIN s
    PROVE  s[i] \in X
OBVIOUS

LEMMA SeqSameLength ==
    ASSUME NEW X, NEW s \in Seq(X), NEW t, t = [i \in DOMAIN s |-> t[i]],
           \A i \in DOMAIN s : t[i] \in X
    PROVE  t \in Seq(X)
<1>1. DOMAIN s = 1..Len(s) /\ Len(s) \in Nat
    OBVIOUS
<1>2. t = [i \in 1..Len(s) |-> t[i]] /\ \A i \in 1..Len(s) : t[i] \in X
    BY <1>1
<1>3. QED
    BY <1>1, <1>2

LEMMA Singleton ==
    ASSUME NEW x
    PROVE  Len(<<x>>) = 1 /\ DOMAIN <<x>> = {1} /\ <<x>>[1] = x
OBVIOUS

-----------------------------------------------------------------------------
(* The vote records.                                                       *)

\* A block record stays a block record whatever vote is recorded.
LEMMA RecordBlockVoteType ==
    ASSUME NEW rec \in BlockRecords, NEW v \in Vote
    PROVE  RecordBlockVote(rec, v) \in BlockRecords
<1> DEFINE win == Push(rec.win, v)
           yes == Conclusive(win, "yes")
           no  == Conclusive(win, "no")
           conf == IF rec.pref = yes THEN rec.conf + 1 ELSE 0
<1>1. win \in [1..Window -> Vote]
    BY VoteAssumption DEF Push, BlockRecords
<1>2. yes \in BOOLEAN /\ no \in BOOLEAN
    BY DEF Conclusive
<1>c. conf \in Nat
    <2>1. rec.conf \in Nat /\ rec.conf + 1 \in Nat
        BY DEF BlockRecords
    <2>2. QED
        BY <2>1, Zenon
<1> HIDE DEF win, yes, no, conf
<1>3. [rec EXCEPT !.win = win] \in BlockRecords
    BY <1>1 DEF BlockRecords
<1>4. [rec EXCEPT !.win = win, !.pref = yes, !.conf = conf] \in BlockRecords
    BY <1>1, <1>2, <1>c DEF BlockRecords
<1>5. QED
    BY <1>3, <1>4, Zenon DEF RecordBlockVote, win, yes, no, conf

LEMMA ResetType ==
    ASSUME NEW rec \in BlockRecords, NEW yes \in BOOLEAN
    PROVE  Reset(rec, yes) \in BlockRecords
BY DEF Reset, BlockRecords, NoVotes, Vote

\* Recording a vote keeps the known blocks, and the block that is returned as
\* finalized is one of them and has finalized.
LEMMA VotesRecordedType ==
    ASSUME NEW S \in SUBSET BlockIDs, NEW votes \in [S -> BlockRecords],
           NEW voteID, NEW r \in VotesRecorded(votes, voteID)
    PROVE  /\ r.votes \in [S -> BlockRecords]
           /\ r.finalized \in S \cup {ZeroID}
           /\ r.finalized # ZeroID => Finalized(r.votes[r.finalized])
<1> DEFINE VoteFor(b) == IF voteID = ZeroID THEN "unknown"
                         ELSE IF b = voteID THEN "yes" ELSE "no"
           after == [b \in DOMAIN votes |-> RecordBlockVote(votes[b], VoteFor(b))]
           done == {b \in DOMAIN votes : Finalized(after[b])}
           before == {s \in SUBSET (DOMAIN votes \ done) :
                        voteID \in DOMAIN votes =>
                            IF voteID \in done THEN s = {} ELSE voteID \in s}
           first == IF voteID \in done THEN {voteID} ELSE done
           Upto(f, s) == [b \in DOMAIN votes |->
                            IF b \in s \cup {f} THEN after[b] ELSE votes[b]]
<1>1. after \in [S -> BlockRecords]
    BY RecordBlockVoteType DEF Vote
<1>2. CASE done = {}
    <2>1. r = [votes |-> after, finalized |-> ZeroID]
        BY <1>2 DEF VotesRecorded
    <2>2. QED
        BY <2>1, <1>1
<1>3. CASE done # {}
    <2>1. r \in UNION {{[votes |-> Upto(f, s), finalized |-> f] : s \in before}
                         : f \in first}
        BY <1>3, Zenon DEF VotesRecorded
    <2>2. first \subseteq done
        OBVIOUS
    <2> HIDE DEF before, first
    <2>3. PICK f \in first, s \in before :
              r = [votes |-> Upto(f, s), finalized |-> f]
        BY <2>1
    <2>4. Upto(f, s) \in [S -> BlockRecords]
        BY <1>1
    <2>5. f \in S /\ Upto(f, s)[f] = after[f] /\ Finalized(after[f])
        BY <2>2
    <2> HIDE DEF Upto, after
    <2>6. QED
        BY <2>3, <2>4, <2>5
<1>4. QED
    BY <1>2, <1>3

-----------------------------------------------------------------------------
(* The bit record.                                                         *)

LEMMA SetActiveBitType ==
    ASSUME NEW bit \in BitRecords, NEW id
    PROVE  SetActiveBit(bit, id) \in BitRecords
BY DEF SetActiveBit, BitRecords

LEMMA RecordBitVoteType ==
    ASSUME NEW bit \in BitRecords, NEW voteID
    PROVE  RecordBitVote(bit, voteID).bit \in BitRecords
<1> DEFINE win   == Push(bit.win, BitVote(bit, voteID))
           one   == Conclusive(win, "yes")
           zero  == Conclusive(win, "no")
           voted == [bit EXCEPT !.win = win]
           next  == [active |-> NextActiveBit(bit.active),
                     final  |-> [bit.final EXCEPT ![bit.active + 1] =
                                   IF bit.one THEN 1 ELSE 0],
                     one |-> FALSE, conf |-> 0, win |-> NoVotes]
<1>1. win \in [1..Window -> Vote]
    BY VoteAssumption DEF Push, BitRecords, BitVote, Vote
<1>2. one \in BOOLEAN
    BY DEF Conclusive
<1>3. next \in BitRecords
    <2>1. NextActiveBit(bit.active) \in 0..(IDBits - 1)
        BY VoteAssumption DEF BitRecords, NextActiveBit
    <2>2. [bit.final EXCEPT ![bit.active + 1] = IF bit.one THEN 1 ELSE 0]
              \in [Bits -> {0, 1}]
        BY DEF BitRecords
    <2>3. NoVotes \in [1..Window -> Vote]
        BY DEF NoVotes, Vote
    <2> HIDE DEF NoVotes, NextActiveBit
    <2>4. QED
        BY <2>1, <2>2, <2>3 DEF BitRecords
<1> HIDE DEF win, one, zero, next
<1>4. voted \in BitRecords
    BY <1>1 DEF BitRecords
<1> HIDE DEF voted
<1>5. [voted EXCEPT !.one = one, !.conf = 0] \in BitRecords
    BY <1>2, <1>4 DEF BitRecords
<1>6. [voted EXCEPT !.conf = @ + 1] \in BitRecords
    BY <1>4 DEF BitRecords
<1>7. \E b \in BitRecords : \E res :
          RecordBitVote(bit, voteID) = [bit |-> b, result |-> res]
    BY <1>3, <1>4, <1>5, <1>6, Zenon
       DEF RecordBitVote, win, one, zero, next, voted
<1>8. QED
    BY <1>7

-----------------------------------------------------------------------------
(* The choice of blocks at a height.                                       *)

\* The outcomes of the three ways to move the preference: the same blocks,
\* records and a bit record.
Moved(S) == [votes : [S -> BlockRecords], bit : BitRecords, agreed : BOOLEAN]

LEMMA MoveTo ==
    ASSUME NEW S, NEW votes \in [S -> BlockRecords], NEW n \in S,
           NEW yes \in BOOLEAN
    PROVE  [votes EXCEPT ![n] = Reset(@, yes)] \in [S -> BlockRecords]
BY ResetType

LEMMA AfterBitFinalizedType ==
    ASSUME NEW S, NEW votes \in [S -> BlockRecords], NEW bit \in BitRecords
    PROVE  AfterBitFinalized(votes, bit) \subseteq Moved(S)
<1>1. Candidates(votes, bit) \subseteq S
    BY DEF Candidates
<1>2. ASSUME NEW agreed \in BOOLEAN
      PROVE  [votes |-> votes, bit |-> bit, agreed |-> agreed] \in Moved(S)
    BY DEF Moved
<1>3. ASSUME NEW n \in Candidates(votes, bit), NEW agreed \in BOOLEAN
      PROVE  [votes |-> [votes EXCEPT ![n] = Reset(@, TRUE)],
              bit |-> SetActiveBit(bit, n), agreed |-> agreed] \in Moved(S)
    <2>1. [votes EXCEPT ![n] = Reset(@, TRUE)] \in [S -> BlockRecords]
        BY <1>1, MoveTo
    <2>2. SetActiveBit(bit, n) \in BitRecords
        BY SetActiveBitType
    <2>3. QED
        BY <2>1, <2>2 DEF Moved
<1>4. (Preferred(votes) = {}) \in BOOLEAN
    OBVIOUS
<1> HIDE DEF Preferred
<1>5. QED
    BY <1>2, <1>3, <1>4, Zenon DEF AfterBitFinalized

LEMMA AfterNoChangeType ==
    ASSUME NEW S, NEW votes \in [S -> BlockRecords], NEW bit \in BitRecords
    PROVE  AfterNoChange(votes, bit) \subseteq Moved(S)
<1>1. Candidates(votes, bit) \subseteq S
    BY DEF Candidates
<1>2. [votes |-> votes, bit |-> bit, agreed |-> TRUE] \in Moved(S)
    BY DEF Moved
<1>3. ASSUME NEW n \in Candidates(votes, bit)
      PROVE  [votes |-> [votes EXCEPT ![n] = Reset(@, TRUE)],
              bit |-> SetActiveBit(bit, n), agreed |-> TRUE] \in Moved(S)
    BY <1>1, MoveTo, SetActiveBitType DEF Moved
<1>4. QED
    BY <1>2, <1>3, Zenon DEF AfterNoChange

LEMMA AfterBitFlippedType ==
    ASSUME NEW S, NEW votes \in [S -> BlockRecords], NEW bit \in BitRecords
    PROVE  AfterBitFlipped(votes, bit) \subseteq Moved(S)
<1> DEFINE Dropped == IF Preferred(votes) = {} THEN {votes}
                      ELSE {[votes EXCEPT ![p] = Reset(@, FALSE)] :
                              p \in Preferred(votes)}
           Match(vs) == {b \in Candidates(vs, bit) : MatchesActiveBit(bit, b)}
           Pick(vs) == IF Match(vs) = {} THEN {vs}
                       ELSE {[vs EXCEPT ![n] = Reset(@, TRUE)] : n \in Match(vs)}
<1>1. ASSUME NEW d \in Dropped PROVE d \in [S -> BlockRecords]
    <2>1. Preferred(votes) \subseteq S
        BY DEF Preferred
    <2>2. ASSUME NEW p \in Preferred(votes)
          PROVE  [votes EXCEPT ![p] = Reset(@, FALSE)] \in [S -> BlockRecords]
        BY <2>1, MoveTo
    <2>3. QED
        BY <1>1, <2>2
<1>2. ASSUME NEW d \in [S -> BlockRecords], NEW vs \in Pick(d)
      PROVE  vs \in [S -> BlockRecords]
    <2>1. Match(d) \subseteq S
        BY DEF Candidates
    <2>2. ASSUME NEW n \in Match(d)
          PROVE  [d EXCEPT ![n] = Reset(@, TRUE)] \in [S -> BlockRecords]
        BY <2>1, MoveTo
    <2> HIDE DEF Match
    <2>3. QED
        BY <1>2, <2>2
<1>3. AfterBitFlipped(votes, bit) =
         {[votes |-> vs, bit |-> bit, agreed |-> TRUE] :
            vs \in UNION {Pick(d) : d \in Dropped}}
    BY Zenon DEF AfterBitFlipped
<1> HIDE DEF Dropped, Pick
<1>4. SUFFICES ASSUME NEW o \in AfterBitFlipped(votes, bit)
               PROVE  o \in Moved(S)
    OBVIOUS
<1>5. PICK vs \in UNION {Pick(d) : d \in Dropped} :
          o = [votes |-> vs, bit |-> bit, agreed |-> TRUE]
    BY <1>3
<1>6. PICK d \in Dropped : vs \in Pick(d)
    BY <1>5
<1>7. QED
    BY <1>1, <1>2, <1>5, <1>6 DEF Moved

\* RecordVote keeps the known blocks, and a block it returns has finalized.
LEMMA RecordVoteType ==
    ASSUME NEW S \in SUBSET BlockIDs, NEW bc \in ChoicesOf(S), NEW voteID,
           NEW o \in RecordVote(bc, voteID)
    PROVE  /\ o.bc \in ChoicesOf(S)
           /\ o.finalized \in S \cup {ZeroID}
           /\ o.finalized # ZeroID => Finalized(o.bc.votes[o.finalized])
           /\ o.agreed \in BOOLEAN
<1> DEFINE b == RecordBitVote(bc.bit, voteID)
           Outcomes(r) == CASE b.result = "Finalized" ->
                                 AfterBitFinalized(r.votes, b.bit)
                            [] b.result = "Flipped" ->
                                 AfterBitFlipped(r.votes, b.bit)
                            [] OTHER -> AfterNoChange(r.votes, b.bit)
           Decided(r) == {[bc |-> [bc EXCEPT !.votes = r.votes],
                           finalized |-> r.finalized, agreed |-> TRUE]}
           Undecided(r) ==
               {[bc |-> [bc EXCEPT !.votes = u.votes, !.bit = u.bit],
                 finalized |-> ZeroID, agreed |-> u.agreed] : u \in Outcomes(r)}
<1>1. o \in UNION {IF r.finalized # ZeroID THEN Decided(r) ELSE Undecided(r) :
                     r \in VotesRecorded(bc.votes, voteID)}
    BY Zenon DEF RecordVote
<1>2. PICK r \in VotesRecorded(bc.votes, voteID) :
          o \in IF r.finalized # ZeroID THEN Decided(r) ELSE Undecided(r)
    <2> HIDE DEF Decided, Undecided
    <2>1. QED BY <1>1
<1>3. bc.votes \in [S -> BlockRecords] /\ bc.bit \in BitRecords
    BY DEF ChoicesOf
<1>4. /\ r.votes \in [S -> BlockRecords]
      /\ r.finalized \in S \cup {ZeroID}
      /\ r.finalized # ZeroID => Finalized(r.votes[r.finalized])
    BY <1>3, VotesRecordedType
<1>5. CASE r.finalized # ZeroID
    <2>1. o = [bc |-> [bc EXCEPT !.votes = r.votes],
               finalized |-> r.finalized, agreed |-> TRUE]
        BY <1>2, <1>5
    <2>2. [bc EXCEPT !.votes = r.votes] \in ChoicesOf(S)
        BY <1>4 DEF ChoicesOf
    <2>3. [bc EXCEPT !.votes = r.votes].votes = r.votes
        BY DEF ChoicesOf
    <2>4. QED
        BY <2>1, <2>2, <2>3, <1>4
<1>6. CASE r.finalized = ZeroID
    <2>1. b.bit \in BitRecords
        BY <1>3, RecordBitVoteType
    <2>2. Outcomes(r) \subseteq Moved(S)
        <3>1. /\ AfterBitFinalized(r.votes, b.bit) \subseteq Moved(S)
              /\ AfterBitFlipped(r.votes, b.bit) \subseteq Moved(S)
              /\ AfterNoChange(r.votes, b.bit) \subseteq Moved(S)
            BY <1>4, <2>1, AfterBitFinalizedType, AfterBitFlippedType,
               AfterNoChangeType
        <3> HIDE DEF b
        <3>2. QED
            BY <3>1
    <2> HIDE DEF Outcomes
    <2>3. PICK u \in Moved(S) :
              o = [bc |-> [bc EXCEPT !.votes = u.votes, !.bit = u.bit],
                   finalized |-> ZeroID, agreed |-> u.agreed]
        BY <1>2, <1>6, <2>2
    <2>4. /\ u.votes \in [S -> BlockRecords]
          /\ u.bit \in BitRecords
          /\ u.agreed \in BOOLEAN
        BY DEF Moved
    <2>5. [bc EXCEPT !.votes = u.votes, !.bit = u.bit] \in ChoicesOf(S)
        BY <2>4 DEF ChoicesOf
    <2>6. QED
        BY <2>3, <2>4, <2>5
<1>7. QED
    BY <1>5, <1>6

LEMMA AddNewBlockType ==
    ASSUME NEW S \in SUBSET BlockIDs, NEW bc \in ChoicesOf(S),
           NEW id \in BlockIDs, NEW acceptable \in BOOLEAN
    PROVE  AddNewBlock(bc, id, acceptable) \in ChoicesOf(S \cup {id})
<1> DEFINE preferred == /\ Preferred(bc.votes) = {}
                        /\ acceptable
                        /\ CompareBits(bc.bit, id)
           rec == [acceptable |-> acceptable, pref |-> preferred, conf |-> 0,
                   win |-> NoVotes]
           votes == [b \in DOMAIN bc.votes \cup {id} |->
                        IF b = id THEN rec ELSE bc.votes[b]]
           bit == IF preferred /\ bc.bit.conf = 0
                    THEN SetActiveBit(bc.bit, id) ELSE bc.bit
<1>1. preferred \in BOOLEAN
    OBVIOUS
<1>2. bc.votes \in [S -> BlockRecords] /\ bc.bit \in BitRecords
    BY DEF ChoicesOf
<1> HIDE DEF preferred
<1>3. rec \in BlockRecords
    BY <1>1 DEF BlockRecords, NoVotes, Vote
<1>4. bit \in BitRecords
    BY <1>2, SetActiveBitType
<1> HIDE DEF rec, bit
<1>5. votes \in [S \cup {id} -> BlockRecords]
    BY <1>2, <1>3
<1> HIDE DEF votes
<1>6. AddNewBlock(bc, id, acceptable) = [bc EXCEPT !.votes = votes, !.bit = bit]
    BY Zenon DEF AddNewBlock, preferred, rec, votes, bit
<1>7. QED
    BY <1>4, <1>5, <1>6 DEF ChoicesOf

LEMMA RegisteredType ==
    ASSUME NEW S \in SUBSET BlockIDs, NEW bc \in ChoicesOf(S), NEW v,
           NEW o \in Registered(bc, v)
    PROVE  /\ o.bc \in ChoicesOf(S)
           /\ o.finalized \in S \cup {ZeroID}
           /\ o.finalized # ZeroID => ~HasFinalized(bc) /\ HasFinalized(o.bc)
           /\ HasFinalized(bc) => HasFinalized(o.bc)
           /\ o.agreed \in BOOLEAN
<1> DEFINE answered == [bc EXCEPT !.inflight = @ - 1]
<1>1. answered \in ChoicesOf(S) /\ answered.votes = bc.votes
    BY DEF ChoicesOf
<1> HIDE DEF answered
<1>2. CASE HasFinalized(bc) \/ v = BadHash
    <2>1. o = [bc |-> answered, finalized |-> ZeroID, agreed |-> TRUE]
        BY <1>2 DEF Registered, answered
    <2>2. QED
        BY <1>1, <2>1 DEF HasFinalized
<1>3. CASE ~(HasFinalized(bc) \/ v = BadHash)
    <2>1. o \in RecordVote(answered, IF HasBlock(bc, v) THEN v ELSE ZeroID)
        BY <1>3 DEF Registered, answered
    <2>2. /\ o.bc \in ChoicesOf(S)
          /\ o.finalized \in S \cup {ZeroID}
          /\ o.finalized # ZeroID => Finalized(o.bc.votes[o.finalized])
          /\ o.agreed \in BOOLEAN
        BY <1>1, <2>1, RecordVoteType
    <2>3. DOMAIN o.bc.votes = S
        BY <2>2 DEF ChoicesOf
    <2>4. QED
        BY <1>3, <2>2, <2>3 DEF HasFinalized
<1>4. QED
    BY <1>2, <1>3

LEMMA AddNewBlockFinalized ==
    ASSUME NEW S \in SUBSET BlockIDs, NEW bc \in ChoicesOf(S),
           NEW id \in BlockIDs \ S, NEW acceptable \in BOOLEAN
    PROVE  HasFinalized(AddNewBlock(bc, id, acceptable)) <=> HasFinalized(bc)
<1> DEFINE new == AddNewBlock(bc, id, acceptable)
<1>1. new \in ChoicesOf(S \cup {id})
    BY AddNewBlockType
<1>2. DOMAIN bc.votes = S /\ DOMAIN new.votes = S \cup {id}
    BY <1>1 DEF ChoicesOf
<1>3. new.votes = [b \in DOMAIN bc.votes \cup {id} |->
                      IF b = id THEN new.votes[id] ELSE bc.votes[b]]
    BY <1>2 DEF AddNewBlock, ChoicesOf
<1>4. new.votes[id].conf = 0
    BY <1>2 DEF AddNewBlock, ChoicesOf
<1> HIDE DEF new
<1>5. ~Finalized(new.votes[id])
    BY <1>4, VoteAssumption DEF Finalized
<1>6. \A b \in S : new.votes[b] = bc.votes[b]
    BY <1>2, <1>3
<1>7. QED
    BY <1>2, <1>5, <1>6 DEF HasFinalized, new

-----------------------------------------------------------------------------
(* The engine.                                                             *)

LEMMA EngineInvInit == Init => EngineInv
<1> SUFFICES ASSUME Init PROVE EngineInv
    OBVIOUS
<1>1. /\ DOMAIN blocks = {} /\ DOMAIN queries = {} /\ DOMAIN callbacks = {}
      /\ DOMAIN sending = {} /\ DOMAIN calls = {}
    BY DEF Init, EmptyMap
<1>2. TypeOK
    <2>1. calls \in Seq([block : BlockIDs, got : Seq(Statuses)])
        BY DEF Init
    <2>2. /\ backoff \in [Peers -> {"none", "waiting", "elapsed"}]
          /\ connected \in BOOLEAN /\ closed = {} /\ disagreed \in BOOLEAN
        BY DEF Init
    <2>3. QED
        BY <1>1, <2>1, <2>2 DEF TypeOK
<1>3. QED
    BY <1>1, <1>2 DEF Init, EngineInv, PendingCallbacks, ReportedHeights,
       ClosedHeights, UndecidedHeights, HeightDecidedOnce, CallbacksSound

\* The steps that leave the votes, the callbacks and the calls alone: a poll,
\* an expired request and the steps of the environment.
Quiet ==
    /\ DOMAIN blocks' \subseteq DOMAIN blocks
    /\ \A h \in DOMAIN blocks' : blocks'[h].votes = blocks[h].votes
    /\ \A h \in DOMAIN blocks \ DOMAIN blocks' :
          HasFinalized(blocks[h]) => h \in closed'
    /\ closed \subseteq closed' /\ closed' \subseteq closed \cup DOMAIN blocks
    /\ closed' \cap DOMAIN blocks' = {}
    /\ UNCHANGED <<callbacks, calls>>

LEMMA QuietStep == EngineInv /\ TypeOK' /\ Quiet => EngineInv'
<1> SUFFICES ASSUME EngineInv, TypeOK', Quiet PROVE EngineInv'
    OBVIOUS
<1>1. \A h \in DOMAIN blocks' : HasFinalized(blocks'[h]) <=> HasFinalized(blocks[h])
    BY DEF Quiet, HasFinalized
<1>2. PendingCallbacks' /\ HeightDecidedOnce' /\ CallbacksSound'
    BY DEF EngineInv, Quiet, PendingCallbacks, HeightDecidedOnce,
           CallbacksSound, Got, SameHeight
<1>3. ReportedHeights'
    BY <1>1 DEF EngineInv, Quiet, ReportedHeights, Got
<1>4. ClosedHeights' /\ UndecidedHeights'
    BY <1>1 DEF EngineInv, Quiet, ClosedHeights, UndecidedHeights
<1>5. QED
    BY <1>2, <1>3, <1>4 DEF EngineInv

LEMMA InflightType ==
    ASSUME NEW S, NEW bc \in ChoicesOf(S), NEW d \in Int
    PROVE  /\ [bc EXCEPT !.inflight = d] \in ChoicesOf(S)
           /\ [bc EXCEPT !.inflight = d].votes = bc.votes
BY DEF ChoicesOf

LEMMA PollStep ==
    ASSUME EngineInv, NEW p \in Peers, NEW req \in Requests,
           NEW old \in SUBSET Heights, pollLoop(p, req, old)
    PROVE  EngineInv'
<1> DEFINE kept == DOMAIN blocks \ old
           asked == {h \in kept :
                       /\ ~HasFinalized(blocks[h])
                       /\ blocks[h].inflight + 1 <=
                            VotesNeededToFinalize(blocks[h])}
<1>1. TypeOK
    BY DEF EngineInv
<1>2. /\ blocks' = [h \in kept |->
                      IF h \in asked
                        THEN [blocks[h] EXCEPT !.inflight = @ + 1]
                        ELSE blocks[h]]
      /\ closed' = closed \cup {h \in old : HasFinalized(blocks[h])}
      /\ old \subseteq DOMAIN blocks
      /\ \/ UNCHANGED <<queries, sending>>
         \/ /\ asked # {}
            /\ queries' = With(queries, req, asked)
            /\ sending' = With(sending, req, [peer |-> p, asked |-> asked,
                                              resp |-> EmptyMap])
      /\ UNCHANGED <<callbacks, backoff, connected, calls, disagreed>>
    BY Zenon DEF pollLoop
<1>3. asked \subseteq Heights /\ asked \subseteq kept
    BY <1>1 DEF TypeOK
<1> HIDE DEF asked
<1>4. \A h \in kept : /\ blocks'[h] \in ChoicesOf(DOMAIN blocks[h].votes)
                      /\ blocks'[h].votes = blocks[h].votes
    <2> SUFFICES ASSUME NEW h \in kept
                 PROVE  /\ blocks'[h] \in ChoicesOf(DOMAIN blocks[h].votes)
                        /\ blocks'[h].votes = blocks[h].votes
        OBVIOUS
    <2>1. blocks[h] \in ChoicesOf(DOMAIN blocks[h].votes)
        BY <1>1 DEF TypeOK
    <2>2. blocks[h].inflight + 1 \in Int
        BY <2>1 DEF ChoicesOf
    <2>3. QED
        BY <1>2, <2>1, <2>2, InflightType
<1>5. DOMAIN blocks' = kept
    BY <1>2
<1>6. /\ DOMAIN queries' \subseteq Requests
      /\ \A r \in DOMAIN queries' : queries'[r] \in (SUBSET Heights) \ {{}}
      /\ DOMAIN sending' \subseteq Requests
      /\ \A r \in DOMAIN sending' :
            sending'[r].peer \in Peers /\ sending'[r].asked \in SUBSET Heights
    <2>1. CASE UNCHANGED <<queries, sending>>
        BY <1>1, <2>1 DEF TypeOK
    <2>2. CASE /\ asked # {}
               /\ queries' = With(queries, req, asked)
               /\ sending' = With(sending, req, [peer |-> p, asked |-> asked,
                                                 resp |-> EmptyMap])
        <3>1. /\ DOMAIN queries' = DOMAIN queries \cup {req}
              /\ \A r \in DOMAIN queries' :
                    queries'[r] = IF r = req THEN asked ELSE queries[r]
            BY <2>2 DEF With
        <3>2. /\ DOMAIN sending' = DOMAIN sending \cup {req}
              /\ \A r \in DOMAIN sending' :
                    /\ sending'[r].peer = IF r = req THEN p ELSE sending[r].peer
                    /\ sending'[r].asked = IF r = req THEN asked
                                                      ELSE sending[r].asked
            BY <2>2 DEF With
        <3>3. QED
            BY <1>1, <1>3, <2>2, <3>1, <3>2 DEF TypeOK
    <2>3. QED
        BY <1>2, <2>1, <2>2
<1>7. TypeOK'
    BY <1>1, <1>2, <1>4, <1>5, <1>6 DEF TypeOK
<1>8. Quiet
    BY <1>2, <1>4, <1>5 DEF Quiet, EngineInv, ClosedHeights
<1>9. QED
    BY <1>7, <1>8, QuietStep

LEMMA ExpirationStep ==
    ASSUME EngineInv, NEW req, handleRequestExpiration(req)
    PROVE  EngineInv'
<1>1. TypeOK
    BY DEF EngineInv
<1>2. /\ req \in DOMAIN sending
      /\ sending' = Without(sending, {req})
      /\ backoff' = [backoff EXCEPT ![sending[req].peer] = "waiting"]
      /\ UNCHANGED <<callbacks, connected, calls, closed, disagreed>>
    BY DEF handleRequestExpiration
<1>3. /\ DOMAIN queries' \subseteq DOMAIN queries
      /\ \A r \in DOMAIN queries' : queries'[r] = queries[r]
    BY DEF handleRequestExpiration, Without
<1>4. /\ DOMAIN blocks' = DOMAIN blocks
      /\ \A h \in DOMAIN blocks :
            /\ blocks'[h] \in ChoicesOf(DOMAIN blocks[h].votes)
            /\ blocks'[h].votes = blocks[h].votes
    <2>1. \A h \in DOMAIN blocks :
            /\ blocks[h] \in ChoicesOf(DOMAIN blocks[h].votes)
            /\ blocks[h].inflight - 1 \in Int
        BY <1>1 DEF TypeOK, ChoicesOf
    <2>2. CASE req \in DOMAIN queries
        <3>1. blocks' = [h \in DOMAIN blocks |->
                           IF h \in queries[req]
                             THEN [blocks[h] EXCEPT !.inflight = @ - 1]
                             ELSE blocks[h]]
            BY <2>2 DEF handleRequestExpiration
        <3>2. SUFFICES ASSUME NEW h \in DOMAIN blocks
                       PROVE  /\ blocks'[h] \in ChoicesOf(DOMAIN blocks[h].votes)
                              /\ blocks'[h].votes = blocks[h].votes
            BY <3>1
        <3>3. QED
            BY <2>1, <3>1, InflightType
    <2>3. CASE req \notin DOMAIN queries
        BY <2>1, <2>3 DEF handleRequestExpiration
    <2>4. QED
        BY <2>2, <2>3
<1>5. TypeOK'
    BY <1>1, <1>2, <1>3, <1>4 DEF TypeOK, Without
<1>6. Quiet
    BY <1>2, <1>4 DEF Quiet, EngineInv, ClosedHeights
<1>7. QED
    BY <1>5, <1>6, QuietStep

LEMMA QueryStep ==
    ASSUME EngineInv, NEW req, handleQuery(req)
    PROVE  EngineInv'
<1>1. PICK resp : /\ req \in DOMAIN sending
                  /\ sending' = [sending EXCEPT ![req].resp = resp]
                  /\ UNCHANGED <<blocks, queries, callbacks, backoff, connected,
                                 calls, closed, disagreed>>
    BY DEF handleQuery
<1>2. TypeOK'
    <2>1. /\ DOMAIN sending' = DOMAIN sending
          /\ \A r \in DOMAIN sending :
                sending'[r].peer = sending[r].peer /\ sending'[r].asked = sending[r].asked
        BY <1>1
    <2>2. QED
        BY <1>1, <2>1 DEF EngineInv, TypeOK
<1>3. Quiet
    BY <1>1 DEF Quiet, EngineInv, ClosedHeights
<1>4. QED
    BY <1>2, <1>3, QuietStep

LEMMA NewBlockStep ==
    ASSUME EngineInv, NEW b \in BlockIDs, NEW acceptable \in BOOLEAN,
           handleNewBlock(b, acceptable)
    PROVE  EngineInv'
<1> DEFINE h   == HeightOf[b]
           bc  == IF h \in DOMAIN blocks THEN blocks[h] ELSE NewBlockChoice
           new == ~HasBlock(bc, b)
           S   == DOMAIN bc.votes
           n   == Len(calls) + 1
           call == [block |-> b, got |-> <<>>]
           nbc  == IF new THEN AddNewBlock(bc, b, acceptable) ELSE bc
<1>1. TypeOK
    BY DEF EngineInv
<1>2. /\ h \notin closed
      /\ calls' = Append(calls, call)
      /\ blocks' = With(blocks, h, nbc)
      /\ callbacks' = IF new THEN With(callbacks, b, n) ELSE callbacks
      /\ UNCHANGED <<queries, sending, backoff, connected, closed, disagreed>>
    BY Zenon DEF handleNewBlock
<1>3. h \in Heights
    BY EngineAssumption
<1>4. /\ bc \in ChoicesOf(S)
      /\ \A x \in S : x \in BlockIDs /\ HeightOf[x] = h
    <2>1. CASE h \in DOMAIN blocks
        BY <1>1, <2>1 DEF TypeOK
    <2>2. CASE h \notin DOMAIN blocks
        <3>1. NewBlockChoice \in ChoicesOf({}) /\ DOMAIN NewBlockChoice.votes = {}
            <4>1. NewBitRecord \in BitRecords
                BY VoteAssumption
                   DEF NewBitRecord, BitRecords, ZeroID, NoVotes, Vote, Bits
            <4>2. QED
                BY <4>1 DEF NewBlockChoice, ChoicesOf
        <3>2. QED
            BY <2>2, <3>1
    <2>3. QED
        BY <2>1, <2>2
<1> HIDE DEF bc, h
<1>5. /\ nbc \in ChoicesOf(DOMAIN nbc.votes)
      /\ DOMAIN nbc.votes = S \cup {b}
      /\ HasFinalized(nbc) <=> HasFinalized(bc)
    <2>1. CASE new
        <3>1. nbc \in ChoicesOf(S \cup {b})
            BY <1>4, <2>1, AddNewBlockType
        <3>2. HasFinalized(nbc) <=> HasFinalized(bc)
            BY <1>4, <2>1, AddNewBlockFinalized DEF HasBlock
        <3>3. DOMAIN nbc.votes = S \cup {b}
            BY <3>1 DEF ChoicesOf
        <3>4. QED
            BY <3>1, <3>2, <3>3
    <2>2. CASE ~new
        BY <1>4, <2>2 DEF HasBlock
    <2>3. QED
        BY <2>1, <2>2
<1> HIDE DEF nbc, new
<1>6. /\ DOMAIN blocks' = DOMAIN blocks \cup {h}
      /\ blocks'[h] = nbc
      /\ \A x \in DOMAIN blocks : x # h => blocks'[x] = blocks[x]
    BY <1>2 DEF With
<1>7. /\ calls' \in Seq([block : BlockIDs, got : Seq(Statuses)])
      /\ DOMAIN calls' = DOMAIN calls \cup {n}
      /\ n \notin DOMAIN calls
      /\ calls'[n] = call
      /\ \A i \in DOMAIN calls : calls'[i] = calls[i]
    <2>1. calls \in Seq([block : BlockIDs, got : Seq(Statuses)])
        BY <1>1 DEF TypeOK
    <2>2. call \in [block : BlockIDs, got : Seq(Statuses)]
        OBVIOUS
    <2> HIDE DEF call
    <2>3. QED
        BY <1>2, <2>1, <2>2
<1>8. /\ DOMAIN callbacks \subseteq DOMAIN callbacks'
      /\ DOMAIN callbacks' \subseteq DOMAIN callbacks \cup {b}
      /\ new => b \in DOMAIN callbacks'
      /\ \A x \in DOMAIN callbacks' :
            \/ callbacks'[x] = callbacks[x] /\ x \in DOMAIN callbacks
            \/ callbacks'[x] = n /\ x = b
    <2> HIDE DEF n
    <2>1. CASE new
        BY <1>2, <2>1 DEF With
    <2>2. CASE ~new
        BY <1>2, <2>2
    <2>3. QED
        BY <2>1, <2>2
<1>9. calls'[n].block = b /\ calls'[n].got = <<>> /\ DOMAIN calls'[n].got = {}
    BY <1>7
<1> HIDE DEF call, n
<1>10. TypeOK'
    <2>1. \A x \in DOMAIN blocks' :
              /\ blocks'[x] \in ChoicesOf(DOMAIN blocks'[x].votes)
              /\ \A y \in DOMAIN blocks'[x].votes :
                    y \in BlockIDs /\ HeightOf[y] = x
        BY <1>1, <1>4, <1>5, <1>6 DEF TypeOK, h
    <2>2. DOMAIN blocks' \subseteq Heights
        BY <1>1, <1>3, <1>6 DEF TypeOK
    <2>3. /\ DOMAIN callbacks' \subseteq BlockIDs
          /\ \A x \in DOMAIN callbacks' : callbacks'[x] \in DOMAIN calls'
        BY <1>1, <1>7, <1>8 DEF TypeOK
    <2>4. QED
        BY <1>1, <1>2, <1>7, <2>1, <2>2, <2>3 DEF TypeOK
<1>11. PendingCallbacks'
    BY <1>7, <1>8, <1>9 DEF EngineInv, PendingCallbacks
<1>12. \A i \in DOMAIN calls' : \A s :
          Got(i, s)' => i \in DOMAIN calls /\ Got(i, s)
    BY <1>7, <1>9 DEF Got
<1>13. HeightDecidedOnce'
    BY <1>7, <1>12 DEF EngineInv, HeightDecidedOnce, SameHeight
<1>14. CallbacksSound'
    <2> SUFFICES ASSUME NEW i \in DOMAIN calls'
                 PROVE  /\ Len(calls'[i].got) <= 1
                        /\ Got(i, "Rejected")' =>
                             \E j \in DOMAIN calls' :
                                /\ SameHeight(i, j)'
                                /\ calls'[j].block # calls'[i].block
                                /\ Got(j, "Finalized")'
        BY DEF CallbacksSound
    <2>1. CASE i \in DOMAIN calls
        <3>1. calls'[i] = calls[i] /\ Len(calls[i].got) <= 1
            BY <1>7, <2>1 DEF EngineInv, CallbacksSound
        <3>2. ASSUME Got(i, "Rejected")
              PROVE  \E j \in DOMAIN calls' :
                        /\ SameHeight(i, j)'
                        /\ calls'[j].block # calls'[i].block
                        /\ Got(j, "Finalized")'
            <4>1. PICK j \in DOMAIN calls :
                     /\ SameHeight(i, j) /\ calls[j].block # calls[i].block
                     /\ Got(j, "Finalized")
                BY <2>1, <3>2 DEF EngineInv, CallbacksSound
            <4>2. calls'[j] = calls[j] /\ j \in DOMAIN calls'
                BY <1>7
            <4>3. QED
                BY <3>1, <4>1, <4>2 DEF SameHeight, Got
        <3>3. QED
            BY <1>12, <3>1, <3>2
    <2>2. CASE i = n
        BY <1>7, <1>9, <1>12, <2>2
    <2>3. QED
        BY <1>7, <2>1, <2>2
<1>15. ReportedHeights'
    <2> SUFFICES ASSUME NEW i \in DOMAIN calls', Got(i, "Finalized")'
                 PROVE  \/ HeightOf[calls'[i].block] \in closed'
                        \/ /\ HeightOf[calls'[i].block] \in DOMAIN blocks'
                           /\ HasFinalized(blocks'[HeightOf[calls'[i].block]])
        BY DEF ReportedHeights
    <2>1. i \in DOMAIN calls /\ Got(i, "Finalized") /\ calls'[i] = calls[i]
        BY <1>7, <1>12
    <2> DEFINE g == HeightOf[calls[i].block]
    <2>2. g \in closed \/ (g \in DOMAIN blocks /\ HasFinalized(blocks[g]))
        BY <2>1 DEF EngineInv, ReportedHeights
    <2>3. ASSUME g = h, g \in DOMAIN blocks, HasFinalized(blocks[g])
          PROVE  HasFinalized(nbc)
        <3>1. bc = blocks[g]
            BY <2>3 DEF bc
        <3>2. QED
            BY <1>5, <2>3, <3>1
    <2>4. QED
        BY <1>2, <1>6, <2>1, <2>2, <2>3
<1>16. ClosedHeights'
    BY <1>2, <1>6 DEF EngineInv, ClosedHeights
<1>17. UndecidedHeights'
    <2> SUFFICES ASSUME NEW x \in DOMAIN blocks', ~HasFinalized(blocks'[x])
                 PROVE  DOMAIN blocks'[x].votes \subseteq DOMAIN callbacks'
        BY DEF UndecidedHeights
    <2>1. CASE x # h
        BY <1>6, <1>8, <2>1 DEF EngineInv, UndecidedHeights
    <2>2. CASE x = h
        <3>1. ~HasFinalized(bc)
            BY <1>5, <1>6, <2>2
        <3>2. S \subseteq DOMAIN callbacks
            <4>1. CASE h \in DOMAIN blocks
                BY <3>1, <4>1 DEF EngineInv, UndecidedHeights, bc
            <4>2. CASE h \notin DOMAIN blocks
                BY <4>2 DEF bc, NewBlockChoice
            <4>3. QED
                BY <4>1, <4>2
        <3>3. b \in S \/ b \in DOMAIN callbacks'
            BY <1>8 DEF new, HasBlock
        <3>4. QED
            BY <1>5, <1>6, <1>8, <2>2, <3>2, <3>3
    <2>3. QED
        BY <2>1, <2>2
<1>18. QED
    BY <1>10, <1>11, <1>13, <1>14, <1>15, <1>16, <1>17 DEF EngineInv

\* What RegisterVotes does, in the terms of the invariant: out[h] is the
\* outcome of the vote at each height in live.
Outcome(live, out) ==
    /\ live \subseteq DOMAIN blocks
    /\ \A h \in live :
          /\ out[h].bc \in ChoicesOf(DOMAIN blocks[h].votes)
          /\ DOMAIN out[h].bc.votes = DOMAIN blocks[h].votes
          /\ out[h].finalized \in DOMAIN blocks[h].votes \cup {ZeroID}
          /\ out[h].finalized # ZeroID =>
                ~HasFinalized(blocks[h]) /\ HasFinalized(out[h].bc)
          /\ HasFinalized(blocks[h]) => HasFinalized(out[h].bc)
          /\ out[h].agreed \in BOOLEAN
    /\ DOMAIN out = live
    /\ blocks' = [h \in DOMAIN blocks |->
                    IF h \in live THEN out[h].bc ELSE blocks[h]]
    /\ callbacks' = Without(callbacks, Told(out))
    /\ calls' = [i \in DOMAIN calls |->
          IF \E b \in Told(out) : callbacks[b] = i
            THEN [calls[i] EXCEPT !.got =
                    Append(@, StatusOf(out, calls[i].block))]
            ELSE calls[i]]
    /\ disagreed' \in BOOLEAN

LEMMA RegisterVotesOutcome ==
    ASSUME TypeOK, NEW req \in DOMAIN queries, NEW vote, RegisterVotes(req, vote)
    PROVE  \E live, out : Outcome(live, out)
<1> DEFINE live == queries[req] \cap DOMAIN blocks
           All == [h \in live |-> Registered(blocks[h], vote[h])]
<1>1. PICK out \in [live -> UNION {All[h] : h \in live}] :
          /\ \A h \in live : out[h] \in All[h]
          /\ blocks' = [h \in DOMAIN blocks |->
                          IF h \in live THEN out[h].bc ELSE blocks[h]]
          /\ callbacks' = Without(callbacks, Told(out))
          /\ calls' = [i \in DOMAIN calls |->
                IF \E b \in Told(out) : callbacks[b] = i
                  THEN [calls[i] EXCEPT !.got =
                          Append(@, StatusOf(out, calls[i].block))]
                  ELSE calls[i]]
          /\ disagreed' = (disagreed \/ \E h \in live : ~out[h].agreed)
    BY Zenon DEF RegisterVotes
<1>2. ASSUME NEW h \in live
      PROVE  /\ out[h].bc \in ChoicesOf(DOMAIN blocks[h].votes)
             /\ out[h].finalized \in DOMAIN blocks[h].votes \cup {ZeroID}
             /\ out[h].finalized # ZeroID =>
                   ~HasFinalized(blocks[h]) /\ HasFinalized(out[h].bc)
             /\ HasFinalized(blocks[h]) => HasFinalized(out[h].bc)
             /\ out[h].agreed \in BOOLEAN
    <2>1. out[h] \in Registered(blocks[h], vote[h])
        BY <1>1
    <2>2. /\ blocks[h] \in ChoicesOf(DOMAIN blocks[h].votes)
          /\ DOMAIN blocks[h].votes \in SUBSET BlockIDs
        BY DEF TypeOK
    <2>3. QED
        BY <2>1, <2>2, RegisteredType
<1>3. \A h \in live : DOMAIN out[h].bc.votes = DOMAIN blocks[h].votes
    BY <1>2 DEF ChoicesOf
<1>4. disagreed' \in BOOLEAN
    BY <1>1
<1> HIDE DEF All
<1>5. Outcome(live, out)
    BY <1>1, <1>2, <1>3, <1>4, Zenon DEF Outcome
<1> HIDE DEF live
<1>6. QED
    BY <1>5

LEMMA OutcomeStep ==
    ASSUME EngineInv, NEW live, NEW out, Outcome(live, out),
           DOMAIN queries' \subseteq DOMAIN queries,
           \A r \in DOMAIN queries' : queries'[r] = queries[r],
           DOMAIN sending' \subseteq DOMAIN sending,
           \A r \in DOMAIN sending' : sending'[r] = sending[r],
           backoff' \in [Peers -> {"none", "waiting", "elapsed"}],
           UNCHANGED <<connected, closed>>
    PROVE  EngineInv'
<1> DEFINE notified(i) == \E b \in Told(out) : callbacks[b] = i
           height(i) == HeightOf[calls[i].block]
<1>1. TypeOK /\ calls \in Seq([block : BlockIDs, got : Seq(Statuses)])
    BY DEF EngineInv, TypeOK
<1>2. /\ DOMAIN calls' = DOMAIN calls
      /\ \A i \in DOMAIN calls : calls'[i].block = calls[i].block
      /\ \A i \in DOMAIN calls : ~notified(i) => calls'[i] = calls[i]
    <2>1. \A i \in DOMAIN calls : calls[i] \in [block : BlockIDs, got : Seq(Statuses)]
        BY <1>1, SeqElement
    <2>2. QED
        BY <2>1 DEF Outcome
\* a notified call is the call of a block at a height that finalizes now
<1>3. ASSUME NEW i \in DOMAIN calls, notified(i)
      PROVE  /\ height(i) \in live
             /\ out[height(i)].finalized # ZeroID
             /\ calls[i].got = <<>>
             /\ calls'[i].got = <<StatusOf(out, calls[i].block)>>
             /\ calls[i].block \in Told(out)
             /\ callbacks[calls[i].block] = i
    <2>1. PICK b \in Told(out) : callbacks[b] = i
        BY <1>3
    <2>2. b \in DOMAIN callbacks /\ calls[i].block = b /\ calls[i].got = <<>>
        BY <2>1 DEF Told, EngineInv, PendingCallbacks
    <2>3. PICK h \in live : out[h].finalized # ZeroID /\ b \in DOMAIN blocks[h].votes
        BY <2>1 DEF Told, Outcome
    <2>4. HeightOf[b] = h
        BY <1>1, <2>3 DEF TypeOK, Outcome
    <2>5. calls'[i].got = Append(calls[i].got, StatusOf(out, calls[i].block))
        <3>1. calls[i] \in [block : BlockIDs, got : Seq(Statuses)]
            BY <1>1, SeqElement
        <3>2. calls'[i] = [calls[i] EXCEPT !.got =
                              Append(@, StatusOf(out, calls[i].block))]
            BY <1>3 DEF Outcome
        <3>3. QED
            BY <3>1, <3>2
    <2>6. calls'[i].got = <<StatusOf(out, calls[i].block)>>
        BY <2>2, <2>5
    <2>7. QED
        BY <2>1, <2>2, <2>3, <2>4, <2>6
<1> HIDE DEF notified
<1>4. ASSUME NEW i \in DOMAIN calls, notified(i), NEW s
      PROVE  Got(i, s)' <=> StatusOf(out, calls[i].block) = s
    BY <1>3, <1>4 DEF Got
<1>5. ASSUME NEW i \in DOMAIN calls, ~notified(i), NEW s
      PROVE  Got(i, s)' <=> Got(i, s)
    BY <1>2, <1>5 DEF Got
\* nothing was reported before at a height that finalizes now
<1>6. ASSUME NEW i \in DOMAIN calls, height(i) \in live,
             out[height(i)].finalized # ZeroID
      PROVE  ~Got(i, "Finalized")
    <2>1. ~HasFinalized(blocks[height(i)]) /\ height(i) \in DOMAIN blocks
        BY <1>6 DEF Outcome
    <2>2. height(i) \notin closed
        BY <2>1 DEF EngineInv, ClosedHeights
    <2>3. QED
        BY <2>1, <2>2 DEF EngineInv, ReportedHeights
\* the block that finalizes is told so
<1>7. ASSUME NEW h \in live, out[h].finalized # ZeroID
      PROVE  \E j \in DOMAIN calls :
                /\ calls[j].block = out[h].finalized
                /\ height(j) = h
                /\ Got(j, "Finalized")'
    <2> DEFINE f == out[h].finalized
    <2>1. f \in DOMAIN blocks[h].votes /\ ~HasFinalized(blocks[h]) /\ h \in DOMAIN blocks
        BY <1>7 DEF Outcome
    <2>2. f \in DOMAIN callbacks
        BY <2>1 DEF EngineInv, UndecidedHeights
    <2>3. f \in Told(out)
        BY <1>7, <2>1, <2>2 DEF Told, Outcome
    <2>4. HeightOf[f] = h
        BY <1>1, <2>1 DEF TypeOK
    <2>5. PICK j \in DOMAIN calls : callbacks[f] = j /\ calls[j].block = f
        BY <2>2 DEF EngineInv, PendingCallbacks
    <2>6. notified(j)
        BY <2>3, <2>5 DEF notified
    <2>7. StatusOf(out, calls[j].block) = "Finalized"
        BY <2>4, <2>5 DEF StatusOf
    <2>8. Got(j, "Finalized")'
        BY <1>4, <2>6, <2>7
    <2>9. QED
        BY <2>4, <2>5, <2>8
<1>8. \A x, y \in DOMAIN calls : SameHeight(x, y)' <=> SameHeight(x, y)
    BY <1>2 DEF SameHeight
<1>9. HeightDecidedOnce'
    <2> SUFFICES ASSUME NEW i \in DOMAIN calls, NEW j \in DOMAIN calls,
                        Got(i, "Finalized")', Got(j, "Finalized")',
                        SameHeight(i, j)
                 PROVE  i = j
        BY <1>2, <1>8 DEF HeightDecidedOnce
    <2>1. height(i) = height(j)
        BY DEF SameHeight
    <2>2. CASE notified(i) /\ notified(j)
        <3>1. StatusOf(out, calls[i].block) = "Finalized"
              /\ StatusOf(out, calls[j].block) = "Finalized"
            BY <1>4, <2>2
        <3>2. calls[i].block = calls[j].block
            BY <2>1, <3>1 DEF StatusOf
        <3>3. QED
            BY <1>3, <2>2, <3>2
    <2>3. CASE notified(i) /\ ~notified(j)
        BY <1>3, <1>5, <1>6, <2>1, <2>3
    <2>4. CASE ~notified(i) /\ notified(j)
        BY <1>3, <1>5, <1>6, <2>1, <2>4
    <2>5. CASE ~notified(i) /\ ~notified(j)
        BY <1>5, <2>5 DEF EngineInv, HeightDecidedOnce
    <2>6. QED
        BY <2>2, <2>3, <2>4, <2>5
<1>10. CallbacksSound'
    <2> SUFFICES ASSUME NEW i \in DOMAIN calls
                 PROVE  /\ Len(calls'[i].got) <= 1
                        /\ Got(i, "Rejected")' =>
                             \E j \in DOMAIN calls :
                                /\ SameHeight(i, j)
                                /\ calls[j].block # calls[i].block
                                /\ Got(j, "Finalized")'
        BY <1>2, <1>8 DEF CallbacksSound
    <2>1. CASE notified(i)
        <3>1. Len(calls'[i].got) <= 1
            <4>1. calls'[i].got = <<StatusOf(out, calls[i].block)>>
                BY <1>3, <2>1
            <4>2. Len(<<StatusOf(out, calls[i].block)>>) = 1
                BY Singleton
            <4> HIDE DEF notified
            <4>3. Len(calls'[i].got) = 1
                BY <4>1, <4>2, Zenon
            <4>4. QED
                BY <4>3
        <3>2. ASSUME Got(i, "Rejected")'
              PROVE  \E j \in DOMAIN calls :
                        /\ SameHeight(i, j)
                        /\ calls[j].block # calls[i].block
                        /\ Got(j, "Finalized")'
            <4> DEFINE f == out[height(i)].finalized
            <4>1. StatusOf(out, calls[i].block) = "Rejected"
                BY <1>4, <2>1, <3>2
            <4>2. f # calls[i].block
                BY <4>1 DEF StatusOf
            <4>3. height(i) \in live /\ f # ZeroID
                BY <1>3, <2>1
            <4>4. PICK j \in DOMAIN calls : /\ calls[j].block = f
                                            /\ height(j) = height(i)
                                            /\ Got(j, "Finalized")'
                BY <1>7, <4>3
            <4>5. SameHeight(i, j)
                BY <4>4 DEF SameHeight
            <4>6. QED
                BY <4>2, <4>4, <4>5
        <3>3. QED
            BY <3>1, <3>2
    <2>2. CASE ~notified(i)
        <3>1. calls'[i] = calls[i] /\ Len(calls[i].got) <= 1
            BY <1>2, <2>2 DEF EngineInv, CallbacksSound
        <3>2. ASSUME Got(i, "Rejected")'
              PROVE  \E j \in DOMAIN calls :
                        /\ SameHeight(i, j)
                        /\ calls[j].block # calls[i].block
                        /\ Got(j, "Finalized")'
            <4>1. PICK j \in DOMAIN calls :
                     /\ SameHeight(i, j) /\ calls[j].block # calls[i].block
                     /\ Got(j, "Finalized")
                BY <1>5, <2>2, <3>2 DEF EngineInv, CallbacksSound
            <4>2. ~notified(j)
                BY <1>3, <1>6, <4>1
            <4>3. QED
                BY <1>5, <4>1, <4>2
        <3>3. QED
            BY <3>1, <3>2
    <2>3. QED
        BY <2>1, <2>2
<1>11. PendingCallbacks'
    <2> SUFFICES ASSUME NEW b \in DOMAIN callbacks'
                 PROVE  /\ callbacks'[b] \in DOMAIN calls
                        /\ calls'[callbacks'[b]].block = b
                        /\ calls'[callbacks'[b]].got = <<>>
        BY <1>2 DEF PendingCallbacks
    <2>1. b \in DOMAIN callbacks /\ b \notin Told(out) /\ callbacks'[b] = callbacks[b]
        BY DEF Outcome, Without
    <2>2. /\ callbacks[b] \in DOMAIN calls
          /\ calls[callbacks[b]].block = b
          /\ calls[callbacks[b]].got = <<>>
        BY <2>1 DEF EngineInv, PendingCallbacks
    <2>3. ~notified(callbacks[b])
        BY <1>3, <2>1, <2>2
    <2>4. QED
        BY <1>2, <2>1, <2>2, <2>3
<1>12. /\ DOMAIN blocks' = DOMAIN blocks
       /\ \A h \in live : blocks'[h] = out[h].bc
       /\ \A h \in DOMAIN blocks \ live : blocks'[h] = blocks[h]
       /\ \A h \in DOMAIN blocks : DOMAIN blocks'[h].votes = DOMAIN blocks[h].votes
    BY DEF Outcome
<1>13. \A h \in DOMAIN blocks : HasFinalized(blocks[h]) => HasFinalized(blocks'[h])
    BY <1>12 DEF Outcome
<1>14. ReportedHeights'
    <2> SUFFICES ASSUME NEW i \in DOMAIN calls, Got(i, "Finalized")'
                 PROVE  \/ height(i) \in closed
                        \/ /\ height(i) \in DOMAIN blocks
                           /\ HasFinalized(blocks'[height(i)])
        BY <1>2, <1>12 DEF ReportedHeights
    <2>1. CASE notified(i)
        BY <1>3, <1>12, <2>1 DEF Outcome
    <2>2. CASE ~notified(i)
        BY <1>5, <1>13, <2>2 DEF EngineInv, ReportedHeights
    <2>3. QED
        BY <2>1, <2>2
<1>15. ClosedHeights'
    BY <1>12 DEF EngineInv, ClosedHeights
<1>16. UndecidedHeights'
    <2> SUFFICES ASSUME NEW h \in DOMAIN blocks, ~HasFinalized(blocks'[h]),
                        NEW b \in DOMAIN blocks[h].votes
                 PROVE  b \in DOMAIN callbacks'
        BY <1>12 DEF UndecidedHeights
    <2>1. b \in DOMAIN callbacks
        BY <1>13 DEF EngineInv, UndecidedHeights
    <2>2. HeightOf[b] = h
        BY <1>1 DEF TypeOK
    <2>3. ASSUME b \in Told(out) PROVE FALSE
        <3>1. PICK g \in live : out[g].finalized # ZeroID /\ b \in DOMAIN blocks[g].votes
            BY <2>3 DEF Told, Outcome
        <3>2. g = h
            BY <1>1, <2>2, <3>1 DEF TypeOK, Outcome
        <3>3. QED
            BY <1>12, <3>1, <3>2 DEF Outcome
    <2>4. QED
        BY <2>1, <2>3 DEF Outcome, Without
<1>17. TypeOK'
    <2>1. calls' \in Seq([block : BlockIDs, got : Seq(Statuses)])
        <3>1. ASSUME NEW i \in DOMAIN calls
              PROVE  calls'[i] \in [block : BlockIDs, got : Seq(Statuses)]
            <4>1. calls[i] \in [block : BlockIDs, got : Seq(Statuses)]
                BY <1>1, SeqElement
            <4>2. StatusOf(out, calls[i].block) \in Statuses
                BY DEF StatusOf, Statuses
            <4>3. [calls[i] EXCEPT !.got =
                      Append(@, StatusOf(out, calls[i].block))]
                      \in [block : BlockIDs, got : Seq(Statuses)]
                BY <4>1, <4>2
            <4>4. QED
                BY <4>1, <4>3 DEF Outcome
        <3>2. calls' = [i \in DOMAIN calls |-> calls'[i]]
            BY DEF Outcome
        <3>3. QED
            BY <1>1, <3>1, <3>2, SeqSameLength
    <2>2. \A h \in DOMAIN blocks' :
              /\ blocks'[h] \in ChoicesOf(DOMAIN blocks'[h].votes)
              /\ \A b \in DOMAIN blocks'[h].votes : b \in BlockIDs /\ HeightOf[b] = h
        BY <1>1, <1>12 DEF TypeOK, Outcome
    <2>3. /\ DOMAIN callbacks' \subseteq BlockIDs
          /\ \A b \in DOMAIN callbacks' : callbacks'[b] \in DOMAIN calls'
        BY <1>1, <1>2 DEF TypeOK, Outcome, Without
    <2>4. disagreed' \in BOOLEAN
        BY DEF Outcome
    <2>5. QED
        BY <1>1, <1>12, <2>1, <2>2, <2>3, <2>4 DEF TypeOK
<1>18. QED
    BY <1>9, <1>10, <1>11, <1>14, <1>15, <1>16, <1>17 DEF EngineInv

LEMMA RegisterStep ==
    ASSUME EngineInv, NEW req, NEW vote, NEW fault,
           handleRegisterVotes(req, vote, fault)
    PROVE  EngineInv'
<1>1. TypeOK
    BY DEF EngineInv
<1>2. /\ DOMAIN sending' \subseteq DOMAIN sending
      /\ \A r \in DOMAIN sending' : sending'[r] = sending[r]
      /\ backoff' \in [Peers -> {"none", "waiting", "elapsed"}]
      /\ UNCHANGED <<connected, closed>>
    BY <1>1 DEF handleRegisterVotes, Without, TypeOK
<1>3. /\ DOMAIN queries' \subseteq DOMAIN queries
      /\ \A r \in DOMAIN queries' : queries'[r] = queries[r]
    BY DEF handleRegisterVotes, Without
<1>4. CASE UNCHANGED <<blocks, callbacks, calls, disagreed>>
    <2>1. TypeOK'
        BY <1>1, <1>2, <1>3, <1>4 DEF TypeOK
    <2>2. Quiet
        BY <1>2, <1>4 DEF Quiet, EngineInv, ClosedHeights
    <2>3. QED
        BY <2>1, <2>2, QuietStep
<1>5. CASE req \in DOMAIN queries /\ RegisterVotes(req, vote)
    <2>1. PICK live, out : Outcome(live, out)
        BY <1>1, <1>5, RegisterVotesOutcome
    <2>2. QED
        BY <1>2, <1>3, <2>1, OutcomeStep
<1>6. QED
    BY <1>4, <1>5, Zenon DEF handleRegisterVotes

\* The inductive invariant holds in every reachable state of the engine.
THEOREM EngineInvariant == Spec => []EngineInv
<1>1. EngineInv /\ [Next]_vars => EngineInv'
    <2> SUFFICES ASSUME EngineInv, [Next]_vars PROVE EngineInv'
        OBVIOUS
    <2>1. CASE NewBlock
        BY <2>1, NewBlockStep DEF NewBlock
    <2>2. CASE Poll
        BY <2>2, PollStep DEF Poll
    <2>3. ASSUME NEW req \in DOMAIN sending, Answer(req) PROVE EngineInv'
        BY <2>3, QueryStep, ExpirationStep, RegisterStep DEF Answer
    <2>4. ASSUME NEW p \in Peers, BackoffElapsed(p) PROVE EngineInv'
        <3>1. TypeOK'
            BY <2>4 DEF BackoffElapsed, EngineInv, TypeOK
        <3>2. Quiet
            BY <2>4 DEF BackoffElapsed, Quiet, EngineInv, ClosedHeights
        <3>3. QED
            BY <3>1, <3>2, QuietStep
    <2>5. CASE StakeConnection
        <3>1. TypeOK'
            BY <2>5 DEF StakeConnection, EngineInv, TypeOK
        <3>2. Quiet
            BY <2>5 DEF StakeConnection, Quiet, EngineInv, ClosedHeights
        <3>3. QED
            BY <3>1, <3>2, QuietStep
    <2>6. CASE UNCHANGED vars
        <3>1. TypeOK'
            BY <2>6 DEF vars, EngineInv, TypeOK
        <3>2. Quiet
            BY <2>6 DEF vars, Quiet, EngineInv, ClosedHeights
        <3>3. QED
            BY <3>1, <3>2, QuietStep
    <2>7. QED
        BY <2>1, <2>2, <2>3, <2>4, <2>5, <2>6 DEF Next
<1>2. QED
    BY <1>1, EngineInvInit, PTL DEF Spec

\* Every state of the engine is well typed.
THEOREM EngineTypeCorrect == Spec => []TypeOK
<1>1. EngineInv => TypeOK
    BY DEF EngineInv
<1>2. QED
    BY <1>1, EngineInvariant, PTL

\* At most one block of a height is ever reported as finalized: no sequence of
\* votes, faults, deletions and new blocks makes handleRegisterVotes report two.
THEOREM HeightDecidedOnceHolds == Spec => []HeightDecidedOnce
<1>1. EngineInv => HeightDecidedOnce
    BY DEF EngineInv
<1>2. QED
    BY <1>1, EngineInvariant, PTL

\* A callback hears one status, and "Rejected" only when a competing block of
\* its height was reported as finalized.
THEOREM CallbacksSoundHolds == Spec => []CallbacksSound
<1>1. EngineInv => CallbacksSound
    BY DEF EngineInv
<1>2. QED
    BY <1>1, EngineInvariant, PTL

-----------------------------------------------------------------------------
(* The inflight counters.                                                  *)

\* A finite set of numbers has a greatest element: a smallest set without one
\* would have another that is smaller.
LEMMA FiniteMax ==
    ASSUME NEW S \in SUBSET Nat, S # {}, IsFiniteSet(S)
    PROVE  \E x \in S : \A y \in S : y <= x
<1> DEFINE Top(X) == \E x \in X : \A y \in X : y <= x
           R == {ss \in Nat \X Nat : ss[1] < ss[2]}
           T == {n \in Nat : \E X \in SUBSET Nat : /\ X # {} /\ IsFiniteSet(X)
                                                   /\ Cardinality(X) = n /\ ~Top(X)}
<1>1. IsWellFoundedOn(R, Nat)
    BY NatLessThanWellFounded, Zenon DEF OpToRel
<1>2. SUFFICES T = {}
    <2>1. Cardinality(S) \in Nat
        BY FS_CardinalityType
    <2>2. QED
        BY <1>2, <2>1
<1>3. SUFFICES ASSUME T # {} PROVE FALSE
    OBVIOUS
<1>4. PICK n \in T : \A m \in T : <<m, n>> \notin R
    <2>1. T \subseteq Nat
        OBVIOUS
    <2> HIDE DEF T, R
    <2>2. QED
        BY <1>1, <1>3, <2>1, WFMin
<1>5. \A m \in T : ~(m < n)
    BY <1>4
<1>6. PICK X \in SUBSET Nat : /\ X # {} /\ IsFiniteSet(X)
                              /\ Cardinality(X) = n /\ ~Top(X)
    BY <1>4
<1>7. PICK x \in X : TRUE
    BY <1>6
<1>8. IsFiniteSet(X \ {x}) /\ Cardinality(X \ {x}) = n - 1 /\ n \in Nat
    BY <1>6, <1>7, FS_RemoveElement
<1>9. Cardinality(X \ {x}) \in Nat
    BY <1>8, FS_CardinalityType
<1>10. X \ {x} # {}
    BY <1>6, <1>7
<1>11. Top(X \ {x})
    <2>1. n - 1 \notin T
        BY <1>5, <1>8, <1>9
    <2> HIDE DEF Top
    <2>2. QED
        BY <2>1, <1>8, <1>9, <1>10
<1>12. PICK y \in X \ {x} : \A z \in X \ {x} : z <= y
    BY <1>11
<1>13. QED
    <2>1. \A z \in X : z <= (IF x <= y THEN y ELSE x)
        BY <1>7, <1>12
    <2>2. QED
        BY <2>1, <1>6, <1>7, <1>12

\* No more votes than AvalancheMaxInflightPoll are ever needed.
LEMMA VotesNeededBound ==
    ASSUME NEW S, NEW bc \in ChoicesOf(S), IsFiniteSet(S)
    PROVE  VotesNeededToFinalize(bc) \in Int /\ VotesNeededToFinalize(bc) <= MaxInflightPoll
<1> DEFINE confs == {0} \cup {bc.votes[b].conf : b \in DOMAIN bc.votes}
           image == {bc.votes[b].conf : b \in S}
           f == [b \in S |-> bc.votes[b].conf]
<1>1. DOMAIN bc.votes = S /\ \A b \in S : bc.votes[b].conf \in Nat
    BY DEF ChoicesOf, BlockRecords
<1>2. f \in Surjection(S, image)
    BY Zenon DEF Surjection
<1>3. IsFiniteSet(image)
    <2> HIDE DEF f, image
    <2>1. QED BY <1>2, FS_Surjection
<1>4. confs = image \cup {0} /\ confs \in SUBSET Nat /\ 0 \in confs
    BY <1>1
<1>5. IsFiniteSet(confs)
    <2> HIDE DEF confs, image
    <2>1. QED BY <1>3, <1>4, FS_AddElement
<1> HIDE DEF confs
<1>6. PICK ahead : ahead = CHOOSE c \in confs : \A d \in confs : d <= c
    OBVIOUS
<1>7. ahead \in confs /\ \A d \in confs : d <= ahead
    BY <1>4, <1>5, <1>6, FiniteMax
<1>8. VotesNeededToFinalize(bc) = MaxInflightPoll - ahead
    BY <1>6 DEF VotesNeededToFinalize, confs
<1>9. QED
    BY <1>4, <1>7, <1>8, VoteAssumption DEF MaxInflightPoll

\* A vote leaves the counter alone.
LEMMA RecordVoteInflight ==
    ASSUME NEW S, NEW bc \in ChoicesOf(S), NEW voteID, NEW o \in RecordVote(bc, voteID)
    PROVE  o.bc.inflight = bc.inflight
<1> DEFINE b == RecordBitVote(bc.bit, voteID)
           Outcomes(r) == CASE b.result = "Finalized" ->
                                 AfterBitFinalized(r.votes, b.bit)
                            [] b.result = "Flipped" ->
                                 AfterBitFlipped(r.votes, b.bit)
                            [] OTHER -> AfterNoChange(r.votes, b.bit)
           Decided(r) == {[bc |-> [bc EXCEPT !.votes = r.votes],
                           finalized |-> r.finalized, agreed |-> TRUE]}
           Undecided(r) ==
               {[bc |-> [bc EXCEPT !.votes = u.votes, !.bit = u.bit],
                 finalized |-> ZeroID, agreed |-> u.agreed] : u \in Outcomes(r)}
<1>1. o \in UNION {IF r.finalized # ZeroID THEN Decided(r) ELSE Undecided(r) :
                     r \in VotesRecorded(bc.votes, voteID)}
    BY Zenon DEF RecordVote
<1>2. PICK r \in VotesRecorded(bc.votes, voteID) :
          o \in IF r.finalized # ZeroID THEN Decided(r) ELSE Undecided(r)
    <2> HIDE DEF Decided, Undecided
    <2>1. QED BY <1>1
<1> HIDE DEF Outcomes
<1>3. CASE r.finalized # ZeroID
    <2>1. o.bc = [bc EXCEPT !.votes = r.votes]
        BY <1>2, <1>3
    <2>2. QED
        BY <2>1 DEF ChoicesOf
<1>4. CASE r.finalized = ZeroID
    <2>1. o \in Undecided(r)
        BY <1>2, <1>4
    <2>2. PICK u \in Outcomes(r) :
              o = [bc |-> [bc EXCEPT !.votes = u.votes, !.bit = u.bit],
                   finalized |-> ZeroID, agreed |-> u.agreed]
        BY <2>1, Zenon
    <2>3. o.bc = [bc EXCEPT !.votes = u.votes, !.bit = u.bit]
        BY <2>2
    <2>4. QED
        BY <2>3 DEF ChoicesOf
<1>5. QED
    BY <1>3, <1>4

LEMMA RegisteredInflight ==
    ASSUME NEW S, NEW bc \in ChoicesOf(S), NEW v, NEW o \in Registered(bc, v)
    PROVE  o.bc.inflight = bc.inflight - 1
<1>1. PICK answered : answered = [bc EXCEPT !.inflight = @ - 1]
    OBVIOUS
<1>2. answered \in ChoicesOf(S) /\ answered.inflight = bc.inflight - 1
    BY <1>1 DEF ChoicesOf
<1>3. \/ o = [bc |-> answered, finalized |-> ZeroID, agreed |-> TRUE]
      \/ o \in RecordVote(answered, IF HasBlock(bc, v) THEN v ELSE ZeroID)
    BY <1>1 DEF Registered
<1>4. QED
    BY <1>2, <1>3, RecordVoteInflight

\* What InflightExact needs to be inductive: a query is about heights that the
\* engine has.
InflightInv ==
    /\ InflightExact
    /\ \A r \in DOMAIN queries : queries[r] \subseteq DOMAIN blocks
    /\ \A h \in DOMAIN blocks : IsFiniteSet(DOMAIN blocks[h].votes)

\* Every query comes to an answer that counts, and no height is given up.
Answered == Faults \cap {"late", "badcount", "delete"} = {}

LEMMA OutstandingIs ==
    ASSUME TypeOK, NEW h
    PROVE  IsFiniteSet(Outstanding(h)) /\ Cardinality(Outstanding(h)) \in Nat
<1>1. Outstanding(h) \in SUBSET Requests
    BY DEF TypeOK, Outstanding
<1>2. QED
    BY <1>1, FS_Subset, FS_CardinalityType, EngineAssumption

\* A step that changes no query and no counter.
LEMMA UncountedStep ==
    ASSUME InflightInv, UNCHANGED queries, DOMAIN blocks' = DOMAIN blocks,
           \A h \in DOMAIN blocks : /\ blocks'[h].inflight = blocks[h].inflight
                                    /\ DOMAIN blocks'[h].votes = DOMAIN blocks[h].votes
    PROVE  InflightInv'
<1>1. \A h : Outstanding(h)' = Outstanding(h)
    BY DEF Outstanding
<1>2. QED
    BY <1>1 DEF InflightInv, InflightExact

\* A query is forgotten, and its heights have one less in flight.
LEMMA AnsweredStep ==
    ASSUME TypeOK, InflightInv, NEW req \in DOMAIN queries, queries' = Without(queries, {req}),
           DOMAIN blocks' = DOMAIN blocks,
           \A h \in DOMAIN blocks :
              /\ blocks'[h].inflight = IF h \in queries[req] THEN blocks[h].inflight - 1
                                                             ELSE blocks[h].inflight
              /\ DOMAIN blocks'[h].votes = DOMAIN blocks[h].votes
    PROVE  InflightInv'
<1>1. /\ DOMAIN queries' = DOMAIN queries \ {req}
      /\ \A r \in DOMAIN queries' : queries'[r] = queries[r]
    BY DEF Without
<1>2. \A r \in DOMAIN queries' : queries'[r] \subseteq DOMAIN blocks'
    BY <1>1 DEF InflightInv
<1>3. ASSUME NEW h \in DOMAIN blocks
      PROVE  /\ blocks'[h].inflight = Cardinality(Outstanding(h)')
             /\ blocks'[h].inflight <= MaxInflightPoll
    <2>1. Outstanding(h)' = Outstanding(h) \ {req}
        BY <1>1 DEF Outstanding
    <2>2. req \in Outstanding(h) <=> h \in queries[req]
        BY DEF Outstanding
    <2>3. IsFiniteSet(Outstanding(h)) /\ Cardinality(Outstanding(h)) \in Nat
        BY OutstandingIs
    <2>4. Cardinality(Outstanding(h)') = IF h \in queries[req]
                                           THEN Cardinality(Outstanding(h)) - 1
                                           ELSE Cardinality(Outstanding(h))
        BY <2>1, <2>2, <2>3, FS_RemoveElement
    <2>5. /\ blocks[h].inflight = Cardinality(Outstanding(h))
          /\ blocks[h].inflight <= MaxInflightPoll
        BY DEF InflightInv, InflightExact
    <2>6. QED
        BY <2>3, <2>4, <2>5, VoteAssumption DEF MaxInflightPoll
<1>4. QED
    BY <1>2, <1>3 DEF InflightInv, InflightExact

LEMMA PollCounts ==
    ASSUME EngineInv, InflightInv, Answered, NEW p \in Peers, NEW req \in Requests,
           NEW old \in SUBSET Heights, pollLoop(p, req, old)
    PROVE  InflightInv'
<1> DEFINE asked == {h \in DOMAIN blocks :
                       /\ ~HasFinalized(blocks[h])
                       /\ blocks[h].inflight + 1 <=
                            VotesNeededToFinalize(blocks[h])}
<1>1. TypeOK
    BY DEF EngineInv
<1>2. old = {} /\ req \notin DOMAIN queries
    BY DEF pollLoop, Answered
<1>3. DOMAIN blocks \ old = DOMAIN blocks
    BY <1>2
<1>4. /\ blocks' = [h \in DOMAIN blocks |->
                      IF h \in asked
                        THEN [blocks[h] EXCEPT !.inflight = @ + 1]
                        ELSE blocks[h]]
      /\ \/ asked = {} /\ UNCHANGED queries
         \/ queries' = With(queries, req, asked)
    BY <1>3, Zenon DEF pollLoop
<1>5. \A h \in asked : blocks[h].inflight + 1 <= VotesNeededToFinalize(blocks[h])
    OBVIOUS
<1>6. asked \subseteq DOMAIN blocks
    OBVIOUS
<1> HIDE DEF asked
<1>7. \A h \in DOMAIN blocks :
          /\ blocks[h] \in ChoicesOf(DOMAIN blocks[h].votes)
          /\ blocks[h].inflight \in Int
          /\ blocks'[h].inflight = IF h \in asked THEN blocks[h].inflight + 1
                                                  ELSE blocks[h].inflight
          /\ blocks'[h].votes = blocks[h].votes
    BY <1>1, <1>4 DEF TypeOK, ChoicesOf
<1>8. CASE asked = {} /\ UNCHANGED queries
    BY <1>4, <1>7, <1>8, UncountedStep
<1>9. CASE queries' = With(queries, req, asked)
    <2>1. /\ DOMAIN queries' = DOMAIN queries \cup {req}
          /\ \A r \in DOMAIN queries' :
                queries'[r] = IF r = req THEN asked ELSE queries[r]
        BY <1>9 DEF With
    <2>2. \A r \in DOMAIN queries' : queries'[r] \subseteq DOMAIN blocks'
        BY <2>1, <1>4, <1>6 DEF InflightInv
    <2>3. ASSUME NEW h \in DOMAIN blocks
          PROVE  /\ blocks'[h].inflight = Cardinality(Outstanding(h)')
                 /\ blocks'[h].inflight <= MaxInflightPoll
        <3>1. IsFiniteSet(Outstanding(h)) /\ Cardinality(Outstanding(h)) \in Nat
            BY <1>1, OutstandingIs
        <3>2. /\ blocks[h].inflight = Cardinality(Outstanding(h))
              /\ blocks[h].inflight <= MaxInflightPoll
            BY DEF InflightInv, InflightExact
        <3>3. req \notin Outstanding(h)
            BY <1>2 DEF Outstanding
        <3>4. CASE h \in asked
            <4>1. Outstanding(h)' = Outstanding(h) \cup {req}
                BY <1>2, <2>1, <3>4 DEF Outstanding
            <4>2. Cardinality(Outstanding(h)') = Cardinality(Outstanding(h)) + 1
                BY <3>1, <3>3, <4>1, FS_AddElement
            <4>3. IsFiniteSet(DOMAIN blocks[h].votes)
                BY DEF InflightInv
            <4>4. /\ VotesNeededToFinalize(blocks[h]) \in Int
                  /\ VotesNeededToFinalize(blocks[h]) <= MaxInflightPoll
                BY <4>3, <1>7, VotesNeededBound
            <4>5. blocks[h].inflight + 1 <= MaxInflightPoll
                BY <4>4, <1>5, <1>7, <3>4, VoteAssumption DEF MaxInflightPoll
            <4>6. QED
                BY <3>2, <3>4, <4>2, <4>5, <1>7
        <3>5. CASE h \notin asked
            <4>1. Outstanding(h)' = Outstanding(h)
                BY <1>2, <2>1, <3>5 DEF Outstanding
            <4>2. QED
                BY <3>2, <3>5, <4>1, <1>7
        <3>6. QED
            BY <3>4, <3>5
    <2>4. \A h \in DOMAIN blocks' : IsFiniteSet(DOMAIN blocks'[h].votes)
        BY <1>4, <1>7 DEF InflightInv
    <2>5. QED
        BY <2>2, <2>3, <2>4, <1>4 DEF InflightInv, InflightExact
<1>10. QED
    BY <1>4, <1>8, <1>9

LEMMA ExpirationCounts ==
    ASSUME EngineInv, InflightInv, NEW req, handleRequestExpiration(req)
    PROVE  InflightInv'
<1>1. TypeOK
    BY DEF EngineInv
<1>2. CASE req \in DOMAIN queries
    <2>1. /\ queries' = Without(queries, {req})
          /\ blocks' = [h \in DOMAIN blocks |->
                          IF h \in queries[req]
                            THEN [blocks[h] EXCEPT !.inflight = @ - 1]
                            ELSE blocks[h]]
        BY <1>2 DEF handleRequestExpiration
    <2>2. \A h \in DOMAIN blocks :
              /\ blocks'[h].inflight = IF h \in queries[req] THEN blocks[h].inflight - 1
                                                             ELSE blocks[h].inflight
              /\ DOMAIN blocks'[h].votes = DOMAIN blocks[h].votes
        BY <1>1, <2>1 DEF TypeOK, ChoicesOf
    <2>3. DOMAIN blocks' = DOMAIN blocks
        BY <2>1
    <2>4. QED
        BY <1>1, <1>2, <2>1, <2>2, <2>3, AnsweredStep
<1>3. CASE req \notin DOMAIN queries
    <2>1. UNCHANGED <<queries, blocks>>
        BY <1>3 DEF handleRequestExpiration
    <2>2. QED
        BY <2>1, UncountedStep
<1>4. QED
    BY <1>2, <1>3

LEMMA RegisterCounts ==
    ASSUME EngineInv, InflightInv, Answered, NEW req, NEW vote, NEW fault,
           handleRegisterVotes(req, vote, fault)
    PROVE  InflightInv'
<1>1. TypeOK
    BY DEF EngineInv
<1>2. fault \notin {"late", "badcount"}
    BY DEF handleRegisterVotes, Answered
<1>3. CASE fault = "badid" \/ req \notin DOMAIN queries
    <2>1. UNCHANGED <<queries, blocks>>
        BY <1>3 DEF handleRegisterVotes
    <2>2. QED
        BY <2>1, UncountedStep
<1>4. CASE ~(fault = "badid" \/ req \notin DOMAIN queries)
    <2> DEFINE live == queries[req] \cap DOMAIN blocks
               All == [h \in live |-> Registered(blocks[h], vote[h])]
    <2>1. req \in DOMAIN queries /\ queries' = Without(queries, {req}) /\ RegisterVotes(req, vote)
        BY <1>2, <1>4 DEF handleRegisterVotes
    <2>2. PICK out \in [live -> UNION {All[h] : h \in live}] :
              /\ \A h \in live : out[h] \in All[h]
              /\ blocks' = [h \in DOMAIN blocks |->
                              IF h \in live THEN out[h].bc ELSE blocks[h]]
        BY <2>1, Zenon DEF RegisterVotes
    <2>3. ASSUME NEW h \in DOMAIN blocks
          PROVE  /\ blocks'[h].inflight = IF h \in queries[req] THEN blocks[h].inflight - 1
                                                                ELSE blocks[h].inflight
                 /\ DOMAIN blocks'[h].votes = DOMAIN blocks[h].votes
        <3>1. /\ blocks[h] \in ChoicesOf(DOMAIN blocks[h].votes)
              /\ DOMAIN blocks[h].votes \in SUBSET BlockIDs
            BY <1>1 DEF TypeOK
        <3>2. CASE h \in queries[req]
            <4>1. out[h] \in Registered(blocks[h], vote[h]) /\ blocks'[h] = out[h].bc
                BY <2>2, <3>2
            <4>2. out[h].bc.inflight = blocks[h].inflight - 1
                BY <3>1, <4>1, RegisteredInflight
            <4>3. out[h].bc \in ChoicesOf(DOMAIN blocks[h].votes)
                BY <3>1, <4>1, RegisteredType
            <4>4. DOMAIN out[h].bc.votes = DOMAIN blocks[h].votes
                BY <4>3 DEF ChoicesOf
            <4>5. QED
                BY <3>2, <4>1, <4>2, <4>4
        <3>3. CASE h \notin queries[req]
            BY <2>2, <3>3
        <3>4. QED
            BY <3>2, <3>3
    <2>4. DOMAIN blocks' = DOMAIN blocks
        BY <2>2
    <2>5. QED
        BY <1>1, <2>1, <2>3, <2>4, AnsweredStep
<1>5. QED
    BY <1>3, <1>4

LEMMA NewBlockCounts ==
    ASSUME EngineInv, InflightInv, NEW b \in BlockIDs, NEW acceptable \in BOOLEAN,
           handleNewBlock(b, acceptable)
    PROVE  InflightInv'
<1> DEFINE h == HeightOf[b]
           bc == IF h \in DOMAIN blocks THEN blocks[h] ELSE NewBlockChoice
           after == IF ~HasBlock(bc, b) THEN AddNewBlock(bc, b, acceptable) ELSE bc
<1>1. TypeOK
    BY DEF EngineInv
<1>2. blocks' = With(blocks, h, after) /\ UNCHANGED queries
    BY DEF handleNewBlock
<1>3. \A g : Outstanding(g)' = Outstanding(g)
    BY <1>2 DEF Outstanding
<1>4. /\ bc \in ChoicesOf(DOMAIN bc.votes)
      /\ IsFiniteSet(DOMAIN bc.votes)
      /\ DOMAIN bc.votes \in SUBSET BlockIDs
      /\ bc.inflight = Cardinality(Outstanding(h)) /\ bc.inflight <= MaxInflightPoll
    <2>1. CASE h \in DOMAIN blocks
        BY <2>1, <1>1 DEF TypeOK, InflightInv, InflightExact
    <2>2. CASE h \notin DOMAIN blocks
        <3>1. Outstanding(h) = {}
            BY <2>2 DEF InflightInv, Outstanding
        <3>2. Cardinality(Outstanding(h)) = 0
            BY <3>1, FS_EmptySet
        <3>3. NewBitRecord \in BitRecords
            BY VoteAssumption
               DEF NewBitRecord, BitRecords, ZeroID, NoVotes, Vote, Bits
        <3>4. /\ NewBlockChoice.inflight = 0 /\ DOMAIN NewBlockChoice.votes = {}
              /\ NewBlockChoice \in ChoicesOf({})
            BY <3>3 DEF NewBlockChoice, ChoicesOf
        <3>5. IsFiniteSet({})
            BY FS_EmptySet
        <3>6. bc = NewBlockChoice
            BY <2>2
        <3> HIDE DEF bc, h
        <3>7. bc \in ChoicesOf(DOMAIN bc.votes) /\ DOMAIN bc.votes = {}
            BY <3>4, <3>6
        <3>8. bc.inflight = 0
            BY <3>4, <3>6
        <3>9. 0 <= MaxInflightPoll
            BY VoteAssumption DEF MaxInflightPoll
        <3>10. QED
            BY <3>2, <3>5, <3>7, <3>8, <3>9
    <2>3. QED
        BY <2>1, <2>2
<1> HIDE DEF bc
<1>5. after.inflight = bc.inflight /\ IsFiniteSet(DOMAIN after.votes)
    <2>1. CASE HasBlock(bc, b)
        BY <2>1, <1>4
    <2>2. CASE ~HasBlock(bc, b)
        <3>1. after = AddNewBlock(bc, b, acceptable)
            BY <2>2
        <3>2. AddNewBlock(bc, b, acceptable).inflight = bc.inflight
            BY <1>4 DEF AddNewBlock, ChoicesOf
        <3>3. AddNewBlock(bc, b, acceptable) \in ChoicesOf(DOMAIN bc.votes \cup {b})
            BY <1>4, AddNewBlockType
        <3>4. DOMAIN AddNewBlock(bc, b, acceptable).votes = DOMAIN bc.votes \cup {b}
            BY <3>3 DEF ChoicesOf
        <3>5. IsFiniteSet(DOMAIN bc.votes \cup {b})
            BY <1>4, FS_AddElement
        <3>6. QED
            BY <3>1, <3>2, <3>4, <3>5
    <2>3. QED
        BY <2>1, <2>2
<1> HIDE DEF after, h
<1>6. /\ DOMAIN blocks' = DOMAIN blocks \cup {h}
      /\ \A g \in DOMAIN blocks' : blocks'[g] = IF g = h THEN after ELSE blocks[g]
    BY <1>2 DEF With
<1>7. InflightExact'
    BY <1>3, <1>4, <1>5, <1>6 DEF InflightInv, InflightExact
<1>8. QED
    BY <1>2, <1>5, <1>6, <1>7 DEF InflightInv

\* When every query comes to an answer that counts and no height is given up,
\* the counter of each height is the number of queries that are out for it, and
\* pollLoop never has more than AvalancheMaxInflightPoll of them out.  A late
\* or malformed answer breaks this (ConsensusEngine_leak.cfg).
THEOREM InflightExactHolds == Answered => (Spec => []InflightExact)
<1> SUFFICES ASSUME Answered PROVE Spec => []InflightExact
    OBVIOUS
<1>1. Init => InflightInv
    BY DEF Init, InflightInv, InflightExact, EmptyMap
<1>2. EngineInv /\ InflightInv /\ [Next]_vars => InflightInv'
    <2> SUFFICES ASSUME EngineInv, InflightInv, [Next]_vars PROVE InflightInv'
        OBVIOUS
    <2>1. CASE NewBlock
        BY <2>1, NewBlockCounts DEF NewBlock
    <2>2. CASE Poll
        BY <2>2, PollCounts DEF Poll
    <2>3. ASSUME NEW req \in DOMAIN sending, Answer(req) PROVE InflightInv'
        <3>1. CASE handleQuery(req)
            BY <3>1, UncountedStep DEF handleQuery
        <3>2. QED
            BY <2>3, <3>1, ExpirationCounts, RegisterCounts DEF Answer
    <2>4. CASE UNCHANGED <<blocks, queries>>
        BY <2>4, UncountedStep
    <2>5. QED
        BY <2>1, <2>2, <2>3, <2>4 DEF Next, BackoffElapsed, StakeConnection, vars
<1>3. InflightInv => InflightExact
    BY DEF InflightInv
<1>4. QED
    BY <1>1, <1>2, <1>3, EngineInvariant, PTL DEF Spec
=============================================================================
