------------------------------ MODULE BlockVote ------------------------------
(***************************************************************************)
(* The vote records of the consensus engine: consensus/vote.go.            *)
(*                                                                         *)
(* A BlockChoice holds every block known at one height with a vote record  *)
(* per block, and one bit record that tries to settle the ID bit by bit.   *)
(* A record keeps the last Window votes.  The code packs them in two       *)
(* uint16 (votes and consider); here they are one sequence, oldest first,  *)
(* in which "unknown" stands for a bit that is clear in consider.  The     *)
(* code's confidence word (low bit: preference, the rest: a counter) is    *)
(* the pair pref, conf.                                                    *)
(*                                                                         *)
(* Go iterates over a map in any order, so an operation whose result       *)
(* depends on that order is the SET of results the code can produce.       *)
(***************************************************************************)
EXTENDS Integers, Sequences, FiniteSets

CONSTANTS
    Window,             \* length of a vote window          (16 in the code)
    Quorum,             \* votes that make it conclusive    (13: "> 12")
    FinalizationScore,  \* AvalancheFinalizationScore       (160)
    IDBits,             \* bits of a block ID               (256)
    BlockIDs            \* the block IDs: sequences of IDBits bits

\* AvalancheMaxInflightPoll
MaxInflightPoll == FinalizationScore

Bits == 1..IDBits

\* types.ID{}: the vote of a node that has no preference.
ZeroID == [i \in Bits |-> 0]

ASSUME VoteAssumption ==
    /\ Window \in Nat \ {0}
    /\ Quorum \in 1..Window
    /\ 2 * Quorum > Window
    /\ FinalizationScore \in Nat \ {0}
    /\ IDBits \in Nat \ {0}
    /\ BlockIDs \subseteq [Bits -> {0, 1}]
    /\ ZeroID \notin BlockIDs

Vote == {"yes", "no", "unknown"}

NoVotes == [i \in 1..Window |-> "unknown"]

\* The window after one more vote: vr.votes << 1 | ..., vr.consider << 1 | ...
Push(win, v) == [i \in 1..Window |-> IF i = Window THEN v ELSE win[i + 1]]

Conclusive(win, v) == Cardinality({i \in 1..Window : win[i] = v}) >= Quorum

-----------------------------------------------------------------------------
(* BlockVoteRecord: the votes for one block.                               *)

BlockRecords == [acceptable : BOOLEAN, pref : BOOLEAN, conf : Nat,
                 win : [1..Window -> Vote]]

isPreferred(rec) == rec.pref

Finalized(rec) == rec.conf >= FinalizationScore /\ rec.pref

\* BlockVoteRecord.RecordVote.  A conclusive "no" never gains confidence.
RecordBlockVote(rec, v) ==
    LET win == Push(rec.win, v)
        yes == Conclusive(win, "yes")
        no  == Conclusive(win, "no")
    IN  IF ~yes /\ (~no \/ ~rec.pref)
          THEN [rec EXCEPT !.win = win]
          ELSE [rec EXCEPT !.win = win, !.pref = yes,
                           !.conf = IF rec.pref = yes THEN @ + 1 ELSE 0]

\* BlockVoteRecord.Reset
Reset(rec, yes) == [rec EXCEPT !.pref = yes, !.conf = 0, !.win = NoVotes]

-----------------------------------------------------------------------------
(* BitVoteRecord: the votes for the active bit of the ID.                  *)

BitRecords == [active : 0..(IDBits - 1), final : [Bits -> {0, 1}],
               one : BOOLEAN, conf : Nat, win : [1..Window -> Vote]]

NewBitRecord == [active |-> 0, final |-> ZeroID, one |-> FALSE, conf |-> 0,
                 win |-> NoVotes]

\* getBit; the code counts bit positions from 0.
getBit(id, pos) == id[pos + 1]

SetActiveBit(bit, id) ==
    [bit EXCEPT !.one = (getBit(id, bit.active) = 1), !.conf = 0]

\* The ID agrees with the bits finalized so far.
CompareBits(bit, id) == \A i \in 1..bit.active : bit.final[i] = id[i]

MatchesActiveBit(bit, id) == (getBit(id, bit.active) = 1) = bit.one

BitVote(bit, voteID) ==
    IF voteID = ZeroID THEN "unknown"
    ELSE IF getBit(voteID, bit.active) = 1 THEN "yes" ELSE "no"

\* Mutation of NextActiveBit: no wrap.
NextActiveBit_NoWrap(active) == active + 1

\* vr.activeBit++: a uint8, and an ID has 256 bits.
NextActiveBit(active) == IF active + 1 = IDBits THEN 0 ELSE active + 1

\* BitVoteRecord.RecordVote: the new record and the result.
RecordBitVote(bit, voteID) ==
    LET win   == Push(bit.win, BitVote(bit, voteID))
        one   == Conclusive(win, "yes")
        zero  == Conclusive(win, "no")
        voted == [bit EXCEPT !.win = win]
    IN  IF ~one /\ ~zero THEN [bit |-> voted, result |-> "NoChange"]
        ELSE IF bit.one # one
          THEN [bit |-> [voted EXCEPT !.one = one, !.conf = 0],
                result |-> "Flipped"]
        ELSE IF bit.conf + 1 < FinalizationScore
          THEN [bit |-> [voted EXCEPT !.conf = @ + 1], result |-> "NoChange"]
        ELSE [bit |-> [active |-> NextActiveBit(bit.active),
                       final  |-> [bit.final EXCEPT ![bit.active + 1] =
                                     IF bit.one THEN 1 ELSE 0],
                       one |-> FALSE, conf |-> 0, win |-> NoVotes],
              result |-> "Finalized"]

-----------------------------------------------------------------------------
(* BlockChoice: the blocks of one height.  votes maps the known IDs to     *)
(* their records; inflight counts the queries that are out for the height. *)

NewBlockChoice == [votes |-> [b \in {} |-> 0], bit |-> NewBitRecord,
                   inflight |-> 0]

HasBlock(bc, id) == id \in DOMAIN bc.votes

Preferred(votes) == {b \in DOMAIN votes : isPreferred(votes[b])}

\* GetPreference: the answers the code can give.
GetPreference(votes) ==
    IF Preferred(votes) = {} THEN {ZeroID} ELSE Preferred(votes)

HasFinalized(bc) == \E b \in DOMAIN bc.votes : Finalized(bc.votes[b])

\* Mutation of VotesNeededToFinalize: one vote short.
VotesNeededToFinalize_Short(bc) ==
    LET confs == {0} \cup {bc.votes[b].conf : b \in DOMAIN bc.votes}
        ahead == CHOOSE c \in confs : \A d \in confs : d <= c
    IN  MaxInflightPoll - ahead - 1

\* VotesNeededToFinalize: the block that is ahead decides.
VotesNeededToFinalize(bc) ==
    LET confs == {0} \cup {bc.votes[b].conf : b \in DOMAIN bc.votes}
        ahead == CHOOSE c \in confs : \A d \in confs : d <= c
    IN  MaxInflightPoll - ahead

\* AddNewBlock
AddNewBlock(bc, id, acceptable) ==
    LET preferred == /\ Preferred(bc.votes) = {}
                     /\ acceptable
                     /\ CompareBits(bc.bit, id)
        rec == [acceptable |-> acceptable, pref |-> preferred, conf |-> 0,
                win |-> NoVotes]
    IN  [bc EXCEPT !.votes = [b \in DOMAIN bc.votes \cup {id} |->
                                 IF b = id THEN rec ELSE bc.votes[b]],
                   !.bit = IF preferred /\ @.conf = 0
                             THEN SetActiveBit(@, id) ELSE @]

\* The two loops that give every block its vote.  The code stops at the first
\* record that finalizes: some of the blocks after it have not been voted on.
VotesRecorded(votes, voteID) ==
    LET VoteFor(b) == IF voteID = ZeroID THEN "unknown"
                      ELSE IF b = voteID THEN "yes" ELSE "no"
        after == [b \in DOMAIN votes |-> RecordBlockVote(votes[b], VoteFor(b))]
        done  == {b \in DOMAIN votes : Finalized(after[b])}
        first == IF voteID \in done THEN {voteID} ELSE done
        \* the blocks that may have been voted on before the one that finalizes
        before == {s \in SUBSET (DOMAIN votes \ done) :
                     voteID \in DOMAIN votes => IF voteID \in done
                                                 THEN s = {} ELSE voteID \in s}
        Upto(f, s) == [b \in DOMAIN votes |->
                         IF b \in s \cup {f} THEN after[b] ELSE votes[b]]
    IN  IF done = {} THEN {[votes |-> after, finalized |-> ZeroID]}
        ELSE UNION {{[votes |-> Upto(f, s), finalized |-> f] : s \in before} :
                      f \in first}

\* The block IDs a preference may move to.
Candidates(votes, bit) ==
    {b \in DOMAIN votes : votes[b].acceptable /\ CompareBits(bit, b)}

\* After a bit is finalized: keep a preference that agrees, else pick one.
\* agreed is FALSE when the code takes the branch it says is never taken.
AfterBitFinalized(votes, bit) ==
    {[votes |-> votes, bit |-> bit, agreed |-> TRUE] :
        p \in {q \in Preferred(votes) : CompareBits(bit, q)}}
    \cup
    IF Preferred(votes) # {} /\ \A q \in Preferred(votes) : CompareBits(bit, q)
      THEN {}
      ELSE IF Candidates(votes, bit) = {}
        THEN {[votes |-> votes, bit |-> bit, agreed |-> Preferred(votes) = {}]}
        ELSE {[votes |-> [votes EXCEPT ![n] = Reset(@, TRUE)],
               bit |-> SetActiveBit(bit, n),
               agreed |-> Preferred(votes) = {}] : n \in Candidates(votes, bit)}

\* After a bit flips: drop one current preference and pick a block with the
\* new bit.
AfterBitFlipped(votes, bit) ==
    LET Dropped == IF Preferred(votes) = {} THEN {votes}
                   ELSE {[votes EXCEPT ![p] = Reset(@, FALSE)] :
                           p \in Preferred(votes)}
        Match(vs) == {b \in Candidates(vs, bit) : MatchesActiveBit(bit, b)}
        Pick(vs) == IF Match(vs) = {} THEN {vs}
                    ELSE {[vs EXCEPT ![n] = Reset(@, TRUE)] : n \in Match(vs)}
    IN  {[votes |-> vs, bit |-> bit, agreed |-> TRUE] :
            vs \in UNION {Pick(d) : d \in Dropped}}

\* With no change of the bit: only when every block has lost its preference.
AfterNoChange(votes, bit) ==
    IF Preferred(votes) # {} \/ Candidates(votes, bit) = {}
      THEN {[votes |-> votes, bit |-> bit, agreed |-> TRUE]}
      ELSE {[votes |-> [votes EXCEPT ![n] = Reset(@, TRUE)],
             bit |-> SetActiveBit(bit, n), agreed |-> TRUE] :
              n \in Candidates(votes, bit)}

\* BlockChoice.RecordVote: every choice it can leave, with the block that
\* finalized (ZeroID: none) and whether the preference agreed with the bits.
RecordVote(bc, voteID) ==
    UNION {IF r.finalized # ZeroID
             THEN {[bc |-> [bc EXCEPT !.votes = r.votes],
                    finalized |-> r.finalized, agreed |-> TRUE]}
             ELSE LET b == RecordBitVote(bc.bit, voteID)
                      outcomes ==
                        CASE b.result = "Finalized" ->
                               AfterBitFinalized(r.votes, b.bit)
                          [] b.result = "Flipped" ->
                               AfterBitFlipped(r.votes, b.bit)
                          [] OTHER -> AfterNoChange(r.votes, b.bit)
                  IN  {[bc |-> [bc EXCEPT !.votes = o.votes, !.bit = o.bit],
                        finalized |-> ZeroID, agreed |-> o.agreed] :
                          o \in outcomes}
           : r \in VotesRecorded(bc.votes, voteID)}
=============================================================================
