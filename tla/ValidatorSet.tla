---------------------------- MODULE ValidatorSet ----------------------------
(***************************************************************************)
(* The set of validators in memory: blockchain/validatorset.go.            *)
(*                                                                         *)
(* ConnectBlock stages new copies of the validators that a block changes   *)
(* and Commit installs them.  A Validator object is never changed once it  *)
(* is installed, so a pointer to one is modelled by its value: an entry of *)
(* nullifierMap is the validator as it was when the entry was made, which  *)
(* need not be the one the set holds now.                                  *)
(*                                                                         *)
(* Time is counted in epochs.  How many blocks a validator may or must     *)
(* produce is a free choice, and a reward counts the epochs it pays for.   *)
(***************************************************************************)
EXTENDS Integers, FiniteSets, FiniteSetsExt, Maps

CONSTANTS
    Validators,     \* peer IDs
    Nullifiers,     \* the coins that can be staked
    Stakers,        \* the <<validator, nullifier>> pairs that can be staked
    Amount,         \* Nullifiers -> Nat
    Weights,        \* the weights a locktime can give a stake, NaN included
    NaNAmount,      \* the types.Amount that the platform converts a NaN to
    Expiration,     \* ValidatorExpiration
    RestakePeriod,  \* RestakePeriod
    MaxStrikes,     \* maxStrikes
    AmountRange,    \* size of types.Amount
    MaxTxs,         \* bound on the transactions of a block
    MaxBlocks       \* bound on the blocks

ASSUME ValidatorSetAssumption ==
    /\ IsFiniteSet(Nullifiers)   \* a nullifier is a hash
    /\ Stakers \subseteq Validators \X Nullifiers
    /\ Amount \in [Nullifiers -> Nat \ {0}]
    /\ Weights \subseteq Nat
    /\ Expiration \in Nat \ {0}
    /\ RestakePeriod \in 0..Expiration
    /\ MaxStrikes \in Nat \ {0}
    /\ AmountRange \in Nat \ {0}
    /\ NaNAmount \in 0..(AmountRange - 1)
    /\ MaxTxs \in Nat
    /\ MaxBlocks \in Nat

VARIABLES
    validators,     \* vs.validators: peer ID -> Validator
    nullifierMap,   \* vs.nullifierMap: nullifier -> Validator
    toDelete,       \* vs.toDelete
    disk,           \* the keys of the validators in the database
    spent,          \* the nullifier set of the chain
    now,            \* time of the last block
    height,         \* blocks so far
    staked,         \* history: <<validator, nullifier>> -> time, the stakes
                    \* that the blocks so far leave in place
    past,           \* history: <<validator, nullifier, weight>> of every stake
                    \* of the blocks so far
    owed,           \* history: the rewards given to each validator, less
                    \* those it has claimed
    irregular,      \* history: validators that had two coins staked at once,
                    \* had one that was ever staked for another validator, or
                    \* came back while their deletion was due
    failed          \* history: validators a block could not be staged for

vars == <<validators, nullifierMap, toDelete, disk, spent, now, height,
          staked, past, owed, irregular, failed>>

NewValidator(v) ==
    [id |-> v, total |-> 0, weighted |-> 0, nulls |-> EmptyMap,
     unclaimed |-> 0, strikes |-> 0, penalty |-> FALSE]

Init ==
    /\ validators = EmptyMap
    /\ nullifierMap = EmptyMap
    /\ toDelete = {}
    /\ disk = {}
    /\ spent = {}
    /\ now = 0
    /\ height = 0
    /\ staked = EmptyMap
    /\ past = {}
    /\ owed = [v \in Validators |-> 0]
    /\ irregular = {}
    /\ failed = {}

-----------------------------------------------------------------------------
\* A block: its time, its transactions (stakes maps a pair to the weight of
\* its lock), its producer if that is over its production limit, and the
\* validators that are below the production floor.
StakedBy(blk, v) == {n \in Nullifiers : <<v, n>> \in DOMAIN blk.stakes}

StakesOf(blk) == {pair[2] : pair \in DOMAIN blk.stakes}

\* The rules of validateBlock that concern the validator set.
validateBlock(blk) ==
    /\ \A v \in blk.coinbases :
          v \in DOMAIN validators /\ validators[v].unclaimed > 0
    /\ \A pair \in DOMAIN blk.stakes :
          LET v == pair[1]
              n == pair[2]
          IN  /\ n \notin spent
              /\ v \in DOMAIN validators /\ n \in DOMAIN validators[v].nulls =>
                   validators[v].nulls[n].stamp + Expiration - RestakePeriod
                      <= blk.time
    /\ blk.spends \cap spent = {}
    /\ blk.spends \cap StakesOf(blk) = {}

\* The staked coins of v that the block spends, as nullifierMap has them.
SpentOf(blk, v) ==
    {n \in blk.spends \cap DOMAIN nullifierMap : nullifierMap[n].id = v}

\* A coinbase or a stake starts from the validator in the set, a spend from
\* the one in nullifierMap, and whichever comes first in the block decides.
Direct(blk, v) == v \in blk.coinbases \/ StakedBy(blk, v) # {}

Touched(blk) == {v \in Validators : Direct(blk, v) \/ SpentOf(blk, v) # {}}

Bases(blk, v) ==
    {nullifierMap[n] : n \in SpentOf(blk, v)} \cup
    IF ~Direct(blk, v) THEN {}
    ELSE IF v \in DOMAIN validators THEN {validators[v]}
    ELSE {NewValidator(v)}

\* The coinbase transaction claims all that validateBlock allows.
Claimed(blk, v) == IF v \in blk.coinbases THEN validators[v].unclaimed ELSE 0

Total(S, f) == MapThenSumSet(LAMBDA n : f[n], S)

\* The weight of a lock is 1 plus approximateYieldCurve of its whole months, a
\* number over 1 from one month on, and 1 without a lock.  A lock of less than a
\* month makes that curve 0/0: NaN, which 0 stands for here.  NaN > 1 is false,
\* so that WeightedStake counts the plain amount; WeightedAmount is the product
\* with the NaN, whose conversion is the platform's.
NaN == 0

Counted(n, weight) == IF weight > 1 THEN Amount[n] * weight ELSE Amount[n]

WeightedAmount(n, weight) == IF weight = NaN THEN NaNAmount ELSE Amount[n] * weight

\* v after the block's transactions, starting from base.
Staged(blk, v, base) ==
    LET mine  == StakedBy(blk, v)
        gone  == SpentOf(blk, v)
        new   == mine \ DOMAIN base.nulls
        stake == [n \in mine |-> [amount   |-> Amount[n],
                                  weighted |-> WeightedAmount(n, blk.stakes[<<v, n>>]),
                                  stamp    |-> blk.time]]
        coins == Claimed(blk, v)
    IN  [base EXCEPT
           !.total = (@ + Total(new, [n \in new |-> stake[n].amount])
                        - Total(gone, [n \in gone |-> base.nulls[n].amount]))
                     % AmountRange,
           !.weighted = (@ + Total(new, [n \in new |-> Counted(n, blk.stakes[<<v, n>>])])
                           - Total(gone, [n \in gone |-> base.nulls[n].weighted]))
                        % AmountRange,
           !.nulls = [n \in (DOMAIN @ \cup mine) \ gone |->
                        IF n \in mine THEN stake[n] ELSE base.nulls[n]],
           !.unclaimed = IF coins >= @ THEN 0 ELSE @ - coins]

\* A new epoch: stakes expire, the others earn, penalties are applied.
Expired(val, time) ==
    {n \in DOMAIN val.nulls : time - val.nulls[n].stamp >= Expiration}

Earns(val, time) ==
    \E n \in DOMAIN val.nulls \ Expired(val, time) : time - val.nulls[n].stamp >= 1

Forfeits(blk, val) == val.penalty \/ val.id \in blk.slow

\* Mutations of NewEpoch: an expired stake stays; a stake of this block earns.
NewEpoch_KeepsExpired(blk, val) ==
    [val EXCEPT
       !.unclaimed = IF Forfeits(blk, val) THEN 0
                     ELSE IF Earns(val, blk.time) THEN @ + 1 ELSE @,
       !.penalty = FALSE]

\* Mutation of NewEpoch: a validator earns whether or not Earns says so.
NewEpoch_AllEarn(blk, val) ==
    [val EXCEPT
       !.nulls = Without(@, Expired(val, blk.time)),
       !.unclaimed = IF Forfeits(blk, val) THEN 0 ELSE @ + 1,
       !.penalty = FALSE]

NewEpoch(blk, val) ==
    [val EXCEPT
       !.nulls = Without(@, Expired(val, blk.time)),
       !.unclaimed = IF Forfeits(blk, val) THEN 0
                     ELSE IF Earns(val, blk.time) THEN @ + 1 ELSE @,
       !.penalty = FALSE]

\* The producer is over its limit: a strike, and with the last one all its
\* stake is lost.
Banned(val) == val.strikes + 1 >= MaxStrikes

Struck(val) ==
    [val EXCEPT
       !.penalty = TRUE,
       !.strikes = @ + 1,
       !.nulls = IF Banned(val) THEN EmptyMap ELSE @]

-----------------------------------------------------------------------------
IsEpoch(blk) == blk.time > now

Changed(blk) ==
    Touched(blk) \cup IF IsEpoch(blk) THEN DOMAIN validators ELSE blk.struck

\* The validators that ConnectBlock changes, step by step.
AfterTxs(blk, base) ==
    [v \in Changed(blk) |->
       IF v \in Touched(blk) THEN Staged(blk, v, base[v]) ELSE validators[v]]

AfterEpoch(blk, staging) ==
    [v \in DOMAIN staging |->
       IF IsEpoch(blk) /\ v \in DOMAIN validators THEN NewEpoch(blk, staging[v])
       ELSE staging[v]]

AfterProducer(blk, staging) ==
    [v \in DOMAIN staging |->
       IF v \in blk.struck THEN Struck(staging[v]) ELSE staging[v]]

\* The nullifiers that leave nullifierMap: spent, expired or banned.
NullifiersToDelete(blk, before, after) ==
    UNION {SpentOf(blk, v) \cup (DOMAIN before[v].nulls \ DOMAIN after[v].nulls) :
             v \in DOMAIN before}

NullifiersToBan(blk, staging) ==
    UNION {DOMAIN staging[v].nulls : v \in {w \in blk.struck : Banned(staging[w])}}

Empty(updates) == {v \in DOMAIN updates : updates[v].nulls = EmptyMap}

\* Mutation of Flushed: nothing is deleted.
Flushed_KeepsDropped(vals, dropped) == disk \cup DOMAIN vals

\* flushToDisk: all validators are put, then those in dropped are deleted.
Flushed(vals, dropped) == (disk \cup DOMAIN vals) \ dropped

\* VsTransction.Commit.
Commit(updates, owner, deleted, flush) ==
    LET all     == [v \in DOMAIN validators \cup DOMAIN updates |->
                      IF v \in DOMAIN updates THEN updates[v] ELSE validators[v]]
        vals    == Without(all, Empty(updates))
        dropped == toDelete \cup Empty(updates)
    IN  /\ validators' = vals
        /\ nullifierMap' =
             [n \in (DOMAIN nullifierMap \cup DOMAIN owner) \ deleted |->
                IF n \in DOMAIN owner THEN all[owner[n]] ELSE nullifierMap[n]]
        /\ toDelete' = IF flush THEN {} ELSE dropped
        /\ disk' = IF flush THEN Flushed(vals, dropped) ELSE disk

\* What the block does to the stakes, told without the set.
StakesAfter(blk, banned) ==
    LET stamp == [pair \in DOMAIN staked \cup DOMAIN blk.stakes |->
                    IF pair \in DOMAIN blk.stakes THEN blk.time ELSE staked[pair]]
    IN  Without(stamp, {pair \in DOMAIN stamp :
            \/ pair[2] \in blk.spends
            \/ IsEpoch(blk) /\ blk.time - stamp[pair] >= Expiration
            \/ pair[1] \in blk.struck /\ pair[2] \in banned})

StakesMade(blk) ==
    past \cup {<<pair[1], pair[2], blk.stakes[pair]>> : pair \in DOMAIN blk.stakes}

Irregular(blk) ==
    LET coins(v) == {n \in Nullifiers : <<v, n>> \in DOMAIN staked \cup DOMAIN blk.stakes}
    IN  {v \in Validators :
            \/ \E n, m \in coins(v) : n # m
            \/ \E s \in StakesMade(blk) : s[1] # v /\ s[2] \in coins(v)
            \/ v \in toDelete /\ StakedBy(blk, v) # {}}

\* ConnectBlock and Commit of a valid block.  A spend of a coin that the
\* staged validator does not have is an error, and the block is not connected.
ConnectBlock(blk, base, owner, flush) ==
    LET lost    == {v \in Touched(blk) : ~(SpentOf(blk, v) \subseteq DOMAIN base[v].nulls)}
        before  == AfterTxs(blk, base)
        epoch   == AfterEpoch(blk, before)
        updates == AfterProducer(blk, epoch)
        banned  == NullifiersToBan(blk, epoch)
    IN  IF lost # {}
          THEN /\ failed' = failed \cup lost
               /\ UNCHANGED <<validators, nullifierMap, toDelete, disk, spent,
                              now, height, staked, past, owed,
                              irregular>>
          ELSE /\ Commit(updates, owner,
                         NullifiersToDelete(blk, before, updates), flush)
               /\ spent' = spent \cup blk.spends \cup banned
               /\ now' = blk.time
               /\ height' = height + 1
               /\ staked' = StakesAfter(blk, banned)
               /\ past' = StakesMade(blk)
               /\ irregular' = irregular \cup Irregular(blk)
               /\ owed' = [v \in Validators |->
                    owed[v] + (IF /\ IsEpoch(blk) /\ v \in DOMAIN validators
                                  /\ ~Forfeits(blk, before[v])
                                  /\ Earns(before[v], blk.time) THEN 1 ELSE 0)
                            - Claimed(blk, v)]
               /\ failed' = failed

\* The node is closed, which flushes, and started again: Init loads what is on
\* disk and rebuilds nullifierMap.  A key that the flush did not write would be
\* of a validator removed before, whose old content is not kept here.
Restart ==
    LET keys == Flushed(validators, toDelete)
        vals == [v \in keys |-> IF v \in DOMAIN validators THEN validators[v]
                                ELSE NewValidator(v)]
        ns   == UNION {DOMAIN vals[v].nulls : v \in DOMAIN vals}
    IN  /\ disk' = keys
        /\ validators' = vals
        /\ toDelete' = {}
        /\ \E owner \in [ns -> DOMAIN vals] :
              /\ \A n \in ns : n \in DOMAIN vals[owner[n]].nulls
              /\ nullifierMap' = [n \in ns |-> vals[owner[n]]]
        /\ UNCHANGED <<spent, now, height, staked, past, owed, irregular,
                       failed>>

Size(blk) == Cardinality(DOMAIN blk.stakes) + Cardinality(blk.spends)
               + Cardinality(blk.coinbases)

Claimants == {v \in DOMAIN validators : validators[v].unclaimed > 0}

Blocks(time) ==
    [time      : {time},
     stakes    : UNION {[S -> Weights] : S \in SUBSET Stakers},
     spends    : SUBSET (Nullifiers \ spent),
     coinbases : SUBSET Claimants,
     struck    : {{}} \cup {{v} : v \in DOMAIN validators},
     slow      : IF time > now THEN SUBSET DOMAIN validators ELSE {{}}]

\* The validators that the changes may start from, and the validator that a
\* coin staked twice in the block is entered for.
BaseChoices(blk) ==
    {base \in [Touched(blk) -> UNION {Bases(blk, v) : v \in Touched(blk)}] :
        \A v \in Touched(blk) : base[v] \in Bases(blk, v)}

OwnerChoices(blk) ==
    {owner \in [StakesOf(blk) -> Validators] :
        \A n \in StakesOf(blk) : <<owner[n], n>> \in DOMAIN blk.stakes}

NextBlock ==
    /\ height < MaxBlocks
    /\ \E time \in {now, now + 1} :
         \E blk \in {b \in Blocks(time) : Size(b) <= MaxTxs} :
            /\ validateBlock(blk)
            /\ \E base \in BaseChoices(blk), owner \in OwnerChoices(blk),
                  flush \in BOOLEAN : ConnectBlock(blk, base, owner, flush)

Next == NextBlock \/ Restart

Spec == Init /\ [][Next]_vars

-----------------------------------------------------------------------------
TypeOK ==
    /\ DOMAIN validators \subseteq Validators
    /\ \A v \in DOMAIN validators :
          /\ validators[v].id = v
          /\ validators[v].total \in 0..(AmountRange - 1)
          /\ validators[v].weighted \in 0..(AmountRange - 1)
          /\ DOMAIN validators[v].nulls \in (SUBSET Nullifiers) \ {{}}
          /\ validators[v].unclaimed \in Nat
          /\ validators[v].strikes \in 0..(MaxStrikes - 1)
          /\ validators[v].penalty \in BOOLEAN
    /\ DOMAIN nullifierMap \subseteq Nullifiers
    /\ toDelete \subseteq Validators
    /\ disk \subseteq Validators
    /\ spent \subseteq Nullifiers
    /\ now \in 0..height
    /\ height \in 0..MaxBlocks
    /\ DOMAIN staked \subseteq Stakers
    /\ past \subseteq Validators \X Nullifiers \X Weights
    /\ irregular \subseteq Validators
    /\ failed \subseteq Validators

\* The set has of v what the blocks so far leave of it: it holds v while a
\* coin is staked for it, with those coins, their total and its entries in
\* nullifierMap; and no block fails because of v.
Coins(v) == {n \in Nullifiers : <<v, n>> \in DOMAIN staked}

IsCurrent(v) ==
    /\ v \in DOMAIN validators <=> Coins(v) # {}
    /\ v \in DOMAIN validators =>
         /\ DOMAIN validators[v].nulls = Coins(v)
         /\ validators[v].total = Total(Coins(v), Amount) % AmountRange
         /\ \A n \in Coins(v) :
              validators[v].nulls[n].stamp = staked[<<v, n>>]
    /\ {n \in DOMAIN nullifierMap : nullifierMap[n].id = v} = Coins(v)
    /\ v \notin failed

\* WeightedStake is the sum of the WeightedAmounts.
IsWeighed(v) ==
    v \in DOMAIN validators =>
        validators[v].weighted =
          Total(DOMAIN validators[v].nulls,
                [n \in DOMAIN validators[v].nulls |-> validators[v].nulls[n].weighted])
            % AmountRange

\* v has always staked a coin with the same lock.  ConnectBlock does not count a
\* coin again that is staked again, but gives it the WeightedAmount of its new
\* lock.
OneLock(v) ==
    \A s, t \in past : s[1] = v /\ t[1] = v /\ s[2] = t[2] => s[3] = t[3]

\* No lock of v was shorter than a month.  For such a lock WeightedStake and
\* WeightedAmount differ by what a NaN converts to (see NaN).
NoNaN(v) == \A s \in past : s[1] = v => s[3] # NaN

\* The set is current for every validator that has only had one coin at a
\* time, of its own, and was not removed and added again between two flushes:
\* across epochs, expiry, restakes, bans and restarts.  Its WeightedStake is
\* right too, unless it has staked a coin again with another lock, or one with
\* a lock of less than a month.  The types are checked along with it.
RegularCurrent ==
    /\ TypeOK
    /\ \A v \in Validators \ irregular : IsCurrent(v) /\ (OneLock(v) /\ NoNaN(v) => IsWeighed(v))

\* "ValidatorSet maintains the current state of the set of validators in the
\* network" (the comment on ValidatorSet), however many coins they stake.
SetCurrent == \A v \in Validators : IsCurrent(v) /\ IsWeighed(v)

\* No reward can be claimed twice: what a validator can claim was given to it
\* and not claimed yet.
PaidOnce ==
    \A v \in DOMAIN validators \ irregular : validators[v].unclaimed <= owed[v]

\* A validator that was removed is not in the database after the next flush,
\* so that no restart brings it back.
NoneReturns == disk \subseteq DOMAIN validators \cup toDelete

=============================================================================
