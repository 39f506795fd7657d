----------------------------- MODULE BlockRules -----------------------------
(***************************************************************************)
(* Which sets of transactions the chain accepts as the body of a block:    *)
(* validateBlock in blockchain/validate.go, and what connecting the block  *)
(* does to the parts of the chain state those rules read.                  *)
(*                                                                         *)
(* A transaction is an identifier; what the rules look at is given by the  *)
(* constants.  Every transaction of Txs is sane (CheckTransactionSanity)   *)
(* and carries valid proofs and signatures.  A block is sorted by ID, so   *)
(* it is determined by the set of its transactions.                        *)
(***************************************************************************)
EXTENDS Naturals, FiniteSets, FiniteSetsExt

CONSTANTS
    Txs,            \* transaction IDs
    Kind,           \* Txs -> Kinds
    Nullifiers,     \* nullifiers
    Nulls,          \* Txs -> SUBSET Nullifiers: the nullifiers it spends; for
                    \* a stake transaction, the one it stakes
    Validators,
    Owner,          \* Txs -> Validators: Validator_ID (coinbase and stake)
    Amount,         \* Txs -> Nat: NewCoins (coinbase) or Amount (treasury)
    Roots,          \* txo roots
    RootOf          \* Txs -> Roots: TxoRoot

Kinds == {"coinbase", "standard", "mint", "stake", "treasury"}

\* The transactions that spend their nullifiers.
Spends == {t \in Txs : Kind[t] \in {"standard", "mint"}}

OfKind(S, k) == {t \in S : Kind[t] = k}

ASSUME TxAssumption ==
    /\ IsFiniteSet(Txs)      \* an ID is a hash
    /\ Kind \in [Txs -> Kinds]
    /\ Nulls \in [Txs -> SUBSET Nullifiers]
    /\ Owner \in [Txs -> Validators]
    /\ Amount \in [Txs -> Nat]
    /\ RootOf \in [Txs -> Roots]

\* The chain state the rules read.  staked holds the stakes of the validator
\* set and fresh those that cannot be restaked yet (Blockstamp +
\* ValidatorExpiration - RestakePeriod > now); a validator that is not in the
\* set has no unclaimed coins.  banned is a history: the nullifiers that
\* became spent because their validator was banned.
ChainStates ==
    [spent : SUBSET Nullifiers, banned : SUBSET Nullifiers,
     staked : SUBSET (Validators \X Nullifiers),
     fresh : SUBSET (Validators \X Nullifiers),
     roots : SUBSET Roots, unclaimed : [Validators -> Nat], balance : Nat]

TreasuryTotal(S) == MapThenSumSet(LAMBDA t : Amount[t], OfKind(S, "treasury"))

SpentBy(S) == UNION {Nulls[t] : t \in S \cap Spends}

CoinbaseOK(c, t) == Amount[t] = c.unclaimed[Owner[t]] /\ Amount[t] # 0

StakeOK(c, t) ==
    /\ RootOf[t] \in c.roots
    /\ Nulls[t] \cap c.spent = {}
    /\ \A n \in Nulls[t] : <<Owner[t], n>> \notin c.fresh

SpendOK(c, t) == RootOf[t] \in c.roots /\ Nulls[t] \cap c.spent = {}

\* Two stakes of one nullifier are not compared with each other.
validateBlock(c, blk) ==
    /\ blk # {}
    /\ \A t \in OfKind(blk, "coinbase") :
          /\ CoinbaseOK(c, t)
          /\ \A u \in OfKind(blk, "coinbase") : Owner[u] = Owner[t] => u = t
    /\ \A t \in OfKind(blk, "stake") :
          StakeOK(c, t) /\ Nulls[t] \cap SpentBy(blk) = {}
    /\ \A t \in blk \cap Spends :
          /\ SpendOK(c, t)
          /\ \A u \in blk \cap Spends : u # t => Nulls[u] \cap Nulls[t] = {}
    /\ TreasuryTotal(blk) <= c.balance

\* The coins a validator can claim after the block: a coinbase claims all of
\* them, and the first block of an epoch may add the reward or, as a penalty,
\* take everything.
Claimable(c, blk, epoch, reward, v) ==
    LET kept == IF \E t \in OfKind(blk, "coinbase") : Owner[t] = v
                  THEN 0 ELSE c.unclaimed[v]
    IN  IF epoch THEN {0, kept, kept + reward} ELSE {kept}

\* The state after the block: its nullifiers are spent, its stakes are new,
\* the treasury has paid and, at an epoch, been credited, and root is a root
\* of the accumulator.  A producer that went over its limit too often (a
\* member of struck) loses its stakes, whose nullifiers become spent too.  A
\* validator without a stake leaves the set, with the coins it has not claimed.
Connected(c, blk, root, claims, credit, struck) ==
    LET new  == UNION {{Owner[t]} \X Nulls[t] : t \in OfKind(blk, "stake")}
        left == {s \in c.staked \cup new : s[2] \notin SpentBy(blk)}
        ban  == {s \in left : s[1] \in struck}
        lost == {s[2] : s \in ban}
        vals == {s[1] : s \in left \ ban}
    IN  [spent     |-> c.spent \cup SpentBy(blk) \cup lost,
         banned    |-> c.banned \cup lost,
         staked    |-> left \ ban,
         fresh     |-> (c.fresh \cup new) \cap (left \ ban),
         roots     |-> c.roots \cup {root},
         unclaimed |-> [v \in Validators |-> IF v \in vals THEN claims[v] ELSE 0],
         balance   |-> (c.balance - TreasuryTotal(blk)) + credit]
=============================================================================
