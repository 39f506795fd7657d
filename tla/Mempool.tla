------------------------------- MODULE Mempool -------------------------------
(***************************************************************************)
(* The mempool of a node (mempool/mempool.go) next to the chain whose      *)
(* state it validates against.                                             *)
(*                                                                         *)
(* One goroutine (validationHandler) owns the pool, so admitting a         *)
(* transaction, removing a block's transactions and the hourly expiry are  *)
(* atomic.  The chain moves on its own: ConnectBlock changes the chain     *)
(* state and starts one goroutine per notification, so the request to      *)
(* remove a block's transactions reaches the mempool later, and requests   *)
(* of different blocks in any order.                                       *)
(***************************************************************************)
EXTENDS BlockRules, Maps

CONSTANTS
    Whitelist,      \* cfg.treasuryWhitelist
    Policy,         \* transactions that meet fpkb and minStake
    InitStaked,     \* stakes at the start
    InitBalance,    \* treasury balance at the start
    Reward,         \* coins a validator, and the treasury, earn in an epoch
    MaxEpochs,      \* bound on the epochs
    MaxPending,     \* bound on the notifications on their way
    AmountRange     \* number of values of types.Amount (2^64 in the code)

ASSUME MempoolAssumption ==
    /\ Whitelist \subseteq Txs
    /\ Policy \subseteq Txs
    /\ InitStaked \subseteq Validators \X Nullifiers
    /\ InitBalance \in Nat
    /\ Reward \in Nat
    /\ MaxEpochs \in Nat
    /\ MaxPending \in Nat
    /\ AmountRange \in Nat \ {0}

VARIABLES
    pool,           \* m.pool: IDs of the transactions in the pool
    expired,        \* those whose TTL has passed
    nullifiers,     \* m.nullifiers: nullifier -> transaction
    treasuryDebits, \* m.treasuryDebits: transaction -> amount
    coinbases,      \* m.coinbases: validator -> transaction
    chain,          \* the chain state, one of ChainStates
    epochs,         \* epochs that have ended, capped by MaxEpochs
    pending         \* bodies of connected blocks the mempool has yet to hear of

poolVars == <<pool, expired, nullifiers, treasuryDebits, coinbases>>
vars == <<poolVars, chain, epochs, pending>>

Init ==
    /\ pool = {}
    /\ expired = {}
    /\ nullifiers = EmptyMap
    /\ treasuryDebits = EmptyMap
    /\ coinbases = EmptyMap
    /\ \E r \in Roots :
         chain = [spent |-> {}, banned |-> {}, staked |-> InitStaked,
                  fresh |-> {}, roots |-> {r},
                  unclaimed |-> [v \in Validators |->
                                   IF v \in {s[1] : s \in InitStaked} THEN Reward ELSE 0],
                  balance |-> InitBalance]
    /\ epochs = 0
    /\ pending = {}

-----------------------------------------------------------------------------
\* validateTransaction, one action per type.  A transaction that is refused
\* changes nothing.
Admit(t) ==
    /\ t \in Policy \ pool
    /\ UNCHANGED <<chain, epochs, pending>>

\* Mutation of AdmitCoinbase: the coinbase that is replaced stays in the pool.
AdmitCoinbase_KeepsOld(t) ==
    /\ Admit(t)
    /\ Kind[t] = "coinbase"
    /\ CoinbaseOK(chain, t)
    /\ Owner[t] \in DOMAIN coinbases => Amount[t] > Amount[coinbases[Owner[t]]]
    /\ pool' = pool \cup {t}
    /\ coinbases' = With(coinbases, Owner[t], t)
    /\ UNCHANGED <<expired, nullifiers, treasuryDebits>>

\* A coinbase replaces the validator's earlier one only if it claims more.
AdmitCoinbase(t) ==
    LET old == IF Owner[t] \in DOMAIN coinbases THEN {coinbases[Owner[t]]}
                                                ELSE {}
    IN  /\ Admit(t)
        /\ Kind[t] = "coinbase"
        /\ CoinbaseOK(chain, t)
        /\ \A u \in old : Amount[t] > Amount[u]
        /\ pool' = (pool \ old) \cup {t}
        /\ expired' = expired \ old
        /\ coinbases' = With(coinbases, Owner[t], t)
        /\ UNCHANGED <<nullifiers, treasuryDebits>>

\* Mutation of AdmitSpend: only the chain is asked, not the pool.
AdmitSpend_ChainOnly(t) ==
    /\ Admit(t)
    /\ t \in Spends
    /\ SpendOK(chain, t)
    /\ pool' = pool \cup {t}
    /\ nullifiers' = [n \in DOMAIN nullifiers \cup Nulls[t] |->
                        IF n \in Nulls[t] THEN t ELSE nullifiers[n]]
    /\ UNCHANGED <<expired, treasuryDebits, coinbases>>

\* A standard or a mint transaction.
AdmitSpend(t) ==
    /\ Admit(t)
    /\ t \in Spends
    /\ Nulls[t] \cap DOMAIN nullifiers = {}
    /\ SpendOK(chain, t)
    /\ pool' = pool \cup {t}
    /\ nullifiers' = [n \in DOMAIN nullifiers \cup Nulls[t] |->
                        IF n \in Nulls[t] THEN t ELSE nullifiers[n]]
    /\ UNCHANGED <<expired, treasuryDebits, coinbases>>

\* The nullifier of a stake is looked up but not recorded.
AdmitStake(t) ==
    /\ Admit(t)
    /\ Kind[t] = "stake"
    /\ Nulls[t] \cap DOMAIN nullifiers = {}
    /\ StakeOK(chain, t)
    /\ pool' = pool \cup {t}
    /\ UNCHANGED <<expired, nullifiers, treasuryDebits, coinbases>>

\* The balance less the debits in the pool, in unsigned arithmetic.
Available == (chain.balance + AmountRange
                - (TreasuryTotal(DOMAIN treasuryDebits) % AmountRange))
             % AmountRange

AdmitTreasury(t) ==
    /\ Admit(t)
    /\ Kind[t] = "treasury"
    /\ t \in Whitelist
    /\ Amount[t] <= Available
    /\ pool' = pool \cup {t}
    /\ treasuryDebits' = With(treasuryDebits, t, Amount[t])
    /\ UNCHANGED <<expired, nullifiers, coinbases>>

\* Mutation of removeBlockTransactions: a pooled transaction that conflicts
\* with the block stays.
removeBlockTransactions_OnlyThose(S) ==
    /\ pool' = pool \ S
    /\ expired' = expired \ S
    /\ nullifiers' = Without(nullifiers, SpentBy(S))
    /\ treasuryDebits' = Without(treasuryDebits, S)
    /\ coinbases' = Without(coinbases, {v \in DOMAIN coinbases : coinbases[v] \in S})

\* Mutation of removeBlockTransactions: the debits are not given back.
removeBlockTransactions_KeepsDebits(S) ==
    LET found == SpentBy(S) \cap DOMAIN nullifiers
        gone  == S \cup {nullifiers[n] : n \in found}
    IN  /\ pool' = pool \ gone
        /\ expired' = expired \ gone
        /\ nullifiers' = Without(nullifiers, found)
        /\ treasuryDebits' = treasuryDebits
        /\ coinbases' = Without(coinbases,
                                {v \in DOMAIN coinbases : coinbases[v] \in S})

\* Removes the transactions in S and those that spend one of their
\* nullifiers.
removeBlockTransactions(S) ==
    LET found == SpentBy(S) \cap DOMAIN nullifiers
        gone  == S \cup {nullifiers[n] : n \in found}
    IN  /\ pool' = pool \ gone
        /\ expired' = expired \ gone
        /\ nullifiers' = Without(nullifiers, found)
        /\ treasuryDebits' = Without(treasuryDebits, S)
        /\ coinbases' = Without(coinbases,
                                {v \in DOMAIN coinbases : coinbases[v] \in S})

\* A notification of a connected block reaches the mempool.
RemoveBlock(blk) ==
    /\ blk \in pending
    /\ removeBlockTransactions(blk)
    /\ pending' = pending \ {blk}
    /\ UNCHANGED <<chain, epochs>>

\* The TTL of a pooled transaction passes.
Age(t) ==
    /\ t \in pool \ expired
    /\ expired' = expired \cup {t}
    /\ UNCHANGED <<pool, nullifiers, treasuryDebits, coinbases, chain, epochs,
                   pending>>

\* Mutation of Tick: a single expired transaction is overlooked.
Tick_Several ==
    /\ Cardinality(expired) > 1
    /\ removeBlockTransactions(expired)
    /\ UNCHANGED <<chain, epochs, pending>>

\* The hourly tick of validationHandler.
Tick ==
    /\ expired # {}
    /\ removeBlockTransactions(expired)
    /\ UNCHANGED <<chain, epochs, pending>>

-----------------------------------------------------------------------------
\* Blockchain.ConnectBlock, seen from the mempool.  A body is not connected
\* again while the notification of its first block is on its way.
ConnectBlock(blk, root, epoch, struck) ==
    /\ blk \notin pending
    /\ Cardinality(pending) < MaxPending
    /\ validateBlock(chain, blk)
    /\ epoch => epochs < MaxEpochs
    /\ epochs' = IF epoch THEN epochs + 1 ELSE epochs
    /\ \E claims \in [Validators ->
            UNION {Claimable(chain, blk, epoch, Reward, v) : v \in Validators}] :
          /\ \A v \in Validators :
                claims[v] \in Claimable(chain, blk, epoch, Reward, v)
          /\ chain' = Connected(chain, blk, root, claims,
                                IF epoch THEN Reward ELSE 0, struck)
    /\ pending' = pending \cup {blk}
    /\ UNCHANGED poolVars

\* The restake window of a stake opens.
Restakable(s) ==
    /\ s \in chain.fresh
    /\ chain' = [chain EXCEPT !.fresh = @ \ {s}]
    /\ UNCHANGED <<poolVars, epochs, pending>>

\* At most the producer of the block is struck.
Struck == {{}} \cup {{v} : v \in Validators}

ProcessTransaction(t) ==
    \/ AdmitCoinbase(t)
    \/ AdmitSpend(t)
    \/ AdmitStake(t)
    \/ AdmitTreasury(t)

Next ==
    \/ \E t \in Txs : ProcessTransaction(t)
    \/ \E blk \in pending : RemoveBlock(blk)
    \/ \E t \in Txs : Age(t)
    \/ Tick
    \/ \E blk \in SUBSET Txs, root \in Roots, epoch \in BOOLEAN,
          struck \in Struck : ConnectBlock(blk, root, epoch, struck)
    \/ \E s \in Validators \X Nullifiers : Restakable(s)

Spec == Init /\ [][Next]_vars

\* Time passes, the ticker fires and a notification is delivered.
Fairness ==
    /\ \A t \in Txs : WF_vars(Age(t))
    /\ WF_vars(Tick)
    /\ \A blk \in SUBSET Txs : WF_vars(RemoveBlock(blk))

FairSpec == Spec /\ Fairness

-----------------------------------------------------------------------------
TypeOK ==
    /\ pool \subseteq Txs
    /\ expired \subseteq pool
    /\ DOMAIN nullifiers \subseteq Nullifiers
    /\ \A n \in DOMAIN nullifiers : nullifiers[n] \in Spends
    /\ DOMAIN treasuryDebits \subseteq Txs
    /\ \A t \in DOMAIN treasuryDebits : treasuryDebits[t] = Amount[t]
    /\ DOMAIN coinbases \subseteq Validators
    /\ \A v \in DOMAIN coinbases : coinbases[v] \in Txs
    /\ chain.spent \subseteq Nullifiers
    /\ chain.staked \subseteq Validators \X Nullifiers
    /\ pending \subseteq SUBSET Txs

\* Two pooled transactions never spend the same nullifier, and a validator
\* has at most one coinbase in the pool (validateTransaction: "nullifier
\* already in mempool", "We don't want two coinbases from the same validator").
NoConflictInPool ==
    \A t, u \in pool :
        t # u => /\ t \in Spends /\ u \in Spends => Nulls[t] \cap Nulls[u] = {}
                 /\ Kind[t] = "coinbase" /\ Kind[u] = "coinbase" =>
                      Owner[t] # Owner[u]

\* A pooled transaction whose nullifier a block has spent, possibly by a
\* different transaction, is one that a notification still on its way will
\* remove: whatever the order of admissions, blocks and notifications, the
\* pool is rid of double spends once it has caught up (removeBlockTransactions).
\* Nullifiers that were banned are not in any block and are left out.
SpentIsLeaving ==
    \A t \in pool \cap Spends :
        \A n \in (Nulls[t] \cap chain.spent) \ chain.banned :
            \E blk \in pending : n \in SpentBy(blk)

\* The indices agree with the pool: each pooled transaction owns its
\* nullifiers, its coinbase slot and its debit, and each slot and debit names
\* a pooled transaction.
Indexed ==
    /\ \A t \in pool \cap Spends :
          \A n \in Nulls[t] : n \in DOMAIN nullifiers /\ nullifiers[n] = t
    /\ \A t \in OfKind(pool, "coinbase") :
          Owner[t] \in DOMAIN coinbases /\ coinbases[Owner[t]] = t
    /\ \A v \in DOMAIN coinbases :
          /\ coinbases[v] \in OfKind(pool, "coinbase")
          /\ Owner[coinbases[v]] = v
    /\ DOMAIN treasuryDebits = OfKind(pool, "treasury")

\* The inductive invariant.
MempoolInv == TypeOK /\ Indexed /\ SpentIsLeaving /\ NoConflictInPool

\* The transactions the block generator takes from the pool: everything but
\* the spends of nullifiers that are staked in the pool (gen/generate.go).
Picked == {t \in pool :
             t \in Spends => \A u \in OfKind(pool, "stake") :
                                Nulls[t] \cap Nulls[u] = {}}

\* Once the mempool has caught up with the chain, the spends the generator
\* takes from it make a valid block (the comment on Mempool: it "holds valid
\* transactions", which "the block generation package uses ... to generate
\* blocks").  Nullifiers that a ban has added to the chain are excepted: nothing
\* removes the transactions that spend them.
Minable ==
    LET spends == Picked \cap Spends
    IN  pending = {} /\ chain.banned = {} /\ spends # {} =>
            validateBlock(chain, spends)

\* Every pooled transaction leaves the pool, by a block or by its TTL.
PoolDrains == \A t \in Txs : t \in pool ~> t \notin pool
=============================================================================
