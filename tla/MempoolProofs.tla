---------------------------- MODULE MempoolProofs ----------------------------
(***************************************************************************)
(* Proofs about Mempool: for every set of transactions, whatever they      *)
(* spend, and every order of admissions, blocks and notifications.         *)
(***************************************************************************)
EXTENDS Mempool, FiniteSetTheorems, WellFoundedInduction, TLAPS

\* What the indices say about the pool rules conflicts out: two transactions
\* cannot both be the owner of a nullifier or of a coinbase slot.
LEMMA IndexedExcludesConflicts ==
    ASSUME Indexed
    PROVE  NoConflictInPool
<1> SUFFICES ASSUME NEW t \in pool, NEW u \in pool, t # u
             PROVE  /\ t \in Spends /\ u \in Spends => Nulls[t] \cap Nulls[u] = {}
                    /\ Kind[t] = "coinbase" /\ Kind[u] = "coinbase" =>
                          Owner[t] # Owner[u]
  BY Zenon DEF NoConflictInPool
<1>1. t \in Spends /\ u \in Spends => Nulls[t] \cap Nulls[u] = {}
  BY SMT DEF Indexed
<1>2. Kind[t] = "coinbase" /\ Kind[u] = "coinbase" => Owner[t] # Owner[u]
  BY SMT DEF Indexed, OfKind
<1> QED
  BY <1>1, <1>2

\* removeBlockTransactions keeps the indices in step with the pool.  The
\* transactions it drops besides those in S are spends, and a spend that stays
\* keeps all its nullifiers.
LEMMA RemovalKeepsIndices ==
    ASSUME TypeOK, Indexed, NEW S \in SUBSET Txs, removeBlockTransactions(S)
    PROVE  /\ Indexed'
           /\ pool' \subseteq pool
           /\ expired' \subseteq pool'
           /\ \A t \in pool' \cap Spends : Nulls[t] \cap SpentBy(S) = {}
           /\ DOMAIN nullifiers' \subseteq DOMAIN nullifiers
           /\ \A n \in DOMAIN nullifiers' : nullifiers'[n] = nullifiers[n]
           /\ DOMAIN treasuryDebits' \subseteq DOMAIN treasuryDebits
           /\ \A t \in DOMAIN treasuryDebits' : treasuryDebits'[t] = treasuryDebits[t]
           /\ DOMAIN coinbases' \subseteq DOMAIN coinbases
           /\ \A v \in DOMAIN coinbases' : coinbases'[v] = coinbases[v]
<1> DEFINE found == SpentBy(S) \cap DOMAIN nullifiers
           gone  == S \cup {nullifiers[n] : n \in found}
<1>1. /\ pool' = pool \ gone
      /\ expired' = expired \ gone
      /\ nullifiers' = Without(nullifiers, found)
      /\ treasuryDebits' = Without(treasuryDebits, S)
      /\ coinbases' = Without(coinbases,
                              {v \in DOMAIN coinbases : coinbases[v] \in S})
  BY Zenon DEF removeBlockTransactions
<1>2. \A t \in gone \ S : t \in Spends
  BY SMT DEF TypeOK
<1>3. \A t \in pool \cap Spends : t \notin gone => Nulls[t] \cap found = {}
  BY SMT DEF Indexed
<1>4. \A t \in pool \cap Spends : t \notin gone => Nulls[t] \cap SpentBy(S) = {}
  BY <1>3, SMT DEF Indexed
<1>5. /\ DOMAIN nullifiers' = DOMAIN nullifiers \ found
      /\ \A n \in DOMAIN nullifiers' : nullifiers'[n] = nullifiers[n]
  BY <1>1, SMT DEF Without
<1>6. /\ DOMAIN treasuryDebits' = DOMAIN treasuryDebits \ S
      /\ \A t \in DOMAIN treasuryDebits' : treasuryDebits'[t] = treasuryDebits[t]
  BY <1>1, SMT DEF Without
<1>7. /\ DOMAIN coinbases' = {v \in DOMAIN coinbases : coinbases[v] \notin S}
      /\ \A v \in DOMAIN coinbases' : coinbases'[v] = coinbases[v]
  <2>1. DOMAIN coinbases' =
          DOMAIN coinbases \ {v \in DOMAIN coinbases : coinbases[v] \in S}
    BY <1>1, SMT DEF Without
  <2>2. \A v \in DOMAIN coinbases' : coinbases'[v] = coinbases[v]
    BY <1>1, SMT DEF Without
  <2> QED
    BY <2>1, <2>2, SMT
<1> HIDE DEF found, gone
<1>8. \A t \in pool' \cap Spends :
         \A n \in Nulls[t] : n \in DOMAIN nullifiers' /\ nullifiers'[n] = t
  BY <1>1, <1>3, <1>5, SMT DEF Indexed
<1>9. \A t \in OfKind(pool', "coinbase") :
         Owner[t] \in DOMAIN coinbases' /\ coinbases'[Owner[t]] = t
  <2> SUFFICES ASSUME NEW t \in OfKind(pool', "coinbase")
               PROVE  Owner[t] \in DOMAIN coinbases' /\ coinbases'[Owner[t]] = t
    OBVIOUS
  <2>1. t \in pool /\ t \notin gone /\ Kind[t] = "coinbase"
    BY <1>1, SMT DEF OfKind
  <2>2. Owner[t] \in DOMAIN coinbases /\ coinbases[Owner[t]] = t
    BY <2>1, SMT DEF Indexed, OfKind
  <2>3. t \notin S
    BY <2>1, Zenon DEF gone
  <2> QED
    BY <2>2, <2>3, <1>7, SMT
<1>10. \A v \in DOMAIN coinbases' :
          /\ coinbases'[v] \in OfKind(pool', "coinbase")
          /\ Owner[coinbases'[v]] = v
  <2> SUFFICES ASSUME NEW v \in DOMAIN coinbases'
               PROVE  /\ coinbases'[v] \in OfKind(pool', "coinbase")
                      /\ Owner[coinbases'[v]] = v
    OBVIOUS
  <2>1. v \in DOMAIN coinbases /\ coinbases[v] \notin S /\ coinbases'[v] = coinbases[v]
    BY <1>7, SMT
  <2>2. coinbases[v] \in pool /\ Kind[coinbases[v]] = "coinbase" /\ Owner[coinbases[v]] = v
    BY <2>1, SMT DEF Indexed, OfKind
  <2>3. coinbases[v] \notin gone
    BY <2>1, <2>2, <1>2, SMT DEF Spends
  <2> QED
    BY <2>1, <2>2, <2>3, <1>1, SMT DEF OfKind
<1>11. DOMAIN treasuryDebits' = OfKind(pool', "treasury")
  <2>1. DOMAIN treasuryDebits = OfKind(pool, "treasury")
    BY Zenon DEF Indexed
  <2>2. \A t : t \in OfKind(pool, "treasury") => (t \in gone <=> t \in S)
    BY <1>2, SMT DEF OfKind, Spends, gone
  <2> QED
    BY <2>1, <2>2, <1>1, <1>6, SMT DEF OfKind
<1>12. Indexed'
  BY <1>8, <1>9, <1>10, <1>11, Zenon DEF Indexed
<1>13. expired' \subseteq pool'
  BY <1>1, SMT DEF TypeOK
<1>14. pool' \subseteq pool
  BY <1>1, SMT
<1>15. \A t \in pool' \cap Spends : Nulls[t] \cap SpentBy(S) = {}
  BY <1>1, <1>4, SMT
<1> QED
  BY <1>5, <1>6, <1>7, <1>12, <1>13, <1>14, <1>15, SMT

LEMMA InitEstablishes == Init => MempoolInv
<1> SUFFICES ASSUME Init PROVE MempoolInv
  OBVIOUS
<1> USE TxAssumption, MempoolAssumption
<1>1. TypeOK
  BY SMT DEF Init, TypeOK, EmptyMap
<1>2. Indexed
  BY SMT DEF Init, Indexed, EmptyMap, OfKind
<1>3. SpentIsLeaving
  BY SMT DEF Init, SpentIsLeaving
<1> QED
  BY <1>1, <1>2, <1>3, IndexedExcludesConflicts, Zenon DEF MempoolInv

\* The invariant without the conjunct that follows from the others.
CoreInv == TypeOK /\ Indexed /\ SpentIsLeaving

LEMMA CoinbaseStep ==
    ASSUME CoreInv, NEW t \in Txs, AdmitCoinbase(t)
    PROVE  CoreInv'
<1> USE TxAssumption
<1> DEFINE old == IF Owner[t] \in DOMAIN coinbases THEN {coinbases[Owner[t]]}
                                                   ELSE {}
<1>1. /\ t \notin pool
      /\ Kind[t] = "coinbase"
      /\ pool' = (pool \ old) \cup {t}
      /\ expired' = expired \ old
      /\ coinbases' = With(coinbases, Owner[t], t)
      /\ UNCHANGED <<nullifiers, treasuryDebits, chain, epochs, pending>>
  BY Zenon DEF AdmitCoinbase, Admit
<1>2. /\ DOMAIN coinbases' = DOMAIN coinbases \cup {Owner[t]}
      /\ coinbases'[Owner[t]] = t
      /\ \A v \in DOMAIN coinbases : v # Owner[t] => coinbases'[v] = coinbases[v]
  BY <1>1, SMT DEF With
<1>3. \A u \in old : u \in pool /\ Kind[u] = "coinbase" /\ Owner[u] = Owner[t]
  BY SMT DEF CoreInv, Indexed, OfKind
<1>4. t \notin Spends /\ \A u \in old : u \notin Spends
  BY <1>1, <1>3, SMT DEF Spends
<1>5. TypeOK'
  <2>1. pool' \subseteq Txs /\ expired' \subseteq pool'
    BY <1>1, SMT DEF CoreInv, TypeOK
  <2>2. /\ DOMAIN coinbases' \subseteq Validators
        /\ \A v \in DOMAIN coinbases' : coinbases'[v] \in Txs
    BY <1>2, SMT DEF CoreInv, TypeOK
  <2> QED
    BY <1>1, <2>1, <2>2, SMT DEF CoreInv, TypeOK
<1>6. Indexed'
  <2>1. \A u \in pool' \cap Spends :
           \A n \in Nulls[u] : n \in DOMAIN nullifiers' /\ nullifiers'[n] = u
    BY <1>1, <1>4, SMT DEF CoreInv, Indexed
  <2>2. \A u \in OfKind(pool', "coinbase") :
           Owner[u] \in DOMAIN coinbases' /\ coinbases'[Owner[u]] = u
    <3> SUFFICES ASSUME NEW u \in OfKind(pool', "coinbase"), u # t
                 PROVE  Owner[u] \in DOMAIN coinbases' /\ coinbases'[Owner[u]] = u
      BY <1>2, Zenon
    <3>1. u \in pool /\ u \notin old /\ Kind[u] = "coinbase"
      BY <1>1, SMT DEF OfKind
    <3>2. Owner[u] \in DOMAIN coinbases /\ coinbases[Owner[u]] = u
      BY <3>1, SMT DEF CoreInv, Indexed, OfKind
    <3>3. Owner[u] # Owner[t]
      BY <3>1, <3>2, SMT
    <3> QED
      BY <1>2, <3>2, <3>3, SMT
  <2>3. \A v \in DOMAIN coinbases' :
           /\ coinbases'[v] \in OfKind(pool', "coinbase")
           /\ Owner[coinbases'[v]] = v
    <3> SUFFICES ASSUME NEW v \in DOMAIN coinbases'
                 PROVE  /\ coinbases'[v] \in OfKind(pool', "coinbase")
                        /\ Owner[coinbases'[v]] = v
      OBVIOUS
    <3>1. CASE v = Owner[t]
      BY <3>1, <1>1, <1>2, SMT DEF OfKind
    <3>2. CASE v # Owner[t]
      <4>1. v \in DOMAIN coinbases /\ coinbases'[v] = coinbases[v]
        BY <3>2, <1>2, SMT
      <4>2. /\ coinbases[v] \in pool
            /\ Kind[coinbases[v]] = "coinbase"
            /\ Owner[coinbases[v]] = v
        BY <4>1, SMT DEF CoreInv, Indexed, OfKind
      <4>3. coinbases[v] \notin old
        BY <4>2, <1>3, <3>2, SMT
      <4> QED
        BY <4>1, <4>2, <4>3, <1>1, SMT DEF OfKind
    <3> QED
      BY <3>1, <3>2
  <2>4. DOMAIN treasuryDebits' = OfKind(pool', "treasury")
    BY <1>1, <1>3, SMT DEF CoreInv, Indexed, OfKind
  <2> QED
    BY <2>1, <2>2, <2>3, <2>4, Zenon DEF Indexed
<1>7. SpentIsLeaving'
  BY <1>1, <1>4, SMT DEF CoreInv, SpentIsLeaving
<1> QED
  BY <1>5, <1>6, <1>7, Zenon DEF CoreInv

LEMMA SpendStep ==
    ASSUME CoreInv, NEW t \in Txs, AdmitSpend(t)
    PROVE  CoreInv'
<1> USE TxAssumption
<1>1. /\ t \notin pool
      /\ t \in Spends
      /\ Nulls[t] \cap DOMAIN nullifiers = {}
      /\ Nulls[t] \cap chain.spent = {}
      /\ pool' = pool \cup {t}
      /\ nullifiers' = [n \in DOMAIN nullifiers \cup Nulls[t] |->
                          IF n \in Nulls[t] THEN t ELSE nullifiers[n]]
      /\ UNCHANGED <<expired, treasuryDebits, coinbases, chain, epochs, pending>>
  BY Zenon DEF AdmitSpend, Admit, SpendOK
<1>2. /\ DOMAIN nullifiers' = DOMAIN nullifiers \cup Nulls[t]
      /\ \A n \in Nulls[t] : nullifiers'[n] = t
      /\ \A n \in DOMAIN nullifiers : nullifiers'[n] = nullifiers[n]
  BY <1>1, SMT
<1>3. Kind[t] # "coinbase" /\ Kind[t] # "treasury"
  BY <1>1, SMT DEF Spends
<1>4. TypeOK'
  BY <1>1, <1>2, SMT DEF CoreInv, TypeOK
<1>5. Indexed'
  <2>1. \A u \in pool' \cap Spends :
           \A n \in Nulls[u] : n \in DOMAIN nullifiers' /\ nullifiers'[n] = u
    BY <1>1, <1>2, SMT DEF CoreInv, Indexed
  <2>2. OfKind(pool', "coinbase") = OfKind(pool, "coinbase")
    BY <1>1, <1>3, SMT DEF OfKind
  <2>3. OfKind(pool', "treasury") = OfKind(pool, "treasury")
    BY <1>1, <1>3, SMT DEF OfKind
  <2>4. \A u \in OfKind(pool', "coinbase") :
           Owner[u] \in DOMAIN coinbases' /\ coinbases'[Owner[u]] = u
    BY <1>1, <2>2, Zenon DEF CoreInv, Indexed
  <2>5. \A v \in DOMAIN coinbases' :
           /\ coinbases'[v] \in OfKind(pool', "coinbase")
           /\ Owner[coinbases'[v]] = v
    BY <1>1, <2>2, Zenon DEF CoreInv, Indexed
  <2>6. DOMAIN treasuryDebits' = OfKind(pool', "treasury")
    BY <1>1, <2>3, Zenon DEF CoreInv, Indexed
  <2> QED
    BY <2>1, <2>4, <2>5, <2>6, Zenon DEF Indexed
<1>6. SpentIsLeaving'
  BY <1>1, SMT DEF CoreInv, SpentIsLeaving
<1> QED
  BY <1>4, <1>5, <1>6, Zenon DEF CoreInv

LEMMA StakeStep ==
    ASSUME CoreInv, NEW t \in Txs, AdmitStake(t)
    PROVE  CoreInv'
<1> USE TxAssumption
<1>1. /\ Kind[t] = "stake"
      /\ pool' = pool \cup {t}
      /\ UNCHANGED <<expired, nullifiers, treasuryDebits, coinbases, chain,
                     epochs, pending>>
  BY Zenon DEF AdmitStake, Admit
<1>2. /\ OfKind(pool', "coinbase") = OfKind(pool, "coinbase")
      /\ OfKind(pool', "treasury") = OfKind(pool, "treasury")
  BY <1>1, SMT DEF OfKind
<1>3. pool' \cap Spends = pool \cap Spends
  BY <1>1, SMT DEF Spends
<1>4. TypeOK'
  BY <1>1, SMT DEF CoreInv, TypeOK
<1>5. Indexed'
  <2>1. \A u \in pool' \cap Spends :
           \A n \in Nulls[u] : n \in DOMAIN nullifiers' /\ nullifiers'[n] = u
    BY <1>1, <1>3, Zenon DEF CoreInv, Indexed
  <2>2. \A u \in OfKind(pool', "coinbase") :
           Owner[u] \in DOMAIN coinbases' /\ coinbases'[Owner[u]] = u
    BY <1>1, <1>2, Zenon DEF CoreInv, Indexed
  <2>3. \A v \in DOMAIN coinbases' :
           /\ coinbases'[v] \in OfKind(pool', "coinbase")
           /\ Owner[coinbases'[v]] = v
    BY <1>1, <1>2, Zenon DEF CoreInv, Indexed
  <2>4. DOMAIN treasuryDebits' = OfKind(pool', "treasury")
    BY <1>1, <1>2, Zenon DEF CoreInv, Indexed
  <2> QED
    BY <2>1, <2>2, <2>3, <2>4, Zenon DEF Indexed
<1>6. SpentIsLeaving'
  BY <1>1, <1>3, SMT DEF CoreInv, SpentIsLeaving
<1> QED
  BY <1>4, <1>5, <1>6, Zenon DEF CoreInv

LEMMA TreasuryStep ==
    ASSUME CoreInv, NEW t \in Txs, AdmitTreasury(t)
    PROVE  CoreInv'
<1> USE TxAssumption
<1>1. /\ Kind[t] = "treasury"
      /\ pool' = pool \cup {t}
      /\ treasuryDebits' = With(treasuryDebits, t, Amount[t])
      /\ UNCHANGED <<expired, nullifiers, coinbases, chain, epochs, pending>>
  BY Zenon DEF AdmitTreasury, Admit
<1>2. /\ DOMAIN treasuryDebits' = DOMAIN treasuryDebits \cup {t}
      /\ treasuryDebits'[t] = Amount[t]
      /\ \A u \in DOMAIN treasuryDebits : u # t => treasuryDebits'[u] = treasuryDebits[u]
  BY <1>1, SMT DEF With
<1>3. OfKind(pool', "coinbase") = OfKind(pool, "coinbase")
  BY <1>1, SMT DEF OfKind
<1>4. OfKind(pool', "treasury") = OfKind(pool, "treasury") \cup {t}
  BY <1>1, SMT DEF OfKind
<1>5. pool' \cap Spends = pool \cap Spends
  BY <1>1, SMT DEF Spends
<1>6. TypeOK'
  <2>1. /\ DOMAIN treasuryDebits' \subseteq Txs
        /\ \A u \in DOMAIN treasuryDebits' : treasuryDebits'[u] = Amount[u]
    BY <1>2, SMT DEF CoreInv, TypeOK
  <2> QED
    BY <1>1, <2>1, SMT DEF CoreInv, TypeOK
<1>7. Indexed'
  <2>1. \A u \in pool' \cap Spends :
           \A n \in Nulls[u] : n \in DOMAIN nullifiers' /\ nullifiers'[n] = u
    BY <1>1, <1>5, Zenon DEF CoreInv, Indexed
  <2>2. \A u \in OfKind(pool', "coinbase") :
           Owner[u] \in DOMAIN coinbases' /\ coinbases'[Owner[u]] = u
    BY <1>1, <1>3, Zenon DEF CoreInv, Indexed
  <2>3. \A v \in DOMAIN coinbases' :
           /\ coinbases'[v] \in OfKind(pool', "coinbase")
           /\ Owner[coinbases'[v]] = v
    BY <1>1, <1>3, Zenon DEF CoreInv, Indexed
  <2>4. DOMAIN treasuryDebits' = OfKind(pool', "treasury")
    BY <1>2, <1>4, Zenon DEF CoreInv, Indexed
  <2> QED
    BY <2>1, <2>2, <2>3, <2>4, Zenon DEF Indexed
<1>8. SpentIsLeaving'
  BY <1>1, <1>5, SMT DEF CoreInv, SpentIsLeaving
<1> QED
  BY <1>6, <1>7, <1>8, Zenon DEF CoreInv

LEMMA RemovalStep ==
    ASSUME CoreInv, NEW S \in SUBSET Txs, removeBlockTransactions(S),
           chain' = chain, pending' \subseteq pending,
           \A blk \in pending : blk \in pending' \/ blk = S
    PROVE  CoreInv'
<1>1. TypeOK /\ Indexed /\ SpentIsLeaving
  BY Zenon DEF CoreInv
<1>2. /\ Indexed'
      /\ pool' \subseteq pool
      /\ expired' \subseteq pool'
      /\ \A t \in pool' \cap Spends : Nulls[t] \cap SpentBy(S) = {}
      /\ DOMAIN nullifiers' \subseteq DOMAIN nullifiers
      /\ \A n \in DOMAIN nullifiers' : nullifiers'[n] = nullifiers[n]
      /\ DOMAIN treasuryDebits' \subseteq DOMAIN treasuryDebits
      /\ \A t \in DOMAIN treasuryDebits' : treasuryDebits'[t] = treasuryDebits[t]
      /\ DOMAIN coinbases' \subseteq DOMAIN coinbases
      /\ \A v \in DOMAIN coinbases' : coinbases'[v] = coinbases[v]
  BY <1>1, RemovalKeepsIndices
<1>3. TypeOK'
  BY <1>1, <1>2, SMT DEF TypeOK
<1>4. SpentIsLeaving'
  <2> SUFFICES ASSUME NEW t \in pool' \cap Spends,
                      NEW n \in (Nulls[t] \cap chain.spent) \ chain.banned
               PROVE  \E blk \in pending' : n \in SpentBy(blk)
    BY Zenon DEF SpentIsLeaving
  <2>1. PICK blk \in pending : n \in SpentBy(blk)
    BY <1>1, <1>2, Zenon DEF SpentIsLeaving
  <2>2. n \notin SpentBy(S)
    BY <1>2, SMT
  <2> QED
    BY <2>1, <2>2
<1> QED
  BY <1>2, <1>3, <1>4, Zenon DEF CoreInv

LEMMA ConnectStep ==
    ASSUME CoreInv, NEW blk \in SUBSET Txs, NEW root \in Roots,
           NEW epoch \in BOOLEAN, NEW struck \in SUBSET Validators,
           ConnectBlock(blk, root, epoch, struck)
    PROVE  CoreInv'
<1> USE TxAssumption
<1>1. PICK claims :
         chain' = Connected(chain, blk, root, claims,
                            IF epoch THEN Reward ELSE 0, struck)
  BY Zenon DEF ConnectBlock
<1>2. /\ pending' = pending \cup {blk}
      /\ UNCHANGED <<pool, expired, nullifiers, treasuryDebits, coinbases>>
  BY Zenon DEF ConnectBlock, poolVars
<1> DEFINE new  == UNION {{Owner[t]} \X Nulls[t] : t \in OfKind(blk, "stake")}
           left == {s \in chain.staked \cup new : s[2] \notin SpentBy(blk)}
           ban  == {s \in left : s[1] \in struck}
           lost == {s[2] : s \in ban}
<1>3. /\ chain'.spent = chain.spent \cup SpentBy(blk) \cup lost
      /\ chain'.banned = chain.banned \cup lost
      /\ chain'.staked = left \ ban
  BY <1>1, Zenon DEF Connected
<1>4. new \subseteq Validators \X Nullifiers
  BY SMT DEF OfKind
<1>5. chain.staked \subseteq Validators \X Nullifiers
  BY SMT DEF CoreInv, TypeOK
<1> HIDE DEF new
<1>6. left \subseteq Validators \X Nullifiers
  BY <1>4, <1>5, SMT
<1> HIDE DEF left
<1>7. lost \subseteq Nullifiers
  BY <1>6, SMT
<1>8. SpentBy(blk) \subseteq Nullifiers
  BY SMT DEF SpentBy
<1> HIDE DEF ban, lost
<1>9. TypeOK'
  BY <1>2, <1>3, <1>6, <1>7, <1>8, SMT DEF CoreInv, TypeOK
<1>10. Indexed'
  BY <1>2, Zenon DEF CoreInv, Indexed
<1>11. SpentIsLeaving'
  BY <1>2, <1>3, SMT DEF CoreInv, SpentIsLeaving
<1> QED
  BY <1>9, <1>10, <1>11, Zenon DEF CoreInv

LEMMA StepPreserves == MempoolInv /\ [Next]_vars => MempoolInv'
<1> SUFFICES ASSUME CoreInv, [Next]_vars
             PROVE  CoreInv'
  BY IndexedExcludesConflicts, PTL DEF MempoolInv, CoreInv
<1>1. ASSUME NEW t \in Txs, ProcessTransaction(t) PROVE CoreInv'
  BY <1>1, CoinbaseStep, SpendStep, StakeStep, TreasuryStep, Zenon DEF ProcessTransaction
<1>2. ASSUME NEW blk \in pending, RemoveBlock(blk) PROVE CoreInv'
  <2>1. blk \in SUBSET Txs
    BY SMT DEF CoreInv, TypeOK
  <2>2. /\ removeBlockTransactions(blk)
        /\ pending' = pending \ {blk}
        /\ chain' = chain
    BY <1>2, Zenon DEF RemoveBlock
  <2>3. \A b \in pending : b \in pending' \/ b = blk
    BY <2>2
  <2> QED
    BY <2>1, <2>2, <2>3, RemovalStep, SMT
<1>3. ASSUME NEW t \in Txs, Age(t) PROVE CoreInv'
  <2>1. /\ t \in pool
        /\ expired' = expired \cup {t}
        /\ UNCHANGED <<pool, nullifiers, treasuryDebits, coinbases, chain,
                       epochs, pending>>
    BY <1>3, Zenon DEF Age
  <2>2. TypeOK'
    BY <2>1, SMT DEF CoreInv, TypeOK
  <2>3. Indexed' /\ SpentIsLeaving'
    BY <2>1, Zenon DEF CoreInv, Indexed, SpentIsLeaving
  <2> QED
    BY <2>2, <2>3, Zenon DEF CoreInv
<1>4. ASSUME Tick PROVE CoreInv'
  <2>1. expired \in SUBSET Txs
    BY SMT DEF CoreInv, TypeOK
  <2>2. removeBlockTransactions(expired) /\ UNCHANGED <<chain, pending>>
    BY <1>4, Zenon DEF Tick
  <2> QED
    BY <2>1, <2>2, RemovalStep, SMT
<1>5. ASSUME NEW blk \in SUBSET Txs, NEW root \in Roots, NEW epoch \in BOOLEAN,
             NEW struck \in Struck, ConnectBlock(blk, root, epoch, struck)
      PROVE  CoreInv'
  <2>1. struck \in SUBSET Validators
    BY SMT DEF Struck
  <2> QED
    BY <1>5, <2>1, ConnectStep
<1>6. ASSUME NEW s, Restakable(s) PROVE CoreInv'
  <2>1. /\ chain' = [chain EXCEPT !.fresh = @ \ {s}]
        /\ UNCHANGED <<pool, expired, nullifiers, treasuryDebits, coinbases,
                       pending>>
    BY <1>6, Zenon DEF Restakable, poolVars
  <2>2. /\ chain'.spent = chain.spent
        /\ chain'.banned = chain.banned
        /\ chain'.staked = chain.staked
    BY <2>1, SMT
  <2>3. TypeOK'
    BY <2>1, <2>2, SMT DEF CoreInv, TypeOK
  <2>4. Indexed' /\ SpentIsLeaving'
    BY <2>1, <2>2, SMT DEF CoreInv, Indexed, SpentIsLeaving
  <2> QED
    BY <2>3, <2>4, Zenon DEF CoreInv
<1>7. CASE UNCHANGED vars
  BY <1>7, SMT DEF vars, poolVars, CoreInv, TypeOK, Indexed, SpentIsLeaving
<1> QED
  BY <1>1, <1>2, <1>3, <1>4, <1>5, <1>6, <1>7, Zenon DEF Next

\* The mempool's invariant holds in every reachable state.
THEOREM MempoolInvariant == Spec => []MempoolInv
BY InitEstablishes, StepPreserves, PTL DEF Spec

\* Two pooled transactions never spend the same nullifier and a validator has
\* at most one pooled coinbase.
THEOREM NoConflictInPoolHolds == Spec => []NoConflictInPool
<1>1. MempoolInv => NoConflictInPool
  BY DEF MempoolInv
<1> QED
  BY <1>1, MempoolInvariant, PTL

\* A pooled double spend is always about to be removed by a notification.
THEOREM SpentIsLeavingHolds == Spec => []SpentIsLeaving
<1>1. MempoolInv => SpentIsLeaving
  BY DEF MempoolInv
<1> QED
  BY <1>1, MempoolInvariant, PTL

\* The mempool's indices agree with its pool in every reachable state.
THEOREM IndexedHolds == Spec => []Indexed
<1>1. MempoolInv => Indexed
  BY DEF MempoolInv
<1> QED
  BY <1>1, MempoolInvariant, PTL

-----------------------------------------------------------------------------
(* What the generator takes from the pool is a valid block.                *)

\* g is the sum that TreasuryTotal computes, for every set of transactions of S.
IsSum(g, S) ==
    g = [s \in SUBSET S |->
           IF s = {} THEN 0
           ELSE Amount[CHOOSE t \in s : TRUE] + g[s \ {CHOOSE t \in s : TRUE}]]

\* A set of numbers that is not empty has a least element.
LEMMA LeastNat ==
    ASSUME NEW T \in SUBSET Nat, T # {}
    PROVE  \E n \in T : \A m \in T : ~(m < n)
<1> DEFINE R == {ss \in Nat \X Nat : ss[1] < ss[2]}
<1>1. IsWellFoundedOn(R, Nat)
  BY NatLessThanWellFounded, Zenon DEF OpToRel
<1>2. PICK n \in T : \A m \in T : <<m, n>> \notin R
  <2> HIDE DEF R
  <2> QED
    BY <1>1, WFMin
<1> QED
  BY <1>2

\* The recursion of a sum ends: a function that is right for the sets of up to
\* n transactions gives one that is right for those of up to n + 1.
LEMMA SumExists ==
    ASSUME NEW S \in SUBSET Txs
    PROVE  \E g \in [SUBSET S -> Nat] : IsSum(g, S)
<1> DEFINE pick(s) == CHOOSE t \in s : TRUE
           step(g, s) == IF s = {} THEN 0 ELSE Amount[pick(s)] + g[s \ {pick(s)}]
           Right(g, n) == \A s \in SUBSET S : Cardinality(s) <= n => g[s] = step(g, s)
           T == {n \in Nat : ~ \E g \in [SUBSET S -> Nat] : Right(g, n)}
<1>1. IsFiniteSet(S) /\ \A s \in SUBSET S : IsFiniteSet(s) /\ Cardinality(s) \in Nat
  BY TxAssumption, FS_Subset, FS_CardinalityType
<1>2. \A s \in SUBSET S : s # {} =>
         /\ pick(s) \in s /\ s \ {pick(s)} \in SUBSET S /\ Amount[pick(s)] \in Nat
         /\ Cardinality(s \ {pick(s)}) = Cardinality(s) - 1
  <2> SUFFICES ASSUME NEW s \in SUBSET S, s # {}
               PROVE  /\ pick(s) \in s /\ s \ {pick(s)} \in SUBSET S /\ Amount[pick(s)] \in Nat
                      /\ Cardinality(s \ {pick(s)}) = Cardinality(s) - 1
    OBVIOUS
  <2>1. pick(s) \in s
    OBVIOUS
  <2> HIDE DEF pick
  <2>2. Amount[pick(s)] \in Nat
    BY <2>1, TxAssumption
  <2>3. Cardinality(s \ {pick(s)}) = Cardinality(s) - 1
    BY <2>1, <1>1, FS_RemoveElement
  <2> QED
    BY <2>1, <2>2, <2>3
<1> HIDE DEF pick
<1>3. T = {}
  <2>1. SUFFICES ASSUME T # {} PROVE FALSE
    OBVIOUS
  <2>2. PICK n \in T : \A m \in T : ~(m < n)
    <3>1. T \in SUBSET Nat
      OBVIOUS
    <3> HIDE DEF T
    <3> QED
      BY <2>1, <3>1, LeastNat
  <2>3. n \in Nat /\ ~ \E g \in [SUBSET S -> Nat] : Right(g, n)
    BY <2>2
  <2>4. CASE n = 0
    <3> DEFINE z == [s \in SUBSET S |-> 0]
    <3>1. \A s \in SUBSET S : Cardinality(s) <= 0 => s = {}
      BY <1>1, FS_EmptySet
    <3>2. z \in [SUBSET S -> Nat] /\ Right(z, n)
      BY <2>4, <3>1
    <3> QED
      BY <2>3, <3>2
  <2>5. CASE n # 0
    <3>1. n - 1 \in Nat /\ n - 1 < n
      BY <2>3, <2>5
    <3>2. n - 1 \notin T
      <4> HIDE DEF T
      <4> QED
        BY <2>2, <3>1
    <3>3. PICK g \in [SUBSET S -> Nat] : Right(g, n - 1)
      <4> HIDE DEF Right
      <4> QED
        BY <3>1, <3>2
    <3> DEFINE h == [s \in SUBSET S |-> step(g, s)]
    <3>4. ASSUME NEW s \in SUBSET S PROVE step(g, s) \in Nat
      <4>1. CASE s = {}
        BY <4>1
      <4>2. CASE s # {}
        <5>1. Amount[pick(s)] \in Nat /\ g[s \ {pick(s)}] \in Nat
          BY <1>2, <4>2
        <5> QED
          BY <4>2, <5>1
      <4> QED
        BY <4>1, <4>2
    <3>5. h \in [SUBSET S -> Nat]
      <4> HIDE DEF step
      <4> QED
        BY <3>4
    <3>6. ASSUME NEW s \in SUBSET S, Cardinality(s) <= n
          PROVE  h[s] = step(h, s)
      <4>1. CASE s = {}
        BY <4>1
      <4>2. CASE s # {}
        <5>1. Cardinality(s \ {pick(s)}) <= n - 1 /\ s \ {pick(s)} \in SUBSET S
          BY <1>1, <1>2, <3>6, <4>2, <2>3
        <5>2. g[s \ {pick(s)}] = h[s \ {pick(s)}]
          BY <5>1, <3>3
        <5> QED
          BY <4>2, <5>2
      <4> QED
        BY <4>1, <4>2
    <3> HIDE DEF h
    <3>7. Right(h, n)
      BY <3>6
    <3> QED
      BY <2>3, <3>5, <3>7
  <2> QED
    BY <2>4, <2>5
<1>4. PICK g \in [SUBSET S -> Nat] : Right(g, Cardinality(S))
  <2>1. Cardinality(S) \in Nat
    BY <1>1
  <2> HIDE DEF Right
  <2> QED
    BY <1>3, <2>1
<1>5. \A s \in SUBSET S : g[s] = step(g, s)
  BY <1>1, <1>4, FS_Subset
<1>6. g = [s \in SUBSET S |-> step(g, s)]
  <2> HIDE DEF step
  <2> QED BY <1>5
<1>7. IsSum(g, S)
  BY <1>6, Zenon DEF IsSum, pick
<1> QED
  BY <1>7

\* There is one such function.
LEMMA SumUnique ==
    ASSUME NEW S \in SUBSET Txs, NEW g \in [SUBSET S -> Nat], IsSum(g, S), NEW h, IsSum(h, S)
    PROVE  h[S] = g[S]
<1> DEFINE pick(s) == CHOOSE t \in s : TRUE
           T == {n \in Nat : \E s \in SUBSET S : Cardinality(s) = n /\ h[s] # g[s]}
<1>1. \A s \in SUBSET S : IsFiniteSet(s) /\ Cardinality(s) \in Nat
  BY TxAssumption, FS_Subset, FS_CardinalityType
<1>2. SUFFICES ASSUME T # {} PROVE FALSE
  BY <1>1
<1>3. PICK n \in T : \A m \in T : ~(m < n)
  <2>1. T \in SUBSET Nat
    OBVIOUS
  <2> HIDE DEF T
  <2> QED
    BY <1>2, <2>1, LeastNat
<1>4. PICK s \in SUBSET S : Cardinality(s) = n /\ h[s] # g[s]
  BY <1>3
<1>5. /\ g[s] = IF s = {} THEN 0 ELSE Amount[pick(s)] + g[s \ {pick(s)}]
      /\ h[s] = IF s = {} THEN 0 ELSE Amount[pick(s)] + h[s \ {pick(s)}]
  BY Zenon DEF IsSum
<1>6. s # {}
  BY <1>4, <1>5
<1>7. pick(s) \in s
  BY <1>6
<1> HIDE DEF pick
<1>8. s \ {pick(s)} \in SUBSET S /\ Cardinality(s \ {pick(s)}) = n - 1
  BY <1>1, <1>4, <1>7, FS_RemoveElement
<1>9. n - 1 \in T
  BY <1>1, <1>4, <1>5, <1>6, <1>8
<1> QED
  BY <1>3, <1>9

\* The debits of a block add up to a number; a block without any adds nothing.
LEMMA TreasuryTotalIs ==
    ASSUME NEW blk \in SUBSET Txs
    PROVE  /\ TreasuryTotal(blk) \in Nat
           /\ OfKind(blk, "treasury") = {} => TreasuryTotal(blk) = 0
<1>1. PICK S : S = OfKind(blk, "treasury")
  OBVIOUS
<1>2. S \in SUBSET Txs
  BY <1>1 DEF OfKind
<1>3. PICK h : h = CHOOSE g : IsSum(g, S)
  OBVIOUS
<1>4. TreasuryTotal(blk) = h[S]
  BY <1>1, <1>3, Zenon DEF TreasuryTotal, MapThenSumSet, MapThenFoldSet, IsSum
<1>5. PICK g \in [SUBSET S -> Nat] : IsSum(g, S)
  BY <1>2, SumExists
<1>6. IsSum(h, S)
  BY <1>3, <1>5
<1>7. h[S] = g[S]
  BY <1>2, <1>5, <1>6, SumUnique
<1>8. S = {} => g[S] = 0
  BY <1>5, Zenon DEF IsSum
<1> QED
  BY <1>1, <1>4, <1>5, <1>7, <1>8

\* What Minable needs beyond the invariant: a pooled spend refers to a root of
\* the chain, which keeps its roots, and the treasury never pays more than it
\* has.
MinableInv ==
    /\ \A t \in pool \cap Spends : RootOf[t] \in chain.roots
    /\ chain.balance \in Nat

LEMMA MinableStep == MempoolInv /\ MinableInv /\ [Next]_vars => MinableInv'
<1> SUFFICES ASSUME MempoolInv, MinableInv, [Next]_vars
             PROVE  MinableInv'
  OBVIOUS
<1>1. ASSUME NEW t \in Txs, ProcessTransaction(t) PROVE MinableInv'
  <2>1. chain' = chain
    BY <1>1, Zenon DEF ProcessTransaction, AdmitCoinbase, AdmitSpend, AdmitStake,
                       AdmitTreasury, Admit
  <2>2. CASE AdmitSpend(t)
    <3>1. pool' = pool \cup {t} /\ RootOf[t] \in chain.roots
      BY <2>2, Zenon DEF AdmitSpend, SpendOK
    <3> QED
      BY <2>1, <3>1 DEF MinableInv
  <2>3. CASE AdmitCoinbase(t) \/ AdmitStake(t) \/ AdmitTreasury(t)
    <3>1. pool' \subseteq pool \cup {t} /\ t \notin Spends
      BY <2>3 DEF AdmitCoinbase, AdmitStake, AdmitTreasury, Spends
    <3> QED
      BY <2>1, <3>1 DEF MinableInv
  <2> QED
    BY <1>1, <2>2, <2>3, Zenon DEF ProcessTransaction
<1>2. ASSUME chain' = chain, pool' \subseteq pool PROVE MinableInv'
  BY <1>2 DEF MinableInv
<1>3. ASSUME NEW blk \in pending, RemoveBlock(blk) PROVE MinableInv'
  BY <1>2, <1>3 DEF RemoveBlock, removeBlockTransactions
<1>4. ASSUME NEW t \in Txs, Age(t) PROVE MinableInv'
  BY <1>2, <1>4 DEF Age
<1>5. CASE Tick
  BY <1>2, <1>5 DEF Tick, removeBlockTransactions
<1>6. ASSUME NEW blk \in SUBSET Txs, NEW root \in Roots, NEW epoch \in BOOLEAN,
             NEW struck \in Struck, ConnectBlock(blk, root, epoch, struck)
      PROVE  MinableInv'
  <2> DEFINE credit == IF epoch THEN Reward ELSE 0
  <2>1. PICK claims : chain' = Connected(chain, blk, root, claims, credit, struck)
    BY <1>6, Zenon DEF ConnectBlock
  <2>2. /\ chain'.roots = chain.roots \cup {root}
        /\ chain'.balance = (chain.balance - TreasuryTotal(blk)) + credit
    BY <2>1, Zenon DEF Connected
  <2>3. pool' = pool /\ TreasuryTotal(blk) <= chain.balance
    BY <1>6, Zenon DEF ConnectBlock, poolVars, validateBlock
  <2>4. TreasuryTotal(blk) \in Nat
    BY TreasuryTotalIs
  <2>5. chain'.balance \in Nat
    BY <2>2, <2>3, <2>4, MempoolAssumption DEF MinableInv
  <2> QED
    BY <2>2, <2>3, <2>5 DEF MinableInv
<1>7. ASSUME NEW s, Restakable(s) PROVE MinableInv'
  <2>1. chain' = [chain EXCEPT !.fresh = @ \ {s}] /\ pool' = pool
    BY <1>7, Zenon DEF Restakable, poolVars
  <2>2. chain'.roots = chain.roots /\ chain'.balance = chain.balance
    BY <2>1, SMT
  <2> QED
    BY <2>1, <2>2 DEF MinableInv
<1>8. CASE UNCHANGED vars
  BY <1>2, <1>8, Zenon DEF vars, poolVars
<1> QED
  BY <1>1, <1>3, <1>4, <1>5, <1>6, <1>7, <1>8, Zenon DEF Next

LEMMA MinableFollows == MempoolInv /\ MinableInv => Minable
<1> DEFINE spends == Picked \cap Spends
<1> SUFFICES ASSUME MempoolInv, MinableInv, pending = {}, chain.banned = {}, spends # {}
             PROVE  validateBlock(chain, spends)
  BY Zenon DEF Minable
<1>1. spends \subseteq pool \cap Spends /\ spends \in SUBSET Txs
  BY DEF Picked, MempoolInv, TypeOK
<1>2. /\ OfKind(spends, "coinbase") = {} /\ OfKind(spends, "stake") = {}
      /\ OfKind(spends, "treasury") = {}
  BY <1>1 DEF OfKind, Spends
<1>3. \A t \in pool \cap Spends : SpendOK(chain, t)
  BY DEF MempoolInv, SpentIsLeaving, MinableInv, SpendOK
<1>4. \A t, u \in pool \cap Spends : u # t => Nulls[u] \cap Nulls[t] = {}
  BY DEF MempoolInv, NoConflictInPool
<1>5. TreasuryTotal(spends) <= chain.balance
  BY <1>1, <1>2, TreasuryTotalIs DEF MinableInv
<1> HIDE DEF spends
<1> QED
  BY <1>1, <1>2, <1>3, <1>4, <1>5, Zenon DEF validateBlock

\* Once the mempool has heard of every block, the spends the generator takes
\* from it make a block that validateBlock accepts, unless a ban has added to
\* the spent nullifiers.
THEOREM PoolAlwaysMinable == Spec => []Minable
<1>1. Init => MinableInv
  BY MempoolAssumption DEF Init, MinableInv
<1> QED
  BY <1>1, MempoolInvariant, MinableStep, MinableFollows, PTL DEF Spec
=============================================================================
