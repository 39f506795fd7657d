------------------------- MODULE ValidatorSetProofs -------------------------
(* Proofs about ValidatorSet, for any validators, coins and blocks.         *)
EXTENDS ValidatorSet, FiniteSetTheorems, WellFoundedInduction, TLAPS

\* What a flush leaves on disk is in the set (VsTransction.Commit, flushToDisk).
LEMMA CommitNoneReturns ==
    ASSUME NoneReturns,
           NEW updates, NEW owner, NEW deleted, NEW flush \in BOOLEAN,
           Commit(updates, owner, deleted, flush)
    PROVE  NoneReturns'
<1> DEFINE all     == [v \in DOMAIN validators \cup DOMAIN updates |->
                         IF v \in DOMAIN updates THEN updates[v] ELSE validators[v]]
           vals    == Without(all, Empty(updates))
           dropped == toDelete \cup Empty(updates)
<1>1. /\ validators' = vals
      /\ toDelete' = IF flush THEN {} ELSE dropped
      /\ disk' = IF flush THEN Flushed(vals, dropped) ELSE disk
  BY DEF Commit
<1>2. DOMAIN vals = (DOMAIN validators \cup DOMAIN updates) \ Empty(updates)
  BY DEF Without
<1>3. Flushed(vals, dropped) = (disk \cup DOMAIN vals) \ dropped
  BY DEF Flushed
<1>4. disk \subseteq DOMAIN validators \cup toDelete
  BY DEF NoneReturns
<1> HIDE DEF vals, dropped
<1>5. dropped = toDelete \cup Empty(updates)
  BY DEF dropped
<1>6. disk' \subseteq DOMAIN validators' \cup toDelete'
  BY <1>1, <1>2, <1>3, <1>4, <1>5
<1> QED
  BY <1>6 DEF NoneReturns

\* NoneReturns is inductive: every block and every restart keeps it.
LEMMA NextNoneReturns ==
    ASSUME NoneReturns, [Next]_vars
    PROVE  NoneReturns'
<1>1. CASE NextBlock
  <2>1. \E blk, base, owner : \E flush \in BOOLEAN :
            ConnectBlock(blk, base, owner, flush)
    BY <1>1, Zenon DEF NextBlock
  <2>2. PICK blk, base, owner : \E flush \in BOOLEAN :
            ConnectBlock(blk, base, owner, flush)
    BY <2>1
  <2>3. PICK flush \in BOOLEAN : ConnectBlock(blk, base, owner, flush)
    BY <2>2
  <2>4. CASE UNCHANGED <<validators, toDelete, disk>>
    BY <2>4 DEF NoneReturns
  <2>5. CASE \E updates, deleted : Commit(updates, owner, deleted, flush)
    BY <2>5, CommitNoneReturns
  <2> QED
    BY <2>3, <2>4, <2>5, Zenon DEF ConnectBlock
<1>2. CASE Restart
  <2>1. disk' = DOMAIN validators'
    BY <1>2 DEF Restart
  <2> QED
    BY <2>1 DEF NoneReturns
<1>3. CASE UNCHANGED vars
  BY <1>3 DEF vars, NoneReturns
<1> QED
  BY <1>1, <1>2, <1>3 DEF Next

\* No restart brings back a validator that was removed: whatever is on disk is
\* in the set or is deleted by the next flush (VsTransction.Commit, flushToDisk,
\* Init).
THEOREM NoneReturnsHolds == Spec => []NoneReturns
<1>1. Init => NoneReturns
  BY DEF Init, NoneReturns
<1>2. NoneReturns /\ [Next]_vars => NoneReturns'
  BY NextNoneReturns
<1> QED
  BY <1>1, <1>2, PTL DEF Spec

-----------------------------------------------------------------------------
(* Sums over sets of coins.                                                *)

\* g is the sum that Total computes, for every subset of S.
IsSum(g, S, f) ==
    g = [s \in SUBSET S |->
           IF s = {} THEN 0
           ELSE f[CHOOSE t \in s : TRUE] + g[s \ {CHOOSE t \in s : TRUE}]]

\* A set of numbers that is not empty has a least element.
LEMMA LeastNat ==
    ASSUME NEW T \in SUBSET Nat, T # {}
    PROVE  \E n \in T : \A m \in T : ~(m < n)
<1> DEFINE R == {ss \in Nat \X Nat : ss[1] < ss[2]}
<1>1. IsWellFoundedOn(R, Nat)
  BY NatLessThanWellFounded, Zenon DEF OpToRel
<1>2. PICK n \in T : \A m \in T : <<m, n>> \notin R
  <2> HIDE DEF R
  <2> QED
    BY <1>1, WFMin
<1> QED
  BY <1>2

\* The recursion of a sum ends: a function that is right for the sets of up to
\* n coins gives one that is right for those of up to n + 1.
LEMMA SumExists ==
    ASSUME NEW S \in SUBSET Nullifiers, NEW f, \A n \in S : f[n] \in Nat
    PROVE  \E g \in [SUBSET S -> Nat] : IsSum(g, S, f)
<1> DEFINE pick(s) == CHOOSE t \in s : TRUE
           step(g, s) == IF s = {} THEN 0 ELSE f[pick(s)] + g[s \ {pick(s)}]
           Right(g, n) == \A s \in SUBSET S : Cardinality(s) <= n => g[s] = step(g, s)
           T == {n \in Nat : ~ \E g \in [SUBSET S -> Nat] : Right(g, n)}
<1>1. IsFiniteSet(S) /\ \A s \in SUBSET S : IsFiniteSet(s) /\ Cardinality(s) \in Nat
  BY ValidatorSetAssumption, FS_Subset, FS_CardinalityType
<1>2. \A s \in SUBSET S : s # {} =>
         /\ pick(s) \in s /\ s \ {pick(s)} \in SUBSET S /\ f[pick(s)] \in Nat
         /\ Cardinality(s \ {pick(s)}) = Cardinality(s) - 1
  <2> SUFFICES ASSUME NEW s \in SUBSET S, s # {}
               PROVE  /\ pick(s) \in s /\ s \ {pick(s)} \in SUBSET S /\ f[pick(s)] \in Nat
                      /\ Cardinality(s \ {pick(s)}) = Cardinality(s) - 1
    OBVIOUS
  <2>1. pick(s) \in s
    OBVIOUS
  <2> HIDE DEF pick
  <2>2. f[pick(s)] \in Nat
    BY <2>1, ValidatorSetAssumption
  <2>3. Cardinality(s \ {pick(s)}) = Cardinality(s) - 1
    BY <2>1, <1>1, FS_RemoveElement
  <2> QED
    BY <2>1, <2>2, <2>3
<1> HIDE DEF pick
<1>3. T = {}
  <2>1. SUFFICES ASSUME T # {} PROVE FALSE
    OBVIOUS
  <2>2. PICK n \in T : \A m \in T : ~(m < n)
    <3>1. T \in SUBSET Nat
      OBVIOUS
    <3> HIDE DEF T
    <3> QED
      BY <2>1, <3>1, LeastNat
  <2>3. n \in Nat /\ ~ \E g \in [SUBSET S -> Nat] : Right(g, n)
    BY <2>2
  <2>4. CASE n = 0
    <3> DEFINE z == [s \in SUBSET S |-> 0]
    <3>1. \A s \in SUBSET S : Cardinality(s) <= 0 => s = {}
      BY <1>1, FS_EmptySet
    <3>2. z \in [SUBSET S -> Nat] /\ Right(z, n)
      BY <2>4, <3>1
    <3> QED
      BY <2>3, <3>2
  <2>5. CASE n # 0
    <3>1. n - 1 \in Nat /\ n - 1 < n
      BY <2>3, <2>5
    <3>2. n - 1 \notin T
      <4> HIDE DEF T
      <4> QED
        BY <2>2, <3>1
    <3>3. PICK g \in [SUBSET S -> Nat] : Right(g, n - 1)
      <4> HIDE DEF Right
      <4> QED
        BY <3>1, <3>2
    <3> DEFINE h == [s \in SUBSET S |-> step(g, s)]
    <3>4. ASSUME NEW s \in SUBSET S PROVE step(g, s) \in Nat
      <4>1. CASE s = {}
        BY <4>1
      <4>2. CASE s # {}
        <5>1. f[pick(s)] \in Nat /\ g[s \ {pick(s)}] \in Nat
          BY <1>2, <4>2
        <5> QED
          BY <4>2, <5>1
      <4> QED
        BY <4>1, <4>2
    <3>5. h \in [SUBSET S -> Nat]
      <4> HIDE DEF step
      <4> QED
        BY <3>4
    <3>6. ASSUME NEW s \in SUBSET S, Cardinality(s) <= n
          PROVE  h[s] = step(h, s)
      <4>1. CASE s = {}
        BY <4>1
      <4>2. CASE s # {}
        <5>1. Cardinality(s \ {pick(s)}) <= n - 1 /\ s \ {pick(s)} \in SUBSET S
          <6>1. /\ Cardinality(s \ {pick(s)}) = Cardinality(s) - 1
                /\ s \ {pick(s)} \in SUBSET S
            BY <1>2, <4>2
          <6>2. Cardinality(s) \in Nat
            BY <1>1
          <6> QED
            BY <2>3, <3>6, <6>1, <6>2
        <5>2. g[s \ {pick(s)}] = h[s \ {pick(s)}]
          BY <5>1, <3>3
        <5> QED
          BY <4>2, <5>2
      <4> QED
        BY <4>1, <4>2
    <3> HIDE DEF h
    <3>7. Right(h, n)
      BY <3>6
    <3> QED
      BY <2>3, <3>5, <3>7
  <2> QED
    BY <2>4, <2>5
<1>4. PICK g \in [SUBSET S -> Nat] : Right(g, Cardinality(S))
  <2>1. Cardinality(S) \in Nat
    BY <1>1
  <2> HIDE DEF Right
  <2> QED
    BY <1>3, <2>1
<1>5. \A s \in SUBSET S : g[s] = step(g, s)
  BY <1>1, <1>4, FS_Subset
<1>6. g = [s \in SUBSET S |-> step(g, s)]
  <2> HIDE DEF step
  <2> QED BY <1>5
<1>7. IsSum(g, S, f)
  BY <1>6, Zenon DEF IsSum, pick
<1> QED
  BY <1>7

\* There is one such function.
LEMMA SumUnique ==
    ASSUME NEW S \in SUBSET Nullifiers, NEW f, \A n \in S : f[n] \in Nat, NEW g \in [SUBSET S -> Nat], IsSum(g, S, f), NEW h, IsSum(h, S, f)
    PROVE  h[S] = g[S]
<1> DEFINE pick(s) == CHOOSE t \in s : TRUE
           T == {n \in Nat : \E s \in SUBSET S : Cardinality(s) = n /\ h[s] # g[s]}
<1>1. \A s \in SUBSET S : IsFiniteSet(s) /\ Cardinality(s) \in Nat
  BY ValidatorSetAssumption, FS_Subset, FS_CardinalityType
<1>2. SUFFICES ASSUME T # {} PROVE FALSE
  BY <1>1
<1>3. PICK n \in T : \A m \in T : ~(m < n)
  <2>1. T \in SUBSET Nat
    OBVIOUS
  <2> HIDE DEF T
  <2> QED
    BY <1>2, <2>1, LeastNat
<1>4. PICK s \in SUBSET S : Cardinality(s) = n /\ h[s] # g[s]
  BY <1>3
<1>5. /\ g[s] = IF s = {} THEN 0 ELSE f[pick(s)] + g[s \ {pick(s)}]
      /\ h[s] = IF s = {} THEN 0 ELSE f[pick(s)] + h[s \ {pick(s)}]
  BY Zenon DEF IsSum
<1>6. s # {}
  BY <1>4, <1>5
<1>7. pick(s) \in s
  BY <1>6
<1> HIDE DEF pick
<1>8. s \ {pick(s)} \in SUBSET S /\ Cardinality(s \ {pick(s)}) = n - 1
  BY <1>1, <1>4, <1>7, FS_RemoveElement
<1>9. n - 1 \in T
  BY <1>1, <1>4, <1>5, <1>6, <1>8
<1> QED
  BY <1>3, <1>9

\* A sum of numbers is a number; that of no coin and of one coin.
LEMMA TotalIs ==
    ASSUME NEW S \in SUBSET Nullifiers, NEW f, \A n \in S : f[n] \in Nat
    PROVE  /\ Total(S, f) \in Nat
           /\ S = {} => Total(S, f) = 0
           /\ \A n : S = {n} => Total(S, f) = f[n]
<1>1. PICK h : h = CHOOSE g : IsSum(g, S, f)
  OBVIOUS
<1>2. Total(S, f) = h[S]
  BY <1>1, Zenon DEF Total, MapThenSumSet, MapThenFoldSet, IsSum
<1>3. PICK g \in [SUBSET S -> Nat] : IsSum(g, S, f)
  BY SumExists
<1>4. IsSum(h, S, f)
  BY <1>1, <1>3
<1>5. h[S] = g[S]
  BY <1>3, <1>4, SumUnique
<1>6. g[{}] = 0
  BY <1>3, Zenon DEF IsSum
<1>7. ASSUME NEW n, S = {n} PROVE g[S] = f[n]
  <2>1. n = CHOOSE t \in S : TRUE
    BY <1>7
  <2>2. g[S] = f[n] + g[S \ {n}]
    BY <1>3, <1>7, <2>1, Zenon DEF IsSum
  <2>3. S \ {n} = {} /\ f[n] \in Nat
    BY <1>7
  <2>4. g[S] = f[n] + 0
    BY <1>6, <2>2, <2>3, Zenon
  <2> QED
    BY <2>3, <2>4
<1>8. g[S] \in Nat /\ (S = {} => g[S] = 0)
  BY <1>3, <1>6
<1> QED
  BY <1>2, <1>5, <1>7, <1>8

-----------------------------------------------------------------------------
(* The set is current for a regular validator, which claims a reward once. *)

\* A validator with the coins S.  One that is banned has no coins left.
Stakes == [amount : Nat, weighted : Nat, stamp : Nat]

ValidatorsOf(S) ==
    [id : Validators, total : 0..(AmountRange - 1), weighted : 0..(AmountRange - 1),
     nulls : [S -> Stakes], unclaimed : Nat, strikes : 0..MaxStrikes,
     penalty : BOOLEAN]

\* The coin was staked for the validator, if P are the stakes that were made.
WasStaked(P, v, n) == \E w \in Weights : <<v, n, w>> \in P

\* val has the form that ConnectBlock gives it, and only coins staked for it.
Proper(val, P) ==
    /\ val \in ValidatorsOf(DOMAIN val.nulls)
    /\ \A n \in DOMAIN val.nulls : n \in Nullifiers /\ WasStaked(P, val.id, n)

\* One that the set keeps.
Installed(val, P) ==
    /\ Proper(val, P)
    /\ DOMAIN val.nulls # {}
    /\ val.strikes < MaxStrikes

Objects ==
    /\ DOMAIN validators \subseteq Validators
    /\ \A v \in DOMAIN validators : validators[v].id = v /\ Installed(validators[v], past)
    /\ DOMAIN nullifierMap \subseteq Nullifiers
    /\ \A n \in DOMAIN nullifierMap :
          Installed(nullifierMap[n], past) /\ n \in DOMAIN nullifierMap[n].nulls

Histories ==
    /\ DOMAIN staked \subseteq Stakers
    /\ \A pair \in DOMAIN staked : WasStaked(past, pair[1], pair[2])
    /\ past \subseteq Validators \X Nullifiers \X Weights
    /\ owed \in [Validators -> Int]
    /\ irregular \subseteq Validators
    /\ failed \subseteq Validators

Others ==
    /\ toDelete \subseteq Validators
    /\ disk \subseteq Validators
    /\ spent \subseteq Nullifiers
    /\ now \in 0..height
    /\ height \in 0..MaxBlocks

\* What is known of the coins of a regular validator: it has one, which was
\* never another's; the validator that nullifierMap keeps for it had only that
\* coin; its weight is one it was staked with; and the validator is not about
\* to be deleted on disk.
Sole(v) ==
    /\ \A n, m \in Coins(v) : n = m
    /\ \A n \in Coins(v), s \in past : s[2] = n => s[1] = v
    /\ \A n \in Coins(v) : DOMAIN nullifierMap[n].nulls = {n}
    /\ v \in DOMAIN validators =>
         /\ v \notin toDelete
         /\ \A n \in Coins(v) :
              \E w \in Weights : /\ <<v, n, w>> \in past
                                 /\ validators[v].nulls[n].weighted = WeightedAmount(n, w)

Paid(v) ==
    /\ owed[v] >= 0
    /\ v \in DOMAIN validators => validators[v].unclaimed <= owed[v]

RegularOK(v) ==
    /\ IsCurrent(v)
    /\ OneLock(v) /\ NoNaN(v) => IsWeighed(v)
    /\ Sole(v)
    /\ Paid(v)

SetInv ==
    /\ Objects
    /\ Histories
    /\ Others
    /\ NoneReturns
    /\ \A v \in Validators \ irregular : RegularOK(v)

\* A block that validateBlock lets through, and the choices that go with it.
BlockOK(blk) ==
    /\ blk.time \in {now, now + 1}
    /\ DOMAIN blk.stakes \subseteq Stakers
    /\ \A pair \in DOMAIN blk.stakes : blk.stakes[pair] \in Weights
    /\ blk.spends \subseteq Nullifiers
    /\ blk.coinbases \subseteq DOMAIN validators
    /\ blk.struck \subseteq DOMAIN validators
    /\ blk.spends \cap StakesOf(blk) = {}

ChoiceOK(blk, base, owner) ==
    /\ \A v \in Touched(blk) : base[v] \in Bases(blk, v)
    /\ DOMAIN owner = StakesOf(blk)
    /\ \A n \in StakesOf(blk) : <<owner[n], n>> \in DOMAIN blk.stakes

LEMMA InitSetInv == Init => SetInv
<1> SUFFICES ASSUME Init PROVE SetInv
  OBVIOUS
<1>1. DOMAIN EmptyMap = {}
  BY DEF EmptyMap
<1>2. Objects /\ Histories /\ Others /\ NoneReturns
  BY <1>1, ValidatorSetAssumption DEF Init, Objects, Histories, Others, NoneReturns
<1>3. ASSUME NEW v \in Validators PROVE RegularOK(v)
  <2>1. Coins(v) = {} /\ v \notin DOMAIN validators /\ DOMAIN nullifierMap = {}
    BY <1>1 DEF Init, Coins
  <2>2. owed[v] = 0 /\ failed = {}
    BY DEF Init
  <2> QED
    BY <2>1, <2>2 DEF RegularOK, IsCurrent, IsWeighed, Sole, Paid
<1> QED
  BY <1>2, <1>3 DEF SetInv

LEMMA ProductNat ==
    ASSUME NEW a \in Nat, NEW b \in Nat
    PROVE  a * b \in Nat
OBVIOUS

\* The two weighings of a stake are numbers, and the same but for a NaN.
LEMMA WeightsNat ==
    ASSUME NEW n \in Nullifiers, NEW w \in Weights
    PROVE  /\ Counted(n, w) \in Nat
           /\ WeightedAmount(n, w) \in Nat
           /\ w # NaN => Counted(n, w) = WeightedAmount(n, w)
<1>1. w \in Nat /\ Amount[n] \in Nat /\ NaNAmount \in Nat
  BY ValidatorSetAssumption
<1>2. PICK k \in Nat : k = Amount[n] * w
  BY <1>1, ProductNat
<1>3. w = 1 => k = Amount[n]
  BY <1>1, <1>2
<1>4. Counted(n, w) = IF w > 1 THEN k ELSE Amount[n]
  BY <1>2 DEF Counted
<1>5. WeightedAmount(n, w) = IF w = 0 THEN NaNAmount ELSE k
  BY <1>2 DEF WeightedAmount, NaN
<1> QED
  BY <1>1, <1>3, <1>4, <1>5 DEF NaN

\* What is known keeps being known.
LEMMA ProperGrows ==
    ASSUME NEW val, NEW P, NEW Q, P \subseteq Q, Proper(val, P)
    PROVE  Proper(val, Q)
BY Zenon DEF Proper, WasStaked

LEMMA NewValidatorForm ==
    ASSUME NEW v \in Validators, NEW P
    PROVE  /\ Proper(NewValidator(v), P)
           /\ NewValidator(v).id = v /\ NewValidator(v).strikes = 0
           /\ DOMAIN NewValidator(v).nulls = {}
           /\ NewValidator(v).total = 0 /\ NewValidator(v).weighted = 0
           /\ NewValidator(v).unclaimed = 0
<1>1. EmptyMap \in [{} -> Stakes] /\ DOMAIN EmptyMap = {}
  BY DEF EmptyMap
<1>2. NewValidator(v) \in ValidatorsOf({}) /\ DOMAIN NewValidator(v).nulls = {}
  BY <1>1, ValidatorSetAssumption DEF NewValidator, ValidatorsOf
<1>3. Proper(NewValidator(v), P)
  BY <1>2, Zenon DEF Proper
<1> QED
  BY <1>2, <1>3 DEF NewValidator

\* The coins of a block.
LEMMA StakedByIs ==
    ASSUME NEW blk, BlockOK(blk), NEW v
    PROVE  /\ StakedBy(blk, v) \in SUBSET Nullifiers
           /\ \A n \in StakedBy(blk, v) :
                /\ n \in StakesOf(blk)
                /\ n \notin blk.spends
                /\ blk.stakes[<<v, n>>] \in Weights
                /\ WasStaked(StakesMade(blk), v, n)
<1> SUFFICES ASSUME NEW n \in StakedBy(blk, v)
             PROVE  /\ n \in StakesOf(blk)
                    /\ n \notin blk.spends
                    /\ blk.stakes[<<v, n>>] \in Weights
                    /\ WasStaked(StakesMade(blk), v, n)
  BY DEF StakedBy
<1>1. <<v, n>> \in DOMAIN blk.stakes
  BY DEF StakedBy
<1>2. n \in StakesOf(blk)
  BY <1>1 DEF StakesOf
<1>3. blk.stakes[<<v, n>>] \in Weights
  BY <1>1 DEF BlockOK
<1>4. <<v, n, blk.stakes[<<v, n>>]>> \in StakesMade(blk)
  BY <1>1 DEF StakesMade
<1> QED
  BY <1>2, <1>3, <1>4 DEF BlockOK, WasStaked

\* The stake that a block makes of coin n.
StakeOf(blk, v, n) ==
    [amount   |-> Amount[n],
     weighted |-> WeightedAmount(n, blk.stakes[<<v, n>>]),
     stamp    |-> blk.time]

\* What the transactions of a block make of a validator.
LEMMA StagedForm ==
    ASSUME SetInv, NEW blk, BlockOK(blk), NEW v \in Validators, NEW base,
           Proper(base, past), base.id = v, base.strikes < MaxStrikes,
           SpentOf(blk, v) \subseteq DOMAIN base.nulls
    PROVE  LET s    == Staged(blk, v, base)
               mine == StakedBy(blk, v)
               new  == mine \ DOMAIN base.nulls
           IN  /\ Proper(s, StakesMade(blk))
               /\ s.id = v /\ s.strikes < MaxStrikes
               /\ DOMAIN s.nulls = (DOMAIN base.nulls \cup mine) \ SpentOf(blk, v)
               /\ \A n \in DOMAIN s.nulls :
                    s.nulls[n] = IF n \in mine THEN StakeOf(blk, v, n) ELSE base.nulls[n]
               /\ SpentOf(blk, v) = {} /\ new = {} =>
                    s.total = base.total /\ s.weighted = base.weighted
               /\ \A n : SpentOf(blk, v) = {} /\ new = {n} =>
                    /\ s.total = (base.total + Amount[n]) % AmountRange
                    /\ s.weighted = (base.weighted + Counted(n, blk.stakes[<<v, n>>]))
                                      % AmountRange
               /\ s.unclaimed = IF Claimed(blk, v) >= base.unclaimed THEN 0
                                ELSE base.unclaimed - Claimed(blk, v)
<1> DEFINE mine  == StakedBy(blk, v)
           gone  == SpentOf(blk, v)
           new   == mine \ DOMAIN base.nulls
           stake == [n \in mine |-> [amount   |-> Amount[n],
                                     weighted |-> WeightedAmount(n, blk.stakes[<<v, n>>]),
                                     stamp    |-> blk.time]]
           coins == Claimed(blk, v)
           left  == (DOMAIN base.nulls \cup mine) \ gone
           newA  == [n \in new |-> stake[n].amount]
           newW  == [n \in new |-> Counted(n, blk.stakes[<<v, n>>])]
           goneA == [n \in gone |-> base.nulls[n].amount]
           goneW == [n \in gone |-> base.nulls[n].weighted]
           nulls == [n \in left |-> IF n \in mine THEN stake[n] ELSE base.nulls[n]]
           uncl  == IF coins >= base.unclaimed THEN 0 ELSE base.unclaimed - coins
<1>1. PICK total, weighted :
        /\ total = (base.total + Total(new, newA) - Total(gone, goneA)) % AmountRange
        /\ weighted = (base.weighted + Total(new, newW) - Total(gone, goneW)) % AmountRange
  OBVIOUS
<1>2. Staged(blk, v, base) =
        [base EXCEPT !.total = total, !.weighted = weighted, !.nulls = nulls,
                     !.unclaimed = uncl]
  BY <1>1, Zenon DEF Staged
<1>3. /\ base \in ValidatorsOf(DOMAIN base.nulls)
      /\ \A n \in DOMAIN base.nulls : n \in Nullifiers /\ WasStaked(past, v, n)
  BY DEF Proper
<1>4. /\ base.nulls \in [DOMAIN base.nulls -> Stakes]
      /\ base.total \in 0..(AmountRange - 1) /\ base.weighted \in 0..(AmountRange - 1)
      /\ base.unclaimed \in Nat /\ AmountRange \in Nat \ {0}
  BY <1>3, ValidatorSetAssumption DEF ValidatorsOf
<1>5. /\ mine \in SUBSET Nullifiers
      /\ \A n \in mine : /\ blk.stakes[<<v, n>>] \in Weights
                         /\ WasStaked(StakesMade(blk), v, n)
                         /\ Amount[n] \in Nat /\ n \notin blk.spends
  BY StakedByIs, ValidatorSetAssumption
<1>6. \A n \in mine : /\ Counted(n, blk.stakes[<<v, n>>]) \in Nat
                         /\ WeightedAmount(n, blk.stakes[<<v, n>>]) \in Nat
  BY <1>5, WeightsNat
<1>7. coins \in Nat
  BY DEF Claimed, BlockOK, SetInv, Objects, Installed, Proper, ValidatorsOf
<1>8. blk.time \in Nat
  BY DEF BlockOK, SetInv, Others
<1>9. /\ \A n \in mine : /\ stake[n] \in Stakes /\ stake[n] = StakeOf(blk, v, n)
                         /\ stake[n].amount = Amount[n]
                         /\ stake[n].weighted = WeightedAmount(n, blk.stakes[<<v, n>>])
  BY <1>5, <1>6, <1>8 DEF Stakes, StakeOf
<1> HIDE DEF stake, mine, coins, gone
<1>10. \A n \in DOMAIN base.nulls :
          base.nulls[n] \in Stakes /\ base.nulls[n].amount \in Nat
                                   /\ base.nulls[n].weighted \in Nat
  BY <1>4 DEF Stakes
<1>11. /\ new \in SUBSET Nullifiers /\ gone \in SUBSET Nullifiers
       /\ newA \in [new -> Nat] /\ newW \in [new -> Nat]
       /\ goneA \in [gone -> Nat] /\ goneW \in [gone -> Nat]
  <2>1. gone \subseteq DOMAIN base.nulls
    BY DEF gone
  <2> QED
    BY <1>3, <1>5, <1>6, <1>9, <1>10, <2>1
<1>12. /\ Total(new, newA) \in Nat /\ Total(new, newW) \in Nat
       /\ Total(gone, goneA) \in Nat /\ Total(gone, goneW) \in Nat
       /\ new = {} => Total(new, newA) = 0 /\ Total(new, newW) = 0
       /\ gone = {} => Total(gone, goneA) = 0 /\ Total(gone, goneW) = 0
       /\ \A n : new = {n} => Total(new, newA) = newA[n] /\ Total(new, newW) = newW[n]
  <2> HIDE DEF new, newA, newW, goneA, goneW
  <2> QED
    BY <1>11, TotalIs
<1>13. nulls \in [left -> Stakes]
  BY <1>9, <1>10
<1>14. total \in 0..(AmountRange - 1) /\ weighted \in 0..(AmountRange - 1)
  <2> HIDE DEF new, newA, newW, goneA, goneW
  <2> QED
    BY <1>1, <1>4, <1>12
<1>15. uncl \in Nat
  BY <1>4, <1>7
<1>16. PICK s : s = Staged(blk, v, base)
  OBVIOUS
<1> HIDE DEF nulls, uncl, left
<1>17. /\ s.id = base.id /\ s.total = total /\ s.weighted = weighted
       /\ s.nulls = nulls /\ s.unclaimed = uncl /\ s.strikes = base.strikes
       /\ s.penalty = base.penalty
  BY <1>2, <1>3, <1>16 DEF ValidatorsOf
<1>18. DOMAIN s.nulls = left
  BY <1>13, <1>17
<1>19. s \in ValidatorsOf(left)
  BY <1>2, <1>3, <1>13, <1>14, <1>15, <1>16 DEF ValidatorsOf
<1>20. \A n \in left : n \in Nullifiers /\ WasStaked(StakesMade(blk), v, n)
  <2>1. past \subseteq StakesMade(blk)
    BY DEF StakesMade
  <2>2. \A n \in DOMAIN base.nulls : WasStaked(StakesMade(blk), v, n)
    BY <1>3, <2>1 DEF WasStaked
  <2> QED
    BY <1>3, <1>5, <2>2 DEF left
<1>21. Proper(s, StakesMade(blk))
  BY <1>17, <1>18, <1>19, <1>20 DEF Proper
<1>22. \A n \in left : s.nulls[n] = IF n \in mine THEN StakeOf(blk, v, n) ELSE base.nulls[n]
  BY <1>9, <1>17 DEF nulls
<1>23. gone = {} /\ new = {} => s.total = base.total /\ s.weighted = base.weighted
  <2> SUFFICES ASSUME gone = {}, new = {}
               PROVE  s.total = base.total /\ s.weighted = base.weighted
    OBVIOUS
  <2> HIDE DEF new, newA, newW, goneA, goneW
  <2>1. total = base.total % AmountRange /\ weighted = base.weighted % AmountRange
    BY <1>1, <1>4, <1>12
  <2> QED
    BY <2>1, <1>4, <1>17
<1>24. ASSUME NEW n, gone = {}, new = {n}
       PROVE  /\ s.total = (base.total + Amount[n]) % AmountRange
              /\ s.weighted = (base.weighted + Counted(n, blk.stakes[<<v, n>>]))
                                % AmountRange
  <2>1. n \in mine /\ newA[n] = Amount[n] /\ newW[n] = Counted(n, blk.stakes[<<v, n>>])
    BY <1>9, <1>24
  <2>2. /\ Total(new, newA) = Amount[n] /\ Total(gone, goneA) = 0
        /\ Total(new, newW) = Counted(n, blk.stakes[<<v, n>>]) /\ Total(gone, goneW) = 0
    <3> HIDE DEF new, newA, newW, goneA, goneW
    <3> QED
      BY <1>12, <1>24, <2>1
  <2> HIDE DEF new, newA, newW, goneA, goneW
  <2>3. Amount[n] \in Nat /\ Counted(n, blk.stakes[<<v, n>>]) \in Nat
    BY <1>5, <1>6, <2>1
  <2>4. total = (base.total + Amount[n]) % AmountRange
    BY <1>1, <1>4, <2>2, <2>3
  <2>5. PICK k \in Nat : k = Counted(n, blk.stakes[<<v, n>>])
    BY <2>3
  <2>6. weighted = (base.weighted + k - 0) % AmountRange
    BY <1>1, <2>2, <2>5
  <2>7. weighted = (base.weighted + k) % AmountRange
    BY <1>4, <2>6
  <2> QED
    BY <1>17, <2>4, <2>5, <2>7
<1>25. s.unclaimed = IF Claimed(blk, v) >= base.unclaimed THEN 0
                     ELSE base.unclaimed - Claimed(blk, v)
  BY <1>17 DEF uncl, coins
<1> QED
  BY <1>16, <1>17, <1>18, <1>21, <1>22, <1>23, <1>24, <1>25 DEF left, mine, gone

\* What an epoch makes of a validator.
LEMMA EpochForm ==
    ASSUME NEW blk, NEW P, NEW val, Proper(val, P),
           NEW e, e = NewEpoch(blk, val)
    PROVE  /\ Proper(e, P)
           /\ e.id = val.id /\ e.strikes = val.strikes
           /\ e.total = val.total /\ e.weighted = val.weighted
           /\ DOMAIN e.nulls = DOMAIN val.nulls \ Expired(val, blk.time)
           /\ \A n \in DOMAIN e.nulls : e.nulls[n] = val.nulls[n]
           /\ e.unclaimed = IF Forfeits(blk, val) THEN 0
                            ELSE IF Earns(val, blk.time) THEN val.unclaimed + 1
                            ELSE val.unclaimed
<1>1. /\ val \in ValidatorsOf(DOMAIN val.nulls)
      /\ \A n \in DOMAIN val.nulls : n \in Nullifiers /\ WasStaked(P, val.id, n)
  BY DEF Proper
<1>2. PICK left : left = DOMAIN val.nulls \ Expired(val, blk.time)
  OBVIOUS
<1>3. PICK nulls : nulls = Without(val.nulls, Expired(val, blk.time))
  OBVIOUS
<1>4. PICK uncl : uncl = IF Forfeits(blk, val) THEN 0
                         ELSE IF Earns(val, blk.time) THEN val.unclaimed + 1
                         ELSE val.unclaimed
  OBVIOUS
<1>5. /\ val.nulls \in [DOMAIN val.nulls -> Stakes] /\ val.unclaimed \in Nat
  BY <1>1 DEF ValidatorsOf
<1>6. /\ nulls \in [left -> Stakes] /\ DOMAIN nulls = left
      /\ \A n \in left : nulls[n] = val.nulls[n]
  BY <1>2, <1>3, <1>5 DEF Without
<1>7. uncl \in Nat
  BY <1>4, <1>5
<1>9. e = [val EXCEPT !.nulls = nulls, !.unclaimed = uncl, !.penalty = FALSE]
  BY <1>3, <1>4, Zenon DEF NewEpoch
<1>10. e \in ValidatorsOf(left)
  BY <1>1, <1>6, <1>7, <1>9 DEF ValidatorsOf
<1>11. /\ e.id = val.id /\ e.strikes = val.strikes /\ e.total = val.total
       /\ e.weighted = val.weighted /\ e.nulls = nulls /\ e.unclaimed = uncl
  BY <1>1, <1>9 DEF ValidatorsOf
<1>12. Proper(e, P)
  <2>1. DOMAIN e.nulls = left
    BY <1>6, <1>11
  <2>2. \A n \in left : n \in Nullifiers /\ WasStaked(P, e.id, n)
    BY <1>1, <1>2, <1>11
  <2> QED
    BY <1>10, <2>1, <2>2, Zenon DEF Proper
<1> QED
  BY <1>2, <1>4, <1>6, <1>11, <1>12

\* What a strike makes of the producer.
LEMMA StruckForm ==
    ASSUME NEW P, NEW val, Proper(val, P), val.strikes < MaxStrikes,
           NEW u, u = Struck(val)
    PROVE  /\ Proper(u, P)
           /\ u.id = val.id /\ u.total = val.total /\ u.weighted = val.weighted
           /\ u.unclaimed = val.unclaimed
           /\ DOMAIN u.nulls = IF Banned(val) THEN {} ELSE DOMAIN val.nulls
           /\ \A n \in DOMAIN u.nulls : u.nulls[n] = val.nulls[n]
           /\ DOMAIN u.nulls # {} => u.strikes < MaxStrikes
<1>1. /\ val \in ValidatorsOf(DOMAIN val.nulls)
      /\ \A n \in DOMAIN val.nulls : n \in Nullifiers /\ WasStaked(P, val.id, n)
  BY DEF Proper
<1>2. PICK left : left = IF Banned(val) THEN {} ELSE DOMAIN val.nulls
  OBVIOUS
<1>3. PICK nulls : nulls = IF Banned(val) THEN EmptyMap ELSE val.nulls
  OBVIOUS
<1>4. val.nulls \in [DOMAIN val.nulls -> Stakes] /\ val.strikes \in 0..MaxStrikes
  BY <1>1 DEF ValidatorsOf
<1>5. nulls \in [left -> Stakes] /\ DOMAIN nulls = left
  BY <1>2, <1>3, <1>4 DEF EmptyMap
<1>6. \A n \in left : nulls[n] = val.nulls[n]
  BY <1>2, <1>3
<1>8. u = [val EXCEPT !.penalty = TRUE, !.strikes = val.strikes + 1, !.nulls = nulls]
  BY <1>3, Zenon DEF Struck
<1>9. val.strikes + 1 \in 0..MaxStrikes
  BY <1>4, ValidatorSetAssumption
<1>10. u \in ValidatorsOf(left)
  BY <1>1, <1>5, <1>8, <1>9 DEF ValidatorsOf
<1>11. /\ u.id = val.id /\ u.strikes = val.strikes + 1 /\ u.total = val.total
       /\ u.weighted = val.weighted /\ u.nulls = nulls /\ u.unclaimed = val.unclaimed
  BY <1>1, <1>8 DEF ValidatorsOf
<1>12. Proper(u, P)
  <2>1. DOMAIN u.nulls = left
    BY <1>5, <1>11
  <2>2. \A n \in left : n \in Nullifiers /\ WasStaked(P, u.id, n)
    BY <1>1, <1>2, <1>11
  <2> QED
    BY <1>10, <2>1, <2>2, Zenon DEF Proper
<1>13. left # {} => u.strikes < MaxStrikes
  BY <1>2, <1>4, <1>11, ValidatorSetAssumption DEF Banned
<1> QED
  BY <1>2, <1>5, <1>6, <1>11, <1>12, <1>13

\* A change starts from a validator of the right form.
LEMMA BaseForm ==
    ASSUME SetInv, NEW blk, NEW v \in Validators, NEW base \in Bases(blk, v)
    PROVE  Proper(base, past) /\ base.id = v /\ base.strikes < MaxStrikes
<1>1. CASE \E n \in SpentOf(blk, v) : base = nullifierMap[n]
  BY <1>1 DEF SpentOf, SetInv, Objects, Installed
<1>2. CASE v \in DOMAIN validators /\ base = validators[v]
  BY <1>2 DEF SetInv, Objects, Installed
<1>3. CASE base = NewValidator(v)
  BY <1>3, NewValidatorForm, ValidatorSetAssumption
<1> QED
  BY <1>1, <1>2, <1>3 DEF Bases

\* What a block makes of each validator that it changes: b after its
\* transactions, e after the epoch and u after the producer's strike.
Updated(blk, base, v, b, e, u) ==
    /\ v \in Validators
    /\ b = IF v \in Touched(blk) THEN Staged(blk, v, base[v]) ELSE validators[v]
    /\ Proper(b, StakesMade(blk)) /\ Proper(e, StakesMade(blk)) /\ Proper(u, StakesMade(blk))
    /\ b.id = v /\ e.id = v /\ u.id = v
    /\ u.total = b.total /\ u.weighted = b.weighted
    /\ DOMAIN e.nulls = IF IsEpoch(blk) /\ v \in DOMAIN validators
                          THEN DOMAIN b.nulls \ Expired(b, blk.time)
                          ELSE DOMAIN b.nulls
    /\ DOMAIN u.nulls = IF v \in blk.struck /\ Banned(e) THEN {} ELSE DOMAIN e.nulls
    /\ \A n \in DOMAIN u.nulls : u.nulls[n] = b.nulls[n]
    /\ DOMAIN u.nulls # {} => u.strikes < MaxStrikes
    /\ u.unclaimed = IF IsEpoch(blk) /\ v \in DOMAIN validators
                       THEN IF Forfeits(blk, b) THEN 0
                            ELSE IF Earns(b, blk.time) THEN b.unclaimed + 1
                            ELSE b.unclaimed
                       ELSE b.unclaimed

\* The spends of a block are of coins that the staged validators have.
SpendsOK(blk, base) ==
    \A w \in Touched(blk) : SpentOf(blk, w) \subseteq DOMAIN base[w].nulls

LEMMA UpdateForm ==
    ASSUME SetInv, NEW blk, BlockOK(blk), NEW base, NEW owner, ChoiceOK(blk, base, owner),
           SpendsOK(blk, base), NEW v \in Changed(blk)
    PROVE  Updated(blk, base, v, AfterTxs(blk, base)[v],
                   AfterEpoch(blk, AfterTxs(blk, base))[v],
                   AfterProducer(blk, AfterEpoch(blk, AfterTxs(blk, base)))[v])
<1>1. PICK before : before = AfterTxs(blk, base)
  OBVIOUS
<1>2. PICK epoch : epoch = AfterEpoch(blk, before)
  OBVIOUS
<1>3. PICK updates : updates = AfterProducer(blk, epoch)
  OBVIOUS
<1>4. PICK P : P = StakesMade(blk) /\ past \subseteq P
  BY DEF StakesMade
<1>5. v \in Touched(blk) \/ v \in DOMAIN validators
  BY DEF Changed, BlockOK
<1>6. v \in Validators
  BY <1>5 DEF Touched, SetInv, Objects
<1>7. /\ DOMAIN before = Changed(blk) /\ DOMAIN epoch = Changed(blk)
      /\ before[v] = IF v \in Touched(blk) THEN Staged(blk, v, base[v]) ELSE validators[v]
      /\ epoch[v] = IF IsEpoch(blk) /\ v \in DOMAIN validators THEN NewEpoch(blk, before[v])
                    ELSE before[v]
      /\ updates[v] = IF v \in blk.struck THEN Struck(epoch[v]) ELSE epoch[v]
  BY <1>1, <1>2, <1>3, Zenon DEF AfterTxs, AfterEpoch, AfterProducer
<1>8. PICK b : b = before[v]
  OBVIOUS
<1>9. Proper(b, P) /\ b.id = v /\ b.strikes < MaxStrikes
  <2>1. CASE v \in Touched(blk)
    <3>1. Proper(base[v], past) /\ base[v].id = v /\ base[v].strikes < MaxStrikes
      BY <1>6, <2>1, BaseForm DEF ChoiceOK
    <3>2. SpentOf(blk, v) \subseteq DOMAIN base[v].nulls
      BY <2>1 DEF SpendsOK
    <3> QED
      BY <1>4, <1>6, <1>7, <1>8, <2>1, <3>1, <3>2, StagedForm
  <2>2. CASE v \notin Touched(blk)
    <3>1. b = validators[v] /\ v \in DOMAIN validators
      BY <1>5, <1>7, <1>8, <2>2
    <3>2. Proper(validators[v], past) /\ b.id = v /\ b.strikes < MaxStrikes
      BY <3>1 DEF SetInv, Objects, Installed
    <3> QED
      BY <1>4, <3>1, <3>2, ProperGrows
  <2> QED
    BY <2>1, <2>2
<1>10. PICK passed \in BOOLEAN : passed = (IsEpoch(blk) /\ v \in DOMAIN validators)
  OBVIOUS
<1>11. PICK e : e = epoch[v]
  OBVIOUS
<1>12. /\ Proper(e, P) /\ e.id = v /\ e.strikes < MaxStrikes
       /\ e.total = b.total /\ e.weighted = b.weighted
       /\ DOMAIN e.nulls = IF passed THEN DOMAIN b.nulls \ Expired(b, blk.time)
                           ELSE DOMAIN b.nulls
       /\ \A n \in DOMAIN e.nulls : e.nulls[n] = b.nulls[n]
       /\ e.unclaimed = IF passed
                          THEN IF Forfeits(blk, b) THEN 0
                               ELSE IF Earns(b, blk.time) THEN b.unclaimed + 1
                               ELSE b.unclaimed
                          ELSE b.unclaimed
  <2>1. CASE passed
    <3>1. e = NewEpoch(blk, b)
      BY <1>7, <1>8, <1>10, <1>11, <2>1
    <3>2. /\ Proper(e, P) /\ e.id = b.id /\ e.strikes = b.strikes
          /\ e.total = b.total /\ e.weighted = b.weighted
          /\ DOMAIN e.nulls = DOMAIN b.nulls \ Expired(b, blk.time)
          /\ \A n \in DOMAIN e.nulls : e.nulls[n] = b.nulls[n]
          /\ e.unclaimed = IF Forfeits(blk, b) THEN 0
                           ELSE IF Earns(b, blk.time) THEN b.unclaimed + 1
                           ELSE b.unclaimed
      BY <1>9, <3>1, EpochForm
    <3> QED
      BY <1>9, <2>1, <3>2
  <2>2. CASE ~passed
    <3>1. e = b
      BY <1>7, <1>8, <1>10, <1>11, <2>2
    <3> QED
      BY <1>9, <2>2, <3>1
  <2> QED
    BY <2>1, <2>2
<1>13. PICK u : u = updates[v]
  OBVIOUS
<1>14. /\ Proper(u, P) /\ u.id = v
       /\ u.total = e.total /\ u.weighted = e.weighted /\ u.unclaimed = e.unclaimed
       /\ DOMAIN u.nulls = IF v \in blk.struck /\ Banned(e) THEN {} ELSE DOMAIN e.nulls
       /\ \A n \in DOMAIN u.nulls : u.nulls[n] = e.nulls[n]
       /\ DOMAIN u.nulls # {} => u.strikes < MaxStrikes
  <2>1. CASE v \in blk.struck
    <3>1. u = Struck(e)
      BY <1>7, <1>11, <1>13, <2>1
    <3> QED
      BY <1>12, <2>1, <3>1, StruckForm
  <2>2. CASE v \notin blk.struck
    <3>1. u = e
      BY <1>7, <1>11, <1>13, <2>2
    <3> QED
      BY <1>12, <2>2, <3>1
  <2> QED
    BY <2>1, <2>2
<1>15. DOMAIN u.nulls \subseteq DOMAIN e.nulls
  BY <1>14
<1>16. \A n \in DOMAIN u.nulls : u.nulls[n] = b.nulls[n]
  BY <1>12, <1>14, <1>15
<1>17. b = IF v \in Touched(blk) THEN Staged(blk, v, base[v]) ELSE validators[v]
  BY <1>7, <1>8
<1>18. Updated(blk, base, v, b, e, u)
  BY <1>4, <1>6, <1>9, <1>10, <1>12, <1>14, <1>16, <1>17 DEF Updated
<1> QED
  BY <1>1, <1>2, <1>3, <1>8, <1>11, <1>13, <1>18

-----------------------------------------------------------------------------
\* A coin leaves nullifierMap.
Leaves(blk, before, updates, n) ==
    \E w \in Changed(blk) :
        \/ n \in SpentOf(blk, w)
        \/ n \in DOMAIN before[w].nulls /\ n \notin DOMAIN updates[w].nulls

\* What ConnectBlock and Commit of a block do, told by the validators that the
\* block changes.
Connects(blk, owner, before, epoch, updates, flush) ==
    /\ DOMAIN validators' = {v \in DOMAIN validators \cup Changed(blk) :
                               v \in Changed(blk) => DOMAIN updates[v].nulls # {}}
    /\ \A v \in DOMAIN validators' :
          validators'[v] = IF v \in Changed(blk) THEN updates[v] ELSE validators[v]
    /\ DOMAIN nullifierMap' = {n \in DOMAIN nullifierMap \cup StakesOf(blk) :
                                 ~Leaves(blk, before, updates, n)}
    /\ \A n \in DOMAIN nullifierMap' :
          nullifierMap'[n] = IF n \in StakesOf(blk) THEN updates[owner[n]]
                             ELSE nullifierMap[n]
    /\ toDelete' = IF flush THEN {}
                   ELSE toDelete \cup {v \in Changed(blk) : DOMAIN updates[v].nulls = {}}
    /\ disk' \subseteq disk \cup DOMAIN validators'
    /\ spent' = spent \cup blk.spends \cup NullifiersToBan(blk, epoch)
    /\ now' = blk.time
    /\ height' = height + 1
    /\ staked' = StakesAfter(blk, NullifiersToBan(blk, epoch))
    /\ past' = StakesMade(blk)
    /\ irregular' = irregular \cup Irregular(blk)
    /\ owed' = [v \in Validators |->
                  owed[v] + (IF /\ IsEpoch(blk) /\ v \in DOMAIN validators
                                /\ ~Forfeits(blk, before[v])
                                /\ Earns(before[v], blk.time) THEN 1 ELSE 0)
                          - Claimed(blk, v)]
    /\ failed' = failed

LEMMA ConnectOutcome ==
    ASSUME SetInv, NEW blk, BlockOK(blk), NEW base, NEW owner, ChoiceOK(blk, base, owner),
           NEW flush \in BOOLEAN, ConnectBlock(blk, base, owner, flush),
           SpendsOK(blk, base),
           NEW before, before = AfterTxs(blk, base),
           NEW epoch, epoch = AfterEpoch(blk, before),
           NEW updates, updates = AfterProducer(blk, epoch)
    PROVE  Connects(blk, owner, before, epoch, updates, flush) /\ NoneReturns'
<1>1. {v \in Touched(blk) : ~(SpentOf(blk, v) \subseteq DOMAIN base[v].nulls)} = {}
  BY DEF SpendsOK
<1>2. PICK deleted : deleted = NullifiersToDelete(blk, before, updates)
  OBVIOUS
<1>3. /\ Commit(updates, owner, deleted, flush)
      /\ spent' = spent \cup blk.spends \cup NullifiersToBan(blk, epoch)
      /\ now' = blk.time
      /\ height' = height + 1
      /\ staked' = StakesAfter(blk, NullifiersToBan(blk, epoch))
      /\ past' = StakesMade(blk)
      /\ irregular' = irregular \cup Irregular(blk)
      /\ owed' = [v \in Validators |->
                    owed[v] + (IF /\ IsEpoch(blk) /\ v \in DOMAIN validators
                                  /\ ~Forfeits(blk, before[v])
                                  /\ Earns(before[v], blk.time) THEN 1 ELSE 0)
                            - Claimed(blk, v)]
      /\ failed' = failed
  BY <1>1, <1>2, Zenon DEF ConnectBlock
<1>4. DOMAIN before = Changed(blk) /\ DOMAIN updates = Changed(blk)
  BY Zenon DEF AfterTxs, AfterEpoch, AfterProducer
<1>5. \A v \in Changed(blk) : Proper(updates[v], StakesMade(blk))
  BY UpdateForm DEF Updated
<1>6. Empty(updates) = {v \in Changed(blk) : DOMAIN updates[v].nulls = {}}
  <2>1. ASSUME NEW v \in Changed(blk)
        PROVE  updates[v].nulls = EmptyMap <=> DOMAIN updates[v].nulls = {}
    <3>1. updates[v].nulls \in [DOMAIN updates[v].nulls -> Stakes]
      BY <1>5 DEF Proper, ValidatorsOf
    <3> QED
      BY <3>1 DEF EmptyMap
  <2> QED
    BY <1>4, <2>1 DEF Empty
<1>7. \A n : n \in deleted <=> Leaves(blk, before, updates, n)
  BY <1>2, <1>4 DEF NullifiersToDelete, Leaves
<1> DEFINE all == [v \in DOMAIN validators \cup DOMAIN updates |->
                     IF v \in DOMAIN updates THEN updates[v] ELSE validators[v]]
           vals == Without(all, Empty(updates))
<1>10. /\ validators' = vals
       /\ nullifierMap' =
             [n \in (DOMAIN nullifierMap \cup DOMAIN owner) \ deleted |->
                IF n \in DOMAIN owner THEN all[owner[n]] ELSE nullifierMap[n]]
       /\ toDelete' = IF flush THEN {} ELSE toDelete \cup Empty(updates)
       /\ disk' = IF flush THEN Flushed(vals, toDelete \cup Empty(updates)) ELSE disk
  BY <1>3, Zenon DEF Commit
<1>11. /\ DOMAIN vals = (DOMAIN validators \cup Changed(blk)) \ Empty(updates)
       /\ \A v \in DOMAIN vals : vals[v] = all[v]
  BY <1>4 DEF Without
<1>12. \A v \in DOMAIN validators \cup Changed(blk) :
           all[v] = IF v \in Changed(blk) THEN updates[v] ELSE validators[v]
  BY <1>4
<1> HIDE DEF all, vals
<1>13. \A n \in StakesOf(blk) : owner[n] \in Changed(blk)
  <2> SUFFICES ASSUME NEW n \in StakesOf(blk) PROVE owner[n] \in Changed(blk)
    OBVIOUS
  <2>1. <<owner[n], n>> \in DOMAIN blk.stakes
    BY DEF ChoiceOK
  <2>2. owner[n] \in Validators /\ n \in Nullifiers
    BY <2>1, ValidatorSetAssumption DEF BlockOK
  <2>3. n \in StakedBy(blk, owner[n])
    BY <2>1, <2>2 DEF StakedBy
  <2> QED
    BY <2>2, <2>3 DEF Changed, Touched, Direct
<1>14. /\ DOMAIN validators' = {v \in DOMAIN validators \cup Changed(blk) :
                                  v \in Changed(blk) => DOMAIN updates[v].nulls # {}}
       /\ \A v \in DOMAIN validators' :
             validators'[v] = IF v \in Changed(blk) THEN updates[v] ELSE validators[v]
  BY <1>6, <1>10, <1>11, <1>12
<1>15. DOMAIN nullifierMap' = {n \in DOMAIN nullifierMap \cup StakesOf(blk) :
                                 ~Leaves(blk, before, updates, n)}
  BY <1>7, <1>10 DEF ChoiceOK
<1>16. \A n \in DOMAIN nullifierMap' :
          nullifierMap'[n] = IF n \in StakesOf(blk) THEN updates[owner[n]]
                             ELSE nullifierMap[n]
  BY <1>10, <1>12, <1>13 DEF ChoiceOK
<1>17. toDelete' = IF flush THEN {}
                   ELSE toDelete \cup {v \in Changed(blk) : DOMAIN updates[v].nulls = {}}
  BY <1>6, <1>10
<1>18. disk' \subseteq disk \cup DOMAIN validators'
  BY <1>10 DEF Flushed
<1>19. NoneReturns'
  BY <1>3, CommitNoneReturns DEF SetInv
<1> QED
  BY <1>3, <1>14, <1>15, <1>16, <1>17, <1>18, <1>19, Zenon DEF Connects

\* The validators that a block installs have the right form, and so do those
\* that nullifierMap keeps.
LEMMA ObjectsStep ==
    ASSUME SetInv, NEW blk, BlockOK(blk), NEW base, NEW owner, ChoiceOK(blk, base, owner),
           NEW flush \in BOOLEAN, SpendsOK(blk, base),
           NEW before, before = AfterTxs(blk, base),
           NEW epoch, epoch = AfterEpoch(blk, before),
           NEW updates, updates = AfterProducer(blk, epoch),
           Connects(blk, owner, before, epoch, updates, flush)
    PROVE  Objects'
<1>1. \A v \in Changed(blk) : Updated(blk, base, v, before[v], epoch[v], updates[v])
  BY UpdateForm
<1>2. past \subseteq StakesMade(blk) /\ past' = StakesMade(blk)
  BY DEF StakesMade, Connects
<1>3. ASSUME NEW val, Installed(val, past) PROVE Installed(val, past')
  BY <1>2, <1>3, ProperGrows, Zenon DEF Installed
<1>4. ASSUME NEW v \in Changed(blk), DOMAIN updates[v].nulls # {}
      PROVE  v \in Validators /\ updates[v].id = v /\ Installed(updates[v], past')
  BY <1>1, <1>2, <1>4, Zenon DEF Updated, Installed
<1>5. ASSUME NEW v \in DOMAIN validators'
      PROVE  /\ v \in Validators
             /\ validators'[v].id = v /\ Installed(validators'[v], past')
  <2>1. CASE v \in Changed(blk)
    BY <1>4, <2>1 DEF Connects
  <2>2. CASE v \notin Changed(blk)
    <3>1. v \in DOMAIN validators /\ validators'[v] = validators[v]
      BY <2>2 DEF Connects
    <3>2. v \in Validators /\ validators[v].id = v /\ Installed(validators[v], past)
      BY <3>1 DEF SetInv, Objects
    <3> QED
      BY <1>3, <3>1, <3>2
  <2> QED
    BY <2>1, <2>2
<1>6. ASSUME NEW n \in DOMAIN nullifierMap'
      PROVE  /\ n \in Nullifiers
             /\ Installed(nullifierMap'[n], past') /\ n \in DOMAIN nullifierMap'[n].nulls
  <2>1. CASE n \in StakesOf(blk)
    <3>1. PICK w : w = owner[n]
      OBVIOUS
    <3>2. <<w, n>> \in DOMAIN blk.stakes
      BY <2>1, <3>1 DEF ChoiceOK
    <3>3. w \in Validators /\ n \in Nullifiers
      BY <3>2, ValidatorSetAssumption DEF BlockOK
    <3>4. n \in StakedBy(blk, w)
      BY <3>2, <3>3 DEF StakedBy
    <3>5. w \in Touched(blk) /\ w \in Changed(blk)
      BY <3>3, <3>4 DEF Changed, Touched, Direct
    <3>6. n \notin SpentOf(blk, w)
      BY <2>1 DEF SpentOf, BlockOK
    <3>7. DOMAIN before[w].nulls = (DOMAIN base[w].nulls \cup StakedBy(blk, w)) \ SpentOf(blk, w)
      <4>1. before[w] = Staged(blk, w, base[w])
        BY <1>1, <3>5 DEF Updated
      <4>2. Proper(base[w], past) /\ base[w].id = w /\ base[w].strikes < MaxStrikes
        BY <3>3, <3>5, BaseForm DEF ChoiceOK
      <4>3. SpentOf(blk, w) \subseteq DOMAIN base[w].nulls
        BY <3>5 DEF SpendsOK
      <4> QED
        BY <3>3, <4>1, <4>2, <4>3, StagedForm
    <3>8. n \in DOMAIN updates[w].nulls
      BY <3>4, <3>5, <3>6, <3>7 DEF Connects, Leaves
    <3>9. nullifierMap'[n] = updates[w]
      BY <2>1, <3>1 DEF Connects
    <3> QED
      BY <1>4, <3>3, <3>5, <3>8, <3>9
  <2>2. CASE n \notin StakesOf(blk)
    <3>1. n \in DOMAIN nullifierMap /\ nullifierMap'[n] = nullifierMap[n]
      BY <2>2 DEF Connects
    <3>2. /\ n \in Nullifiers /\ Installed(nullifierMap[n], past)
          /\ n \in DOMAIN nullifierMap[n].nulls
      BY <3>1 DEF SetInv, Objects
    <3> QED
      BY <1>3, <3>1, <3>2
  <2> QED
    BY <2>1, <2>2
<1> QED
  BY <1>5, <1>6, Zenon DEF Objects

LEMMA HistoriesStep ==
    ASSUME SetInv, NEW blk, BlockOK(blk), NEW base, NEW owner, ChoiceOK(blk, base, owner),
           NEW flush \in BOOLEAN, SpendsOK(blk, base),
           NEW before, before = AfterTxs(blk, base),
           NEW epoch, epoch = AfterEpoch(blk, before),
           NEW updates, updates = AfterProducer(blk, epoch),
           Connects(blk, owner, before, epoch, updates, flush)
    PROVE  Histories'
<1>1. past' = StakesMade(blk) /\ past \subseteq past'
  BY DEF StakesMade, Connects
<1>2. ASSUME NEW pair \in DOMAIN blk.stakes
      PROVE  /\ pair \in Stakers /\ pair[1] \in Validators /\ pair[2] \in Nullifiers
             /\ blk.stakes[pair] \in Weights
             /\ <<pair[1], pair[2], blk.stakes[pair]>> \in past'
  BY <1>1, ValidatorSetAssumption DEF StakesMade, BlockOK
<1>3. past' \subseteq Validators \X Nullifiers \X Weights
  BY <1>1, <1>2 DEF StakesMade, SetInv, Histories
<1>4. DOMAIN staked' \subseteq DOMAIN staked \cup DOMAIN blk.stakes
  BY DEF Connects, StakesAfter, Without
<1>5. DOMAIN staked' \subseteq Stakers
  BY <1>2, <1>4 DEF SetInv, Histories
<1>6. ASSUME NEW pair \in DOMAIN staked' PROVE WasStaked(past', pair[1], pair[2])
  <2>1. CASE pair \in DOMAIN blk.stakes
    BY <1>2, <2>1 DEF WasStaked
  <2>2. CASE pair \in DOMAIN staked
    BY <1>1, <2>2 DEF WasStaked, SetInv, Histories
  <2> QED
    BY <1>4, <1>6, <2>1, <2>2
<1>7. owed' \in [Validators -> Int]
  <2>1. \A v \in Validators : Claimed(blk, v) \in Nat /\ owed[v] \in Int
    BY DEF Claimed, BlockOK, SetInv, Objects, Installed, Proper, ValidatorsOf, Histories
  <2>2. PICK earned : earned = [v \in Validators |->
            IF /\ IsEpoch(blk) /\ v \in DOMAIN validators
               /\ ~Forfeits(blk, before[v])
               /\ Earns(before[v], blk.time) THEN 1 ELSE 0]
    OBVIOUS
  <2>3. earned \in [Validators -> Int]
    BY <2>2
  <2>4. owed' = [v \in Validators |-> owed[v] + earned[v] - Claimed(blk, v)]
    BY <2>2, Zenon DEF Connects
  <2> QED
    BY <2>1, <2>3, <2>4
<1>8. irregular' \subseteq Validators /\ failed' \subseteq Validators
  BY DEF Connects, Irregular, SetInv, Histories
<1> QED
  BY <1>3, <1>5, <1>6, <1>7, <1>8, Zenon DEF Histories

LEMMA OthersStep ==
    ASSUME SetInv, NEW blk, BlockOK(blk), height < MaxBlocks,
           NEW base, NEW owner, ChoiceOK(blk, base, owner),
           NEW flush \in BOOLEAN, SpendsOK(blk, base),
           NEW before, before = AfterTxs(blk, base),
           NEW epoch, epoch = AfterEpoch(blk, before),
           NEW updates, updates = AfterProducer(blk, epoch),
           Connects(blk, owner, before, epoch, updates, flush), Objects'
    PROVE  Others'
<1>1. \A v \in Changed(blk) : Updated(blk, base, v, before[v], epoch[v], updates[v])
  BY UpdateForm
<1>2. toDelete' \subseteq Validators
  BY <1>1 DEF Connects, SetInv, Others, Updated
<1>3. disk' \subseteq Validators
  BY DEF Connects, SetInv, Others, Objects
<1>4. NullifiersToBan(blk, epoch) \subseteq Nullifiers
  <2> SUFFICES ASSUME NEW w \in blk.struck, Banned(epoch[w]), NEW n \in DOMAIN epoch[w].nulls
               PROVE  n \in Nullifiers
    BY DEF NullifiersToBan
  <2>1. w \in Changed(blk)
    BY DEF BlockOK, Changed
  <2> QED
    BY <1>1, <2>1 DEF Updated, Proper
<1>5. spent' \subseteq Nullifiers
  BY <1>4 DEF Connects, BlockOK, SetInv, Others
<1>6. now' \in 0..height' /\ height' \in 0..MaxBlocks
  BY ValidatorSetAssumption DEF Connects, BlockOK, SetInv, Others
<1> QED
  BY <1>2, <1>3, <1>5, <1>6, Zenon DEF Others

-----------------------------------------------------------------------------
\* v is regular, and the block leaves it so.
StaysRegular(blk, v) ==
    /\ v \in Validators
    /\ RegularOK(v)
    /\ \A n, m \in Coins(v) \cup StakedBy(blk, v) : n = m
    /\ \A n \in Coins(v) \cup StakedBy(blk, v), s \in StakesMade(blk) : s[2] = n => s[1] = v
    /\ v \in toDelete => StakedBy(blk, v) = {}

LEMMA RegularStays ==
    ASSUME SetInv, NEW blk, NEW v \in Validators, v \notin irregular, v \notin Irregular(blk)
    PROVE  StaysRegular(blk, v)
<1> DEFINE coins(w) == {n \in Nullifiers : <<w, n>> \in DOMAIN staked \cup DOMAIN blk.stakes}
<1>1. /\ ~ \E n, m \in coins(v) : n # m
      /\ ~ \E s \in StakesMade(blk) : s[1] # v /\ s[2] \in coins(v)
      /\ ~ (v \in toDelete /\ StakedBy(blk, v) # {})
  BY Zenon DEF Irregular
<1>2. coins(v) = Coins(v) \cup StakedBy(blk, v)
  BY DEF Coins, StakedBy
<1>3. RegularOK(v)
  BY DEF SetInv
<1> HIDE DEF coins
<1> QED
  BY <1>1, <1>2, <1>3 DEF StaysRegular

\* The spends of a block from a regular validator are those of its coin, and
\* whichever validator a change starts from has that coin.
LEMMA RegularBase ==
    ASSUME SetInv, NEW blk, BlockOK(blk), NEW v \in Validators, RegularOK(v)
    PROVE  /\ SpentOf(blk, v) = Coins(v) \cap blk.spends
           /\ \A base \in Bases(blk, v) :
                /\ DOMAIN base.nulls = Coins(v)
                /\ SpentOf(blk, v) = {} =>
                     base = IF v \in DOMAIN validators THEN validators[v] ELSE NewValidator(v)
<1>1. SpentOf(blk, v) = Coins(v) \cap blk.spends
  BY DEF RegularOK, IsCurrent, SpentOf
<1>2. ASSUME NEW base \in Bases(blk, v)
      PROVE  /\ DOMAIN base.nulls = Coins(v)
             /\ SpentOf(blk, v) = {} =>
                  base = IF v \in DOMAIN validators THEN validators[v] ELSE NewValidator(v)
  <2>1. CASE \E n \in SpentOf(blk, v) : base = nullifierMap[n]
    <3>1. PICK n \in Coins(v) : base = nullifierMap[n] /\ n \in SpentOf(blk, v)
      BY <1>1, <2>1
    <3>2. DOMAIN base.nulls = {n} /\ Coins(v) = {n}
      BY <3>1 DEF RegularOK, Sole
    <3> QED
      BY <3>1, <3>2
  <2>2. CASE v \in DOMAIN validators /\ base = validators[v]
    BY <2>2 DEF RegularOK, IsCurrent
  <2>3. CASE v \notin DOMAIN validators /\ base = NewValidator(v)
    <3>1. Coins(v) = {}
      BY <2>3 DEF RegularOK, IsCurrent
    <3>2. DOMAIN base.nulls = {}
      BY <2>3, NewValidatorForm
    <3> QED
      BY <2>3, <3>1, <3>2
  <2> QED
    BY <2>1, <2>2, <2>3 DEF Bases
<1> QED
  BY <1>1, <1>2

\* A regular validator after the transactions of a block: if it has a coin left,
\* it is the one the set holds, or a new one, with that coin counted once.
LEMMA RegularBefore ==
    ASSUME SetInv, NEW blk, BlockOK(blk), NEW base, NEW owner, ChoiceOK(blk, base, owner),
           SpendsOK(blk, base), NEW v \in Changed(blk), StaysRegular(blk, v),
           NEW b, b = IF v \in Touched(blk) THEN Staged(blk, v, base[v]) ELSE validators[v]
    PROVE  /\ DOMAIN b.nulls = (Coins(v) \cup StakedBy(blk, v)) \ blk.spends
           /\ \A n \in DOMAIN b.nulls :
                /\ n \notin StakedBy(blk, v) => n \in Coins(v) /\ v \in DOMAIN validators
                /\ b.nulls[n] = IF n \in StakedBy(blk, v) THEN StakeOf(blk, v, n)
                                ELSE validators[v].nulls[n]
                /\ b.total = Amount[n] % AmountRange
                /\ n \in Coins(v) => b.weighted = validators[v].weighted
                /\ n \notin Coins(v) =>
                     b.weighted = Counted(n, blk.stakes[<<v, n>>]) % AmountRange
                /\ b.unclaimed = IF v \in DOMAIN validators
                                   THEN validators[v].unclaimed - Claimed(blk, v) ELSE 0
<1>1. PICK C : C = Coins(v)
  OBVIOUS
<1>2. PICK M : M = StakedBy(blk, v)
  OBVIOUS
<1>3. PICK G : G = SpentOf(blk, v)
  OBVIOUS
<1>4. /\ v \in Validators /\ RegularOK(v) /\ \A n, m \in C \cup M : n = m
  BY <1>1, <1>2 DEF StaysRegular
<1>5. /\ G = C \cap blk.spends
      /\ \A o \in Bases(blk, v) :
            /\ DOMAIN o.nulls = C
            /\ G = {} => o = IF v \in DOMAIN validators THEN validators[v] ELSE NewValidator(v)
  BY <1>1, <1>3, <1>4, RegularBase
<1>6. M \cap blk.spends = {} /\ M \in SUBSET Nullifiers /\ C \in SUBSET Nullifiers
  BY <1>1, <1>2, StakedByIs DEF Coins
<1>7. /\ v \in DOMAIN validators <=> C # {}
      /\ v \in DOMAIN validators =>
           /\ DOMAIN validators[v].nulls = C
           /\ validators[v].total = Total(C, Amount) % AmountRange
           /\ Installed(validators[v], past)
           /\ validators[v].unclaimed \in Nat
  BY <1>1, <1>4 DEF RegularOK, IsCurrent, SetInv, Objects, Installed, Proper, ValidatorsOf
<1>8. \A n : C = {n} => Total(C, Amount) = Amount[n]
  BY <1>6, TotalIs, ValidatorSetAssumption
<1>9. CASE v \in Touched(blk)
  <2>1. PICK o : o = base[v]
    OBVIOUS
  <2>2. o \in Bases(blk, v) /\ G \subseteq DOMAIN o.nulls /\ b = Staged(blk, v, o)
    BY <1>3, <1>9, <2>1 DEF ChoiceOK, SpendsOK
  <2>3. Proper(o, past) /\ o.id = v /\ o.strikes < MaxStrikes
    BY <1>4, <2>2, BaseForm
  <2>4. DOMAIN o.nulls = C
    BY <1>5, <2>2
  <2>5. /\ DOMAIN b.nulls = (C \cup M) \ G
        /\ \A n \in DOMAIN b.nulls :
             b.nulls[n] = IF n \in M THEN StakeOf(blk, v, n) ELSE o.nulls[n]
        /\ G = {} /\ M \ C = {} => b.total = o.total /\ b.weighted = o.weighted
        /\ \A n : G = {} /\ M \ C = {n} =>
             /\ b.total = (o.total + Amount[n]) % AmountRange
             /\ b.weighted = (o.weighted + Counted(n, blk.stakes[<<v, n>>])) % AmountRange
        /\ b.unclaimed = IF Claimed(blk, v) >= o.unclaimed THEN 0
                         ELSE o.unclaimed - Claimed(blk, v)
    BY <1>2, <1>3, <1>4, <2>2, <2>3, <2>4, StagedForm
  <2>6. DOMAIN b.nulls = (C \cup M) \ blk.spends
    BY <1>5, <1>6, <2>5
  <2>7. ASSUME NEW n \in DOMAIN b.nulls
        PROVE  /\ n \notin M => n \in C /\ v \in DOMAIN validators
               /\ b.nulls[n] = IF n \in M THEN StakeOf(blk, v, n) ELSE validators[v].nulls[n]
               /\ b.total = Amount[n] % AmountRange
               /\ n \in C => b.weighted = validators[v].weighted
               /\ n \notin C => b.weighted = Counted(n, blk.stakes[<<v, n>>]) % AmountRange
               /\ b.unclaimed = IF v \in DOMAIN validators
                                  THEN validators[v].unclaimed - Claimed(blk, v) ELSE 0
    <3>1. C \cup M = {n} /\ G = {}
      BY <1>4, <1>5, <2>5, <2>6, <2>7
    <3>2. o = IF v \in DOMAIN validators THEN validators[v] ELSE NewValidator(v)
      BY <1>5, <2>2, <3>1
    <3>3. n \notin M => n \in C /\ v \in DOMAIN validators
      BY <1>7, <3>1
    <3>4. b.nulls[n] = IF n \in M THEN StakeOf(blk, v, n) ELSE validators[v].nulls[n]
      BY <2>5, <3>2, <3>3
    <3>5. n \in Nullifiers /\ Amount[n] \in Nat
      BY <1>6, <3>1, ValidatorSetAssumption
    <3>6. Claimed(blk, v) = IF v \in blk.coinbases THEN validators[v].unclaimed ELSE 0
      BY DEF Claimed
    <3>7. CASE n \in C
      <4>1. C = {n} /\ M \ C = {} /\ v \in DOMAIN validators
        BY <1>7, <3>1, <3>7
      <4>2. b.total = o.total /\ b.weighted = o.weighted /\ o = validators[v]
        BY <2>5, <3>1, <3>2, <4>1
      <4>3. b.unclaimed = validators[v].unclaimed - Claimed(blk, v)
        BY <1>7, <2>5, <3>6, <4>1, <4>2
      <4> QED
        BY <1>7, <1>8, <3>3, <3>4, <3>7, <4>1, <4>2, <4>3
    <3>8. CASE n \notin C
      <4>1. C = {} /\ M \ C = {n} /\ v \notin DOMAIN validators
        BY <1>7, <3>1, <3>8
      <4>2. o.total = 0 /\ o.weighted = 0 /\ o.unclaimed = 0
        BY <1>4, <3>2, <4>1, NewValidatorForm
      <4>3. n \in M /\ blk.stakes[<<v, n>>] \in Weights
        BY <1>2, <4>1, StakedByIs
      <4>4. PICK k \in Nat : k = Counted(n, blk.stakes[<<v, n>>])
        BY <3>5, <4>3, WeightsNat
      <4>5. b.total = (0 + Amount[n]) % AmountRange /\ b.weighted = (0 + k) % AmountRange
        BY <2>5, <3>1, <4>1, <4>2, <4>4
      <4>6. b.total = Amount[n] % AmountRange /\ b.weighted = k % AmountRange
        BY <3>5, <4>4, <4>5, ValidatorSetAssumption
      <4>7. Claimed(blk, v) = 0
        BY <3>6, <4>1 DEF BlockOK
      <4>8. b.unclaimed = 0
        BY <2>5, <4>2, <4>7
      <4> QED
        BY <3>3, <3>4, <3>8, <4>1, <4>4, <4>6, <4>8
    <3> QED
      BY <3>7, <3>8
  <2> QED
    BY <1>1, <1>2, <2>6, <2>7
<1>10. CASE v \notin Touched(blk)
  <2>1. M = {} /\ G = {} /\ v \notin blk.coinbases
    BY <1>2, <1>3, <1>4, <1>10 DEF Touched, Direct
  <2>2. v \in DOMAIN validators /\ b = validators[v]
    BY <1>10 DEF Changed, BlockOK
  <2>3. Claimed(blk, v) = 0
    BY <2>1 DEF Claimed
  <2>4. DOMAIN b.nulls = C /\ C = (C \cup M) \ blk.spends
    BY <1>5, <1>7, <2>1, <2>2
  <2>5. \A n \in C : C = {n} /\ b.total = Amount[n] % AmountRange
    BY <1>4, <1>7, <1>8, <2>2
  <2>6. b.unclaimed = validators[v].unclaimed - 0
    BY <1>7, <2>2
  <2> QED
    BY <1>1, <1>2, <2>1, <2>2, <2>3, <2>4, <2>5, <2>6
<1> QED
  BY <1>9, <1>10

\* The coins that a block leaves to a regular validator are those that the set
\* is given for it, staked when the set says so.
LEMMA CoinsAfter ==
    ASSUME SetInv, NEW blk, BlockOK(blk), NEW base, NEW owner, ChoiceOK(blk, base, owner),
           NEW flush \in BOOLEAN, SpendsOK(blk, base),
           NEW before, before = AfterTxs(blk, base),
           NEW epoch, epoch = AfterEpoch(blk, before),
           NEW updates, updates = AfterProducer(blk, epoch),
           Connects(blk, owner, before, epoch, updates, flush),
           NEW v, StaysRegular(blk, v)
    PROVE  /\ Coins(v)' = IF v \in Changed(blk) THEN DOMAIN updates[v].nulls ELSE Coins(v)
           /\ Coins(v)' \subseteq (Coins(v) \cup StakedBy(blk, v)) \ blk.spends
           /\ v \notin Changed(blk) => StakedBy(blk, v) = {}
           /\ \A n \in Coins(v)' :
                staked'[<<v, n>>] = IF n \in StakedBy(blk, v) THEN blk.time
                                    ELSE staked[<<v, n>>]
<1>1. PICK C : C = Coins(v)
  OBVIOUS
<1>2. PICK M : M = StakedBy(blk, v)
  OBVIOUS
<1>3. PICK banned : banned = NullifiersToBan(blk, epoch)
  OBVIOUS
<1>4. PICK stamp : stamp = [pair \in DOMAIN staked \cup DOMAIN blk.stakes |->
                    IF pair \in DOMAIN blk.stakes THEN blk.time ELSE staked[pair]]
  OBVIOUS
<1>5. /\ v \in Validators /\ RegularOK(v)
      /\ \A n \in C \cup M, s \in StakesMade(blk) : s[2] = n => s[1] = v
  BY <1>1, <1>2 DEF StaysRegular
<1>6. /\ \A n \in Nullifiers : n \in C <=> <<v, n>> \in DOMAIN staked
      /\ \A n \in Nullifiers : n \in M <=> <<v, n>> \in DOMAIN blk.stakes
      /\ C \in SUBSET Nullifiers /\ M \in SUBSET Nullifiers
  BY <1>1, <1>2 DEF Coins, StakedBy
<1>7. \A n \in C \cup M : stamp[<<v, n>>] = IF n \in M THEN blk.time ELSE staked[<<v, n>>]
  BY <1>4, <1>6
<1>8. PICK out : out = {pair \in DOMAIN stamp :
            \/ pair[2] \in blk.spends
            \/ IsEpoch(blk) /\ blk.time - stamp[pair] >= Expiration
            \/ pair[1] \in blk.struck /\ pair[2] \in banned}
  OBVIOUS
<1>9. staked' = Without(stamp, out)
  BY <1>3, <1>4, <1>8, Zenon DEF Connects, StakesAfter
<1>10. DOMAIN stamp = DOMAIN staked \cup DOMAIN blk.stakes
  BY <1>4
<1>11. /\ DOMAIN staked' = DOMAIN stamp \ out
       /\ \A pair \in DOMAIN staked' : staked'[pair] = stamp[pair]
  BY <1>9 DEF Without
<1>12. \A n \in C \cup M : <<v, n>> \in out <=>
            \/ n \in blk.spends
            \/ IsEpoch(blk) /\ blk.time - stamp[<<v, n>>] >= Expiration
            \/ v \in blk.struck /\ n \in banned
  BY <1>6, <1>8, <1>10
<1>13. Coins(v)' = {n \in C \cup M : <<v, n>> \notin out}
  BY <1>6, <1>10, <1>11 DEF Coins
<1>14. \A n \in Coins(v)' :
          staked'[<<v, n>>] = IF n \in M THEN blk.time ELSE staked[<<v, n>>]
  <2>1. \A n \in Coins(v)' : n \in C \cup M /\ <<v, n>> \in DOMAIN staked'
    BY <1>13 DEF Coins
  <2> QED
    BY <1>7, <1>11, <2>1
<1>15. Coins(v)' \subseteq (C \cup M) \ blk.spends
  BY <1>12, <1>13
<1>16. CASE v \in Changed(blk)
  <2>1. PICK b, e, u : b = before[v] /\ e = epoch[v] /\ u = updates[v]
    OBVIOUS
  <2>2. Updated(blk, base, v, b, e, u)
    BY <1>16, <2>1, UpdateForm
  <2>3. b = IF v \in Touched(blk) THEN Staged(blk, v, base[v]) ELSE validators[v]
    BY <2>2 DEF Updated
  <2>4. /\ DOMAIN b.nulls = (C \cup M) \ blk.spends
        /\ \A n \in DOMAIN b.nulls :
             /\ n \notin M => n \in C /\ v \in DOMAIN validators
             /\ b.nulls[n] = IF n \in M THEN StakeOf(blk, v, n) ELSE validators[v].nulls[n]
    <3>1. /\ DOMAIN b.nulls = (C \cup M) \ blk.spends
          /\ \A m \in DOMAIN b.nulls :
               /\ m \notin M => m \in C /\ v \in DOMAIN validators
               /\ b.nulls[m] = IF m \in M THEN StakeOf(blk, v, m) ELSE validators[v].nulls[m]
               /\ b.total = Amount[m] % AmountRange
               /\ m \in C => b.weighted = validators[v].weighted
               /\ m \notin C => b.weighted = Counted(m, blk.stakes[<<v, m>>]) % AmountRange
               /\ b.unclaimed = IF v \in DOMAIN validators
                                  THEN validators[v].unclaimed - Claimed(blk, v) ELSE 0
      BY <1>1, <1>2, <1>16, <2>3, RegularBefore
    <3> QED
      BY <3>1
  <2>5. \A n \in DOMAIN b.nulls : b.nulls[n].stamp = stamp[<<v, n>>]
    <3>1. \A n \in C : v \in DOMAIN validators => validators[v].nulls[n].stamp = staked[<<v, n>>]
      BY <1>1, <1>5 DEF RegularOK, IsCurrent
    <3>2. \A n : StakeOf(blk, v, n).stamp = blk.time
      BY DEF StakeOf
    <3> QED
      BY <1>7, <2>4, <3>1, <3>2
  <2>6. IsEpoch(blk) => DOMAIN e.nulls =
            {n \in DOMAIN b.nulls : ~(blk.time - stamp[<<v, n>>] >= Expiration)}
    <3>1. CASE v \in DOMAIN validators
      BY <2>2, <2>5, <3>1 DEF Updated, Expired
    <3>2. CASE v \notin DOMAIN validators
      <4>1. \A n \in DOMAIN b.nulls : stamp[<<v, n>>] = blk.time
        BY <1>7, <2>4, <3>2
      <4>2. ~(blk.time - blk.time >= Expiration)
        BY ValidatorSetAssumption DEF BlockOK, SetInv, Others
      <4>3. DOMAIN e.nulls = DOMAIN b.nulls
        BY <2>2, <3>2 DEF Updated
      <4> QED
        BY <4>1, <4>2, <4>3
    <3> QED
      BY <3>1, <3>2
  <2>7. ~IsEpoch(blk) => DOMAIN e.nulls = DOMAIN b.nulls
    BY <2>2 DEF Updated
  <2>8. \A n \in DOMAIN e.nulls : v \in blk.struck /\ n \in banned <=>
                                  v \in blk.struck /\ Banned(e)
    <3> SUFFICES ASSUME NEW n \in DOMAIN e.nulls, v \in blk.struck
                 PROVE  n \in banned <=> Banned(e)
      OBVIOUS
    <3>1. n \in C \cup M
      BY <2>4, <2>6, <2>7
    <3>2. Banned(e) => n \in banned
      BY <1>3, <2>1 DEF NullifiersToBan
    <3>3. ASSUME n \in banned PROVE Banned(e)
      <4>1. PICK w \in blk.struck : Banned(epoch[w]) /\ n \in DOMAIN epoch[w].nulls
        BY <1>3, <3>3 DEF NullifiersToBan
      <4>2. w \in Changed(blk)
        BY DEF BlockOK, Changed
      <4>3. Updated(blk, base, w, before[w], epoch[w], updates[w])
        BY <4>2, UpdateForm
      <4>4. WasStaked(StakesMade(blk), w, n)
        BY <4>1, <4>3 DEF Updated, Proper
      <4>5. w = v
        BY <1>5, <3>1, <4>4 DEF WasStaked
      <4> QED
        BY <2>1, <4>1, <4>5
    <3> QED
      BY <3>2, <3>3
  <2>9. DOMAIN u.nulls = IF v \in blk.struck /\ Banned(e) THEN {} ELSE DOMAIN e.nulls
    BY <2>2 DEF Updated
  <2>10. Coins(v)' = {n \in DOMAIN e.nulls : ~(v \in blk.struck /\ n \in banned)}
    BY <1>12, <1>13, <2>4, <2>6, <2>7
  <2>11. Coins(v)' = DOMAIN u.nulls
    BY <2>8, <2>9, <2>10
  <2> QED
    BY <1>1, <1>2, <1>14, <1>15, <1>16, <2>1, <2>11
<1>17. CASE v \notin Changed(blk)
  <2>1. v \notin Touched(blk) /\ (IsEpoch(blk) => v \notin DOMAIN validators)
        /\ (~IsEpoch(blk) => v \notin blk.struck)
    BY <1>17 DEF Changed
  <2>2. M = {} /\ SpentOf(blk, v) = {}
    BY <1>2, <1>5, <2>1 DEF Touched, Direct
  <2>3. C \cap blk.spends = {}
    BY <1>1, <1>5, <2>2, RegularBase
  <2>4. v \notin DOMAIN validators => C = {}
    BY <1>1, <1>5 DEF RegularOK, IsCurrent
  <2>5. \A n \in C \cup M : <<v, n>> \notin out
    BY <1>12, <2>1, <2>2, <2>3, <2>4
  <2>6. Coins(v)' = C
    BY <1>13, <2>2, <2>5
  <2> QED
    BY <1>1, <1>2, <1>14, <1>15, <1>17, <2>2, <2>6
<1> QED
  BY <1>16, <1>17

\* nullifierMap has an entry of a regular validator for its coin and no other,
\* whatever happens to the other validators of the block.
LEMMA MapAfter ==
    ASSUME SetInv, NEW blk, BlockOK(blk), NEW base, NEW owner, ChoiceOK(blk, base, owner),
           NEW flush \in BOOLEAN, SpendsOK(blk, base),
           NEW before, before = AfterTxs(blk, base),
           NEW epoch, epoch = AfterEpoch(blk, before),
           NEW updates, updates = AfterProducer(blk, epoch),
           Connects(blk, owner, before, epoch, updates, flush),
           NEW v, StaysRegular(blk, v)
    PROVE  /\ {n \in DOMAIN nullifierMap' : nullifierMap'[n].id = v} = Coins(v)'
           /\ \A n \in Coins(v)' : DOMAIN nullifierMap'[n].nulls = {n}
<1>1. PICK C : C = Coins(v)
  OBVIOUS
<1>2. PICK M : M = StakedBy(blk, v)
  OBVIOUS
<1>3. PICK D : D = Coins(v)'
  OBVIOUS
<1>4. /\ v \in Validators /\ RegularOK(v)
      /\ \A n, m \in C \cup M : n = m
      /\ \A n \in C \cup M, s \in StakesMade(blk) : s[2] = n => s[1] = v
  BY <1>1, <1>2 DEF StaysRegular
<1>5. /\ D = IF v \in Changed(blk) THEN DOMAIN updates[v].nulls ELSE C
      /\ D \subseteq (C \cup M) \ blk.spends
      /\ v \notin Changed(blk) => M = {}
  BY <1>1, <1>2, <1>3, CoinsAfter
<1>6. /\ C = {n \in DOMAIN nullifierMap : nullifierMap[n].id = v}
      /\ \A n \in C : DOMAIN nullifierMap[n].nulls = {n}
  BY <1>1, <1>4 DEF RegularOK, IsCurrent, Sole
<1>7. SpentOf(blk, v) = C \cap blk.spends
  BY <1>1, <1>4, RegularBase
<1>8. \A w \in Changed(blk) : Updated(blk, base, w, before[w], epoch[w], updates[w])
  BY UpdateForm
<1>9. v \in Changed(blk) => DOMAIN before[v].nulls = (C \cup M) \ blk.spends
  <2> SUFFICES ASSUME v \in Changed(blk)
               PROVE  DOMAIN before[v].nulls = (C \cup M) \ blk.spends
    OBVIOUS
  <2>1. PICK b : b = before[v]
    OBVIOUS
  <2>2. b = IF v \in Touched(blk) THEN Staged(blk, v, base[v]) ELSE validators[v]
    BY <1>8, <2>1 DEF Updated
  <2>3. DOMAIN b.nulls = (Coins(v) \cup StakedBy(blk, v)) \ blk.spends
    BY <2>2, RegularBefore
  <2> QED
    BY <1>1, <1>2, <2>1, <2>3
\* A coin of v that the block stakes is entered for v.
<1>10. ASSUME NEW n \in StakesOf(blk)
       PROVE  /\ owner[n] \in Changed(blk) /\ n \notin blk.spends
              /\ owner[n] = v => n \in M
              /\ n \in C \cup M => owner[n] = v
  <2>1. PICK w : w = owner[n]
    OBVIOUS
  <2>2. <<w, n>> \in DOMAIN blk.stakes
    BY <2>1 DEF ChoiceOK
  <2>3. w \in Validators /\ n \in Nullifiers
    BY <2>2, ValidatorSetAssumption DEF BlockOK
  <2>4. n \in StakedBy(blk, w)
    BY <2>2, <2>3 DEF StakedBy
  <2>5. w \in Changed(blk)
    BY <2>3, <2>4 DEF Changed, Touched, Direct
  <2>6. WasStaked(StakesMade(blk), w, n)
    BY <2>4, StakedByIs
  <2>7. n \in C \cup M => w = v
    BY <1>4, <2>6 DEF WasStaked
  <2> QED
    BY <1>2, <2>1, <2>4, <2>5, <2>7 DEF BlockOK
<1>11. ASSUME NEW n \in D
       PROVE  /\ n \in DOMAIN nullifierMap' /\ nullifierMap'[n].id = v
              /\ DOMAIN nullifierMap'[n].nulls = {n}
  <2>1. n \in C \cup M /\ n \notin blk.spends
    BY <1>5
  <2>2. ~Leaves(blk, before, updates, n)
    <3> SUFFICES ASSUME NEW w \in Changed(blk), n \in DOMAIN before[w].nulls
                 PROVE  n \in DOMAIN updates[w].nulls
      BY <2>1 DEF Leaves, SpentOf
    <3>0. Proper(before[w], StakesMade(blk)) /\ before[w].id = w
      BY <1>8, Zenon DEF Updated
    <3>1. WasStaked(StakesMade(blk), w, n)
      BY <3>0 DEF Proper
    <3>2. w = v
      BY <1>4, <2>1, <3>1 DEF WasStaked
    <3> QED
      BY <1>5, <3>2
  <2>3. CASE n \in StakesOf(blk)
    <3>1. n \in DOMAIN nullifierMap' /\ nullifierMap'[n] = updates[v] /\ v \in Changed(blk)
      BY <1>10, <2>1, <2>2, <2>3 DEF Connects
    <3>2. updates[v].id = v
      BY <1>8, <3>1 DEF Updated
    <3>3. DOMAIN updates[v].nulls = {n}
      BY <1>4, <1>5, <3>1
    <3> QED
      BY <3>1, <3>2, <3>3
  <2>4. CASE n \notin StakesOf(blk)
    <3>1. n \notin M
      BY <1>2, <2>4, StakedByIs
    <3>2. n \in C
      BY <2>1, <3>1
    <3> QED
      BY <1>6, <2>2, <2>4, <3>2 DEF Connects
  <2> QED
    BY <2>3, <2>4
<1>12. ASSUME NEW n \in DOMAIN nullifierMap', nullifierMap'[n].id = v
       PROVE  n \in D
  <2>1. ~Leaves(blk, before, updates, n) /\ n \in DOMAIN nullifierMap \cup StakesOf(blk)
    BY DEF Connects
  <2>2. CASE n \in StakesOf(blk)
    <3>1. nullifierMap'[n] = updates[owner[n]]
      BY <2>2 DEF Connects
    <3>2. updates[owner[n]].id = owner[n]
      BY <1>8, <1>10, <2>2 DEF Updated
    <3>3. owner[n] = v /\ v \in Changed(blk) /\ n \in M /\ n \notin blk.spends
      BY <1>10, <1>12, <2>2, <3>1, <3>2
    <3>4. n \in DOMAIN updates[v].nulls
      BY <1>9, <2>1, <3>3 DEF Leaves
    <3> QED
      BY <1>5, <3>3, <3>4
  <2>3. CASE n \notin StakesOf(blk)
    <3>1. n \in DOMAIN nullifierMap /\ nullifierMap'[n] = nullifierMap[n]
      BY <2>1, <2>3 DEF Connects
    <3>2. n \in C
      BY <1>6, <1>12, <3>1
    <3>3. ASSUME v \in Changed(blk) PROVE n \in DOMAIN updates[v].nulls
      <4>1. n \notin SpentOf(blk, v)
        BY <2>1, <3>3 DEF Leaves
      <4>2. n \notin blk.spends
        BY <1>7, <3>2, <4>1
      <4> QED
        BY <1>9, <2>1, <3>2, <3>3, <4>2 DEF Leaves
    <3> QED
      BY <1>5, <3>2, <3>3
  <2> QED
    BY <2>2, <2>3
<1> QED
  BY <1>3, <1>11, <1>12

\* A block keeps what is known of a regular validator's coins and rewards.
LEMMA RegularStep ==
    ASSUME SetInv, NEW blk, BlockOK(blk), NEW base, NEW owner, ChoiceOK(blk, base, owner),
           NEW flush \in BOOLEAN, SpendsOK(blk, base),
           NEW before, before = AfterTxs(blk, base),
           NEW epoch, epoch = AfterEpoch(blk, before),
           NEW updates, updates = AfterProducer(blk, epoch),
           Connects(blk, owner, before, epoch, updates, flush),
           NEW v, StaysRegular(blk, v)
    PROVE  RegularOK(v)'
<1>1. PICK C : C = Coins(v)
  OBVIOUS
<1>2. PICK M : M = StakedBy(blk, v)
  OBVIOUS
<1>3. PICK D : D = Coins(v)'
  OBVIOUS
<1>4. /\ v \in Validators /\ RegularOK(v)
      /\ \A n, m \in C \cup M : n = m
      /\ \A n \in C \cup M, s \in StakesMade(blk) : s[2] = n => s[1] = v
      /\ v \in toDelete => M = {}
  BY <1>1, <1>2 DEF StaysRegular
<1>5. /\ D = IF v \in Changed(blk) THEN DOMAIN updates[v].nulls ELSE C
      /\ D \subseteq (C \cup M) \ blk.spends
      /\ v \notin Changed(blk) => M = {}
      /\ \A n \in D : staked'[<<v, n>>] = IF n \in M THEN blk.time ELSE staked[<<v, n>>]
  BY <1>1, <1>2, <1>3, CoinsAfter
<1>6. /\ v \in DOMAIN validators <=> C # {}
      /\ v \in DOMAIN validators =>
           /\ DOMAIN validators[v].nulls = C
           /\ validators[v].total = Total(C, Amount) % AmountRange
           /\ \A n \in C : validators[v].nulls[n].stamp = staked[<<v, n>>]
      /\ v \notin failed
  BY <1>1, <1>4 DEF RegularOK, IsCurrent
<1>7. /\ v \in DOMAIN validators' <=> D # {}
      /\ v \in DOMAIN validators' =>
           validators'[v] = IF v \in Changed(blk) THEN updates[v] ELSE validators[v]
  BY <1>5, <1>6 DEF Connects
<1>8. D \in SUBSET Nullifiers /\ \A n, m \in D : n = m
  BY <1>3, <1>4, <1>5 DEF Coins
<1>9. past' = StakesMade(blk) /\ past \subseteq past'
  BY DEF Connects, StakesMade
\* The validator, if the block changes it.
<1>10. PICK b : b = before[v]
  OBVIOUS
<1>11. v \in Changed(blk) => Updated(blk, base, v, b, epoch[v], updates[v])
  BY <1>10, UpdateForm
<1>12. ASSUME v \in Changed(blk), NEW n \in D
       PROVE  /\ n \in DOMAIN b.nulls
              /\ updates[v].nulls[n] = b.nulls[n]
              /\ updates[v].total = Amount[n] % AmountRange
              /\ updates[v].weighted = b.weighted
              /\ n \notin M => n \in C /\ v \in DOMAIN validators
              /\ b.nulls[n] = IF n \in M THEN StakeOf(blk, v, n) ELSE validators[v].nulls[n]
              /\ n \in C => b.weighted = validators[v].weighted
              /\ n \notin C => b.weighted = Counted(n, blk.stakes[<<v, n>>]) % AmountRange
              /\ b.unclaimed = IF v \in DOMAIN validators
                                 THEN validators[v].unclaimed - Claimed(blk, v) ELSE 0
  <2>1. b = IF v \in Touched(blk) THEN Staged(blk, v, base[v]) ELSE validators[v]
    BY <1>11, <1>12 DEF Updated
  <2>2. /\ DOMAIN b.nulls = (C \cup M) \ blk.spends
        /\ \A m \in DOMAIN b.nulls :
             /\ m \notin M => m \in C /\ v \in DOMAIN validators
             /\ b.nulls[m] = IF m \in M THEN StakeOf(blk, v, m) ELSE validators[v].nulls[m]
             /\ b.total = Amount[m] % AmountRange
             /\ m \in C => b.weighted = validators[v].weighted
             /\ m \notin C => b.weighted = Counted(m, blk.stakes[<<v, m>>]) % AmountRange
             /\ b.unclaimed = IF v \in DOMAIN validators
                                THEN validators[v].unclaimed - Claimed(blk, v) ELSE 0
    BY <1>1, <1>2, <1>12, <2>1, RegularBefore
  <2>3. n \in DOMAIN b.nulls
    BY <1>5, <2>2
  <2>4. /\ updates[v].nulls[n] = b.nulls[n] /\ updates[v].total = b.total
        /\ updates[v].weighted = b.weighted
    BY <1>5, <1>11, <1>12 DEF Updated
  <2> QED
    BY <2>2, <2>3, <2>4
<1>13. \A n : StakeOf(blk, v, n).stamp = blk.time /\
              StakeOf(blk, v, n).weighted = WeightedAmount(n, blk.stakes[<<v, n>>])
  BY DEF StakeOf
<1>14. \A S \in SUBSET Nullifiers : \A n : S = {n} => Total(S, Amount) = Amount[n]
  BY TotalIs, ValidatorSetAssumption
<1>15. v \in DOMAIN validators' =>
         /\ DOMAIN validators'[v].nulls = D
         /\ validators'[v].total = Total(D, Amount) % AmountRange
         /\ \A n \in D : validators'[v].nulls[n].stamp = staked'[<<v, n>>]
  <2> SUFFICES ASSUME v \in DOMAIN validators'
               PROVE  /\ DOMAIN validators'[v].nulls = D
                      /\ validators'[v].total = Total(D, Amount) % AmountRange
                      /\ \A n \in D : validators'[v].nulls[n].stamp = staked'[<<v, n>>]
    OBVIOUS
  <2>1. CASE v \in Changed(blk)
    <3>1. PICK n \in D : D = {n}
      BY <1>7, <1>8
    <3>2. Total(D, Amount) = Amount[n]
      BY <1>8, <1>14, <3>1
    <3>3. updates[v].nulls[n].stamp = staked'[<<v, n>>]
      BY <1>5, <1>6, <1>12, <1>13, <2>1
    <3> QED
      BY <1>5, <1>7, <1>12, <2>1, <3>1, <3>2, <3>3
  <2>2. CASE v \notin Changed(blk)
    <3>1. v \in DOMAIN validators /\ D = C /\ M = {} /\ validators'[v] = validators[v]
      BY <1>5, <1>6, <1>7, <2>2
    <3> QED
      BY <1>5, <1>6, <3>1
  <2> QED
    BY <2>1, <2>2
<1>16. IsCurrent(v)'
  <2>1. {n \in DOMAIN nullifierMap' : nullifierMap'[n].id = v} = D
    BY <1>3, MapAfter
  <2>2. v \notin failed'
    BY <1>6 DEF Connects
  <2> QED
    BY <1>3, <1>7, <1>15, <2>1, <2>2 DEF IsCurrent

\* The weight of a stake is that of a lock the coin was staked with.
<1>17. Sole(v)
  BY <1>4 DEF RegularOK
<1>18. ASSUME v \in DOMAIN validators', NEW n \in D
       PROVE  \E w \in Weights : /\ <<v, n, w>> \in past'
                                 /\ validators'[v].nulls[n].weighted = WeightedAmount(n, w)
  <2>1. ASSUME n \in C, v \in DOMAIN validators,
               validators'[v].nulls[n] = validators[v].nulls[n]
        PROVE  \E w \in Weights : /\ <<v, n, w>> \in past'
                                  /\ validators'[v].nulls[n].weighted = WeightedAmount(n, w)
    BY <1>1, <1>9, <1>17, <2>1 DEF Sole
  <2>2. CASE v \in Changed(blk) /\ n \in M
    <3>1. /\ validators'[v].nulls[n].weighted = WeightedAmount(n, blk.stakes[<<v, n>>])
      BY <1>7, <1>12, <1>13, <1>18, <2>2
    <3>2. blk.stakes[<<v, n>>] \in Weights /\ <<v, n>> \in DOMAIN blk.stakes
      BY <1>2, <2>2, StakedByIs DEF StakedBy
    <3>3. <<v, n, blk.stakes[<<v, n>>]>> \in past'
      BY <1>9, <3>2 DEF StakesMade
    <3> QED
      BY <3>1, <3>2, <3>3
  <2>3. CASE v \in Changed(blk) /\ n \notin M
    BY <1>7, <1>12, <1>18, <2>1, <2>3
  <2>4. CASE v \notin Changed(blk)
    BY <1>5, <1>6, <1>7, <1>18, <2>1, <2>4
  <2> QED
    BY <2>2, <2>3, <2>4
<1>19. Sole(v)'
  <2>1. \A n, m \in D : n = m
    BY <1>8
  <2>2. \A n \in D, s \in past' : s[2] = n => s[1] = v
    BY <1>4, <1>5, <1>9
  <2>3. \A n \in D : DOMAIN nullifierMap'[n].nulls = {n}
    BY <1>3, MapAfter
  <2>4. v \in DOMAIN validators' => v \notin toDelete'
    <3> SUFFICES ASSUME v \in DOMAIN validators', v \in toDelete' PROVE FALSE
      OBVIOUS
    <3>1. v \in toDelete
      BY <1>5, <1>7 DEF Connects
    <3>2. M = {} /\ D # {}
      BY <1>4, <1>7, <3>1
    <3>3. v \in DOMAIN validators
      BY <1>5, <1>6, <3>2
    <3> QED
      BY <1>17, <3>1, <3>3 DEF Sole
  <2> QED
    BY <1>3, <1>18, <2>1, <2>2, <2>3, <2>4 DEF Sole
<1>20. OneLock(v)' /\ NoNaN(v)' => IsWeighed(v)'
  <2> SUFFICES ASSUME OneLock(v)', NoNaN(v)', v \in DOMAIN validators'
               PROVE  validators'[v].weighted =
                        Total(DOMAIN validators'[v].nulls,
                              [n \in DOMAIN validators'[v].nulls |->
                                 validators'[v].nulls[n].weighted]) % AmountRange
    BY DEF IsWeighed
  <2>1. PICK n \in D : D = {n}
    BY <1>7, <1>8
  <2>2. n \in Nullifiers /\ Amount[n] \in Nat /\ DOMAIN validators'[v].nulls = D
    BY <1>8, <1>15, ValidatorSetAssumption
  <2>3. PICK w \in Weights : /\ <<v, n, w>> \in past'
                             /\ validators'[v].nulls[n].weighted = WeightedAmount(n, w)
    BY <1>18
  <2>4. PICK k \in Nat : k = WeightedAmount(n, w)
    BY <2>2, WeightsNat
  <2>5. PICK f : f = [m \in D |-> validators'[v].nulls[m].weighted]
    OBVIOUS
  <2>6. f[n] = k
    BY <2>1, <2>3, <2>4, <2>5
  <2>7. Total(D, f) = k
    <3>1. \A m \in D : f[m] \in Nat
      BY <2>1, <2>4, <2>6
    <3> QED
      BY <1>8, <2>1, <2>6, <3>1, TotalIs
  <2>8. validators'[v].weighted = k % AmountRange
    <3>1. CASE n \in C
      <4>1. v \in DOMAIN validators /\ C = {n}
        BY <1>4, <1>6, <3>1
      <4>2. PICK w0 \in Weights : /\ <<v, n, w0>> \in past
                                  /\ validators[v].nulls[n].weighted = WeightedAmount(n, w0)
        BY <1>1, <1>17, <3>1, <4>1 DEF Sole
      <4>3. w0 = w
        <5>1. <<v, n, w0>> \in past'
          BY <1>9, <4>2
        <5> QED
          BY <2>3, <5>1 DEF OneLock
      <4>4. validators[v].nulls[n].weighted = k
        BY <2>4, <4>2, <4>3
      <4>5. IsWeighed(v)
        <5>1. OneLock(v) /\ NoNaN(v)
          BY <1>9 DEF OneLock, NoNaN
        <5> QED
          BY <1>4, <5>1 DEF RegularOK
      <4>6. PICK g : g = [m \in C |-> validators[v].nulls[m].weighted]
        OBVIOUS
      <4>7. validators[v].weighted = Total(C, g) % AmountRange
        BY <1>6, <4>1, <4>5, <4>6 DEF IsWeighed
      <4>8. Total(C, g) = k
        <5>1. g[n] = k /\ \A m \in C : g[m] \in Nat
          BY <4>1, <4>4, <4>6
        <5>2. C \in SUBSET Nullifiers
          BY <1>1 DEF Coins
        <5> QED
          BY <4>1, <5>1, <5>2, TotalIs
      <4>9. validators'[v].weighted = validators[v].weighted
        BY <1>7, <1>12, <3>1
      <4> QED
        BY <4>7, <4>8, <4>9
    <3>2. CASE n \notin C
      <4>1. v \in Changed(blk) /\ n \in M
        BY <1>5, <3>2
      <4>2. validators'[v].weighted = Counted(n, blk.stakes[<<v, n>>]) % AmountRange
        BY <1>7, <1>12, <3>2, <4>1
      <4>3. validators'[v].nulls[n].weighted = WeightedAmount(n, blk.stakes[<<v, n>>])
        BY <1>7, <1>12, <1>13, <4>1
      <4>4. /\ <<v, n, blk.stakes[<<v, n>>]>> \in past'
            /\ blk.stakes[<<v, n>>] \in Weights
        <5>1. blk.stakes[<<v, n>>] \in Weights /\ <<v, n>> \in DOMAIN blk.stakes
          BY <1>2, <4>1, StakedByIs DEF StakedBy
        <5> QED
          BY <1>9, <5>1 DEF StakesMade
      <4>5. blk.stakes[<<v, n>>] # NaN
        BY <4>4 DEF NoNaN
      <4>6. Counted(n, blk.stakes[<<v, n>>]) = WeightedAmount(n, blk.stakes[<<v, n>>])
        BY <2>2, <4>4, <4>5, WeightsNat
      <4> QED
        BY <2>3, <2>4, <4>2, <4>3, <4>6
    <3> QED
      BY <3>1, <3>2
  <2> QED
    BY <2>2, <2>5, <2>7, <2>8
<1>21. Paid(v)'
  <2>1. PICK c : c = Claimed(blk, v)
    OBVIOUS
  <2>2. /\ owed[v] \in Int /\ owed[v] >= 0
        /\ v \in DOMAIN validators =>
             validators[v].unclaimed \in Nat /\ validators[v].unclaimed <= owed[v]
    BY <1>4 DEF RegularOK, Paid, SetInv, Histories, Objects, Installed, Proper, ValidatorsOf
  <2>3. /\ c = IF v \in blk.coinbases THEN validators[v].unclaimed ELSE 0
        /\ v \in blk.coinbases => v \in DOMAIN validators
    BY <2>1 DEF Claimed, BlockOK
  <2>4. c \in Nat /\ c <= owed[v]
    BY <2>2, <2>3
  <2>5. PICK earns \in BOOLEAN : earns = (/\ IsEpoch(blk) /\ v \in DOMAIN validators
                                          /\ ~Forfeits(blk, b)
                                          /\ Earns(b, blk.time))
    OBVIOUS
  <2>6. owed'[v] = owed[v] + (IF earns THEN 1 ELSE 0) - c
    BY <1>4, <1>10, <2>1, <2>5, Zenon DEF Connects
  <2>7. owed'[v] >= 0
    BY <2>2, <2>4, <2>6
  <2>8. ASSUME v \in DOMAIN validators' PROVE validators'[v].unclaimed <= owed'[v]
    <3>1. CASE v \in Changed(blk)
      <4>1. PICK n \in D : TRUE
        BY <1>7, <2>8
      <4>2. b.unclaimed = IF v \in DOMAIN validators THEN validators[v].unclaimed - c ELSE 0
        BY <1>12, <2>1, <3>1
      <4>3. PICK u : u = updates[v].unclaimed
        OBVIOUS
      <4>4. u = IF IsEpoch(blk) /\ v \in DOMAIN validators
                  THEN IF Forfeits(blk, b) THEN 0
                       ELSE IF Earns(b, blk.time) THEN b.unclaimed + 1
                       ELSE b.unclaimed
                  ELSE b.unclaimed
        BY <1>11, <3>1, <4>3 DEF Updated
      <4>5. u = 0 \/ u = b.unclaimed \/ (earns /\ u = b.unclaimed + 1)
        BY <2>5, <4>4
      <4>6. v \notin DOMAIN validators => c = 0
        BY <2>3
      <4>7. u <= owed'[v]
        BY <2>2, <2>4, <2>6, <2>7, <4>2, <4>5, <4>6
      <4> QED
        BY <1>7, <2>8, <3>1, <4>3, <4>7
    <3>2. CASE v \notin Changed(blk)
      <4>1. v \in DOMAIN validators /\ validators'[v] = validators[v]
        BY <1>5, <1>6, <1>7, <2>8, <3>2
      <4>2. v \notin blk.coinbases
        BY <1>4, <3>2 DEF Changed, Touched, Direct
      <4> QED
        BY <2>2, <2>3, <2>6, <4>1, <4>2
    <3> QED
      BY <3>1, <3>2
  <2> QED
    BY <2>7, <2>8 DEF Paid
<1> QED
  BY <1>16, <1>19, <1>20, <1>21 DEF RegularOK

-----------------------------------------------------------------------------
\* The blocks that NextBlock chooses from.
LEMMA NextBlockForm ==
    ASSUME SetInv, NextBlock
    PROVE  /\ height < MaxBlocks
           /\ \E blk, base, owner : \E flush \in BOOLEAN :
                /\ BlockOK(blk) /\ ChoiceOK(blk, base, owner)
                /\ ConnectBlock(blk, base, owner, flush)
<1>1. PICK time \in {now, now + 1} :
        \E blk \in {b \in Blocks(time) : Size(b) <= MaxTxs} :
            /\ validateBlock(blk)
            /\ \E base \in BaseChoices(blk), owner \in OwnerChoices(blk),
                  flush \in BOOLEAN : ConnectBlock(blk, base, owner, flush)
  BY Zenon DEF NextBlock
<1>2. PICK blk \in Blocks(time) :
            /\ validateBlock(blk)
            /\ \E base \in BaseChoices(blk), owner \in OwnerChoices(blk),
                  flush \in BOOLEAN : ConnectBlock(blk, base, owner, flush)
  BY <1>1, Zenon
<1>3. PICK base \in BaseChoices(blk), owner \in OwnerChoices(blk), flush \in BOOLEAN :
            ConnectBlock(blk, base, owner, flush)
  BY <1>2, Zenon
<1>4. /\ blk.time = time
      /\ blk.stakes \in UNION {[S -> Weights] : S \in SUBSET Stakers}
      /\ blk.spends \subseteq Nullifiers
      /\ blk.coinbases \subseteq Claimants
      /\ blk.struck \subseteq DOMAIN validators
  BY DEF Blocks
<1>5. DOMAIN blk.stakes \subseteq Stakers /\ \A p \in DOMAIN blk.stakes : blk.stakes[p] \in Weights
  BY <1>4
<1>6. blk.coinbases \subseteq DOMAIN validators
  BY <1>4 DEF Claimants
<1>7. blk.spends \cap StakesOf(blk) = {}
  BY <1>2, Zenon DEF validateBlock
<1>8. BlockOK(blk)
  BY <1>4, <1>5, <1>6, <1>7 DEF BlockOK
<1>9. ChoiceOK(blk, base, owner)
  BY DEF ChoiceOK, BaseChoices, OwnerChoices
<1>10. height < MaxBlocks
  BY DEF NextBlock
<1> QED
  BY <1>3, <1>8, <1>9, <1>10

\* A block keeps the invariant, whether it is connected or not.
LEMMA BlockStep ==
    ASSUME SetInv, NextBlock
    PROVE  SetInv'
<1>1. height < MaxBlocks
  BY NextBlockForm
<1>2. PICK blk, base, owner : \E flush \in BOOLEAN :
                /\ BlockOK(blk) /\ ChoiceOK(blk, base, owner)
                /\ ConnectBlock(blk, base, owner, flush)
  BY NextBlockForm
<1>3. PICK flush \in BOOLEAN :
                /\ BlockOK(blk) /\ ChoiceOK(blk, base, owner)
                /\ ConnectBlock(blk, base, owner, flush)
  BY <1>2
<1>4. PICK before : before = AfterTxs(blk, base)
  OBVIOUS
<1>5. PICK epoch : epoch = AfterEpoch(blk, before)
  OBVIOUS
<1>6. PICK updates : updates = AfterProducer(blk, epoch)
  OBVIOUS
<1>7. CASE SpendsOK(blk, base)
  <2>1. Connects(blk, owner, before, epoch, updates, flush) /\ NoneReturns'
    BY <1>3, <1>4, <1>5, <1>6, <1>7, ConnectOutcome
  <2>2. Objects'
    BY <1>3, <1>4, <1>5, <1>6, <1>7, <2>1, ObjectsStep
  <2>3. Histories'
    BY <1>3, <1>4, <1>5, <1>6, <1>7, <2>1, HistoriesStep
  <2>4. Others'
    BY <1>1, <1>3, <1>4, <1>5, <1>6, <1>7, <2>1, <2>2, OthersStep
  <2>5. ASSUME NEW v \in Validators, v \notin irregular' PROVE RegularOK(v)'
    <3>1. v \notin irregular /\ v \notin Irregular(blk)
      BY <2>1, <2>5 DEF Connects
    <3>2. StaysRegular(blk, v)
      BY <3>1, RegularStays
    <3> QED
      BY <1>3, <1>4, <1>5, <1>6, <1>7, <2>1, <3>2, RegularStep
  <2> QED
    BY <2>1, <2>2, <2>3, <2>4, <2>5, Zenon DEF SetInv
<1>8. CASE ~SpendsOK(blk, base)
  <2>1. PICK lost : lost = {v \in Touched(blk) : ~(SpentOf(blk, v) \subseteq DOMAIN base[v].nulls)}
    OBVIOUS
  <2>2. lost # {}
    BY <1>8, <2>1 DEF SpendsOK
  <2>3. /\ failed' = failed \cup lost
        /\ UNCHANGED <<validators, nullifierMap, toDelete, disk, spent, now, height,
                       staked, past, owed, irregular>>
    BY <1>3, <2>1, <2>2, Zenon DEF ConnectBlock
  <2>4. lost \subseteq Validators
    BY <2>1 DEF Touched
  <2>5. Objects' /\ Others' /\ NoneReturns'
    BY <2>3 DEF SetInv, Objects, Others, NoneReturns
  <2>6. Histories'
    BY <2>3, <2>4 DEF SetInv, Histories
  <2>7. ASSUME NEW v \in Validators, v \notin irregular' PROVE RegularOK(v)'
    <3>1. RegularOK(v)
      BY <2>3, <2>7 DEF SetInv
    <3>2. v \notin lost
      <4> SUFFICES ASSUME v \in Touched(blk) PROVE SpentOf(blk, v) \subseteq DOMAIN base[v].nulls
        BY <2>1
      <4>1. base[v] \in Bases(blk, v)
        BY <1>3 DEF ChoiceOK
      <4>2. SpentOf(blk, v) = Coins(v) \cap blk.spends /\ DOMAIN base[v].nulls = Coins(v)
        BY <1>3, <3>1, <4>1, RegularBase
      <4> QED
        BY <4>2
    <3>3. v \notin failed'
      BY <2>3, <3>1, <3>2 DEF RegularOK, IsCurrent
    <3>4. Coins(v)' = Coins(v)
      BY <2>3 DEF Coins
    <3>5. IsCurrent(v)'
      BY <2>3, <3>1, <3>3, <3>4 DEF RegularOK, IsCurrent
    <3>6. Sole(v)' /\ Paid(v)'
      BY <2>3, <3>1, <3>4 DEF RegularOK, Sole, Paid
    <3>7. OneLock(v)' /\ NoNaN(v)' => IsWeighed(v)'
      BY <2>3, <3>1 DEF RegularOK, OneLock, NoNaN, IsWeighed
    <3> QED
      BY <3>5, <3>6, <3>7 DEF RegularOK
  <2> QED
    BY <2>5, <2>6, <2>7, Zenon DEF SetInv
<1> QED
  BY <1>7, <1>8

\* A restart keeps the invariant: nullifierMap is rebuilt from the validators,
\* and no other validator has the coin of a regular one.
LEMMA RestartStep ==
    ASSUME SetInv, Restart
    PROVE  SetInv'
<1> DEFINE keys == Flushed(validators, toDelete)
           vals == [v \in keys |-> IF v \in DOMAIN validators THEN validators[v]
                                   ELSE NewValidator(v)]
           ns   == UNION {DOMAIN vals[v].nulls : v \in DOMAIN vals}
<1>4. /\ disk' = keys
      /\ validators' = vals
      /\ toDelete' = {}
      /\ \E owner \in [ns -> DOMAIN vals] :
            /\ \A n \in ns : n \in DOMAIN vals[owner[n]].nulls
            /\ nullifierMap' = [n \in ns |-> vals[owner[n]]]
      /\ UNCHANGED <<spent, now, height, staked, past, owed, irregular, failed>>
  BY DEF Restart
<1>6. keys = DOMAIN validators \ toDelete
  BY DEF Flushed, SetInv, NoneReturns
<1> HIDE DEF keys
<1>7. DOMAIN vals = keys /\ \A v \in keys : vals[v] = validators[v]
  BY <1>6
<1> HIDE DEF vals
<1>3. \A v \in DOMAIN vals : DOMAIN vals[v].nulls \subseteq ns
  OBVIOUS
<1> HIDE DEF ns
<1>5. PICK owner \in [ns -> DOMAIN vals] :
            /\ \A n \in ns : n \in DOMAIN vals[owner[n]].nulls
            /\ nullifierMap' = [n \in ns |-> vals[owner[n]]]
  BY <1>4, Zenon
<1>8. \A v \in keys : /\ v \in Validators /\ v \in DOMAIN validators
                      /\ vals[v].id = v /\ Installed(vals[v], past)
  BY <1>6, <1>7 DEF SetInv, Objects
<1>9. /\ DOMAIN nullifierMap' = ns
      /\ \A n \in ns : /\ owner[n] \in keys /\ nullifierMap'[n] = vals[owner[n]]
                       /\ n \in DOMAIN vals[owner[n]].nulls
  BY <1>5, <1>7
<1>10. ns \subseteq Nullifiers
  BY <1>8, <1>9 DEF Installed, Proper
<1>11. Objects'
  <2>1. \A n \in ns : Installed(nullifierMap'[n], past') /\ n \in DOMAIN nullifierMap'[n].nulls
    BY <1>4, <1>8, <1>9
  <2>2. \A v \in DOMAIN validators' :
           v \in Validators /\ validators'[v].id = v /\ Installed(validators'[v], past')
    BY <1>4, <1>7, <1>8
  <2> QED
    BY <1>9, <1>10, <2>1, <2>2, Zenon DEF Objects
<1>12. Histories'
  BY <1>4 DEF SetInv, Histories
<1>13. Others' /\ NoneReturns'
  BY <1>4, <1>7, <1>8 DEF SetInv, Others, NoneReturns
<1>14. ASSUME NEW v \in Validators, v \notin irregular' PROVE RegularOK(v)'
  <2>1. RegularOK(v)
    BY <1>4, <1>14 DEF SetInv
  <2>2. PICK C : C = Coins(v) /\ C = Coins(v)'
    BY <1>4 DEF Coins
  <2>3. /\ v \in DOMAIN validators <=> C # {}
        /\ v \in DOMAIN validators =>
             /\ DOMAIN validators[v].nulls = C
             /\ validators[v].total = Total(C, Amount) % AmountRange
             /\ \A n \in C : validators[v].nulls[n].stamp = staked[<<v, n>>]
        /\ v \notin failed
    BY <2>1, <2>2 DEF RegularOK, IsCurrent
  <2>4. /\ \A n, m \in C : n = m
        /\ \A n \in C, s \in past : s[2] = n => s[1] = v
        /\ v \in DOMAIN validators =>
             /\ v \notin toDelete
             /\ \A n \in C :
                  \E w \in Weights : /\ <<v, n, w>> \in past
                                     /\ validators[v].nulls[n].weighted = WeightedAmount(n, w)
    BY <2>1, <2>2 DEF RegularOK, Sole
  <2>5. /\ v \in DOMAIN validators' <=> v \in DOMAIN validators
        /\ v \in DOMAIN validators => v \in keys /\ validators'[v] = validators[v]
    BY <1>4, <1>6, <1>7, <2>4
  <2>6. ASSUME NEW n \in C
        PROVE  n \in ns /\ owner[n] = v
    <3>1. v \in keys /\ n \in DOMAIN vals[v].nulls
      BY <1>7, <2>3, <2>5
    <3>2. n \in ns
      BY <1>3, <1>7, <3>1
    <3>3. WasStaked(past, owner[n], n)
      BY <1>8, <1>9, <3>2 DEF Installed, Proper
    <3> QED
      BY <2>4, <3>2, <3>3 DEF WasStaked
  <2>7. ASSUME NEW n \in ns, nullifierMap'[n].id = v
        PROVE  n \in C
    <3>1. owner[n] = v /\ v \in keys
      BY <1>8, <1>9, <2>7
    <3> QED
      BY <1>7, <1>8, <1>9, <2>3, <3>1
  <2>8. {n \in DOMAIN nullifierMap' : nullifierMap'[n].id = v} = C
    BY <1>8, <1>9, <2>6, <2>7
  <2>9. \A n \in C : DOMAIN nullifierMap'[n].nulls = {n}
    BY <1>7, <1>8, <1>9, <2>3, <2>4, <2>6
  <2>10. IsCurrent(v)'
    BY <1>4, <2>2, <2>3, <2>5, <2>8 DEF IsCurrent
  <2>11. Sole(v)'
    BY <1>4, <2>2, <2>4, <2>5, <2>9 DEF Sole
  <2>12. Paid(v)'
    BY <1>4, <2>1, <2>5 DEF RegularOK, Paid
  <2>13. OneLock(v)' /\ NoNaN(v)' => IsWeighed(v)'
    BY <1>4, <2>1, <2>5 DEF RegularOK, OneLock, NoNaN, IsWeighed
  <2> QED
    BY <2>10, <2>11, <2>12, <2>13 DEF RegularOK
<1> QED
  BY <1>11, <1>12, <1>13, <1>14, Zenon DEF SetInv

LEMMA NextSetInv ==
    ASSUME SetInv, [Next]_vars
    PROVE  SetInv'
<1>1. CASE UNCHANGED vars
  <2>1. Objects' /\ Histories' /\ Others' /\ NoneReturns'
    BY <1>1 DEF vars, SetInv, Objects, Histories, Others, NoneReturns
  <2>2. ASSUME NEW v \in Validators, v \notin irregular' PROVE RegularOK(v)'
    <3>1. RegularOK(v)
      BY <1>1, <2>2 DEF vars, SetInv
    <3>2. Coins(v)' = Coins(v)
      BY <1>1 DEF vars, Coins
    <3>3. IsCurrent(v)'
      BY <1>1, <3>1, <3>2 DEF vars, RegularOK, IsCurrent
    <3>4. Sole(v)' /\ Paid(v)'
      BY <1>1, <3>1, <3>2 DEF vars, RegularOK, Sole, Paid
    <3>5. OneLock(v)' /\ NoNaN(v)' => IsWeighed(v)'
      BY <1>1, <3>1 DEF vars, RegularOK, OneLock, NoNaN, IsWeighed
    <3> QED
      BY <3>3, <3>4, <3>5 DEF RegularOK
  <2> QED
    BY <2>1, <2>2, Zenon DEF SetInv
<1> QED
  BY <1>1, BlockStep, RestartStep DEF Next

\* The inductive invariant of the validator set: the form of the validators in
\* it and in nullifierMap, and what is known of a regular one.
THEOREM SetInvariant == Spec => []SetInv
<1>1. SetInv /\ [Next]_vars => SetInv'
  BY NextSetInv
<1> QED
  BY <1>1, InitSetInv, PTL DEF Spec

LEMMA SetInvTypeOK == SetInv => TypeOK
<1> SUFFICES ASSUME SetInv PROVE TypeOK
  OBVIOUS
<1>1. ASSUME NEW v \in DOMAIN validators
      PROVE  /\ validators[v].id = v
             /\ validators[v].total \in 0..(AmountRange - 1)
             /\ validators[v].weighted \in 0..(AmountRange - 1)
             /\ DOMAIN validators[v].nulls \in (SUBSET Nullifiers) \ {{}}
             /\ validators[v].unclaimed \in Nat
             /\ validators[v].strikes \in 0..(MaxStrikes - 1)
             /\ validators[v].penalty \in BOOLEAN
  <2>1. validators[v].id = v /\ Installed(validators[v], past)
    BY DEF SetInv, Objects
  <2>2. /\ validators[v] \in ValidatorsOf(DOMAIN validators[v].nulls)
        /\ \A n \in DOMAIN validators[v].nulls : n \in Nullifiers
        /\ DOMAIN validators[v].nulls # {}
        /\ validators[v].strikes < MaxStrikes
    BY <2>1 DEF Installed, Proper
  <2>3. /\ validators[v].total \in 0..(AmountRange - 1)
        /\ validators[v].weighted \in 0..(AmountRange - 1)
        /\ validators[v].unclaimed \in Nat
        /\ validators[v].strikes \in 0..MaxStrikes
        /\ validators[v].penalty \in BOOLEAN
    BY <2>2 DEF ValidatorsOf
  <2>4. validators[v].strikes \in 0..(MaxStrikes - 1)
    BY <2>2, <2>3, ValidatorSetAssumption
  <2> QED
    BY <2>1, <2>2, <2>3, <2>4
<1> QED
  BY <1>1 DEF SetInv, Objects, Histories, Others, TypeOK

\* The set is current for every validator that has one coin at a time, of its
\* own, and is not added again while its deletion is due: through epochs,
\* expiry, restakes, bans, spends and restarts, whatever the other validators do
\* (ConnectBlock, Commit, Init).
THEOREM RegularAlwaysCurrent == Spec => []RegularCurrent
<1>1. SetInv => RegularCurrent
  BY SetInvTypeOK DEF SetInv, RegularOK, RegularCurrent
<1> QED
  BY <1>1, SetInvariant, PTL

\* A regular validator can claim no more than it was given and has not claimed
\* (ConnectBlock, the coinbase rule of validateBlock).
THEOREM AlwaysPaidOnce == Spec => []PaidOnce
<1>1. SetInv => PaidOnce
  BY DEF SetInv, Objects, RegularOK, Paid, PaidOnce
<1> QED
  BY <1>1, SetInvariant, PTL
=============================================================================
