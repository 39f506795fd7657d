-------------------------- MODULE SyncManagerProofs --------------------------
(***************************************************************************)
(* For any peers, chains, heights and lookahead: the types of SyncManager, *)
(* the correctness of its search for a fork, and the chain it ends on.     *)
(*                                                                         *)
(* ForkPointFound speaks of the end of the binary search.  Searching says  *)
(* what each round keeps: the peers that are asked differ at the upper end *)
(* and agree at the lower end, unless that is where the search began.      *)
(*                                                                         *)
(* OneChainSynced and BestForkWins speak of the end of a sync that nothing *)
(* disturbs.  Calm says what holds at each of its steps until the fork is  *)
(* passed: our chain agrees with every peer (Agree), blockMap has an       *)
(* answer of every peer ahead of us (Answers), nobody is banned before the *)
(* choice, and the choice aims at a best side (Aim).  Beyond is what       *)
(* remains once the fork is passed.                                        *)
(***************************************************************************)
EXTENDS SyncManager, FiniteSetTheorems, SequenceTheorems, TLAPS

-----------------------------------------------------------------------------
Places == Blocks \cup {Genesis}
Searches == [lo : Nat, mid : Nat, hi : Nat, id : Places \cup {NoBlock}]

\* What TypeOK leaves open.
Shapes ==
    /\ base \in [height : Nat, tip : Places]
    /\ cp \in [index : Nat \ {0}, start : Nat \ {0}]
    /\ search \in Searches
    /\ pc = "search" => Range(blockMap) # {}
    /\ \A id \in DOMAIN windows : windows[id] \in Seq(Blocks)
    /\ pc \in {"check", "query"} => DOMAIN windows = {}
    /\ pc = "choose" => DOMAIN windows = Rivals
    /\ target.height \in Nat
    /\ pc = "sync" => target.peer \in Peers
    /\ events \in [AllKinds -> Nat]

\* Our chain only grows while Start remembers its height.
NoneLost == pc = "query" => base.height <= Height

\* What a round of findForkPoint keeps.
Searching ==
    pc = "search" /\ events["grow"] = 0 =>
        /\ base.height <= search.lo
        /\ search.lo < search.hi
        /\ search.mid = search.lo + ((search.hi - search.lo) \div 2)
        /\ \/ \A p \in Range(blockMap) : /\ has[p] >= search.lo
                                          /\ BlockAt(p, search.lo) = search.id
           \/ search.lo = base.height /\ search.id = NoBlock
        /\ \E p, q \in Range(blockMap) : Forks(p, q, search.hi)
        /\ \A p \in Range(blockMap) : has[p] > base.height

\* The inductive invariant.
Inv == TypeOK /\ Shapes /\ NoneLost /\ Searching /\ ForkPointFound

-----------------------------------------------------------------------------
(* Least and greatest elements.                                            *)

LEMMA LeastNat ==
    ASSUME NEW T \in SUBSET Nat, T # {}
    PROVE  \E x \in T : \A y \in T : x <= y
<1> DEFINE R == {ss \in Nat \X Nat : ss[1] < ss[2]}
<1>1. IsWellFoundedOn(R, Nat)
  BY NatLessThanWellFounded, Zenon DEF OpToRel
<1>2. PICK x \in T : \A y \in T : <<y, x>> \notin R
  <2> HIDE DEF R
  <2> QED
    BY <1>1, WFMin
<1>3. \A y \in T : ~(y < x)
  BY <1>2
<1> QED
  BY <1>3

LEMMA MaxUpto ==
    ASSUME NEW n \in Nat, NEW S \in SUBSET (0..n), S # {}
    PROVE  Max(S) \in S /\ \A y \in S : Max(S) >= y
<1> DEFINE T == {k \in Nat : n - k \in S}
<1>1. T # {}
  <2>1. PICK x \in S : TRUE
    OBVIOUS
  <2>2. n - x \in Nat /\ n - (n - x) = x
    BY <2>1
  <2> QED
    BY <2>1, <2>2
<1>2. PICK k \in T : \A y \in T : k <= y
  <2>1. T \in SUBSET Nat
    OBVIOUS
  <2> HIDE DEF T
  <2> QED
    BY <2>1, <1>1, LeastNat
<1>3. \A y \in S : n - k >= y
  <2> TAKE y \in S
  <2>1. n - y \in Nat /\ n - (n - y) = y
    OBVIOUS
  <2>2. k <= n - y
    BY <2>1, <1>2
  <2> QED
    BY <2>2, <1>2
<1>4. \E x \in S : \A y \in S : x >= y
  BY <1>2, <1>3
<1> QED
  BY <1>4 DEF Max

LEMMA MinOfTwo ==
    ASSUME NEW a \in Int, NEW b \in Int
    PROVE  Min({a, b}) = IF a <= b THEN a ELSE b
<1>1. \E x \in {a, b} : \A y \in {a, b} : x <= y
  OBVIOUS
<1>2. Min({a, b}) \in {a, b} /\ \A y \in {a, b} : Min({a, b}) <= y
  BY <1>1 DEF Min
<1> QED
  BY <1>2

LEMMA MaxOfTwo ==
    ASSUME NEW a \in Int, NEW b \in Int
    PROVE  Max({a, b}) = IF a >= b THEN a ELSE b
<1>1. \E x \in {a, b} : \A y \in {a, b} : x >= y
  OBVIOUS
<1>2. Max({a, b}) \in {a, b} /\ \A y \in {a, b} : Max({a, b}) >= y
  BY <1>1 DEF Max
<1> QED
  BY <1>2

-----------------------------------------------------------------------------
(* Chains and answers.                                                     *)

LEMMA ChainIs ==
    ASSUME NEW c \in Chains
    PROVE  /\ c \in Seq(Blocks)
           /\ Len(c) \in Nat
           /\ DOMAIN c = 1..Len(c)
           /\ \A i \in 1..Len(c) : c[i] \in Blocks
<1>1. c \in Seq(Range(c))
  BY SyncAssumption
<1>2. Range(c) \subseteq Blocks
  BY DEF Blocks
<1>3. Len(c) \in Nat /\ DOMAIN c = 1..Len(c) /\ \A i \in 1..Len(c) : c[i] \in Range(c)
  BY <1>1
<1>4. \A i \in 1..Len(c) : c[i] \in Blocks
  BY <1>2, <1>3
<1>5. c \in Seq(Blocks)
  BY <1>1, <1>2, <1>3, <1>4
<1> QED
  BY <1>3, <1>4, <1>5

LEMMA NoBlockApart == Genesis \notin Blocks /\ NoBlock \notin Places
BY SyncAssumption DEF Blocks, Places

LEMMA HasIs ==
    ASSUME TypeOK, NEW p \in Peers
    PROVE  /\ follows[p] \in Chains
           /\ has[p] \in Nat
           /\ Len(follows[p]) \in Nat
           /\ has[p] <= Len(follows[p])
BY ChainIs DEF TypeOK

LEMMA BlockAtIs ==
    ASSUME TypeOK, NEW p \in Peers, NEW h \in 0..has[p]
    PROVE  /\ BlockAt(p, h) \in Places
           /\ h # 0 => BlockAt(p, h) \in Blocks
<1>1. follows[p] \in Chains /\ has[p] \in Nat /\ has[p] <= Len(follows[p])
  BY HasIs
<1>2. CASE h = 0
  BY <1>2 DEF BlockAt, Places
<1>3. CASE h # 0
  <2>1. h \in 1..Len(follows[p])
    BY <1>1, <1>3, HasIs
  <2>2. follows[p][h] \in Blocks
    BY <2>1, <1>1, ChainIs
  <2> QED
    BY <2>2, <1>3 DEF BlockAt, Places
<1> QED
  BY <1>2, <1>3

\* A block has one height and one past.
LEMMA BlockHasHeight ==
    ASSUME TypeOK, NEW p \in Peers, NEW q \in Peers,
           NEW h \in 0..has[p], NEW g \in 0..has[q],
           BlockAt(p, h) = BlockAt(q, g)
    PROVE  h = g /\ \A k \in 0..h : BlockAt(p, k) = BlockAt(q, k)
<1>1. /\ follows[p] \in Chains /\ has[p] \in Nat /\ has[p] <= Len(follows[p])
      /\ follows[q] \in Chains /\ has[q] \in Nat /\ has[q] <= Len(follows[q])
  BY HasIs
<1>2. h = 0 <=> g = 0
  BY BlockAtIs, NoBlockApart DEF BlockAt
<1>3. CASE h = 0
  BY <1>2, <1>3 DEF BlockAt
<1>4. CASE h # 0
  <2>1. h \in DOMAIN follows[p] /\ g \in DOMAIN follows[q]
    BY <1>1, <1>2, <1>4, ChainIs
  <2>2. follows[p][h] = follows[q][g]
    BY <1>2, <1>4 DEF BlockAt
  <2>3. h = g /\ \A k \in 1..h : follows[p][k] = follows[q][k]
    BY <2>1, <2>2, <1>1, SyncAssumption
  <2> QED
    BY <2>3, <1>2, <1>4 DEF BlockAt
<1> QED
  BY <1>3, <1>4

LEMMA AnswerIs ==
    ASSUME TypeOK, NEW p \in Peers, NEW h \in Nat
    PROVE  Answer(p, h) = BlockAt(p, IF h <= has[p] THEN h ELSE has[p])
BY HasIs, MinOfTwo DEF Answer

\* Peers that give the same answer give it for the same height.
LEMMA SameAnswer ==
    ASSUME TypeOK, NEW p \in Peers, NEW q \in Peers, NEW h \in Nat,
           ~Forks(p, q, h)
    PROVE  \/ has[p] >= h /\ has[q] >= h /\ BlockAt(p, h) = BlockAt(q, h)
           \/ has[p] < h /\ has[q] = has[p]
<1> DEFINE m(r) == IF h <= has[r] THEN h ELSE has[r]
<1>1. has[p] \in Nat /\ has[q] \in Nat
  BY HasIs
<1>2. m(p) \in 0..has[p] /\ m(q) \in 0..has[q]
  BY <1>1
<1>3. BlockAt(p, m(p)) = BlockAt(q, m(q))
  BY AnswerIs DEF Forks
<1>4. m(p) = m(q)
  <2> HIDE DEF m
  <2> QED
    BY <1>2, <1>3, BlockHasHeight
<1> QED
  BY <1>1, <1>3, <1>4

\* Who differs at a height differs above it.
LEMMA ForksAbove ==
    ASSUME TypeOK, NEW p \in Peers, NEW q \in Peers, NEW h \in Nat,
           Forks(p, q, h)
    PROVE  Forks(p, q, h + 1)
<1> SUFFICES ASSUME ~Forks(p, q, h + 1)
             PROVE  FALSE
  OBVIOUS
<1>1. has[p] \in Nat /\ has[q] \in Nat
  BY HasIs
<1>2. CASE has[p] >= h + 1 /\ has[q] >= h + 1 /\ BlockAt(p, h + 1) = BlockAt(q, h + 1)
  <2>1. BlockAt(p, h) = BlockAt(q, h)
    BY <1>1, <1>2, BlockHasHeight
  <2> QED
    BY <2>1, <1>1, <1>2, AnswerIs DEF Forks
<1>3. CASE has[p] < h + 1 /\ has[q] = has[p]
  <2>1. Answer(p, h) = BlockAt(p, has[p]) /\ Answer(p, h + 1) = BlockAt(p, has[p])
    BY <1>1, <1>3, AnswerIs
  <2>2. Answer(q, h) = BlockAt(q, has[q]) /\ Answer(q, h + 1) = BlockAt(q, has[q])
    BY <1>1, <1>3, AnswerIs
  <2> QED
    BY <2>1, <2>2 DEF Forks
<1> QED
  BY <1>2, <1>3, SameAnswer

\* The different answers of some peers, and how many they are.
LEMMA AnswersAre ==
    ASSUME NEW A \in SUBSET Peers, NEW h
    PROVE  LET ids == {Answer(p, h) : p \in A}
           IN  /\ IsFiniteSet(ids)
               /\ Cardinality(ids) \in Nat
               /\ Cardinality(ids) > 1 <=> \E p, q \in A : Forks(p, q, h)
               /\ Cardinality(ids) = 0 <=> A = {}
<1> DEFINE ids == {Answer(p, h) : p \in A}
           f == [p \in A |-> Answer(p, h)]
<1>1. f \in Surjection(A, ids)
  BY Zenon DEF Surjection
<1>2. IsFiniteSet(A)
  BY FS_Subset, SyncAssumption
<1>3. (\E p, q \in A : Forks(p, q, h)) <=> (\E x, y \in ids : x # y)
  BY DEF Forks
<1>4. A = {} <=> ids = {}
  BY Zenon
<1> HIDE DEF ids, f
<1>5. IsFiniteSet(ids)
  BY <1>1, <1>2, FS_Surjection
<1>6. Cardinality(ids) \in Nat
  BY <1>5, FS_CardinalityType
<1>7. Cardinality(ids) = 0 <=> ids = {}
  BY <1>5, FS_EmptySet
<1>8. Cardinality(ids) = 1 <=> \E x : ids = {x}
  BY <1>5, FS_Singleton
<1>9. Cardinality(ids) > 1 <=> \E x, y \in ids : x # y
  <2>1. Cardinality(ids) > 1 <=> ~(Cardinality(ids) = 0) /\ ~(Cardinality(ids) = 1)
    BY <1>6
  <2>2. ASSUME NEW x \in ids, NEW y \in ids, x # y
        PROVE  ~(ids = {}) /\ ~(\E z : ids = {z})
    BY <2>2
  <2>3. ASSUME ~(ids = {}), ~(\E z : ids = {z})
        PROVE  \E x, y \in ids : x # y
    <3>1. PICK x \in ids : TRUE
      BY <2>3
    <3>2. ids # {x}
      BY <2>3
    <3> QED
      BY <3>1, <3>2
  <2> QED
    BY <2>1, <2>2, <2>3, <1>7, <1>8, Zenon
<1> QED
  BY <1>3, <1>4, <1>5, <1>6, <1>7, <1>9 DEF ids

-----------------------------------------------------------------------------
(* A round of the search, while no peer connects a block.                  *)

\* The peers that are asked.
Asked == Range(blockMap)

LEMMA AgreedBelow ==
    ASSUME TypeOK, NEW A \in SUBSET Peers, NEW mid \in Nat, NEW hi \in Nat, mid <= hi,
           \E p, q \in A : Forks(p, q, hi),
           ~ \E p, q \in A : Forks(p, q, mid)
    PROVE  \A p, q \in A : has[p] >= mid /\ BlockAt(p, mid) = BlockAt(q, mid)
<1>1. PICK p, q \in A : Forks(p, q, hi)
  OBVIOUS
<1>2. has[p] \in Nat /\ has[q] \in Nat
  BY HasIs
<1>3. has[p] >= mid
  <2> SUFFICES ASSUME has[p] < mid
               PROVE  FALSE
    BY <1>2
  <2>1. ~Forks(p, q, mid)
    OBVIOUS
  <2>2. has[q] = has[p]
    BY <2>1, <1>2, SameAnswer
  <2>3. Answer(p, hi) = BlockAt(p, has[p]) /\ Answer(p, mid) = BlockAt(p, has[p])
    BY <1>2, AnswerIs
  <2>4. Answer(q, hi) = BlockAt(q, has[q]) /\ Answer(q, mid) = BlockAt(q, has[q])
    BY <1>2, <2>2, AnswerIs
  <2> QED
    BY <2>1, <2>3, <2>4, <1>1 DEF Forks
<1>4. \A r \in A : has[r] >= mid
  <2> TAKE r \in A
  <2>1. ~Forks(p, r, mid)
    OBVIOUS
  <2> QED
    BY <2>1, <1>2, <1>3, HasIs, SameAnswer
<1>5. \A r, t \in A : BlockAt(r, mid) = BlockAt(t, mid)
  <2> TAKE r, t \in A
  <2>1. ~Forks(r, t, mid) /\ has[r] >= mid /\ has[t] >= mid
    BY <1>4
  <2>2. has[r] \in Nat /\ has[t] \in Nat
    BY HasIs
  <2> QED
    BY <2>1, <2>2, SameAnswer
<1> QED
  BY <1>4, <1>5

\* What the primed search is after a round, in terms of the old one.
Bounds(s) ==
    /\ base.height <= s.lo
    /\ s.lo < s.hi
    /\ s.mid = s.lo + ((s.hi - s.lo) \div 2)

\* The lower end: agreed upon, or where the search began.
LowEnd(h, id) ==
    \/ \A p \in Asked : has[p] >= h /\ BlockAt(p, h) = id
    \/ h = base.height /\ id = NoBlock

LEMMA RoundKeeps ==
    ASSUME TypeOK, Shapes, Searching, pc = "search", events["grow"] = 0,
           NEW s, s = Narrowed(search, {Answer(p, search.mid) : p \in Asked})
    PROVE  /\ s \in Searches
           /\ s.lo <= s.mid /\ s.mid <= s.hi
           /\ s.mid # search.mid =>
                 /\ Bounds(s)
                 /\ LowEnd(s.lo, s.id)
                 /\ \E p, q \in Asked : Forks(p, q, s.hi)
           /\ s.mid = search.mid =>
                 /\ LowEnd(s.mid, s.id)
                 /\ \E p, q \in Asked : Forks(p, q, s.mid + 1)
<1> DEFINE A == Asked
           ids == {Answer(p, search.mid) : p \in Asked}
<1>0. PICK lo, mid, hi, old : lo = search.lo /\ mid = search.mid /\ hi = search.hi
                              /\ old = search.id
  OBVIOUS
<1>1. /\ lo \in Nat /\ mid \in Nat /\ hi \in Nat
      /\ old \in Places \cup {NoBlock}
      /\ base.height \in Nat
  BY <1>0 DEF Shapes, Searches
<1>2. /\ base.height <= lo /\ lo < hi /\ mid = lo + ((hi - lo) \div 2)
      /\ LowEnd(lo, old)
      /\ \E p, q \in A : Forks(p, q, hi)
  BY <1>0 DEF Searching, Asked, LowEnd
<1>3. lo <= mid /\ mid < hi /\ (mid = lo => hi = lo + 1)
  BY <1>1, <1>2
<1>4. A \in SUBSET Peers
  BY DEF TypeOK, Asked
<1>5. Cardinality(ids) > 1 <=> \E p, q \in A : Forks(p, q, mid)
  BY <1>0, <1>4, AnswersAre
<1>6. CASE Cardinality(ids) > 1
  <2>1. PICK m : m = lo + ((mid - lo) \div 2)
    OBVIOUS
  <2>2. m \in Nat /\ lo <= m /\ m <= mid /\ (m = mid => mid = lo)
    BY <2>1, <1>1, <1>3
  <2>3. s = [lo |-> lo, mid |-> m, hi |-> mid, id |-> old]
    BY <1>0, <1>6, <2>1 DEF Narrowed
  <2>4. s \in Searches /\ s.lo = lo /\ s.mid = m /\ s.hi = mid /\ s.id = old
    BY <2>2, <2>3, <1>1 DEF Searches
  <2>5. PICK p, q \in A : Forks(p, q, mid)
    BY <1>5, <1>6
  <2>6. CASE m # mid
    <3>1. Bounds(s)
      BY <2>1, <2>2, <2>4, <2>6, <1>1, <1>2, <1>3 DEF Bounds
    <3> QED
      BY <3>1, <2>2, <2>4, <2>5, <2>6, <1>0, <1>2
  <2>7. CASE m = mid
    <3>1. mid = lo
      BY <2>2, <2>7
    <3>2. Forks(p, q, mid + 1)
      BY <2>5, <1>1, <1>4, ForksAbove
    <3> QED
      BY <3>1, <3>2, <2>2, <2>4, <2>5, <2>7, <1>0, <1>2
  <2> QED
    BY <2>6, <2>7
<1>7. CASE ~(Cardinality(ids) > 1)
  <2>1. PICK m : m = mid + ((hi - mid) \div 2)
    OBVIOUS
  <2>2. m \in Nat /\ mid <= m /\ m < hi /\ (m = mid => hi = mid + 1)
    BY <2>1, <1>1, <1>3
  <2>3. PICK id : id = CHOOSE x \in ids : TRUE
    OBVIOUS
  <2>4. s = [lo |-> mid, mid |-> m, hi |-> hi, id |-> id]
    BY <1>0, <1>7, <2>1, <2>3 DEF Narrowed
  <2>5. ~ \E p, q \in A : Forks(p, q, mid)
    BY <1>5, <1>7
  <2>6. \A p, q \in A : has[p] >= mid /\ BlockAt(p, mid) = BlockAt(q, mid)
    <3> HIDE DEF A
    <3>1. mid <= hi
      BY <1>1, <1>3
    <3> QED
      BY <3>1, <1>1, <1>2, <1>4, <2>5, AgreedBelow
  <2>7. PICK p \in A : TRUE
    BY <1>2
  <2>8. id \in ids
    BY <2>3, <2>7
  <2>9. PICK r \in A : id = Answer(r, mid)
    BY <1>0, <2>8
  <2>10. r \in Peers /\ has[r] \in Nat /\ mid \in 0..has[r]
    BY <2>6, <1>1, <1>4, HasIs
  <2>11. id = BlockAt(r, mid) /\ id \in Places
    BY <2>9, <2>10, <1>1, AnswerIs, BlockAtIs
  <2>12. LowEnd(mid, id)
    BY <2>6, <2>11 DEF LowEnd
  <2>13. s \in Searches /\ s.lo = mid /\ s.mid = m /\ s.hi = hi /\ s.id = id
    BY <2>2, <2>4, <2>11, <1>1 DEF Searches
  <2>14. Bounds(s)
    BY <2>1, <2>13, <1>1, <1>2, <1>3 DEF Bounds
  <2>15. s.lo <= s.mid /\ s.mid <= s.hi
    BY <2>2, <2>13, <1>1
  <2>16. CASE m # mid
    <3>1. s.mid # search.mid /\ LowEnd(s.lo, s.id) /\ \E x, y \in Asked : Forks(x, y, s.hi)
      BY <2>12, <2>13, <2>16, <1>0, <1>2
    <3> QED
      BY <3>1, <2>13, <2>14, <2>15
  <2>17. CASE m = mid
    <3>1. s.mid = search.mid /\ LowEnd(s.mid, s.id) /\ s.mid + 1 = hi
      BY <2>2, <2>12, <2>13, <2>17, <1>0
    <3>2. \E x, y \in Asked : Forks(x, y, s.mid + 1)
      BY <3>1, <1>2
    <3> QED
      BY <3>1, <3>2, <2>13, <2>15
  <2> QED
    BY <2>16, <2>17
<1> QED
  BY <1>6, <1>7

-----------------------------------------------------------------------------
(* What the steps of Start have in common.                                 *)

LEMMA HappensIs ==
    ASSUME events \in [AllKinds -> Nat], NEW k \in AllKinds, NEW n \in Nat, Happens(k, n)
    PROVE  /\ events' \in [AllKinds -> Nat]
           /\ events'["grow"] = IF k = "grow" THEN events["grow"] + n ELSE events["grow"]
BY DEF Happens, AllKinds

LEMMA FailIs ==
    ASSUME events \in [AllKinds -> Nat], NEW n \in Nat, Fail(n)
    PROVE  events' \in [AllKinds -> Nat] /\ events'["grow"] = events["grow"]
<1>1. "fail" \in AllKinds /\ "fail" # "grow"
  BY DEF AllKinds
<1> QED
  BY <1>1, HappensIs DEF Fail

LEMMA QueriedIs ==
    ASSUME events \in [AllKinds -> Nat], NEW R, Queried(R)
    PROVE  /\ R \subseteq Peers
           /\ events' \in [AllKinds -> Nat] /\ events'["grow"] = events["grow"]
<1>1. Connected \ R \in SUBSET Peers
  BY DEF Connected
<1>2. Cardinality(Connected \ R) \in Nat
  BY <1>1, FS_Subset, FS_CardinalityType, SyncAssumption
<1> QED
  BY <1>2, FailIs DEF Queried, Connected

LEMMA HeadersAre ==
    ASSUME TypeOK, NEW p \in Peers, NEW a \in Nat \ {0}, NEW b \in Nat
    PROVE  /\ downloadHeaders(p, a, b) \in Seq(Blocks)
           /\ Len(downloadHeaders(p, a, b)) \in Nat
<1>1. /\ follows[p] \in Chains /\ has[p] \in Nat /\ has[p] <= Len(follows[p])
      /\ Len(follows[p]) \in Nat
  BY HasIs
<1>2. PICK x \in Nat : x = Max({a, b})
  BY MaxOfTwo
<1>3. PICK m : m = Min({x, has[p]})
  OBVIOUS
<1>4. m = IF x <= has[p] THEN x ELSE has[p]
  <2>1. x \in Int /\ has[p] \in Int
    BY <1>1
  <2> QED
    BY <2>1, <1>3, MinOfTwo
<1>5. m \in Nat /\ m <= has[p]
  BY <1>1, <1>4
<1>6. \A i \in a..m : follows[p][i] \in Blocks
  BY <1>1, <1>5, ChainIs
<1>7. SubSeq(follows[p], a, m) \in Seq(Blocks)
  BY <1>5, <1>6, SubSeqProperties
<1> QED
  BY <1>2, <1>3, <1>7, LenProperties DEF downloadHeaders

LEMMA ConnectableIs ==
    ASSUME NEW hs \in Seq(Blocks), NEW a, NEW fast
    PROVE  Connectable(hs, a, fast) \in 0..Len(hs)
<1> DEFINE S == {n \in 0..Len(hs) : fast \/ \A i \in 1..n : hs[i] \notin Invalid}
<1>1. Len(hs) \in Nat
  BY LenProperties
<1>2. 0 \in S
  BY <1>1
<1>3. S \in SUBSET (0..Len(hs))
  OBVIOUS
<1>4. Max(S) \in S
  <2> HIDE DEF S
  <2> QED
    BY <1>1, <1>2, <1>3, MaxUpto
<1>5. Max(S) \in 0..Len(hs)
  BY <1>3, <1>4
<1> QED
  BY <1>1, <1>5 DEF Connectable

\* Blocks that are connected make the chain longer.
LEMMA ConnectedIs ==
    ASSUME chain \in Seq(Blocks), NEW hs \in Seq(Blocks), NEW n \in 0..Len(hs),
           chain' = chain \o SubSeq(hs, 1, n)
    PROVE  chain' \in Seq(Blocks) /\ Len(chain') >= Len(chain)
<1>1. Len(hs) \in Nat /\ \A i \in 1..Len(hs) : hs[i] \in Blocks
  BY LenProperties
<1>2. SubSeq(hs, 1, n) \in Seq(Blocks)
  BY <1>1, SubSeqProperties
<1>3. /\ chain' \in Seq(Blocks)
      /\ Len(chain') = Len(chain) + Len(SubSeq(hs, 1, n))
  BY <1>2, ConcatProperties
<1> QED
  BY <1>2, <1>3, LenProperties

\* Some requests fail.
Failed == \E n \in Nat \ {0} : Fail(n)

LEMMA LostIs ==
    ASSUME NEW n \in {0, 1}
    PROVE  /\ Lost(n) => (n = 0 /\ UNCHANGED events) \/ Failed
           /\ n = 1 /\ Lost(n) => Failed
           /\ Fail(n + 1) => Failed
<1>1. n \in Nat /\ n + 1 \in Nat \ {0} /\ (n # 0 => n \in Nat \ {0})
  OBVIOUS
<1>2. \A m \in Nat \ {0} : Fail(m) => Failed
  BY Zenon DEF Failed
<1>3. n # 0 /\ Lost(n) => Fail(n)
  BY DEF Lost
<1>4. n = 0 /\ Lost(n) => UNCHANGED events
  BY DEF Lost
<1> HIDE DEF Lost
<1> QED
  BY <1>1, <1>2, <1>3, <1>4

LEMMA FailedIs ==
    ASSUME events \in [AllKinds -> Nat], Failed
    PROVE  events' \in [AllKinds -> Nat] /\ events'["grow"] = events["grow"]
<1>1. PICK n \in Nat : Fail(n)
  BY DEF Failed
<1> QED
  BY <1>1, FailIs

\* What syncBlocks does with some headers: it connects a part of them, and bans
\* nobody but the peer.
Connects(p, hs) ==
    /\ UNCHANGED chain \/ \E i \in 0..Len(hs) : chain' = chain \o SubSeq(hs, 1, i)
    /\ (UNCHANGED <<gone, banned>>) \/ Ban({p})
    /\ (UNCHANGED events) \/ Failed

LEMMA HeadersConnect ==
    ASSUME NEW p, NEW hs \in Seq(Blocks), NEW n \in {0, 1}, NEW a, NEW parent,
           NEW expected, NEW fast,
           syncHeaders(p, hs, n, a, parent, expected, fast, TRUE, TRUE)
    PROVE  Connects(p, hs)
<1> DEFINE good == Connectable(hs, a, fast)
           connect(i) == chain' = chain \o SubSeq(hs, 1, i)
<1>1. good \in 0..Len(hs) /\ Len(hs) \in Nat
  BY ConnectableIs, LenProperties
<1>2. \/ UNCHANGED chain
      \/ connect(good)
      \/ \E i \in 0..good : connect(i)
      \/ \E i \in 1..(good - 1) : connect(i)
      \/ \E i \in 1..good : connect(i)
  BY Zenon DEF syncHeaders
<1>3. UNCHANGED chain \/ \E i \in 0..Len(hs) : connect(i)
  <2>1. /\ 0..good \subseteq 0..Len(hs) /\ 1..(good - 1) \subseteq 0..Len(hs)
        /\ 1..good \subseteq 0..Len(hs)
    BY <1>1
  <2> HIDE DEF good, connect
  <2> QED
    BY <2>1, <1>1, <1>2
<1>4. (UNCHANGED <<gone, banned>>) \/ Ban({p})
  BY Zenon DEF syncHeaders
<1>5. Lost(n) \/ Fail(n + 1)
  BY Zenon DEF syncHeaders
<1> HIDE DEF good
<1> QED
  BY <1>3, <1>4, <1>5, LostIs DEF Connects

\* Headers cut short are headers.
LEMMA CutHeaders ==
    ASSUME NEW hs \in Seq(Blocks), NEW k \in 1..(Len(hs) - 1)
    PROVE  SubSeq(hs, 1, k) \in Seq(Blocks)
<1>1. Len(hs) \in Nat /\ \A i \in 1..Len(hs) : hs[i] \in Blocks
  BY LenProperties
<1>2. k \in Int /\ \A i \in 1..k : hs[i] \in Blocks
  BY <1>1
<1> QED
  BY <1>1, <1>2, SubSeqProperties

LEMMA SyncConnects ==
    ASSUME TypeOK, NEW p \in Peers, NEW a \in Nat \ {0}, NEW b \in Nat,
           NEW parent, NEW expected, NEW fast,
           syncBlocks(p, a, b, parent, expected, fast, TRUE, TRUE)
    PROVE  \E hs \in Seq(Blocks) : Connects(p, hs)
<1>1. PICK all \in Seq(Blocks) : all = downloadHeaders(p, a, b)
  BY HeadersAre
<1>2. CASE /\ Fail(1) \/ UNCHANGED events
           /\ UNCHANGED <<chain, gone, banned>>
  <2>1. Fail(1) => Failed
    BY DEF Failed
  <2> QED
    BY <1>1, <1>2, <2>1 DEF Connects
<1>3. CASE syncHeaders(p, all, 0, a, parent, expected, fast, TRUE, TRUE)
  BY <1>1, <1>3, HeadersConnect
<1>4. CASE \E k \in 1..(Len(all) - 1) :
              syncHeaders(p, SubSeq(all, 1, k), 1, a, parent, expected, fast, TRUE, TRUE)
  <2>1. PICK k \in 1..(Len(all) - 1) :
              syncHeaders(p, SubSeq(all, 1, k), 1, a, parent, expected, fast, TRUE, TRUE)
    BY <1>4
  <2>2. PICK hs \in Seq(Blocks) : hs = SubSeq(all, 1, k)
    BY <1>1, CutHeaders
  <2>3. syncHeaders(p, hs, 1, a, parent, expected, fast, TRUE, TRUE)
    BY <2>1, <2>2
  <2> QED
    BY <2>2, <2>3, HeadersConnect
<1> QED
  BY <1>1, <1>2, <1>3, <1>4, Zenon DEF syncBlocks

LEMMA SyncBlocksIs ==
    ASSUME TypeOK, Shapes, NEW p \in Peers, NEW a \in Nat \ {0}, NEW b \in Nat,
           NEW parent, NEW expected, NEW fast,
           syncBlocks(p, a, b, parent, expected, fast, TRUE, TRUE)
    PROVE  /\ chain' \in Seq(Blocks) /\ Len(chain') >= Len(chain)
           /\ banned' \subseteq gone' /\ gone' \subseteq Peers
           /\ events' \in [AllKinds -> Nat] /\ events'["grow"] = events["grow"]
<1>1. PICK hs \in Seq(Blocks) : Connects(p, hs)
  BY SyncConnects
<1>2. /\ chain \in Seq(Blocks) /\ banned \subseteq gone /\ gone \subseteq Peers
      /\ events \in [AllKinds -> Nat]
  BY DEF TypeOK, Shapes
<1>3. chain' \in Seq(Blocks) /\ Len(chain') >= Len(chain)
  <2>1. CASE UNCHANGED chain
    BY <2>1, <1>2, LenProperties
  <2>2. CASE \E i \in 0..Len(hs) : chain' = chain \o SubSeq(hs, 1, i)
    BY <2>2, <1>1, <1>2, ConnectedIs
  <2> QED
    BY <2>1, <2>2, <1>1 DEF Connects
<1>4. banned' \subseteq gone' /\ gone' \subseteq Peers
  BY <1>1, <1>2 DEF Connects, Ban
<1>5. events' \in [AllKinds -> Nat] /\ events'["grow"] = events["grow"]
  BY <1>1, <1>2, FailedIs DEF Connects
<1> QED
  BY <1>3, <1>4, <1>5

\* A step that leaves findForkPoint or the fork alone.
LEMMA Elsewhere ==
    ASSUME pc' \notin {"search", "catchup", "window", "query"}
    PROVE  NoneLost' /\ Searching' /\ ForkPointFound'
BY DEF NoneLost, Searching, ForkPointFound

\* A step that a search, or what follows it, does not notice.
LEMMA Unnoticed ==
    ASSUME Searching, ForkPointFound, UNCHANGED <<follows, has, blockMap, search, base>>,
           events'["grow"] = events["grow"],
           pc' = "search" => pc = "search",
           pc' \in {"catchup", "window"} => pc \in {"catchup", "window"}
    PROVE  Searching' /\ ForkPointFound'
<1>1. \A p, h : BlockAt(p, h)' = BlockAt(p, h) /\ Answer(p, h)' = Answer(p, h)
  BY DEF BlockAt, Answer
<1>2. \A p, q, h : Forks(p, q, h)' = Forks(p, q, h)
  BY <1>1 DEF Forks
<1>3. Searching'
  BY <1>1, <1>2 DEF Searching
<1>4. ForkPointFound'
  BY <1>1, <1>2 DEF ForkPointFound
<1> QED
  BY <1>3, <1>4

\* A peer that connects a block is noticed by none of the two.
LEMMA Grown ==
    ASSUME events \in [AllKinds -> Nat], Happens("grow", 1)
    PROVE  /\ Searching' /\ ForkPointFound'
           /\ events' \in [AllKinds -> Nat]
<1>1. events' \in [AllKinds -> Nat] /\ events'["grow"] = events["grow"] + 1
      /\ events["grow"] \in Nat
  BY HappensIs DEF AllKinds
<1> QED
  BY <1>1 DEF Searching, ForkPointFound

-----------------------------------------------------------------------------
(* The steps, one by one.                                                  *)

LEMMA InitInv == Init => Inv
<1> SUFFICES ASSUME Init
             PROVE  Inv
  OBVIOUS
<1>1. Range(EmptyMap) = {} /\ DOMAIN EmptyMap = {}
  BY DEF EmptyMap, Range
<1>2. TypeOK
  <2>1. has \in [Peers -> Nat]
    BY SyncAssumption DEF Init
  <2>2. chain \in Seq(Blocks)
    BY DEF Init
  <2>3. pc \in Steps
    BY DEF Init, Steps
  <2>4. search.lo <= search.mid /\ search.mid <= search.hi
    BY DEF Init, NoSearch
  <2> QED
    BY <1>1, <2>1, <2>2, <2>3, <2>4 DEF Init, TypeOK
<1>3. Shapes
  <2>1. search \in Searches
    BY DEF Init, NoSearch, Searches
  <2>2. target.height \in Nat
    BY DEF Init, NoTarget
  <2>3. /\ base \in [height : Nat, tip : Places]
        /\ cp \in [index : Nat \ {0}, start : Nat \ {0}]
        /\ events \in [AllKinds -> Nat]
    BY DEF Init, Places
  <2> QED
    BY <1>1, <2>1, <2>2, <2>3 DEF Init, Shapes
<1>4. NoneLost /\ Searching /\ ForkPointFound
  BY DEF Init, NoneLost, Searching, ForkPointFound
<1> QED
  BY <1>2, <1>3, <1>4 DEF Inv

LEMMA TipIs ==
    ASSUME chain \in Seq(Blocks)
    PROVE  Height \in Nat /\ Tip \in Places
BY LenProperties DEF Height, Tip, Places

LEMMA StartStep == Inv /\ Start => Inv'
<1> SUFFICES ASSUME Inv, Start
             PROVE  Inv'
  OBVIOUS
<1> USE DEF Inv
<1>1. Height \in Nat /\ Tip \in Places
  BY TipIs DEF TypeOK
<1>2. pc' \in {"checkpoints", "buckets"}
  BY DEF Start, Goto
<1>3. TypeOK'
  BY <1>2 DEF TypeOK, Start, net, Steps
<1>4. Shapes'
  <2>1. /\ base' \in [height : Nat, tip : Places]
        /\ cp' \in [index : Nat \ {0}, start : Nat \ {0}]
    BY <1>1 DEF Start
  <2> QED
    BY <1>2, <2>1 DEF Shapes, Start
<1> QED
  BY <1>2, <1>3, <1>4, Elsewhere

LEMMA NextCheckpointStep == Inv /\ NextCheckpoint => Inv'
<1> SUFFICES ASSUME Inv, NextCheckpoint
             PROVE  Inv'
  OBVIOUS
<1> USE DEF Inv
<1>1. pc' \in {"checkpoints", "buckets"}
  BY DEF NextCheckpoint, Goto
<1>2. TypeOK'
  BY <1>1 DEF TypeOK, NextCheckpoint, net, ours, Steps
<1>3. Shapes'
  <2>1. cp' \in [index : Nat \ {0}, start : Nat \ {0}]
    BY DEF Shapes, NextCheckpoint
  <2> QED
    BY <1>1, <2>1 DEF Shapes, NextCheckpoint
<1> QED
  BY <1>1, <1>2, <1>3, Elsewhere

LEMMA BucketsStep == Inv /\ populatePeerBuckets => Inv'
<1> SUFFICES ASSUME Inv, populatePeerBuckets
             PROVE  Inv'
  OBVIOUS
<1> USE DEF Inv
<1>1. pc' \in {"buckets", "loop", "done"}
  BY DEF populatePeerBuckets, Goto
<1>2. PICK R \in SUBSET Connected :
          /\ Queried(R)
          /\ \/ buckets' = {{q \in R : Answer(q, has[q]) = Answer(p, has[p])} : p \in R}
             \/ UNCHANGED buckets
  BY DEF populatePeerBuckets
<1>3. R \subseteq Peers /\ events' \in [AllKinds -> Nat]
  BY <1>2, QueriedIs DEF Shapes
<1>4. buckets' \subseteq SUBSET Peers /\ {} \notin buckets'
  <2>1. CASE buckets' = {{q \in R : Answer(q, has[q]) = Answer(p, has[p])} : p \in R}
    BY <2>1, <1>3
  <2>2. CASE UNCHANGED buckets
    BY <2>2 DEF TypeOK
  <2> QED
    BY <2>1, <2>2, <1>2
<1>5. TypeOK'
  BY <1>1, <1>4 DEF TypeOK, populatePeerBuckets, ours, locals, Steps
<1>6. Shapes'
  BY <1>1, <1>3 DEF Shapes, populatePeerBuckets, locals
<1> QED
  BY <1>1, <1>5, <1>6, Elsewhere

LEMMA LoopStep == Inv /\ Loop => Inv'
<1> SUFFICES ASSUME Inv, Loop
             PROVE  Inv'
  OBVIOUS
<1> USE DEF Inv
<1>1. pc' \in {"done", "check"}
  BY DEF Loop, Goto
<1>2. Range(blockMap') = {} /\ DOMAIN blockMap' = {} /\ DOMAIN windows' = {}
  BY DEF Loop, EmptyMap, Range
<1>3. /\ search' \in Searches
      /\ search'.lo <= search'.mid /\ search'.mid <= search'.hi
  BY DEF Loop, NoSearch, Searches
<1>4. target'.height \in Nat
  BY DEF Loop, NoTarget
<1>5. TypeOK'
  BY <1>1, <1>2, <1>3 DEF TypeOK, Loop, net, ours, Steps
<1>6. Shapes'
  BY <1>1, <1>2, <1>3, <1>4 DEF Shapes, Loop
<1> QED
  BY <1>1, <1>5, <1>6, Elsewhere

LEMMA CheckStep == Inv /\ Check => Inv'
<1> SUFFICES ASSUME Inv, Check
             PROVE  Inv'
  OBVIOUS
<1> USE DEF Inv
<1>1. pc' \in {"done", "query"}
  BY DEF Check, Goto
<1>2. Height \in Nat /\ Tip \in Places
  BY TipIs DEF TypeOK
<1>3. TypeOK'
  BY <1>1 DEF TypeOK, Check, net, ours, Steps
<1>4. base' \in [height : Nat, tip : Places] /\ base'.height = Height /\ Height' = Height
  BY <1>2 DEF Check, ours, Height
<1>5. Shapes'
  BY <1>1, <1>4 DEF Shapes, Check
<1>6. NoneLost'
  BY <1>2, <1>4 DEF NoneLost
<1>7. Searching' /\ ForkPointFound'
  BY <1>1 DEF Searching, ForkPointFound
<1> QED
  BY <1>3, <1>5, <1>6, <1>7

LEMMA QueryStep == Inv /\ queryPeersForBlockID => Inv'
<1> SUFFICES ASSUME Inv, queryPeersForBlockID
             PROVE  Inv'
  OBVIOUS
<1> USE DEF Inv
<1>1. PICK R \in SUBSET Connected :
          /\ Queried(R)
          /\ IF Enough(R)
             THEN LET want == base.height + Lookahead
                      ahead == {p \in R : Ahead(p, want)}
                      ids == {Answer(p, want) : p \in ahead}
                  IN  /\ \E m \in [ids -> ahead] :
                            /\ \A id \in ids : Answer(m[id], want) = id
                            /\ blockMap' = m
                      /\ search' = [lo |-> base.height,
                                    mid |-> base.height + (Lookahead \div 2),
                                    hi |-> want, id |-> NoBlock]
                      /\ Goto(IF ids = {} THEN "tip"
                              ELSE IF Cardinality(ids) = 1 THEN "straight"
                              ELSE "search")
             ELSE Goto("loop") /\ UNCHANGED <<blockMap, search>>
  BY DEF queryPeersForBlockID
<1>2. R \subseteq Peers /\ events' \in [AllKinds -> Nat]
      /\ events'["grow"] = events["grow"]
  BY <1>1, QueriedIs DEF Shapes
<1>3. pc = "query" /\ UNCHANGED <<follows, has, gone, banned, buckets, chain, current, quit,
                                  setting, base, cp, windows, target>>
  BY DEF queryPeersForBlockID, net, ours
<1>4. CASE ~Enough(R)
  <2>1. pc' = "loop" /\ UNCHANGED <<blockMap, search>>
    BY <1>1, <1>4 DEF Goto
  <2>2. TypeOK'
    BY <2>1, <1>3 DEF TypeOK, Steps
  <2>3. Shapes'
    BY <2>1, <1>2, <1>3 DEF Shapes
  <2> QED
    BY <2>1, <2>2, <2>3, Elsewhere
<1>5. CASE Enough(R)
  <2> DEFINE want == base.height + Lookahead
             ahead == {p \in R : Ahead(p, want)}
             ids == {Answer(p, want) : p \in ahead}
             low == base.height
  <2>1. /\ blockMap' \in [ids -> ahead]
        /\ \A id \in ids : Answer(blockMap'[id], want) = id
        /\ search' = [lo |-> low, mid |-> low + (Lookahead \div 2), hi |-> want,
                      id |-> NoBlock]
        /\ pc' = IF ids = {} THEN "tip"
                 ELSE IF Cardinality(ids) = 1 THEN "straight" ELSE "search"
    BY <1>1, <1>5 DEF Goto
  <2>2. low \in Nat /\ want \in Nat /\ Height \in Nat /\ low <= Height /\ low < want
        /\ Lookahead \div 2 \in Nat /\ Lookahead \div 2 < Lookahead
    BY <1>3, TipIs, SyncAssumption DEF Shapes, TypeOK, NoneLost
  <2>3. \A p \in ahead : /\ p \in Peers /\ has[p] > low
                         /\ Answer(p, want) \in Blocks
    <3> TAKE p \in ahead
    <3>1. p \in Peers /\ has[p] \in Nat /\ Min({want, has[p]}) > Height
      BY <1>2, HasIs DEF Ahead
    <3>2. PICK m : m = IF want <= has[p] THEN want ELSE has[p]
      OBVIOUS
    <3>3. Min({want, has[p]}) = m
      <4>1. want \in Int /\ has[p] \in Int
        BY <3>1, <2>2
      <4> HIDE DEF want
      <4> QED
        BY <4>1, <3>2, MinOfTwo
    <3>4. m \in 0..has[p] /\ m # 0 /\ has[p] > low
      BY <3>1, <3>2, <3>3, <2>2
    <3>5. Answer(p, want) = BlockAt(p, m)
      BY <3>3 DEF Answer
    <3> QED
      BY <3>1, <3>4, <3>5, BlockAtIs
  <2>4. ids \subseteq Blocks
    BY <2>3
  <2>5. DOMAIN blockMap' = ids /\ Range(blockMap') \subseteq ahead
    BY <2>1 DEF Range
  <2>6. Range(blockMap') \subseteq Peers
    BY <2>3, <2>5
  <2>7. search' \in Searches /\ search'.lo = low /\ search'.hi = want
        /\ search'.mid = low + (Lookahead \div 2) /\ search'.id = NoBlock
    BY <2>1, <2>2 DEF Searches
  <2>8. pc' \in {"tip", "straight", "search"} /\ (pc' = "search" =>
                    ids # {} /\ Cardinality(ids) # 1)
    BY <2>1
  <2>9. pc' = "search" => \E p, q \in Range(blockMap') : Forks(p, q, want)
    <3> SUFFICES ASSUME pc' = "search"
                 PROVE  \E p, q \in Range(blockMap') : Forks(p, q, want)
      OBVIOUS
    <3>1. ahead \in SUBSET Peers
      BY <2>3
    <3>2. Cardinality(ids) > 1
      <4>1. ahead # {} /\ Cardinality(ids) # 1
        BY <2>8
      <4>2. Cardinality(ids) \in Nat /\ (Cardinality(ids) = 0 <=> ahead = {})
        BY <3>1, AnswersAre
      <4> QED
        BY <4>1, <4>2
    <3>3. \E p, q \in ahead : Forks(p, q, want)
      BY <3>1, <3>2, AnswersAre
    <3>4. PICK p, q \in ahead : Answer(p, want) # Answer(q, want)
      BY <3>3 DEF Forks
    <3>5. PICK x, y \in ids : x # y
      BY <3>4
    <3>6. Answer(blockMap'[x], want) = x /\ Answer(blockMap'[y], want) = y
      BY <2>1
    <3>7. blockMap'[x] \in Range(blockMap') /\ blockMap'[y] \in Range(blockMap')
      BY <2>5 DEF Range
    <3> QED
      BY <3>5, <3>6, <3>7 DEF Forks
  <2> HIDE DEF ids
  <2>10. TypeOK'
    <3>1. search'.lo <= search'.mid /\ search'.mid <= search'.hi
      BY <2>2, <2>7, SyncAssumption
    <3>2. DOMAIN windows' \subseteq DOMAIN blockMap'
      BY <1>3 DEF Shapes
    <3> QED
      BY <2>4, <2>5, <2>6, <2>8, <3>1, <3>2, <1>3 DEF TypeOK, Steps
  <2>11. Shapes'
    <3>1. pc' = "search" => Range(blockMap') # {}
      BY <2>9
    <3> QED
      BY <3>1, <2>7, <2>8, <1>2, <1>3 DEF Shapes
  <2>12. NoneLost' /\ ForkPointFound'
    BY <2>8 DEF NoneLost, ForkPointFound
  <2>13. Searching'
    <3> SUFFICES ASSUME pc' = "search"
                 PROVE  Searching'
      BY DEF Searching
    <3>1. \E p, q \in Range(blockMap') : Forks(p, q, search.hi)'
      BY <2>7, <2>9, <1>3 DEF Forks, Answer, BlockAt
    <3>2. \A p \in Range(blockMap') : has'[p] > base'.height
      BY <2>3, <2>5, <1>3
    <3>3. /\ base'.height <= search'.lo /\ search'.lo < search'.hi
          /\ search'.mid = search'.lo + ((search'.hi - search'.lo) \div 2)
      BY <2>2, <2>7, <1>3, SyncAssumption
    <3>4. search'.lo = base'.height /\ search'.id = NoBlock
      BY <2>7, <1>3
    <3> QED
      BY <3>1, <3>2, <3>3, <3>4 DEF Searching
  <2> QED
    BY <2>10, <2>11, <2>12, <2>13
<1> QED
  BY <1>4, <1>5

LEMMA SetCurrentStep == Inv /\ SetCurrent => Inv'
<1> SUFFICES ASSUME Inv, SetCurrent
             PROVE  Inv'
  OBVIOUS
<1> USE DEF Inv
<1>1. pc' = "done"
  BY DEF SetCurrent, Goto
<1>2. TypeOK'
  BY <1>1 DEF TypeOK, SetCurrent, net, locals, Steps
<1>3. Shapes'
  BY <1>1 DEF Shapes, SetCurrent, locals
<1> QED
  BY <1>1, <1>2, <1>3, Elsewhere

\* What every step with a call of syncBlocks does.
LEMMA SyncedStep ==
    ASSUME Inv, NEW p \in Peers, NEW a \in Nat \ {0}, NEW b \in Nat,
           NEW parent, NEW expected, NEW fast,
           syncBlocks(p, a, b, parent, expected, fast, TRUE, TRUE),
           UNCHANGED <<follows, has, buckets, current, quit, setting, base, blockMap,
                       search, windows, target>>,
           cp' \in [index : Nat \ {0}, start : Nat \ {0}],
           pc' \in {"loop", "checkpoints", "window"},
           pc' = "window" => pc = "catchup"
    PROVE  Inv'
<1> USE DEF Inv
<1>1. /\ chain' \in Seq(Blocks) /\ banned' \subseteq gone' /\ gone' \subseteq Peers
      /\ events' \in [AllKinds -> Nat] /\ events'["grow"] = events["grow"]
  BY SyncBlocksIs
<1>2. TypeOK'
  BY <1>1 DEF TypeOK, Steps
<1>3. Shapes'
  BY <1>1 DEF Shapes
<1>4. NoneLost'
  BY DEF NoneLost
<1>5. Searching' /\ ForkPointFound'
  BY <1>1, Unnoticed
<1> QED
  BY <1>2, <1>3, <1>4, <1>5

LEMMA AgreedStep == Inv /\ SyncAgreed => Inv'
<1> SUFFICES ASSUME Inv, SyncAgreed
             PROVE  Inv'
  OBVIOUS
<1>1. PICK id \in DOMAIN blockMap :
          syncBlocks(blockMap[id], base.height + 1, base.height + Lookahead,
                     base.tip, id, FALSE, TRUE, TRUE)
  BY DEF SyncAgreed
<1>2. blockMap[id] \in Peers
  BY DEF Inv, TypeOK, Range
<1>3. base.height + 1 \in Nat \ {0} /\ base.height + Lookahead \in Nat
  BY SyncAssumption DEF Inv, Shapes
<1>4. /\ UNCHANGED <<follows, has, buckets, current, quit, setting, base, blockMap,
                     search, windows, target>>
      /\ cp' \in [index : Nat \ {0}, start : Nat \ {0}]
      /\ pc' = "loop"
  BY DEF Inv, Shapes, SyncAgreed, locals, Goto
<1> QED
  BY <1>1, <1>2, <1>3, <1>4, SyncedStep

LEMMA CheckpointStep ==
    ASSUME Inv, NEW p \in Peers, syncToCheckpoints(p)
    PROVE  Inv'
<1> DEFINE height == Checkpoints[cp.index]
           ok == cp' = [index |-> cp.index + 1, start |-> height + 1]
<1>1. /\ cp \in [index : Nat \ {0}, start : Nat \ {0}]
      /\ cp.index \in Nat \ {0} /\ cp.start \in Nat \ {0}
  BY DEF Inv, Shapes
<1>2. /\ pc = "checkpoints" /\ cp.index <= Len(Checkpoints)
      /\ syncBlocks(p, cp.start, height, CheckpointID(cp.index - 1),
                    CheckpointID(cp.index), TRUE, ok, UNCHANGED cp)
      /\ UNCHANGED <<follows, has, buckets, current, quit, setting, pc, base,
                     blockMap, search, windows, target>>
  BY DEF syncToCheckpoints
<1>3. height \in Nat
  <2>1. cp.index \in 1..Len(Checkpoints)
    BY <1>1, <1>2, SyncAssumption, LenProperties
  <2> QED
    BY <2>1, SyncAssumption, ElementOfSeq
<1>4. /\ syncBlocks(p, cp.start, height, CheckpointID(cp.index - 1),
                    CheckpointID(cp.index), TRUE, TRUE, TRUE)
      /\ ok \/ UNCHANGED cp
  <2> HIDE DEF ok, height
  <2> QED
    BY <1>2, Zenon DEF syncBlocks, syncHeaders
<1>5. cp' \in [index : Nat \ {0}, start : Nat \ {0}]
  BY <1>1, <1>3, <1>4
<1> HIDE DEF height
<1> QED
  BY <1>1, <1>2, <1>3, <1>4, <1>5, SyncedStep

LEMMA ToForkStep == Inv /\ SyncToFork => Inv'
<1> SUFFICES ASSUME Inv, SyncToFork
             PROVE  Inv'
  OBVIOUS
<1>1. PICK p \in Range(blockMap) :
          syncBlocks(p, base.height + 1, search.mid, base.tip, search.id, FALSE,
                     Goto("window"), Goto("loop"))
  BY DEF SyncToFork
<1>2. /\ syncBlocks(p, base.height + 1, search.mid, base.tip, search.id, FALSE,
                    TRUE, TRUE)
      /\ Goto("window") \/ Goto("loop")
  BY <1>1, Zenon DEF syncBlocks, syncHeaders
<1>3. p \in Peers /\ base.height + 1 \in Nat \ {0} /\ search.mid \in Nat
  BY DEF Inv, TypeOK, Shapes, Searches
<1>4. /\ UNCHANGED <<follows, has, buckets, current, quit, setting, base, blockMap,
                     search, windows, target>>
      /\ cp' \in [index : Nat \ {0}, start : Nat \ {0}]
      /\ pc' \in {"window", "loop"} /\ pc = "catchup"
  BY <1>2 DEF Inv, Shapes, SyncToFork, locals, Goto
<1> QED
  BY <1>2, <1>3, <1>4, SyncedStep

LEMMA ToBestStep == Inv /\ SyncToBest => Inv'
<1> SUFFICES ASSUME Inv, SyncToBest
             PROVE  Inv'
  OBVIOUS
<1>1. syncBlocks(target.peer, Height + 1, target.height, Tip, target.id, FALSE,
                 TRUE, TRUE)
  BY DEF SyncToBest
<1>2. Height \in Nat
  BY TipIs DEF Inv, TypeOK
<1>3. target.peer \in Peers /\ Height + 1 \in Nat \ {0} /\ target.height \in Nat
  BY <1>2 DEF Inv, Shapes, SyncToBest
<1>4. /\ UNCHANGED <<follows, has, buckets, current, quit, setting, base, blockMap,
                     search, windows, target>>
      /\ cp' \in [index : Nat \ {0}, start : Nat \ {0}]
      /\ pc' = "loop"
  BY DEF Inv, Shapes, SyncToBest, locals, Goto
<1> QED
  BY <1>1, <1>3, <1>4, SyncedStep

LEMMA RoundTyped ==
    ASSUME TypeOK, Shapes, pc = "search",
           NEW s, s = Narrowed(search, {Answer(p, search.mid) : p \in Asked})
    PROVE  s \in Searches /\ s.lo <= s.mid /\ s.mid <= s.hi
<1> DEFINE ids == {Answer(p, search.mid) : p \in Asked}
<1>0. PICK lo, mid, hi, old : lo = search.lo /\ mid = search.mid /\ hi = search.hi
                              /\ old = search.id
  OBVIOUS
<1>1. /\ lo \in Nat /\ mid \in Nat /\ hi \in Nat /\ lo <= mid /\ mid <= hi
      /\ old \in Places \cup {NoBlock}
  BY <1>0 DEF TypeOK, Shapes, Searches
<1>2. CASE Cardinality(ids) > 1
  <2>1. PICK m : m = lo + ((mid - lo) \div 2)
    OBVIOUS
  <2>2. s = [lo |-> lo, mid |-> m, hi |-> mid, id |-> old]
    BY <1>0, <1>2, <2>1 DEF Narrowed
  <2>3. m \in Nat /\ lo <= m /\ m <= mid
    BY <2>1, <1>1
  <2> QED
    BY <2>2, <2>3, <1>1 DEF Searches
<1>3. CASE ~(Cardinality(ids) > 1)
  <2>1. PICK m : m = mid + ((hi - mid) \div 2)
    OBVIOUS
  <2>2. PICK id : id = CHOOSE x \in ids : TRUE
    OBVIOUS
  <2>3. s = [lo |-> mid, mid |-> m, hi |-> hi, id |-> id]
    BY <1>0, <1>3, <2>1, <2>2 DEF Narrowed
  <2>4. m \in Nat /\ mid <= m /\ m <= hi
    BY <2>1, <1>1
  <2>5. id \in ids
    BY <2>2 DEF Shapes, Asked
  <2>6. PICK p \in Asked : id = Answer(p, mid)
    BY <2>5, <1>0
  <2>7. p \in Peers /\ has[p] \in Nat
    BY HasIs DEF TypeOK, Asked
  <2>8. PICK h \in 0..has[p] : id = BlockAt(p, h)
    BY <2>6, <2>7, <1>1, AnswerIs
  <2>9. id \in Places
    BY <2>7, <2>8, BlockAtIs
  <2> QED
    BY <2>3, <2>4, <2>9, <1>1 DEF Searches
<1> QED
  BY <1>2, <1>3

LEMMA ForkPointStep == Inv /\ findForkPoint => Inv'
<1> SUFFICES ASSUME Inv, findForkPoint
             PROVE  Inv'
  OBVIOUS
<1> USE DEF Inv
<1>1. /\ pc = "search"
      /\ search' = Narrowed(search, {Answer(p, search.mid) : p \in Asked})
      /\ pc' = IF search'.mid # search.mid THEN "search"
               ELSE IF search'.mid > base.height THEN "catchup" ELSE "window"
      /\ UNCHANGED <<follows, has, gone, banned, buckets, chain, current, quit, setting,
                     base, cp, blockMap, windows, target, events>>
  BY DEF findForkPoint, net, ours, Goto, Asked
<1>2. \A p, h : BlockAt(p, h)' = BlockAt(p, h) /\ Answer(p, h)' = Answer(p, h)
  BY <1>1 DEF BlockAt, Answer
<1>3. \A p, q, h : Forks(p, q, h)' = Forks(p, q, h)
  BY <1>2 DEF Forks
<1>4. /\ search' \in Searches
      /\ search'.lo <= search'.mid /\ search'.mid <= search'.hi
  BY <1>1, RoundTyped
<1>5. TypeOK'
  BY <1>1, <1>4 DEF TypeOK, Steps
<1>6. Shapes'
  BY <1>1, <1>4 DEF Shapes
<1>7. Searching'
  <2> SUFFICES ASSUME pc' = "search", events'["grow"] = 0
               PROVE  Searching'
    BY DEF Searching
  <2>1. events["grow"] = 0 /\ search'.mid # search.mid
    BY <1>1
  <2>2. /\ base.height <= search'.lo /\ search'.lo < search'.hi
        /\ search'.mid = search'.lo + ((search'.hi - search'.lo) \div 2)
        /\ \/ \A p \in Range(blockMap) : has[p] >= search'.lo
                                         /\ BlockAt(p, search'.lo) = search'.id
           \/ search'.lo = base.height /\ search'.id = NoBlock
        /\ \E p, q \in Range(blockMap) : Forks(p, q, search'.hi)
    BY <2>1, <1>1, RoundKeeps DEF Bounds, LowEnd, Asked
  <2>3. \A p \in Range(blockMap) : has[p] > base.height
    BY <2>1, <1>1 DEF Searching
  <2> QED
    BY <2>2, <2>3, <1>1, <1>2, <1>3 DEF Searching
<1>8. ForkPointFound'
  <2> SUFFICES ASSUME pc' \in {"catchup", "window"}, events'["grow"] = 0
               PROVE  ForkPointFound'
    BY DEF ForkPointFound
  <2>1. events["grow"] = 0 /\ search'.mid = search.mid
    BY <1>1
  <2>2. /\ \/ \A p \in Range(blockMap) : has[p] >= search'.mid
                                         /\ BlockAt(p, search'.mid) = search'.id
           \/ search'.mid = base.height /\ search'.id = NoBlock
        /\ \E p, q \in Range(blockMap) : Forks(p, q, search'.mid + 1)
    BY <2>1, <1>1, RoundKeeps DEF LowEnd, Asked
  <2> QED
    BY <2>2, <1>1, <1>2, <1>3 DEF ForkPointFound
<1> QED
  BY <1>1, <1>5, <1>6, <1>7, <1>8 DEF NoneLost

\* A step back to the head of the loop that touches the network alone.
LEMMA BackStep ==
    ASSUME Inv, UNCHANGED <<follows, has, buckets, chain, current, quit, setting>>,
           UNCHANGED <<base, cp, blockMap, search, windows, target>>,
           banned' \subseteq gone', gone' \subseteq Peers,
           events' \in [AllKinds -> Nat], pc' = "loop"
    PROVE  Inv'
<1> USE DEF Inv
<1>1. TypeOK'
  BY DEF TypeOK, Steps
<1>2. Shapes'
  BY DEF Shapes
<1> QED
  BY <1>1, <1>2, Elsewhere

LEMMA SearchFailsStep == Inv /\ SearchFails => Inv'
<1> SUFFICES ASSUME Inv, SearchFails
             PROVE  Inv'
  OBVIOUS
<1>1. events' \in [AllKinds -> Nat]
  BY FailIs DEF Inv, Shapes, SearchFails
<1>2. /\ UNCHANGED <<follows, has, buckets, chain, current, quit, setting>>
      /\ UNCHANGED <<base, cp, blockMap, search, windows, target>>
      /\ banned' \subseteq gone' /\ gone' \subseteq Peers /\ pc' = "loop"
  BY DEF SearchFails, Ban, Inv, TypeOK, ours, locals, Goto
<1> QED
  BY <1>1, <1>2, BackStep

LEMMA ChooserFailsStep == Inv /\ ChooserFails => Inv'
<1> SUFFICES ASSUME Inv, ChooserFails
             PROVE  Inv'
  OBVIOUS
<1>1. events' \in [AllKinds -> Nat]
  BY FailIs DEF Inv, Shapes, ChooserFails
<1>2. /\ UNCHANGED <<follows, has, buckets, chain, current, quit, setting>>
      /\ UNCHANGED <<base, cp, blockMap, search, windows, target>>
      /\ banned' \subseteq gone' /\ gone' \subseteq Peers /\ pc' = "loop"
  BY DEF ChooserFails, Inv, TypeOK, net, ours, locals, Goto
<1> QED
  BY <1>1, <1>2, BackStep

LEMMA WindowFailsStep ==
    ASSUME Inv, NEW p \in Peers, WindowFails(p)
    PROVE  Inv'
<1>1. events' \in [AllKinds -> Nat]
  BY FailIs DEF Inv, Shapes, WindowFails
<1>2. /\ UNCHANGED <<follows, has, buckets, chain, current, quit, setting>>
      /\ UNCHANGED <<base, cp, blockMap, search, windows, target>>
      /\ banned' \subseteq gone' /\ gone' \subseteq Peers /\ pc' = "loop"
  BY DEF WindowFails, Ban, Inv, TypeOK, ours, locals, Goto
<1> QED
  BY <1>1, <1>2, BackStep

\* A peer that connects a block, whatever else happens.
LEMMA GrowTyped ==
    ASSUME TypeOK, NEW p \in Peers, has[p] < Len(follows[p]), UNCHANGED follows,
           has' = [has EXCEPT ![p] = @ + 1]
    PROVE  has' \in [Peers -> Nat] /\ \A q \in Peers : has'[q] <= Len(follows'[q])
<1>1. has' \in [Peers -> Nat]
  BY DEF TypeOK
<1>2. \A q \in Peers : has'[q] <= Len(follows'[q])
  BY HasIs DEF TypeOK
<1> QED
  BY <1>1, <1>2

LEMMA SearchRacedStep ==
    ASSUME Inv, NEW p \in Peers, SearchRaced(p)
    PROVE  Inv'
<1> USE DEF Inv
<1>1. /\ Searching' /\ ForkPointFound'
      /\ events' \in [AllKinds -> Nat]
  BY Grown DEF Shapes, SearchRaced
<1>2. has' \in [Peers -> Nat] /\ \A q \in Peers : has'[q] <= Len(follows'[q])
  BY GrowTyped DEF SearchRaced
<1>3. pc' = "loop"
  BY DEF SearchRaced, Goto
<1>4. TypeOK'
  BY <1>2, <1>3 DEF TypeOK, SearchRaced, Ban, ours, locals, Steps
<1>5. Shapes'
  BY <1>1, <1>3 DEF Shapes, SearchRaced, locals
<1> QED
  BY <1>1, <1>3, <1>4, <1>5 DEF NoneLost

LEMMA WindowPanicsStep ==
    ASSUME Inv, NEW p \in Peers, WindowPanics(p)
    PROVE  Inv'
<1> USE DEF Inv
<1>1. events' \in [AllKinds -> Nat]
  BY Grown, FailIs DEF Shapes, WindowPanics
<1>2. has' \in [Peers -> Nat] /\ \A q \in Peers : has'[q] <= Len(follows'[q])
  BY GrowTyped DEF WindowPanics, TypeOK
<1>3. pc' = "panic"
  BY DEF WindowPanics, Goto
<1>4. TypeOK'
  BY <1>2, <1>3 DEF TypeOK, WindowPanics, ours, locals, Steps
<1>5. Shapes'
  BY <1>1, <1>3 DEF Shapes, WindowPanics, locals
<1> QED
  BY <1>3, <1>4, <1>5, Elsewhere

LEMMA GrowStep ==
    ASSUME Inv, NEW p \in Peers, Grow(p)
    PROVE  Inv'
<1> USE DEF Inv
<1>1. /\ Searching' /\ ForkPointFound'
      /\ events' \in [AllKinds -> Nat]
  BY Grown DEF Shapes, Grow
<1>2. has' \in [Peers -> Nat] /\ \A q \in Peers : has'[q] <= Len(follows'[q])
  BY GrowTyped DEF Grow
<1>3. TypeOK'
  BY <1>2 DEF TypeOK, Grow, ours, locals, Steps
<1>4. Shapes'
  BY <1>1 DEF Shapes, Grow, locals, Rivals
<1>5. NoneLost'
  BY DEF NoneLost, Grow, ours, locals, Height
<1> QED
  BY <1>1, <1>3, <1>4, <1>5

LEMMA WindowStep == Inv /\ downloadEvalWindow => Inv'
<1> SUFFICES ASSUME Inv, downloadEvalWindow
             PROVE  Inv'
  OBVIOUS
<1> USE DEF Inv
<1>1. /\ pc' = "choose" /\ windows' = [id \in Rivals |-> EvalWindow(blockMap[id])]
      /\ UNCHANGED <<follows, has, gone, banned, buckets, chain, current, quit, setting,
                     base, cp, blockMap, search, target, events>>
  BY DEF downloadEvalWindow, Goto, net, ours
<1>2. DOMAIN windows' = Rivals /\ Rivals' = Rivals /\ Rivals \subseteq DOMAIN blockMap
  BY <1>1 DEF Rivals
<1>3. \A id \in Rivals : windows'[id] \in Seq(Blocks)
  <2> TAKE id \in Rivals
  <2>1. blockMap[id] \in Peers
    BY <1>2 DEF TypeOK, Range
  <2>2. search.mid + 1 \in Nat \ {0} /\ search.mid + Window \in Nat
    BY SyncAssumption DEF Shapes, Searches
  <2>3. EvalWindow(blockMap[id]) \in Seq(Blocks)
    BY <2>1, <2>2, HeadersAre DEF EvalWindow
  <2> QED
    BY <2>3, <1>1
<1>4. TypeOK'
  BY <1>1, <1>2 DEF TypeOK, Steps
<1>5. Shapes'
  BY <1>1, <1>2, <1>3 DEF Shapes
<1> QED
  BY <1>1, <1>4, <1>5, Elsewhere

\* The streams that end early are failures of some peers.
LEMMA WindowsFailed ==
    ASSUME TypeOK, WindowsCut
    PROVE  Failed
<1>1. PICK S \in (SUBSET Rivals) \ {{}} : Fail(Cardinality({blockMap[id] : id \in S}))
  BY Zenon DEF WindowsCut
<1>2. PICK T : T = {blockMap[id] : id \in S}
  OBVIOUS
<1>3. T # {}
  BY <1>1, <1>2
<1>4. T \subseteq Peers
  BY <1>1, <1>2 DEF Rivals, TypeOK, Range
<1>5. IsFiniteSet(T) /\ Cardinality(T) \in Nat
  BY <1>4, SyncAssumption, FS_Subset, FS_CardinalityType
<1>6. Cardinality(T) # 0
  BY <1>3, <1>5, FS_EmptySet
<1> QED
  BY <1>1, <1>2, <1>5, <1>6 DEF Failed

LEMMA WindowsCutStep == Inv /\ WindowsCut => Inv'
<1> SUFFICES ASSUME Inv, WindowsCut
             PROVE  Inv'
  OBVIOUS
<1> USE DEF Inv
<1>1. /\ pc' = "choose"
      /\ UNCHANGED <<follows, has, gone, banned, buckets, chain, current, quit, setting,
                     base, cp, blockMap, search, target>>
  BY DEF WindowsCut, Goto, net, ours
<1>2. PICK S \in (SUBSET Rivals) \ {{}} : \E n \in [S -> 1..Window] :
        /\ \A id \in S : n[id] < Len(EvalWindow(blockMap[id]))
        /\ windows' = [id \in Rivals |->
                         IF id \in S THEN SubSeq(EvalWindow(blockMap[id]), 1, n[id])
                         ELSE EvalWindow(blockMap[id])]
  BY Zenon DEF WindowsCut
<1>20. PICK n \in [S -> 1..Window] :
        /\ \A id \in S : n[id] < Len(EvalWindow(blockMap[id]))
        /\ windows' = [id \in Rivals |->
                         IF id \in S THEN SubSeq(EvalWindow(blockMap[id]), 1, n[id])
                         ELSE EvalWindow(blockMap[id])]
  BY <1>2
<1>3. DOMAIN windows' = Rivals /\ Rivals' = Rivals /\ Rivals \subseteq DOMAIN blockMap
  BY <1>1, <1>20 DEF Rivals
<1>4. \A id \in Rivals : windows'[id] \in Seq(Blocks)
  <2> TAKE id \in Rivals
  <2>1. blockMap[id] \in Peers
    BY <1>3 DEF TypeOK, Range
  <2>2. search.mid + 1 \in Nat \ {0} /\ search.mid + Window \in Nat
    BY SyncAssumption DEF Shapes, Searches
  <2>3. PICK w \in Seq(Blocks) : w = EvalWindow(blockMap[id])
    BY <2>1, <2>2, HeadersAre DEF EvalWindow
  <2>4. CASE id \in S
    <3>1. Len(w) \in Nat
      BY LenProperties
    <3>2. n[id] \in 1..(Len(w) - 1)
      BY <1>20, <2>3, <2>4, <3>1, SyncAssumption
    <3>3. SubSeq(w, 1, n[id]) \in Seq(Blocks)
      BY <3>2, CutHeaders
    <3> QED
      BY <1>20, <2>3, <2>4, <3>3
  <2>5. CASE id \notin S
    BY <1>20, <2>3, <2>5
  <2> QED
    BY <2>4, <2>5
<1>5. events' \in [AllKinds -> Nat]
  BY WindowsFailed, FailedIs DEF Shapes
<1>6. TypeOK'
  BY <1>1, <1>3 DEF TypeOK, Steps
<1>7. Shapes'
  BY <1>1, <1>3, <1>4, <1>5 DEF Shapes
<1> QED
  BY <1>1, <1>6, <1>7, Elsewhere

LEMMA ChooseStep == Inv /\ ChooseFork => Inv'
<1> SUFFICES ASSUME Inv, ChooseFork
             PROVE  Inv'
  OBVIOUS
<1> USE DEF Inv
<1>1. PICK id \in BestIDs :
          /\ target' = [peer |-> blockMap[id], id |-> LastOf(windows[id]),
                        height |-> search.mid + Len(windows[id])]
          /\ \/ /\ Ban(Losers(id) \cup UNION LosersBuckets(id))
                /\ buckets' = buckets \ LosersBuckets(id)
             \/ UNCHANGED <<gone, banned, buckets>>
  BY DEF ChooseFork
<1>2. /\ pc = "choose" /\ pc' = "sync"
      /\ UNCHANGED <<follows, has, chain, current, quit, setting, base, cp, blockMap,
                     search, windows, events>>
  BY DEF ChooseFork, Goto, ours
<1>3. id \in Rivals /\ Rivals \subseteq DOMAIN blockMap
  BY DEF BestIDs, Rivals
<1>4. DOMAIN windows = Rivals
  BY <1>2 DEF Shapes
<1>5. blockMap[id] \in Peers
  BY <1>3 DEF TypeOK, Range
<1>6. Len(windows[id]) \in Nat
  BY <1>3, <1>4, LenProperties DEF Shapes
<1>7. target'.peer \in Peers /\ target'.height \in Nat
  BY <1>1, <1>5, <1>6 DEF Shapes, Searches
<1>8. Losers(id) \subseteq Peers /\ UNION LosersBuckets(id) \subseteq Peers
  BY DEF TypeOK, Losers, LosersBuckets, Range
<1>9. /\ banned' \subseteq gone' /\ gone' \subseteq Peers
      /\ buckets' \subseteq SUBSET Peers /\ {} \notin buckets'
  BY <1>1, <1>8 DEF Ban, TypeOK
<1>10. TypeOK'
  BY <1>2, <1>9 DEF TypeOK, Steps
<1>11. Shapes'
  BY <1>2, <1>7 DEF Shapes
<1> QED
  BY <1>2, <1>10, <1>11, Elsewhere

-----------------------------------------------------------------------------
(* The environment.                                                        *)

LEMMA DisconnectedStep ==
    ASSUME Inv, NEW p \in Peers, bucketPeerDisconnected(p)
    PROVE  Inv'
<1> USE DEF Inv
<1>1. buckets' \subseteq SUBSET Peers /\ {} \notin buckets'
  BY DEF TypeOK, bucketPeerDisconnected
<1>2. UNCHANGED <<follows, has, gone, banned, chain, current, quit, setting, pc, base, cp,
                  blockMap, search, windows, target, events>>
  BY DEF bucketPeerDisconnected, ours, locals
<1>3. TypeOK'
  BY <1>1, <1>2 DEF TypeOK
<1>4. Shapes' /\ NoneLost'
  BY <1>2 DEF Shapes, NoneLost, Height, Rivals
<1> QED
  BY <1>2, <1>3, <1>4, Unnoticed

\* An event of another kind that changes neither the network nor Start.
LEMMA AsideStep ==
    ASSUME Inv, UNCHANGED <<follows, has, buckets, pc, base, cp, blockMap, search,
                            windows, target>>,
           banned' \subseteq gone', gone' \subseteq Peers,
           chain' \in Seq(Blocks), Len(chain') >= Len(chain),
           {current', quit', setting'} \subseteq BOOLEAN,
           events' \in [AllKinds -> Nat], events'["grow"] = events["grow"]
    PROVE  Inv'
<1> USE DEF Inv
<1>1. TypeOK'
  BY DEF TypeOK
<1>2. Shapes'
  BY DEF Shapes, Rivals
<1>3. NoneLost'
  <2>1. Len(chain) \in Nat /\ Len(chain') \in Nat /\ base.height \in Nat
    BY LenProperties DEF TypeOK, Shapes
  <2> QED
    BY <2>1 DEF NoneLost, Height
<1> QED
  BY <1>1, <1>2, <1>3, Unnoticed

LEMMA CloseStep == Inv /\ Close => Inv'
<1> SUFFICES ASSUME Inv, Close
             PROVE  Inv'
  OBVIOUS
<1>1. "close" \in AllKinds /\ "close" # "grow"
  BY DEF AllKinds
<1>2. events' \in [AllKinds -> Nat] /\ events'["grow"] = events["grow"]
  BY <1>1, HappensIs DEF Inv, Shapes, Close
<1>3. Len(chain) \in Nat
  BY LenProperties DEF Inv, TypeOK
<1>4. /\ UNCHANGED <<follows, has, buckets, pc, base, cp, blockMap, search, windows, target>>
      /\ banned' \subseteq gone' /\ gone' \subseteq Peers
      /\ chain' \in Seq(Blocks) /\ Len(chain') >= Len(chain)
  BY <1>3 DEF Inv, TypeOK, Close, net, locals
<1>5. current' = FALSE /\ quit' = TRUE /\ setting' \in BOOLEAN
  BY DEF Inv, TypeOK, Close
<1>6. {current', quit', setting'} \subseteq BOOLEAN
  BY <1>5
<1> QED
  BY <1>2, <1>4, <1>6, AsideStep

LEMMA ServerSetCurrentStep == Inv /\ ServerSetCurrent => Inv'
<1> SUFFICES ASSUME Inv, ServerSetCurrent
             PROVE  Inv'
  OBVIOUS
<1>1. events' \in [AllKinds -> Nat] /\ events'["grow"] = events["grow"]
  BY DEF Inv, Shapes, ServerSetCurrent
<1>2. Len(chain) \in Nat
  BY LenProperties DEF Inv, TypeOK
<1>3. /\ UNCHANGED <<follows, has, buckets, pc, base, cp, blockMap, search, windows, target>>
      /\ banned' \subseteq gone' /\ gone' \subseteq Peers
      /\ chain' \in Seq(Blocks) /\ Len(chain') >= Len(chain)
  BY <1>2 DEF Inv, TypeOK, ServerSetCurrent, net, locals
<1>4. current' = TRUE /\ quit' \in BOOLEAN /\ setting' = FALSE
  BY DEF Inv, TypeOK, ServerSetCurrent
<1>5. {current', quit', setting'} \subseteq BOOLEAN
  BY <1>4
<1> QED
  BY <1>1, <1>3, <1>5, AsideStep

LEMMA FinalizeStep ==
    ASSUME Inv, NEW b, b \in Blocks, Finalize(b)
    PROVE  Inv'
<1>1. "finalize" \in AllKinds /\ "finalize" # "grow"
  BY DEF AllKinds
<1>2. events' \in [AllKinds -> Nat] /\ events'["grow"] = events["grow"]
  BY <1>1, HappensIs DEF Inv, Shapes, Finalize
<1>3. Len(chain) \in Nat /\ chain \in Seq(Blocks)
  BY LenProperties DEF Inv, TypeOK
<1>4. chain' \in Seq(Blocks) /\ Len(chain') >= Len(chain)
  BY <1>3, AppendProperties DEF Finalize
<1>5. /\ UNCHANGED <<follows, has, buckets, pc, base, cp, blockMap, search, windows, target>>
      /\ banned' \subseteq gone' /\ gone' \subseteq Peers
      /\ {current', quit', setting'} \subseteq BOOLEAN
  BY DEF Inv, TypeOK, Finalize, net, locals
<1> QED
  BY <1>2, <1>4, <1>5, AsideStep

LEMMA LeaveStep ==
    ASSUME Inv, NEW p \in Peers, Leave(p)
    PROVE  Inv'
<1>1. events' \in [AllKinds -> Nat] /\ events'["grow"] = events["grow"]
  BY FailIs DEF Inv, Shapes, Leave
<1>2. Len(chain) \in Nat
  BY LenProperties DEF Inv, TypeOK
<1>3. /\ UNCHANGED <<follows, has, buckets, pc, base, cp, blockMap, search, windows, target>>
      /\ banned' \subseteq gone' /\ gone' \subseteq Peers
      /\ chain' \in Seq(Blocks) /\ Len(chain') >= Len(chain)
      /\ {current', quit', setting'} \subseteq BOOLEAN
  BY <1>2 DEF Inv, TypeOK, Leave, ours, locals
<1> QED
  BY <1>1, <1>3, AsideStep

LEMMA IdleStep == Inv /\ UNCHANGED vars => Inv'
<1> SUFFICES ASSUME Inv, UNCHANGED vars
             PROVE  Inv'
  OBVIOUS
<1>1. Len(chain) \in Nat
  BY LenProperties DEF Inv, TypeOK
<1>2. /\ UNCHANGED <<follows, has, buckets, pc, base, cp, blockMap, search, windows, target>>
      /\ banned' \subseteq gone' /\ gone' \subseteq Peers
      /\ chain' \in Seq(Blocks) /\ Len(chain') >= Len(chain)
      /\ {current', quit', setting'} \subseteq BOOLEAN
      /\ events' \in [AllKinds -> Nat] /\ events'["grow"] = events["grow"]
  BY <1>1 DEF Inv, TypeOK, Shapes, vars, net, ours, locals
<1> QED
  BY <1>2, AsideStep

-----------------------------------------------------------------------------
\* The inductive invariant holds in every state of every sync: whatever peers
\* answer, however requests fail and whatever connects meanwhile.
THEOREM SyncInvariant == Spec => []Inv
<1>1. Init => Inv
  BY InitInv
<1>2. Inv /\ [Next]_vars => Inv'
  <2> SUFFICES ASSUME Inv, [Next]_vars
               PROVE  Inv'
    OBVIOUS
  <2>1. CASE Sync
    BY <2>1, StartStep, NextCheckpointStep, BucketsStep, LoopStep, CheckStep, QueryStep,
       SetCurrentStep, AgreedStep, ForkPointStep, SearchFailsStep, ToForkStep, WindowStep,
       WindowsCutStep,
       ChooseStep, ChooserFailsStep, ToBestStep, SearchRacedStep, WindowFailsStep,
       WindowPanicsStep, Zenon DEF Sync
  <2>2. CASE \E p \in Peers : syncToCheckpoints(p)
    BY <2>2, CheckpointStep
  <2>3. CASE Environment
    <3>1. ASSUME NEW c \in Chains, NEW b \in Range(c), Finalize(b)
          PROVE  Inv'
      BY <3>1, FinalizeStep DEF Blocks
    <3> QED
      BY <2>3, <3>1, CloseStep, ServerSetCurrentStep, GrowStep, LeaveStep, DisconnectedStep,
         Zenon DEF Environment
  <2>4. CASE UNCHANGED vars
    BY <2>4, IdleStep
  <2> QED
    BY <2>1, <2>2, <2>3, <2>4 DEF Next
<1> QED
  BY <1>1, <1>2, PTL DEF Spec

\* findForkPoint (sync_manager.go:655) is right for any number of peers, any
\* chains and heights and any lookahead, as long as no peer connects a block
\* while it is asked.
THEOREM ForkPointAlwaysFound == Spec => []ForkPointFound
<1>1. Inv => ForkPointFound
  BY DEF Inv
<1> QED
  BY <1>1, SyncInvariant, PTL

\* Every state of the sync manager is well typed: among others, banned peers
\* are disconnected, and no bucket is empty.
THEOREM SyncTypeCorrect == Spec => []TypeOK
<1>1. Inv => TypeOK
  BY DEF Inv
<1> QED
  BY <1>1, SyncInvariant, PTL

-----------------------------------------------------------------------------
(* Where an undisturbed sync ends.                                         *)

\* Nothing from outside, valid blocks only, and no peer behind a checkpoint.
Settled ==
    /\ Undisturbed
    /\ PastCheckpoints
    /\ \A p \in Peers : Range(follows[p]) \cap Invalid = {}

\* The premises of OneChainSynced and of BestForkWins.
One == Settled /\ NoFork /\ Cardinality(Tips) <= 2
Two == Settled /\ SidesFilled

\* The second only says something until we are beyond the fork.
Early == One \/ (Two /\ Height <= ForkHeight)

BestSide(p) == \A q \in Peers : Score[WindowEnd(p)] <= Score[WindowEnd(q)]

Want == base.height + Lookahead

\* Every peer has the blocks we have, as far as it has any.
Agree ==
    \A p \in Peers : \A h \in 1..Height : h <= has[p] => chain[h] = BlockAt(p, h)

BucketsAgree ==
    \A b \in buckets : \A p, q \in b : BlockAt(p, has[p]) = BlockAt(q, has[q])

Steady ==
    /\ quit = FALSE /\ setting = FALSE
    /\ Agree
    /\ BucketsAgree
    /\ Height = 0 \/ \E p \in Peers : has[p] >= Height

AtCheckpoint ==
    /\ base.height = 0
    /\ cp.index <= Len(Checkpoints) + 1
    /\ Height = IF cp.index = 1 THEN 0 ELSE Checkpoints[cp.index - 1]
    /\ cp.start = Height + 1

\* blockMap has an answer of every peer ahead of us, and nothing else.
Answers ==
    /\ \A id \in DOMAIN blockMap : /\ Answer(blockMap[id], Want) = id
                                   /\ has[blockMap[id]] > base.height
    /\ \A p \in Peers : has[p] > base.height => Answer(p, Want) \in DOMAIN blockMap

Sides ==
    /\ LowEnd(search.mid, search.id)
    /\ \E p, q \in Asked : Forks(p, q, search.mid + 1)
    /\ \A id \in Rivals : windows[id] = EvalWindow(blockMap[id])

Aim ==
    /\ target.peer \in Peers \ gone
    /\ Height < target.height
    /\ target.height <= has[target.peer]
    /\ target.id = BlockAt(target.peer, target.height)
    /\ One => gone = {}
    /\ Two /\ Height <= ForkHeight => Height = ForkHeight /\ BestSide(target.peer)

Placed ==
    /\ current = TRUE => pc = "done" /\ \A p \in Peers : has[p] <= Height
    /\ pc # "sync" => gone = {}
    /\ pc = "start" => chain = <<>>
    /\ pc = "checkpoints" => AtCheckpoint
    /\ pc \in {"query", "tip", "straight", "search", "catchup"} =>
          base.height = Height /\ base.tip = Tip
    /\ pc = "tip" => \A p \in Peers : has[p] <= Height
    /\ pc \in {"straight", "search", "catchup", "window", "choose"} => Answers
    /\ pc = "straight" => \A x, y \in DOMAIN blockMap : x = y
    /\ pc \in {"search", "catchup", "window", "choose"} => search.hi <= Want
    /\ pc = "catchup" => search.mid > base.height
    /\ pc \in {"window", "choose"} => Height = search.mid /\ base.height <= search.mid
    /\ pc = "choose" => Sides
    /\ pc = "sync" => Aim

Calm == Early => Steady /\ Placed

BeyondFork ==
    \E p \in Peers : chain[ForkHeight + 1] = BlockAt(p, ForkHeight + 1) /\ BestSide(p)

Beyond == Two /\ Height > ForkHeight => BeyondFork

-----------------------------------------------------------------------------
(* The highest peer and the fork.                                          *)

\* Finitely many numbers have a bound.
LEMMA FiniteBound ==
    ASSUME NEW T \in SUBSET Nat, IsFiniteSet(T)
    PROVE  \E n \in Nat : \A x \in T : x <= n
<1> DEFINE Bounded(S) == \E n \in Nat : \A x \in S : x <= n
           Bad == {c \in Nat : \E S \in SUBSET Nat : /\ IsFiniteSet(S)
                                                     /\ Cardinality(S) = c
                                                     /\ ~Bounded(S)}
<1> SUFFICES ASSUME ~Bounded(T)
             PROVE  FALSE
  OBVIOUS
<1> HIDE DEF Bounded
<1>1. Cardinality(T) \in Bad
  BY FS_CardinalityType
<1>2. PICK c \in Bad : \A y \in Bad : c <= y
  <2>1. Bad \in SUBSET Nat
    OBVIOUS
  <2> HIDE DEF Bad
  <2> QED
    BY <1>1, <2>1, LeastNat
<1>3. PICK S \in SUBSET Nat : IsFiniteSet(S) /\ Cardinality(S) = c /\ ~Bounded(S)
  BY <1>2
<1>4. S # {}
  <2>1. S = {} => Bounded(S)
    BY DEF Bounded
  <2> QED
    BY <2>1, <1>3
<1>5. PICK x \in S : TRUE
  BY <1>4
<1>6. IsFiniteSet(S \ {x}) /\ Cardinality(S \ {x}) = c - 1 /\ c \in Nat
  BY <1>3, <1>5, FS_RemoveElement, FS_CardinalityType
<1>7. c - 1 \in Nat
  BY <1>6, FS_CardinalityType
<1>8. c - 1 \notin Bad
  BY <1>2, <1>6
<1>9. Bounded(S \ {x})
  BY <1>3, <1>6, <1>7, <1>8
<1>10. PICK n \in Nat : \A y \in S \ {x} : y <= n
  BY <1>9 DEF Bounded
<1>11. PICK m \in Nat : m >= n /\ m >= x
  <2>1. x \in Nat
    BY <1>3, <1>5
  <2> QED
    BY <2>1
<1>12. \A y \in S : y <= m
  <2> TAKE y \in S
  <2>1. y \in Nat
    BY <1>3
  <2> QED
    BY <2>1, <1>10, <1>11
<1> QED
  BY <1>3, <1>12 DEF Bounded

LEMMA HighestIs ==
    ASSUME TypeOK
    PROVE  /\ Highest \in Nat
           /\ \A p \in Peers : has[p] <= Highest
           /\ Highest = 0 \/ \E p \in Peers : has[p] = Highest
<1> DEFINE T == {has[p] : p \in Peers}
           S == {0} \cup T
<1>1. T \in SUBSET Nat
  BY DEF TypeOK
<1>2. IsFiniteSet(T)
  <2> DEFINE f == [p \in Peers |-> has[p]]
  <2>1. f \in Surjection(Peers, T)
    BY Zenon DEF Surjection
  <2> HIDE DEF f, T
  <2> QED
    BY <2>1, FS_Surjection, SyncAssumption
<1>3. PICK n \in Nat : \A x \in T : x <= n
  <2> HIDE DEF T
  <2> QED
    BY <1>1, <1>2, FiniteBound
<1>4. S \in SUBSET (0..n) /\ 0 \in S
  BY <1>1, <1>3
<1>5. Max(S) \in S /\ \A y \in S : Max(S) >= y
  <2> HIDE DEF S
  <2> QED
    BY <1>4, MaxUpto
<1>6. Highest = Max(S)
  BY DEF Highest
<1>7. Highest \in S /\ \A y \in S : Highest >= y
  BY <1>5, <1>6, Zenon
<1>8. Highest \in Nat
  BY <1>1, <1>7
<1>9. \A p \in Peers : has[p] <= Highest
  BY <1>1, <1>7, <1>8
<1> QED
  BY <1>7, <1>8, <1>9

\* What all peers have in common ends at ForkHeight.
LEMMA ForkHeightIs ==
    ASSUME TypeOK
    PROVE  /\ ForkHeight \in Nat
           /\ \A p \in Peers : has[p] >= ForkHeight
           /\ \A p, q \in Peers : BlockAt(p, ForkHeight) = BlockAt(q, ForkHeight)
           /\ \A h \in Nat :
                 (/\ Peers # {}
                  /\ \A p \in Peers : has[p] >= h
                  /\ \A p, q \in Peers : BlockAt(p, h) = BlockAt(q, h))
                 => h <= ForkHeight
<1>1. Highest \in Nat /\ \A p \in Peers : has[p] \in Nat /\ has[p] <= Highest
  BY HighestIs, HasIs
<1>2. \A p, q \in Peers : Min({has[p], has[q]}) = IF has[p] <= has[q] THEN has[p] ELSE has[q]
  BY <1>1, MinOfTwo
<1>3. \A h \in Nat : h \in Common <=>
          /\ h <= Highest
          /\ \A p \in Peers : has[p] >= h
          /\ \A p, q \in Peers : BlockAt(p, h) = BlockAt(q, h)
  <2> TAKE h \in Nat
  <2>1. h \in Common <=> h <= Highest /\ \A p, q \in Peers :
             Min({has[p], has[q]}) >= h /\ BlockAt(p, h) = BlockAt(q, h)
    BY <1>1 DEF Common
  <2>2. (\A p, q \in Peers : Min({has[p], has[q]}) >= h) <=> (\A p \in Peers : has[p] >= h)
    BY <1>1, <1>2
  <2> QED
    BY <2>1, <2>2, Zenon
<1>4. 0 \in Common
  BY <1>1, <1>3 DEF BlockAt
<1>5. Common \in SUBSET (0..Highest)
  BY DEF Common
<1>6. ForkHeight \in Common /\ \A h \in Common : ForkHeight >= h
  BY <1>1, <1>4, <1>5, MaxUpto DEF ForkHeight
<1>7. ForkHeight \in Nat
  BY <1>1, <1>5, <1>6
<1>8. ASSUME NEW h \in Nat, Peers # {}, \A p \in Peers : has[p] >= h,
             \A p, q \in Peers : BlockAt(p, h) = BlockAt(q, h)
      PROVE  h <= ForkHeight
  <2>1. PICK p \in Peers : TRUE
    BY <1>8
  <2>2. h <= Highest
    BY <1>1, <1>8, <2>1
  <2>3. h \in Common
    BY <2>2, <1>3, <1>8
  <2> QED
    BY <2>3, <1>6, <1>7
<1> QED
  BY <1>3, <1>6, <1>7, <1>8

\* All of this is about the network alone.
LEMMA NetworkOnly ==
    ASSUME UNCHANGED <<follows, has>>
    PROVE  /\ \A p, h : BlockAt(p, h)' = BlockAt(p, h) /\ Answer(p, h)' = Answer(p, h)
           /\ \A p, q, h : Forks(p, q, h)' = Forks(p, q, h)
           /\ ForkHeight' = ForkHeight
           /\ \A p : WindowEnd(p)' = WindowEnd(p)
           /\ \A p : BestSide(p)' <=> BestSide(p)
           /\ SidesFilled' <=> SidesFilled
           /\ PastCheckpoints' <=> PastCheckpoints
           /\ NoFork' <=> NoFork
           /\ Tips' = Tips
<1>1. \A p, h : BlockAt(p, h)' = BlockAt(p, h) /\ Answer(p, h)' = Answer(p, h)
  BY DEF BlockAt, Answer
<1>2. \A p, q, h : Forks(p, q, h)' = Forks(p, q, h)
  BY <1>1 DEF Forks
<1>3. Highest' = Highest
  <2>1. {has'[p] : p \in Peers} = {has[p] : p \in Peers}
    OBVIOUS
  <2> QED
    BY <2>1 DEF Highest
<1>4. Common' = Common
  BY <1>1, <1>3 DEF Common
<1>5. ForkHeight' = ForkHeight
  BY <1>4 DEF ForkHeight
<1>6. \A p : WindowEnd(p)' = WindowEnd(p)
  BY <1>1, <1>5 DEF WindowEnd
<1>7. \A p : BestSide(p)' <=> BestSide(p)
  BY <1>6 DEF BestSide
<1>8. SidesFilled' <=> SidesFilled
  BY <1>1, <1>5, <1>6 DEF SidesFilled
<1>9. PastCheckpoints' <=> PastCheckpoints
  BY <1>1 DEF PastCheckpoints, CheckpointID
<1>10. NoFork' <=> NoFork
  BY <1>1 DEF NoFork
<1>11. Tips' = Tips
  BY <1>1 DEF Tips
<1> QED
  BY <1>1, <1>2, <1>5, <1>6, <1>7, <1>8, <1>9, <1>10, <1>11

-----------------------------------------------------------------------------
(* Without a disturbance.                                                  *)

LEMMA Quiet ==
    ASSUME events \in [AllKinds -> Nat], NEW k \in AllKinds, NEW n \in Nat, Happens(k, n),
           Undisturbed'
    PROVE  n = 0 /\ UNCHANGED events
<1>1. /\ events' = [events EXCEPT ![k] = @ + n]
      /\ events' = [j \in AllKinds |-> IF j = k THEN events[j] + n ELSE events[j]]
  BY DEF Happens
<1>2. events[k] \in Nat /\ events'[k] = events[k] + n /\ events'[k] = 0
  BY <1>1 DEF Undisturbed
<1>3. n = 0
  BY <1>2
<1>4. \A j \in AllKinds : events'[j] = events[j]
  BY <1>1, <1>3
<1> QED
  BY <1>1, <1>3, <1>4

LEMMA QuietFail ==
    ASSUME events \in [AllKinds -> Nat], NEW n \in Nat, Fail(n), Undisturbed'
    PROVE  n = 0 /\ UNCHANGED events
<1>1. "fail" \in AllKinds
  BY DEF AllKinds
<1> QED
  BY <1>1, Quiet DEF Fail

LEMMA QuietFailed ==
    ASSUME events \in [AllKinds -> Nat], Undisturbed'
    PROVE  ~Failed
BY QuietFail DEF Failed

\* Nobody's answer is missing.
LEMMA QuietQuery ==
    ASSUME events \in [AllKinds -> Nat], NEW R, Queried(R), Undisturbed'
    PROVE  R = Connected /\ UNCHANGED events
<1>1. Connected \ R \in SUBSET Peers
  BY DEF Connected
<1>2. IsFiniteSet(Connected \ R) /\ Cardinality(Connected \ R) \in Nat
  BY <1>1, FS_Subset, FS_CardinalityType, SyncAssumption
<1>3. Cardinality(Connected \ R) = 0 /\ UNCHANGED events
  BY <1>2, QuietFail DEF Queried
<1>4. Connected \ R = {}
  BY <1>2, <1>3, FS_EmptySet
<1> QED
  BY <1>3, <1>4 DEF Queried

\* Our chain is only extended.
Extended ==
    /\ Len(chain') >= Len(chain)
    /\ \A h \in 1..Len(chain) : chain'[h] = chain[h]

LEMMA ExtendedBy ==
    ASSUME chain \in Seq(Blocks), NEW hs \in Seq(Blocks), NEW n \in 0..Len(hs),
           chain' = chain \o SubSeq(hs, 1, n)
    PROVE  Extended
<1>1. Len(hs) \in Nat /\ \A i \in 1..Len(hs) : hs[i] \in Blocks
  BY LenProperties
<1>2. SubSeq(hs, 1, n) \in Seq(Blocks)
  BY <1>1, SubSeqProperties
<1>3. /\ Len(chain') = Len(chain) + Len(SubSeq(hs, 1, n))
      /\ \A h \in 1..Len(chain) : chain'[h] = chain[h]
  BY <1>2, ConcatProperties
<1> QED
  BY <1>2, <1>3, LenProperties DEF Extended

LEMMA SyncExtends ==
    ASSUME TypeOK, Shapes, NEW p \in Peers, NEW a \in Nat \ {0}, NEW b \in Nat,
           NEW parent, NEW expected, NEW fast,
           syncBlocks(p, a, b, parent, expected, fast, TRUE, TRUE)
    PROVE  /\ Extended
           /\ Undisturbed' => UNCHANGED events
<1>1. PICK hs \in Seq(Blocks) : Connects(p, hs)
  BY SyncConnects
<1>2. chain \in Seq(Blocks) /\ events \in [AllKinds -> Nat] /\ Len(chain) \in Nat
  BY LenProperties DEF TypeOK, Shapes
<1>3. Extended
  <2>1. CASE UNCHANGED chain
    BY <2>1, <1>2 DEF Extended
  <2>2. CASE \E i \in 0..Len(hs) : chain' = chain \o SubSeq(hs, 1, i)
    BY <2>2, <1>1, <1>2, ExtendedBy
  <2> QED
    BY <2>1, <2>2, <1>1 DEF Connects
<1> QED
  BY <1>1, <1>2, <1>3, QuietFailed DEF Connects

\* What stays the same in a step from outside which nothing comes.
LEMMA Still ==
    ASSUME Inv, [Next]_vars, Undisturbed'
    PROVE  /\ UNCHANGED <<follows, has, events>>
           /\ Extended
<1>0. events \in [AllKinds -> Nat] /\ chain \in Seq(Blocks) /\ Len(chain) \in Nat
  BY LenProperties DEF Inv, Shapes, TypeOK
<1>1. UNCHANGED chain => Extended
  BY <1>0 DEF Extended
<1>2. {"fail", "grow", "finalize", "close"} \subseteq AllKinds
  BY DEF AllKinds
<1>3. \A k \in AllKinds : ~Happens(k, 1)
  BY <1>0, Quiet
<1>4. ~Fail(1)
  BY <1>2, <1>3 DEF Fail
<1>5. CASE \/ Start \/ NextCheckpoint \/ Loop \/ Check \/ SetCurrent \/ findForkPoint
           \/ downloadEvalWindow \/ ServerSetCurrent \/ UNCHANGED vars \/ ChooseFork
           \/ (\E p \in Peers : bucketPeerDisconnected(p))
  <2>1. UNCHANGED <<follows, has, chain, events>>
    BY <1>5 DEF Start, NextCheckpoint, Loop, Check, SetCurrent, findForkPoint, ChooseFork,
       downloadEvalWindow, ServerSetCurrent, vars, bucketPeerDisconnected, net, ours
  <2> QED
    BY <2>1, <1>1
<1>6. CASE populatePeerBuckets \/ queryPeersForBlockID
  <2>1. UNCHANGED <<follows, has, chain>> /\ \E R : Queried(R)
    BY <1>6 DEF populatePeerBuckets, queryPeersForBlockID, net, ours
  <2> QED
    BY <2>1, <1>0, <1>1, QuietQuery
<1>7. CASE SearchFails \/ ChooserFails \/ \E p \in Peers : WindowFails(p)
  <2>1. UNCHANGED <<follows, has, chain, events>>
    BY <1>7, <1>4 DEF SearchFails, ChooserFails, WindowFails, net, ours
  <2> QED
    BY <2>1, <1>1
<1>80. CASE WindowsCut
  BY <1>80, <1>0, WindowsFailed, QuietFailed DEF Inv
<1>8. CASE \/ \E p \in Peers : SearchRaced(p) \/ WindowPanics(p) \/ Grow(p) \/ Leave(p)
           \/ Close \/ \E c \in Chains : \E b \in Range(c) : Finalize(b)
  BY <1>8, <1>2, <1>3, <1>4, Zenon
     DEF SearchRaced, WindowPanics, Grow, Leave, Close, Finalize
<1>9. CASE SyncAgreed
  <2>1. PICK id \in DOMAIN blockMap :
            syncBlocks(blockMap[id], base.height + 1, base.height + Lookahead,
                       base.tip, id, FALSE, TRUE, TRUE)
    BY <1>9 DEF SyncAgreed
  <2>2. blockMap[id] \in Peers
    BY DEF Inv, TypeOK, Range
  <2>3. base.height + 1 \in Nat \ {0} /\ base.height + Lookahead \in Nat
    BY SyncAssumption DEF Inv, Shapes
  <2>4. UNCHANGED <<follows, has>>
    BY <1>9 DEF SyncAgreed
  <2> QED
    BY <2>1, <2>2, <2>3, <2>4, SyncExtends DEF Inv
<1>10. CASE SyncToFork
  <2>1. PICK p \in Range(blockMap) :
            syncBlocks(p, base.height + 1, search.mid, base.tip, search.id, FALSE,
                       Goto("window"), Goto("loop"))
    BY <1>10 DEF SyncToFork
  <2>2. syncBlocks(p, base.height + 1, search.mid, base.tip, search.id, FALSE, TRUE, TRUE)
    BY <2>1, Zenon DEF syncBlocks, syncHeaders
  <2>3. p \in Peers /\ base.height + 1 \in Nat \ {0} /\ search.mid \in Nat
    BY DEF Inv, TypeOK, Shapes, Searches
  <2>4. UNCHANGED <<follows, has>>
    BY <1>10 DEF SyncToFork
  <2> QED
    BY <2>2, <2>3, <2>4, SyncExtends DEF Inv
<1>11. CASE SyncToBest
  <2>1. syncBlocks(target.peer, Height + 1, target.height, Tip, target.id, FALSE, TRUE, TRUE)
    BY <1>11 DEF SyncToBest
  <2>2. target.peer \in Peers /\ Height + 1 \in Nat \ {0} /\ target.height \in Nat
    BY <1>0, <1>11 DEF Inv, Shapes, SyncToBest, Height
  <2>3. UNCHANGED <<follows, has>>
    BY <1>11 DEF SyncToBest
  <2> QED
    BY <2>1, <2>2, <2>3, SyncExtends DEF Inv
<1>12. CASE \E p \in Peers : syncToCheckpoints(p)
  <2>1. PICK p \in Peers : syncToCheckpoints(p)
    BY <1>12
  <2> DEFINE height == Checkpoints[cp.index]
             ok == cp' = [index |-> cp.index + 1, start |-> height + 1]
  <2>2. /\ cp.index <= Len(Checkpoints)
        /\ syncBlocks(p, cp.start, height, CheckpointID(cp.index - 1),
                      CheckpointID(cp.index), TRUE, ok, UNCHANGED cp)
        /\ UNCHANGED <<follows, has>>
    BY <2>1 DEF syncToCheckpoints
  <2>3. syncBlocks(p, cp.start, height, CheckpointID(cp.index - 1),
                   CheckpointID(cp.index), TRUE, TRUE, TRUE)
    <3> HIDE DEF ok, height
    <3> QED
      BY <2>2, Zenon DEF syncBlocks, syncHeaders
  <2>4. cp.index \in Nat \ {0} /\ cp.start \in Nat \ {0}
    BY DEF Inv, Shapes
  <2>5. height \in Nat
    <3>1. cp.index \in 1..Len(Checkpoints)
      BY <2>2, <2>4, SyncAssumption, LenProperties
    <3> QED
      BY <3>1, SyncAssumption, ElementOfSeq
  <2> HIDE DEF height
  <2> QED
    BY <2>2, <2>3, <2>4, <2>5, SyncExtends DEF Inv
<1>13. Sync => \/ Start \/ NextCheckpoint \/ populatePeerBuckets
               \/ Loop \/ Check \/ queryPeersForBlockID
               \/ SetCurrent \/ SyncAgreed \/ findForkPoint \/ SearchFails \/ SyncToFork
               \/ downloadEvalWindow \/ WindowsCut \/ ChooseFork \/ ChooserFails
               \/ SyncToBest
               \/ (\E p \in Peers : SearchRaced(p) \/ WindowPanics(p) \/ Grow(p) \/ Leave(p))
               \/ (\E p \in Peers : WindowFails(p))
  BY Zenon DEF Sync
<1>14. Environment => \/ Close \/ ServerSetCurrent
                      \/ (\E c \in Chains : \E b \in Range(c) : Finalize(b))
                      \/ (\E p \in Peers : SearchRaced(p) \/ WindowPanics(p) \/ Grow(p) \/ Leave(p))
                      \/ (\E p \in Peers : bucketPeerDisconnected(p))
  BY Zenon DEF Environment
<1> QED
  BY <1>5, <1>6, <1>7, <1>80, <1>8, <1>9, <1>10, <1>11, <1>12, <1>13, <1>14, Zenon DEF Next

-----------------------------------------------------------------------------
(* A sync from a peer whose headers fit.                                   *)

\* The call of syncBlocks from our tip to what is its last block below b.
Fits(p, b, n, parent, expected, fast) ==
    /\ p \in Peers \ gone
    /\ b \in Nat /\ Height < b
    /\ has[p] > Height
    /\ n = IF b <= has[p] THEN b ELSE has[p]
    /\ parent = BlockAt(p, Height)
    /\ expected = BlockAt(p, n)
    /\ fast = TRUE \/ Range(follows[p]) \cap Invalid = {}

LEMMA FittingHeaders ==
    ASSUME TypeOK, NEW p, NEW b, NEW n, NEW parent, NEW expected, NEW fast \in BOOLEAN,
           Fits(p, b, n, parent, expected, fast),
           NEW hs, hs = downloadHeaders(p, Height + 1, b)
    PROVE  /\ hs = SubSeq(follows[p], Height + 1, n)
           /\ hs \in Seq(Blocks) /\ Len(hs) = n - Height
           /\ Height \in Nat /\ n \in Nat /\ Height < n /\ n <= has[p]
           /\ \A i \in 1..Len(hs) : hs[i] = BlockAt(p, Height + i)
           /\ Connectable(hs, Height + 1, fast) = Len(hs)
<1>1. /\ p \in Peers /\ Height \in Nat /\ b \in Nat /\ Height < b /\ has[p] > Height
      /\ n = IF b <= has[p] THEN b ELSE has[p]
  BY TipIs DEF Fits, TypeOK
<1>2. /\ follows[p] \in Chains /\ has[p] \in Nat /\ has[p] <= Len(follows[p])
      /\ Len(follows[p]) \in Nat
  BY <1>1, HasIs
<1>3. Max({Height + 1, b}) = b
  <2>1. Height + 1 \in Int /\ b \in Int /\ (Height + 1 >= b => b = Height + 1)
    BY <1>1
  <2>2. Max({Height + 1, b}) = IF Height + 1 >= b THEN Height + 1 ELSE b
    BY <2>1, MaxOfTwo
  <2> QED
    BY <2>1, <2>2
<1>4. Min({b, has[p]}) = n
  BY <1>1, <1>2, MinOfTwo
<1>5. hs = SubSeq(follows[p], Height + 1, n)
  BY <1>3, <1>4 DEF downloadHeaders
<1>6. n \in Nat /\ Height < n /\ n <= has[p] /\ n <= Len(follows[p])
  BY <1>1, <1>2
<1>7. \A i \in (Height + 1)..n : follows[p][i] \in Blocks
  BY <1>1, <1>2, <1>6, ChainIs
<1>8. /\ hs \in Seq(Blocks) /\ Len(hs) = n - Height
      /\ \A i \in 1..Len(hs) : hs[i] = follows[p][Height + i]
  <2>1. /\ Height + 1 \in Int /\ n \in Int /\ Height + 1 <= n + 1
        /\ n - (Height + 1) + 1 = n - Height
    BY <1>1, <1>6
  <2>2. /\ SubSeq(follows[p], Height + 1, n) \in Seq(Blocks)
        /\ Len(SubSeq(follows[p], Height + 1, n)) = n - (Height + 1) + 1
        /\ \A i \in 1..(n - (Height + 1) + 1) :
              SubSeq(follows[p], Height + 1, n)[i] = follows[p][Height + 1 + i - 1]
    BY <2>1, <1>7, SubSeqProperties
  <2>3. \A i \in 1..(n - Height) : Height + 1 + i - 1 = Height + i
    BY <1>1, <1>6
  <2> QED
    BY <2>1, <2>2, <2>3, <1>5
<1>9. \A i \in 1..Len(hs) : hs[i] = BlockAt(p, Height + i)
  BY <1>1, <1>6, <1>8 DEF BlockAt
<1>10. Connectable(hs, Height + 1, fast) = Len(hs)
  <2> DEFINE S == {m \in 0..Len(hs) : fast \/ \A i \in 1..m : hs[i] \notin Invalid}
  <2>1. Len(hs) \in Nat
    BY <1>8, LenProperties
  <2>2. fast \/ \A i \in 1..Len(hs) : hs[i] \notin Invalid
    <3>1. CASE Range(follows[p]) \cap Invalid = {}
      <4>1. \A i \in 1..Len(hs) : hs[i] \in Range(follows[p])
        <5> TAKE i \in 1..Len(hs)
        <5>1. Height + i \in DOMAIN follows[p]
          BY <1>1, <1>2, <1>6, <1>8, ChainIs
        <5> QED
          BY <5>1, <1>8 DEF Range
      <4> QED
        BY <4>1, <3>1
    <3> QED
      BY <3>1 DEF Fits
  <2>3. Len(hs) \in S
    BY <2>1, <2>2
  <2>4. S \in SUBSET (0..Len(hs))
    OBVIOUS
  <2>5. Max(S) \in S /\ Max(S) >= Len(hs)
    <3> HIDE DEF S
    <3> QED
      BY <2>1, <2>3, <2>4, MaxUpto
  <2>6. Max(S) \in 0..Len(hs)
    BY <2>4, <2>5
  <2>7. Max(S) = Len(hs)
    <3> HIDE DEF S
    <3> QED
      BY <2>1, <2>5, <2>6
  <2>8. Connectable(hs, Height + 1, fast) = Max(S)
    BY DEF Connectable
  <2> QED
    BY <2>7, <2>8
<1> QED
  BY <1>1, <1>5, <1>6, <1>8, <1>9, <1>10

\* The ways in which syncBlocks fails.
LEMMA SyncErrors ==
    ASSUME NEW p, NEW a, NEW b, NEW parent, NEW expected, NEW fast,
           syncBlocks(p, a, b, parent, expected, fast, FALSE, TRUE)
    PROVE  \/ Failed \/ p \in gone \/ downloadHeaders(p, a, b) = <<>>
           \/ LastOf(downloadHeaders(p, a, b)) # expected \/ BlockAt(p, a - 1) # parent
           \/ Connectable(downloadHeaders(p, a, b), a, fast) < Len(downloadHeaders(p, a, b))
<1>1. PICK all : all = downloadHeaders(p, a, b)
  OBVIOUS
<1>2. \A n \in {0, 1} : /\ n = 1 /\ Lost(n) => Failed
                        /\ Fail(n + 1) => Failed
  BY LostIs
<1>3. CASE Fail(1) \/ p \in gone \/ all = <<>>
  BY <1>1, <1>3 DEF Failed
<1>4. CASE syncHeaders(p, all, 0, a, parent, expected, fast, FALSE, TRUE)
  <2>1. \/ all[Len(all)] # expected \/ BlockAt(p, a - 1) # parent
        \/ Connectable(all, a, fast) < Len(all)
        \/ Fail(0 + 1)
    BY <1>4, Zenon DEF syncHeaders
  <2> QED
    BY <1>1, <1>2, <2>1 DEF LastOf
<1>5. CASE \E k \in 1..(Len(all) - 1) :
              syncHeaders(p, SubSeq(all, 1, k), 1, a, parent, expected, fast, FALSE, TRUE)
  <2>1. Lost(1) \/ Fail(1 + 1)
    BY <1>5, Zenon DEF syncHeaders
  <2> QED
    BY <1>2, <2>1
<1> QED
  BY <1>1, <1>3, <1>4, <1>5, Zenon DEF syncBlocks

\* It does not fail ...
LEMMA FittingSucceeds ==
    ASSUME TypeOK, Shapes, Undisturbed',
           NEW p, NEW b, NEW n, NEW parent, NEW expected, NEW fast \in BOOLEAN,
           Fits(p, b, n, parent, expected, fast),
           syncBlocks(p, Height + 1, b, parent, expected, fast, FALSE, TRUE)
    PROVE  FALSE
<1>1. PICK hs : hs = downloadHeaders(p, Height + 1, b)
  OBVIOUS
<1>2. /\ hs \in Seq(Blocks) /\ Len(hs) = n - Height
      /\ Height \in Nat /\ n \in Nat /\ Height < n /\ n <= has[p]
      /\ \A i \in 1..Len(hs) : hs[i] = BlockAt(p, Height + i)
      /\ Connectable(hs, Height + 1, fast) = Len(hs)
  BY <1>1, FittingHeaders
<1>3. p \in Connected /\ p \notin gone
  BY DEF Fits, Connected
<1>4. ~Failed
  BY QuietFailed DEF Shapes
<1>5. hs # <<>>
  BY <1>2
<1>6. hs[Len(hs)] = expected /\ BlockAt(p, Height + 1 - 1) = parent
  <2>1. Len(hs) \in 1..Len(hs) /\ Height + Len(hs) = n /\ Height + 1 - 1 = Height
    BY <1>2
  <2> QED
    BY <2>1, <1>2 DEF Fits
<1>7. ~(Len(hs) < Len(hs))
  BY <1>2
<1>8. LastOf(hs) = expected
  BY <1>6 DEF LastOf
<1>9. PICK a : a = Height + 1
  OBVIOUS
<1>10. syncBlocks(p, a, b, parent, expected, fast, FALSE, TRUE)
  BY <1>9
<1>11. \/ Failed \/ p \in gone \/ hs = <<>>
      \/ LastOf(hs) # expected \/ BlockAt(p, a - 1) # parent
      \/ Connectable(hs, a, fast) < Len(hs)
  BY <1>1, <1>9, <1>10, SyncErrors
<1> QED
  BY <1>2, <1>3, <1>4, <1>5, <1>6, <1>7, <1>8, <1>9, <1>11

\* ... and connects all of it.
LEMMA FittingConnects ==
    ASSUME TypeOK, Shapes, Undisturbed',
           NEW p, NEW b, NEW n, NEW parent, NEW expected, NEW fast \in BOOLEAN,
           Fits(p, b, n, parent, expected, fast),
           syncBlocks(p, Height + 1, b, parent, expected, fast, TRUE, FALSE)
    PROVE  /\ UNCHANGED <<gone, banned>>
           /\ Height \in Nat /\ n \in Nat /\ Height < n /\ n <= has[p]
           /\ Height' = n
           /\ \A h \in 1..Height : chain'[h] = chain[h]
           /\ \A h \in (Height + 1)..n : chain'[h] = BlockAt(p, h)
<1>1. PICK hs : hs = downloadHeaders(p, Height + 1, b)
  OBVIOUS
<1>2. /\ hs \in Seq(Blocks) /\ Len(hs) = n - Height
      /\ Height \in Nat /\ n \in Nat /\ Height < n /\ n <= has[p]
      /\ \A i \in 1..Len(hs) : hs[i] = BlockAt(p, Height + i)
      /\ Connectable(hs, Height + 1, fast) = Len(hs)
  BY <1>1, FittingHeaders
<1>3. hs[Len(hs)] = expected /\ BlockAt(p, Height + 1 - 1) = parent
  <2>1. Len(hs) \in 1..Len(hs) /\ Height + Len(hs) = n /\ Height + 1 - 1 = Height
    BY <1>2
  <2> QED
    BY <2>1, <1>2 DEF Fits
<1>4. UNCHANGED <<gone, banned>> /\ chain' = chain \o SubSeq(hs, 1, Len(hs))
  <2>1. ~Failed
    BY QuietFailed DEF Shapes
  <2>2. \A i \in {0, 1} : /\ i = 1 /\ Lost(i) => Failed
                          /\ Fail(i + 1) => Failed
    BY LostIs
  <2>3. ~Lost(1) /\ ~Fail(0 + 1) /\ ~Fail(1 + 1)
    BY <2>1, <2>2
  <2>4. \/ syncHeaders(p, hs, 0, Height + 1, parent, expected, fast, TRUE, FALSE)
        \/ \E k \in 1..(Len(hs) - 1) :
              syncHeaders(p, SubSeq(hs, 1, k), 1, Height + 1, parent, expected, fast,
                          TRUE, FALSE)
    BY <1>1, Zenon DEF syncBlocks
  <2>5. syncHeaders(p, hs, 0, Height + 1, parent, expected, fast, TRUE, FALSE)
    BY <2>3, <2>4, Zenon DEF syncHeaders
  <2> QED
    BY <1>2, <1>3, <2>3, <2>5, Zenon DEF syncHeaders
<1>5. chain \in Seq(Blocks) /\ Height = Len(chain)
  BY DEF TypeOK, Height
<1>6. SubSeq(hs, 1, Len(hs)) = hs
  BY <1>2
<1>7. /\ Len(chain') = Len(chain) + Len(hs)
      /\ \A h \in 1..Len(chain) : chain'[h] = chain[h]
      /\ \A h \in (Len(chain) + 1)..(Len(chain) + Len(hs)) : chain'[h] = hs[h - Len(chain)]
  BY <1>2, <1>4, <1>5, <1>6, ConcatProperties
<1>8. Height' = n
  BY <1>2, <1>5, <1>7 DEF Height
<1>9. ASSUME NEW h \in (Height + 1)..n
      PROVE  chain'[h] = BlockAt(p, h)
  <2>1. h - Height \in 1..Len(hs) /\ Height + (h - Height) = h
    BY <1>2
  <2>2. h \in (Len(chain) + 1)..(Len(chain) + Len(hs))
    BY <1>2, <1>5
  <2> QED
    BY <2>1, <2>2, <1>2, <1>5, <1>7
<1> QED
  BY <1>2, <1>4, <1>5, <1>7, <1>8, <1>9

-----------------------------------------------------------------------------
(* What agreement gives and what keeps it.                                 *)

LEMMA TipShared ==
    ASSUME TypeOK, Agree, NEW p \in Peers, has[p] >= Height
    PROVE  Tip = BlockAt(p, Height)
<1>1. Height \in Nat /\ chain \in Seq(Blocks) /\ (chain = <<>> <=> Height = 0)
  BY TipIs DEF TypeOK, Height
<1>2. CASE Height = 0
  BY <1>1, <1>2 DEF Tip, BlockAt
<1>3. CASE Height # 0
  <2>1. Height \in 1..Height
    BY <1>1, <1>3
  <2> QED
    BY <2>1, <1>1, <1>3 DEF Tip, Agree
<1> QED
  BY <1>2, <1>3

\* Whoever shares p's block at n shares all below.
LEMMA SharedBelow ==
    ASSUME TypeOK, NEW p \in Peers, NEW n \in Nat, n <= has[p],
           \A q \in Peers : has[q] >= n /\ BlockAt(q, n) = BlockAt(p, n)
    PROVE  /\ \A q \in Peers : \A h \in 1..n : BlockAt(q, h) = BlockAt(p, h)
           /\ n <= ForkHeight
<1>1. \A q \in Peers : has[q] \in Nat
  BY HasIs
<1>2. ASSUME NEW q \in Peers, NEW h \in 1..n
      PROVE  BlockAt(q, h) = BlockAt(p, h)
  <2>1. n \in 0..has[q] /\ n \in 0..has[p] /\ BlockAt(q, n) = BlockAt(p, n) /\ h \in 0..n
    BY <1>1
  <2> QED
    BY <2>1, BlockHasHeight
<1>3. n <= ForkHeight
  BY ForkHeightIs
<1> QED
  BY <1>2, <1>3

\* As long as the premises say something, p's blocks are everybody's.
LEMMA Meets ==
    ASSUME TypeOK, NEW p \in Peers, NEW n \in Nat, n <= has[p],
           One \/ (Two /\ n <= ForkHeight)
    PROVE  \A q \in Peers : \A h \in 1..n : h <= has[q] => BlockAt(q, h) = BlockAt(p, h)
<1>1. \A q \in Peers : has[q] \in Nat
  BY HasIs
<1>2. CASE One
  <2> SUFFICES ASSUME NEW q \in Peers, NEW h \in 1..n, h <= has[q]
               PROVE  BlockAt(q, h) = BlockAt(p, h)
    OBVIOUS
  <2>1. Min({has[q], has[p]}) = IF has[q] <= has[p] THEN has[q] ELSE has[p]
    BY <1>1, MinOfTwo
  <2>2. h \in 1..Min({has[q], has[p]})
    BY <1>1, <2>1
  <2> QED
    BY <2>2, <1>2 DEF One, NoFork
<1>3. CASE n <= ForkHeight
  <2>1. /\ ForkHeight \in Nat /\ ForkHeight <= has[p]
        /\ \A q \in Peers : has[q] >= ForkHeight /\ BlockAt(q, ForkHeight) = BlockAt(p, ForkHeight)
    BY ForkHeightIs
  <2>2. \A q \in Peers : \A h \in 1..ForkHeight : BlockAt(q, h) = BlockAt(p, h)
    BY <2>1, SharedBelow
  <2>3. 1..n \subseteq 1..ForkHeight
    BY <2>1, <1>3
  <2> QED
    BY <2>2, <2>3
<1> QED
  BY <1>2, <1>3

LEMMA PremisesKept ==
    ASSUME Undisturbed, Undisturbed', UNCHANGED <<follows, has>>,
           Height \in Nat, Height' \in Nat, ForkHeight \in Nat, Height <= Height'
    PROVE  /\ One' <=> One
           /\ Two' <=> Two
           /\ ForkHeight' = ForkHeight
           /\ Early' => Early
           /\ Early' => One \/ (Two /\ Height' <= ForkHeight)
<1>1. /\ ForkHeight' = ForkHeight /\ (SidesFilled' <=> SidesFilled) /\ Tips' = Tips
      /\ (PastCheckpoints' <=> PastCheckpoints) /\ (NoFork' <=> NoFork)
  BY NetworkOnly
<1>2. Settled' <=> Settled
  BY <1>1 DEF Settled
<1>3. (One' <=> One) /\ (Two' <=> Two)
  BY <1>1, <1>2 DEF One, Two
<1>4. Early' <=> One \/ (Two /\ Height' <= ForkHeight)
  BY <1>1, <1>3 DEF Early
<1> QED
  BY <1>1, <1>3, <1>4 DEF Early

LEMMA SteadyKept ==
    ASSUME Steady, UNCHANGED <<follows, has, chain, quit, setting>>, BucketsAgree'
    PROVE  Steady'
<1>1. \A p, h : BlockAt(p, h)' = BlockAt(p, h)
  BY NetworkOnly
<1>2. Height' = Height
  BY DEF Height
<1>3. Agree'
  BY <1>1, <1>2 DEF Steady, Agree
<1> QED
  BY <1>2, <1>3 DEF Steady

LEMMA BucketsKept ==
    ASSUME BucketsAgree, UNCHANGED <<follows, has>>,
           \A b \in buckets' : \E c \in buckets : b \subseteq c
    PROVE  BucketsAgree'
<1>1. \A p, h : BlockAt(p, h)' = BlockAt(p, h)
  BY NetworkOnly
<1> QED
  BY <1>1 DEF BucketsAgree

\* The blocks from our tip to n on p's chain were connected.
Along(p, n) ==
    /\ p \in Peers /\ n \in Nat
    /\ Height < n /\ n <= has[p]
    /\ Height' = n
    /\ \A h \in 1..Height : chain'[h] = chain[h]
    /\ \A h \in (Height + 1)..n : chain'[h] = BlockAt(p, h)

LEMMA AlongSteady ==
    ASSUME TypeOK, Undisturbed, Steady, NEW p, NEW n, Along(p, n),
           Undisturbed', UNCHANGED <<follows, has, buckets, quit, setting>>, Early'
    PROVE  Steady'
<1>0. Height \in Nat /\ ForkHeight \in Nat /\ has[p] \in Nat /\ n \in Nat /\ p \in Peers
  BY TipIs, ForkHeightIs, HasIs DEF TypeOK, Along
<1>1. One \/ (Two /\ n <= ForkHeight)
  BY <1>0, PremisesKept DEF Along
<1>2. \A q \in Peers : \A h \in 1..n : h <= has[q] => BlockAt(q, h) = BlockAt(p, h)
  BY <1>0, <1>1, Meets DEF Along
<1>3. \A q, h : BlockAt(q, h)' = BlockAt(q, h)
  BY NetworkOnly
<1>4. Agree'
  <2> SUFFICES ASSUME NEW q \in Peers, NEW h \in 1..n, h <= has[q]
               PROVE  chain'[h] = BlockAt(q, h)
    BY <1>3 DEF Agree, Along
  <2>1. CASE h <= Height
    <3>1. h \in 1..Height
      BY <2>1, <1>0
    <3> QED
      BY <3>1 DEF Steady, Agree, Along
  <2>2. CASE h > Height
    <3>1. h \in (Height + 1)..n
      BY <2>2, <1>0
    <3> QED
      BY <3>1, <1>2 DEF Along
  <2> QED
    BY <2>1, <2>2, <1>0
<1>5. BucketsAgree'
  BY BucketsKept DEF Steady
<1>6. \E q \in Peers : has'[q] >= Height'
  BY <1>0 DEF Along
<1> QED
  BY <1>4, <1>5, <1>6 DEF Steady

LEMMA AlongBeyond ==
    ASSUME TypeOK, NEW p, NEW n, Along(p, n), UNCHANGED <<follows, has>>,
           Height <= ForkHeight, n > ForkHeight, BestSide(p)
    PROVE  BeyondFork'
<1>0. Height \in Nat /\ ForkHeight \in Nat /\ n \in Nat /\ p \in Peers
  BY TipIs, ForkHeightIs DEF TypeOK, Along
<1>1. ForkHeight + 1 \in (Height + 1)..n
  BY <1>0
<1>2. /\ \A q, h : BlockAt(q, h)' = BlockAt(q, h)
      /\ ForkHeight' = ForkHeight
      /\ \A q : BestSide(q)' <=> BestSide(q)
  BY NetworkOnly
<1>3. chain'[ForkHeight + 1] = BlockAt(p, ForkHeight + 1)
  BY <1>1 DEF Along
<1>4. chain'[ForkHeight'+ 1] = BlockAt(p, ForkHeight + 1)' /\ BestSide(p)'
  <2>1. BlockAt(p, ForkHeight + 1)' = BlockAt(p, ForkHeight + 1)
    BY <1>2 DEF BlockAt
  <2> QED
    BY <1>2, <1>3, <2>1
<1> QED
  BY <1>0, <1>4 DEF BeyondFork

-----------------------------------------------------------------------------
(* The steps that connect nothing.                                         *)

LEMMA StartCalm ==
    ASSUME Inv, Steady, Placed, Start
    PROVE  Steady' /\ Placed'
<1>1. pc = "start" /\ chain = <<>> /\ gone = {} /\ current # TRUE
  BY DEF Start, Steady, Placed
<1>2. /\ UNCHANGED <<follows, has, gone, buckets, chain, current, setting>> /\ quit' = FALSE
      /\ base' = [height |-> Height, tip |-> Tip]
      /\ cp' = [index |-> 1, start |-> Height + 1]
      /\ pc' \in {"checkpoints", "buckets"}
  BY DEF Start, net, Goto
<1>3. Height = 0 /\ Height' = 0
  BY <1>1, <1>2 DEF Height
<1>4. BucketsAgree'
  BY <1>2, BucketsKept DEF Steady
<1>5. Steady'
  BY <1>2, <1>4, SteadyKept DEF Steady
<1>6. AtCheckpoint'
  <2>1. Len(Checkpoints) \in Nat
    BY SyncAssumption, LenProperties
  <2>2. base'.height = 0 /\ cp'.index = 1 /\ cp'.start = 1
    BY <1>2, <1>3
  <2> QED
    BY <2>1, <2>2, <1>3 DEF AtCheckpoint
<1> QED
  BY <1>1, <1>2, <1>5, <1>6 DEF Placed

LEMMA NextCheckpointCalm ==
    ASSUME Inv, Steady, Placed, NextCheckpoint
    PROVE  Steady' /\ Placed'
<1>1. pc = "checkpoints" /\ AtCheckpoint /\ gone = {} /\ current # TRUE
  BY DEF NextCheckpoint, Placed
<1>2. UNCHANGED <<follows, has, gone, buckets, chain, current, quit, setting>>
  BY DEF NextCheckpoint, net, ours
<1>3. cp.index \in Nat \ {0} /\ Len(Checkpoints) \in Nat
  BY SyncAssumption, LenProperties DEF Inv, Shapes
<1>4. ~(cp.index <= Len(Checkpoints) /\ base.height > Checkpoints[cp.index])
  <2> SUFFICES ASSUME cp.index <= Len(Checkpoints)
               PROVE  ~(0 > Checkpoints[cp.index])
    BY <1>1 DEF AtCheckpoint
  <2>1. cp.index \in 1..Len(Checkpoints)
    BY <1>3
  <2>2. Checkpoints[cp.index] \in Nat \ {0}
    BY <2>1, SyncAssumption, ElementOfSeq
  <2> QED
    BY <2>2
<1>5. pc' = "buckets"
  BY <1>3, <1>4 DEF NextCheckpoint, Goto
<1>6. Steady'
  BY <1>2, BucketsKept, SteadyKept DEF Steady
<1> QED
  BY <1>1, <1>2, <1>5, <1>6 DEF Placed

LEMMA BucketsCalm ==
    ASSUME Inv, Steady, Placed, Undisturbed', populatePeerBuckets
    PROVE  Steady' /\ Placed'
<1>1. pc = "buckets" /\ gone = {} /\ current # TRUE /\ quit = FALSE
  BY DEF populatePeerBuckets, Placed, Steady
<1>2. /\ UNCHANGED <<follows, has, gone, chain, current, quit, setting>>
      /\ pc' \in {"buckets", "loop"}
  BY <1>1 DEF populatePeerBuckets, ours, Goto
<1>3. PICK R \in SUBSET Connected :
          \/ buckets' = {{q \in R : Answer(q, has[q]) = Answer(p, has[p])} : p \in R}
          \/ UNCHANGED buckets
  BY DEF populatePeerBuckets
<1>4. R \subseteq Peers
  BY DEF Connected
<1>5. \A p \in Peers : Answer(p, has[p]) = BlockAt(p, has[p])
  BY HasIs, AnswerIs DEF Inv
<1>6. \A p, h : BlockAt(p, h)' = BlockAt(p, h)
  BY <1>2, NetworkOnly
<1>7. BucketsAgree'
  <2>1. CASE UNCHANGED buckets
    BY <2>1, <1>2, BucketsKept DEF Steady
  <2>2. CASE buckets' = {{q \in R : Answer(q, has[q]) = Answer(p, has[p])} : p \in R}
    <3> SUFFICES ASSUME NEW b \in buckets', NEW p \in b, NEW q \in b
                 PROVE  BlockAt(p, has[p]) = BlockAt(q, has[q])
      BY <1>2, <1>6 DEF BucketsAgree
    <3>1. PICK r \in R : b = {x \in R : Answer(x, has[x]) = Answer(r, has[r])}
      BY <2>2
    <3> QED
      BY <3>1, <1>4, <1>5
  <2> QED
    BY <2>1, <2>2, <1>3
<1>8. Steady'
  BY <1>2, <1>7, SteadyKept DEF Steady
<1> QED
  BY <1>1, <1>2, <1>8 DEF Placed

LEMMA LoopCalm ==
    ASSUME Inv, Steady, Placed, Loop
    PROVE  Steady' /\ Placed'
<1>1. pc = "loop" /\ gone = {} /\ current # TRUE
  BY DEF Loop, Placed
<1>2. /\ UNCHANGED <<follows, has, gone, buckets, chain, current, quit, setting>>
      /\ pc' = "check"
  BY DEF Loop, net, ours, Goto, Steady
<1>3. Steady'
  BY <1>2, BucketsKept, SteadyKept DEF Steady
<1> QED
  BY <1>1, <1>2, <1>3 DEF Placed

LEMMA CheckCalm ==
    ASSUME Inv, Steady, Placed, Check
    PROVE  Steady' /\ Placed'
<1>1. pc = "check" /\ gone = {} /\ current = FALSE
  BY DEF Check, Placed, Inv, TypeOK
<1>2. /\ UNCHANGED <<follows, has, gone, buckets, chain, current, quit, setting>>
      /\ pc' = "query"
      /\ base' = [height |-> Height, tip |-> Tip]
  BY <1>1 DEF Check, net, ours, Goto
<1>3. Steady'
  BY <1>2, BucketsKept, SteadyKept DEF Steady
<1>4. base'.height = Height' /\ base'.tip = Tip'
  BY <1>2 DEF Height, Tip
<1> QED
  BY <1>1, <1>2, <1>3, <1>4 DEF Placed

LEMMA SetCurrentCalm ==
    ASSUME Inv, Steady, Placed, SetCurrent
    PROVE  Steady' /\ Placed'
<1>1. /\ pc = "tip" /\ gone = {} /\ \A p \in Peers : has[p] <= Height
      /\ UNCHANGED <<follows, has, gone, buckets, chain, quit, setting>>
      /\ pc' = "done"
  BY DEF SetCurrent, Placed, net, Goto
<1>2. Steady'
  BY <1>1, BucketsKept, SteadyKept DEF Steady
<1>3. Height' = Height
  BY <1>1 DEF Height
<1> QED
  BY <1>1, <1>2, <1>3 DEF Placed

\* A step that changes at most the buckets, and leaves them agreeing.
LEMMA BucketsOnlyCalm ==
    ASSUME Inv, Steady, Placed, UNCHANGED <<follows, has, gone, chain, current, quit, setting,
                                       pc, base, cp, blockMap, search, windows, target>>,
           Undisturbed, Undisturbed', BucketsAgree'
    PROVE  Steady' /\ Placed'
<1>1. Steady'
  BY SteadyKept
<1>2. /\ Height' = Height /\ Tip' = Tip /\ Want' = Want /\ Asked' = Asked /\ Rivals' = Rivals
  BY DEF Height, Tip, Want, Asked, Rivals
<1>3. /\ \A p, h : BlockAt(p, h)' = BlockAt(p, h) /\ Answer(p, h)' = Answer(p, h)
      /\ \A p, q, h : Forks(p, q, h)' = Forks(p, q, h)
      /\ \A p : BestSide(p)' <=> BestSide(p)
  BY NetworkOnly
<1>4. Height \in Nat /\ ForkHeight \in Nat
  BY TipIs, ForkHeightIs DEF Inv, TypeOK
<1>5. (One' <=> One) /\ (Two' <=> Two) /\ ForkHeight' = ForkHeight
  BY <1>2, <1>4, PremisesKept
<1>6. AtCheckpoint => AtCheckpoint'
  BY <1>2 DEF AtCheckpoint
<1>7. Answers => Answers'
  BY <1>2, <1>3 DEF Answers
<1>8. Sides => Sides'
  <2>1. \A p : EvalWindow(p)' = EvalWindow(p)
    BY DEF EvalWindow, downloadHeaders
  <2> QED
    BY <1>2, <1>3, <2>1 DEF Sides, LowEnd
<1>9. Aim => Aim'
  BY <1>2, <1>3, <1>5 DEF Aim
<1> QED
  BY <1>1, <1>2, <1>6, <1>7, <1>8, <1>9 DEF Placed

LEMMA DisconnectedCalm ==
    ASSUME Inv, Steady, Placed, NEW p \in Peers, bucketPeerDisconnected(p),
           Undisturbed, Undisturbed'
    PROVE  Steady' /\ Placed'
<1>1. /\ UNCHANGED <<follows, has, gone, chain, current, quit, setting,
                     pc, base, cp, blockMap, search, windows, target>>
      /\ buckets' = {b \ {p} : b \in buckets} \ {{}}
  BY DEF bucketPeerDisconnected, ours, locals
<1>2. \A b \in buckets' : \E c \in buckets : b \subseteq c
  BY <1>1
<1>3. BucketsAgree'
  BY <1>1, <1>2, BucketsKept DEF Steady
<1> QED
  BY <1>1, <1>3, BucketsOnlyCalm

LEMMA IdleCalm ==
    ASSUME Inv, Steady, Placed, UNCHANGED vars, Undisturbed, Undisturbed'
    PROVE  Steady' /\ Placed'
<1>1. UNCHANGED <<follows, has, gone, buckets, chain, current, quit, setting,
                  pc, base, cp, blockMap, search, windows, target>>
  BY DEF vars, net, ours, locals
<1>2. BucketsAgree'
  BY <1>1, BucketsKept DEF Steady
<1> QED
  BY <1>1, <1>2, BucketsOnlyCalm

LEMMA QueryCalm ==
    ASSUME Inv, Steady, Placed, Undisturbed', queryPeersForBlockID
    PROVE  Steady' /\ Placed'
<1>1. /\ pc = "query" /\ gone = {} /\ current # TRUE
      /\ base.height = Height /\ base.tip = Tip
  BY DEF queryPeersForBlockID, Placed
<1>2. UNCHANGED <<follows, has, gone, buckets, chain, current, quit, setting, base>>
  BY DEF queryPeersForBlockID, net, ours
<1>3. Steady'
  BY <1>2, BucketsKept, SteadyKept DEF Steady
<1>4. PICK want : want = Want
  OBVIOUS
<1>5. PICK R \in SUBSET Connected :
          /\ Queried(R)
          /\ IF Enough(R)
             THEN LET ahead == {p \in R : Ahead(p, want)}
                      ids == {Answer(p, want) : p \in ahead}
                  IN  /\ \E m \in [ids -> ahead] :
                            /\ \A id \in ids : Answer(m[id], want) = id
                            /\ blockMap' = m
                      /\ search' = [lo |-> base.height,
                                    mid |-> base.height + (Lookahead \div 2),
                                    hi |-> want, id |-> NoBlock]
                      /\ Goto(IF ids = {} THEN "tip"
                              ELSE IF Cardinality(ids) = 1 THEN "straight"
                              ELSE "search")
             ELSE Goto("loop") /\ UNCHANGED <<blockMap, search>>
  BY <1>4 DEF queryPeersForBlockID, Want
<1>6. R = Peers
  BY <1>1, <1>5, QuietQuery DEF Inv, Shapes, Connected
<1>7. Height \in Nat /\ want \in Nat /\ Height < want
  BY <1>1, <1>4, TipIs, SyncAssumption DEF Inv, TypeOK, Want
<1>8. \A p \in Peers : has[p] \in Nat /\ (Ahead(p, want) <=> has[p] > Height)
  <2> TAKE p \in Peers
  <2>1. has[p] \in Nat
    BY HasIs DEF Inv
  <2>2. Min({want, has[p]}) = IF want <= has[p] THEN want ELSE has[p]
    BY <2>1, <1>7, MinOfTwo
  <2> QED
    BY <2>1, <2>2, <1>7 DEF Ahead
<1>9. CASE ~Enough(R)
  <2>1. pc' = "loop"
    BY <1>5, <1>9 DEF Goto
  <2> QED
    BY <2>1, <1>1, <1>2, <1>3 DEF Placed
<1>10. CASE Enough(R)
  <2> DEFINE ahead == {p \in R : Ahead(p, want)}
             ids == {Answer(p, want) : p \in ahead}
  <2>1. /\ blockMap' \in [ids -> ahead]
        /\ \A id \in ids : Answer(blockMap'[id], want) = id
        /\ search' = [lo |-> base.height, mid |-> base.height + (Lookahead \div 2), hi |-> want,
                      id |-> NoBlock]
        /\ pc' = IF ids = {} THEN "tip"
                 ELSE IF Cardinality(ids) = 1 THEN "straight" ELSE "search"
    BY <1>5, <1>10 DEF Goto
  <2>2. ahead = {p \in Peers : has[p] > Height}
    BY <1>6, <1>8
  <2>3. Want' = want /\ Height' = Height /\ Tip' = Tip /\ base' = base
    BY <1>2, <1>4 DEF Want, Height, Tip
  <2>4. \A p, h : Answer(p, h)' = Answer(p, h)
    BY <1>2, NetworkOnly
  <2>5. DOMAIN blockMap' = ids
    BY <2>1
  <2>6. Answers'
    <3>1. ASSUME NEW id \in ids
          PROVE  Answer(blockMap'[id], want) = id /\ has[blockMap'[id]] > base.height
      <4>1. blockMap'[id] \in ahead
        BY <2>1
      <4> QED
        BY <4>1, <2>1, <2>2, <1>1
    <3>2. ASSUME NEW p \in Peers, has[p] > base.height
          PROVE  Answer(p, want) \in ids
      BY <3>2, <2>2, <1>1
    <3> HIDE DEF ids
    <3> QED
      BY <3>1, <3>2, <2>3, <2>4, <2>5, <1>2 DEF Answers
  <2>7. pc' = "tip" => \A p \in Peers : has[p] <= Height
    <3> SUFFICES ASSUME pc' = "tip"
                 PROVE  \A p \in Peers : has[p] <= Height
      OBVIOUS
    <3>1. ids = {}
      BY <2>1
    <3>2. ahead = {}
      BY <3>1
    <3> QED
      BY <3>2, <2>2, <1>7, <1>8
  <2>8. pc' = "straight" => \A x, y \in DOMAIN blockMap' : x = y
    <3> SUFFICES ASSUME pc' = "straight"
                 PROVE  \A x, y \in ids : x = y
      BY <2>5
    <3>1. Cardinality(ids) = 1
      BY <2>1
    <3>2. ahead \in SUBSET Peers
      BY <1>6
    <3>3. IsFiniteSet(ids)
      BY <3>2, AnswersAre
    <3>4. \E x : ids = {x}
      <4> HIDE DEF ids
      <4> QED
        BY <3>1, <3>3, FS_Singleton
    <3> QED
      BY <3>4
  <2>9. pc' \in {"tip", "straight", "search"}
    BY <2>1
  <2>10. search'.hi <= Want'
    BY <2>1, <2>3, <1>7
  <2> QED
    BY <2>3, <2>6, <2>7, <2>8, <2>9, <2>10, <1>1, <1>2, <1>3 DEF Placed
<1> QED
  BY <1>9, <1>10

LEMMA ForkPointCalm ==
    ASSUME Inv, Steady, Placed, Undisturbed, findForkPoint
    PROVE  Steady' /\ Placed'
<1>1. /\ pc = "search"
      /\ search' = Narrowed(search, {Answer(p, search.mid) : p \in Asked})
      /\ pc' = IF search'.mid # search.mid THEN "search"
               ELSE IF search'.mid > base.height THEN "catchup" ELSE "window"
      /\ UNCHANGED <<follows, has, gone, banned, buckets, chain, current, quit, setting,
                     base, cp, blockMap, windows, target, events>>
  BY DEF findForkPoint, net, ours, Goto, Asked
<1>2. /\ gone = {} /\ current # TRUE /\ base.height = Height /\ base.tip = Tip
      /\ Answers /\ search.hi <= Want
  BY <1>1 DEF Placed
<1>3. Steady'
  BY <1>1, BucketsKept, SteadyKept DEF Steady
<1>4. Want' = Want /\ Height' = Height /\ Tip' = Tip
  BY <1>1 DEF Want, Height, Tip
<1>5. \A p, h : Answer(p, h)' = Answer(p, h)
  BY <1>1, NetworkOnly
<1>6. Answers'
  BY <1>1, <1>2, <1>4, <1>5 DEF Answers
<1>7. /\ search.lo \in Nat /\ search.mid \in Nat /\ search.hi \in Nat
      /\ search.lo <= search.mid /\ search.mid <= search.hi
      /\ Want \in Nat /\ base.height \in Nat
  BY SyncAssumption DEF Inv, TypeOK, Shapes, Searches, Want
<1>8. search'.hi \in {search.hi, search.mid}
  BY <1>1 DEF Narrowed
<1>9. search'.hi <= Want'
  BY <1>2, <1>4, <1>7, <1>8
<1>10. events["grow"] = 0
  BY DEF Undisturbed, AllKinds
<1>11. base.height <= search.lo
  BY <1>1, <1>10 DEF Inv, Searching
<1>12. pc' = "window" => Height' = search'.mid /\ base'.height <= search'.mid
  <2> SUFFICES ASSUME pc' = "window"
               PROVE  Height = search'.mid /\ base.height <= search'.mid
    BY <1>1, <1>4
  <2>1. search'.mid = search.mid /\ ~(search'.mid > base.height)
    BY <1>1
  <2> QED
    BY <2>1, <1>2, <1>7, <1>11
<1>13. pc' = "catchup" => search'.mid > base'.height
  BY <1>1
<1>14. pc' \in {"search", "catchup", "window"}
  BY <1>1
<1> QED
  BY <1>1, <1>2, <1>3, <1>4, <1>6, <1>9, <1>12, <1>13, <1>14 DEF Placed

LEMMA WindowCalm ==
    ASSUME Inv, Steady, Placed, Undisturbed, downloadEvalWindow
    PROVE  Steady' /\ Placed'
<1>1. /\ pc = "window" /\ pc' = "choose"
      /\ windows' = [id \in Rivals |-> EvalWindow(blockMap[id])]
      /\ UNCHANGED <<follows, has, gone, banned, buckets, chain, current, quit, setting,
                     base, cp, blockMap, search, target, events>>
  BY DEF downloadEvalWindow, Goto, net, ours
<1>2. /\ gone = {} /\ current # TRUE /\ Height = search.mid /\ base.height <= search.mid
      /\ Answers /\ search.hi <= Want
  BY <1>1 DEF Placed
<1>3. Steady'
  BY <1>1, BucketsKept, SteadyKept DEF Steady
<1>4. Want' = Want /\ Height' = Height /\ Asked' = Asked /\ Rivals' = Rivals
  BY <1>1 DEF Want, Height, Asked, Rivals
<1>5. /\ \A p, h : BlockAt(p, h)' = BlockAt(p, h) /\ Answer(p, h)' = Answer(p, h)
      /\ \A p, q, h : Forks(p, q, h)' = Forks(p, q, h)
  BY <1>1, NetworkOnly
<1>6. Answers'
  BY <1>1, <1>2, <1>4, <1>5 DEF Answers
<1>7. events["grow"] = 0
  BY DEF Undisturbed, AllKinds
<1>8. LowEnd(search.mid, search.id) /\ \E p, q \in Asked : Forks(p, q, search.mid + 1)
  BY <1>1, <1>7 DEF Inv, ForkPointFound, LowEnd, Asked
<1>9. Sides'
  <2>1. \A p : EvalWindow(p)' = EvalWindow(p)
    BY <1>1 DEF EvalWindow, downloadHeaders
  <2>2. \A id \in Rivals' : windows'[id] = EvalWindow(blockMap[id])'
    BY <2>1, <1>1, <1>4 DEF EvalWindow, downloadHeaders
  <2> QED
    BY <2>2, <1>1, <1>4, <1>5, <1>8 DEF Sides, LowEnd
<1> QED
  BY <1>1, <1>2, <1>3, <1>4, <1>6, <1>9 DEF Placed

LEMMA NoSearchFails ==
    ASSUME Inv, Placed, Undisturbed', SearchFails
    PROVE  FALSE
<1>1. gone = {}
  BY DEF SearchFails, Placed
<1>2. ~Fail(1)
  BY QuietFail DEF Inv, Shapes
<1> QED
  BY <1>1, <1>2 DEF SearchFails

\* What each side of the fork is, while it is evaluated.
LEMMA SidesAre ==
    ASSUME Inv, Agree, Answers, LowEnd(search.mid, search.id), search.hi <= Want,
           \E p, q \in Asked : Forks(p, q, search.mid + 1)
    PROVE  /\ search.mid \in Nat /\ search.mid < Want
           /\ \A id \in Rivals : blockMap[id] \in Peers /\ has[blockMap[id]] > search.mid
           /\ \A id \in DOMAIN blockMap : blockMap[id] \in Peers /\ has[blockMap[id]] >= search.mid
<1>1. /\ search.mid \in Nat /\ search.mid <= search.hi /\ search.hi \in Nat
      /\ Want \in Nat /\ base.height \in Nat /\ base.height < Want
  BY SyncAssumption DEF Inv, TypeOK, Shapes, Searches, Want
<1>2. \A id \in DOMAIN blockMap : blockMap[id] \in Asked /\ blockMap[id] \in Peers
                                  /\ has[blockMap[id]] \in Nat
  BY HasIs DEF Inv, TypeOK, Range, Asked
<1>3. \A id \in DOMAIN blockMap : Answer(blockMap[id], Want) = id
                                  /\ has[blockMap[id]] > base.height
  BY DEF Answers
<1>4. search.mid <= Want
  BY <1>1
<1>5. CASE search.mid = base.height
  BY <1>1, <1>2, <1>3, <1>5 DEF Rivals
<1>6. CASE \A p \in Asked : has[p] >= search.mid /\ BlockAt(p, search.mid) = search.id
  <2>1. ASSUME NEW id \in DOMAIN blockMap,
               has[blockMap[id]] = search.mid \/ search.mid = Want
        PROVE  id = search.id
    <3>1. Answer(blockMap[id], Want) = BlockAt(blockMap[id], search.mid)
      BY <2>1, <1>1, <1>2, <1>4, <1>6, AnswerIs DEF Inv
    <3> QED
      BY <3>1, <1>2, <1>3, <1>6
  <2>2. \A id \in Rivals : blockMap[id] \in Peers /\ has[blockMap[id]] > search.mid
    BY <2>1, <1>1, <1>2, <1>6 DEF Rivals
  <2>3. search.mid # Want
    <3> SUFFICES ASSUME search.mid = Want
                 PROVE  FALSE
      OBVIOUS
    <3>1. PICK p, q \in Asked : Forks(p, q, search.mid + 1)
      OBVIOUS
    <3>2. PICK x, y \in DOMAIN blockMap : p = blockMap[x] /\ q = blockMap[y]
      BY DEF Asked, Range
    <3>3. x = search.id /\ y = search.id
      BY <2>1
    <3> QED
      BY <3>1, <3>2, <3>3 DEF Forks
  <2> QED
    BY <2>2, <2>3, <1>1, <1>2, <1>4, <1>6
<1> QED
  BY <1>5, <1>6 DEF LowEnd

LEMMA NoWindowFails ==
    ASSUME Inv, Settled, Steady, Placed, Undisturbed', NEW p \in Peers, WindowFails(p)
    PROVE  FALSE
<1>1. /\ pc = "window" /\ gone = {} /\ Height = search.mid /\ Answers /\ search.hi <= Want
      /\ Agree
  BY DEF WindowFails, Placed, Steady
<1>2. ~Fail(1)
  BY QuietFail DEF Inv, Shapes
<1>3. PICK id \in Rivals : blockMap[id] = p
  BY DEF WindowFails
<1>4. events["grow"] = 0
  BY DEF Settled, Undisturbed, AllKinds
<1>5. LowEnd(search.mid, search.id) /\ \E x, y \in Asked : Forks(x, y, search.mid + 1)
  BY <1>1, <1>4 DEF Inv, ForkPointFound, LowEnd, Asked
<1>6. search.mid \in Nat /\ has[p] > search.mid
  BY <1>1, <1>3, <1>5, SidesAre
<1>7. Tip = BlockAt(p, search.mid)
  BY <1>1, <1>6, HasIs, TipShared DEF Inv
<1>8. Fits(p, search.mid + Window, IF search.mid + Window <= has[p] THEN search.mid + Window
                                                             ELSE has[p],
           BlockAt(p, Height),
           BlockAt(p, IF search.mid + Window <= has[p] THEN search.mid + Window ELSE has[p]),
           FALSE)
  BY <1>1, <1>6, SyncAssumption DEF Fits, Settled
<1>9. PICK w : w = EvalWindow(p)
  OBVIOUS
<1>10. w = downloadHeaders(p, Height + 1, search.mid + Window)
  BY <1>1, <1>9 DEF EvalWindow
<1>11. /\ w \in Seq(Blocks) /\ Len(w) > 0
       /\ \A i \in 1..Len(w) : w[i] = BlockAt(p, Height + i) /\ Height + i <= has[p]
       /\ Height \in Nat
  <2>1. PICK n : n = IF search.mid + Window <= has[p] THEN search.mid + Window ELSE has[p]
    OBVIOUS
  <2>2. Fits(p, search.mid + Window, n, BlockAt(p, Height), BlockAt(p, n), FALSE)
    BY <2>1, <1>8
  <2>3. /\ w \in Seq(Blocks) /\ Len(w) = n - Height
        /\ Height \in Nat /\ n \in Nat /\ Height < n /\ n <= has[p]
        /\ \A i \in 1..Len(w) : w[i] = BlockAt(p, Height + i)
    BY <2>2, <1>10, FittingHeaders DEF Inv
  <2>4. has[p] \in Nat
    BY HasIs DEF Inv
  <2> QED
    BY <2>3, <2>4
<1>12. Range(w) \cap Invalid = {}
  <2> SUFFICES ASSUME NEW i \in 1..Len(w)
               PROVE  w[i] \notin Invalid
    <3>1. DOMAIN w = 1..Len(w)
      BY <1>11, LenProperties
    <3> QED
      BY <3>1 DEF Range
  <2>1. w[i] = BlockAt(p, Height + i) /\ Height + i <= has[p] /\ Height + i # 0
    BY <1>11
  <2>2. Height + i \in 1..Len(follows[p])
    BY <2>1, <1>11, HasIs DEF Inv
  <2>3. Height + i \in DOMAIN follows[p]
    BY <2>2, HasIs, ChainIs DEF Inv
  <2>4. w[i] \in Range(follows[p])
    BY <2>1, <2>3 DEF BlockAt, Range
  <2> QED
    BY <2>4 DEF Settled
<1>13. Serves(p)
  <2>1. w # <<>>
    BY <1>11
  <2> QED
    BY <2>1, <1>1, <1>9 DEF Serves, Connected
<1>14. CalcChainScore(p, EvalWindow(p))
  BY <1>1, <1>7, <1>9, <1>12 DEF CalcChainScore
<1> QED
  BY <1>2, <1>13, <1>14 DEF WindowFails

-----------------------------------------------------------------------------
(* The steps that connect blocks.                                          *)

LEMMA FittingEither ==
    ASSUME TypeOK, Shapes, Undisturbed',
           NEW p, NEW a, a = Height + 1, NEW b, NEW n, NEW parent, NEW expected,
           NEW fast \in BOOLEAN, Fits(p, b, n, parent, expected, fast),
           \/ syncBlocks(p, a, b, parent, expected, fast, TRUE, FALSE)
           \/ syncBlocks(p, a, b, parent, expected, fast, FALSE, TRUE)
    PROVE  /\ syncBlocks(p, a, b, parent, expected, fast, TRUE, FALSE)
           /\ UNCHANGED <<gone, banned>> /\ Along(p, n)
<1>1. ~syncBlocks(p, Height + 1, b, parent, expected, fast, FALSE, TRUE)
  BY FittingSucceeds
<1>2. syncBlocks(p, a, b, parent, expected, fast, TRUE, FALSE)
  BY <1>1
<1>3. syncBlocks(p, Height + 1, b, parent, expected, fast, TRUE, FALSE)
  BY <1>2
<1>4. /\ UNCHANGED <<gone, banned>>
      /\ Height \in Nat /\ n \in Nat /\ Height < n /\ n <= has[p]
      /\ Height' = n
      /\ \A h \in 1..Height : chain'[h] = chain[h]
      /\ \A h \in (Height + 1)..n : chain'[h] = BlockAt(p, h)
  BY <1>3, FittingConnects
<1>5. p \in Peers
  BY DEF Fits
<1> QED
  BY <1>2, <1>4, <1>5 DEF Along

\* p was followed to n: within what all peers share, or on the best side.
Followed(p, n) ==
    /\ Along(p, n)
    /\ Two /\ Height <= ForkHeight => n <= ForkHeight \/ BestSide(p)

LEMMA CheckpointCalm ==
    ASSUME Inv, Settled, Steady, Placed, Undisturbed', NEW p \in Peers,
           syncToCheckpoints(p)
    PROVE  /\ UNCHANGED <<buckets, quit, setting>>
           /\ \E n : Followed(p, n)
           /\ Placed'
<1> DEFINE height == Checkpoints[cp.index]
           ok == cp' = [index |-> cp.index + 1, start |-> height + 1]
<1>1. /\ pc = "checkpoints" /\ cp.index <= Len(Checkpoints)
      /\ syncBlocks(p, cp.start, height, CheckpointID(cp.index - 1),
                    CheckpointID(cp.index), TRUE, ok, UNCHANGED cp)
      /\ UNCHANGED <<follows, has, buckets, current, quit, setting, pc, base,
                     blockMap, search, windows, target>>
  BY DEF syncToCheckpoints
<1>2. /\ \/ syncBlocks(p, cp.start, height, CheckpointID(cp.index - 1),
                       CheckpointID(cp.index), TRUE, TRUE, FALSE) /\ ok
         \/ syncBlocks(p, cp.start, height, CheckpointID(cp.index - 1),
                       CheckpointID(cp.index), TRUE, FALSE, TRUE)
  <2> HIDE DEF ok, height
  <2> QED
    BY <1>1, Zenon DEF syncBlocks, syncHeaders
<1>3. PICK i : i = cp.index
  OBVIOUS
<1>4. PICK n : n = height
  OBVIOUS
<1>5. /\ AtCheckpoint /\ gone = {} /\ current # TRUE
  BY <1>1 DEF Placed
<1>6. i \in 1..Len(Checkpoints) /\ Len(Checkpoints) \in Nat
  BY <1>1, <1>3, SyncAssumption, LenProperties DEF Inv, Shapes
<1>7. \A j \in 1..Len(Checkpoints) : j \in DOMAIN Checkpoints /\ Checkpoints[j] \in Nat \ {0}
  BY SyncAssumption, ElementOfSeq, LenProperties
<1>8. Height = (IF i = 1 THEN 0 ELSE Checkpoints[i - 1]) /\ cp.start = Height + 1
      /\ base.height = 0
  BY <1>3, <1>5 DEF AtCheckpoint
<1>9. n \in Nat /\ Height \in Nat /\ Height < n
  <2>1. n \in Nat \ {0}
    BY <1>3, <1>4, <1>6, <1>7
  <2>2. CASE i = 1
    BY <2>1, <2>2, <1>8
  <2>3. CASE i # 1
    <3>1. i - 1 \in 1..Len(Checkpoints) /\ i - 1 < i
      BY <2>3, <1>6
    <3>2. Checkpoints[i - 1] < Checkpoints[i]
      BY <3>1, <1>6, <1>7, SyncAssumption
    <3> QED
      BY <3>1, <3>2, <2>1, <2>3, <1>3, <1>4, <1>7, <1>8
  <2> QED
    BY <2>2, <2>3
<1>10. \A q \in Peers, j \in 1..Len(Checkpoints) :
          has[q] >= Checkpoints[j] /\ BlockAt(q, Checkpoints[j]) = CheckpointID(j)
  BY <1>7 DEF Settled, PastCheckpoints
<1>11. \A q \in Peers : has[q] >= n /\ BlockAt(q, n) = CheckpointID(i)
  BY <1>3, <1>4, <1>6, <1>10
<1>12. BlockAt(p, Height) = CheckpointID(i - 1)
  <2>1. CASE i = 1
    BY <2>1, <1>8 DEF CheckpointID, BlockAt
  <2>2. CASE i # 1
    <3>1. i - 1 \in 1..Len(Checkpoints)
      BY <2>2, <1>6
    <3> QED
      BY <3>1, <2>2, <1>8, <1>10
  <2> QED
    BY <2>1, <2>2
<1>13. has[p] \in Nat
  BY HasIs DEF Inv
<1>14. Fits(p, n, n, CheckpointID(i - 1), CheckpointID(i), TRUE)
  BY <1>5, <1>9, <1>11, <1>12, <1>13 DEF Fits
<1> HIDE DEF height
<1>15. /\ \/ syncBlocks(p, cp.start, n, CheckpointID(i - 1), CheckpointID(i), TRUE, TRUE, FALSE)
             /\ cp' = [index |-> i + 1, start |-> n + 1]
          \/ syncBlocks(p, cp.start, n, CheckpointID(i - 1), CheckpointID(i), TRUE, FALSE, TRUE)
  BY <1>2, <1>3, <1>4
<1>16. ~syncBlocks(p, cp.start, n, CheckpointID(i - 1), CheckpointID(i), TRUE, FALSE, TRUE)
  BY <1>8, <1>14, FittingSucceeds DEF Inv
<1>17. UNCHANGED <<gone, banned>> /\ Along(p, n)
  BY <1>8, <1>14, <1>15, FittingEither DEF Inv
<1>18. n <= ForkHeight
  <2>1. \A q \in Peers : has[q] >= n /\ BlockAt(q, n) = BlockAt(p, n)
    BY <1>11
  <2> QED
    BY <2>1, <1>9, <1>13, SharedBelow DEF Inv
<1>19. Followed(p, n)
  BY <1>17, <1>18 DEF Followed
<1>20. AtCheckpoint'
  <2>1. cp' = [index |-> i + 1, start |-> n + 1] /\ base' = base /\ Height' = n
    BY <1>1, <1>15, <1>16, <1>17 DEF Along
  <2>2. cp'.index = i + 1 /\ cp'.start = n + 1 /\ i + 1 # 1 /\ i + 1 - 1 = i
        /\ i + 1 <= Len(Checkpoints) + 1 /\ base'.height = 0
    BY <2>1, <1>6, <1>8
  <2>3. Checkpoints[i] = n
    BY <1>3, <1>4 DEF height
  <2>4. Checkpoints[cp'.index - 1] = n /\ ~(cp'.index = 1)
    <3>1. PICK j : j = cp'.index
      OBVIOUS
    <3>2. j = i + 1 /\ i \in Int
      BY <3>1, <2>2, <1>6
    <3>3. j - 1 = i /\ j # 1
      BY <3>2, <2>2
    <3>4. Checkpoints[j - 1] = n
      BY <3>3, <2>3
    <3> QED
      BY <3>1, <3>3, <3>4
  <2>5. /\ cp'.index <= Len(Checkpoints) + 1 /\ base'.height = 0
        /\ cp'.start = Height' + 1 /\ Height' = Checkpoints[cp'.index - 1]
    BY <2>1, <2>2, <2>4
  <2> QED
    BY <2>4, <2>5, Zenon DEF AtCheckpoint
<1>21. Placed'
  BY <1>1, <1>5, <1>17, <1>20 DEF Placed
<1> QED
  BY <1>1, <1>19, <1>21

\* The answers of two peers for a height are the same block of both.
LEMMA SameAnswerAt ==
    ASSUME TypeOK, NEW p \in Peers, NEW q \in Peers, NEW w \in Nat,
           Answer(p, w) = Answer(q, w),
           NEW n, n = IF w <= has[p] THEN w ELSE has[p]
    PROVE  has[q] >= n /\ BlockAt(q, n) = BlockAt(p, n) /\ n \in Nat /\ n <= has[p]
<1>1. has[p] \in Nat /\ has[q] \in Nat
  BY HasIs
<1>2. \/ has[p] >= w /\ has[q] >= w /\ BlockAt(p, w) = BlockAt(q, w)
      \/ has[p] < w /\ has[q] = has[p]
  BY SameAnswer DEF Forks
<1>3. CASE has[p] >= w /\ has[q] >= w /\ BlockAt(p, w) = BlockAt(q, w)
  BY <1>1, <1>3
<1>4. CASE has[p] < w /\ has[q] = has[p]
  <2>1. n = has[p]
    BY <1>1, <1>4
  <2>2. Answer(p, w) = BlockAt(p, n) /\ Answer(q, w) = BlockAt(q, n)
    BY <1>1, <1>4, <2>1, AnswerIs
  <2>3. BlockAt(q, n) = BlockAt(p, n)
    BY <2>2
  <2> QED
    BY <2>1, <2>3, <1>1, <1>4
<1> QED
  BY <1>2, <1>3, <1>4

\* Before the fork, everybody is ahead of us.
LEMMA AllAhead ==
    ASSUME TypeOK, Two, Height <= ForkHeight, NEW q \in Peers
    PROVE  has[q] > Height /\ has[q] \in Nat /\ Height \in Nat
<1>1. ForkHeight \in Nat /\ Height \in Nat /\ has[q] \in Nat
  BY ForkHeightIs, TipIs, HasIs DEF TypeOK
<1>2. has[q] >= ForkHeight + Window /\ Window \in Nat \ {0}
  BY SyncAssumption DEF Two, SidesFilled
<1> QED
  BY <1>1, <1>2

LEMMA AgreedCalm ==
    ASSUME Inv, Settled, Steady, Placed, Undisturbed', SyncAgreed
    PROVE  /\ UNCHANGED <<buckets, quit, setting>>
           /\ \E p, n : Followed(p, n)
           /\ Placed'
<1>1. PICK id \in DOMAIN blockMap :
          syncBlocks(blockMap[id], base.height + 1, base.height + Lookahead,
                     base.tip, id, FALSE, TRUE, TRUE)
  BY DEF SyncAgreed
<1>2. /\ UNCHANGED <<follows, has, buckets, current, quit, setting>>
      /\ pc = "straight" /\ pc' = "loop"
  BY DEF SyncAgreed, Goto
<1>3. /\ base.height = Height /\ base.tip = Tip /\ Answers /\ gone = {} /\ current # TRUE
      /\ \A x, y \in DOMAIN blockMap : x = y
  BY <1>2 DEF Placed
<1>4. PICK p : p = blockMap[id]
  OBVIOUS
<1>5. p \in Peers /\ Answer(p, Want) = id /\ has[p] > Height
  BY <1>3, <1>4 DEF Inv, TypeOK, Range, Answers
<1>6. Want = Height + Lookahead /\ Height \in Nat /\ Want \in Nat /\ has[p] \in Nat
      /\ Height < Want
  BY <1>3, <1>5, HasIs, TipIs, SyncAssumption DEF Inv, TypeOK, Want
<1>7. PICK n : n = IF Want <= has[p] THEN Want ELSE has[p]
  OBVIOUS
<1>8. id = BlockAt(p, n)
  BY <1>5, <1>6, <1>7, AnswerIs DEF Inv
<1>9. Tip = BlockAt(p, Height)
  BY <1>5, <1>6, TipShared DEF Inv, Steady
<1>10. Fits(p, Want, n, Tip, id, FALSE)
  BY <1>3, <1>5, <1>6, <1>7, <1>8, <1>9 DEF Fits, Settled
<1>11. PICK a : a = base.height + 1
  OBVIOUS
<1>12. syncBlocks(p, a, Want, base.tip, id, FALSE, TRUE, TRUE)
  BY <1>1, <1>4, <1>11 DEF Want
<1>13. \/ syncBlocks(p, a, Want, base.tip, id, FALSE, TRUE, FALSE)
       \/ syncBlocks(p, a, Want, base.tip, id, FALSE, FALSE, TRUE)
  BY <1>12, Zenon DEF syncBlocks, syncHeaders
<1>14. UNCHANGED <<gone, banned>> /\ Along(p, n)
  <2>1. a = Height + 1
    BY <1>3, <1>11
  <2>2. Fits(p, Want, n, base.tip, id, FALSE)
    BY <1>3, <1>10
  <2> QED
    BY <2>1, <2>2, <1>13, FittingEither DEF Inv
<1>15. ASSUME Two, Height <= ForkHeight
       PROVE  n <= ForkHeight
  <2>1. \A q \in Peers : Answer(q, Want) = Answer(p, Want)
    <3> TAKE q \in Peers
    <3>1. has[q] > base.height
      BY <1>3, <1>15, AllAhead DEF Inv
    <3>2. Answer(q, Want) \in DOMAIN blockMap
      BY <3>1, <1>3 DEF Answers
    <3> QED
      BY <3>2, <1>3, <1>5
  <2>2. \A q \in Peers : has[q] >= n /\ BlockAt(q, n) = BlockAt(p, n)
    BY <2>1, <1>5, <1>6, <1>7, SameAnswerAt DEF Inv
  <2>3. n \in Nat /\ n <= has[p]
    BY <1>6, <1>7
  <2> QED
    BY <2>2, <2>3, <1>5, SharedBelow DEF Inv
<1>16. Followed(p, n)
  BY <1>14, <1>15 DEF Followed
<1>17. Placed'
  BY <1>2, <1>3, <1>14 DEF Placed
<1> QED
  BY <1>2, <1>16, <1>17

\* What all peers that were asked share, all peers ahead of us share.
LEMMA AllAtFork ==
    ASSUME Inv, Answers, NEW h \in Nat, h <= Want, NEW x,
           \A p \in Asked : has[p] >= h /\ BlockAt(p, h) = x,
           NEW q \in Peers, has[q] > base.height
    PROVE  has[q] >= h /\ BlockAt(q, h) = x
<1>1. PICK id \in DOMAIN blockMap : id = Answer(q, Want)
  BY DEF Answers
<1>2. PICK p : p = blockMap[id]
  OBVIOUS
<1>3. p \in Asked /\ p \in Peers /\ Answer(p, Want) = Answer(q, Want)
  BY <1>1, <1>2 DEF Inv, TypeOK, Asked, Range, Answers
<1>4. Want \in Nat /\ has[p] \in Nat /\ has[q] \in Nat
  BY <1>3, HasIs, SyncAssumption DEF Inv, Shapes, Want
<1>5. PICK n : n = IF Want <= has[p] THEN Want ELSE has[p]
  OBVIOUS
<1>6. has[q] >= n /\ BlockAt(q, n) = BlockAt(p, n) /\ n \in Nat /\ n <= has[p]
  BY <1>3, <1>4, <1>5, SameAnswerAt DEF Inv
<1>7. h \in 0..n
  BY <1>3, <1>4, <1>5
<1>8. BlockAt(q, h) = BlockAt(p, h)
  <2>1. n \in 0..has[q] /\ n \in 0..has[p]
    BY <1>4, <1>6
  <2> QED
    BY <2>1, <1>3, <1>6, <1>7, BlockHasHeight DEF Inv
<1> QED
  BY <1>3, <1>4, <1>6, <1>7, <1>8

LEMMA ToForkCalm ==
    ASSUME Inv, Settled, Steady, Placed, Undisturbed', SyncToFork
    PROVE  /\ UNCHANGED <<buckets, quit, setting>>
           /\ \E p, n : Followed(p, n)
           /\ Placed'
<1>1. PICK p \in Range(blockMap) :
          syncBlocks(p, base.height + 1, search.mid, base.tip, search.id, FALSE,
                     Goto("window"), Goto("loop"))
  BY DEF SyncToFork
<1>2. \/ syncBlocks(p, base.height + 1, search.mid, base.tip, search.id, FALSE, TRUE, FALSE)
         /\ Goto("window")
      \/ syncBlocks(p, base.height + 1, search.mid, base.tip, search.id, FALSE, FALSE, TRUE)
  BY <1>1, Zenon DEF syncBlocks, syncHeaders
<1>3. /\ UNCHANGED <<follows, has, buckets, current, quit, setting, base, cp, blockMap,
                     search, windows, target>>
      /\ pc = "catchup"
  BY DEF SyncToFork, locals
<1>4. /\ base.height = Height /\ base.tip = Tip /\ Answers /\ gone = {} /\ current # TRUE
      /\ search.mid > base.height /\ search.hi <= Want
  BY <1>3 DEF Placed
<1>5. /\ p \in Asked /\ p \in Peers /\ has[p] \in Nat
      /\ search.mid \in Nat /\ Height \in Nat /\ search.mid <= Want
  BY <1>1, <1>4, HasIs, TipIs, SyncAssumption
     DEF Inv, TypeOK, Shapes, Searches, Asked, Want
<1>6. events["grow"] = 0
  BY DEF Settled, Undisturbed, AllKinds
<1>7. \A r \in Asked : has[r] >= search.mid /\ BlockAt(r, search.mid) = search.id
  BY <1>3, <1>4, <1>5, <1>6 DEF Inv, ForkPointFound, Asked
<1>8. PICK n, id : n = search.mid /\ id = search.id
  OBVIOUS
<1>9. n \in Nat /\ Height < n /\ n <= has[p] /\ id = BlockAt(p, n)
  BY <1>4, <1>5, <1>7, <1>8
<1>10. Tip = BlockAt(p, Height)
  BY <1>5, <1>9, TipShared DEF Inv, Steady
<1>11. PICK a, t : a = base.height + 1 /\ t = base.tip
  OBVIOUS
<1>12. Fits(p, n, n, t, id, FALSE)
  BY <1>4, <1>5, <1>9, <1>10, <1>11 DEF Fits, Settled
<1>13. \/ syncBlocks(p, a, n, t, id, FALSE, TRUE, FALSE) /\ Goto("window")
       \/ syncBlocks(p, a, n, t, id, FALSE, FALSE, TRUE)
  BY <1>2, <1>8, <1>11
<1>14. a = Height + 1
  BY <1>4, <1>11
<1>15. ~syncBlocks(p, a, n, t, id, FALSE, FALSE, TRUE)
  BY <1>12, <1>14, FittingSucceeds DEF Inv
<1>16. UNCHANGED <<gone, banned>> /\ Along(p, n)
  BY <1>12, <1>13, <1>14, FittingEither DEF Inv
<1>17. ASSUME Two, Height <= ForkHeight
       PROVE  n <= ForkHeight
  <2>1. \A q \in Peers : has[q] >= n /\ BlockAt(q, n) = BlockAt(p, n)
    <3> TAKE q \in Peers
    <3>1. has[q] > base.height
      BY <1>4, <1>17, AllAhead DEF Inv
    <3> QED
      BY <3>1, <1>4, <1>5, <1>7, <1>8, <1>9, AllAtFork
  <2> QED
    BY <2>1, <1>5, <1>9, SharedBelow DEF Inv
<1>18. Followed(p, n)
  BY <1>16, <1>17 DEF Followed
<1>19. Placed'
  <2>0. base.height <= search.mid
    BY <1>4, <1>5
  <2>1. /\ pc' = "window" /\ Height' = search'.mid /\ Want' = Want
        /\ base'.height <= search'.mid
    BY <2>0, <1>3, <1>8, <1>13, <1>15, <1>16 DEF Goto, Along, Want
  <2>2. \A q, h : Answer(q, h)' = Answer(q, h)
    BY <1>3, NetworkOnly
  <2>3. Answers'
    BY <2>1, <2>2, <1>3, <1>4 DEF Answers
  <2> QED
    BY <2>1, <2>3, <1>3, <1>4, <1>16 DEF Placed
<1> QED
  BY <1>3, <1>18, <1>19

LEMMA ToBestCalm ==
    ASSUME Inv, Settled, Steady, Placed, Undisturbed', SyncToBest
    PROVE  /\ UNCHANGED <<buckets, quit, setting>>
           /\ \E p, n : Followed(p, n) /\ (One \/ (Two /\ n <= ForkHeight) => Placed')
<1>1. /\ syncBlocks(target.peer, Height + 1, target.height, Tip, target.id, FALSE, TRUE, TRUE)
      /\ UNCHANGED <<follows, has, buckets, current, quit, setting>>
      /\ pc = "sync" /\ pc' = "loop"
  BY DEF SyncToBest, Goto
<1>2. Aim /\ current # TRUE
  BY <1>1 DEF Placed
<1>3. PICK p, n, id, a, t : /\ p = target.peer /\ n = target.height /\ id = target.id
                            /\ a = Height + 1 /\ t = Tip
  OBVIOUS
<1>4. /\ p \in Peers \ gone /\ Height < n /\ n <= has[p] /\ id = BlockAt(p, n)
      /\ n \in Nat /\ Height \in Nat /\ has[p] \in Nat
  BY <1>2, <1>3, HasIs, TipIs DEF Aim, Inv, Shapes, TypeOK
<1>5. Tip = BlockAt(p, Height)
  BY <1>4, TipShared DEF Inv, Steady
<1>6. Fits(p, n, n, t, id, FALSE)
  BY <1>3, <1>4, <1>5 DEF Fits, Settled
<1>7. syncBlocks(p, a, n, t, id, FALSE, TRUE, TRUE)
  BY <1>1, <1>3
<1>8. \/ syncBlocks(p, a, n, t, id, FALSE, TRUE, FALSE)
      \/ syncBlocks(p, a, n, t, id, FALSE, FALSE, TRUE)
  BY <1>7, Zenon DEF syncBlocks, syncHeaders
<1>9. UNCHANGED <<gone, banned>> /\ Along(p, n)
  BY <1>3, <1>6, <1>8, FittingEither DEF Inv
<1>10. Followed(p, n)
  BY <1>2, <1>3, <1>9 DEF Followed, Aim
<1>11. ASSUME One \/ (Two /\ n <= ForkHeight)
       PROVE  Placed'
  <2>1. One
    BY <1>2, <1>4, <1>11, ForkHeightIs DEF Aim, Inv
  <2>2. gone' = {}
    BY <2>1, <1>2, <1>9 DEF Aim
  <2> QED
    BY <2>2, <1>1, <1>2 DEF Placed
<1> QED
  BY <1>1, <1>10, <1>11

-----------------------------------------------------------------------------
(* The choice.                                                             *)

\* More than one rival means that two of them answered differently.
LEMMA RivalsAre ==
    ASSUME TypeOK, Answers, Cardinality(Rivals) > 1
    PROVE  \E x, y \in Rivals : Forks(blockMap[x], blockMap[y], Want)
<1> DEFINE A == {blockMap[x] : x \in Rivals}
           ids == {Answer(p, Want) : p \in A}
<1>1. A \in SUBSET Peers
  BY DEF TypeOK, Rivals, Range
<1>2. \A x \in Rivals : Answer(blockMap[x], Want) = x
  BY DEF Answers, Rivals
<1>3. ids = Rivals
  BY <1>2
<1>4. Cardinality(ids) > 1
  BY <1>3
<1>5. \E p, q \in A : Forks(p, q, Want)
  BY <1>1, <1>4, AnswersAre
<1> QED
  BY <1>5

\* On one chain, at no more than two heights, there is one side.
LEMMA OneSide ==
    ASSUME Inv, One, Steady, Answers, Sides, search.hi <= Want, Cardinality(Rivals) > 1
    PROVE  FALSE
<1>1. /\ search.mid \in Nat /\ search.mid < Want
      /\ \A id \in Rivals : blockMap[id] \in Peers /\ has[blockMap[id]] > search.mid
  BY SidesAre DEF Sides, Steady
<1>2. PICK x, y \in Rivals : Forks(blockMap[x], blockMap[y], Want)
  BY RivalsAre DEF Inv
<1>3. PICK p, q, mid : p = blockMap[x] /\ q = blockMap[y] /\ mid = search.mid
  OBVIOUS
<1>4. /\ p \in Peers /\ q \in Peers /\ has[p] > mid /\ has[q] > mid /\ mid \in Nat
      /\ has[p] \in Nat /\ has[q] \in Nat /\ Forks(p, q, Want)
  BY <1>1, <1>2, <1>3, HasIs DEF Inv
<1>5. Want \in Nat
  BY SyncAssumption DEF Inv, Shapes, Want
<1>6. \A u, v \in Peers : \A h \in Nat :
          has[u] >= h /\ has[v] >= h => BlockAt(u, h) = BlockAt(v, h)
  <2> SUFFICES ASSUME NEW u \in Peers, NEW v \in Peers, NEW h \in Nat,
                      has[u] >= h, has[v] >= h
               PROVE  BlockAt(u, h) = BlockAt(v, h)
    OBVIOUS
  <2>1. CASE h = 0
    BY <2>1 DEF BlockAt
  <2>2. CASE h # 0
    <3>1. \A r \in Peers : \A k \in 1..h : k <= has[r] => BlockAt(r, k) = BlockAt(v, k)
      BY Meets DEF Inv
    <3>2. h \in 1..h
      BY <2>2
    <3> QED
      BY <3>1, <3>2
  <2> QED
    BY <2>1, <2>2
<1>7. has[p] # has[q]
  <2> SUFFICES ASSUME has[p] = has[q]
               PROVE  Answer(p, Want) = Answer(q, Want)
    BY <1>4 DEF Forks
  <2>1. PICK n : n = IF Want <= has[p] THEN Want ELSE has[p]
    OBVIOUS
  <2>2. Answer(p, Want) = BlockAt(p, n) /\ Answer(q, Want) = BlockAt(q, n)
    BY <2>1, <1>4, <1>5, AnswerIs DEF Inv
  <2>3. n \in Nat /\ has[p] >= n /\ has[q] >= n
    BY <2>1, <1>4, <1>5
  <2> QED
    BY <2>2, <2>3, <1>4, <1>6
<1>8. PICK u, v \in Asked : Forks(u, v, mid + 1)
  BY <1>3 DEF Sides
<1>9. u \in Peers /\ v \in Peers /\ has[u] \in Nat /\ has[v] \in Nat
  BY HasIs DEF Inv, TypeOK, Asked
<1>10. ~(has[u] >= mid + 1 /\ has[v] >= mid + 1)
  <2> SUFFICES ASSUME has[u] >= mid + 1, has[v] >= mid + 1
               PROVE  FALSE
    OBVIOUS
  <2>1. BlockAt(u, mid + 1) = BlockAt(v, mid + 1)
    BY <1>4, <1>6, <1>9
  <2>2. Answer(u, mid + 1) = BlockAt(u, mid + 1) /\ Answer(v, mid + 1) = BlockAt(v, mid + 1)
    BY <1>4, <1>9, AnswerIs DEF Inv
  <2> QED
    BY <2>1, <2>2, <1>8 DEF Forks
<1>11. \A r \in Asked : has[r] >= mid /\ (mid = base.height => has[r] > mid)
  <2>1. \A r \in Asked : has[r] > base.height
    BY DEF Asked, Range, Answers
  <2>2. base.height \in Nat
    BY DEF Inv, Shapes
  <2>3. LowEnd(mid, search.id)
    BY <1>3 DEF Sides
  <2>4. \A r \in Asked : has[r] \in Nat
    BY HasIs DEF Inv, TypeOK, Asked
  <2> QED
    BY <2>1, <2>2, <2>3, <2>4, <1>4 DEF LowEnd
<1>12. \E w \in Peers : has[w] = mid
  <2>1. has[u] >= mid /\ has[v] >= mid
    BY <1>11
  <2>2. has[u] = mid \/ has[v] = mid
    BY <2>1, <1>4, <1>9, <1>10
  <2> QED
    BY <2>2, <1>9
<1>13. PICK w \in Peers : has[w] = mid
  BY <1>12
<1> DEFINE t(r) == BlockAt(r, has[r])
<1>14. \A r, s \in Peers : t(r) = t(s) => has[r] = has[s]
  <2> SUFFICES ASSUME NEW r \in Peers, NEW s \in Peers,
                      BlockAt(r, has[r]) = BlockAt(s, has[s])
               PROVE  has[r] = has[s]
    OBVIOUS
  <2>1. has[r] \in 0..has[r] /\ has[s] \in 0..has[s]
    BY HasIs DEF Inv
  <2> QED
    BY <2>1, BlockHasHeight DEF Inv
<1>15. \A r \in Peers : t(r) \in Tips
  <2> TAKE r \in Peers
  <2>1. Answer(r, has[r]) = BlockAt(r, has[r])
    BY HasIs, AnswerIs DEF Inv
  <2> QED
    BY <2>1 DEF Tips
<1> HIDE DEF t
<1>16. t(p) # t(q) /\ t(p) # t(w) /\ t(q) # t(w)
  BY <1>4, <1>7, <1>13, <1>14
<1>17. {t(p), t(q), t(w)} \in SUBSET Tips
  BY <1>4, <1>13, <1>15
<1>18. IsFiniteSet(Tips)
  <2> DEFINE f == [r \in Peers |-> Answer(r, has[r])]
  <2>1. f \in Surjection(Peers, Tips)
    BY Zenon DEF Surjection, Tips
  <2> HIDE DEF f
  <2> QED
    BY <2>1, FS_Surjection, SyncAssumption
<1>19. IsFiniteSet({t(w)}) /\ Cardinality({t(w)}) = 1
  BY FS_Singleton
<1>20. IsFiniteSet({t(w)} \cup {t(q)}) /\ Cardinality({t(w)} \cup {t(q)}) = 1 + 1
  <2>1. t(q) \notin {t(w)}
    BY <1>16
  <2> QED
    BY <2>1, <1>19, FS_AddElement
<1>21. Cardinality(({t(w)} \cup {t(q)}) \cup {t(p)}) = 2 + 1
  <2>1. t(p) \notin {t(w)} \cup {t(q)}
    BY <1>16
  <2>2. Cardinality(({t(w)} \cup {t(q)}) \cup {t(p)}) = Cardinality({t(w)} \cup {t(q)}) + 1
    BY <2>1, <1>20, FS_AddElement
  <2> QED
    BY <2>2, <1>20
<1>22. ({t(w)} \cup {t(q)}) \cup {t(p)} \in SUBSET Tips
  BY <1>17
<1>23. Cardinality(({t(w)} \cup {t(q)}) \cup {t(p)}) <= Cardinality(Tips)
  BY <1>18, <1>22, FS_Subset
<1>24. Cardinality(Tips) <= 2 /\ Cardinality(Tips) \in Nat
  BY <1>18, FS_CardinalityType DEF One
<1> QED
  BY <1>21, <1>23, <1>24

\* The peer that is followed is not banned.
LEMMA WinnerStays ==
    ASSUME Inv, Answers, BucketsAgree, NEW id \in DOMAIN blockMap
    PROVE  blockMap[id] \notin Losers(id) \cup UNION LosersBuckets(id)
<1>1. Want \in Nat
  BY SyncAssumption DEF Inv, Shapes, Want
<1>2. \A x \in DOMAIN blockMap : Answer(blockMap[x], Want) = x /\ blockMap[x] \in Peers
  BY DEF Answers, Inv, TypeOK, Range
<1>3. blockMap[id] \notin Losers(id)
  BY <1>2 DEF Losers
<1>4. ASSUME NEW b \in LosersBuckets(id), blockMap[id] \in b
      PROVE  FALSE
  <2>1. b \in buckets /\ b \cap Losers(id) # {}
    BY DEF LosersBuckets
  <2>2. PICK x \in DOMAIN blockMap : x # id /\ blockMap[x] \in b
    BY <2>1 DEF Losers
  <2>3. PICK p, q : p = blockMap[id] /\ q = blockMap[x]
    OBVIOUS
  <2>4. p \in Peers /\ q \in Peers /\ has[p] \in Nat /\ has[q] \in Nat
        /\ Answer(p, Want) = id /\ Answer(q, Want) = x
    BY <2>3, <1>2, HasIs DEF Inv
  <2>5. BlockAt(p, has[p]) = BlockAt(q, has[q])
    BY <2>1, <2>2, <2>3, <1>4 DEF BucketsAgree
  <2>6. has[p] = has[q] /\ \A k \in 0..has[p] : BlockAt(p, k) = BlockAt(q, k)
    <3>1. has[p] \in 0..has[p] /\ has[q] \in 0..has[q]
      BY <2>4
    <3> QED
      BY <3>1, <2>4, <2>5, BlockHasHeight DEF Inv
  <2>7. PICK n \in 0..has[p] : n = IF Want <= has[p] THEN Want ELSE has[p]
    BY <2>4, <1>1
  <2>8. Answer(p, Want) = BlockAt(p, n) /\ Answer(q, Want) = BlockAt(q, n)
    BY <2>4, <2>6, <2>7, <1>1, AnswerIs DEF Inv
  <2> QED
    BY <2>2, <2>4, <2>6, <2>7, <2>8
<1> QED
  BY <1>3, <1>4

\* Where every side fills its window, its answer is one of the rivals and its
\* window ends where that rival's does.
LEMMA SideOf ==
    ASSUME Inv, Two, Answers, Sides, search.hi <= Want, base.height <= search.mid, Agree,
           Height = search.mid, Height <= ForkHeight
    PROVE  /\ Height = ForkHeight
           /\ \A q \in Peers : \E x \in Rivals : WindowEnd(blockMap[x]) = WindowEnd(q)
<1>1. /\ search.mid \in Nat /\ search.mid < Want
  BY SidesAre DEF Sides
<1>2. PICK mid : mid = search.mid
  OBVIOUS
<1>3. /\ ForkHeight \in Nat /\ Want \in Nat /\ mid \in Nat /\ base.height \in Nat
      /\ mid <= ForkHeight /\ mid < Want /\ base.height <= mid
      /\ \A q \in Peers : has[q] \in Nat
  BY <1>1, <1>2, ForkHeightIs, HasIs, SyncAssumption DEF Inv, Shapes, Want
<1>4. \A q \in Peers : has[q] > ForkHeight
  <2> TAKE q \in Peers
  <2>1. has[q] >= ForkHeight + Window /\ Window \in Nat \ {0}
    BY SyncAssumption DEF Two, SidesFilled
  <2> QED
    BY <2>1, <1>3
<1>5. mid = ForkHeight
  <2> SUFFICES ASSUME mid < ForkHeight
               PROVE  FALSE
    BY <1>3
  <2>1. PICK u, v \in Asked : Forks(u, v, mid + 1)
    BY <1>2 DEF Sides
  <2>2. u \in Peers /\ v \in Peers
    BY DEF Inv, TypeOK, Asked
  <2>3. \A q \in Peers : \A h \in 1..ForkHeight : h <= has[q] => BlockAt(q, h) = BlockAt(v, h)
    BY <2>2, <1>3, <1>4, Meets DEF Inv
  <2>4. mid + 1 \in 1..ForkHeight /\ mid + 1 <= has[u] /\ mid + 1 <= has[v]
    BY <2>2, <1>3, <1>4
  <2>5. Answer(u, mid + 1) = BlockAt(u, mid + 1) /\ Answer(v, mid + 1) = BlockAt(v, mid + 1)
    BY <2>2, <2>4, <1>3, AnswerIs DEF Inv
  <2> QED
    BY <2>1, <2>2, <2>3, <2>4, <2>5 DEF Forks
<1>6. ASSUME NEW q \in Peers
      PROVE  \E x \in Rivals : WindowEnd(blockMap[x]) = WindowEnd(q)
  <2>1. has[q] > base.height
    BY <1>3, <1>4, <1>5
  <2>2. PICK x \in DOMAIN blockMap : x = Answer(q, Want)
    BY <2>1 DEF Answers
  <2>3. PICK r : r = blockMap[x]
    OBVIOUS
  <2>4. r \in Asked /\ r \in Peers /\ Answer(r, Want) = x
    BY <2>3 DEF Inv, TypeOK, Asked, Range, Answers
  <2>5. PICK m : m = IF Want <= has[r] THEN Want ELSE has[r]
    OBVIOUS
  <2>6. has[q] >= m /\ BlockAt(q, m) = BlockAt(r, m) /\ m \in Nat /\ m <= has[r]
    BY <2>2, <2>4, <2>5, <1>3, SameAnswerAt DEF Inv
  <2>7. m > mid
    BY <2>4, <2>5, <1>3, <1>4, <1>5
  <2>8. x = BlockAt(r, m)
    BY <2>4, <2>5, <1>3, AnswerIs DEF Inv
  <2>9. x # search.id
    <3>1. CASE search.id = NoBlock
      BY <3>1, NoBlockApart DEF Inv, TypeOK, Places
    <3>2. CASE BlockAt(r, mid) = search.id
      <4> SUFFICES ASSUME x = search.id
                   PROVE  FALSE
        OBVIOUS
      <4>1. BlockAt(r, m) = BlockAt(r, mid)
        BY <3>2, <2>8
      <4>2. m \in 0..has[r] /\ mid \in 0..has[r]
        BY <2>4, <2>6, <2>7, <1>3
      <4>3. m = mid
        BY <4>1, <4>2, <2>4, BlockHasHeight DEF Inv
      <4> QED
        BY <4>3, <2>6, <2>7, <1>3
    <3> QED
      BY <3>1, <3>2, <2>4, <1>2 DEF Sides, LowEnd
  <2>10. BlockAt(q, ForkHeight + 1) = BlockAt(r, ForkHeight + 1)
    <3>1. m \in 0..has[q] /\ m \in 0..has[r] /\ ForkHeight + 1 \in 0..m
      BY <2>4, <2>6, <2>7, <1>3, <1>5
    <3> QED
      BY <3>1, <2>4, <2>6, BlockHasHeight DEF Inv
  <2>11. WindowEnd(r) = WindowEnd(q)
    BY <2>4, <2>10 DEF Two, SidesFilled
  <2> QED
    BY <2>3, <2>9, <2>11 DEF Rivals
<1> QED
  BY <1>2, <1>5, <1>6

LEMMA ChooseCalm ==
    ASSUME Inv, Settled, Steady, Placed, Undisturbed', ChooseFork
    PROVE  Steady' /\ Placed'
<1>1. /\ pc = "choose" /\ pc' = "sync"
      /\ UNCHANGED <<follows, has, chain, current, quit, setting, base, cp, blockMap,
                     search, windows, events>>
  BY DEF ChooseFork, Goto, ours
<1>2. PICK id \in BestIDs :
          /\ target' = [peer |-> blockMap[id], id |-> LastOf(windows[id]),
                        height |-> search.mid + Len(windows[id])]
          /\ IF Cardinality(Rivals) > 1
             THEN /\ Ban(Losers(id) \cup UNION LosersBuckets(id))
                  /\ buckets' = buckets \ LosersBuckets(id)
             ELSE UNCHANGED <<gone, banned, buckets>>
  BY DEF ChooseFork
<1>3. /\ gone = {} /\ current # TRUE /\ Height = search.mid /\ base.height <= search.mid
      /\ Answers /\ search.hi <= Want /\ Sides /\ Agree /\ BucketsAgree
  BY <1>1 DEF Placed, Steady
<1>4. /\ search.mid \in Nat /\ search.mid < Want
      /\ \A x \in Rivals : blockMap[x] \in Peers /\ has[blockMap[x]] > search.mid
  BY <1>3, SidesAre DEF Sides
<1>5. id \in Rivals /\ id \in DOMAIN blockMap
  BY DEF BestIDs, Rivals
<1>6. ASSUME NEW x \in Rivals
      PROVE  \E n \in Nat :
                /\ n = IF Height + Window <= has[blockMap[x]]
                       THEN Height + Window ELSE has[blockMap[x]]
                /\ Height < n /\ n <= has[blockMap[x]]
                /\ Len(windows[x]) = n - Height
                /\ LastOf(windows[x]) = BlockAt(blockMap[x], n)
                /\ search.mid + Len(windows[x]) = n
  <2>1. PICK p, b, n, w : /\ p = blockMap[x] /\ b = Height + Window /\ w = windows[x]
                          /\ n = IF b <= has[blockMap[x]] THEN b ELSE has[blockMap[x]]
    OBVIOUS
  <2>2. p \in Peers /\ has[p] > Height /\ has[p] \in Nat
    BY <2>1, <1>3, <1>4, HasIs DEF Inv
  <2>3. b \in Nat /\ Height < b
    BY <2>1, <1>3, <1>4, SyncAssumption
  <2>4. Fits(p, b, n, BlockAt(p, Height), BlockAt(p, n), FALSE)
    BY <2>1, <2>2, <2>3, <1>3 DEF Fits, Settled
  <2>5. w = downloadHeaders(p, Height + 1, b)
    BY <2>1, <1>3 DEF Sides, EvalWindow
  <2>6. /\ Height \in Nat /\ n \in Nat /\ Height < n /\ n <= has[p]
        /\ Len(w) = n - Height
        /\ LastOf(w) = BlockAt(p, n)
        /\ Height + Len(w) = n
    <3>1. TypeOK
      BY DEF Inv
    <3>2. PICK f, g : f = BlockAt(p, Height) /\ g = BlockAt(p, n)
      OBVIOUS
    <3>3. Fits(p, b, n, f, g, FALSE)
      BY <2>4, <3>2
    <3>4. /\ w \in Seq(Blocks) /\ Len(w) = n - Height
          /\ Height \in Nat /\ n \in Nat /\ Height < n /\ n <= has[p]
          /\ \A i \in 1..Len(w) : w[i] = BlockAt(p, Height + i)
      BY <3>1, <3>3, <2>5, FittingHeaders
    <3>5. Len(w) \in 1..Len(w) /\ Height + Len(w) = n
      BY <3>4
    <3> QED
      BY <3>4, <3>5 DEF LastOf
  <2> QED
    BY <2>1, <2>6, <1>3
<1>7. PICK n \in Nat :
          /\ Height < n /\ n <= has[blockMap[id]]
          /\ LastOf(windows[id]) = BlockAt(blockMap[id], n)
          /\ search.mid + Len(windows[id]) = n
  BY <1>5, <1>6
<1>8. /\ target'.peer = blockMap[id] /\ target'.height = n
      /\ target'.id = BlockAt(blockMap[id], n) /\ blockMap[id] \in Peers
  BY <1>2, <1>4, <1>5, <1>7
<1>9. blockMap[id] \notin gone'
  <2>1. blockMap[id] \notin Losers(id) \cup UNION LosersBuckets(id)
    BY <1>3, <1>5, WinnerStays
  <2>2. gone' = gone \/ gone' = gone \cup (Losers(id) \cup UNION LosersBuckets(id))
    BY <1>2 DEF Ban
  <2> QED
    BY <2>1, <2>2, <1>3
<1>10. ASSUME One
       PROVE  gone' = {}
  <2>1. ~(Cardinality(Rivals) > 1)
    BY <1>3, <1>10, OneSide
  <2> QED
    BY <2>1, <1>2, <1>3
<1>11. ASSUME Two, Height <= ForkHeight
       PROVE  Height = ForkHeight /\ BestSide(blockMap[id])
  <2>1. /\ Height = ForkHeight
        /\ \A q \in Peers : \E x \in Rivals : WindowEnd(blockMap[x]) = WindowEnd(q)
    BY <1>3, <1>11, SideOf
  <2>2. ForkHeight \in Nat /\ Window \in Nat \ {0}
    BY ForkHeightIs, SyncAssumption DEF Inv
  <2>3. \A x \in Rivals : /\ Len(windows[x]) = Window
                          /\ LastOf(windows[x]) = WindowEnd(blockMap[x])
    <3> TAKE x \in Rivals
    <3>1. blockMap[x] \in Peers /\ has[blockMap[x]] >= ForkHeight + Window
      BY <1>4, <1>11 DEF Two, SidesFilled
    <3>2. PICK k \in Nat :
              /\ k = IF Height + Window <= has[blockMap[x]]
                     THEN Height + Window ELSE has[blockMap[x]]
              /\ Len(windows[x]) = k - Height
              /\ LastOf(windows[x]) = BlockAt(blockMap[x], k)
      BY <1>6
    <3>3. has[blockMap[x]] \in Nat
      BY <3>1, HasIs DEF Inv
    <3>4. k = ForkHeight + Window
      BY <3>1, <3>2, <3>3, <2>1, <2>2
    <3> QED
      BY <3>2, <3>4, <2>1, <2>2 DEF WindowEnd
  <2>4. ~tipOfChain
    <3>1. ~(Len(windows[id]) < Window)
      BY <2>2, <2>3, <1>5
    <3> QED
      BY <3>1, <1>5 DEF tipOfChain
  <2>5. \A x \in Rivals : Score[LastOf(windows[id])] <= Score[LastOf(windows[x])]
    BY <2>4 DEF BestIDs
  <2>6. \A x \in Rivals : Score[WindowEnd(blockMap[id])] <= Score[WindowEnd(blockMap[x])]
    BY <2>3, <2>5, <1>5
  <2>7. ASSUME NEW q \in Peers
        PROVE  Score[WindowEnd(blockMap[id])] <= Score[WindowEnd(q)]
    <3>1. PICK x \in Rivals : WindowEnd(blockMap[x]) = WindowEnd(q)
      BY <2>1
    <3> QED
      BY <3>1, <2>6
  <2> QED
    BY <2>1, <2>7 DEF BestSide
<1>12. \A b \in buckets' : \E c \in buckets : b \subseteq c
  <2>1. buckets' \subseteq buckets
    BY <1>2
  <2> QED
    BY <2>1
<1>13. BucketsAgree'
  BY <1>1, <1>3, <1>12, BucketsKept
<1>14. Steady'
  BY <1>1, <1>13, SteadyKept
<1>15. Aim'
  <2>1. Height' = Height
    BY <1>1 DEF Height
  <2>2. Height \in Nat /\ ForkHeight \in Nat
    BY <1>3, <1>4, ForkHeightIs DEF Inv
  <2>3. (One' <=> One) /\ (Two' <=> Two) /\ ForkHeight' = ForkHeight
    BY <2>1, <2>2, <1>1, PremisesKept DEF Settled
  <2>4. \A p, h : BlockAt(p, h)' = BlockAt(p, h)
    BY <1>1, NetworkOnly
  <2>5. \A p : BestSide(p)' <=> BestSide(p)
    BY <1>1, NetworkOnly
  <2>6. PICK p : p = blockMap[id]
    OBVIOUS
  <2>7. /\ target'.peer = p /\ p \in Peers \ gone' /\ Height' < target'.height
        /\ target'.height <= has'[p] /\ target'.id = BlockAt(p, n) /\ target'.height = n
    BY <2>1, <2>6, <1>1, <1>7, <1>8, <1>9
  <2>8. Two' /\ Height' <= ForkHeight' => Height' = ForkHeight' /\ BestSide(p)'
    BY <2>1, <2>3, <2>5, <2>6, <1>11
  <2>9. One' => gone' = {}
    BY <2>3, <1>10
  <2>10. target'.id = BlockAt(target.peer, target.height)'
    BY <2>7, <1>1 DEF BlockAt
  <2>11. BestSide(p)' => BestSide(target.peer)'
    BY <2>7 DEF BestSide, WindowEnd
  <2> QED
    BY <2>7, <2>8, <2>9, <2>10, <2>11 DEF Aim
<1> QED
  BY <1>1, <1>3, <1>14, <1>15 DEF Placed

-----------------------------------------------------------------------------
(* Together.                                                               *)

\* A sync that followed p to height n, where the next step begins as Placed says.
LEMMA FollowedStep ==
    ASSUME Inv, Settled, Steady, Undisturbed', UNCHANGED <<follows, has, buckets, quit, setting>>,
           NEW p, NEW n, Followed(p, n), One \/ (Two /\ n <= ForkHeight) => Placed'
    PROVE  /\ Early' => Steady' /\ Placed'
           /\ Two /\ Height <= ForkHeight /\ Height' > ForkHeight => BeyondFork'
<1>1. Height \in Nat /\ ForkHeight \in Nat /\ n \in Nat /\ Height' = n /\ Height <= n
      /\ Along(p, n)
  BY TipIs, ForkHeightIs DEF Inv, TypeOK, Followed, Along
<1>2. Early' => One \/ (Two /\ Height' <= ForkHeight)
  BY <1>1, PremisesKept DEF Settled
<1>3. Early' => Steady'
  BY <1>1, AlongSteady DEF Inv, Settled
<1>4. Early' => Placed'
  BY <1>1, <1>2
<1>5. Two /\ Height <= ForkHeight /\ Height' > ForkHeight => BeyondFork'
  <2> SUFFICES ASSUME Two, Height <= ForkHeight, Height' > ForkHeight
               PROVE  BeyondFork'
    OBVIOUS
  <2>1. BestSide(p) /\ n > ForkHeight
    BY <1>1 DEF Followed
  <2> QED
    BY <2>1, <1>1, AlongBeyond DEF Inv
<1> QED
  BY <1>3, <1>4, <1>5

\* One step per action, from the lemmas above.
LEMMA CalmStep ==
    ASSUME Inv, Settled, Steady, Placed, Undisturbed', UNCHANGED <<follows, has>>,
           [Next]_vars
    PROVE  /\ Early' => Steady' /\ Placed'
           /\ Two /\ Height <= ForkHeight /\ Height' > ForkHeight => BeyondFork'
<1>0. events \in [AllKinds -> Nat] /\ Undisturbed
  BY DEF Inv, Shapes, Settled
<1>1. ASSUME UNCHANGED chain, Steady' /\ Placed'
      PROVE  /\ Early' => Steady' /\ Placed'
             /\ Two /\ Height <= ForkHeight /\ Height' > ForkHeight => BeyondFork'
  <2>1. Height' = Height /\ Height \in Nat /\ ForkHeight \in Nat
    BY <1>1, TipIs, ForkHeightIs DEF Inv, TypeOK, Height
  <2> QED
    BY <2>1, <1>1
<1>2. {"fail", "grow", "finalize", "close"} \subseteq AllKinds
  BY DEF AllKinds
<1>3. \A k \in AllKinds : ~Happens(k, 1)
  BY <1>0, Quiet
<1>4. ~Fail(1)
  BY <1>2, <1>3 DEF Fail
<1>5. CASE \/ Start \/ NextCheckpoint \/ Loop \/ Check \/ SetCurrent \/ findForkPoint
           \/ downloadEvalWindow \/ UNCHANGED vars \/ ChooseFork
           \/ (\E p \in Peers : bucketPeerDisconnected(p))
           \/ populatePeerBuckets \/ queryPeersForBlockID
  <2>1. UNCHANGED chain
    BY <1>5 DEF Start, NextCheckpoint, Loop, Check, SetCurrent, findForkPoint, ChooseFork,
       downloadEvalWindow, vars, bucketPeerDisconnected, populatePeerBuckets,
       queryPeersForBlockID, ours
  <2>2. Steady' /\ Placed'
    BY <1>0, <1>5, StartCalm, NextCheckpointCalm, LoopCalm, CheckCalm, SetCurrentCalm,
       ForkPointCalm, WindowCalm, IdleCalm, ChooseCalm, DisconnectedCalm, BucketsCalm,
       QueryCalm, Zenon
  <2> QED
    BY <2>1, <2>2, <1>1
<1>6. CASE SearchFails \/ \E p \in Peers : WindowFails(p)
  BY <1>6, NoSearchFails, NoWindowFails
<1>7. CASE \/ \E p \in Peers : SearchRaced(p) \/ WindowPanics(p) \/ Grow(p) \/ Leave(p)
           \/ Close \/ ChooserFails \/ \E c \in Chains : \E b \in Range(c) : Finalize(b)
  BY <1>7, <1>2, <1>3, <1>4, Zenon
     DEF SearchRaced, WindowPanics, Grow, Leave, Close, Finalize, ChooserFails
<1>80. CASE WindowsCut
  BY <1>80, <1>0, WindowsFailed, QuietFailed DEF Inv
<1>8. CASE ServerSetCurrent
  BY <1>8 DEF ServerSetCurrent, Steady
<1>9. CASE \E p \in Peers : syncToCheckpoints(p)
  <2>1. /\ UNCHANGED <<buckets, quit, setting>> /\ Placed'
        /\ \E p, n : Followed(p, n)
    BY <1>9, CheckpointCalm
  <2> QED
    BY <2>1, FollowedStep
<1>10. CASE SyncAgreed
  BY <1>10, AgreedCalm, FollowedStep
<1>11. CASE SyncToFork
  BY <1>11, ToForkCalm, FollowedStep
<1>12. CASE SyncToBest
  BY <1>12, ToBestCalm, FollowedStep
<1>13. Sync => \/ Start \/ NextCheckpoint \/ populatePeerBuckets
               \/ Loop \/ Check \/ queryPeersForBlockID
               \/ SetCurrent \/ SyncAgreed \/ findForkPoint \/ SearchFails \/ SyncToFork
               \/ downloadEvalWindow \/ WindowsCut \/ ChooseFork \/ ChooserFails
               \/ SyncToBest
               \/ (\E p \in Peers : SearchRaced(p) \/ WindowPanics(p) \/ Grow(p) \/ Leave(p))
               \/ (\E p \in Peers : WindowFails(p))
  BY Zenon DEF Sync
<1>14. Environment => \/ Close \/ ServerSetCurrent
                      \/ (\E c \in Chains : \E b \in Range(c) : Finalize(b))
                      \/ (\E p \in Peers : SearchRaced(p) \/ WindowPanics(p) \/ Grow(p) \/ Leave(p))
                      \/ (\E p \in Peers : bucketPeerDisconnected(p))
  BY Zenon DEF Environment
<1> QED
  BY <1>5, <1>6, <1>7, <1>80, <1>8, <1>9, <1>10, <1>11, <1>12, <1>13, <1>14, Zenon DEF Next

LEMMA BeyondStays ==
    ASSUME TypeOK, UNCHANGED <<follows, has>>, Extended, BeyondFork, Height > ForkHeight
    PROVE  BeyondFork'
<1>1. Height \in Nat /\ ForkHeight \in Nat
  BY TipIs, ForkHeightIs DEF TypeOK
<1>2. chain'[ForkHeight + 1] = chain[ForkHeight + 1]
  BY <1>1 DEF Extended, Height
<1>3. PICK p \in Peers : chain[ForkHeight + 1] = BlockAt(p, ForkHeight + 1) /\ BestSide(p)
  BY DEF BeyondFork
<1>4. /\ ForkHeight' = ForkHeight /\ (BestSide(p)' <=> BestSide(p))
  BY NetworkOnly
<1>5. BlockAt(p, ForkHeight + 1)' = BlockAt(p, ForkHeight + 1)
  BY <1>4 DEF BlockAt
<1> QED
  BY <1>2, <1>3, <1>4, <1>5 DEF BeyondFork

\* Undisturbed, a sync keeps to what all peers share until it has chosen.
THEOREM SyncStaysCalm == Spec => [](Calm /\ Beyond)
<1>1. Init => Calm /\ Beyond
  <2> SUFFICES ASSUME Init
               PROVE  Calm /\ Beyond
    OBVIOUS
  <2>1. TypeOK
    BY InitInv DEF Inv
  <2>2. Height = 0 /\ ForkHeight \in Nat
    BY <2>1, ForkHeightIs DEF Init, Height
  <2>3. Steady
    BY <2>2 DEF Init, Steady, Agree, BucketsAgree
  <2>4. Placed
    BY DEF Init, Placed
  <2> QED
    BY <2>2, <2>3, <2>4 DEF Calm, Beyond
<1>2. Inv /\ Inv' /\ Calm /\ Beyond /\ [Next]_vars => (Calm /\ Beyond)'
  <2> SUFFICES ASSUME Inv, Inv', Calm, Beyond, [Next]_vars
               PROVE  Calm' /\ Beyond'
    OBVIOUS
  <2>1. CASE ~Undisturbed'
    BY <2>1 DEF Calm, Beyond, Early, One, Two, Settled
  <2>2. CASE Undisturbed'
    <3>1. UNCHANGED <<follows, has, events>> /\ Extended
      BY <2>2, Still
    <3>2. Undisturbed
      BY <2>2, <3>1 DEF Undisturbed
    <3>3. Height \in Nat /\ Height' \in Nat /\ ForkHeight \in Nat /\ Height <= Height'
      <4>1. Len(chain) \in Nat /\ Len(chain') \in Nat
        BY LenProperties DEF Inv, TypeOK
      <4> QED
        BY <4>1, <3>1, ForkHeightIs DEF Inv, Extended, Height
    <3>4. /\ (Two' <=> Two) /\ ForkHeight' = ForkHeight /\ (Early' => Early)
      BY <2>2, <3>1, <3>2, <3>3, PremisesKept
    <3>5. ASSUME Early
          PROVE  /\ Early' => Steady' /\ Placed'
                 /\ Two /\ Height <= ForkHeight /\ Height' > ForkHeight => BeyondFork'
      <4>1. Steady /\ Placed /\ Settled
        BY <3>5 DEF Calm, Early, One, Two
      <4> QED
        BY <4>1, <2>2, <3>1, CalmStep
    <3>6. Calm'
      BY <3>4, <3>5 DEF Calm
    <3>7. Beyond'
      <4> SUFFICES ASSUME Two, Height' > ForkHeight
                   PROVE  BeyondFork'
        BY <3>4 DEF Beyond
      <4>1. CASE Height <= ForkHeight
        BY <4>1, <3>5 DEF Early
      <4>2. CASE Height > ForkHeight
        BY <4>2, <3>1, BeyondStays DEF Beyond, Inv
      <4> QED
        BY <4>1, <4>2, <3>3
    <3> QED
      BY <3>6, <3>7
  <2> QED
    BY <2>1, <2>2
<1> QED
  BY <1>1, <1>2, SyncInvariant, PTL DEF Spec

\* With all valid peers on one chain, at no more than two heights, past the
\* checkpoints, a sync that nothing disturbs (sync_manager.go:132-287) bans nobody
\* and is current only at the height of the highest of them, for any number of
\* peers, any checkpoints and any lookahead and window.
THEOREM OneChainAlwaysSynced == Spec => []OneChainSynced
<1>1. Inv /\ Calm => OneChainSynced
  <2> SUFFICES ASSUME Inv, Calm, NoFork, Undisturbed, Cardinality(Tips) <= 2, PastCheckpoints
               PROVE  banned = {} /\ (current => Height = Highest)
    BY DEF OneChainSynced, Inv
  <2>1. One
    BY DEF One, Settled, NoFork
  <2>2. Steady /\ Placed
    BY <2>1 DEF Calm, Early
  <2>3. gone = {}
    BY <2>1, <2>2 DEF Placed, Aim
  <2>4. banned = {}
    BY <2>3 DEF Inv, TypeOK
  <2>5. ASSUME current = TRUE
        PROVE  Height = Highest
    <3>1. \A p \in Peers : has[p] <= Height /\ has[p] \in Nat
      BY <2>2, <2>5, HasIs DEF Placed, Inv
    <3>2. Height = 0 \/ \E p \in Peers : has[p] >= Height
      BY <2>2 DEF Steady
    <3>3. /\ Highest \in Nat /\ Height \in Nat
          /\ \A p \in Peers : has[p] <= Highest
          /\ Highest = 0 \/ \E p \in Peers : has[p] = Highest
      BY HighestIs, TipIs DEF Inv, TypeOK
    <3> QED
      BY <3>1, <3>2, <3>3
  <2>6. current \in BOOLEAN
    BY DEF Inv, TypeOK
  <2> QED
    BY <2>4, <2>5, <2>6
<1> QED
  BY <1>1, SyncInvariant, SyncStaysCalm, PTL

\* When every side of the fork fills an evaluation window, the chain that a sync
\* which nothing disturbs connects beyond the fork is one with the best chain
\* score (sync_manager.go:201-250), however many sides there are, whichever peer
\* is asked for each and at whatever heights they are.
THEOREM BestForkAlwaysWins == Spec => []BestForkWins
<1>1. Beyond => BestForkWins
  <2> SUFFICES ASSUME Beyond, Undisturbed, SidesFilled, PastCheckpoints, Height > ForkHeight
               PROVE  \E p \in Peers :
                         /\ chain[ForkHeight + 1] = BlockAt(p, ForkHeight + 1)
                         /\ \A q \in Peers : Score[WindowEnd(p)] <= Score[WindowEnd(q)]
    BY DEF BestForkWins
  <2>1. Two
    BY DEF Two, Settled, SidesFilled
  <2> QED
    BY <2>1 DEF Beyond, BeyondFork, BestSide
<1> QED
  BY <1>1, SyncStaysCalm, PTL
=============================================================================
