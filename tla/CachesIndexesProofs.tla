-------------------------- MODULE CachesIndexesProofs --------------------------
(***************************************************************************)
(* Proofs about what the blockchain keeps beside its blocks.               *)
(*                                                                         *)
(* ChainCaches: for every set of nullifiers and blocks, every size of the  *)
(* caches and every length of the window.                                  *)
(*                                                                         *)
(* Indexes: for every chain, every set of users, and any number of crashes *)
(* and restarts.                                                           *)
(***************************************************************************)
EXTENDS ChainCaches, Indexes, FiniteSetTheorems, TLAPS

-----------------------------------------------------------------------------
(* ChainCaches.                                                            *)

Steps == {"validate", "add", "commit"}
Connections == [block : Blocks, todo : Seq(Nullifiers), step : Steps]
Ledgers == [nullifiers : SUBSET Nullifiers, roots : SUBSET Int, banned : SUBSET Nullifiers,
            evicted : SUBSET Nullifiers]

CachesTypeOK ==
    /\ stored \in [nullifiers : SUBSET Nullifiers, roots : SUBSET Int]
    /\ DOMAIN cachedEntries = Chains
    /\ \A c \in Chains : \E S \in SUBSET Nullifiers : cachedEntries[c] \in [S -> BOOLEAN]
    /\ rootCache \in [Chains -> Seq(Int)]
    /\ height \in [Chains -> Nat]
    /\ connecting \in [Chains -> {None} \cup Connections]
    /\ window \in -1..MaxWindow
    /\ ledger \in [Chains -> Ledgers]

\* stateLock: blocks connect to one chain at a time, to temp within a window.
OneAtATime ==
    /\ ~Idle("main") => window = -1
    /\ ~Idle("temp") => window > 0

\* The datastore is the ledger of main, and its caches agree with it, also
\* while a block is between AddNullifiers and Commit.
MainExact ==
    /\ ledger["main"].nullifiers = stored.nullifiers
    /\ ledger["main"].roots = stored.roots
    /\ \A n \in DOMAIN cachedEntries["main"] :
          cachedEntries["main"][n] <=> n \in stored.nullifiers
    /\ Step("main", "commit") => Entered("main") \cap DOMAIN cachedEntries["main"] = {}
    /\ ToSet(rootCache["main"]) \subseteq stored.roots
    /\ Len(rootCache["main"]) <= MaxTxoRoots

\* A nullifier for which the cache of temp need not answer for its ledger.
Excused(n) ==
    \/ n \in Unknown("temp")
    \/ Step("temp", "commit") /\ n \in Entered("temp")

\* Within a window the caches of temp make up for what the datastore does not
\* have, and its root cache has room for the blocks that are left.
TempExact ==
    window >= 0 =>
        /\ \A n \in Nullifiers :
              Excused(n) \/ (NullifierAnswer("temp", n) <=> n \in ledger["temp"].nullifiers)
        /\ stored.nullifiers \subseteq ledger["temp"].nullifiers
        /\ ledger["temp"].roots = stored.roots \cup ToSet(rootCache["temp"])
        /\ Len(rootCache["temp"]) <= MaxTxoRoots + (height["temp"] - height["main"])

\* What has been validated of a block is not spent.
Unspent ==
    \A c \in Chains : ~Idle(c) =>
        /\ connecting[c].step # "validate" => connecting[c].todo = <<>>
        /\ \A n \in ToSet(connecting[c].block.spends) \ ToSet(connecting[c].todo) :
              n \in ledger[c].nullifiers => n \in Unknown(c)

CachesInv == CachesTypeOK /\ OneAtATime /\ MainExact /\ TempExact /\ Unspent

-----------------------------------------------------------------------------
(* Sequences.                                                              *)

\* The elements of a sequence that is extended or loses its first element.
LEMMA AppendToSet ==
    ASSUME NEW S, NEW s \in Seq(S), NEW x
    PROVE  ToSet(Append(s, x)) = ToSet(s) \cup {x}
<1>1. \A i \in DOMAIN s : i \in DOMAIN Append(s, x) /\ Append(s, x)[i] = s[i]
  BY SMT
<1>2. /\ Len(s) + 1 \in DOMAIN Append(s, x) /\ Append(s, x)[Len(s) + 1] = x
      /\ \A i \in DOMAIN Append(s, x) : i \in DOMAIN s \/ i = Len(s) + 1
  BY SMT
<1> QED
  BY <1>1, <1>2, SMT DEF ToSet

LEMMA TailToSet ==
    ASSUME NEW S, NEW s \in Seq(S), s # <<>>
    PROVE  /\ Tail(s) \in Seq(S)
           /\ Head(s) \in S
           /\ ToSet(s) = {Head(s)} \cup ToSet(Tail(s))
           /\ Len(Tail(s)) = Len(s) - 1
<1>1. /\ Tail(s) \in Seq(S) /\ Len(Tail(s)) = Len(s) - 1 /\ Head(s) = s[1] /\ Head(s) \in S
      /\ Len(s) \in Nat \ {0}
      /\ \A i \in 1..(Len(s) - 1) : Tail(s)[i] = s[i + 1]
  BY SMT
<1>2. ASSUME NEW x \in ToSet(s) PROVE x \in {Head(s)} \cup ToSet(Tail(s))
  <2>1. PICK i \in DOMAIN s : x = s[i]
    BY <1>2 DEF ToSet
  <2>2. CASE i = 1
    BY <1>1, <2>1, <2>2
  <2>3. CASE i # 1
    <3>1. i - 1 \in DOMAIN Tail(s) /\ Tail(s)[i - 1] = x
      BY <1>1, <2>1, <2>3, SMT
    <3> QED
      BY <3>1, SMT DEF ToSet
  <2> QED
    BY <2>2, <2>3
<1>3. ASSUME NEW x \in {Head(s)} \cup ToSet(Tail(s)) PROVE x \in ToSet(s)
  <2>1. CASE x = Head(s)
    BY <1>1, <2>1, 1 \in DOMAIN s, SMT DEF ToSet
  <2>2. CASE x \in ToSet(Tail(s))
    <3>1. PICK i \in DOMAIN Tail(s) : x = Tail(s)[i]
      BY <2>2 DEF ToSet
    <3>2. i + 1 \in DOMAIN s /\ s[i + 1] = x
      BY <1>1, <3>1, SMT
    <3> QED
      BY <3>2, SMT DEF ToSet
  <2> QED
    BY <1>3, <2>1, <2>2
<1> QED
  BY <1>1, <1>2, <1>3

-----------------------------------------------------------------------------
(* The sets.                                                               *)

LEMMA ChainNames == "main" \in Chains /\ "temp" \in Chains /\ "main" # "temp"
  BY DEF Chains

\* The types of the parts of the state that belong to chain c.
LEMMA PartsOfChain ==
    ASSUME CachesTypeOK, NEW c \in Chains
    PROVE  /\ DOMAIN cachedEntries[c] \in SUBSET Nullifiers
           /\ cachedEntries[c] \in [DOMAIN cachedEntries[c] -> BOOLEAN]
           /\ rootCache[c] \in Seq(Int)
           /\ height[c] \in Nat
           /\ ledger[c] \in Ledgers
           /\ Idle(c) <=> connecting[c] = None
           /\ ~Idle(c) => connecting[c] \in Connections
<1>1. PICK S \in SUBSET Nullifiers : cachedEntries[c] \in [S -> BOOLEAN]
  BY Zenon DEF CachesTypeOK
<1>2. DOMAIN cachedEntries[c] = S
  BY <1>1
<1>3. /\ rootCache[c] \in Seq(Int)
      /\ height[c] \in Nat
      /\ ledger[c] \in Ledgers
      /\ connecting[c] \in {None} \cup Connections
  BY Zenon DEF CachesTypeOK
<1>4. None.step = "idle"
  BY DEF None
<1>5. \A x \in Connections : x.step # "idle"
  BY SMT DEF Connections, Steps
<1> QED
  BY <1>1, <1>2, <1>3, <1>4, <1>5, Zenon DEF Idle, Step

\* A block spends and bans nullifiers.
LEMMA BlockParts ==
    ASSUME NEW b \in Blocks
    PROVE  /\ b.spends \in Seq(Nullifiers)
           /\ ToSet(b.spends) \subseteq Nullifiers
           /\ b.bans \subseteq Nullifiers
           /\ b.txoRoot \in Int
<1>1. b \in [spends  : {s \in Seq(Nullifiers) : IsInjective(s)},
             txoRoot : Roots, outputs : BOOLEAN, bans : SUBSET Nullifiers]
  BY BlocksAssumption, Zenon
<1>2. b.spends \in {s \in Seq(Nullifiers) : IsInjective(s)} /\ b.txoRoot \in Roots
      /\ b.bans \in SUBSET Nullifiers
  BY <1>1, Zenon
<1>3. b.spends \in Seq(Nullifiers)
  BY <1>2, Zenon
<1>4. ToSet(b.spends) \subseteq Nullifiers
  BY <1>3, SMT DEF ToSet
<1>5. b.txoRoot \in Int
  BY <1>2, CachesAssumption, SMT DEF Roots
<1> QED
  BY <1>2, <1>3, <1>4, <1>5, Zenon

\* A lookup may forget entries and remembers what the datastore says.
LEMMA Lookup ==
    ASSUME CachesTypeOK, NEW c \in Chains, NEW n \in Nullifiers,
           NEW m \in NullifierExists(c, n)
    PROVE  /\ \E S \in SUBSET Nullifiers : m \in [S -> BOOLEAN]
           /\ \A x \in DOMAIN m :
                 \/ x \in DOMAIN cachedEntries[c] /\ m[x] = cachedEntries[c][x]
                 \/ x \notin DOMAIN cachedEntries[c] /\ (m[x] <=> x \in stored.nullifiers)
<1> DEFINE old == cachedEntries[c]
<1>1. old \in [DOMAIN old -> BOOLEAN] /\ DOMAIN old \in SUBSET Nullifiers
  BY PartsOfChain, Zenon
<1>2. CASE m = old
  BY <1>1, <1>2, Zenon
<1>3. CASE n \notin DOMAIN old /\ \E k \in limitCache(c) : m = With(k, n, n \in stored.nullifiers)
  <2>1. PICK k \in limitCache(c) : m = With(k, n, n \in stored.nullifiers)
    BY <1>3
  <2>2. k = old \/ \E e \in DOMAIN old : k = Without(old, {e})
    BY <2>1, Zenon DEF limitCache
  <2>3. \E T \in SUBSET Nullifiers : /\ k \in [T -> BOOLEAN] /\ T \subseteq DOMAIN old
                                     /\ \A x \in T : k[x] = old[x]
    <3>1. CASE k = old
      BY <1>1, <3>1, Zenon
    <3>2. CASE \E e \in DOMAIN old : k = Without(old, {e})
      <4>1. PICK e \in DOMAIN old : k = Without(old, {e})
        BY <3>2
      <4>2. DOMAIN old \ {e} \in SUBSET Nullifiers
        BY <1>1, Zenon
      <4>3. k \in [DOMAIN old \ {e} -> BOOLEAN] /\ \A x \in DOMAIN old \ {e} : k[x] = old[x]
        BY <1>1, <4>1, Zenon DEF Without
      <4> QED
        BY <4>2, <4>3, Zenon
    <3> QED
      BY <2>2, <3>1, <3>2
  <2>4. PICK T \in SUBSET Nullifiers : /\ k \in [T -> BOOLEAN] /\ T \subseteq DOMAIN old
                                       /\ \A x \in T : k[x] = old[x]
    BY <2>3
  <2>5. /\ m \in [T \cup {n} -> BOOLEAN] /\ T \cup {n} \in SUBSET Nullifiers
        /\ m[n] = (n \in stored.nullifiers)
        /\ \A y \in T : y # n => m[y] = k[y]
    <3>1. T \cup {n} \in SUBSET Nullifiers
      BY <2>4, Zenon
    <3> DEFINE v == n \in stored.nullifiers
    <3>2. v \in BOOLEAN
      OBVIOUS
    <3> HIDE DEF v
    <3>3. m = With(k, n, v)
      BY <2>1, Zenon DEF v
    <3>4. m[n] = v /\ m \in [T \cup {n} -> BOOLEAN] /\ \A y \in T : y # n => m[y] = k[y]
      BY <2>4, <3>2, <3>3, Zenon DEF With
    <3> QED
      BY <3>1, <3>4, Zenon DEF v
  <2>6. DOMAIN m = T \cup {n}
    BY <2>5
  <2> QED
    <3>1. m[n] <=> n \in stored.nullifiers
      BY <2>5
    <3> QED
      BY <1>3, <2>4, <2>5, <2>6, <3>1, Zenon
<1> QED
  BY <1>2, <1>3, Zenon DEF NullifierExists

\* The answer to a lookup of x with cache m.
Answer(m, x) == IF x \in DOMAIN m THEN m[x] ELSE x \in stored.nullifiers

\* A lookup on temp changes no answer but those it forgets.
LEMMA TempLookup ==
    ASSUME CachesTypeOK, NEW n \in Nullifiers, NEW m \in NullifierExists("temp", n),
           NEW x, stored.nullifiers \subseteq ledger["temp"].nullifiers,
           NullifierAnswer("temp", x) <=> x \in ledger["temp"].nullifiers,
           x \notin Forgotten("temp", m)
    PROVE  Answer(m, x) <=> x \in ledger["temp"].nullifiers
<1> DEFINE old == cachedEntries["temp"]
<1>1. \A y \in DOMAIN m : \/ y \in DOMAIN old /\ m[y] = old[y]
                          \/ y \notin DOMAIN old /\ (m[y] <=> y \in stored.nullifiers)
  BY Lookup, ChainNames, Zenon
<1>2. CASE x \in DOMAIN m
  BY <1>1, <1>2, Zenon DEF Answer, NullifierAnswer
<1>3. CASE x \notin DOMAIN m /\ x \notin DOMAIN old
  BY <1>3, Zenon DEF Answer, NullifierAnswer
<1>4. CASE x \notin DOMAIN m /\ x \in DOMAIN old
  <2>1. ~old[x] \/ x \in stored.nullifiers
    BY <1>4, Zenon DEF Forgotten
  <2> QED
    BY <1>4, <2>1, Zenon DEF Answer, NullifierAnswer
<1> QED
  BY <1>2, <1>3, <1>4

\* What a lookup writes into the ledger.
LEMMA LedgerKept ==
    ASSUME CachesTypeOK, NEW c \in Chains, NEW m,
           ledger' = [ledger EXCEPT ![c].evicted = @ \cup Forgotten(c, m)]
    PROVE  /\ ledger' \in [Chains -> Ledgers]
           /\ \A d \in Chains : /\ ledger'[d].nullifiers = ledger[d].nullifiers
                                /\ ledger'[d].roots = ledger[d].roots
                                /\ ledger'[d].banned = ledger[d].banned
                                /\ Unknown(d) \subseteq Unknown(d)'
                                /\ d # c => ledger'[d] = ledger[d]
           /\ ledger'[c].evicted = ledger[c].evicted \cup Forgotten(c, m)
<1> DEFINE F == Forgotten(c, m)
           L == [ledger[c] EXCEPT !.evicted = @ \cup F]
<1>1. F \in SUBSET Nullifiers
  BY PartsOfChain, Zenon DEF Forgotten
<1>2. ledger \in [Chains -> Ledgers] /\ ledger[c] \in Ledgers
  BY Zenon DEF CachesTypeOK
<1>3. ledger' = [ledger EXCEPT ![c] = L]
  OBVIOUS
<1> HIDE DEF F
<1>4. /\ L \in Ledgers /\ L.nullifiers = ledger[c].nullifiers /\ L.roots = ledger[c].roots
      /\ L.banned = ledger[c].banned /\ L.evicted = ledger[c].evicted \cup F
  BY <1>1, <1>2, SMT DEF Ledgers
<1> HIDE DEF L
<1>5. ledger' \in [Chains -> Ledgers] /\ ledger'[c] = L
      /\ \A d \in Chains : d # c => ledger'[d] = ledger[d]
  BY <1>2, <1>3, <1>4, Zenon
<1>6. \A d \in Chains : Unknown(d) \subseteq Unknown(d)'
  BY <1>4, <1>5, Zenon DEF Unknown
<1> QED
  BY <1>4, <1>5, <1>6, Zenon DEF F

-----------------------------------------------------------------------------
(* The actions.                                                            *)

LEMMA InitCaches ==
    ASSUME CachesInit
    PROVE  CachesInv
<1>1. CachesTypeOK
  <2>1. \A c \in Chains : \E S \in SUBSET Nullifiers : cachedEntries[c] \in [S -> BOOLEAN]
    <3>1. EmptyMap \in [{} -> BOOLEAN]
      BY Zenon DEF EmptyMap
    <3>2. \A c \in Chains : cachedEntries[c] = EmptyMap
      BY Zenon DEF CachesInit
    <3> QED
      BY <3>1, <3>2, Zenon
  <2>2. DOMAIN cachedEntries = Chains
    BY Zenon DEF CachesInit
  <2>3. window \in -1..MaxWindow
    BY CachesAssumption, SMT DEF CachesInit
  <2>4. stored \in [nullifiers : SUBSET Nullifiers, roots : SUBSET Int]
    BY SMT DEF CachesInit
  <2>5. rootCache \in [Chains -> Seq(Int)] /\ height \in [Chains -> Nat]
    BY SMT DEF CachesInit
  <2>6. connecting \in [Chains -> {None} \cup Connections]
    BY Zenon DEF CachesInit
  <2>7. ledger \in [Chains -> Ledgers]
    BY SMT DEF CachesInit, NoBlocks, Ledgers
  <2> QED
    BY <2>1, <2>2, <2>3, <2>4, <2>5, <2>6, <2>7, Zenon DEF CachesTypeOK
<1>2. \A c \in Chains : Idle(c)
  BY Zenon DEF CachesInit, Idle, Step, None
<1>3. OneAtATime /\ Unspent
  BY <1>2, Zenon DEF OneAtATime, Unspent, Chains
<1>4. MainExact
  <2>1. cachedEntries["main"] = EmptyMap /\ rootCache["main"] = <<>> /\ ledger["main"] = NoBlocks
        /\ stored = [nullifiers |-> {}, roots |-> {0}]
    BY Zenon DEF CachesInit, Chains
  <2>2. DOMAIN EmptyMap = {}
    BY DEF EmptyMap
  <2>3. ToSet(<<>>) = {} /\ Len(<<>>) = 0
    BY SMT DEF ToSet
  <2> QED
    BY <2>1, <2>2, <2>3, CachesAssumption, SMT DEF MainExact, NoBlocks
<1>5. TempExact
  BY SMT DEF TempExact, CachesInit
<1> QED
  BY <1>1, <1>3, <1>4, <1>5, Zenon DEF CachesInv

LEMMA LookUpKeeps ==
    ASSUME CachesInv, LookUp
    PROVE  CachesInv'
<1>0. PICK n \in Nullifiers : \E m \in NullifierExists("main", n) :
         cachedEntries' = [cachedEntries EXCEPT !["main"] = m]
  BY Zenon DEF LookUp
<1>1. PICK m \in NullifierExists("main", n) :
         cachedEntries' = [cachedEntries EXCEPT !["main"] = m]
  BY <1>0
<1>2. /\ Idle("main")
      /\ UNCHANGED <<stored, rootCache, height, connecting, window, ledger>>
  BY Zenon DEF LookUp, ReadLocked
<1>3. CachesTypeOK /\ OneAtATime /\ MainExact /\ TempExact /\ Unspent
  BY Zenon DEF CachesInv
<1>4. /\ \E S \in SUBSET Nullifiers : m \in [S -> BOOLEAN]
      /\ \A x \in DOMAIN m :
                 \/ x \in DOMAIN cachedEntries["main"] /\ m[x] = cachedEntries["main"][x]
                 \/ m[x] <=> x \in stored.nullifiers
  BY <1>1, <1>3, Lookup, ChainNames, Zenon
<1>5. /\ DOMAIN cachedEntries' = Chains
      /\ cachedEntries'["main"] = m /\ cachedEntries'["temp"] = cachedEntries["temp"]
  BY <1>1, <1>3, Zenon DEF CachesTypeOK, Chains
<1>6. CachesTypeOK'
  BY <1>2, <1>3, <1>4, <1>5, Zenon DEF CachesTypeOK, Chains
<1>7. OneAtATime' /\ Unspent'
  BY <1>2, <1>3, Zenon DEF OneAtATime, Unspent, Unknown, Idle, Step
<1>8. MainExact'
  <2>1. \A x \in DOMAIN m : m[x] <=> x \in stored.nullifiers
    BY <1>3, <1>4, Zenon DEF MainExact
  <2>2. ~Step("main", "commit")'
    BY <1>2, "idle" # "commit", Zenon DEF Idle, Step
  <2> QED
    BY <1>2, <1>3, <1>5, <2>1, <2>2, Zenon DEF MainExact
<1>9. TempExact'
  BY <1>2, <1>3, <1>5, Zenon DEF TempExact, Excused, Unknown, NullifierAnswer, Step, Entered
<1> QED
  BY <1>6, <1>7, <1>8, <1>9, Zenon DEF CachesInv

\* The clones answer what the originals do.
LEMMA CalcChainScoreKeeps ==
    ASSUME CachesInv, CalcChainScore
    PROVE  CachesInv'
<1>1. /\ Idle("main") /\ window = -1 /\ window' \in 1..MaxWindow
      /\ UNCHANGED <<stored, connecting>>
  BY Zenon DEF CalcChainScore, ReadLocked
<1>2. CachesTypeOK /\ OneAtATime /\ MainExact /\ TempExact /\ Unspent
  BY Zenon DEF CachesInv
<1>3. Idle("temp")
  BY <1>1, <1>2, SMT DEF OneAtATime
<1>4. /\ DOMAIN cachedEntries' = Chains
      /\ cachedEntries'["main"] = cachedEntries["main"] /\ cachedEntries'["temp"] = EmptyMap
  BY <1>2, Zenon DEF CalcChainScore, CachesTypeOK, Chains
<1>5. /\ rootCache' \in [Chains -> Seq(Int)]
      /\ rootCache'["main"] = rootCache["main"] /\ rootCache'["temp"] = rootCache["main"]
  BY <1>2, Zenon DEF CalcChainScore, CachesTypeOK, Chains
<1>6. /\ height' \in [Chains -> Nat]
      /\ height'["temp"] = height["main"] /\ height'["main"] = height["main"]
  BY <1>2, Zenon DEF CalcChainScore, CachesTypeOK, Chains
<1>7. /\ ledger' \in [Chains -> Ledgers]
      /\ ledger'["main"] = ledger["main"]
      /\ ledger'["temp"].nullifiers = ledger["main"].nullifiers
      /\ ledger'["temp"].roots = ledger["main"].roots
  <2>1. /\ ledger' = [ledger EXCEPT !["temp"] =
                 [nullifiers |-> ledger["main"].nullifiers, roots |-> ledger["main"].roots,
                  banned |-> {}, evicted |-> {}]]
        /\ ledger \in [Chains -> Ledgers]
    BY <1>2, Zenon DEF CalcChainScore, CachesTypeOK
  <2> QED
    <3> DEFINE L == [nullifiers |-> ledger["main"].nullifiers, roots |-> ledger["main"].roots,
                     banned |-> {}, evicted |-> {}]
    <3>1. ledger["main"] \in Ledgers
      BY <2>1, ChainNames, Zenon
    <3>2. /\ L \in Ledgers /\ L.nullifiers = ledger["main"].nullifiers
          /\ L.roots = ledger["main"].roots
      BY <3>1, SMT DEF Ledgers
    <3> HIDE DEF L
    <3>3. ledger' = [ledger EXCEPT !["temp"] = L]
      BY <2>1, Zenon DEF L
    <3>4. ledger' \in [Chains -> Ledgers] /\ ledger'["temp"] = L /\ ledger'["main"] = ledger["main"]
      BY <2>1, <3>2, <3>3, ChainNames, Zenon
    <3> QED
      BY <3>2, <3>4, Zenon
<1>8. EmptyMap \in [{} -> BOOLEAN] /\ DOMAIN EmptyMap = {}
  BY Zenon DEF EmptyMap
<1>9. CachesTypeOK'
  <2>1. window' \in -1..MaxWindow
    BY <1>1, CachesAssumption, SMT
  <2>2. \A c \in Chains : \E S \in SUBSET Nullifiers : cachedEntries'[c] \in [S -> BOOLEAN]
    BY <1>2, <1>4, <1>8, Zenon DEF Chains, CachesTypeOK
  <2> QED
    BY <1>1, <1>2, <1>4, <1>5, <1>6, <1>7, <2>1, <2>2, Zenon DEF CachesTypeOK
<1>10. Idle("main")' /\ Idle("temp")' /\ ~Step("main", "commit")'
  BY <1>1, <1>3, "idle" # "commit", Zenon DEF Idle, Step
<1>11. OneAtATime' /\ Unspent'
  BY <1>10, Zenon DEF OneAtATime, Unspent, Chains
<1>12. MainExact'
  BY <1>1, <1>2, <1>4, <1>5, <1>7, <1>10, Zenon DEF MainExact
<1>13. TempExact'
  <2>1. ledger'["temp"].nullifiers = stored'.nullifiers
    BY <1>1, <1>2, <1>7, Zenon DEF MainExact
  <2>2. \A n : NullifierAnswer("temp", n)' <=> n \in ledger'["temp"].nullifiers
    BY <1>4, <1>8, <2>1, Zenon DEF NullifierAnswer
  <2>3. ledger'["temp"].roots = stored'.roots \cup ToSet(rootCache'["temp"])
    BY <1>1, <1>2, <1>5, <1>7, Zenon DEF MainExact
  <2>4. Len(rootCache'["temp"]) <= MaxTxoRoots + (height'["temp"] - height'["main"])
    <3>1. Len(rootCache["main"]) <= MaxTxoRoots /\ Len(rootCache["main"]) \in Nat
          /\ height["main"] \in Nat
      BY <1>2, SMT DEF MainExact, CachesTypeOK, Chains
    <3> QED
      BY <1>5, <1>6, <3>1, CachesAssumption, SMT
  <2> QED
    BY <2>1, <2>2, <2>3, <2>4, Zenon DEF TempExact
<1> QED
  BY <1>9, <1>11, <1>12, <1>13, Zenon DEF CachesInv

LEMMA ScoredKeeps ==
    ASSUME CachesInv, Scored
    PROVE  CachesInv'
<1>1. /\ window = 0 /\ window' = -1 /\ Idle("temp")
      /\ UNCHANGED <<stored, connecting>>
  BY Zenon DEF Scored
<1>2. CachesTypeOK /\ OneAtATime /\ MainExact /\ Unspent
  BY Zenon DEF CachesInv
<1>3. Idle("main")
  BY <1>1, <1>2, SMT DEF OneAtATime
<1>4. /\ DOMAIN cachedEntries' = Chains
      /\ cachedEntries'["main"] = cachedEntries["main"] /\ cachedEntries'["temp"] = EmptyMap
      /\ rootCache' \in [Chains -> Seq(Int)] /\ rootCache'["main"] = rootCache["main"]
  <2>1. <<>> \in Seq(Int)
    BY SMT
  <2> QED
    BY <1>2, <2>1, Zenon DEF Scored, CachesTypeOK, Chains
<1>5. height' \in [Chains -> Nat]
  BY <1>2, SMT DEF Scored, CachesTypeOK, Chains
<1>6. ledger' \in [Chains -> Ledgers] /\ ledger'["main"] = ledger["main"]
  <2>1. NoBlocks \in Ledgers
    BY SMT DEF NoBlocks, Ledgers
  <2> QED
    BY <1>2, <2>1, Zenon DEF Scored, CachesTypeOK, Chains
<1>7. EmptyMap \in [{} -> BOOLEAN]
  BY Zenon DEF EmptyMap
<1>8. CachesTypeOK'
  <2>1. window' \in -1..MaxWindow
    BY <1>1, CachesAssumption, SMT
  <2>2. \A c \in Chains : \E S \in SUBSET Nullifiers : cachedEntries'[c] \in [S -> BOOLEAN]
    BY <1>2, <1>4, <1>7, Zenon DEF Chains, CachesTypeOK
  <2> QED
    BY <1>1, <1>2, <1>4, <1>5, <1>6, <2>1, <2>2, Zenon DEF CachesTypeOK
<1>9. Idle("main")' /\ Idle("temp")' /\ ~Step("main", "commit")'
  BY <1>1, <1>3, "idle" # "commit", Zenon DEF Idle, Step
<1>10. OneAtATime' /\ Unspent'
  BY <1>9, Zenon DEF OneAtATime, Unspent, Chains
<1>11. MainExact'
  BY <1>1, <1>2, <1>4, <1>6, <1>9, Zenon DEF MainExact
<1>12. TempExact'
  BY <1>1, SMT DEF TempExact
<1> QED
  BY <1>8, <1>10, <1>11, <1>12, Zenon DEF CachesInv

LEMMA RestartCachesKeeps ==
    ASSUME CachesInv, RestartCaches
    PROVE  CachesInv'
<1>1. window' = -1 /\ stored' = stored
  BY Zenon DEF RestartCaches
<1>2. CachesTypeOK /\ MainExact
  BY Zenon DEF CachesInv
<1>3. /\ cachedEntries' = [c \in Chains |-> EmptyMap]
      /\ rootCache' \in [Chains -> Seq(Int)] /\ rootCache'["main"] = <<>>
      /\ connecting' = [c \in Chains |-> None]
  <2>1. <<>> \in Seq(Int)
    BY SMT
  <2> QED
    BY <2>1, Zenon DEF RestartCaches, Chains
<1>4. height' \in [Chains -> Nat]
  BY <1>2, SMT DEF RestartCaches, CachesTypeOK, Chains
<1>5. ledger' \in [Chains -> Ledgers] /\ ledger'["main"] = ledger["main"]
  <2>1. NoBlocks \in Ledgers
    BY SMT DEF NoBlocks, Ledgers
  <2> QED
    BY <1>2, <2>1, Zenon DEF RestartCaches, CachesTypeOK, Chains
<1>6. EmptyMap \in [{} -> BOOLEAN] /\ DOMAIN EmptyMap = {}
  BY Zenon DEF EmptyMap
<1>7. CachesTypeOK'
  <2>1. window' \in -1..MaxWindow
    BY <1>1, CachesAssumption, SMT
  <2>2. connecting' \in [Chains -> {None} \cup Connections]
    BY <1>3, Zenon
  <2>3. /\ DOMAIN cachedEntries' = Chains
        /\ \A c \in Chains : \E S \in SUBSET Nullifiers : cachedEntries'[c] \in [S -> BOOLEAN]
    BY <1>3, <1>6, Zenon
  <2> QED
    BY <1>1, <1>2, <1>3, <1>4, <1>5, <2>1, <2>2, <2>3, Zenon DEF CachesTypeOK
<1>8. Idle("main")' /\ Idle("temp")' /\ ~Step("main", "commit")'
  BY <1>3, "idle" # "commit", Zenon DEF Idle, Step, None, Chains
<1>9. OneAtATime' /\ Unspent'
  BY <1>8, Zenon DEF OneAtATime, Unspent, Chains
<1>10. MainExact'
  <2>1. ToSet(<<>>) = {} /\ Len(<<>>) <= MaxTxoRoots
    BY CachesAssumption, SMT DEF ToSet
  <2>2. cachedEntries'["main"] = EmptyMap
    BY <1>3, Zenon DEF Chains
  <2> QED
    BY <1>1, <1>2, <1>3, <1>5, <1>6, <1>8, <2>1, <2>2, Zenon DEF MainExact
<1>11. TempExact'
  BY <1>1, SMT DEF TempExact
<1> QED
  BY <1>7, <1>9, <1>10, <1>11, Zenon DEF CachesInv

LEMMA CommitFailsKeeps ==
    ASSUME CachesInv, CommitFails
    PROVE  CachesInv'
<1>1. /\ connecting' = [connecting EXCEPT !["main"] = None]
      /\ UNCHANGED <<stored, cachedEntries, rootCache, height, window, ledger>>
  BY Zenon DEF CommitFails
<1>2. CachesTypeOK /\ OneAtATime /\ MainExact /\ TempExact /\ Unspent
  BY Zenon DEF CachesInv
<1>3. /\ connecting' \in [Chains -> {None} \cup Connections]
      /\ connecting'["main"] = None /\ connecting'["temp"] = connecting["temp"]
  BY <1>1, <1>2, Zenon DEF CachesTypeOK, Chains
<1>4. Idle("main")' /\ ~Step("main", "commit")'
  BY <1>3, SMT DEF Idle, Step, None
<1>5. CachesTypeOK'
  BY <1>1, <1>2, <1>3, Zenon DEF CachesTypeOK
<1>6. OneAtATime' /\ Unspent'
  BY <1>1, <1>2, <1>3, <1>4, Zenon DEF OneAtATime, Unspent, Unknown, Chains, Idle, Step
<1>7. MainExact'
  BY <1>1, <1>2, <1>4, Zenon DEF MainExact
<1>8. TempExact'
  BY <1>1, <1>2, <1>3, Zenon DEF TempExact, Excused, Unknown, NullifierAnswer, Step, Entered
<1> QED
  BY <1>5, <1>6, <1>7, <1>8, Zenon DEF CachesInv

LEMMA StartConnectKeeps ==
    ASSUME CachesInv, NEW c \in Chains, NEW b \in Blocks, StartConnect(c, b)
    PROVE  CachesInv'
<1> DEFINE new == [block |-> b, todo |-> b.spends, step |-> "validate"]
<1>1. /\ connecting' = [connecting EXCEPT ![c] = new]
      /\ UNCHANGED <<stored, cachedEntries, rootCache, height, window, ledger>>
      /\ Idle("main") /\ Idle("temp")
      /\ c = "main" => window = -1
      /\ c = "temp" => window > 0
  BY Zenon, "main" # "temp" DEF StartConnect
<1>2. CachesTypeOK /\ OneAtATime /\ MainExact /\ TempExact /\ Unspent
  BY Zenon DEF CachesInv
<1>3. new \in Connections
  BY BlockParts, SMT DEF Connections, Steps
<1>4. new.block = b /\ new.todo = b.spends /\ new.step = "validate"
  OBVIOUS
<1> HIDE DEF new
<1>5. /\ connecting' \in [Chains -> {None} \cup Connections]
      /\ connecting'[c] = new /\ \A d \in Chains : d # c => connecting'[d] = connecting[d]
  BY <1>1, <1>2, <1>3, Zenon DEF CachesTypeOK
<1>6. CachesTypeOK'
  BY <1>1, <1>2, <1>5, Zenon DEF CachesTypeOK
<1>7. OneAtATime'
  BY <1>1, <1>5, Zenon DEF OneAtATime, Chains, Idle, Step
<1>8. ~Step("main", "commit")' /\ ~Step("temp", "commit")'
  BY <1>1, <1>4, <1>5, "idle" # "commit", "validate" # "commit", Zenon DEF Chains, Idle, Step
<1>9. MainExact'
  BY <1>1, <1>2, <1>8, Zenon DEF MainExact
<1>10. TempExact'
  <2>1. ~Step("temp", "commit")
    BY <1>1, "idle" # "commit", Zenon DEF Idle, Step
  <2> QED
    BY <1>1, <1>2, <1>8, <2>1, Zenon DEF TempExact, Excused, Unknown, NullifierAnswer
<1>11. Unspent'
  <2>1. ToSet(new.block.spends) \ ToSet(new.todo) = {}
    BY <1>4, Zenon
  <2>2. \A d \in Chains : d # c => Idle(d)'
    BY <1>1, <1>5, Zenon DEF Idle, Step, Chains
  <2> QED
    BY <1>4, <1>5, <2>1, <2>2, Zenon DEF Unspent
<1> QED
  BY <1>6, <1>7, <1>9, <1>10, <1>11, Zenon DEF CachesInv

\* A block that is refused leaves the chain idle and ends the window.
LEMMA Refused ==
    ASSUME CachesInv, NEW c \in Chains, ~Idle(c), Refuse(c)
    PROVE  /\ connecting' \in [Chains -> {None} \cup Connections]
           /\ Idle(c)' /\ \A d \in Chains : d # c => connecting'[d] = connecting[d]
           /\ window' \in -1..MaxWindow
           /\ window' >= 0 <=> window >= 0
           /\ window' <= window
           /\ OneAtATime'
           /\ ~Step("main", "commit")'
<1>1. CachesTypeOK /\ OneAtATime
  BY Zenon DEF CachesInv
<1>2. /\ connecting' \in [Chains -> {None} \cup Connections]
      /\ connecting'[c] = None /\ \A d \in Chains : d # c => connecting'[d] = connecting[d]
  BY <1>1, Zenon DEF CachesTypeOK, Refuse
<1>3. /\ window' = IF c = "temp" THEN 0 ELSE window
      /\ window \in -1..MaxWindow
  BY <1>1, Zenon DEF Refuse, CachesTypeOK
<1>4. Idle(c)'
  BY <1>2, SMT DEF Idle, Step, None
<1>5. CASE c = "temp"
  <2>1. window > 0 /\ Idle("main")
    BY <1>1, <1>5, SMT DEF OneAtATime
  <2>2. Idle("main")'
    BY <1>2, <1>5, <2>1, ChainNames, Zenon DEF Idle, Step
  <2>3. OneAtATime'
    BY <1>4, <1>5, <2>2, Zenon DEF OneAtATime
  <2>4. ~Step("main", "commit")'
    BY <2>2, "idle" # "commit", Zenon DEF Idle, Step
  <2>5. window' = 0
    BY <1>3, <1>5
  <2>6. window' \in -1..MaxWindow /\ (window' >= 0 <=> window >= 0) /\ window' <= window
    BY <1>3, <2>1, <2>5, CachesAssumption, SMT
  <2> QED
    BY <1>2, <1>4, <2>3, <2>4, <2>6, Zenon
<1>6. CASE c = "main"
  <2>1. window' = window
    BY <1>3, <1>6
  <2>2. window' \in -1..MaxWindow /\ (window' >= 0 <=> window >= 0) /\ window' <= window
    BY <1>3, <2>1, SMT
  <2>3. connecting'["temp"] = connecting["temp"]
    BY <1>2, <1>6, ChainNames, Zenon
  <2>4. OneAtATime'
    BY <1>1, <1>4, <1>6, <2>1, <2>3, Zenon DEF OneAtATime, Idle, Step
  <2>5. ~Step("main", "commit")'
    BY <1>4, <1>6, "idle" # "commit", Zenon DEF Idle, Step
  <2> QED
    BY <1>2, <1>4, <2>2, <2>4, <2>5, Zenon
<1> QED
  BY <1>5, <1>6 DEF Chains

\* A block that goes on to its next step, other than commit.
LEMMA Advanced ==
    ASSUME CachesInv, NEW c \in Chains, ~Idle(c), window' = window,
           NEW v \in Connections, connecting' = [connecting EXCEPT ![c] = v],
           c = "main" => v.step # "commit"
    PROVE  /\ connecting' \in [Chains -> {None} \cup Connections]
           /\ ~Idle(c)' /\ connecting'[c] = v
           /\ \A d \in Chains : d # c => connecting'[d] = connecting[d]
           /\ OneAtATime'
           /\ ~Step("main", "commit")'
<1>1. CachesTypeOK /\ OneAtATime
  BY Zenon DEF CachesInv
<1>2. /\ connecting' \in [Chains -> {None} \cup Connections]
      /\ connecting'[c] = v /\ \A d \in Chains : d # c => connecting'[d] = connecting[d]
  BY <1>1, Zenon DEF CachesTypeOK
<1>3. v.step # "idle"
  BY SMT DEF Connections, Steps
<1>4. ~Idle(c)'
  BY <1>2, <1>3, Zenon DEF Idle, Step
<1>5. OneAtATime'
  BY <1>1, <1>2, Zenon DEF OneAtATime, Idle, Step, Chains
<1>6. ~Step("main", "commit")'
  <2>1. CASE c = "main"
    BY <1>2, <2>1, Zenon DEF Step
  <2>2. CASE c = "temp"
    <3>1. Idle("main")
      BY <1>1, <2>2, SMT DEF OneAtATime
    <3>2. connecting'["main"] = connecting["main"]
      BY <1>2, <2>2, ChainNames, Zenon
    <3> QED
      BY <3>1, <3>2, "idle" # "commit", Zenon DEF Idle, Step
  <2> QED
    BY <2>1, <2>2 DEF Chains
<1> QED
  BY <1>2, <1>4, <1>5, <1>6

\* The caches when c looks a nullifier up.
LEMMA Looked ==
    ASSUME CachesInv, NEW c \in Chains, ~Step(c, "commit"), NEW n \in Nullifiers,
           NEW m \in NullifierExists(c, n),
           cachedEntries' = [cachedEntries EXCEPT ![c] = m],
           ledger' = [ledger EXCEPT ![c].evicted = @ \cup Forgotten(c, m)],
           UNCHANGED <<stored, rootCache, height>>,
           connecting' \in [Chains -> {None} \cup Connections],
           \A d \in Chains : d # c => connecting'[d] = connecting[d],
           ~Step("main", "commit")', ~Step(c, "commit")',
           window' \in -1..MaxWindow, window' >= 0 <=> window >= 0, window' <= window
    PROVE  CachesTypeOK' /\ MainExact' /\ TempExact'
<1>1. CachesTypeOK /\ OneAtATime /\ MainExact /\ TempExact
  BY Zenon DEF CachesInv
<1>2. /\ DOMAIN cachedEntries' = Chains /\ cachedEntries'[c] = m
      /\ \A d \in Chains : d # c => cachedEntries'[d] = cachedEntries[d]
  BY <1>1, Zenon DEF CachesTypeOK
<1>3. \E S \in SUBSET Nullifiers : m \in [S -> BOOLEAN]
  BY <1>1, Lookup, Zenon
<1>30. /\ ledger' \in [Chains -> Ledgers]
       /\ \A d \in Chains : /\ ledger'[d].nullifiers = ledger[d].nullifiers
                            /\ ledger'[d].roots = ledger[d].roots
                            /\ Unknown(d) \subseteq Unknown(d)'
       /\ ledger'[c].evicted = ledger[c].evicted \cup Forgotten(c, m)
  BY <1>1, LedgerKept, Zenon
<1>4. CachesTypeOK'
  BY <1>1, <1>2, <1>3, <1>30, Zenon DEF CachesTypeOK
<1>5. MainExact'
  <2>1. CASE c = "main"
    <3>1. \A x \in DOMAIN m :
             \/ x \in DOMAIN cachedEntries["main"] /\ m[x] = cachedEntries["main"][x]
             \/ m[x] <=> x \in stored.nullifiers
      BY <1>1, <2>1, Lookup, Zenon
    <3>2. \A x \in DOMAIN m : m[x] <=> x \in stored.nullifiers
      BY <1>1, <3>1, Zenon DEF MainExact
    <3> QED
      BY <1>1, <1>2, <1>30, <2>1, <3>2, Zenon DEF MainExact
  <2>2. CASE c = "temp"
    <3>1. cachedEntries'["main"] = cachedEntries["main"]
      BY <1>2, <2>2, ChainNames, Zenon
    <3> QED
      BY <1>1, <1>30, <3>1, ChainNames, Zenon DEF MainExact
  <2> QED
    BY <2>1, <2>2 DEF Chains
<1>6. TempExact'
  <2> SUFFICES ASSUME window' >= 0 PROVE TempExact!2'
    BY Zenon DEF TempExact
  <2>1. window >= 0
    BY Zenon
  <2>2. /\ ledger["temp"].roots = stored.roots \cup ToSet(rootCache["temp"])
        /\ stored.nullifiers \subseteq ledger["temp"].nullifiers
        /\ Len(rootCache["temp"]) <= MaxTxoRoots + (height["temp"] - height["main"])
        /\ \A x \in Nullifiers :
             Excused(x) \/ (NullifierAnswer("temp", x) <=> x \in ledger["temp"].nullifiers)
    BY <1>1, <2>1, Zenon DEF TempExact
  <2>4. \A x \in Nullifiers :
           Excused(x)' \/ (NullifierAnswer("temp", x)' <=> x \in ledger'["temp"].nullifiers)
    <3>1. CASE c = "temp"
      <4> SUFFICES ASSUME NEW x \in Nullifiers, ~Excused(x)'
                   PROVE  NullifierAnswer("temp", x)' <=> x \in ledger'["temp"].nullifiers
        OBVIOUS
      <4>1. x \notin Unknown("temp")' /\ x \notin Unknown("temp")
        BY <1>30, ChainNames, Zenon DEF Excused
      <4>2. ~Excused(x) /\ x \notin Forgotten("temp", m)
        BY <1>30, <3>1, <4>1, ChainNames, Zenon DEF Excused, Unknown
      <4>3. NullifierAnswer("temp", x) <=> x \in ledger["temp"].nullifiers
        BY <2>2, <4>2, Zenon
      <4>4. Answer(m, x) <=> x \in ledger["temp"].nullifiers
        BY <1>1, <2>2, <3>1, <4>2, <4>3, TempLookup, Zenon
      <4>5. NullifierAnswer("temp", x)' = Answer(m, x)
        BY <1>2, <3>1, Zenon DEF NullifierAnswer, Answer
      <4> QED
        BY <1>30, <3>1, <4>4, <4>5, Zenon
    <3>2. CASE c = "main"
      <4>1. /\ cachedEntries'["temp"] = cachedEntries["temp"]
            /\ connecting'["temp"] = connecting["temp"]
        BY <1>2, <3>2, ChainNames, Zenon
      <4>2. \A x : Excused(x) => Excused(x)'
        BY <1>30, <4>1, ChainNames, Zenon DEF Excused, Step, Entered
      <4>3. \A x : NullifierAnswer("temp", x)' <=> NullifierAnswer("temp", x)
        BY <4>1, Zenon DEF NullifierAnswer
      <4> QED
        BY <2>2, <1>30, <4>2, <4>3, ChainNames, Zenon
    <3> QED
      BY <3>1, <3>2 DEF Chains
  <2> QED
    BY <2>2, <1>30, <2>4, ChainNames, Zenon
<1> QED
  BY <1>4, <1>5, <1>6

LEMMA ValidateNullifierKeeps ==
    ASSUME CachesInv, NEW c \in Chains, ValidateNullifier(c)
    PROVE  CachesInv'
<1> DEFINE old == connecting[c]
           n   == Head(old.todo)
<1>1. CachesTypeOK /\ OneAtATime /\ MainExact /\ TempExact /\ Unspent
  BY Zenon DEF CachesInv
<1>2. /\ old.step = "validate" /\ old.todo # <<>>
      /\ UNCHANGED <<stored, rootCache, height>>
      /\ \E m \in NullifierExists(c, n) :
            /\ cachedEntries' = [cachedEntries EXCEPT ![c] = m]
            /\ ledger' = [ledger EXCEPT ![c].evicted = @ \cup Forgotten(c, m)]
      /\ IF NullifierAnswer(c, n) THEN Refuse(c)
          ELSE /\ connecting' = [connecting EXCEPT ![c].todo = Tail(@)]
               /\ UNCHANGED window
  BY Zenon DEF ValidateNullifier, Step
<1>3. ~Step(c, "commit") /\ ~Idle(c)
  BY <1>2, "validate" # "idle", "validate" # "commit", Zenon DEF Idle, Step
<1>4. old \in Connections
  BY <1>1, <1>3, PartsOfChain, Zenon
<1>5. old.todo \in Seq(Nullifiers)
  BY <1>4, Zenon DEF Connections
<1>6. /\ n \in Nullifiers /\ Tail(old.todo) \in Seq(Nullifiers)
      /\ ToSet(old.todo) = {n} \cup ToSet(Tail(old.todo))
  BY <1>2, <1>5, TailToSet, Zenon
<1> HIDE DEF n
<1>7. PICK m \in NullifierExists(c, n) :
         /\ cachedEntries' = [cachedEntries EXCEPT ![c] = m]
         /\ ledger' = [ledger EXCEPT ![c].evicted = @ \cup Forgotten(c, m)]
  BY <1>2, Zenon
<1>70. \A d \in Chains : ledger'[d].nullifiers = ledger[d].nullifiers
                         /\ Unknown(d) \subseteq Unknown(d)'
  BY <1>1, <1>7, LedgerKept, Zenon
<1>8. CASE NullifierAnswer(c, n)
  <2>1. Refuse(c)
    BY <1>2, <1>8, Zenon
  <2>2. /\ connecting' \in [Chains -> {None} \cup Connections]
        /\ Idle(c)' /\ \A d \in Chains : d # c => connecting'[d] = connecting[d]
        /\ window' \in -1..MaxWindow
        /\ window' >= 0 <=> window >= 0
        /\ window' <= window
        /\ OneAtATime'
        /\ ~Step("main", "commit")'
    BY <1>3, <2>1, Refused, Zenon
  <2>3. ~Step(c, "commit")'
    BY <2>2, "idle" # "commit", Zenon DEF Idle, Step
  <2>4. CachesTypeOK' /\ MainExact' /\ TempExact'
    BY <1>2, <1>3, <1>6, <1>7, <2>2, <2>3, Looked, Zenon
  <2>5. Unspent'
    BY <1>1, <1>70, <2>2, Zenon DEF Unspent, Idle, Step
  <2> QED
    BY <2>2, <2>4, <2>5, Zenon DEF CachesInv
<1>9. CASE ~NullifierAnswer(c, n)
  <2> DEFINE v == [old EXCEPT !.todo = Tail(@)]
  <2>1. /\ v \in Connections /\ v.step = "validate"
        /\ v.block = old.block /\ v.todo = Tail(old.todo)
    BY <1>2, <1>4, <1>6, SMT DEF Connections
  <2>2. window' = window /\ connecting' = [connecting EXCEPT ![c] = v]
    BY <1>2, <1>9, Zenon
  <2> HIDE DEF v
  <2>3. /\ connecting' \in [Chains -> {None} \cup Connections]
        /\ ~Idle(c)' /\ connecting'[c] = v
        /\ \A d \in Chains : d # c => connecting'[d] = connecting[d]
        /\ OneAtATime'
        /\ ~Step("main", "commit")'
    BY <1>3, <2>1, <2>2, "validate" # "commit", Advanced, Zenon
  <2>4. ~Step(c, "commit")'
    BY <2>1, <2>3, "validate" # "commit", Zenon DEF Step
  <2>5. window' \in -1..MaxWindow /\ (window' >= 0 <=> window >= 0) /\ window' <= window
    <3>1. window \in -1..MaxWindow
      BY <1>1, Zenon DEF CachesTypeOK
    <3> QED
      BY <2>2, <3>1, CachesAssumption, SMT
  <2>6. CachesTypeOK' /\ MainExact' /\ TempExact'
    BY <1>2, <1>3, <1>6, <1>7, <2>3, <2>4, <2>5, Looked, Zenon
  <2>7. n \in ledger[c].nullifiers => n \in Unknown(c)
    <3>1. CASE c = "main"
      <4>1. n \notin stored.nullifiers
        BY <1>1, <1>9, <3>1, Zenon DEF NullifierAnswer, MainExact
      <4> QED
        BY <1>1, <3>1, <4>1, Zenon DEF MainExact
    <3>2. CASE c = "temp"
      <4>1. window >= 0
        <5>1. window > 0 /\ window \in -1..MaxWindow
          BY <1>1, <1>3, <3>2, Zenon DEF OneAtATime, CachesTypeOK
        <5> QED
          BY <5>1, CachesAssumption, SMT
      <4>2. Excused(n) \/ (NullifierAnswer("temp", n) <=> n \in ledger["temp"].nullifiers)
        BY <1>1, <1>6, <4>1, Zenon DEF TempExact
      <4> QED
        BY <1>3, <1>9, <3>2, <4>2, Zenon DEF Excused
    <3> QED
      BY <3>1, <3>2 DEF Chains
  <2>8. Unspent'
    <3>0. \A d \in Chains : ~Idle(d)' =>
             (connecting'[d].step # "validate" => connecting'[d].todo = <<>>)
      BY <1>1, <2>1, <2>3, Zenon DEF Unspent, Idle, Step
    <3> SUFFICES ASSUME NEW d \in Chains, ~Idle(d)',
                        NEW x \in ToSet(connecting'[d].block.spends) \ ToSet(connecting'[d].todo),
                        x \in ledger[d].nullifiers
                 PROVE  x \in Unknown(d)
      BY <1>70, <3>0, Zenon DEF Unspent
    <3>1. CASE d # c
      <4>1. connecting'[d] = connecting[d]
        BY <2>3, <3>1, Zenon
      <4> QED
        BY <1>1, <4>1, Zenon DEF Unspent, Idle, Step
    <3>2. CASE d = c
      <4>1. x \in ToSet(old.block.spends) /\ (x \notin ToSet(old.todo) \/ x = n)
        BY <1>6, <2>1, <2>3, <3>2, Zenon
      <4> QED
        BY <1>1, <1>3, <2>7, <3>2, <4>1, Zenon DEF Unspent
    <3> QED
      BY <3>1, <3>2
  <2> QED
    BY <2>3, <2>6, <2>8, Zenon DEF CachesInv
<1> QED
  BY <1>8, <1>9

\* The caches are left alone while the block goes on or is refused.
LEMMA CachesAlone ==
    ASSUME CachesInv, NEW c \in Chains, ~Step(c, "commit"),
           UNCHANGED <<stored, cachedEntries, rootCache, height, ledger>>,
           connecting' \in [Chains -> {None} \cup Connections],
           \A d \in Chains : d # c => connecting'[d] = connecting[d],
           ~Step("main", "commit")', ~Step(c, "commit")',
           window' \in -1..MaxWindow, window' >= 0 <=> window >= 0, window' <= window
    PROVE  CachesTypeOK' /\ MainExact' /\ TempExact'
<1>1. CachesTypeOK /\ OneAtATime /\ MainExact /\ TempExact
  BY Zenon DEF CachesInv
<1>2. CachesTypeOK' /\ MainExact'
  BY <1>1, Zenon DEF CachesTypeOK, MainExact
<1>3. TempExact'
  <2> SUFFICES ASSUME window' >= 0 PROVE TempExact!2'
    BY Zenon DEF TempExact
  <2>1. window >= 0
    BY Zenon
  <2>2. /\ ledger["temp"].roots = stored.roots \cup ToSet(rootCache["temp"])
        /\ stored.nullifiers \subseteq ledger["temp"].nullifiers
        /\ Len(rootCache["temp"]) <= MaxTxoRoots + (height["temp"] - height["main"])
        /\ \A x \in Nullifiers :
             Excused(x) \/ (NullifierAnswer("temp", x) <=> x \in ledger["temp"].nullifiers)
    BY <1>1, <2>1, Zenon DEF TempExact
  <2>4. \A x \in Nullifiers :
           Excused(x)' \/ (NullifierAnswer("temp", x)' <=> x \in ledger'["temp"].nullifiers)
    <3>1. CASE c = "temp"
      BY <2>2, <3>1, Zenon DEF Excused, Unknown, NullifierAnswer
    <3>2. CASE c = "main"
      <4>1. connecting'["temp"] = connecting["temp"]
        BY <3>2, ChainNames, Zenon
      <4> QED
        BY <2>2, <4>1, Zenon DEF Excused, Unknown, NullifierAnswer, Step, Entered
    <3> QED
      BY <3>1, <3>2 DEF Chains
  <2> QED
    BY <2>2, <2>4, Zenon
<1> QED
  BY <1>2, <1>3

LEMMA ValidateRootKeeps ==
    ASSUME CachesInv, NEW c \in Chains, ValidateRoot(c)
    PROVE  CachesInv'
<1> DEFINE old == connecting[c]
<1>1. CachesTypeOK /\ Unspent
  BY Zenon DEF CachesInv
<1>2. /\ old.step = "validate" /\ old.todo = <<>>
      /\ UNCHANGED <<stored, cachedEntries, rootCache, height, ledger>>
      /\ \/ connecting' = [connecting EXCEPT ![c].step = "add"] /\ window' = window
         \/ Refuse(c)
  BY Zenon DEF ValidateRoot, Step
<1>3. ~Step(c, "commit") /\ ~Idle(c)
  BY <1>2, "validate" # "idle", "validate" # "commit", Zenon DEF Idle, Step
<1>4. old \in Connections
  BY <1>1, <1>3, PartsOfChain, Zenon
<1>5. CASE Refuse(c)
  <2>1. /\ connecting' \in [Chains -> {None} \cup Connections]
        /\ Idle(c)' /\ \A d \in Chains : d # c => connecting'[d] = connecting[d]
        /\ window' \in -1..MaxWindow
        /\ window' >= 0 <=> window >= 0
        /\ window' <= window
        /\ OneAtATime'
        /\ ~Step("main", "commit")'
    BY <1>3, <1>5, Refused, Zenon
  <2>2. ~Step(c, "commit")'
    BY <2>1, "idle" # "commit", Zenon DEF Idle, Step
  <2>3. CachesTypeOK' /\ MainExact' /\ TempExact'
    BY <1>2, <1>3, <2>1, <2>2, CachesAlone, Zenon
  <2>4. Unspent'
    BY <1>1, <1>2, <2>1, Zenon DEF Unspent, Unknown, Idle, Step
  <2> QED
    BY <2>1, <2>3, <2>4, Zenon DEF CachesInv
<1>6. CASE connecting' = [connecting EXCEPT ![c].step = "add"] /\ window' = window
  <2> DEFINE v == [old EXCEPT !.step = "add"]
  <2>1. /\ v \in Connections /\ v.step = "add"
        /\ v.block = old.block /\ v.todo = old.todo
    BY <1>4, SMT DEF Connections, Steps
  <2>2. connecting' = [connecting EXCEPT ![c] = v]
    BY <1>6, Zenon
  <2> HIDE DEF v
  <2>3. /\ connecting' \in [Chains -> {None} \cup Connections]
        /\ ~Idle(c)' /\ connecting'[c] = v
        /\ \A d \in Chains : d # c => connecting'[d] = connecting[d]
        /\ OneAtATime'
        /\ ~Step("main", "commit")'
    BY <1>3, <1>6, <2>1, <2>2, "add" # "commit", Advanced, Zenon
  <2>4. ~Step(c, "commit")'
    BY <2>1, <2>3, "add" # "commit", Zenon DEF Step
  <2>5. window' \in -1..MaxWindow /\ (window' >= 0 <=> window >= 0) /\ window' <= window
    <3>1. window \in -1..MaxWindow
      BY <1>1, Zenon DEF CachesTypeOK
    <3> QED
      BY <1>6, <3>1, CachesAssumption, SMT
  <2>6. CachesTypeOK' /\ MainExact' /\ TempExact'
    BY <1>2, <1>3, <2>3, <2>4, <2>5, CachesAlone, Zenon
  <2>7. Unspent'
    <3>1. \A d \in Chains : /\ ~Idle(d)' => ~Idle(d)
                            /\ connecting'[d].block = connecting[d].block
                            /\ connecting'[d].todo = connecting[d].todo
      BY <1>3, <2>1, <2>3, Zenon DEF Idle, Step
    <3>2. \A d \in Chains : connecting'[d].step = connecting[d].step \/ connecting[d].todo = <<>>
      BY <1>2, <2>3, Zenon
    <3> QED
      BY <1>1, <1>2, <3>1, <3>2, Zenon DEF Unspent, Unknown
  <2> QED
    BY <2>3, <2>6, <2>7, Zenon DEF CachesInv
<1> QED
  BY <1>2, <1>5, <1>6

LEMMA AddNullifiersKeeps ==
    ASSUME CachesInv, NEW c \in Chains, AddNullifiers(c)
    PROVE  CachesInv'
<1> DEFINE old == connecting[c]
           v   == [old EXCEPT !.step = "commit"]
           m   == Without(cachedEntries[c], Entered(c))
<1>1. CachesTypeOK /\ OneAtATime /\ MainExact /\ TempExact /\ Unspent
  BY Zenon DEF CachesInv
<1>2. /\ old.step = "add"
      /\ cachedEntries' = [cachedEntries EXCEPT ![c] = m]
      /\ connecting' = [connecting EXCEPT ![c] = v]
      /\ UNCHANGED <<stored, rootCache, height, window, ledger>>
  BY Zenon DEF AddNullifiers, Step
<1>3. ~Step(c, "commit") /\ ~Idle(c)
  BY <1>2, "add" # "idle", "add" # "commit", Zenon DEF Idle, Step
<1>4. old \in Connections
  BY <1>1, <1>3, PartsOfChain, Zenon
<1>5. /\ v \in Connections /\ v.step = "commit"
      /\ v.block = old.block /\ v.todo = old.todo
  BY <1>4, SMT DEF Connections, Steps
<1>6. /\ DOMAIN m \in SUBSET Nullifiers /\ m \in [DOMAIN m -> BOOLEAN]
      /\ DOMAIN m = DOMAIN cachedEntries[c] \ Entered(c)
      /\ \A x \in DOMAIN m : m[x] = cachedEntries[c][x]
  BY <1>1, PartsOfChain, Zenon DEF Without
<1> HIDE DEF v, m
<1>7. /\ connecting' \in [Chains -> {None} \cup Connections]
      /\ connecting'[c] = v /\ \A d \in Chains : d # c => connecting'[d] = connecting[d]
  BY <1>1, <1>2, <1>5, Zenon DEF CachesTypeOK
<1>8. /\ DOMAIN cachedEntries' = Chains /\ cachedEntries'[c] = m
      /\ \A d \in Chains : d # c => cachedEntries'[d] = cachedEntries[d]
  BY <1>1, <1>2, Zenon DEF CachesTypeOK
<1>9. Entered(c)' = Entered(c)
  BY <1>5, <1>7, Zenon DEF Entered
<1>10. CachesTypeOK'
  BY <1>1, <1>2, <1>6, <1>7, <1>8, Zenon DEF CachesTypeOK
<1>11. OneAtATime'
  BY <1>1, <1>2, <1>3, <1>7, Zenon DEF OneAtATime, Idle, Step, Chains
<1>12. Unspent'
  <2>1. \A d \in Chains : /\ ~Idle(d)' => ~Idle(d)
                          /\ connecting'[d].block = connecting[d].block
                          /\ connecting'[d].todo = connecting[d].todo
    BY <1>3, <1>5, <1>7, Zenon DEF Idle, Step
  <2>2. \A d \in Chains : connecting'[d].step = connecting[d].step \/ connecting[d].step = "add"
    BY <1>2, <1>7, Zenon
  <2> QED
    BY <1>1, <1>2, <2>1, <2>2, "add" # "validate", Zenon DEF Unspent, Unknown
<1>13. MainExact'
  <2>1. CASE c = "main"
    <3>1. \A n \in DOMAIN m : m[n] <=> n \in stored.nullifiers
      BY <1>1, <1>6, <2>1, Zenon DEF MainExact
    <3>2. Entered(c)' \cap DOMAIN m = {}
      BY <1>6, <1>9, Zenon
    <3> QED
      BY <1>1, <1>2, <1>8, <2>1, <3>1, <3>2, Zenon DEF MainExact
  <2>2. CASE c = "temp"
    <3>1. cachedEntries'["main"] = cachedEntries["main"] /\ connecting'["main"] = connecting["main"]
      BY <1>7, <1>8, <2>2, ChainNames, Zenon
    <3> QED
      BY <1>1, <1>2, <3>1, Zenon DEF MainExact, Step, Entered
  <2> QED
    BY <2>1, <2>2 DEF Chains
<1>14. TempExact'
  <2>1. CASE c = "main"
    <3>1. cachedEntries'["temp"] = cachedEntries["temp"] /\ connecting'["temp"] = connecting["temp"]
      BY <1>7, <1>8, <2>1, ChainNames, Zenon
    <3> QED
      BY <1>1, <1>2, <3>1, Zenon DEF TempExact, Excused, Unknown, NullifierAnswer, Step, Entered
  <2>2. CASE c = "temp"
    <3>1. \A x : x \in Entered(c) => Excused(x)'
      BY <1>5, <1>7, <1>9, <2>2, Zenon DEF Excused, Step
    <3>2. \A x : x \notin Entered(c) =>
                    NullifierAnswer("temp", x)' = NullifierAnswer("temp", x)
      BY <1>2, <1>6, <1>8, <2>2, Zenon DEF NullifierAnswer
    <3>3. \A x : Excused(x) => Excused(x)'
      BY <1>2, <1>3, <2>2, Zenon DEF Excused, Unknown
    <3> QED
      BY <1>1, <1>2, <3>1, <3>2, <3>3, Zenon DEF TempExact
  <2> QED
    BY <2>1, <2>2 DEF Chains
<1> QED
  BY <1>10, <1>11, <1>12, <1>13, <1>14, Zenon DEF CachesInv

\* The root cache of main: what it drops is in the datastore.
LEMMA UpdateMainCache ==
    ASSUME NEW c, c = "main", NEW r \in Int, rootCache[c] \in Seq(Int),
           Len(rootCache[c]) <= MaxTxoRoots
    PROVE  /\ UpdateCache(c, r) \in Seq(Int)
           /\ ToSet(UpdateCache(c, r)) \subseteq ToSet(rootCache[c]) \cup {r}
           /\ Len(UpdateCache(c, r)) <= MaxTxoRoots
<1> DEFINE s == rootCache[c]
<1>1. MaxRoots(c) = MaxTxoRoots /\ MaxTxoRoots \in Nat
  BY CachesAssumption DEF MaxRoots
<1>2. CASE MaxTxoRoots = 0
  BY <1>1, <1>2 DEF UpdateCache
<1>3. CASE MaxTxoRoots # 0 /\ Len(s) + 1 > MaxTxoRoots
  <2>1. UpdateCache(c, r) = Append(Tail(s), r)
    BY <1>1, <1>3 DEF UpdateCache
  <2>2. s \in Seq(Int) /\ s # <<>>
    BY <1>1, <1>3, SMT
  <2>3. Tail(s) \in Seq(Int) /\ ToSet(Tail(s)) \subseteq ToSet(s) /\ Len(Tail(s)) = Len(s) - 1
    BY <2>2, TailToSet, Zenon
  <2>4. ToSet(Append(Tail(s), r)) = ToSet(Tail(s)) \cup {r}
    BY <2>3, AppendToSet, Zenon
  <2>5. Append(Tail(s), r) \in Seq(Int) /\ Len(Append(Tail(s), r)) <= MaxTxoRoots
    BY <1>1, <2>2, <2>3, SMT
  <2> QED
    BY <2>1, <2>3, <2>4, <2>5, Zenon
<1>4. CASE MaxTxoRoots # 0 /\ ~(Len(s) + 1 > MaxTxoRoots)
  <2>1. UpdateCache(c, r) = Append(s, r)
    BY <1>1, <1>4 DEF UpdateCache
  <2>2. ToSet(Append(s, r)) = ToSet(s) \cup {r}
    BY AppendToSet, Zenon
  <2>3. Append(s, r) \in Seq(Int) /\ Len(Append(s, r)) <= MaxTxoRoots
    BY <1>1, <1>4, SMT
  <2> QED
    BY <2>1, <2>2, <2>3, Zenon
<1> QED
  BY <1>2, <1>3, <1>4

\* The root cache of temp drops nothing within a window.
LEMMA UpdateTempCache ==
    ASSUME NEW c, c = "temp", NEW r \in Int, rootCache[c] \in Seq(Int), window \in 1..MaxWindow,
           NEW made \in Int, made = height["temp"] - height["main"],
           Len(rootCache[c]) <= MaxTxoRoots + made
    PROVE  /\ UpdateCache(c, r) \in Seq(Int)
           /\ ToSet(UpdateCache(c, r)) = ToSet(rootCache[c]) \cup {r}
           /\ Len(UpdateCache(c, r)) <= MaxTxoRoots + made + 1
<1> DEFINE s == rootCache[c]
<1>1. MaxRoots(c) = MaxTxoRoots + made + window /\ MaxTxoRoots \in Nat /\ MaxWindow \in Nat
  BY CachesAssumption, ChainNames DEF MaxRoots
<1>2. MaxRoots(c) # 0 /\ ~(Len(s) + 1 > MaxRoots(c))
  BY <1>1, SMT
<1>3. UpdateCache(c, r) = Append(s, r)
  BY <1>2, Zenon DEF UpdateCache
<1>4. ToSet(Append(s, r)) = ToSet(s) \cup {r}
  BY AppendToSet, Zenon
<1>5. Append(s, r) \in Seq(Int) /\ Len(Append(s, r)) <= MaxTxoRoots + made + 1
  BY <1>1, SMT
<1> QED
  BY <1>3, <1>4, <1>5, Zenon

LEMMA CommitKeeps ==
    ASSUME CachesInv, NEW c \in Chains, Commit(c)
    PROVE  CachesInv'
<1> DEFINE b   == connecting[c].block
           h   == height[c] + 1
           r   == IF c = "main" THEN h ELSE -h
           new == IF b.outputs THEN {r} ELSE {}
           rc  == IF new = {} THEN rootCache[c] ELSE UpdateCache(c, CHOOSE x \in new : TRUE)
           E   == Entered(c)
           m   == Remembered(c)
           L   == [nullifiers |-> ledger[c].nullifiers \cup E,
                   roots |-> ledger[c].roots \cup new,
                   banned |-> ledger[c].banned \cup b.bans,
                   evicted |-> ledger[c].evicted]
<1>1. CachesTypeOK /\ OneAtATime /\ MainExact /\ TempExact /\ Unspent
  BY Zenon DEF CachesInv
<1>2. /\ connecting[c].step = "commit"
      /\ stored' = IF c = "temp" THEN stored
                   ELSE [nullifiers |-> stored.nullifiers \cup E, roots |-> stored.roots \cup new]
      /\ rootCache' = [rootCache EXCEPT ![c] = rc]
      /\ height' = [height EXCEPT ![c] = h]
      /\ cachedEntries' = [cachedEntries EXCEPT ![c] = m]
      /\ ledger' = [ledger EXCEPT ![c] = L]
      /\ window' = IF c = "temp" THEN window - 1 ELSE window
      /\ connecting' = [connecting EXCEPT ![c] = None]
  BY Zenon DEF Commit, Step
<1>3. Step(c, "commit") /\ ~Idle(c)
  BY <1>2, "commit" # "idle", Zenon DEF Idle, Step
<1>4. /\ connecting[c] \in Connections
      /\ DOMAIN cachedEntries[c] \in SUBSET Nullifiers
      /\ cachedEntries[c] \in [DOMAIN cachedEntries[c] -> BOOLEAN]
      /\ rootCache[c] \in Seq(Int) /\ height[c] \in Nat /\ ledger[c] \in Ledgers
  BY <1>1, <1>3, PartsOfChain, Zenon
<1>5. b \in Blocks
  BY <1>4, Zenon DEF Connections
<1>6. /\ E = ToSet(b.spends) \cup b.bans
      /\ ToSet(b.spends) \subseteq Nullifiers /\ b.bans \subseteq Nullifiers
  BY <1>5, BlockParts, Zenon DEF Entered
<1>7. r \in Int /\ h \in Nat
  BY <1>4, SMT
<1>8. /\ DOMAIN m \in SUBSET Nullifiers /\ m \in [DOMAIN m -> BOOLEAN]
      /\ c = "main" => m = cachedEntries[c]
      /\ c = "temp" => /\ DOMAIN m = DOMAIN cachedEntries[c] \cup ToSet(b.spends)
                       /\ \A n \in ToSet(b.spends) : m[n] = TRUE
                       /\ \A n \in DOMAIN cachedEntries[c] \ ToSet(b.spends) :
                             m[n] = cachedEntries[c][n]
  <2>1. CASE c = "main"
    <3>1. m = cachedEntries[c]
      BY <2>1, Zenon DEF Remembered
    <3> QED
      BY <1>4, <2>1, <3>1, ChainNames, Zenon
  <2>2. CASE c = "temp"
    <3>1. m = [n \in DOMAIN cachedEntries[c] \cup ToSet(b.spends) |->
                  IF n \in ToSet(b.spends) THEN TRUE ELSE cachedEntries[c][n]]
      BY <2>2, ChainNames, Zenon DEF Remembered
    <3>2. DOMAIN m = DOMAIN cachedEntries[c] \cup ToSet(b.spends)
      BY <3>1, Zenon
    <3>3. /\ \A n \in ToSet(b.spends) : m[n] = TRUE
          /\ \A n \in DOMAIN cachedEntries[c] \ ToSet(b.spends) : m[n] = cachedEntries[c][n]
      BY <3>1, Zenon
    <3>4. m \in [DOMAIN m -> BOOLEAN]
      <4>1. \A n \in DOMAIN m : m[n] \in BOOLEAN
        BY <1>4, <3>2, <3>3, Zenon
      <4> QED
        BY <3>1, <3>2, <4>1, Zenon
    <3> QED
      BY <1>4, <1>6, <2>2, <3>2, <3>3, <3>4, ChainNames, Zenon
  <2> QED
    BY <2>1, <2>2 DEF Chains
<1>9. /\ L \in Ledgers
      /\ L.nullifiers = ledger[c].nullifiers \cup E
      /\ L.roots = ledger[c].roots \cup new
      /\ L.banned = ledger[c].banned \cup b.bans
      /\ L.evicted = ledger[c].evicted
  BY <1>4, <1>6, <1>7, SMT DEF Ledgers
<1>10. CASE c = "main"
  <2>1. window = -1 /\ window' = -1
    BY <1>1, <1>2, <1>3, <1>10, ChainNames, Zenon DEF OneAtATime
  <2>2. /\ Len(rootCache[c]) <= MaxTxoRoots /\ ToSet(rootCache[c]) \subseteq stored.roots
    BY <1>1, <1>10, Zenon DEF MainExact
  <2>3. /\ rc \in Seq(Int) /\ ToSet(rc) \subseteq ToSet(rootCache[c]) \cup new
        /\ Len(rc) <= MaxTxoRoots
    <3>1. CASE new = {}
      BY <1>4, <2>2, <3>1, Zenon
    <3>2. CASE new = {r}
      <4>1. (CHOOSE x \in new : TRUE) = r
        BY <3>2
      <4>2. rc = UpdateCache(c, r)
        BY <3>2, <4>1, Zenon
      <4> QED
        BY <1>4, <1>7, <1>10, <2>2, <3>2, <4>2, UpdateMainCache, Zenon
    <3> QED
      BY <3>1, <3>2, Zenon
  <2> HIDE DEF b, h, new, rc, E, m, L, r
  <2>4. /\ stored'.nullifiers = stored.nullifiers \cup E
        /\ stored'.roots = stored.roots \cup new
        /\ stored' \in [nullifiers : SUBSET Nullifiers, roots : SUBSET Int]
    <3>1. stored' = [nullifiers |-> stored.nullifiers \cup E, roots |-> stored.roots \cup new]
      BY <1>2, <1>10, ChainNames, Zenon
    <3>2. /\ stored \in [nullifiers : SUBSET Nullifiers, roots : SUBSET Int]
          /\ E \subseteq Nullifiers
      BY <1>1, <1>6, Zenon DEF CachesTypeOK
    <3>3. new \subseteq Int
      BY <1>7, Zenon DEF new
    <3> QED
      <4>1. stored.nullifiers \cup E \in SUBSET Nullifiers
        BY <3>2, SMT
      <4>2. stored.roots \cup new \in SUBSET Int
        BY <3>2, <3>3, Zenon
      <4> QED
        BY <3>1, <4>1, <4>2, Zenon
  <2>5. /\ rootCache' \in [Chains -> Seq(Int)] /\ rootCache'["main"] = rc
        /\ height' \in [Chains -> Nat]
        /\ ledger' \in [Chains -> Ledgers] /\ ledger'["main"] = L
        /\ connecting' \in [Chains -> {None} \cup Connections]
        /\ connecting'["main"] = None /\ connecting'["temp"] = connecting["temp"]
        /\ DOMAIN cachedEntries' = Chains /\ cachedEntries'["main"] = m
        /\ cachedEntries'["temp"] = cachedEntries["temp"]
    BY <1>1, <1>2, <1>7, <1>9, <1>10, <2>3, ChainNames, Zenon DEF CachesTypeOK
  <2>6. CachesTypeOK'
    <3>1. \A d \in Chains : \E S \in SUBSET Nullifiers : cachedEntries'[d] \in [S -> BOOLEAN]
      BY <1>1, <1>8, <2>5, Zenon DEF CachesTypeOK, Chains
    <3>2. window' \in -1..MaxWindow
      BY <2>1, CachesAssumption, SMT
    <3> QED
      BY <2>4, <2>5, <3>1, <3>2, Zenon DEF CachesTypeOK
  <2>7. Idle("main")' /\ Idle("temp")' /\ ~Step("main", "commit")'
    <3>1. Idle("temp")
      BY <1>1, <2>1, SMT DEF OneAtATime
    <3>2. None.step = "idle"
      BY DEF None
    <3> QED
      BY <2>5, <3>1, <3>2, "idle" # "commit", Zenon DEF Idle, Step
  <2>8. OneAtATime' /\ Unspent'
    BY <2>7, Zenon DEF OneAtATime, Unspent, Chains
  <2>9. TempExact'
    BY <2>1, SMT DEF TempExact
  <2>10. MainExact'
    <3>1. E \cap DOMAIN cachedEntries["main"] = {}
      BY <1>1, <1>3, <1>10, Zenon DEF MainExact, E
    <3>2. \A n \in DOMAIN cachedEntries["main"] :
             cachedEntries["main"][n] <=> n \in stored'.nullifiers
      BY <1>1, <2>4, <3>1, Zenon DEF MainExact
    <3>3. L.nullifiers = stored'.nullifiers /\ L.roots = stored'.roots
      BY <1>1, <1>9, <1>10, <2>4, Zenon DEF MainExact
    <3>4. ToSet(rc) \subseteq stored'.roots
      BY <2>2, <2>3, <2>4, Zenon
    <3> QED
      BY <1>8, <1>10, <2>3, <2>5, <2>7, <3>2, <3>3, <3>4, Zenon DEF MainExact
  <2> QED
    BY <2>6, <2>8, <2>9, <2>10, Zenon DEF CachesInv
<1>11. CASE c = "temp"
  <2>1. window \in 1..MaxWindow /\ window' = window - 1
    <3>1. window > 0 /\ window \in -1..MaxWindow /\ window' = window - 1
      BY <1>1, <1>2, <1>3, <1>11, Zenon DEF OneAtATime, CachesTypeOK
    <3> QED
      BY <3>1, CachesAssumption, SMT
  <2>2. /\ \A n \in Nullifiers :
              Excused(n) \/ (NullifierAnswer(c, n) <=> n \in ledger[c].nullifiers)
        /\ stored.nullifiers \subseteq ledger[c].nullifiers
        /\ ledger[c].roots = stored.roots \cup ToSet(rootCache[c])
        /\ Len(rootCache[c]) <= MaxTxoRoots + (height["temp"] - height["main"])
    <3>1. window >= 0
      BY <2>1, CachesAssumption, SMT
    <3> QED
      BY <1>1, <1>11, <3>1, Zenon DEF TempExact
  <2>20. PICK made \in Int : made = height["temp"] - height["main"]
    BY <1>1, SMT DEF CachesTypeOK, Chains
  <2>3. /\ rc \in Seq(Int) /\ ToSet(rc) = ToSet(rootCache[c]) \cup new
        /\ Len(rc) <= MaxTxoRoots + made + 1
    <3>1. CASE new = {}
      <4>1. Len(rootCache[c]) <= MaxTxoRoots + made + 1
        BY <1>4, <2>2, <2>20, CachesAssumption, SMT
      <4> QED
        BY <1>4, <3>1, <4>1, Zenon
    <3>2. CASE new = {r}
      <4>1. (CHOOSE x \in new : TRUE) = r
        BY <3>2
      <4>2. rc = UpdateCache(c, r)
        BY <3>2, <4>1, Zenon
      <4> QED
        <5>1. Len(rootCache[c]) <= MaxTxoRoots + made
          BY <2>2, <2>20, Zenon
        <5> QED
          BY <1>4, <1>7, <1>11, <2>1, <2>20, <3>2, <4>2, <5>1, UpdateTempCache, Zenon
    <3> QED
      BY <3>1, <3>2, Zenon
  <2> HIDE DEF h, new, rc, L, r
  <2>4. stored' = stored
    BY <1>2, <1>11, Zenon
  <2>5. /\ rootCache' \in [Chains -> Seq(Int)] /\ rootCache'["temp"] = rc
        /\ rootCache'["main"] = rootCache["main"]
        /\ height' \in [Chains -> Nat]
        /\ height'["temp"] = h /\ height'["main"] = height["main"]
        /\ ledger' \in [Chains -> Ledgers] /\ ledger'["temp"] = L
        /\ ledger'["main"] = ledger["main"]
        /\ connecting' \in [Chains -> {None} \cup Connections]
        /\ connecting'["temp"] = None /\ connecting'["main"] = connecting["main"]
        /\ DOMAIN cachedEntries' = Chains /\ cachedEntries'["temp"] = m
        /\ cachedEntries'["main"] = cachedEntries["main"]
    <3> HIDE DEF b, E, m
    <3> QED
      BY <1>1, <1>2, <1>7, <1>9, <1>11, <2>3, ChainNames, Zenon DEF CachesTypeOK
  <2>6. CachesTypeOK'
    <3>1. \A d \in Chains : \E S \in SUBSET Nullifiers : cachedEntries'[d] \in [S -> BOOLEAN]
      <4> HIDE DEF b, E, m
      <4>1. \A d \in Chains : \E S \in SUBSET Nullifiers : cachedEntries[d] \in [S -> BOOLEAN]
        BY <1>1, Zenon DEF CachesTypeOK
      <4> QED
        BY <1>8, <2>5, <4>1, Zenon DEF Chains
    <3>2. window' \in -1..MaxWindow
      BY <2>1, CachesAssumption, SMT
    <3> QED
      BY <1>1, <2>4, <2>5, <3>1, <3>2, Zenon DEF CachesTypeOK
  <2>7. Idle("main")' /\ Idle("temp")' /\ ~Step("main", "commit")' /\ ~Step("temp", "commit")'
    <3>1. Idle("main")
      BY <1>1, <2>1, SMT DEF OneAtATime
    <3>2. None.step = "idle"
      BY DEF None
    <3> QED
      BY <2>5, <3>1, <3>2, "idle" # "commit", Zenon DEF Idle, Step
  <2>8. OneAtATime' /\ Unspent'
    BY <2>7, Zenon DEF OneAtATime, Unspent, Chains
  <2>9. MainExact'
    BY <1>1, <2>4, <2>5, <2>7, Zenon DEF MainExact
  <2>10. TempExact'
    <3>1. \A n \in Nullifiers :
             Excused(n)' \/ (NullifierAnswer("temp", n)' <=> n \in ledger'["temp"].nullifiers)
      <4> SUFFICES ASSUME NEW n \in Nullifiers, n \notin L.banned, n \notin L.evicted
                   PROVE  NullifierAnswer("temp", n)' <=> n \in L.nullifiers
        BY <2>5, ChainNames, Zenon DEF Excused, Unknown
      <4>1. n \notin ledger[c].banned /\ n \notin b.bans /\ n \notin ledger[c].evicted
        BY <1>9, Zenon
      <4>2. CASE n \in ToSet(b.spends)
        <5>1. NullifierAnswer("temp", n)'
          BY <1>8, <1>11, <2>5, <4>2, Zenon DEF NullifierAnswer
        <5>2. n \in L.nullifiers
          BY <1>6, <1>9, <4>2, Zenon
        <5> QED
          BY <5>1, <5>2
      <4>3. CASE n \notin ToSet(b.spends)
        <5>1. n \notin E
          BY <1>6, <4>1, <4>3, Zenon
        <5>2. NullifierAnswer(c, n) <=> n \in ledger[c].nullifiers
          <6>1. ~Excused(n)
            BY <1>11, <4>1, <5>1, ChainNames, Zenon DEF Excused, Unknown
          <6> QED
            BY <2>2, <6>1, Zenon
        <5>3. NullifierAnswer("temp", n)' = NullifierAnswer(c, n)
          BY <1>8, <1>11, <2>4, <2>5, <4>3, Zenon DEF NullifierAnswer
        <5> QED
          BY <1>9, <5>1, <5>2, <5>3, Zenon
      <4> QED
        BY <4>2, <4>3
    <3>2. ledger'["temp"].roots = stored'.roots \cup ToSet(rootCache'["temp"])
      <4>1. L.roots = (stored.roots \cup ToSet(rootCache[c])) \cup new
        BY <1>9, <2>2, Zenon
      <4> QED
        BY <2>3, <2>4, <2>5, <4>1, SMT
    <3>3. Len(rootCache'["temp"]) <= MaxTxoRoots + (height'["temp"] - height'["main"])
      <4>1. height["temp"] \in Nat /\ height["main"] \in Nat /\ Len(rc) \in Nat
        BY <1>1, <2>3, SMT DEF CachesTypeOK, Chains
      <4>2. height'["temp"] = height["temp"] + 1
        BY <1>11, <2>5, Zenon DEF h
      <4> QED
        BY <2>3, <2>5, <2>20, <4>1, <4>2, CachesAssumption, SMT
    <3>4. stored'.nullifiers \subseteq ledger'["temp"].nullifiers
      BY <1>9, <2>2, <2>4, <2>5, Zenon
    <3> QED
      BY <3>1, <3>2, <3>3, <3>4, Zenon DEF TempExact
  <2> QED
    BY <2>6, <2>8, <2>9, <2>10, Zenon DEF CachesInv
<1> QED
  BY <1>10, <1>11 DEF Chains

-----------------------------------------------------------------------------
(* The theorems.                                                           *)

LEMMA NextKeeps ==
    ASSUME CachesInv, [CachesNext]_cachesVars
    PROVE  CachesInv'
<1>1. CASE UNCHANGED cachesVars
  <2>1. UNCHANGED <<stored, cachedEntries, rootCache, height, connecting, window, ledger>>
    BY <1>1, Zenon DEF cachesVars
  <2>2. CachesTypeOK' /\ OneAtATime' /\ Unspent'
    BY <2>1, Zenon DEF CachesInv, CachesTypeOK, OneAtATime, Unspent, Unknown, Idle, Step
  <2>3. MainExact' /\ TempExact'
    BY <2>1, Zenon DEF CachesInv, MainExact, TempExact, Excused, Unknown, NullifierAnswer, Step, Entered
  <2> QED
    BY <2>2, <2>3, Zenon DEF CachesInv
<1>2. CASE LookUp \/ CalcChainScore \/ Scored \/ CommitFails \/ RestartCaches
  BY <1>2, LookUpKeeps, CalcChainScoreKeeps, ScoredKeeps, CommitFailsKeeps,
     RestartCachesKeeps, Zenon
<1>3. CASE \E c \in Chains : \E b \in Blocks : StartConnect(c, b)
  BY <1>3, StartConnectKeeps, Zenon
<1>4. CASE \E c \in Chains : \/ ValidateNullifier(c) \/ ValidateRoot(c)
                             \/ AddNullifiers(c) \/ Commit(c)
  BY <1>4, ValidateNullifierKeeps, ValidateRootKeeps, AddNullifiersKeeps, CommitKeeps, Zenon
<1> QED
  BY <1>1, <1>2, <1>3, <1>4, Zenon DEF CachesNext

\* The inductive invariant: what the caches, the datastore and the ledgers
\* have to do with each other at every step of ConnectBlock on either chain.
THEOREM CachesInvariant == CachesSpec => []CachesInv
<1> QED
  BY InitCaches, NextKeeps, PTL DEF CachesSpec

\* Between blocks, NullifierExists and RootExists answer what the blocks of
\* the chain say, on the node's chain and on the temporary one of
\* CalcChainScore, whatever is cached and evicted and at whichever step a
\* commit fails or the process restarts.  No limit of a cache is assumed: on
\* the temporary chain all but what a window bans or its cache has dropped is
\* answered right.
THEOREM CachesAnswer == CachesSpec => []AnswersTrue
<1>1. CachesInv => AnswersTrue
  <2> SUFFICES ASSUME CachesInv, NEW c \in Chains, Idle(c), c = "temp" => window >= 0
               PROVE  /\ \A n \in Nullifiers \ Unknown(c) :
                            NullifierAnswer(c, n) = (n \in ledger[c].nullifiers)
                      /\ \A r \in Roots : RootExists(c, r) = (r \in ledger[c].roots)
    BY Zenon DEF AnswersTrue
  <2>1. CachesTypeOK /\ MainExact /\ TempExact
    BY Zenon DEF CachesInv
  <2>2. \A n \in Nullifiers : NullifierAnswer(c, n) \in BOOLEAN
    <3>1. cachedEntries[c] \in [DOMAIN cachedEntries[c] -> BOOLEAN]
      BY <2>1, PartsOfChain, Zenon
    <3>2. \A n \in DOMAIN cachedEntries[c] : cachedEntries[c][n] \in BOOLEAN
      BY <3>1, Zenon
    <3>3. \A n : (n \in stored.nullifiers) \in BOOLEAN
      OBVIOUS
    <3> QED
      BY <3>2, <3>3, Zenon DEF NullifierAnswer
  <2>3. \A n \in Nullifiers \ Unknown(c) :
            NullifierAnswer(c, n) <=> (n \in ledger[c].nullifiers)
    <3>1. CASE c = "main"
      BY <2>1, <3>1, Zenon DEF MainExact, NullifierAnswer
    <3>2. CASE c = "temp"
      <4>1. ~Step("temp", "commit")
        BY <3>2, "idle" # "commit", Zenon DEF Idle, Step
      <4> QED
        BY <2>1, <3>2, <4>1, Zenon DEF TempExact, Excused
    <3> QED
      BY <3>1, <3>2 DEF Chains
  <2>4. \A n \in Nullifiers \ Unknown(c) :
            NullifierAnswer(c, n) = (n \in ledger[c].nullifiers)
    BY <2>2, <2>3
  <2>5. \A r \in Roots : RootExists(c, r) <=> (r \in ledger[c].roots)
    <3>1. CASE c = "main"
      BY <2>1, <3>1, Zenon DEF MainExact, RootExists
    <3>2. CASE c = "temp"
      BY <2>1, <3>2, Zenon DEF TempExact, RootExists
    <3> QED
      BY <3>1, <3>2 DEF Chains
  <2>6. \A r \in Roots : RootExists(c, r) = (r \in ledger[c].roots)
    BY <2>5 DEF RootExists
  <2> QED
    BY <2>4, <2>6
<1> QED
  BY <1>1, CachesInvariant, PTL

\* A block that has passed validateBlock spends no nullifier that its chain
\* has spent: on main none at all, on temp none but those the window bans and
\* those that its cache has dropped.
NoDoubleSpend ==
    \A c \in Chains : Step(c, "add") \/ Step(c, "commit") =>
        ToSet(connecting[c].block.spends) \cap ledger[c].nullifiers
            \subseteq Unknown(c)

\* Whatever the limit of its cache, the node's chain never lets a double spend
\* through, up to the commit; a window that is scored only one of a nullifier
\* that is Unknown.
THEOREM CachesStopDoubleSpends == CachesSpec => []NoDoubleSpend
<1>1. CachesInv => NoDoubleSpend
  <2> SUFFICES ASSUME CachesInv, NEW c \in Chains, Step(c, "add") \/ Step(c, "commit"),
                      NEW n \in ToSet(connecting[c].block.spends), n \in ledger[c].nullifiers
               PROVE  n \in Unknown(c)
    BY Zenon DEF NoDoubleSpend
  <2>1. ~Idle(c) /\ connecting[c].step # "validate"
    BY "add" # "idle", "commit" # "idle", "add" # "validate", "commit" # "validate",
       Zenon DEF Idle, Step
  <2>2. connecting[c].todo = <<>>
    BY <2>1, Zenon DEF CachesInv, Unspent
  <2>3. n \notin ToSet(connecting[c].todo)
    BY <2>2, SMT DEF ToSet
  <2> QED
    BY <2>1, <2>3, Zenon DEF CachesInv, Unspent
<1> QED
  BY <1>1, CachesInvariant, PTL

\* A clone with room for every nullifier: its lookups evict nothing.
LEMMA TempNeverEvicts ==
    ASSUME IsFiniteSet(Nullifiers), DefaultMaxNullifiers >= Cardinality(Nullifiers),
           CachesTypeOK, NEW n \in Nullifiers, n \notin DOMAIN cachedEntries["temp"]
    PROVE  limitCache("temp") = {cachedEntries["temp"]}
<1> DEFINE D == DOMAIN cachedEntries["temp"]
<1>1. D \in SUBSET Nullifiers /\ D # Nullifiers
  BY PartsOfChain, Zenon DEF Chains
<1>2. /\ IsFiniteSet(Nullifiers)
      /\ DefaultMaxNullifiers >= Cardinality(Nullifiers)
      /\ DefaultMaxNullifiers \in Nat
  BY CachesAssumption
<1>3. /\ Cardinality(D) <= Cardinality(Nullifiers)
      /\ Cardinality(Nullifiers) # Cardinality(D)
      /\ IsFiniteSet(D)
  BY <1>1, <1>2, FS_Subset, Zenon
<1>4. Cardinality(D) \in Nat /\ Cardinality(Nullifiers) \in Nat
  BY <1>2, <1>3, FS_CardinalityType
<1> HIDE DEF D
<1>5. ~(Cardinality(D) + 1 > DefaultMaxNullifiers)
  BY <1>2, <1>3, <1>4, SMT
<1>6. MaxEntries("temp") = DefaultMaxNullifiers
  BY DEF MaxEntries
<1> QED
  BY <1>5, <1>6, Zenon DEF limitCache, D

\* While a clone has room for all nullifiers that are looked up, none is dropped,
\* and the bans of a window are all that CalcChainScore does not know.
THEOREM RoomyCloneForgetsNothing ==
    ASSUME IsFiniteSet(Nullifiers), DefaultMaxNullifiers >= Cardinality(Nullifiers)
    PROVE  CachesSpec => [](Unknown("temp") = ledger["temp"].banned)
<1> DEFINE Kept == ledger["temp"].evicted = {}
<1>1. CachesInit => Kept
  BY ChainNames, SMT DEF CachesInit, NoBlocks
<1>2. CachesInv /\ Kept /\ [CachesNext]_cachesVars => Kept'
  <2> SUFFICES ASSUME CachesInv, Kept, [CachesNext]_cachesVars PROVE Kept'
    OBVIOUS
  <2>0. CachesTypeOK
    BY Zenon DEF CachesInv
  <2>1. CASE ledger' = ledger
    BY <2>1
  <2>2. CASE CalcChainScore
    <3>1. ledger' = [ledger EXCEPT !["temp"] =
                 [nullifiers |-> ledger["main"].nullifiers, roots |-> ledger["main"].roots,
                  banned |-> {}, evicted |-> {}]]
          /\ ledger \in [Chains -> Ledgers]
      BY <2>0, <2>2, Zenon DEF CalcChainScore, CachesTypeOK
    <3> QED
      BY <3>1, SMT DEF Ledgers, Chains
  <2>3. CASE Scored \/ RestartCaches
    <3>1. ledger' = [ledger EXCEPT !["temp"] = NoBlocks] /\ ledger \in [Chains -> Ledgers]
      BY <2>0, <2>3, Zenon DEF Scored, RestartCaches, CachesTypeOK
    <3> QED
      BY <3>1, SMT DEF NoBlocks, Chains
  <2>4. CASE \E c \in Chains : Commit(c)
    <3>1. PICK c \in Chains : Commit(c)
      BY <2>4
    <3>2. ledger'["temp"].evicted = ledger["temp"].evicted
      <4>1. PICK N, R, B : ledger' = [ledger EXCEPT ![c] =
                 [nullifiers |-> N, roots |-> R, banned |-> B, evicted |-> ledger[c].evicted]]
        BY <3>1, Zenon DEF Commit
      <4> QED
        BY <4>1, <2>0, SMT DEF CachesTypeOK, Chains
    <3> QED
      BY <3>2
  <2>5. CASE \E c \in Chains : ValidateNullifier(c)
    <3>1. PICK c \in Chains : ValidateNullifier(c)
      BY <2>5
    <3>2. PICK n : n = Head(connecting[c].todo)
      OBVIOUS
    <3>3. n \in Nullifiers
      <4>1. connecting[c].step = "validate" /\ connecting[c].todo # <<>>
        BY <3>1, Zenon DEF ValidateNullifier, Step
      <4>2. ~Idle(c)
        BY <4>1, "validate" # "idle", Zenon DEF Idle, Step
      <4>3. connecting[c] \in Connections
        BY <2>0, <4>2, PartsOfChain, Zenon
      <4>4. connecting[c].todo \in Seq(Nullifiers)
        BY <4>3, Zenon DEF Connections
      <4> QED
        BY <3>2, <4>1, <4>4, TailToSet, Zenon
    <3>4. PICK m \in NullifierExists(c, n) :
             ledger' = [ledger EXCEPT ![c].evicted = @ \cup Forgotten(c, m)]
      BY <3>1, <3>2, Zenon DEF ValidateNullifier
    <3>5. CASE c = "main"
      <4>1. ledger'["temp"] = ledger["temp"]
        BY <2>0, <3>4, <3>5, LedgerKept, ChainNames, Zenon
      <4> QED
        BY <4>1
    <3>6. CASE c = "temp"
      <4>1. ledger'["temp"].evicted = ledger["temp"].evicted \cup Forgotten("temp", m)
        BY <2>0, <3>4, <3>6, LedgerKept, Zenon
      <4>2. DOMAIN cachedEntries["temp"] \subseteq DOMAIN m
        <5>1. CASE m = cachedEntries["temp"]
          BY <5>1
        <5>2. CASE n \notin DOMAIN cachedEntries["temp"]
                   /\ m = With(cachedEntries["temp"], n, n \in stored.nullifiers)
          BY <5>2, Zenon DEF With
        <5> QED
          BY <2>0, <3>3, <3>4, <3>6, <5>1, <5>2, TempNeverEvicts, Zenon DEF NullifierExists
      <4> QED
        BY <4>1, <4>2, Zenon DEF Forgotten
    <3> QED
      BY <3>5, <3>6 DEF Chains
  <2>6. \/ ledger' = ledger \/ CalcChainScore \/ Scored \/ RestartCaches
        \/ (\E c \in Chains : Commit(c)) \/ (\E c \in Chains : ValidateNullifier(c))
    <3>1. LookUp \/ CommitFails \/ UNCHANGED cachesVars => ledger' = ledger
      BY Zenon DEF LookUp, CommitFails, cachesVars
    <3>2. \A c \in Chains : \/ ValidateRoot(c) \/ AddNullifiers(c)
                            \/ (\E b \in Blocks : StartConnect(c, b))
                            => ledger' = ledger
      BY Zenon DEF ValidateRoot, AddNullifiers, StartConnect
    <3> QED
      BY <3>1, <3>2, Zenon DEF CachesNext
  <2> QED
    BY <2>1, <2>2, <2>3, <2>4, <2>5, <2>6
<1>3. Kept => Unknown("temp") = ledger["temp"].banned
  BY ChainNames DEF Unknown
<1> QED
  BY <1>1, <1>2, <1>3, CachesInvariant, PTL DEF CachesSpec

-----------------------------------------------------------------------------
(* Indexes: the inductive invariant and its parts.                         *)

\* The height at which an output appears, and whether it is unspent up to t.
Born(o) == BlockOf[TxOf[o]]
UnspentAt(o, t) == \A tx \in Txs : o \in Spends[tx] => BlockOf[tx] > t

Accs == [elems : Seq(Int), proofs : UNION {[S -> Int] : S \in SUBSET Outputs}]
AnyNullifiers == Outputs \X Int
Entries == (Users \cup {Nobody}) \X Txs
IndexStates == [acc : Accs, keys : SUBSET Users, nullifiers : SUBSET AnyNullifiers,
                best : 0..MaxTip]
WriteSets == [open : BOOLEAN, userTxs : SUBSET Entries,
              put : SUBSET AnyNullifiers, del : SUBSET AnyNullifiers]
Datastores == [txs : SUBSET Txs, txHeight : Heights, keys : SUBSET Users,
               userTxs : SUBSET Entries, nullifiers : SUBSET AnyNullifiers,
               height : Heights, acc : Accs]
RescanStates == [pc : {"none", "scan", "check"}, user : Users \cup {Nobody},
                 height : Nat, best : Nat, acc : Accs,
                 nullifiers : SUBSET AnyNullifiers]

IndexTypes ==
    /\ disk \in Datastores
    /\ tip \in 0..MaxTip
    /\ up \in BOOLEAN
    /\ on \in SUBSET {"tx", "ws"}
    /\ mem \in IndexStates
    /\ dbtx \in WriteSets
    /\ register \in Users \cup {Nobody}
    /\ rescan \in RescanStates
    /\ since \in [Users -> Heights]
    /\ spoiled \in BOOLEAN
    /\ dropped \in SUBSET {"tx", "ws"}

\* The wallet server index runs, and the height of the last block it was given.
Live == up /\ "ws" \in on
Seen == IF dbtx.open THEN tip + 1 ELSE tip

\* An accumulator of exactly the outputs up to h, with right proofs.
ExactAt(acc, h) ==
    /\ acc.elems = OutputsUpTo(h)
    /\ \A o \in DOMAIN acc.proofs : acc.proofs[o] = o /\ o < NumOutputs[h]

\* What a process that is not there leaves alone.
Inactive ==
    /\ ~Live => /\ mem = NoIndex /\ register = Nobody /\ rescan = NoRescan
                /\ dbtx.userTxs = {} /\ dbtx.put = {} /\ dbtx.del = {}
    /\ ~up => dbtx = NoWrites
    /\ dbtx.open => tip < MaxTip

\* The transaction index follows the chain, and lists name connected
\* transactions.
TxIndexed ==
    /\ disk.txHeight <= tip
    /\ up /\ "tx" \in on => disk.txHeight = tip
    /\ "tx" \notin dropped => disk.txs = TxsUpTo(disk.txHeight)
    /\ \A e \in disk.userTxs : BlockOf[e[2]] <= tip
    /\ \A e \in dbtx.userTxs : BlockOf[e[2]] <= tip + 1

\* A rescan's accumulator is exact up to the block before the next.
RescanExact ==
    /\ rescan.pc = "scan" =>
          rescan.height \in 1..(tip + 1) /\ ExactAt(rescan.acc, rescan.height - 1)
    /\ rescan.pc = "check" =>
          rescan.height \in 1..tip /\ ExactAt(rescan.acc, rescan.height)

\* The live accumulator is exact, or missing on a chain of one block.
MemExact ==
    Live => \/ mem.acc = NoAcc /\ tip = 0 /\ mem.best = 0 /\ ~dbtx.open
            \/ mem.best = Seen /\ ExactAt(mem.acc, Seen)

\* The flushed accumulator is exact, of a height the chain has or will have
\* when the block being connected commits.
DiskExact ==
    /\ disk.height <= tip \/ (Live /\ dbtx.open /\ disk.height = tip + 1)
    /\ disk.height > 0 /\ disk.acc # NoAcc => ExactAt(disk.acc, disk.height)

\* A user whose key was stored is known on disk and in memory.
Registered ==
    \A u \in Users : since[u] >= 0 => u \in disk.keys /\ (Live => u \in mem.keys)

\* The list of user u has what concerns it up to height t; nullifiers has those
\* of all its outputs that are unspent at t.
Listed(u, t) ==
    /\ \A o \in Outputs : Owner[o] = u /\ since[u] < Born(o) /\ Born(o) <= t
          => <<u, TxOf[o]>> \in disk.userTxs
    /\ \A tx \in Txs : \A o \in Spends[tx] :
          Owner[o] = u /\ since[u] < Born(o) /\ BlockOf[tx] <= t
             => <<u, tx>> \in disk.userTxs
Tracked(u, t, nullifiers) ==
    \A o \in Outputs :
        Owner[o] = u /\ since[u] < Born(o) /\ Born(o) <= t /\ UnspentAt(o, t)
           => NullifierOf(o) \in nullifiers

\* The datastore is complete up to some height t, at least that of the flushed
\* accumulator: blocks above it are connected again, or for the first time, by
\* the next roll forward.
DiskCompleteAt(t) ==
    /\ t <= tip
    /\ IF Live THEN t = tip ELSE disk.height <= t
    /\ \A u \in Users : since[u] >= 0 => Listed(u, t) /\ Tracked(u, t, disk.nullifiers)
DiskComplete == \E t \in Heights : DiskCompleteAt(t)

MemComplete ==
    Live => \A u \in Users : since[u] >= 0 => Tracked(u, Seen, mem.nullifiers)

\* The transaction of a block that is being connected has what the block adds.
WritesComplete ==
    Live /\ dbtx.open =>
        /\ dbtx.del \subseteq NullifiersSpent(tip, tip + 1)
        /\ \A u \in Users : since[u] >= 0 =>
              /\ \A o \in Outputs :
                    Owner[o] = u /\ since[u] < Born(o) /\ Born(o) = tip + 1
                       => <<u, TxOf[o]>> \in dbtx.userTxs /\ NullifierOf(o) \in dbtx.put
              /\ \A tx \in Txs : \A o \in Spends[tx] :
                    Owner[o] = u /\ since[u] < Born(o) /\ BlockOf[tx] = tip + 1
                       => <<u, tx>> \in dbtx.userTxs

Sound == /\ MemExact /\ DiskExact /\ Registered
         /\ DiskComplete /\ MemComplete /\ WritesComplete

IndexInv == IndexTypes /\ Inactive /\ TxIndexed /\ RescanExact /\ (~spoiled => Sound)

-----------------------------------------------------------------------------
(* The chain and what an index makes of its blocks.                        *)

\* The constants, in the form the proofs use.
LEMMA ChainFacts ==
    /\ MaxTip \in Nat
    /\ Nobody \notin Users
    /\ \A tx \in Txs : BlockOf[tx] \in 0..MaxTip /\ Spends[tx] \subseteq Outputs
    /\ \A h \in Heights : NumOutputs[h] \in Nat /\ NumOutputs[h] <= NumOutputs[MaxTip]
    /\ \A a, b \in Heights : a <= b => NumOutputs[a] <= NumOutputs[b]
    /\ NumOutputs[-1] = 0
    /\ \A o \in Outputs :
          /\ o \in Nat
          /\ TxOf[o] \in Txs
          /\ Owner[o] \in Users \cup {Nobody}
          /\ Born(o) \in 0..MaxTip
          /\ \A h \in Heights : o < NumOutputs[h] <=> Born(o) <= h
    /\ \A tx \in Txs : \A o \in Spends[tx] : o \in Outputs /\ Born(o) < BlockOf[tx]
    /\ \A t1, t2 \in Txs : \A o \in Spends[t1] \cap Spends[t2] : t1 = t2
  <1>1. MaxTip \in Nat /\ Nobody \notin Users
    BY IndexesAssumption
  <1>2. MaxTip \in Heights /\ -1 \in Heights
    BY <1>1 DEF Heights
  <1>3. \A h \in Heights : NumOutputs[h] \in Nat /\ h <= MaxTip
    BY ChainAssumption, <1>1 DEF Heights
  <1>4. \A o \in Outputs : o \in Nat
    BY <1>2, <1>3 DEF Outputs
  <1>5. \A o \in Outputs :
          /\ TxOf[o] \in Txs
          /\ Owner[o] \in Users \cup {Nobody}
          /\ Born(o) \in 0..MaxTip
          /\ \A h \in Heights : o < NumOutputs[h] <=> Born(o) <= h
    BY ChainAssumption DEF Born
  <1>6. \A tx \in Txs : BlockOf[tx] \in 0..MaxTip /\ Spends[tx] \subseteq Outputs
    BY ChainAssumption
  <1>7. \A t1, t2 \in Txs : \A o \in Spends[t1] \cap Spends[t2] : t1 = t2
    BY ChainAssumption
  <1>8. \A tx \in Txs : \A o \in Spends[tx] : o \in Outputs /\ Born(o) < BlockOf[tx]
    BY ChainAssumption DEF Born
  <1>9. \A a, b \in Heights : a <= b => NumOutputs[a] <= NumOutputs[b]
    BY ChainAssumption
  <1>10. NumOutputs[-1] = 0
    BY ChainAssumption
  <1> QED
    BY <1>1, <1>2, <1>3, <1>4, <1>5, <1>6, <1>7, <1>8, <1>9, <1>10

LEMMA HeightsFacts == Heights = -1..MaxTip /\ -1 \in Heights /\ 0 \in Heights /\ MaxTip \in Nat
  BY ChainFacts DEF Heights

\* The outputs of a range of blocks are those that appear in them.
LEMMA OutputsOfFacts ==
    ASSUME NEW a \in Heights, NEW b \in Heights, NEW o
    PROVE  o \in OutputsOf(a, b) <=> o \in Outputs /\ a < Born(o) /\ Born(o) <= b
  <1>1. NumOutputs[a] \in Nat /\ NumOutputs[b] \in Nat /\ NumOutputs[MaxTip] \in Nat
        /\ NumOutputs[b] <= NumOutputs[MaxTip]
    BY ChainFacts, HeightsFacts
  <1>2. o \in OutputsOf(a, b) => o \in Outputs
    BY <1>1 DEF OutputsOf, Outputs
  <1>3. ASSUME o \in Outputs
        PROVE  /\ o \in Nat /\ Born(o) \in 0..MaxTip
               /\ o < NumOutputs[a] <=> Born(o) <= a
               /\ o < NumOutputs[b] <=> Born(o) <= b
    BY <1>3, ChainFacts
  <1>4. ASSUME o \in Outputs
        PROVE  o \in OutputsOf(a, b) <=> a < Born(o) /\ Born(o) <= b
    BY <1>1, <1>3, <1>4, HeightsFacts DEF OutputsOf
  <1> QED
    BY <1>2, <1>4

\* The outputs up to a block, followed by those of the blocks after it.
LEMMA OutputSeqFacts ==
    ASSUME NEW a \in Heights, NEW b \in Heights, a <= b
    PROVE  /\ OutputSeq(a, b) \in Seq(Int)
           /\ OutputsUpTo(a) \in Seq(Int)
           /\ Len(OutputsUpTo(a)) = NumOutputs[a]
           /\ OutputsUpTo(a) \o OutputSeq(a, b) = OutputsUpTo(b)
  <1> DEFINE m == NumOutputs[a]
             n == NumOutputs[b]
  <1>1. m \in Nat /\ n \in Nat /\ m <= n /\ NumOutputs[-1] = 0
    BY ChainFacts
  <1>2. /\ OutputSeq(a, b) = [i \in 1..(n - m) |-> m + i - 1]
        /\ OutputsUpTo(a) = [i \in 1..m |-> i - 1]
        /\ OutputsUpTo(b) = [i \in 1..n |-> i - 1]
    BY <1>1 DEF OutputSeq, OutputsUpTo
  <1> HIDE DEF m, n
  <1>3. [i \in 1..(n - m) |-> m + i - 1] \in Seq(Int) /\ [i \in 1..m |-> i - 1] \in Seq(Int)
        /\ [i \in 1..n |-> i - 1] \in Seq(Int)
    BY <1>1
  <1>4. Len([i \in 1..m |-> i - 1]) = m /\ Len([i \in 1..(n - m) |-> m + i - 1]) = n - m
    BY <1>1
  <1>5. [i \in 1..m |-> i - 1] \o [i \in 1..(n - m) |-> m + i - 1] = [i \in 1..n |-> i - 1]
    BY <1>1, <1>3, <1>4
  <1> QED
    BY <1>2, <1>3, <1>4, <1>5 DEF m

\* Which nullifiers a range of blocks spends: those of the outputs its
\* transactions name, none of an output that stays unspent.
LEMMA NullifiersSpentFacts ==
    ASSUME NEW a \in Heights, NEW b \in Heights
    PROVE  /\ \A n \in NullifiersSpent(a, b) :
                 \E o \in Outputs, tx \in Txs :
                    n = NullifierOf(o) /\ o \in Spends[tx] /\ a < BlockOf[tx] /\ BlockOf[tx] <= b
           /\ \A tx \in Txs : \A o \in Spends[tx] :
                 a < BlockOf[tx] /\ BlockOf[tx] <= b => NullifierOf(o) \in NullifiersSpent(a, b)
           /\ \A o \in Outputs :
                 UnspentAt(o, b) => NullifierOf(o) \notin NullifiersSpent(a, b)
  <1>1. \A n \in NullifiersSpent(a, b) :
           \E o \in Outputs, tx \in Txs :
              n = NullifierOf(o) /\ o \in Spends[tx] /\ a < BlockOf[tx] /\ BlockOf[tx] <= b
    BY ChainFacts DEF NullifiersSpent, TxsOf
  <1>2. \A tx \in Txs : \A o \in Spends[tx] :
           a < BlockOf[tx] /\ BlockOf[tx] <= b => NullifierOf(o) \in NullifiersSpent(a, b)
    BY DEF NullifiersSpent, TxsOf
  <1>3. ASSUME NEW o \in Outputs, UnspentAt(o, b), NullifierOf(o) \in NullifiersSpent(a, b)
        PROVE  FALSE
    <2>1. PICK p \in Outputs, tx \in Txs :
             NullifierOf(o) = NullifierOf(p) /\ p \in Spends[tx] /\ BlockOf[tx] <= b
      BY <1>1, <1>3
    <2>2. o = p
      BY <2>1 DEF NullifierOf
    <2>3. BlockOf[tx] > b /\ BlockOf[tx] \in 0..MaxTip
      BY <1>3, <2>1, <2>2, ChainFacts DEF UnspentAt
    <2> QED
      BY <2>1, <2>3, HeightsFacts
  <1> QED
    BY <1>1, <1>2, <1>3

\* The scanner finds the outputs of its users and no others.
LEMMA FoundFacts ==
    ASSUME NEW a \in Heights, NEW b \in Heights, NEW keys \in SUBSET Users
    PROVE  /\ Found(a, b, keys) \subseteq Outputs
           /\ \A o : o \in Found(a, b, keys) <=>
                 o \in Outputs /\ a < Born(o) /\ Born(o) <= b /\ Owner[o] \in keys
  BY OutputsOfFacts DEF Found

\* The nullifier of an output at its true position is the one that spends it.
LEMMA MadeFacts ==
    ASSUME NEW outs \in SUBSET Outputs, NEW scripts \in SUBSET Users, NEW index \in [outs -> Int]
    PROVE  /\ Made(outs, scripts, index) \subseteq AnyNullifiers
           /\ \A o \in outs : Owner[o] \in scripts /\ index[o] = o
                 => NullifierOf(o) \in Made(outs, scripts, index)
  BY DEF Made, AnyNullifiers, NullifierOf

\* The entries of a range of blocks name its transactions, and have each one
\* that pays or spends for a user.
LEMMA UserTxsFacts ==
    ASSUME NEW a \in Heights, NEW b \in Heights, NEW found \in SUBSET Outputs, NEW known,
           \A o \in found : a < Born(o) /\ Born(o) <= b
    PROVE  /\ UserTxs(a, b, found, known) \subseteq Entries
           /\ \A e \in UserTxs(a, b, found, known) : BlockOf[e[2]] <= b
           /\ \A o \in found : <<Owner[o], TxOf[o]>> \in UserTxs(a, b, found, known)
           /\ \A tx \in Txs : \A o \in Spends[tx] :
                 a < BlockOf[tx] /\ BlockOf[tx] <= b /\ NullifierOf(o) \in known
                    => <<Owner[o], tx>> \in UserTxs(a, b, found, known)
  <1>1. \A e : e \in UserTxs(a, b, found, known) <=>
           \/ \E o \in found : e = <<Owner[o], TxOf[o]>>
           \/ \E tx \in Txs : \E o \in Spends[tx] :
                 a < BlockOf[tx] /\ BlockOf[tx] <= b /\ NullifierOf(o) \in known
                 /\ e = <<Owner[o], tx>>
    BY DEF UserTxs, TxsOf
  <1>2. ASSUME NEW e \in UserTxs(a, b, found, known)
        PROVE  e \in Entries /\ BlockOf[e[2]] <= b
    <2>1. CASE \E o \in found : e = <<Owner[o], TxOf[o]>>
      <3>1. PICK o \in found : e = <<Owner[o], TxOf[o]>>
        BY <2>1
      <3>2. Owner[o] \in Users \cup {Nobody} /\ TxOf[o] \in Txs /\ Born(o) <= b
        BY ChainFacts
      <3> QED
        BY <3>1, <3>2 DEF Entries, Born
    <2>2. CASE \E tx \in Txs : \E o \in Spends[tx] :
                 BlockOf[tx] <= b /\ e = <<Owner[o], tx>>
      <3>1. PICK tx \in Txs : \E o \in Spends[tx] : BlockOf[tx] <= b /\ e = <<Owner[o], tx>>
        BY <2>2
      <3>3. PICK o \in Spends[tx] : BlockOf[tx] <= b /\ e = <<Owner[o], tx>>
        BY <3>1
      <3>2. Owner[o] \in Users \cup {Nobody}
        BY ChainFacts
      <3> QED
        BY <3>3, <3>2 DEF Entries
    <2> QED
      BY <1>1, <2>1, <2>2
  <1> QED
    BY <1>1, <1>2

\* Insert and DropProof keep an accumulator exact.
LEMMA InsertedFacts ==
    ASSUME NEW acc \in Accs, NEW a \in Heights, NEW b \in Heights, a <= b,
           NEW found \in SUBSET Outputs, NEW spent,
           \A o \in found : Born(o) <= b
    PROVE  /\ Inserted(acc, a, b, found, spent) \in Accs
           /\ ExactAt(acc, a) => ExactAt(Inserted(acc, a, b, found, spent), b)
  <1> DEFINE new == Inserted(acc, a, b, found, spent)
             S == (DOMAIN acc.proofs \cup found) \ spent
             value(o) == IF o \in found THEN Len(acc.elems) + (o - NumOutputs[a])
                                       ELSE acc.proofs[o]
  <1>1. acc.elems \in Seq(Int) /\ Len(acc.elems) \in Nat
    BY DEF Accs
  <1>2. PICK D \in SUBSET Outputs : acc.proofs \in [D -> Int]
    BY DEF Accs
  <1>3. /\ new.elems = acc.elems \o OutputSeq(a, b)
        /\ new.proofs = [o \in S |-> value(o)]
        /\ new = [elems |-> acc.elems \o OutputSeq(a, b), proofs |-> [o \in S |-> value(o)]]
    BY DEF Inserted
  <1>4. NumOutputs[a] \in Nat /\ NumOutputs[b] \in Nat /\ NumOutputs[a] <= NumOutputs[b]
    BY ChainFacts
  <1>5. S \in SUBSET Outputs
    BY <1>2
  <1>6. ASSUME NEW o \in S PROVE value(o) \in Int
    <2>1. CASE o \in found
      <3>1. o \in Nat
        BY <2>1, ChainFacts
      <3> QED
        BY <1>1, <1>4, <2>1, <3>1
    <2>2. CASE o \notin found
      BY <1>2, <2>2
    <2> QED
      BY <2>1, <2>2
  <1>7. [o \in S |-> value(o)] \in [S -> Int]
    BY <1>6
  <1>8. acc.elems \o OutputSeq(a, b) \in Seq(Int)
    BY <1>1, OutputSeqFacts
  <1>9. new \in Accs
    <2> HIDE DEF S, value
    <2> QED
      BY <1>3, <1>5, <1>7, <1>8 DEF Accs
  <1>10. ASSUME ExactAt(acc, a) PROVE ExactAt(new, b)
    <2>1. acc.elems = OutputsUpTo(a) /\ Len(acc.elems) = NumOutputs[a]
      BY <1>10, OutputSeqFacts DEF ExactAt
    <2>2. new.elems = OutputsUpTo(b)
      BY <1>3, <2>1, OutputSeqFacts
    <2>3. ASSUME NEW o \in DOMAIN new.proofs
          PROVE  new.proofs[o] = o /\ o < NumOutputs[b]
      <3>1. o \in S /\ new.proofs[o] = value(o) /\ o \in Nat
        BY <1>3, <1>5, <2>3, ChainFacts
      <3>2. CASE o \in found
        <4>1. o < NumOutputs[b]
          BY <3>2, ChainFacts
        <4>2. value(o) = o
          BY <3>2, <2>1, <3>1, <1>4
        <4> QED
          BY <3>1, <4>1, <4>2
      <3>3. CASE o \notin found
        <4>1. acc.proofs[o] = o /\ o < NumOutputs[a]
          BY <3>1, <3>3, <1>10 DEF ExactAt
        <4> QED
          BY <3>1, <3>3, <4>1, <1>4
      <3> QED
        BY <3>2, <3>3
    <2> QED
      BY <2>2, <2>3 DEF ExactAt
  <1> QED
    BY <1>9, <1>10

\* What connecting the blocks above a, up to b, does to an index.
LEMMA ConnectedFacts ==
    ASSUME NEW idx \in IndexStates, NEW a \in Heights, NEW b \in Heights, a <= b, 0 <= b,
           NEW scripts \in SUBSET Users
    PROVE  LET c == Connected(idx, a, b, scripts) IN
           /\ c.idx \in IndexStates
           /\ c.writes \in WriteSets
           /\ c.writes.open
           /\ c.idx.best = b
           /\ c.idx.keys = idx.keys
           /\ c.writes.del \subseteq NullifiersSpent(a, b)
           /\ \A e \in c.writes.userTxs : BlockOf[e[2]] <= b
           /\ ExactAt(idx.acc, a) => ExactAt(c.idx.acc, b)
           /\ \A n \in idx.nullifiers : n \notin NullifiersSpent(a, b) => n \in c.idx.nullifiers
           /\ \A tx \in Txs : \A o \in Spends[tx] :
                 a < BlockOf[tx] /\ BlockOf[tx] <= b /\ NullifierOf(o) \in idx.nullifiers
                    => <<Owner[o], tx>> \in c.writes.userTxs
           /\ \A o \in Outputs : a < Born(o) /\ Born(o) <= b /\ Owner[o] \in idx.keys
                    => <<Owner[o], TxOf[o]>> \in c.writes.userTxs
           /\ ExactAt(idx.acc, a) =>
                 \A o \in Outputs :
                    a < Born(o) /\ Born(o) <= b /\ Owner[o] \in idx.keys /\ Owner[o] \in scripts =>
                       /\ NullifierOf(o) \notin NullifiersSpent(a, b) =>
                             NullifierOf(o) \in c.idx.nullifiers /\ NullifierOf(o) \in c.writes.put
                       /\ \A tx \in Txs : o \in Spends[tx] /\ BlockOf[tx] <= b =>
                             <<Owner[o], tx>> \in c.writes.userTxs
  <1> DEFINE found == Found(a, b, idx.keys)
             index == [o \in found |-> Len(idx.acc.elems) + (o - NumOutputs[a])]
             new == Made(found, scripts, index)
             known == idx.nullifiers \cup new
             spent == known \cap NullifiersSpent(a, b)
             acc == Inserted(idx.acc, a, b, found, {n[1] : n \in spent})
             txs == UserTxs(a, b, found, known)
             c == Connected(idx, a, b, scripts)
  <1>1. /\ idx.acc \in Accs /\ idx.keys \in SUBSET Users
        /\ idx.nullifiers \in SUBSET AnyNullifiers
        /\ idx.acc.elems \in Seq(Int) /\ Len(idx.acc.elems) \in Nat
    BY DEF IndexStates, Accs
  <1>2. c = [idx |-> [acc |-> acc, keys |-> idx.keys, nullifiers |-> known \ spent, best |-> b],
             writes |-> [open |-> TRUE, userTxs |-> txs, put |-> new \ spent, del |-> spent]]
    BY DEF Connected
  <1>3. /\ found \subseteq Outputs
        /\ \A o : o \in found <=>
              o \in Outputs /\ a < Born(o) /\ Born(o) <= b /\ Owner[o] \in idx.keys
    BY <1>1, FoundFacts
  <1>4. NumOutputs[a] \in Nat
    BY ChainFacts
  <1>5. index \in [found -> Int]
    <2>1. \A o \in found : o \in Nat
      BY <1>3, ChainFacts
    <2> HIDE DEF found
    <2> QED
      BY <1>1, <1>4, <2>1
  <1> HIDE DEF found, index
  <1>6. /\ new \subseteq AnyNullifiers
        /\ \A o \in found : Owner[o] \in scripts /\ index[o] = o => NullifierOf(o) \in new
    BY <1>3, <1>5, MadeFacts
  <1> HIDE DEF new
  <1>7. /\ txs \subseteq Entries
        /\ \A e \in txs : BlockOf[e[2]] <= b
        /\ \A o \in found : <<Owner[o], TxOf[o]>> \in txs
        /\ \A tx \in Txs : \A o \in Spends[tx] :
              a < BlockOf[tx] /\ BlockOf[tx] <= b /\ NullifierOf(o) \in known
                 => <<Owner[o], tx>> \in txs
    <2> HIDE DEF known
    <2> QED
      BY <1>3, UserTxsFacts
  <1> HIDE DEF txs
  <1>8. acc \in Accs /\ (ExactAt(idx.acc, a) => ExactAt(acc, b))
    <2> DEFINE dropped1 == {n[1] : n \in spent}
    <2> HIDE DEF dropped1
    <2>1. /\ Inserted(idx.acc, a, b, found, dropped1) \in Accs
          /\ ExactAt(idx.acc, a) => ExactAt(Inserted(idx.acc, a, b, found, dropped1), b)
      BY <1>1, <1>3, InsertedFacts
    <2> QED
      BY <2>1 DEF dropped1
  <1> HIDE DEF acc
  <1>9. /\ c.idx.acc = acc /\ c.idx.keys = idx.keys /\ c.idx.nullifiers = known \ spent
        /\ c.idx.best = b
        /\ c.writes.open = TRUE /\ c.writes.userTxs = txs /\ c.writes.put = new \ spent
        /\ c.writes.del = spent
        /\ c.idx = [acc |-> acc, keys |-> idx.keys, nullifiers |-> known \ spent, best |-> b]
        /\ c.writes = [open |-> TRUE, userTxs |-> txs, put |-> new \ spent, del |-> spent]
    BY <1>2
  <1>10. c.idx \in IndexStates
    <2>1. known \ spent \in SUBSET AnyNullifiers /\ b \in 0..MaxTip
      BY <1>1, <1>6, HeightsFacts
    <2> HIDE DEF c, known, spent
    <2> QED
      BY <1>1, <1>8, <1>9, <2>1 DEF IndexStates
  <1>11. c.writes \in WriteSets
    <2>1. new \ spent \in SUBSET AnyNullifiers /\ spent \in SUBSET AnyNullifiers
      BY <1>1, <1>6
    <2> HIDE DEF c, known, spent
    <2> QED
      BY <1>7, <1>9, <2>1 DEF WriteSets
  <1>12. ASSUME ExactAt(idx.acc, a), NEW o \in Outputs,
                a < Born(o), Born(o) <= b, Owner[o] \in idx.keys, Owner[o] \in scripts
         PROVE  /\ NullifierOf(o) \in new
                /\ \A tx \in Txs : o \in Spends[tx] /\ BlockOf[tx] <= b => <<Owner[o], tx>> \in txs
    <2>1. o \in found /\ o \in Nat
      BY <1>3, <1>12, ChainFacts
    <2>2. Len(idx.acc.elems) = NumOutputs[a]
      BY <1>12, OutputSeqFacts DEF ExactAt
    <2>3. index[o] = o
      BY <1>4, <2>1, <2>2 DEF index
    <2>4. NullifierOf(o) \in new
      BY <1>6, <1>12, <2>1, <2>3
    <2>5. ASSUME NEW tx \in Txs, o \in Spends[tx], BlockOf[tx] <= b
          PROVE  <<Owner[o], tx>> \in txs
      <3>1. a < BlockOf[tx]
        <4>1. Born(o) < BlockOf[tx] /\ Born(o) \in 0..MaxTip /\ BlockOf[tx] \in 0..MaxTip
          BY <2>5, ChainFacts
        <4> QED
          BY <1>12, <4>1, HeightsFacts
      <3> QED
        BY <1>7, <2>4, <2>5, <3>1
    <2> QED
      BY <2>4, <2>5
  <1> HIDE DEF c
  <1>13. /\ c.writes.del \subseteq NullifiersSpent(a, b)
         /\ \A n \in idx.nullifiers : n \notin NullifiersSpent(a, b) => n \in c.idx.nullifiers
         /\ \A n \in new : n \notin NullifiersSpent(a, b) =>
               n \in c.idx.nullifiers /\ n \in c.writes.put
    BY <1>9
  <1>14. /\ \A tx \in Txs : \A o \in Spends[tx] :
                 a < BlockOf[tx] /\ BlockOf[tx] <= b /\ NullifierOf(o) \in idx.nullifiers
                    => <<Owner[o], tx>> \in c.writes.userTxs
         /\ \A o \in Outputs : a < Born(o) /\ Born(o) <= b /\ Owner[o] \in idx.keys
                    => <<Owner[o], TxOf[o]>> \in c.writes.userTxs
         /\ \A e \in c.writes.userTxs : BlockOf[e[2]] <= b
    BY <1>3, <1>7, <1>9
  <1>15. ExactAt(idx.acc, a) => ExactAt(c.idx.acc, b)
    BY <1>8, <1>9
  <1>16. ExactAt(idx.acc, a) =>
           \A o \in Outputs :
              a < Born(o) /\ Born(o) <= b /\ Owner[o] \in idx.keys /\ Owner[o] \in scripts =>
                 /\ NullifierOf(o) \notin NullifiersSpent(a, b) =>
                       NullifierOf(o) \in c.idx.nullifiers /\ NullifierOf(o) \in c.writes.put
                 /\ \A tx \in Txs : o \in Spends[tx] /\ BlockOf[tx] <= b =>
                       <<Owner[o], tx>> \in c.writes.userTxs
    BY <1>9, <1>12, <1>13
  <1>17. c.writes.open /\ c.idx.best = b /\ c.idx.keys = idx.keys
    BY <1>9
  <1>18. c = Connected(idx, a, b, scripts)
    BY DEF c
  <1> QED
    BY <1>10, <1>11, <1>13, <1>14, <1>15, <1>16, <1>17, <1>18

-----------------------------------------------------------------------------
(* The inductive invariant.                                                *)

\* The values of an index, an accumulator and a rescan that are not there.
LEMMA TypedEmpties ==
    /\ EmptyMap \in [{} -> Int]
    /\ NoAcc \in Accs /\ NewAccumulator \in Accs
    /\ NoIndex \in IndexStates /\ NoWrites \in WriteSets /\ NoRescan \in RescanStates
    /\ ExactAt(NewAccumulator, -1)
  <1>1. EmptyMap \in [{} -> Int] /\ DOMAIN EmptyMap = {}
    BY DEF EmptyMap
  <1>2. <<-1>> \in Seq(Int) /\ <<>> \in Seq(Int)
    OBVIOUS
  <1>3. EmptyMap \in UNION {[S -> Int] : S \in SUBSET Outputs}
    BY <1>1
  <1>4. NoAcc \in Accs /\ NewAccumulator \in Accs
    BY <1>2, <1>3 DEF NoAcc, NewAccumulator, Accs
  <1>5. 0 \in 0..MaxTip
    BY ChainFacts
  <1>6. NoIndex \in IndexStates
    BY <1>4, <1>5 DEF NoIndex, IndexStates
  <1>7. NoWrites \in WriteSets
    BY DEF NoWrites, WriteSets
  <1>8. NoRescan \in RescanStates
    BY <1>4 DEF NoRescan, RescanStates
  <1>9. OutputsUpTo(-1) = <<>>
    BY ChainFacts DEF OutputsUpTo, OutputSeq
  <1>10. ExactAt(NewAccumulator, -1)
    BY <1>1, <1>9 DEF ExactAt, NewAccumulator
  <1> QED
    BY <1>1, <1>4, <1>6, <1>7, <1>8, <1>10

\* A process that ends leaves nothing in memory.
LEMMA StopInv ==
    ASSUME IndexTypes, Inactive, TxIndexed, Stop, UNCHANGED <<tip, on, dropped>>
    PROVE  /\ mem' \in IndexStates /\ dbtx' \in WriteSets /\ rescan' \in RescanStates
           /\ register' \in Users \cup {Nobody} /\ up' \in BOOLEAN
           /\ ~Live'
           /\ Inactive'
           /\ RescanExact'
           /\ dbtx'.userTxs = {}
  <1>1. mem' = NoIndex /\ dbtx' = NoWrites /\ rescan' = NoRescan /\ register' = Nobody /\ up' = FALSE
    BY DEF Stop
  <1>2. ~Live'
    BY <1>1 DEF Live
  <1>3. RescanExact'
    BY <1>1 DEF RescanExact, NoRescan
  <1>4. Inactive'
    BY <1>1, <1>2 DEF Inactive, NoWrites
  <1> QED
    BY <1>1, <1>2, <1>3, <1>4, TypedEmpties DEF NoWrites

\* The scanner gets a key that no promise is made about yet.
LEMMA RegisterViewKeyInv ==
    ASSUME IndexInv, NEW u \in Users, RegisterViewKey(u)
    PROVE  IndexInv'
  <1>1. /\ Live /\ register' = u /\ mem' = [mem EXCEPT !.keys = @ \cup {u}]
        /\ UNCHANGED <<disk, tip, up, on, dbtx, rescan, restarts, rescans, since, spoiled, dropped>>
    BY DEF RegisterViewKey, histories, Live
  <1>2. /\ mem \in IndexStates
        /\ mem' \in IndexStates /\ mem'.acc = mem.acc /\ mem'.nullifiers = mem.nullifiers
        /\ mem'.best = mem.best /\ mem'.keys = mem.keys \cup {u}
    BY <1>1 DEF IndexInv, IndexTypes, IndexStates
  <1>3. IndexTypes'
    BY <1>1, <1>2 DEF IndexInv, IndexTypes
  <1>4. Live' = Live /\ Seen' = Seen
    BY <1>1 DEF Live, Seen
  <1>5. Inactive'
    BY <1>1, <1>2, <1>4 DEF IndexInv, Inactive, RegisterViewKey
  <1>6. TxIndexed' /\ RescanExact'
    BY <1>1 DEF IndexInv, TxIndexed, RescanExact
  <1>7. ASSUME ~spoiled' PROVE Sound'
    <2>1. Sound
      BY <1>1, <1>7 DEF IndexInv
    <2>2. MemExact' /\ DiskExact' /\ Registered'
      BY <1>1, <1>2, <1>4, <2>1 DEF Sound, MemExact, DiskExact, Registered
    <2>3. DiskComplete'
      BY <1>1, <1>4, <2>1 DEF Sound, DiskComplete, DiskCompleteAt, Listed, Tracked
    <2>4. MemComplete'
      BY <1>1, <1>2, <1>4, <2>1 DEF Sound, MemComplete, Tracked
    <2>5. WritesComplete'
      BY <1>1, <1>4, <2>1 DEF Sound, WritesComplete
    <2> QED
      BY <2>2, <2>3, <2>4, <2>5 DEF Sound
  <1> QED
    BY <1>3, <1>5, <1>6, <1>7 DEF IndexInv

\* The block being connected counts as known to the new user: the invariant
\* promises nothing of it, nor of any earlier block.
LEMMA CommitViewKeyInv ==
    ASSUME IndexInv, CommitViewKey
    PROVE  IndexInv'
  <1> DEFINE u == register
  <1>1. /\ up /\ u # Nobody
        /\ disk' = [disk EXCEPT !.keys = @ \cup {u}]
        /\ since' = IF u \in mem.keys /\ since[u] = -1
                      THEN [since EXCEPT ![u] = mem.best] ELSE since
        /\ register' = Nobody
        /\ UNCHANGED <<tip, up, on, mem, dbtx, rescan, restarts, rescans, spoiled, dropped>>
    BY DEF CommitViewKey
  <1>2. Live /\ u \in Users
    BY <1>1 DEF IndexInv, IndexTypes, Inactive
  <1>3. /\ disk' \in Datastores
        /\ disk'.txs = disk.txs /\ disk'.txHeight = disk.txHeight /\ disk'.keys = disk.keys \cup {u}
        /\ disk'.userTxs = disk.userTxs /\ disk'.nullifiers = disk.nullifiers
        /\ disk'.height = disk.height /\ disk'.acc = disk.acc
    BY <1>1, <1>2 DEF IndexInv, IndexTypes, Datastores
  <1>4. mem.best \in 0..MaxTip /\ mem.best \in Heights /\ tip \in 0..MaxTip
    BY HeightsFacts DEF IndexInv, IndexTypes, IndexStates
  <1>5. /\ since \in [Users -> Heights] /\ since' \in [Users -> Heights]
        /\ \A v \in Users : \/ since'[v] = since[v]
                            \/ v = u /\ u \in mem.keys /\ since'[v] = mem.best
    BY <1>1, <1>2, <1>4 DEF IndexInv, IndexTypes
  <1>6. IndexTypes'
    BY <1>1, <1>3, <1>5 DEF IndexInv, IndexTypes
  <1>7. Live' = Live /\ Seen' = Seen
    BY <1>1 DEF Live, Seen
  <1>8. Inactive' /\ TxIndexed' /\ RescanExact'
    BY <1>1, <1>3, <1>7 DEF IndexInv, Inactive, TxIndexed, RescanExact
  <1>9. ASSUME ~spoiled' PROVE Sound'
    <2>1. Sound
      BY <1>1, <1>9 DEF IndexInv
    <2>2. MemExact' /\ DiskExact'
      BY <1>1, <1>3, <1>7, <2>1 DEF Sound, MemExact, DiskExact
    <2>3. Registered'
      BY <1>1, <1>2, <1>3, <1>5, <1>7, <2>1 DEF Sound, Registered
    <2>4. mem.best = Seen
      BY <1>2, <2>1 DEF Sound, MemExact, Seen
    <2>5. tip <= Seen
      BY <1>4 DEF Seen
    <2>6. \A o \in Outputs : ~(mem.best < Born(o) /\ Born(o) <= Seen)
          /\ ~(mem.best < Born(o) /\ Born(o) <= tip)
      BY <1>4, <2>4, <2>5, ChainFacts
    <2>7. \A tx \in Txs : \A o \in Spends[tx] : ~(mem.best < Born(o) /\ BlockOf[tx] <= tip)
      BY <1>4, <2>4, <2>5, ChainFacts
    <2>8. PICK t \in Heights : DiskCompleteAt(t)
      BY <2>1 DEF Sound, DiskComplete
    <2>9. t = tip
      BY <1>2, <2>8 DEF DiskCompleteAt
    <2>10. ASSUME NEW v \in Users, since'[v] >= 0
           PROVE  Listed(v, t)' /\ Tracked(v, t, disk.nullifiers)' /\ Tracked(v, Seen, mem.nullifiers)'
      <3>1. CASE since'[v] = mem.best
        BY <1>7, <2>6, <2>7, <2>9, <3>1 DEF Listed, Tracked
      <3>2. CASE since'[v] = since[v]
        <4>1. since'[v] = since[v]
          BY <3>2
        <4>2. Listed(v, t) /\ Tracked(v, t, disk.nullifiers)
          BY <2>8, <2>10, <4>1 DEF DiskCompleteAt
        <4>3. Tracked(v, Seen, mem.nullifiers)
          BY <1>2, <2>1, <2>10, <4>1 DEF Sound, MemComplete
        <4> QED
          BY <1>1, <1>3, <1>7, <4>1, <4>2, <4>3 DEF Listed, Tracked
      <3> QED
        BY <1>5, <3>1, <3>2
    <2>11. DiskComplete'
      <3>1. DiskCompleteAt(t)'
        BY <1>1, <1>2, <1>7, <2>8, <2>9, <2>10 DEF DiskCompleteAt
      <3> QED
        BY <3>1 DEF DiskComplete
    <2>12. MemComplete'
      BY <2>10 DEF MemComplete
    <2>13. WritesComplete'
      <3> SUFFICES ASSUME Live /\ dbtx.open
                   PROVE  WritesComplete'
        BY <1>1, <1>7 DEF WritesComplete
      <3>1. mem.best = tip + 1
        BY <2>4 DEF Seen
      <3>2. \A o \in Outputs : Born(o) \in Int
        BY ChainFacts
      <3>3. dbtx'.del \subseteq NullifiersSpent(tip, tip + 1)'
        BY <1>1, <2>1 DEF Sound, WritesComplete
      <3>4. ASSUME NEW v \in Users, since'[v] >= 0
            PROVE  /\ \A o \in Outputs :
                         Owner[o] = v /\ since'[v] < Born(o) /\ Born(o) = tip + 1
                           => <<v, TxOf[o]>> \in dbtx.userTxs /\ NullifierOf(o) \in dbtx.put
                   /\ \A tx \in Txs : \A o \in Spends[tx] :
                         Owner[o] = v /\ since'[v] < Born(o) /\ BlockOf[tx] = tip + 1
                           => <<v, tx>> \in dbtx.userTxs
        <4>1. CASE since'[v] = mem.best
          <5>1. \A tx \in Txs : \A o \in Spends[tx] : ~(tip + 1 < Born(o) /\ BlockOf[tx] = tip + 1)
            BY <1>4, ChainFacts
          <5> QED
            BY <1>4, <3>1, <3>2, <4>1, <5>1
        <4>2. CASE since'[v] = since[v]
          BY <2>1, <3>4, <4>2 DEF Sound, WritesComplete
        <4> QED
          BY <1>5, <4>1, <4>2
      <3> QED
        BY <1>1, <3>3, <3>4 DEF WritesComplete
    <2> QED
      BY <2>2, <2>3, <2>11, <2>12, <2>13 DEF Sound
  <1> QED
    BY <1>6, <1>8, <1>9 DEF IndexInv

\* A user that is removed is promised nothing any more.
LEMMA RemoveStaleUserInv ==
    ASSUME IndexInv, NEW u \in Users, RemoveStaleUser(u)
    PROVE  IndexInv'
  <1>1. /\ Live /\ u \in disk.keys
        /\ mem' = [mem EXCEPT !.keys = @ \ {u}]
        /\ since' = [since EXCEPT ![u] = -1]
        /\ UNCHANGED <<disk, tip, up, on, dbtx, register, rescan, restarts, rescans, spoiled, dropped>>
    BY DEF RemoveStaleUser, Live
  <1>2. /\ mem \in IndexStates
        /\ mem' \in IndexStates /\ mem'.acc = mem.acc /\ mem'.nullifiers = mem.nullifiers
        /\ mem'.best = mem.best /\ mem'.keys = mem.keys \ {u}
    BY <1>1 DEF IndexInv, IndexTypes, IndexStates
  <1>3. /\ since \in [Users -> Heights] /\ since' \in [Users -> Heights]
        /\ since'[u] = -1 /\ \A v \in Users : v # u => since'[v] = since[v]
    BY <1>1, HeightsFacts DEF IndexInv, IndexTypes
  <1>4. IndexTypes'
    BY <1>1, <1>2, <1>3 DEF IndexInv, IndexTypes
  <1>5. Live' = Live /\ Seen' = Seen
    BY <1>1 DEF Live, Seen
  <1>7. Inactive'
    BY <1>1, <1>2, <1>5 DEF IndexInv, Inactive
  <1>8. TxIndexed' /\ RescanExact'
    BY <1>1 DEF IndexInv, TxIndexed, RescanExact
  <1>9. ASSUME ~spoiled' PROVE Sound'
    <2>1. Sound
      BY <1>1, <1>9 DEF IndexInv
    <2>2. \A v \in Users : since'[v] >= 0 => v # u /\ since'[v] = since[v] /\ since[v] >= 0
      BY <1>3
    <2>3. MemExact' /\ DiskExact'
      BY <1>1, <1>2, <1>5, <2>1 DEF Sound, MemExact, DiskExact
    <2>4. Registered'
      BY <1>1, <1>2, <1>5, <2>1, <2>2 DEF Sound, Registered
    <2>5. DiskComplete'
      BY <1>1, <1>5, <2>1, <2>2 DEF Sound, DiskComplete, DiskCompleteAt, Listed, Tracked
    <2>6. MemComplete'
      BY <1>1, <1>2, <1>5, <2>1, <2>2 DEF Sound, MemComplete, Tracked
    <2>7. WritesComplete'
      BY <1>1, <1>5, <2>1, <2>2 DEF Sound, WritesComplete
    <2> QED
      BY <2>3, <2>4, <2>5, <2>6, <2>7 DEF Sound
  <1> QED
    BY <1>4, <1>7, <1>8, <1>9 DEF IndexInv

\* A rescan begins with an exact accumulator without proofs.
LEMMA RescanViewkeyInv ==
    ASSUME IndexInv, NEW u \in Users, NEW k \in 0..MaxTip, RescanViewkey(u, k)
    PROVE  IndexInv'
  <1>1. /\ Live /\ k <= tip
        /\ rescan' = [pc |-> "scan", user |-> u, height |-> k + 1, best |-> mem.best,
                      acc |-> [NewAccumulator EXCEPT !.elems = OutputsUpTo(k)],
                      nullifiers |-> {}]
        /\ UNCHANGED <<disk, tip, up, on, mem, dbtx, register, restarts, since, spoiled, dropped>>
    BY DEF RescanViewkey, Live
  <1>2. k \in Heights /\ k + 1 \in Nat /\ (k + 1) - 1 = k /\ mem.best \in Nat /\ tip \in Nat
    BY HeightsFacts DEF IndexInv, IndexTypes, IndexStates
  <1> DEFINE acc == [NewAccumulator EXCEPT !.elems = OutputsUpTo(k)]
  <1>3. acc = [elems |-> OutputsUpTo(k), proofs |-> EmptyMap]
    BY DEF NewAccumulator
  <1>4. OutputsUpTo(k) \in Seq(Int)
    BY <1>2, OutputSeqFacts
  <1>5. acc \in Accs /\ ExactAt(acc, k)
    BY <1>3, <1>4, TypedEmpties DEF Accs, ExactAt
  <1> HIDE DEF acc
  <1>6. /\ rescan' = [pc |-> "scan", user |-> u, height |-> k + 1, best |-> mem.best,
                      acc |-> acc, nullifiers |-> {}]
        /\ rescan'.pc = "scan" /\ rescan'.height = k + 1 /\ rescan'.acc = acc
    BY <1>1 DEF acc
  <1>7. rescan' \in RescanStates
    BY <1>2, <1>5, <1>6 DEF RescanStates
  <1>8. IndexTypes'
    BY <1>1, <1>7 DEF IndexInv, IndexTypes
  <1>9. Live' = Live /\ Seen' = Seen
    BY <1>1 DEF Live, Seen
  <1>10. RescanExact'
    <2>1. rescan'.height \in 1..(tip + 1) /\ rescan'.height - 1 = k
      BY <1>1, <1>2, <1>6
    <2> QED
      BY <1>1, <1>5, <1>6, <2>1 DEF RescanExact, ExactAt
  <1>11. Inactive' /\ TxIndexed'
    BY <1>1, <1>9 DEF IndexInv, Inactive, TxIndexed
  <1>12. ~spoiled' => Sound'
    BY <1>1, <1>9 DEF IndexInv, Sound, MemExact, DiskExact, Registered, DiskComplete,
        DiskCompleteAt, Listed, Tracked, MemComplete, WritesComplete
  <1> QED
    BY <1>8, <1>10, <1>11, <1>12 DEF IndexInv

\* Proofs of an exact accumulator of the same height keep the other one exact.
LEMMA MergeProofsFacts ==
    ASSUME NEW acc \in Accs, NEW other \in Accs
    PROVE  /\ MergeProofs(acc, other) \in Accs
           /\ \A h \in Heights : ExactAt(acc, h) /\ ExactAt(other, h)
                 => ExactAt(MergeProofs(acc, other), h)
  <1> DEFINE S == DOMAIN acc.proofs \cup DOMAIN other.proofs
             value(o) == CASE o \in DOMAIN acc.proofs -> acc.proofs[o]
                           [] o \notin DOMAIN acc.proofs /\ acc.elems = other.elems ->
                                other.proofs[o]
                           [] OTHER -> WrongRoot
             proofs == [o \in S |-> value(o)]
             new == MergeProofs(acc, other)
  <1>1. PICK D \in SUBSET Outputs : acc.proofs \in [D -> Int]
    BY DEF Accs
  <1>2. PICK E \in SUBSET Outputs : other.proofs \in [E -> Int]
    BY DEF Accs
  <1>3. acc.elems \in Seq(Int)
    BY DEF Accs
  <1>4. new = [acc EXCEPT !.proofs = proofs]
    BY DEF MergeProofs
  <1>5. S \in SUBSET Outputs
    BY <1>1, <1>2
  <1>6. \A o \in S : value(o) \in Int
    BY <1>1, <1>2 DEF WrongRoot
  <1>7. proofs \in [S -> Int]
    BY <1>6
  <1>8. \A o \in S : proofs[o] = value(o)
    OBVIOUS
  <1>9. DOMAIN proofs = S
    OBVIOUS
  <1> HIDE DEF proofs
  <1>10. new = [elems |-> acc.elems, proofs |-> proofs]
    BY <1>4 DEF Accs
  <1>11. new \in Accs
    <2> HIDE DEF S, new
    <2> QED
      BY <1>3, <1>5, <1>7, <1>10 DEF Accs
  <1>12. ASSUME NEW h \in Heights, ExactAt(acc, h), ExactAt(other, h)
         PROVE  ExactAt(new, h)
    <2>1. \A o \in DOMAIN acc.proofs : acc.proofs[o] = o /\ o < NumOutputs[h]
      BY <1>12 DEF ExactAt
    <2>2. \A o \in DOMAIN other.proofs : other.proofs[o] = o /\ o < NumOutputs[h]
      BY <1>12 DEF ExactAt
    <2>3. acc.elems = OutputsUpTo(h) /\ other.elems = acc.elems
      BY <1>12 DEF ExactAt
    <2>4. \A o \in S : value(o) = o /\ o < NumOutputs[h]
      BY <2>1, <2>2, <2>3
    <2>5. new.elems = acc.elems /\ new.proofs = proofs
      BY <1>10
    <2> HIDE DEF S, value, new
    <2> QED
      BY <1>8, <1>9, <2>3, <2>4, <2>5 DEF ExactAt
  <1> QED
    BY <1>11, <1>12

\* A rescan merges only at the height of the live accumulator, where both are
\* exact.
LEMMA MergeRescanInv ==
    ASSUME IndexInv, MergeRescan
    PROVE  IndexInv'
  <1>1. /\ up /\ rescan.pc = "check"
        /\ UNCHANGED <<disk, tip, up, on, dbtx, register, restarts, rescans, since, spoiled, dropped>>
    BY DEF MergeRescan, histories
  <1>2. Live
    <2>1. rescan # NoRescan
      BY <1>1 DEF NoRescan
    <2> QED
      BY <2>1 DEF IndexInv, Inactive
  <1>3. Live' = Live /\ Seen' = Seen
    BY <1>1 DEF Live, Seen
  <1>4. /\ rescan \in RescanStates /\ mem \in IndexStates /\ tip \in 0..MaxTip
        /\ rescan.height \in 1..tip /\ ExactAt(rescan.acc, rescan.height)
        /\ rescan.acc \in Accs /\ mem.acc \in Accs /\ mem.best \in 0..MaxTip
        /\ rescan.height \in Heights
    BY <1>1, HeightsFacts DEF IndexInv, IndexTypes, RescanExact, RescanStates, IndexStates
  <1>5. CASE rescan.height = mem.best
    <2> DEFINE acc == MergeProofs(mem.acc, rescan.acc)
    <2>1. /\ mem' = [mem EXCEPT !.acc = acc, !.nullifiers = @ \cup rescan.nullifiers]
          /\ rescan' = NoRescan
      BY <1>5 DEF MergeRescan
    <2>2. acc \in Accs /\ (ExactAt(mem.acc, rescan.height) => ExactAt(acc, rescan.height))
      BY <1>4, MergeProofsFacts
    <2> HIDE DEF acc
    <2>3. /\ mem' \in IndexStates /\ mem'.acc = acc /\ mem'.keys = mem.keys /\ mem'.best = mem.best
          /\ mem'.nullifiers = mem.nullifiers \cup rescan.nullifiers
      BY <1>4, <2>1, <2>2 DEF IndexStates, RescanStates
    <2>4. IndexTypes'
      BY <1>1, <2>1, <2>3, TypedEmpties DEF IndexInv, IndexTypes
    <2>5. Inactive' /\ TxIndexed' /\ RescanExact'
      BY <1>1, <1>2, <1>3, <2>1, <2>3 DEF IndexInv, Inactive, TxIndexed, RescanExact, NoRescan
    <2>6. ASSUME ~spoiled' PROVE Sound'
      <3>1. Sound
        BY <1>1, <2>6 DEF IndexInv
      <3>2. mem.best = Seen /\ ExactAt(mem.acc, Seen)
        BY <1>2, <1>4, <3>1 DEF Sound, MemExact
      <3>3. MemExact'
        BY <1>2, <1>3, <1>5, <2>2, <2>3, <3>2 DEF MemExact, ExactAt
      <3>4. DiskExact' /\ Registered'
        BY <1>1, <1>3, <2>3, <3>1 DEF Sound, DiskExact, Registered
      <3>5. DiskComplete'
        BY <1>1, <1>3, <3>1 DEF Sound, DiskComplete, DiskCompleteAt, Listed, Tracked
      <3>6. MemComplete'
        BY <1>1, <1>2, <1>3, <2>3, <3>1 DEF Sound, MemComplete, Tracked
      <3>7. WritesComplete'
        BY <1>1, <1>3, <3>1 DEF Sound, WritesComplete
      <3> QED
        BY <3>3, <3>4, <3>5, <3>6, <3>7 DEF Sound
    <2> QED
      BY <2>4, <2>5, <2>6 DEF IndexInv
  <1>6. CASE rescan.height # mem.best
    <2>1. /\ rescan' = [rescan EXCEPT !.pc = "scan", !.height = @ + 1, !.best = mem.best]
          /\ UNCHANGED mem
      BY <1>6 DEF MergeRescan
    <2>2. rescan.height + 1 \in Nat /\ mem.best \in Nat
      BY <1>4
    <2>3. /\ rescan' \in RescanStates /\ rescan'.pc = "scan" /\ rescan'.height = rescan.height + 1
          /\ rescan'.acc = rescan.acc
      BY <1>4, <2>1, <2>2 DEF RescanStates
    <2>4. IndexTypes'
      BY <1>1, <2>1, <2>3 DEF IndexInv, IndexTypes
    <2>5. RescanExact'
      <3>1. rescan'.height \in 1..(tip + 1) /\ rescan'.height - 1 = rescan.height
        BY <1>4, <2>3
      <3> QED
        BY <1>1, <1>4, <2>3, <3>1 DEF RescanExact, ExactAt
    <2>6. Inactive' /\ TxIndexed'
      BY <1>1, <1>2, <1>3, <2>1 DEF IndexInv, Inactive, TxIndexed
    <2>7. ~spoiled' => Sound'
      BY <1>1, <1>3, <2>1 DEF IndexInv, Sound, MemExact, DiskExact, Registered, DiskComplete,
          DiskCompleteAt, Listed, Tracked, MemComplete, WritesComplete
    <2> QED
      BY <2>4, <2>5, <2>6, <2>7 DEF IndexInv
  <1> QED
    BY <1>5, <1>6

\* A flush puts an accumulator on disk that is as good as the live one.
LEMMA FlushedFacts ==
    ASSUME IndexInv, Live, mem.acc # NoAcc
    PROVE  /\ Flushed(disk) \in Datastores
           /\ Flushed(disk).txs = disk.txs /\ Flushed(disk).txHeight = disk.txHeight
           /\ Flushed(disk).keys = disk.keys /\ Flushed(disk).userTxs = disk.userTxs
           /\ Flushed(disk).nullifiers = disk.nullifiers
           /\ Flushed(disk).height = mem.best /\ Flushed(disk).acc = mem.acc
           /\ ~spoiled => mem.best = Seen /\ ExactAt(mem.acc, mem.best)
  <1>1. disk \in Datastores /\ mem.acc \in Accs /\ mem.best \in Heights
    BY HeightsFacts DEF IndexInv, IndexTypes, IndexStates
  <1>2. ~spoiled => mem.best = Seen /\ ExactAt(mem.acc, mem.best)
    BY DEF IndexInv, Sound, MemExact
  <1> QED
    BY <1>1, <1>2 DEF Flushed, Datastores

\* A flush within the transaction of a block is ahead of the chain by that
\* block, which DiskExact allows.
LEMMA FlushInv ==
    ASSUME IndexInv, flush
    PROVE  IndexInv'
  <1>1. /\ Live /\ mem.acc # NoAcc /\ disk' = Flushed(disk)
        /\ UNCHANGED <<tip, up, on, mem, dbtx, register, rescan, restarts, rescans, since, spoiled,
                       dropped>>
    BY DEF flush, histories, Live
  <1>2. /\ disk' \in Datastores
        /\ disk'.txs = disk.txs /\ disk'.txHeight = disk.txHeight /\ disk'.keys = disk.keys
        /\ disk'.userTxs = disk.userTxs /\ disk'.nullifiers = disk.nullifiers
        /\ disk'.height = mem.best /\ disk'.acc = mem.acc
        /\ ~spoiled => mem.best = Seen /\ ExactAt(mem.acc, mem.best)
    BY <1>1, FlushedFacts
  <1>3. Live' = Live /\ Seen' = Seen
    BY <1>1 DEF Live, Seen
  <1>4. IndexTypes' /\ Inactive' /\ TxIndexed' /\ RescanExact'
    BY <1>1, <1>2, <1>3 DEF IndexInv, IndexTypes, Inactive, TxIndexed, RescanExact
  <1>5. ASSUME ~spoiled' PROVE Sound'
    <2>1. Sound /\ mem.best = Seen /\ ExactAt(mem.acc, mem.best)
      BY <1>1, <1>2, <1>5 DEF IndexInv
    <2>2. tip \in Nat
      BY DEF IndexInv, IndexTypes
    <2>3. DiskExact'
      BY <1>1, <1>2, <1>3, <2>1, <2>2 DEF DiskExact, Seen, ExactAt
    <2>4. MemExact' /\ Registered' /\ MemComplete' /\ WritesComplete'
      BY <1>1, <1>2, <1>3, <2>1 DEF Sound, MemExact, Registered, MemComplete, WritesComplete, Tracked
    <2>5. DiskComplete'
      BY <1>1, <1>2, <1>3, <2>1 DEF Sound, DiskComplete, DiskCompleteAt, Listed, Tracked
    <2> QED
      BY <2>3, <2>4, <2>5 DEF Sound
  <1> QED
    BY <1>4, <1>5 DEF IndexInv

\* An index that stops leaves a complete datastore, unless the flushed
\* accumulator is ahead of the chain.
LEMMA StoppedSound ==
    ASSUME IndexInv, Stop, UNCHANGED <<tip, on, since>>,
           disk'.keys = disk.keys, disk'.userTxs = disk.userTxs,
           disk'.nullifiers = disk.nullifiers,
           disk'.height \in Heights, disk'.height <= tip,
           disk'.height > 0 /\ disk'.acc # NoAcc => ExactAt(disk'.acc, disk'.height),
           ~Live => disk'.height = disk.height,
           Sound
    PROVE  Sound'
  <1>1. ~Live' /\ ~up'
    BY DEF Stop, Live
  <1>2. MemExact' /\ MemComplete' /\ WritesComplete'
    BY <1>1 DEF MemExact, MemComplete, WritesComplete
  <1>3. DiskExact'
    BY <1>1 DEF DiskExact, ExactAt
  <1>4. Registered'
    BY <1>1 DEF Sound, Registered
  <1>5. PICK t \in Heights : DiskCompleteAt(t)
    BY DEF Sound, DiskComplete
  <1>6. disk'.height <= t
    <2>1. tip \in Nat
      BY DEF IndexInv, IndexTypes
    <2> QED
      BY <1>5, <2>1 DEF DiskCompleteAt
  <1>7. DiskCompleteAt(t)'
    BY <1>1, <1>5, <1>6 DEF DiskCompleteAt, Listed, Tracked
  <1> QED
    BY <1>2, <1>3, <1>4, <1>7 DEF Sound, DiskComplete

\* A clean shutdown waits for the block, so its flush is not ahead.
LEMMA CloseInv ==
    ASSUME IndexInv, Close
    PROVE  IndexInv'
  <1>1. /\ up /\ ~dbtx.open /\ mem.acc # NoAcc /\ Stop
        /\ disk' = IF Live THEN Flushed(disk) ELSE disk
        /\ UNCHANGED <<tip, on, restarts, rescans, since, spoiled, dropped>>
    BY DEF Close, histories, Live
  <1>2. IndexTypes /\ Inactive /\ TxIndexed /\ disk \in Datastores
    BY DEF IndexInv, IndexTypes
  <1>3. /\ mem' \in IndexStates /\ dbtx' \in WriteSets /\ rescan' \in RescanStates
        /\ register' \in Users \cup {Nobody} /\ up' \in BOOLEAN
        /\ ~Live' /\ Inactive' /\ RescanExact' /\ dbtx'.userTxs = {}
    BY <1>1, <1>2, StopInv
  <1>4. /\ disk' \in Datastores
        /\ disk'.txs = disk.txs /\ disk'.txHeight = disk.txHeight /\ disk'.keys = disk.keys
        /\ disk'.userTxs = disk.userTxs /\ disk'.nullifiers = disk.nullifiers
        /\ Live => disk'.height = mem.best /\ disk'.acc = mem.acc
        /\ ~Live => disk'.height = disk.height /\ disk'.acc = disk.acc
        /\ Live /\ ~spoiled => mem.best = Seen /\ ExactAt(mem.acc, mem.best)
    BY <1>1, <1>2, FlushedFacts
  <1>5. IndexTypes'
    BY <1>1, <1>3, <1>4 DEF IndexInv, IndexTypes
  <1>6. TxIndexed'
    <2>1. ~up'
      BY <1>1 DEF Stop
    <2> QED
      BY <1>1, <1>2, <1>3, <1>4, <2>1 DEF TxIndexed
  <1>7. ASSUME ~spoiled' PROVE Sound'
    <2>1. Sound
      BY <1>1, <1>7 DEF IndexInv
    <2>2. disk'.height \in Heights
      BY <1>4 DEF Datastores
    <2>3. tip \in Nat
      BY <1>2 DEF IndexTypes
    <2>4. /\ disk'.height <= tip
          /\ disk'.height > 0 /\ disk'.acc # NoAcc => ExactAt(disk'.acc, disk'.height)
      BY <1>1, <1>4, <1>7, <2>1, <2>3 DEF Sound, DiskExact, Seen
    <2> QED
      BY <1>1, <1>4, <2>1, <2>2, <2>4, StoppedSound
  <1> QED
    BY <1>3, <1>5, <1>6, <1>7 DEF IndexInv

\* A crash after such a flush spoils the index, any other one does not.
LEMMA CrashInv ==
    ASSUME IndexInv, Crash
    PROVE  IndexInv'
  <1>1. /\ up /\ Stop
        /\ spoiled' = (spoiled \/ disk.height > tip)
        /\ UNCHANGED <<disk, tip, on, restarts, rescans, since, dropped>>
    BY DEF Crash
  <1>2. IndexTypes /\ Inactive /\ TxIndexed /\ disk \in Datastores
    BY DEF IndexInv, IndexTypes
  <1>3. /\ mem' \in IndexStates /\ dbtx' \in WriteSets /\ rescan' \in RescanStates
        /\ register' \in Users \cup {Nobody} /\ up' \in BOOLEAN
        /\ ~Live' /\ Inactive' /\ RescanExact' /\ dbtx'.userTxs = {}
    BY <1>1, <1>2, StopInv
  <1>4. spoiled' \in BOOLEAN
    BY <1>1
  <1>5. IndexTypes'
    BY <1>1, <1>3, <1>4 DEF IndexInv, IndexTypes
  <1>6. TxIndexed'
    <2>1. ~up'
      BY <1>1 DEF Stop
    <2> QED
      BY <1>1, <1>2, <1>3, <2>1 DEF TxIndexed
  <1>7. ASSUME ~spoiled' PROVE Sound'
    <2>1. Sound /\ ~(disk.height > tip)
      BY <1>1, <1>7 DEF IndexInv
    <2>2. disk.height \in Heights /\ disk.height \in Int /\ tip \in Nat
      BY <1>2, HeightsFacts DEF Datastores, IndexTypes
    <2>3. /\ disk'.height <= tip
          /\ disk'.height > 0 /\ disk'.acc # NoAcc => ExactAt(disk'.acc, disk'.height)
      BY <1>1, <2>1, <2>2 DEF Sound, DiskExact
    <2> QED
      BY <1>1, <2>1, <2>2, <2>3, StoppedSound
  <1> QED
    BY <1>3, <1>5, <1>6, <1>7 DEF IndexInv

\* What a commit changes of the datastore.
LEMMA WrittenFacts ==
    ASSUME NEW d \in Datastores, NEW w, w.userTxs \in SUBSET Entries,
           w.put \in SUBSET AnyNullifiers, w.del \in SUBSET AnyNullifiers
    PROVE  /\ Written(d, w) \in Datastores
           /\ Written(d, w).txs = d.txs /\ Written(d, w).txHeight = d.txHeight
           /\ Written(d, w).keys = d.keys
           /\ Written(d, w).userTxs = d.userTxs \cup w.userTxs
           /\ Written(d, w).nullifiers = (d.nullifiers \ w.del) \cup w.put
           /\ Written(d, w).height = d.height /\ Written(d, w).acc = d.acc
  <1> DEFINE n == (d.nullifiers \ w.del) \cup w.put
             e == d.userTxs \cup w.userTxs
  <1>1. n \in SUBSET AnyNullifiers /\ e \in SUBSET Entries
    BY DEF Datastores
  <1>2. Written(d, w) = [d EXCEPT !.userTxs = e, !.nullifiers = n]
    BY DEF Written
  <1> HIDE DEF n, e
  <1>3. [d EXCEPT !.userTxs = e, !.nullifiers = n] \in Datastores
    BY <1>1 DEF Datastores
  <1>4. LET f == [d EXCEPT !.userTxs = e, !.nullifiers = n] IN
        /\ f.txs = d.txs /\ f.txHeight = d.txHeight /\ f.keys = d.keys /\ f.userTxs = e
        /\ f.nullifiers = n /\ f.height = d.height /\ f.acc = d.acc
    BY DEF Datastores
  <1> QED
    BY <1>2, <1>3, <1>4 DEF n, e

\* What the transaction index changes of the datastore.
LEMMA IndexTxsFacts ==
    ASSUME NEW d \in Datastores, NEW h \in 0..MaxTip
    PROVE  /\ IndexTxs(d, h) \in Datastores
           /\ IndexTxs(d, h).txs = d.txs \cup TxsOf(d.txHeight, h)
           /\ IndexTxs(d, h).txHeight = h
           /\ IndexTxs(d, h).keys = d.keys /\ IndexTxs(d, h).userTxs = d.userTxs
           /\ IndexTxs(d, h).nullifiers = d.nullifiers
           /\ IndexTxs(d, h).height = d.height /\ IndexTxs(d, h).acc = d.acc
  <1> DEFINE t == d.txs \cup TxsOf(d.txHeight, h)
  <1>1. t \in SUBSET Txs
    BY DEF Datastores, TxsOf
  <1>2. IndexTxs(d, h) = [d EXCEPT !.txs = t, !.txHeight = h]
    BY DEF IndexTxs
  <1> HIDE DEF t
  <1>3. h \in Heights
    BY HeightsFacts
  <1>4. [d EXCEPT !.txs = t, !.txHeight = h] \in Datastores
    BY <1>1, <1>3 DEF Datastores
  <1>5. LET f == [d EXCEPT !.txs = t, !.txHeight = h] IN
        /\ f.txs = t /\ f.txHeight = h /\ f.keys = d.keys /\ f.userTxs = d.userTxs
        /\ f.nullifiers = d.nullifiers /\ f.height = d.height /\ f.acc = d.acc
    BY DEF Datastores
  <1> QED
    BY <1>2, <1>4, <1>5 DEF t

\* The transactions up to k and those above it, up to h.
LEMMA TxsUpToFacts ==
    ASSUME NEW k \in Heights, NEW h \in Heights, k <= h
    PROVE  TxsUpTo(k) \cup TxsOf(k, h) = TxsUpTo(h)
  BY ChainFacts, HeightsFacts DEF TxsUpTo, TxsOf

\* A rescan commits what it finds at once: entries of connected transactions,
\* and no deletion of a nullifier that is unspent.
LEMMA ScanBlockInv ==
    ASSUME IndexInv, ScanBlock
    PROVE  IndexInv'
  <1>1. /\ up /\ rescan.pc = "scan"
        /\ UNCHANGED <<tip, up, on, mem, dbtx, register, restarts, rescans, since, spoiled, dropped>>
    BY DEF ScanBlock, histories
  <1>2. Live
    <2>1. rescan # NoRescan
      BY <1>1 DEF NoRescan
    <2> QED
      BY <2>1 DEF IndexInv, Inactive
  <1>3. Live' = Live /\ Seen' = Seen
    BY <1>1 DEF Live, Seen
  <1>4. /\ rescan \in RescanStates /\ mem \in IndexStates /\ disk \in Datastores /\ tip \in 0..MaxTip
        /\ mem.acc \in Accs /\ Len(mem.acc.elems) \in Nat
    BY DEF IndexInv, IndexTypes, IndexStates, Accs
  <1>5. CASE rescan.height > tip
    <2>1. rescan' = NoRescan /\ UNCHANGED disk
      BY <1>5 DEF ScanBlock
    <2>2. IndexTypes'
      BY <1>1, <2>1, TypedEmpties DEF IndexInv, IndexTypes
    <2>3. Inactive' /\ TxIndexed' /\ RescanExact'
      BY <1>1, <1>2, <1>3, <2>1 DEF IndexInv, Inactive, TxIndexed, RescanExact, NoRescan
    <2>4. ~spoiled' => Sound'
      BY <1>1, <1>3, <2>1 DEF IndexInv, Sound, MemExact, DiskExact, Registered, DiskComplete,
          DiskCompleteAt, Listed, Tracked, MemComplete, WritesComplete
    <2> QED
      BY <2>2, <2>3, <2>4 DEF IndexInv
  <1>6. CASE ~(rescan.height > tip)
    <2> DEFINE h == rescan.height
               u == rescan.user
               found == Found(h - 1, h, {u})
               index == [o \in found |-> Len(mem.acc.elems)]
               new == Made(found, {u}, index)
               known == rescan.nullifiers \cup new
               spent == known \cap NullifiersSpent(h - 1, h)
               acc == Inserted(rescan.acc, h - 1, h, found, {n[1] : n \in spent})
               w == [userTxs |-> UserTxs(h - 1, h, found, known), put |-> new \ spent, del |-> spent]
    <2>1. /\ rescan' = [pc |-> IF h >= rescan.best THEN "check" ELSE "scan", user |-> u,
                        height |-> IF h >= rescan.best THEN h ELSE h + 1, best |-> rescan.best,
                        acc |-> acc, nullifiers |-> known \ spent]
          /\ disk' = Written(disk, w)
      BY <1>6 DEF ScanBlock
    <2>2. /\ h \in 1..tip /\ h \in Heights /\ h - 1 \in Heights /\ h - 1 <= h
          /\ u \in Users \cup {Nobody} /\ rescan.best \in Nat
          /\ rescan.acc \in Accs /\ ExactAt(rescan.acc, h - 1)
          /\ rescan.nullifiers \in SUBSET AnyNullifiers
      BY <1>1, <1>4, <1>6, HeightsFacts DEF IndexInv, RescanExact, RescanStates
    <2> HIDE DEF h, u
    <2>3. found \in SUBSET Outputs /\ \A o \in found : h - 1 < Born(o) /\ Born(o) <= h
      BY <2>2, OutputsOfFacts DEF Found
    <2> HIDE DEF found
    <2>4. index \in [found -> Int]
      BY <1>4
    <2> HIDE DEF index
    <2>5. new \subseteq AnyNullifiers
      BY <2>3, <2>4 DEF Made, AnyNullifiers
    <2> HIDE DEF new
    <2>6. /\ w.userTxs \subseteq Entries
          /\ \A e \in w.userTxs : BlockOf[e[2]] <= h
      <3> HIDE DEF known
      <3> QED
        BY <2>2, <2>3, UserTxsFacts
    <2>7. w.put \subseteq AnyNullifiers /\ w.del \subseteq AnyNullifiers
          /\ w.del \subseteq NullifiersSpent(h - 1, h)
      BY <2>2, <2>5
    <2>8. acc \in Accs /\ ExactAt(acc, h)
      <3> DEFINE S == {n[1] : n \in spent}
      <3> HIDE DEF S
      <3>1. /\ Inserted(rescan.acc, h - 1, h, found, S) \in Accs
            /\ ExactAt(rescan.acc, h - 1) => ExactAt(Inserted(rescan.acc, h - 1, h, found, S), h)
        BY <2>2, <2>3, InsertedFacts
      <3> QED
        BY <2>2, <3>1 DEF S
    <2>9. known \ spent \in SUBSET AnyNullifiers
      BY <2>2, <2>5
    <2> HIDE DEF w, acc, known, spent
    <2>10. /\ disk' \in Datastores
           /\ disk'.txs = disk.txs /\ disk'.txHeight = disk.txHeight /\ disk'.keys = disk.keys
           /\ disk'.userTxs = disk.userTxs \cup w.userTxs
           /\ disk'.nullifiers = (disk.nullifiers \ w.del) \cup w.put
           /\ disk'.height = disk.height /\ disk'.acc = disk.acc
      BY <1>4, <2>1, <2>6, <2>7, WrittenFacts
    <2>11. /\ rescan'.pc = (IF h >= rescan.best THEN "check" ELSE "scan")
           /\ rescan'.height = (IF h >= rescan.best THEN h ELSE h + 1)
           /\ rescan'.acc = acc
      BY <2>1
    <2>12. rescan' \in RescanStates
      <3>1. h \in Nat /\ h + 1 \in Nat
        BY <1>4, <2>2
      <3>2. (IF h >= rescan.best THEN h ELSE h + 1) \in Nat
        BY <3>1
      <3> QED
        BY <2>1, <2>2, <2>8, <2>9, <3>2 DEF RescanStates
    <2>13. IndexTypes'
      BY <1>1, <2>10, <2>12 DEF IndexInv, IndexTypes
    <2>14. RescanExact'
      <3>1. CASE h >= rescan.best
        BY <1>1, <2>2, <2>8, <2>11, <3>1 DEF RescanExact, ExactAt
      <3>2. CASE ~(h >= rescan.best)
        <4>1. h + 1 \in 1..(tip + 1) /\ (h + 1) - 1 = h
          BY <1>4, <2>2
        <4> QED
          BY <1>1, <2>8, <2>11, <3>2, <4>1 DEF RescanExact, ExactAt
      <3> QED
        BY <3>1, <3>2
    <2>15. Inactive'
      BY <1>1, <1>2, <1>3, <2>10 DEF IndexInv, Inactive
    <2>16. TxIndexed'
      <3>1. \A e \in w.userTxs : BlockOf[e[2]] <= tip
        <4>1. \A e \in w.userTxs : BlockOf[e[2]] \in 0..MaxTip
          BY <2>6, ChainFacts DEF Entries
        <4> QED
          BY <1>4, <2>2, <2>6, <4>1
      <3> QED
        BY <1>1, <2>10, <3>1 DEF IndexInv, TxIndexed
    <2>17. ASSUME ~spoiled' PROVE Sound'
      <3>1. Sound
        BY <1>1, <2>17 DEF IndexInv
      <3>2. MemExact' /\ DiskExact' /\ Registered'
        BY <1>1, <1>3, <2>10, <3>1 DEF Sound, MemExact, DiskExact, Registered
      <3>3. MemComplete' /\ WritesComplete'
        BY <1>1, <1>3, <3>1 DEF Sound, MemComplete, WritesComplete, Tracked
      <3>4. PICK t \in Heights : DiskCompleteAt(t)
        BY <3>1 DEF Sound, DiskComplete
      <3>5. t = tip
        BY <1>2, <3>4 DEF DiskCompleteAt
      <3>6. \A o \in Outputs : UnspentAt(o, tip) => UnspentAt(o, h)
        BY <1>4, <2>2, ChainFacts DEF UnspentAt
      <3>7. \A o \in Outputs : UnspentAt(o, tip) => NullifierOf(o) \notin w.del
        BY <2>2, <2>7, <3>6, NullifiersSpentFacts
      <3>8. DiskCompleteAt(t)'
        <4>1. \A v \in Users : since[v] >= 0 => Listed(v, t)'
          BY <1>1, <2>10, <3>4 DEF DiskCompleteAt, Listed
        <4>2. \A v \in Users : since[v] >= 0 => Tracked(v, t, disk.nullifiers)'
          BY <1>1, <2>10, <3>4, <3>5, <3>7 DEF DiskCompleteAt, Tracked
        <4> QED
          BY <1>1, <1>2, <1>3, <3>4, <4>1, <4>2 DEF DiskCompleteAt
      <3> QED
        BY <3>2, <3>3, <3>8 DEF Sound, DiskComplete
    <2> QED
      BY <2>13, <2>14, <2>15, <2>16, <2>17 DEF IndexInv
  <1> QED
    BY <1>5, <1>6

\* A block that does not commit spoils the index.
LEMMA CommitBlockFailsInv ==
    ASSUME IndexInv, CommitBlockFails
    PROVE  IndexInv'
  <1>1. /\ up /\ dbtx.open
        /\ dbtx' = NoWrites
        /\ spoiled' = (spoiled \/ "ws" \in on)
        /\ UNCHANGED <<disk, tip, up, on, mem, register, rescan, restarts, since, dropped, rescans>>
    BY DEF CommitBlockFails
  <1>2. Live' = Live
    BY <1>1 DEF Live
  <1>3. spoiled' \in BOOLEAN
    BY <1>1
  <1>4. IndexTypes'
    BY <1>1, <1>3, TypedEmpties DEF IndexInv, IndexTypes
  <1>5. Inactive' /\ TxIndexed' /\ RescanExact'
    BY <1>1, <1>2 DEF IndexInv, Inactive, TxIndexed, RescanExact, NoWrites
  <1>6. ASSUME ~spoiled' PROVE Sound'
    <2>1. Sound /\ ~Live
      BY <1>1, <1>6 DEF IndexInv, Live
    <2>2. MemExact' /\ MemComplete' /\ WritesComplete'
      BY <1>2, <2>1 DEF MemExact, MemComplete, WritesComplete
    <2>3. DiskExact' /\ Registered'
      BY <1>1, <1>2, <2>1 DEF Sound, DiskExact, Registered
    <2>4. DiskComplete'
      BY <1>1, <1>2, <2>1 DEF Sound, DiskComplete, DiskCompleteAt, Listed, Tracked
    <2> QED
      BY <2>2, <2>3, <2>4 DEF Sound
  <1> QED
    BY <1>4, <1>5, <1>6 DEF IndexInv

\* The index is a block ahead of the chain, and its transaction has all that
\* the block adds.
LEMMA ConnectBlockInv ==
    ASSUME IndexInv, ConnectBlock
    PROVE  IndexInv'
  <1>1. /\ up /\ ~dbtx.open /\ tip < MaxTip /\ mem.acc # NoAcc
        /\ UNCHANGED <<disk, tip, up, on, register, rescan, restarts, rescans, since, spoiled, dropped>>
    BY DEF ConnectBlock, histories
  <1>2. Live' = Live /\ Seen = tip
    BY <1>1 DEF Live, Seen
  <1>3. /\ disk \in Datastores /\ mem \in IndexStates /\ tip \in 0..MaxTip
        /\ disk.keys \in SUBSET Users
        /\ tip \in Heights /\ tip + 1 \in Heights /\ tip <= tip + 1 /\ 0 <= tip + 1
    BY <1>1, HeightsFacts DEF IndexInv, IndexTypes, Datastores
  <1>4. CASE ~Live
    <2>1. dbtx' = [NoWrites EXCEPT !.open = TRUE] /\ UNCHANGED mem
      BY <1>1, <1>4 DEF ConnectBlock, Live
    <2>2. dbtx' \in WriteSets /\ dbtx'.userTxs = {} /\ dbtx'.put = {} /\ dbtx'.del = {}
      BY <2>1 DEF NoWrites, WriteSets
    <2>3. IndexTypes'
      BY <1>1, <2>1, <2>2 DEF IndexInv, IndexTypes
    <2>4. Inactive' /\ TxIndexed' /\ RescanExact'
      BY <1>1, <1>2, <2>1, <2>2 DEF IndexInv, Inactive, TxIndexed, RescanExact
    <2>5. ASSUME ~spoiled' PROVE Sound'
      <3>1. Sound
        BY <1>1, <2>5 DEF IndexInv
      <3>2. MemExact' /\ MemComplete' /\ WritesComplete'
        BY <1>2, <1>4 DEF MemExact, MemComplete, WritesComplete
      <3>3. DiskExact' /\ Registered'
        BY <1>1, <1>2, <1>4, <3>1 DEF Sound, DiskExact, Registered
      <3>4. DiskComplete'
        BY <1>1, <1>2, <3>1 DEF Sound, DiskComplete, DiskCompleteAt, Listed, Tracked
      <3> QED
        BY <3>2, <3>3, <3>4 DEF Sound
    <2> QED
      BY <2>3, <2>4, <2>5 DEF IndexInv
  <1>5. CASE Live
    <2> DEFINE c == Connected(mem, tip, tip + 1, disk.keys)
    <2>1. mem' = c.idx /\ dbtx' = c.writes
      BY <1>5 DEF ConnectBlock, Live
    <2>2. /\ c.idx \in IndexStates
          /\ c.writes \in WriteSets
          /\ c.writes.open
          /\ c.idx.best = tip + 1
          /\ c.idx.keys = mem.keys
          /\ c.writes.del \subseteq NullifiersSpent(tip, tip + 1)
          /\ \A e \in c.writes.userTxs : BlockOf[e[2]] <= tip + 1
          /\ ExactAt(mem.acc, tip) => ExactAt(c.idx.acc, tip + 1)
          /\ \A n \in mem.nullifiers :
                n \notin NullifiersSpent(tip, tip + 1) => n \in c.idx.nullifiers
          /\ \A tx \in Txs : \A o \in Spends[tx] :
                tip < BlockOf[tx] /\ BlockOf[tx] <= tip + 1 /\ NullifierOf(o) \in mem.nullifiers
                   => <<Owner[o], tx>> \in c.writes.userTxs
          /\ \A o \in Outputs : tip < Born(o) /\ Born(o) <= tip + 1 /\ Owner[o] \in mem.keys
                   => <<Owner[o], TxOf[o]>> \in c.writes.userTxs
          /\ ExactAt(mem.acc, tip) =>
                \A o \in Outputs :
                   tip < Born(o) /\ Born(o) <= tip + 1 /\ Owner[o] \in mem.keys
                   /\ Owner[o] \in disk.keys =>
                      /\ NullifierOf(o) \notin NullifiersSpent(tip, tip + 1) =>
                            NullifierOf(o) \in c.idx.nullifiers /\ NullifierOf(o) \in c.writes.put
                      /\ \A tx \in Txs : o \in Spends[tx] /\ BlockOf[tx] <= tip + 1 =>
                            <<Owner[o], tx>> \in c.writes.userTxs
      BY <1>3, ConnectedFacts
    <2> HIDE DEF c
    <2>3. IndexTypes'
      BY <1>1, <2>1, <2>2 DEF IndexInv, IndexTypes
    <2>4. Inactive' /\ TxIndexed' /\ RescanExact'
      BY <1>1, <1>2, <1>5, <2>1, <2>2 DEF IndexInv, Inactive, TxIndexed, RescanExact
    <2>5. ASSUME ~spoiled' PROVE Sound'
      <3>1. Sound
        BY <1>1, <2>5 DEF IndexInv
      <3>2. mem.best = tip /\ ExactAt(mem.acc, tip)
        BY <1>1, <1>2, <1>5, <3>1 DEF Sound, MemExact
      <3>3. Seen' = tip + 1 /\ dbtx'.open
        BY <1>1, <2>1, <2>2 DEF Seen
      <3>4. MemExact'
        BY <2>1, <2>2, <3>2, <3>3 DEF MemExact, ExactAt
      <3>5. DiskExact'
        BY <1>1, <1>2, <3>1 DEF Sound, DiskExact
      <3>6. Registered'
        BY <1>1, <1>2, <2>1, <2>2, <3>1 DEF Sound, Registered
      <3>7. DiskComplete'
        BY <1>1, <1>2, <3>1 DEF Sound, DiskComplete, DiskCompleteAt, Listed, Tracked
      <3>8. \A u \in Users : since[u] >= 0 =>
               u \in mem.keys /\ u \in disk.keys /\ Tracked(u, tip, mem.nullifiers)
        BY <1>2, <1>5, <3>1 DEF Sound, Registered, MemComplete
      <3>9. \A o \in Outputs : /\ Born(o) \in 0..MaxTip
                               /\ UnspentAt(o, tip + 1) => UnspentAt(o, tip)
        BY <1>3, ChainFacts DEF UnspentAt
      <3>10. \A o \in Outputs : UnspentAt(o, tip + 1) =>
                NullifierOf(o) \notin NullifiersSpent(tip, tip + 1)
        BY <1>3, NullifiersSpentFacts
      <3>11. MemComplete'
        <4>1. ASSUME NEW u \in Users, since[u] >= 0, NEW o \in Outputs, Owner[o] = u,
                     since[u] < Born(o), Born(o) <= tip + 1, UnspentAt(o, tip + 1)
              PROVE  NullifierOf(o) \in c.idx.nullifiers
          <5>1. CASE Born(o) <= tip
            <6>1. NullifierOf(o) \in mem.nullifiers
              BY <3>8, <3>9, <4>1, <5>1 DEF Tracked
            <6> QED
              BY <2>2, <3>10, <4>1, <6>1
          <5>2. CASE ~(Born(o) <= tip)
            <6>1. tip < Born(o)
              BY <1>3, <3>9, <5>2
            <6> QED
              BY <2>2, <3>2, <3>8, <3>10, <4>1, <6>1
          <5> QED
            BY <5>1, <5>2
        <4>2. \A u \in Users : since'[u] >= 0 => Tracked(u, Seen, mem.nullifiers)'
          BY <1>1, <2>1, <3>3, <4>1 DEF Tracked
        <4> QED
          BY <4>2 DEF MemComplete
      <3>12. WritesComplete'
        <4>1. ASSUME NEW u \in Users, since[u] >= 0, NEW o \in Outputs, Owner[o] = u,
                     since[u] < Born(o), Born(o) = tip + 1
              PROVE  <<u, TxOf[o]>> \in c.writes.userTxs /\ NullifierOf(o) \in c.writes.put
          <5>1. UnspentAt(o, tip + 1)
            BY <4>1, ChainFacts DEF UnspentAt
          <5>2. tip < Born(o) /\ Born(o) <= tip + 1
            BY <1>3, <4>1
          <5> QED
            BY <2>2, <3>2, <3>8, <3>10, <4>1, <5>1, <5>2
        <4>2. ASSUME NEW u \in Users, since[u] >= 0, NEW tx \in Txs, NEW o \in Spends[tx],
                     Owner[o] = u, since[u] < Born(o), BlockOf[tx] = tip + 1
              PROVE  <<u, tx>> \in c.writes.userTxs
          <5>1. o \in Outputs /\ Born(o) < tip + 1 /\ Born(o) \in 0..MaxTip
            BY <4>2, ChainFacts
          <5>2. Born(o) <= tip
            BY <1>3, <5>1
          <5>3. UnspentAt(o, tip)
            <6>1. \A t \in Txs : o \in Spends[t] => t = tx
              BY <4>2, ChainFacts
            <6> QED
              BY <1>3, <4>2, <6>1 DEF UnspentAt
          <5>4. NullifierOf(o) \in mem.nullifiers
            BY <3>8, <4>2, <5>1, <5>2, <5>3 DEF Tracked
          <5>5. tip < BlockOf[tx] /\ BlockOf[tx] <= tip + 1
            BY <1>3, <4>2
          <5> QED
            BY <2>2, <4>2, <5>4, <5>5
        <4> QED
          BY <1>1, <2>1, <2>2, <4>1, <4>2 DEF WritesComplete
      <3> QED
        BY <3>4, <3>5, <3>6, <3>7, <3>11, <3>12 DEF Sound
    <2> QED
      BY <2>3, <2>4, <2>5 DEF IndexInv
  <1> QED
    BY <1>4, <1>5

\* The chain and the datastore follow the index.
LEMMA CommitBlockInv ==
    ASSUME IndexInv, CommitBlock
    PROVE  IndexInv'
  <1>1. /\ up /\ dbtx.open
        /\ tip' = tip + 1
        /\ disk' = IF "tx" \in on THEN IndexTxs(Written(disk, dbtx), tip + 1)
                                  ELSE Written(disk, dbtx)
        /\ dbtx' = NoWrites
        /\ UNCHANGED <<up, on, mem, register, rescan, restarts, rescans, since, spoiled, dropped>>
    BY DEF CommitBlock, histories
  <1>2. /\ tip < MaxTip /\ tip \in 0..MaxTip /\ tip + 1 \in 0..MaxTip
        /\ tip \in Heights /\ tip + 1 \in Heights
        /\ disk \in Datastores /\ dbtx \in WriteSets /\ rescan \in RescanStates
        /\ disk.txHeight \in Heights /\ disk.height \in Heights
    BY <1>1, HeightsFacts DEF IndexInv, IndexTypes, Inactive, Datastores
  <1> DEFINE d == Written(disk, dbtx)
  <1>3. /\ d \in Datastores
        /\ d.txs = disk.txs /\ d.txHeight = disk.txHeight /\ d.keys = disk.keys
        /\ d.userTxs = disk.userTxs \cup dbtx.userTxs
        /\ d.nullifiers = (disk.nullifiers \ dbtx.del) \cup dbtx.put
        /\ d.height = disk.height /\ d.acc = disk.acc
    BY <1>2, WrittenFacts DEF WriteSets
  <1> HIDE DEF d
  <1>4. disk' = IF "tx" \in on THEN IndexTxs(d, tip + 1) ELSE d
    BY <1>1 DEF d
  <1>5. /\ disk' \in Datastores /\ disk'.keys = disk.keys
        /\ disk'.userTxs = disk.userTxs \cup dbtx.userTxs
        /\ disk'.nullifiers = (disk.nullifiers \ dbtx.del) \cup dbtx.put
        /\ disk'.height = disk.height /\ disk'.acc = disk.acc
        /\ "tx" \in on => /\ disk'.txHeight = tip + 1
                          /\ disk'.txs = disk.txs \cup TxsOf(disk.txHeight, tip + 1)
        /\ "tx" \notin on => disk'.txHeight = disk.txHeight /\ disk'.txs = disk.txs
    BY <1>2, <1>3, <1>4, IndexTxsFacts
  <1>6. Live' = Live /\ Seen = tip + 1 /\ Seen' = tip + 1
    BY <1>1 DEF Live, Seen, NoWrites
  <1>7. IndexTypes'
    BY <1>1, <1>2, <1>5, TypedEmpties DEF IndexInv, IndexTypes
  <1>8. Inactive'
    BY <1>1, <1>5, <1>6 DEF IndexInv, Inactive, NoWrites
  <1>9. TxIndexed'
    <2>1. TxIndexed
      BY DEF IndexInv
    <2>2. disk'.txHeight <= tip' /\ (up' /\ "tx" \in on' => disk'.txHeight = tip')
      BY <1>1, <1>2, <1>5, <2>1, HeightsFacts DEF TxIndexed
    <2>3. ASSUME "tx" \notin dropped' PROVE disk'.txs = TxsUpTo(disk'.txHeight)
      <3>1. disk.txs = TxsUpTo(disk.txHeight) /\ disk.txHeight <= tip + 1
        BY <1>1, <1>2, <2>1, <2>3, HeightsFacts DEF TxIndexed
      <3>2. TxsUpTo(disk.txHeight) \cup TxsOf(disk.txHeight, tip + 1) = TxsUpTo(tip + 1)
        BY <1>2, <3>1, TxsUpToFacts
      <3> QED
        BY <1>5, <3>1, <3>2
    <2>4. \A e \in disk'.userTxs : BlockOf[e[2]] <= tip'
      <3>1. \A e \in disk'.userTxs : BlockOf[e[2]] \in 0..MaxTip
        <4>1. disk'.userTxs \subseteq Entries
          BY <1>5 DEF Datastores
        <4> QED
          BY <4>1, ChainFacts DEF Entries
      <3> QED
        BY <1>1, <1>2, <1>5, <2>1, <3>1 DEF TxIndexed
    <2>5. TxsUpTo(disk.txHeight)' = TxsUpTo(disk'.txHeight)
      BY DEF TxsUpTo, TxsOf
    <2> QED
      BY <1>1, <2>2, <2>3, <2>4, <2>5 DEF TxIndexed, NoWrites
  <1>10. RescanExact'
    <2>1. RescanExact /\ rescan.height \in Nat
      BY <1>2 DEF IndexInv, RescanStates
    <2>2. (rescan.height \in 1..(tip + 1) => rescan.height \in 1..((tip + 1) + 1))
          /\ (rescan.height \in 1..tip => rescan.height \in 1..(tip + 1))
      BY <1>2, <2>1
    <2> QED
      BY <1>1, <2>1, <2>2 DEF RescanExact, ExactAt
  <1>11. ASSUME ~spoiled' PROVE Sound'
    <2>1. Sound
      BY <1>1, <1>11 DEF IndexInv
    <2>2. MemExact'
      <3>1. Live => mem.best = tip + 1 /\ ExactAt(mem.acc, tip + 1)
        BY <1>1, <1>6, <2>1 DEF Sound, MemExact
      <3> QED
        BY <1>1, <1>6, <3>1 DEF MemExact, ExactAt
    <2>3. DiskExact'
      <3>1. disk.height <= tip + 1
        BY <1>2, <2>1, HeightsFacts DEF Sound, DiskExact
      <3> QED
        BY <1>1, <1>5, <2>1, <3>1 DEF Sound, DiskExact, ExactAt
    <2>4. Registered'
      BY <1>1, <1>5, <1>6, <2>1 DEF Sound, Registered
    <2>5. MemComplete'
      BY <1>1, <1>6, <2>1 DEF Sound, MemComplete, Tracked
    <2>6. WritesComplete'
      BY <1>1 DEF WritesComplete, NoWrites
    <2>7. PICK t \in Heights : DiskCompleteAt(t)
      BY <2>1 DEF Sound, DiskComplete
    <2>8. CASE ~Live
      <3>1. disk'.userTxs = disk.userTxs /\ disk'.nullifiers = disk.nullifiers
        BY <1>5, <2>8 DEF IndexInv, Inactive
      <3>2. t <= tip + 1
        BY <1>2, <2>7, HeightsFacts DEF DiskCompleteAt
      <3>3. DiskCompleteAt(t)'
        BY <1>1, <1>5, <1>6, <2>7, <2>8, <3>1, <3>2 DEF DiskCompleteAt, Listed, Tracked
      <3> QED
        BY <2>2, <2>3, <2>4, <2>5, <2>6, <3>3 DEF Sound, DiskComplete
    <2>9. CASE Live
      <3>1. t = tip
        BY <2>7, <2>9 DEF DiskCompleteAt
      <3>2. \A u \in Users : since[u] >= 0 => Listed(u, tip) /\ Tracked(u, tip, disk.nullifiers)
        BY <2>7, <3>1 DEF DiskCompleteAt
      <3>3. /\ dbtx.del \subseteq NullifiersSpent(tip, tip + 1)
            /\ \A u \in Users : since[u] >= 0 =>
                  /\ \A o \in Outputs :
                        Owner[o] = u /\ since[u] < Born(o) /\ Born(o) = tip + 1
                           => <<u, TxOf[o]>> \in dbtx.userTxs /\ NullifierOf(o) \in dbtx.put
                  /\ \A tx \in Txs : \A o \in Spends[tx] :
                        Owner[o] = u /\ since[u] < Born(o) /\ BlockOf[tx] = tip + 1
                           => <<u, tx>> \in dbtx.userTxs
        BY <1>1, <2>1, <2>9 DEF Sound, WritesComplete
      <3>4. /\ \A o \in Outputs : Born(o) <= tip + 1 => Born(o) <= tip \/ Born(o) = tip + 1
            /\ \A tx \in Txs : BlockOf[tx] <= tip + 1 => BlockOf[tx] <= tip \/ BlockOf[tx] = tip + 1
        BY <1>2, ChainFacts
      <3>5. \A o \in Outputs : UnspentAt(o, tip + 1) =>
               UnspentAt(o, tip) /\ NullifierOf(o) \notin dbtx.del
        <4>1. \A o \in Outputs : UnspentAt(o, tip + 1) => UnspentAt(o, tip)
          BY <1>2, ChainFacts DEF UnspentAt
        <4>2. \A o \in Outputs : UnspentAt(o, tip + 1) =>
                 NullifierOf(o) \notin NullifiersSpent(tip, tip + 1)
          BY <1>2, NullifiersSpentFacts
        <4> QED
          BY <3>3, <4>1, <4>2
      <3>6. PICK s \in Heights : s = tip + 1
        BY <1>2
      <3>7. ASSUME NEW u \in Users, since[u] >= 0
            PROVE  Listed(u, s)' /\ Tracked(u, s, disk.nullifiers)'
        <4>1. Listed(u, tip) /\ Tracked(u, tip, disk.nullifiers)
          BY <3>2, <3>7
        <4>2. ASSUME NEW o \in Outputs, Owner[o] = u, since[u] < Born(o), Born(o) <= tip + 1
              PROVE  <<u, TxOf[o]>> \in disk'.userTxs
          BY <1>5, <3>3, <3>4, <3>7, <4>1, <4>2 DEF Listed
        <4>3. ASSUME NEW tx \in Txs, NEW o \in Spends[tx], Owner[o] = u, since[u] < Born(o),
                     BlockOf[tx] <= tip + 1
              PROVE  <<u, tx>> \in disk'.userTxs
          BY <1>5, <3>3, <3>4, <3>7, <4>1, <4>3 DEF Listed
        <4>4. ASSUME NEW o \in Outputs, Owner[o] = u, since[u] < Born(o), Born(o) <= tip + 1,
                     UnspentAt(o, tip + 1)
              PROVE  NullifierOf(o) \in disk'.nullifiers
          BY <1>5, <3>3, <3>4, <3>5, <3>7, <4>1, <4>4 DEF Tracked
        <4> QED
          BY <1>1, <3>6, <4>2, <4>3, <4>4 DEF Listed, Tracked
      <3>8. DiskCompleteAt(s)'
        <4>1. \A u \in Users : since'[u] >= 0 =>
                 Listed(u, s)' /\ Tracked(u, s, disk.nullifiers)'
          BY <1>1, <3>7
        <4>2. s <= tip' /\ s = tip'
          BY <1>1, <1>2, <3>6
        <4> QED
          BY <1>6, <2>9, <4>1, <4>2 DEF DiskCompleteAt
      <3> QED
        BY <2>2, <2>3, <2>4, <2>5, <2>6, <3>8 DEF Sound, DiskComplete
    <2> QED
      BY <2>8, <2>9
  <1> QED
    BY <1>7, <1>8, <1>9, <1>10, <1>11 DEF IndexInv

\* NewWalletServerIndex: what is loaded is what was flushed.
LEMMA LoadIndexFacts ==
    ASSUME disk \in Datastores
    PROVE  /\ LoadIndex \in IndexStates
           /\ LoadIndex.keys = disk.keys /\ LoadIndex.nullifiers = disk.nullifiers
           /\ disk.height = -1 => LoadIndex.acc = NewAccumulator
           /\ disk.height = 0 => LoadIndex.acc = NoAcc /\ LoadIndex.best = 0
           /\ disk.height > 0 => LoadIndex.acc = disk.acc /\ LoadIndex.best = disk.height
  <1> DEFINE acc == CASE disk.height = -1 -> NewAccumulator
                      [] disk.height = 0  -> NoAcc
                      [] OTHER            -> disk.acc
             best == IF disk.height = -1 THEN 0 ELSE disk.height
  <1>1. /\ disk.height \in -1..MaxTip /\ disk.acc \in Accs
        /\ disk.keys \in SUBSET Users /\ disk.nullifiers \in SUBSET AnyNullifiers
    BY HeightsFacts DEF Datastores
  <1>2. /\ disk.height = -1 => acc = NewAccumulator
        /\ disk.height = 0 => acc = NoAcc
        /\ disk.height > 0 => acc = disk.acc
    BY <1>1
  <1>3. acc \in Accs
    BY <1>1, <1>2, TypedEmpties
  <1>4. best \in 0..MaxTip
    BY <1>1, ChainFacts
  <1>5. LoadIndex = [acc |-> acc, keys |-> disk.keys, nullifiers |-> disk.nullifiers, best |-> best]
    BY DEF LoadIndex
  <1> HIDE DEF acc
  <1>6. LoadIndex \in IndexStates
    <2> HIDE DEF best
    <2> QED
      BY <1>1, <1>3, <1>4, <1>5 DEF IndexStates
  <1>7. /\ LoadIndex.acc = acc /\ LoadIndex.best = best
        /\ LoadIndex.keys = disk.keys /\ LoadIndex.nullifiers = disk.nullifiers
    BY <1>5
  <1> QED
    BY <1>1, <1>2, <1>6, <1>7

\* The roll forward makes up for every block the datastore has not seen, from
\* whatever height the accumulator was flushed at: each block above t for the
\* first time, those above the accumulator again.
LEMMA RollForwardFacts ==
    ASSUME IndexInv, ~Live,
           ~(disk.height > 0 /\ disk.acc = NoAcc), ~(disk.height = 0 /\ tip > 0)
    PROVE  LET r == RollForward IN
           /\ r.idx \in IndexStates
           /\ r.writes \in WriteSets
           /\ r.idx.keys = disk.keys
           /\ \A e \in r.writes.userTxs : BlockOf[e[2]] <= tip
           /\ ~spoiled =>
                 /\ \/ r.idx.acc = NoAcc /\ tip = 0 /\ r.idx.best = 0
                    \/ r.idx.best = tip /\ ExactAt(r.idx.acc, tip)
                 /\ \A u \in Users : since[u] >= 0 =>
                       /\ \A o \in Outputs : Owner[o] = u /\ since[u] < Born(o) /\ Born(o) <= tip
                             => <<u, TxOf[o]>> \in disk.userTxs \cup r.writes.userTxs
                       /\ \A tx \in Txs : \A o \in Spends[tx] :
                             Owner[o] = u /\ since[u] < Born(o) /\ BlockOf[tx] <= tip
                                => <<u, tx>> \in disk.userTxs \cup r.writes.userTxs
                       /\ \A o \in Outputs :
                             Owner[o] = u /\ since[u] < Born(o) /\ Born(o) <= tip
                             /\ UnspentAt(o, tip)
                                => /\ NullifierOf(o) \in r.idx.nullifiers
                                   /\ NullifierOf(o) \in
                                         (disk.nullifiers \ r.writes.del) \cup r.writes.put
  <1>1. /\ disk \in Datastores /\ disk.height \in Heights /\ disk.height \in -1..MaxTip
        /\ tip \in 0..MaxTip /\ tip \in Heights /\ 0 <= tip /\ disk.keys \in SUBSET Users
    BY HeightsFacts DEF IndexInv, IndexTypes, Datastores
  <1>2. /\ LoadIndex \in IndexStates
        /\ LoadIndex.keys = disk.keys /\ LoadIndex.nullifiers = disk.nullifiers
        /\ disk.height = -1 => LoadIndex.acc = NewAccumulator
        /\ disk.height = 0 => LoadIndex.acc = NoAcc /\ LoadIndex.best = 0
        /\ disk.height > 0 => LoadIndex.acc = disk.acc /\ LoadIndex.best = disk.height
    BY <1>1, LoadIndexFacts
  <1>3. ASSUME ~spoiled
        PROVE  /\ disk.height <= tip
               /\ disk.height > 0 => ExactAt(disk.acc, disk.height)
               /\ \E t \in Heights : t <= tip /\ disk.height <= t /\
                     \A u \in Users : since[u] >= 0 =>
                         u \in disk.keys /\ Listed(u, t) /\ Tracked(u, t, disk.nullifiers)
    <2>1. Sound
      BY <1>3 DEF IndexInv
    <2>2. PICK t \in Heights : DiskCompleteAt(t)
      BY <2>1 DEF Sound, DiskComplete
    <2>3. t <= tip /\ disk.height <= t
      BY <2>2 DEF DiskCompleteAt
    <2>4. \A u \in Users : since[u] >= 0 =>
             u \in disk.keys /\ Listed(u, t) /\ Tracked(u, t, disk.nullifiers)
      BY <2>1, <2>2 DEF Sound, DiskCompleteAt, Registered
    <2>5. disk.height <= tip /\ (disk.height > 0 => ExactAt(disk.acc, disk.height))
      BY <2>1 DEF Sound, DiskExact
    <2> QED
      BY <2>3, <2>4, <2>5
  <1>4. CASE disk.height < tip
    <2> DEFINE k == disk.height
               c == Connected(LoadIndex, k, tip, disk.keys)
    <2>1. RollForward = c
      BY <1>4 DEF RollForward
    <2>2. /\ c.idx \in IndexStates
          /\ c.writes \in WriteSets
          /\ c.idx.best = tip
          /\ c.idx.keys = disk.keys
          /\ c.writes.del \subseteq NullifiersSpent(k, tip)
          /\ \A e \in c.writes.userTxs : BlockOf[e[2]] <= tip
          /\ ExactAt(LoadIndex.acc, k) => ExactAt(c.idx.acc, tip)
          /\ \A n \in disk.nullifiers : n \notin NullifiersSpent(k, tip) => n \in c.idx.nullifiers
          /\ \A tx \in Txs : \A o \in Spends[tx] :
                k < BlockOf[tx] /\ BlockOf[tx] <= tip /\ NullifierOf(o) \in disk.nullifiers
                   => <<Owner[o], tx>> \in c.writes.userTxs
          /\ \A o \in Outputs : k < Born(o) /\ Born(o) <= tip /\ Owner[o] \in disk.keys
                   => <<Owner[o], TxOf[o]>> \in c.writes.userTxs
          /\ ExactAt(LoadIndex.acc, k) =>
                \A o \in Outputs :
                   k < Born(o) /\ Born(o) <= tip /\ Owner[o] \in disk.keys =>
                      /\ NullifierOf(o) \notin NullifiersSpent(k, tip) =>
                            NullifierOf(o) \in c.idx.nullifiers /\ NullifierOf(o) \in c.writes.put
                      /\ \A tx \in Txs : o \in Spends[tx] /\ BlockOf[tx] <= tip =>
                            <<Owner[o], tx>> \in c.writes.userTxs
      <3>1. k <= tip
        BY <1>1, <1>4
      <3> QED
        BY <1>1, <1>2, <3>1, ConnectedFacts
    <2> HIDE DEF c
    <2>3. ASSUME ~spoiled
          PROVE  /\ c.idx.best = tip /\ ExactAt(c.idx.acc, tip)
                 /\ \A u \in Users : since[u] >= 0 =>
                       /\ \A o \in Outputs : Owner[o] = u /\ since[u] < Born(o) /\ Born(o) <= tip
                             => <<u, TxOf[o]>> \in disk.userTxs \cup c.writes.userTxs
                       /\ \A tx \in Txs : \A o \in Spends[tx] :
                             Owner[o] = u /\ since[u] < Born(o) /\ BlockOf[tx] <= tip
                                => <<u, tx>> \in disk.userTxs \cup c.writes.userTxs
                       /\ \A o \in Outputs :
                             Owner[o] = u /\ since[u] < Born(o) /\ Born(o) <= tip
                             /\ UnspentAt(o, tip)
                                => /\ NullifierOf(o) \in c.idx.nullifiers
                                   /\ NullifierOf(o) \in
                                         (disk.nullifiers \ c.writes.del) \cup c.writes.put
      <3>1. ExactAt(LoadIndex.acc, k)
        <4>1. CASE k = -1
          BY <1>2, <4>1, TypedEmpties
        <4>2. CASE k > 0
          BY <1>2, <1>3, <2>3, <4>2
        <4> QED
          BY <1>1, <1>4, <4>1, <4>2
      <3>2. PICK t \in Heights : t <= tip /\ k <= t /\
                     \A u \in Users : since[u] >= 0 =>
                         u \in disk.keys /\ Listed(u, t) /\ Tracked(u, t, disk.nullifiers)
        BY <1>3, <2>3
      <3>3. t \in -1..MaxTip /\ k \in -1..MaxTip
        BY <1>1, HeightsFacts
      <3> HIDE DEF k
      <3>4. ASSUME NEW u \in Users, since[u] >= 0, NEW o \in Outputs, Owner[o] = u,
                   since[u] < Born(o), Born(o) <= tip
            PROVE  <<u, TxOf[o]>> \in disk.userTxs \cup c.writes.userTxs
        <4>1. CASE Born(o) <= t
          BY <3>2, <3>4, <4>1 DEF Listed
        <4>2. CASE ~(Born(o) <= t)
          <5>1. k < Born(o)
            BY <3>2, <3>3, <4>2, ChainFacts
          <5> QED
            BY <2>2, <3>2, <3>4, <5>1
        <4> QED
          BY <4>1, <4>2
      <3>5. ASSUME NEW u \in Users, since[u] >= 0, NEW tx \in Txs, NEW o \in Spends[tx],
                   Owner[o] = u, since[u] < Born(o), BlockOf[tx] <= tip
            PROVE  <<u, tx>> \in disk.userTxs \cup c.writes.userTxs
        <4>1. /\ o \in Outputs /\ Born(o) < BlockOf[tx] /\ Born(o) \in 0..MaxTip
              /\ BlockOf[tx] \in 0..MaxTip
          BY ChainFacts
        <4>2. CASE BlockOf[tx] <= t
          BY <3>2, <3>5, <4>2 DEF Listed
        <4>3. CASE ~(BlockOf[tx] <= t)
          <5>1. k < BlockOf[tx] /\ BlockOf[tx] > t
            BY <3>2, <3>3, <4>1, <4>3
          <5>2. CASE Born(o) <= k
            <6>1. \A t1 \in Txs : o \in Spends[t1] => t1 = tx
              BY <3>5, ChainFacts
            <6>2. UnspentAt(o, t)
              BY <5>1, <6>1 DEF UnspentAt
            <6>3. Born(o) <= t
              BY <3>2, <3>3, <4>1, <5>2
            <6>4. NullifierOf(o) \in disk.nullifiers
              BY <3>2, <3>5, <4>1, <6>2, <6>3 DEF Tracked
            <6> QED
              BY <2>2, <3>5, <5>1, <6>4
          <5>3. CASE ~(Born(o) <= k)
            <6>1. k < Born(o) /\ Born(o) <= tip
              BY <1>1, <3>3, <3>5, <4>1, <5>3
            <6> QED
              BY <2>2, <3>1, <3>2, <3>5, <4>1, <6>1
          <5> QED
            BY <5>2, <5>3
        <4> QED
          BY <4>2, <4>3
      <3>6. ASSUME NEW u \in Users, since[u] >= 0, NEW o \in Outputs, Owner[o] = u,
                   since[u] < Born(o), Born(o) <= tip, UnspentAt(o, tip)
            PROVE  /\ NullifierOf(o) \in c.idx.nullifiers
                   /\ NullifierOf(o) \in (disk.nullifiers \ c.writes.del) \cup c.writes.put
        <4>1. NullifierOf(o) \notin NullifiersSpent(k, tip)
          BY <1>1, <3>6, NullifiersSpentFacts DEF k
        <4>2. CASE Born(o) <= k
          <5>1. UnspentAt(o, t)
            BY <1>1, <3>2, <3>3, <3>6, ChainFacts DEF UnspentAt
          <5>2. Born(o) <= t
            BY <3>2, <3>3, <4>2, ChainFacts
          <5>3. NullifierOf(o) \in disk.nullifiers
            BY <3>2, <3>6, <5>1, <5>2 DEF Tracked
          <5> QED
            BY <2>2, <4>1, <5>3
        <4>3. CASE ~(Born(o) <= k)
          <5>1. k < Born(o)
            BY <3>3, <4>3, ChainFacts
          <5> QED
            BY <2>2, <3>1, <3>2, <3>6, <4>1, <5>1
        <4> QED
          BY <4>2, <4>3
      <3>7. c.idx.best = tip /\ ExactAt(c.idx.acc, tip)
        BY <2>2, <3>1
      <3> QED
        BY <3>4, <3>5, <3>6, <3>7
    <2> QED
      BY <2>1, <2>2, <2>3
  <1>5. CASE ~(disk.height < tip)
    <2> DEFINE r == RollForward
    <2>1. r = [idx |-> LoadIndex, writes |-> NoWrites]
      BY <1>5 DEF RollForward
    <2>2. /\ r.idx = LoadIndex /\ r.writes = NoWrites
          /\ r.writes.userTxs = {} /\ r.writes.put = {} /\ r.writes.del = {}
      BY <2>1 DEF NoWrites
    <2>3. ASSUME ~spoiled
          PROVE  /\ \/ r.idx.acc = NoAcc /\ tip = 0 /\ r.idx.best = 0
                    \/ r.idx.best = tip /\ ExactAt(r.idx.acc, tip)
                 /\ \A u \in Users : since[u] >= 0 =>
                       Listed(u, tip) /\ Tracked(u, tip, disk.nullifiers)
      <3>1. disk.height = tip
        BY <1>1, <1>3, <1>5, <2>3
      <3>2. PICK t \in Heights : t <= tip /\ disk.height <= t /\
                     \A u \in Users : since[u] >= 0 =>
                         u \in disk.keys /\ Listed(u, t) /\ Tracked(u, t, disk.nullifiers)
        BY <1>3, <2>3
      <3>3. t = tip
        BY <1>1, <3>1, <3>2, HeightsFacts
      <3>4. CASE tip = 0
        BY <1>2, <2>2, <3>1, <3>2, <3>3, <3>4
      <3>5. CASE tip > 0
        BY <1>2, <1>3, <2>2, <2>3, <3>1, <3>2, <3>3, <3>5
      <3> QED
        BY <1>1, <3>4, <3>5
    <2> HIDE DEF r
    <2>4. r.idx \in IndexStates /\ r.writes \in WriteSets /\ r.idx.keys = disk.keys
          /\ r.idx.nullifiers = disk.nullifiers
      BY <1>2, <2>2, TypedEmpties
    <2>5. RollForward = r
      BY DEF r
    <2> QED
      BY <2>2, <2>3, <2>4, <2>5 DEF Listed, Tracked
  <1> QED
    BY <1>4, <1>5

\* What a drop leaves of the datastore: the heights.
LEMMA DroppedFacts ==
    ASSUME NEW d \in Datastores, NEW drop \in SUBSET {"tx", "ws"}
    PROVE  LET e == Dropped(d, drop) IN
           /\ e \in Datastores
           /\ e.txHeight = d.txHeight /\ e.height = d.height
           /\ "tx" \notin drop => e.txs = d.txs
           /\ "ws" \notin drop => /\ e.keys = d.keys /\ e.userTxs = d.userTxs
                                  /\ e.nullifiers = d.nullifiers /\ e.acc = d.acc
           /\ "ws" \in drop => e.keys = {} /\ e.userTxs = {} /\ e.nullifiers = {} /\ e.acc = NoAcc
  <1> DEFINE d1 == IF "tx" \in drop THEN [d EXCEPT !.txs = {}] ELSE d
             d2 == [d1 EXCEPT !.keys = {}, !.userTxs = {}, !.nullifiers = {}, !.acc = NoAcc]
  <1>1. /\ d1 \in Datastores
        /\ d1.txHeight = d.txHeight /\ d1.height = d.height
        /\ "tx" \notin drop => d1.txs = d.txs
        /\ d1.keys = d.keys /\ d1.userTxs = d.userTxs
        /\ d1.nullifiers = d.nullifiers /\ d1.acc = d.acc
    BY DEF Datastores
  <1> HIDE DEF d1
  <1>2. d2 \in Datastores
    BY <1>1, TypedEmpties DEF Datastores
  <1>3. /\ d2.txHeight = d1.txHeight /\ d2.height = d1.height /\ d2.txs = d1.txs
        /\ d2.keys = {} /\ d2.userTxs = {} /\ d2.nullifiers = {} /\ d2.acc = NoAcc
    BY <1>1 DEF Datastores
  <1> HIDE DEF d2
  <1>4. Dropped(d, drop) = IF "ws" \in drop THEN d2 ELSE d1
    BY DEF Dropped, d1, d2
  <1> QED
    BY <1>1, <1>2, <1>3, <1>4

\* BuildServer with any configuration, and any drops.
LEMMA RestartInv ==
    ASSUME IndexInv, NEW configured \in {{}, {"tx"}, {"tx", "ws"}}, NEW drop \in SUBSET {"tx", "ws"},
           Restart(configured, drop)
    PROVE  IndexInv'
  <1> DEFINE d1 == Dropped(disk, drop)
             d2 == IF "tx" \in on' THEN IndexTxs(d1, tip) ELSE d1
             r == RollForward
  <1>1. /\ ~up /\ up' = TRUE /\ on' = configured \ drop
        /\ "ws" \in on' => /\ ~(disk.height > 0 /\ disk.acc = NoAcc)
                           /\ ~(disk.height = 0 /\ tip > 0)
        /\ "ws" \in on' => mem' = r.idx /\ disk' = Written(d2, r.writes)
        /\ "ws" \notin on' => mem' = NoIndex /\ disk' = d2
        /\ dropped' = dropped \cup drop
        /\ since' = IF "ws" \in drop THEN [u \in Users |-> -1] ELSE since
        /\ UNCHANGED <<tip, dbtx, register, rescan, spoiled, rescans>>
    BY DEF Restart
  <1>2. /\ disk \in Datastores /\ tip \in 0..MaxTip /\ tip \in Heights /\ since \in [Users -> Heights]
        /\ disk.txHeight \in Heights /\ disk.height \in Heights /\ dropped \in SUBSET {"tx", "ws"}
    BY HeightsFacts DEF IndexInv, IndexTypes, Datastores
  <1>3. /\ ~Live /\ dbtx = NoWrites /\ register = Nobody /\ rescan = NoRescan
        /\ ~dbtx.open /\ dbtx.userTxs = {} /\ dbtx.put = {} /\ dbtx.del = {}
    BY <1>1 DEF IndexInv, Inactive, Live, NoWrites
  <1>4. Live' <=> "ws" \in on'
    BY <1>1 DEF Live
  <1>5. Seen' = tip
    BY <1>1, <1>3 DEF Seen
  <1>6. on' \in SUBSET {"tx", "ws"} /\ ("ws" \in on' => "ws" \notin drop)
    BY <1>1
  <1>7. /\ d1 \in Datastores
        /\ d1.txHeight = disk.txHeight /\ d1.height = disk.height
        /\ "tx" \notin drop => d1.txs = disk.txs
        /\ "ws" \notin drop => /\ d1.keys = disk.keys /\ d1.userTxs = disk.userTxs
                               /\ d1.nullifiers = disk.nullifiers /\ d1.acc = disk.acc
        /\ "ws" \in drop => d1.keys = {} /\ d1.userTxs = {} /\ d1.nullifiers = {} /\ d1.acc = NoAcc
    BY <1>2, DroppedFacts
  <1> HIDE DEF d1
  <1>8. /\ d2 \in Datastores /\ d2.height = d1.height /\ d2.acc = d1.acc
        /\ d2.keys = d1.keys /\ d2.userTxs = d1.userTxs /\ d2.nullifiers = d1.nullifiers
        /\ "tx" \in on' => d2.txHeight = tip /\ d2.txs = d1.txs \cup TxsOf(d1.txHeight, tip)
        /\ "tx" \notin on' => d2.txHeight = d1.txHeight /\ d2.txs = d1.txs
    BY <1>2, <1>7, IndexTxsFacts
  <1> HIDE DEF d2
  <1>9. ASSUME "ws" \in on'
        PROVE  /\ r.idx \in IndexStates
               /\ r.writes \in WriteSets
               /\ r.idx.keys = disk.keys
               /\ \A e \in r.writes.userTxs : BlockOf[e[2]] <= tip
               /\ ~spoiled =>
                     /\ \/ r.idx.acc = NoAcc /\ tip = 0 /\ r.idx.best = 0
                        \/ r.idx.best = tip /\ ExactAt(r.idx.acc, tip)
                     /\ \A u \in Users : since[u] >= 0 =>
                           /\ \A o \in Outputs : Owner[o] = u /\ since[u] < Born(o) /\ Born(o) <= tip
                                 => <<u, TxOf[o]>> \in disk.userTxs \cup r.writes.userTxs
                           /\ \A tx \in Txs : \A o \in Spends[tx] :
                                 Owner[o] = u /\ since[u] < Born(o) /\ BlockOf[tx] <= tip
                                    => <<u, tx>> \in disk.userTxs \cup r.writes.userTxs
                           /\ \A o \in Outputs :
                                 Owner[o] = u /\ since[u] < Born(o) /\ Born(o) <= tip
                                 /\ UnspentAt(o, tip)
                                    => /\ NullifierOf(o) \in r.idx.nullifiers
                                       /\ NullifierOf(o) \in
                                             (disk.nullifiers \ r.writes.del) \cup r.writes.put
    BY <1>1, <1>3, <1>9, RollForwardFacts
  <1> HIDE DEF r
  <1>10. ASSUME "ws" \in on'
         PROVE  /\ disk' \in Datastores
                /\ disk'.txs = d2.txs /\ disk'.txHeight = d2.txHeight /\ disk'.keys = disk.keys
                /\ disk'.userTxs = disk.userTxs \cup r.writes.userTxs
                /\ disk'.nullifiers = (disk.nullifiers \ r.writes.del) \cup r.writes.put
                /\ disk'.height = disk.height /\ disk'.acc = disk.acc
    <2>1. /\ r.writes.userTxs \in SUBSET Entries /\ r.writes.put \in SUBSET AnyNullifiers
          /\ r.writes.del \in SUBSET AnyNullifiers
      BY <1>9, <1>10 DEF WriteSets
    <2>2. /\ Written(d2, r.writes) \in Datastores
          /\ Written(d2, r.writes).txs = d2.txs /\ Written(d2, r.writes).txHeight = d2.txHeight
          /\ Written(d2, r.writes).keys = d2.keys
          /\ Written(d2, r.writes).userTxs = d2.userTxs \cup r.writes.userTxs
          /\ Written(d2, r.writes).nullifiers = (d2.nullifiers \ r.writes.del) \cup r.writes.put
          /\ Written(d2, r.writes).height = d2.height /\ Written(d2, r.writes).acc = d2.acc
      BY <1>8, <2>1, WrittenFacts
    <2> QED
      BY <1>1, <1>6, <1>7, <1>8, <1>10, <2>2
  <1>11. /\ disk' \in Datastores /\ disk'.txs = d2.txs /\ disk'.txHeight = d2.txHeight
         /\ disk'.height = disk.height /\ mem' \in IndexStates
    BY <1>1, <1>7, <1>8, <1>9, <1>10, TypedEmpties
  <1>12. since' \in [Users -> Heights]
    BY <1>1, <1>2, HeightsFacts
  <1>13. IndexTypes'
    BY <1>1, <1>2, <1>6, <1>11, <1>12 DEF IndexInv, IndexTypes
  <1>14. Inactive'
    <2>1. ~Live' => mem' = NoIndex
      BY <1>1, <1>4
    <2> QED
      BY <1>1, <1>3, <2>1 DEF Inactive
  <1>15. RescanExact'
    BY <1>1, <1>3 DEF RescanExact, NoRescan
  <1>16. TxIndexed'
    <2>1. TxIndexed
      BY DEF IndexInv
    <2>2. disk'.txHeight <= tip' /\ (up' /\ "tx" \in on' => disk'.txHeight = tip')
      BY <1>1, <1>2, <1>7, <1>8, <1>11, <2>1 DEF TxIndexed
    <2>3. ASSUME "tx" \notin dropped' PROVE disk'.txs = TxsUpTo(disk'.txHeight)
      <3>1. /\ "tx" \notin drop /\ disk.txHeight <= tip
            /\ disk.txs = TxsUpTo(disk.txHeight)
        BY <1>1, <2>1, <2>3 DEF TxIndexed
      <3>2. TxsUpTo(disk.txHeight) \cup TxsOf(disk.txHeight, tip) = TxsUpTo(tip)
        BY <1>2, <3>1, TxsUpToFacts
      <3> QED
        BY <1>7, <1>8, <1>11, <3>1, <3>2
    <2>4. \A e \in disk'.userTxs : BlockOf[e[2]] <= tip
      <3>1. CASE "ws" \in on'
        BY <1>9, <1>10, <2>1, <3>1 DEF TxIndexed
      <3>2. CASE "ws" \notin on'
        BY <1>1, <1>7, <1>8, <2>1, <3>2 DEF TxIndexed
      <3> QED
        BY <3>1, <3>2
    <2>5. TxsUpTo(disk.txHeight)' = TxsUpTo(disk'.txHeight)
      BY DEF TxsUpTo, TxsOf
    <2> QED
      BY <1>1, <1>3, <2>2, <2>3, <2>4, <2>5 DEF TxIndexed
  <1>17. ASSUME ~spoiled' PROVE Sound'
    <2>1. Sound /\ ~spoiled
      BY <1>1, <1>17 DEF IndexInv
    <2>2. disk.height <= tip /\ (disk.height > 0 /\ disk.acc # NoAcc => ExactAt(disk.acc, disk.height))
      BY <1>3, <2>1 DEF Sound, DiskExact
    <2>3. disk'.acc = disk.acc \/ disk'.acc = NoAcc
      BY <1>1, <1>7, <1>8, <1>10
    <2>4. DiskExact'
      BY <1>1, <1>11, <2>2, <2>3 DEF DiskExact, ExactAt
    <2>5. WritesComplete'
      BY <1>1, <1>3 DEF WritesComplete
    <2>6. CASE "ws" \in on'
      <3>1. since' = since /\ mem' = r.idx /\ Live'
        BY <1>1, <1>4, <1>6, <2>6
      <3>2. MemExact'
        BY <1>1, <1>3, <1>5, <1>9, <2>1, <2>6, <3>1 DEF MemExact, ExactAt
      <3>3. Registered'
        BY <1>9, <1>10, <2>1, <2>6, <3>1 DEF Sound, Registered
      <3>4. \A u \in Users : since[u] >= 0 =>
                 /\ \A o \in Outputs : Owner[o] = u /\ since[u] < Born(o) /\ Born(o) <= tip
                       => <<u, TxOf[o]>> \in disk'.userTxs
                 /\ \A tx \in Txs : \A o \in Spends[tx] :
                       Owner[o] = u /\ since[u] < Born(o) /\ BlockOf[tx] <= tip
                          => <<u, tx>> \in disk'.userTxs
                 /\ \A o \in Outputs :
                       Owner[o] = u /\ since[u] < Born(o) /\ Born(o) <= tip /\ UnspentAt(o, tip)
                          => NullifierOf(o) \in mem'.nullifiers /\ NullifierOf(o) \in disk'.nullifiers
        BY <1>9, <1>10, <2>1, <2>6, <3>1
      <3>5. MemComplete'
        BY <1>5, <3>1, <3>4 DEF MemComplete, Tracked
      <3>6. DiskComplete'
        <4>1. PICK s \in Heights : s = tip
          BY <1>2
        <4>2. \A u \in Users : since'[u] >= 0 => Listed(u, s)' /\ Tracked(u, s, disk.nullifiers)'
          BY <3>1, <3>4, <4>1 DEF Listed, Tracked
        <4>3. DiskCompleteAt(s)'
          BY <1>1, <1>2, <3>1, <4>1, <4>2 DEF DiskCompleteAt
        <4> QED
          BY <4>3 DEF DiskComplete
      <3> QED
        BY <2>4, <2>5, <3>2, <3>3, <3>5, <3>6 DEF Sound
    <2>7. CASE "ws" \notin on'
      <3>1. ~Live' /\ disk' = d2
        BY <1>1, <1>4, <2>7
      <3>2. MemExact' /\ MemComplete'
        BY <3>1 DEF MemExact, MemComplete
      <3>3. PICK t \in Heights : DiskCompleteAt(t)
        BY <2>1 DEF Sound, DiskComplete
      <3>4. t <= tip /\ disk.height <= t
        BY <1>3, <3>3 DEF DiskCompleteAt
      <3>5. CASE "ws" \in drop
        <4>1. \A u \in Users : ~(since'[u] >= 0)
          BY <1>1, <3>5
        <4>2. Registered' /\ DiskCompleteAt(t)'
          BY <1>1, <1>11, <3>1, <3>4, <4>1 DEF Registered, DiskCompleteAt
        <4> QED
          BY <2>4, <2>5, <3>2, <4>2 DEF Sound, DiskComplete
      <3>6. CASE "ws" \notin drop
        <4>1. /\ since' = since /\ disk'.keys = disk.keys /\ disk'.userTxs = disk.userTxs
              /\ disk'.nullifiers = disk.nullifiers
          BY <1>1, <1>7, <1>8, <3>1, <3>6
        <4>2. Registered'
          BY <2>1, <3>1, <4>1 DEF Sound, Registered
        <4>3. DiskCompleteAt(t)'
          BY <1>1, <1>11, <3>1, <3>3, <3>4, <4>1 DEF DiskCompleteAt, Listed, Tracked
        <4> QED
          BY <2>4, <2>5, <3>2, <4>2, <4>3 DEF Sound, DiskComplete
      <3> QED
        BY <3>5, <3>6
    <2> QED
      BY <2>6, <2>7
  <1> QED
    BY <1>13, <1>14, <1>15, <1>16, <1>17 DEF IndexInv

\* A new node has an index of the genesis block.
LEMMA IndexInit == Init => IndexInv
  <1> SUFFICES ASSUME Init PROVE IndexInv
    OBVIOUS
  <1>1. /\ tip = 0 /\ up = TRUE /\ on \in {{}, {"tx"}, {"tx", "ws"}}
        /\ disk = IF "tx" \in on THEN IndexTxs(EmptyDisk, 0) ELSE EmptyDisk
        /\ mem = IF "ws" \in on THEN Connected(NoIndex, -1, 0, {}).idx ELSE NoIndex
        /\ dbtx = NoWrites /\ register = Nobody /\ rescan = NoRescan
        /\ since = [u \in Users |-> -1] /\ spoiled = FALSE /\ dropped = {}
    BY DEF Init
  <1> DEFINE h == IF "tx" \in on THEN 0 ELSE -1
  <1>2. disk = [txs |-> TxsOf(-1, h), txHeight |-> h, keys |-> {}, userTxs |-> {},
                nullifiers |-> {}, height |-> -1, acc |-> NoAcc]
    <2>1. TxsOf(-1, -1) = {}
      BY ChainFacts DEF TxsOf
    <2>2. CASE "tx" \in on
      BY <1>1, <2>2 DEF IndexTxs, EmptyDisk
    <2>3. CASE "tx" \notin on
      BY <1>1, <2>1, <2>3 DEF EmptyDisk
    <2> QED
      BY <2>2, <2>3
  <1>19. h \in Heights /\ h <= 0 /\ ("tx" \in on => h = 0)
    BY HeightsFacts
  <1> HIDE DEF h
  <1>3. /\ disk.txs = TxsOf(-1, h) /\ disk.txHeight = h /\ disk.keys = {} /\ disk.userTxs = {}
        /\ disk.nullifiers = {} /\ disk.height = -1 /\ disk.acc = NoAcc
    BY <1>2
  <1>4. 0 \in 0..MaxTip /\ -1 \in Heights /\ 0 \in Heights
    BY HeightsFacts
  <1>5. TxsOf(-1, h) \in SUBSET Txs
    BY DEF TxsOf
  <1>6. disk \in Datastores
    BY <1>2, <1>4, <1>5, <1>19, TypedEmpties DEF Datastores
  <1>7. ~dbtx.open /\ dbtx.userTxs = {} /\ dbtx.put = {} /\ dbtx.del = {}
    BY <1>1 DEF NoWrites
  <1>8. Live => /\ mem \in IndexStates /\ mem.best = 0 /\ mem.keys = {}
                /\ ExactAt(mem.acc, 0)
    <2> DEFINE c == Connected(NoIndex, -1, 0, {})
    <2>1. /\ c.idx \in IndexStates /\ c.idx.best = 0 /\ c.idx.keys = NoIndex.keys
          /\ ExactAt(NoIndex.acc, -1) => ExactAt(c.idx.acc, 0)
      BY <1>4, TypedEmpties, ConnectedFacts
    <2> HIDE DEF c
    <2>2. NoIndex.acc = NewAccumulator /\ NoIndex.keys = {}
      BY DEF NoIndex
    <2>3. Live => mem = c.idx
      BY <1>1 DEF Live, c
    <2> QED
      BY <2>1, <2>2, <2>3, TypedEmpties
  <1>9. ~Live => mem = NoIndex
    BY <1>1 DEF Live
  <1>10. since \in [Users -> Heights] /\ \A u \in Users : ~(since[u] >= 0)
    BY <1>1, <1>4
  <1>11. IndexTypes
    BY <1>1, <1>4, <1>6, <1>8, <1>9, <1>10, TypedEmpties DEF IndexTypes
  <1>12. Inactive
    BY <1>1, <1>7, <1>9 DEF Inactive
  <1>13. TxIndexed
    BY <1>1, <1>3, <1>7, <1>19 DEF TxIndexed, TxsUpTo
  <1>14. RescanExact
    BY <1>1 DEF RescanExact, NoRescan
  <1>15. Seen = 0
    BY <1>1, <1>7 DEF Seen
  <1>16. MemExact /\ DiskExact
    BY <1>1, <1>3, <1>8, <1>15 DEF MemExact, DiskExact
  <1>17. Registered /\ MemComplete /\ WritesComplete
    BY <1>7, <1>10 DEF Registered, MemComplete, WritesComplete
  <1>18. DiskCompleteAt(0)
    BY <1>1, <1>3, <1>10 DEF DiskCompleteAt
  <1> QED
    BY <1>4, <1>11, <1>12, <1>13, <1>14, <1>16, <1>17, <1>18 DEF IndexInv, Sound, DiskComplete

\* Every action keeps the invariant.
LEMMA IndexStep == IndexInv /\ [Next]_vars => IndexInv'
  <1> SUFFICES ASSUME IndexInv, [Next]_vars PROVE IndexInv'
    OBVIOUS
  <1>1. CASE UNCHANGED vars
    BY <1>1 DEF vars, IndexInv, IndexTypes, Inactive, TxIndexed, RescanExact, Sound, MemExact,
        DiskExact, Registered, DiskComplete, DiskCompleteAt, Listed, Tracked, MemComplete,
        WritesComplete, Live, Seen
  <1>2. CASE ConnectBlock
    BY <1>2, ConnectBlockInv
  <1>3. CASE CommitBlock
    BY <1>3, CommitBlockInv
  <1>4. CASE CommitBlockFails
    BY <1>4, CommitBlockFailsInv
  <1>5. CASE \E u \in Users : RegisterViewKey(u) \/ RemoveStaleUser(u)
    BY <1>5, RegisterViewKeyInv, RemoveStaleUserInv
  <1>6. CASE CommitViewKey
    BY <1>6, CommitViewKeyInv
  <1>7. CASE \E u \in Users, c \in 0..MaxTip : RescanViewkey(u, c)
    BY <1>7, RescanViewkeyInv
  <1>8. CASE ScanBlock
    BY <1>8, ScanBlockInv
  <1>9. CASE MergeRescan
    BY <1>9, MergeRescanInv
  <1>10. CASE flush
    BY <1>10, FlushInv
  <1>11. CASE Close
    BY <1>11, CloseInv
  <1>12. CASE Crash
    BY <1>12, CrashInv
  <1>13. CASE \E configured \in {{}, {"tx"}, {"tx", "ws"}}, drop \in SUBSET {"tx", "ws"} :
                Restart(configured, drop)
    BY <1>13, RestartInv
  <1> QED
    BY <1>1, <1>2, <1>3, <1>4, <1>5, <1>6, <1>7, <1>8, <1>9, <1>10, <1>11, <1>12, <1>13 DEF Next

\* The inductive invariant of the indexes: while no uncommitted block stayed in
\* it, the accumulator is exact at the height of the last block the manager
\* gave it, the flushed one at the height stored with it, and the datastore has
\* the entries and nullifiers of all registered users up to some height from
\* which a roll forward completes it.
THEOREM IndexesInvariant == Spec => []IndexInv
  BY IndexInit, IndexStep, PTL DEF Spec

\* For every chain, every set of users and any number of crashes, restarts,
\* flushes and configurations: ConnectBlock and the roll forward of
\* IndexManager.Init leave no block out and connect none twice.
THEOREM IndexesAccumulatorExact == Spec => []AccumulatorExact
  <1>1. IndexInv => AccumulatorExact
    <2> SUFFICES ASSUME IndexInv PROVE AccumulatorExact
      OBVIOUS
    <2>1. TypeOK
      <3>1. disk \in Datastores /\ mem \in IndexStates /\ tip \in 0..MaxTip
        BY DEF IndexInv, IndexTypes
      <3>2. disk.txHeight \in -1..tip
        BY <3>1, HeightsFacts DEF IndexInv, TxIndexed, Datastores
      <3>3. disk.height \in -1..MaxTip /\ disk.keys \subseteq Users /\ mem.keys \subseteq Users
        BY <3>1 DEF Datastores, IndexStates, Heights
      <3>4. ~up => mem = NoIndex /\ ~dbtx.open
        BY DEF IndexInv, Inactive, Live, NoWrites
      <3> QED
        BY <3>1, <3>2, <3>3, <3>4 DEF TypeOK, IndexInv, IndexTypes
    <2>2. ASSUME Serving, ~spoiled PROVE mem.best = tip /\ mem.acc.elems = OutputsUpTo(tip)
      BY <2>2 DEF Serving, IndexInv, Sound, MemExact, Live, Seen, ExactAt
    <2> QED
      BY <2>1, <2>2 DEF AccumulatorExact
  <1> QED
    BY <1>1, IndexesInvariant, PTL

\* RescanViewkey against blocks that connect meanwhile: what it merges are
\* proofs for the true positions.
THEOREM IndexesProofsExact == Spec => []ProofsExact
  <1>1. IndexInv => ProofsExact
    <2> SUFFICES ASSUME IndexInv, Serving, ~spoiled, NEW o \in DOMAIN mem.acc.proofs
                 PROVE  mem.acc.proofs[o] = o /\ o < Len(mem.acc.elems)
      BY DEF ProofsExact
    <2>1. ExactAt(mem.acc, tip)
      BY DEF Serving, IndexInv, Sound, MemExact, Live, Seen
    <2>2. tip \in Heights /\ tip <= tip
      BY HeightsFacts DEF IndexInv, IndexTypes
    <2>3. Len(OutputsUpTo(tip)) = NumOutputs[tip]
      BY <2>2, OutputSeqFacts
    <2> QED
      BY <2>1, <2>3 DEF ExactAt
  <1> QED
    BY <1>1, IndexesInvariant, PTL

\* A registered wallet misses no transaction, wherever the node stopped and
\* whatever the flush ticker had stored by then, and each one it is told of can
\* be looked up.
THEOREM IndexesWalletComplete == Spec => []WalletComplete
  <1>1. IndexInv => WalletComplete
    <2> SUFFICES ASSUME IndexInv PROVE WalletComplete
      OBVIOUS
    <2>1. disk \in Datastores /\ tip \in 0..MaxTip /\ tip \in Heights /\ since \in [Users -> Heights]
      BY HeightsFacts DEF IndexInv, IndexTypes
    <2>2. ASSUME Serving, ~spoiled, NEW u \in Users, since[u] >= 0
          PROVE  LET mine == {o \in OutputsOf(since[u], tip) : Owner[o] = u}
                 IN  /\ \A o \in mine : <<u, TxOf[o]>> \in disk.userTxs
                     /\ \A tx \in TxsOf(since[u], tip) :
                           Spends[tx] \cap mine # {} => <<u, tx>> \in disk.userTxs
      <3>1. Listed(u, tip)
        BY <2>2 DEF Serving, IndexInv, Sound, DiskComplete, DiskCompleteAt, Live
      <3>2. since[u] \in Heights
        BY <2>1
      <3>3. \A o : o \in OutputsOf(since[u], tip) =>
               o \in Outputs /\ since[u] < Born(o) /\ Born(o) <= tip
        BY <2>1, <3>2, OutputsOfFacts
      <3>4. \A tx \in TxsOf(since[u], tip) : tx \in Txs /\ BlockOf[tx] <= tip
        BY DEF TxsOf
      <3> QED
        BY <3>1, <3>3, <3>4 DEF Listed
    <2>3. ASSUME Serving, "tx" \in on, "tx" \notin dropped, NEW e \in disk.userTxs
          PROVE  e[2] \in disk.txs
      <3>1. disk.txs = TxsUpTo(tip) /\ BlockOf[e[2]] <= tip
        BY <2>3 DEF Serving, IndexInv, TxIndexed
      <3>2. e[2] \in Txs /\ BlockOf[e[2]] \in 0..MaxTip
        <4>1. e \in Entries
          BY <2>1, <2>3 DEF Datastores
        <4>2. e[2] \in Txs
          BY <4>1 DEF Entries
        <4> QED
          BY <4>2, ChainFacts
      <3> QED
        BY <3>1, <3>2 DEF TxsUpTo, TxsOf
    <2> QED
      BY <2>2, <2>3 DEF WalletComplete
  <1> QED
    BY <1>1, IndexesInvariant, PTL

-----------------------------------------------------------------------------
(* Connecting blocks one at a time.                                        *)

\* What ConnectBlock for the blocks above a, up to c makes is what it makes for
\* those up to b, and then for those above b.
LEMMA ConnectedSplit ==
    ASSUME NEW a \in Heights, NEW b \in Heights, NEW c \in Heights, a <= b, b <= c
    PROVE  /\ \A o \in Outputs : a < Born(o) /\ Born(o) <= c <=>
                 (a < Born(o) /\ Born(o) <= b) \/ (b < Born(o) /\ Born(o) <= c)
           /\ NullifiersSpent(a, c) = NullifiersSpent(a, b) \cup NullifiersSpent(b, c)
           /\ NullifiersSpent(a, b) \cap NullifiersSpent(b, c) = {}
           /\ TxsOf(a, c) = TxsOf(a, b) \cup TxsOf(b, c)
           /\ \A o \in Outputs : \A i : b < Born(o) => <<o, i>> \notin NullifiersSpent(a, b)
           /\ \A tx \in TxsOf(a, b) : \A o \in Spends[tx] : o \in Outputs /\ Born(o) < b
           /\ \A tx \in TxsOf(b, c) : \A o \in Spends[tx] :
                 o \in Outputs /\ NullifierOf(o) \notin NullifiersSpent(a, b)
  <1>1. /\ a \in Int /\ b \in Int /\ c \in Int
        /\ \A o \in Outputs : Born(o) \in Int
        /\ \A tx \in Txs : BlockOf[tx] \in Int
    BY ChainFacts, HeightsFacts
  <1>2. \A o \in Outputs : a < Born(o) /\ Born(o) <= c <=>
                 (a < Born(o) /\ Born(o) <= b) \/ (b < Born(o) /\ Born(o) <= c)
    BY <1>1
  <1>3. TxsOf(a, c) = TxsOf(a, b) \cup TxsOf(b, c)
    BY <1>1 DEF TxsOf
  <1>4. NullifiersSpent(a, c) = NullifiersSpent(a, b) \cup NullifiersSpent(b, c)
    BY <1>3, Zenon DEF NullifiersSpent
  <1>5. \A tx \in TxsOf(a, b) : \A o \in Spends[tx] : o \in Outputs /\ Born(o) < b
    BY <1>1, ChainFacts DEF TxsOf
  <1>6. ASSUME NEW o, NEW i, <<o, i>> \in NullifiersSpent(a, b)
        PROVE  \E tx \in TxsOf(a, b) : o \in Spends[tx]
    BY <1>6 DEF NullifiersSpent, NullifierOf
  <1>7. ASSUME NEW o \in Outputs, NEW i, b < Born(o)
        PROVE  <<o, i>> \notin NullifiersSpent(a, b)
    BY <1>1, <1>5, <1>6, <1>7
  <1>8. ASSUME NEW tx \in TxsOf(b, c), NEW o \in Spends[tx]
        PROVE  o \in Outputs /\ NullifierOf(o) \notin NullifiersSpent(a, b)
    <2>1. tx \in Txs /\ b < BlockOf[tx] /\ o \in Outputs
      BY ChainFacts DEF TxsOf
    <2>2. SUFFICES ASSUME <<o, o>> \in NullifiersSpent(a, b) PROVE FALSE
      BY <2>1 DEF NullifierOf
    <2>3. PICK t \in TxsOf(a, b) : o \in Spends[t]
      BY <1>6, <2>2
    <2>4. t \in Txs /\ BlockOf[t] <= b
      BY DEF TxsOf
    <2>5. t = tx
      BY <2>1, <2>3, <2>4, ChainFacts
    <2> QED
      BY <1>1, <2>1, <2>4, <2>5
  <1>9. NullifiersSpent(a, b) \cap NullifiersSpent(b, c) = {}
    <2>1. ASSUME NEW n \in NullifiersSpent(b, c) PROVE n \notin NullifiersSpent(a, b)
      <3>1. PICK tx \in TxsOf(b, c) : \E o \in Spends[tx] : n = NullifierOf(o)
        BY DEF NullifiersSpent
      <3> QED
        BY <1>8, <3>1
    <2> QED
      BY <2>1
  <1> QED
    BY <1>2, <1>3, <1>4, <1>5, <1>7, <1>8, <1>9

\* Concatenation of sequences is associative.
LEMMA AppendTwice ==
    ASSUME NEW s \in Seq(Int), NEW t \in Seq(Int), NEW u \in Seq(Int)
    PROVE  (s \o t) \o u = s \o (t \o u) /\ Len(s \o t) = Len(s) + Len(t)
  <1>1. Len(s \o t) = Len(s) + Len(t) /\ s \o t \in Seq(Int)
    OBVIOUS
  <1>2. Len(t \o u) = Len(t) + Len(u) /\ t \o u \in Seq(Int)
    OBVIOUS
  <1>3. /\ (s \o t) \o u \in Seq(Int)
        /\ Len((s \o t) \o u) = Len(s) + Len(t) + Len(u)
    BY <1>1
  <1>4. /\ s \o (t \o u) \in Seq(Int)
        /\ Len(s \o (t \o u)) = Len(s) + Len(t) + Len(u)
    BY <1>2
  <1>5. ASSUME NEW i \in 1..(Len(s) + Len(t) + Len(u))
        PROVE  ((s \o t) \o u)[i] = (s \o (t \o u))[i]
    BY <1>1, <1>2
  <1> QED
    BY <1>3, <1>4, <1>5

\* Accumulator.Insert appends: the outputs of two ranges of blocks one after
\* the other are those of both.
LEMMA OutputSeqSplit ==
    ASSUME NEW s \in Seq(Int), NEW a \in Heights, NEW b \in Heights, NEW c \in Heights,
           a <= b, b <= c
    PROVE  /\ (s \o OutputSeq(a, b)) \o OutputSeq(b, c) = s \o OutputSeq(a, c)
           /\ Len(s \o OutputSeq(a, b)) = Len(s) + (NumOutputs[b] - NumOutputs[a])
  <1> DEFINE k == NumOutputs[a]
             m == NumOutputs[b]
             n == NumOutputs[c]
             S == [i \in 1..(m - k) |-> k + i - 1]
             T == [i \in 1..(n - m) |-> m + i - 1]
             U == [i \in 1..(n - k) |-> k + i - 1]
  <1>1. k \in Nat /\ m \in Nat /\ n \in Nat /\ k <= m /\ m <= n
    BY ChainFacts
  <1>2. OutputSeq(a, b) = S /\ OutputSeq(b, c) = T /\ OutputSeq(a, c) = U
    BY DEF OutputSeq
  <1> HIDE DEF k, m, n
  <1>3. S \in Seq(Int) /\ T \in Seq(Int) /\ U \in Seq(Int)
        /\ Len(S) = m - k /\ Len(T) = n - m /\ Len(U) = n - k
    BY <1>1
  <1>4. S \o T = U
    BY <1>1, <1>3
  <1> HIDE DEF S, T, U
  <1>5. (s \o S) \o T = s \o (S \o T) /\ Len(s \o S) = Len(s) + Len(S)
    BY <1>3, AppendTwice
  <1> QED
    BY <1>2, <1>3, <1>4, <1>5 DEF k, m

\* ConnectBlock and the roll forward of the manager: the model connects the
\* blocks above a, up to c together.  Connecting those up to b, committing what
\* that wrote, and then connecting the others leaves the same index and the
\* same datastore.
THEOREM ConnectingInParts ==
    ASSUME NEW idx \in IndexStates, NEW d \in Datastores, NEW scripts \in SUBSET Users,
           NEW a \in Heights, NEW b \in Heights, NEW c \in Heights, a <= b, b <= c, 0 <= b
    PROVE  LET one == Connected(idx, a, b, scripts)
               two == Connected(one.idx, b, c, scripts)
               all == Connected(idx, a, c, scripts)
           IN  /\ two.idx = all.idx
               /\ Written(Written(d, one.writes), two.writes) = Written(d, all.writes)
  <1> DEFINE one == Connected(idx, a, b, scripts)
             two == Connected(one.idx, b, c, scripts)
             all == Connected(idx, a, c, scripts)
             L == Len(idx.acc.elems)
             M == Len(one.idx.acc.elems)
             F1 == Found(a, b, idx.keys)
             F2 == Found(b, c, idx.keys)
             F == Found(a, c, idx.keys)
             new1 == Made(F1, scripts, [o \in F1 |-> L + (o - NumOutputs[a])])
             new2 == Made(F2, scripts, [o \in F2 |-> M + (o - NumOutputs[b])])
             new == Made(F, scripts, [o \in F |-> L + (o - NumOutputs[a])])
             S1 == NullifiersSpent(a, b)
             S2 == NullifiersSpent(b, c)
             S == NullifiersSpent(a, c)
             known1 == idx.nullifiers \cup new1
             known2 == (known1 \ (known1 \cap S1)) \cup new2
             known == idx.nullifiers \cup new
             out1 == {n[1] : n \in known1 \cap S1}
             out2 == {n[1] : n \in known2 \cap S2}
             out == {n[1] : n \in known \cap S}
  <1>1. /\ one.idx \in IndexStates /\ one.idx.keys = idx.keys
        /\ one.writes \in WriteSets
        /\ two.idx \in IndexStates /\ two.writes \in WriteSets
        /\ all.idx \in IndexStates /\ all.writes \in WriteSets
    <2>1. one.idx \in IndexStates /\ one.idx.keys = idx.keys /\ one.writes \in WriteSets
      BY ConnectedFacts
    <2>2. a <= c /\ 0 <= c
      BY HeightsFacts
    <2>3. two.idx \in IndexStates /\ two.writes \in WriteSets
      <3> HIDE DEF one
      <3> QED
        BY <2>1, <2>2, ConnectedFacts
    <2>4. all.idx \in IndexStates /\ all.writes \in WriteSets
      BY <2>2, ConnectedFacts
    <2> QED
      BY <2>1, <2>3, <2>4
  <1>2. /\ one.idx = [acc |-> Inserted(idx.acc, a, b, F1, out1), keys |-> idx.keys,
                      nullifiers |-> known1 \ (known1 \cap S1), best |-> b]
        /\ one.writes = [open |-> TRUE, userTxs |-> UserTxs(a, b, F1, known1),
                         put |-> new1 \ (known1 \cap S1), del |-> known1 \cap S1]
    BY DEF Connected
  <1>3. /\ one.idx.acc = Inserted(idx.acc, a, b, F1, out1)
        /\ one.idx.nullifiers = known1 \ (known1 \cap S1)
    BY <1>2
  <1>4. /\ two.idx = [acc |-> Inserted(one.idx.acc, b, c, F2, out2), keys |-> idx.keys,
                      nullifiers |-> known2 \ (known2 \cap S2), best |-> c]
        /\ two.writes = [open |-> TRUE, userTxs |-> UserTxs(b, c, F2, known2),
                         put |-> new2 \ (known2 \cap S2), del |-> known2 \cap S2]
    <2> HIDE DEF one, known1
    <2> QED
      BY <1>1, <1>3 DEF Connected
  <1>5. /\ all.idx = [acc |-> Inserted(idx.acc, a, c, F, out), keys |-> idx.keys,
                      nullifiers |-> known \ (known \cap S), best |-> c]
        /\ all.writes = [open |-> TRUE, userTxs |-> UserTxs(a, c, F, known),
                         put |-> new \ (known \cap S), del |-> known \cap S]
    BY DEF Connected
  <1> HIDE DEF one, two, all
  <1>6. /\ idx.acc \in Accs /\ idx.acc.elems \in Seq(Int) /\ idx.keys \in SUBSET Users
        /\ idx.nullifiers \in SUBSET AnyNullifiers /\ L \in Nat
        /\ NumOutputs[a] \in Nat /\ NumOutputs[b] \in Nat /\ NumOutputs[c] \in Nat
        /\ \A o \in Outputs : o \in Nat
    <2>1. idx.acc \in Accs /\ idx.keys \in SUBSET Users
          /\ idx.nullifiers \in SUBSET AnyNullifiers
      BY DEF IndexStates
    <2>2. idx.acc.elems \in Seq(Int) /\ L \in Nat
      BY <2>1 DEF Accs
    <2> QED
      BY <2>1, <2>2, ChainFacts
  <1>7. /\ one.idx.acc.elems = idx.acc.elems \o OutputSeq(a, b)
        /\ M = L + (NumOutputs[b] - NumOutputs[a])
        /\ one.idx.acc.elems \o OutputSeq(b, c) = idx.acc.elems \o OutputSeq(a, c)
    <2>1. one.idx.acc.elems = idx.acc.elems \o OutputSeq(a, b)
      BY <1>3 DEF Inserted
    <2>2. /\ (idx.acc.elems \o OutputSeq(a, b)) \o OutputSeq(b, c) = idx.acc.elems \o OutputSeq(a, c)
          /\ Len(idx.acc.elems \o OutputSeq(a, b)) = L + (NumOutputs[b] - NumOutputs[a])
      BY <1>6, OutputSeqSplit
    <2> QED
      BY <2>1, <2>2
  <1>8. /\ F1 \subseteq Outputs /\ F2 \subseteq Outputs
        /\ F = F1 \cup F2
        /\ \A o \in F2 : b < Born(o) /\ o \notin F1
        /\ \A o \in F1 : o \notin F2
    <2>1. /\ \A o : o \in F1 <=> o \in Outputs /\ a < Born(o) /\ Born(o) <= b /\ Owner[o] \in idx.keys
          /\ \A o : o \in F2 <=> o \in Outputs /\ b < Born(o) /\ Born(o) <= c /\ Owner[o] \in idx.keys
          /\ \A o : o \in F <=> o \in Outputs /\ a < Born(o) /\ Born(o) <= c /\ Owner[o] \in idx.keys
      BY <1>6, FoundFacts
    <2>2. b \in Int /\ \A o \in Outputs : Born(o) \in Int
      BY ChainFacts, HeightsFacts
    <2>3. \A o \in Outputs : a < Born(o) /\ Born(o) <= c <=>
             (a < Born(o) /\ Born(o) <= b) \/ (b < Born(o) /\ Born(o) <= c)
      BY ConnectedSplit
    <2> HIDE DEF F1, F2, F
    <2>4. \A o : o \in F <=> o \in F1 \/ o \in F2
      BY <2>1, <2>3, Zenon
    <2>5. \A o \in F2 : b < Born(o) /\ o \notin F1
      BY <2>1, <2>2
    <2> QED
      BY <2>1, <2>4, <2>5
  <1> HIDE DEF F1, F2, F, L, M
  <1>9. new = new1 \cup new2
    <2>1. \A o \in F2 : M + (o - NumOutputs[b]) = L + (o - NumOutputs[a])
      BY <1>6, <1>7, <1>8
    <2>2. \A n : n \in new1 <=> \E o \in F1 : Owner[o] \in scripts /\ n = <<o, L + (o - NumOutputs[a])>>
      BY Zenon DEF Made
    <2>3. \A n : n \in new2 <=> \E o \in F2 : Owner[o] \in scripts /\ n = <<o, M + (o - NumOutputs[b])>>
      BY Zenon DEF Made
    <2>4. \A n : n \in new <=> \E o \in F : Owner[o] \in scripts /\ n = <<o, L + (o - NumOutputs[a])>>
      BY Zenon DEF Made
    <2>5. \A n : n \in new2 <=> \E o \in F2 : Owner[o] \in scripts /\ n = <<o, L + (o - NumOutputs[a])>>
      BY <2>1, <2>3
    <2> HIDE DEF new, new1, new2
    <2>6. \A n : n \in new <=> n \in new1 \/ n \in new2
      BY <1>8, <2>2, <2>4, <2>5
    <2> QED
      BY <2>6
  <1>10. /\ S = S1 \cup S2 /\ S1 \cap S2 = {}
         /\ \A n \in new2 : n[1] \in F2 /\ n \notin S1
    <2>1. ASSUME NEW n \in new2 PROVE n[1] \in F2 /\ n \notin S1
      <3>1. PICK o \in F2 : n = <<o, M + (o - NumOutputs[b])>>
        BY <2>1 DEF Made
      <3>2. o \in Outputs /\ b < Born(o)
        BY <1>8
      <3> QED
        BY <3>1, <3>2, ConnectedSplit
    <2> QED
      BY <2>1, ConnectedSplit
  <1> HIDE DEF new1, new2, new, S1, S2, S
  <1>11. /\ known = known1 \cup new2
         /\ known \ (known \cap S) = known2 \ (known2 \cap S2)
         /\ known \cap S = (known1 \cap S1) \cup (known2 \cap S2)
    BY <1>9, <1>10
  <1>12. \A o \in F2 : o \notin out1
    <2>1. ASSUME NEW o \in F2, NEW n \in known1 \cap S1, o = n[1] PROVE FALSE
      <3>1. PICK p \in Outputs, tx \in Txs : n = NullifierOf(p)
        BY <2>1, NullifiersSpentFacts DEF S1
      <3>2. n = <<o, o>> /\ o \in Outputs /\ b < Born(o)
        BY <1>8, <2>1, <3>1 DEF NullifierOf
      <3> QED
        BY <2>1, <3>2, ConnectedSplit DEF S1
    <2> QED
      BY <2>1
  <1>13. out = out1 \cup out2
    BY <1>11
  <1> HIDE DEF known, known1, known2, out, out1, out2
  <1>14. Inserted(one.idx.acc, b, c, F2, out2) = Inserted(idx.acc, a, c, F, out)
    <2> DEFINE P == idx.acc.proofs
               P1 == [o \in (DOMAIN P \cup F1) \ out1 |->
                        IF o \in F1 THEN L + (o - NumOutputs[a]) ELSE P[o]]
    <2>1. one.idx.acc.proofs = P1
      BY <1>3 DEF Inserted, L
    <2>2. ((DOMAIN P1 \cup F2) \ out2) = (DOMAIN P \cup F) \ out
      BY <1>8, <1>12, <1>13
    <2>3. ASSUME NEW o \in (DOMAIN P \cup F) \ out
          PROVE  (IF o \in F2 THEN M + (o - NumOutputs[b]) ELSE P1[o])
                  = (IF o \in F THEN L + (o - NumOutputs[a]) ELSE P[o])
      <3>1. CASE o \in F2
        BY <1>6, <1>7, <1>8, <3>1
      <3>2. CASE o \notin F2
        <4>1. o \in (DOMAIN P \cup F1) \ out1
          BY <1>8, <1>13, <3>2
        <4>2. P1[o] = IF o \in F1 THEN L + (o - NumOutputs[a]) ELSE P[o]
          BY <4>1
        <4> HIDE DEF P1
        <4> QED
          BY <1>8, <3>2, <4>2
      <3> QED
        BY <3>1, <3>2
    <2> HIDE DEF P1, P
    <2>4. [o \in (DOMAIN P1 \cup F2) \ out2 |->
              IF o \in F2 THEN M + (o - NumOutputs[b]) ELSE P1[o]]
          = [o \in (DOMAIN P \cup F) \ out |->
              IF o \in F THEN L + (o - NumOutputs[a]) ELSE P[o]]
      BY <2>2, <2>3, Zenon
    <2> QED
      BY <1>7, <2>1, <2>4 DEF Inserted, L, M, P
  <1>15. UserTxs(a, c, F, known) = UserTxs(a, b, F1, known1) \cup UserTxs(b, c, F2, known2)
    <2> DEFINE Spending(tx, k) == {<<Owner[o], tx>> : o \in {p \in Spends[tx] : NullifierOf(p) \in k}}
    <2>1. ASSUME NEW tx \in TxsOf(a, b), NEW o \in Spends[tx]
          PROVE  NullifierOf(o) \in known <=> NullifierOf(o) \in known1
      <3>1. o \in Outputs /\ Born(o) < b /\ Born(o) \in Int /\ b \in Int
        BY ConnectedSplit, ChainFacts, HeightsFacts
      <3>2. NullifierOf(o) \notin new2
        BY <1>8, <1>10, <3>1 DEF NullifierOf
      <3> QED
        BY <1>11, <3>2
    <2>2. ASSUME NEW tx \in TxsOf(b, c), NEW o \in Spends[tx]
          PROVE  NullifierOf(o) \in known <=> NullifierOf(o) \in known2
      <3>1. NullifierOf(o) \notin S1
        BY ConnectedSplit DEF S1
      <3> QED
        BY <1>11, <3>1 DEF known2
    <2>3. TxsOf(a, c) = TxsOf(a, b) \cup TxsOf(b, c)
      BY ConnectedSplit
    <2>4. \A tx \in TxsOf(a, b) : Spending(tx, known) = Spending(tx, known1)
      BY <2>1, Zenon
    <2>5. \A tx \in TxsOf(b, c) : Spending(tx, known) = Spending(tx, known2)
      BY <2>2, Zenon
    <2>6. /\ UserTxs(a, c, F, known)
              = {<<Owner[o], TxOf[o]>> : o \in F} \cup UNION {Spending(tx, known) : tx \in TxsOf(a, c)}
          /\ UserTxs(a, b, F1, known1)
              = {<<Owner[o], TxOf[o]>> : o \in F1} \cup UNION {Spending(tx, known1) : tx \in TxsOf(a, b)}
          /\ UserTxs(b, c, F2, known2)
              = {<<Owner[o], TxOf[o]>> : o \in F2} \cup UNION {Spending(tx, known2) : tx \in TxsOf(b, c)}
      BY Zenon DEF UserTxs
    <2> HIDE DEF Spending
    <2>7. {<<Owner[o], TxOf[o]>> : o \in F}
            = {<<Owner[o], TxOf[o]>> : o \in F1} \cup {<<Owner[o], TxOf[o]>> : o \in F2}
      BY <1>8, Zenon
    <2>8. UNION {Spending(tx, known) : tx \in TxsOf(a, c)}
            = (UNION {Spending(tx, known1) : tx \in TxsOf(a, b)})
              \cup (UNION {Spending(tx, known2) : tx \in TxsOf(b, c)})
      BY <2>3, <2>4, <2>5, Zenon
    <2> QED
      BY <2>6, <2>7, <2>8, Zenon
  <1>16. two.idx = all.idx
    BY <1>4, <1>5, <1>11, <1>14
  <1>17. Written(Written(d, one.writes), two.writes) = Written(d, all.writes)
    <2> DEFINE d1 == Written(d, one.writes)
               d2 == Written(d1, two.writes)
               d3 == Written(d, all.writes)
    <2>1. /\ one.writes.userTxs \in SUBSET Entries /\ one.writes.put \in SUBSET AnyNullifiers
          /\ one.writes.del \in SUBSET AnyNullifiers
          /\ two.writes.userTxs \in SUBSET Entries /\ two.writes.put \in SUBSET AnyNullifiers
          /\ two.writes.del \in SUBSET AnyNullifiers
          /\ all.writes.userTxs \in SUBSET Entries /\ all.writes.put \in SUBSET AnyNullifiers
          /\ all.writes.del \in SUBSET AnyNullifiers
      BY <1>1 DEF WriteSets
    <2>2. /\ d1 \in Datastores /\ d1.txs = d.txs /\ d1.txHeight = d.txHeight /\ d1.keys = d.keys
          /\ d1.height = d.height /\ d1.acc = d.acc
          /\ d1.userTxs = d.userTxs \cup one.writes.userTxs
          /\ d1.nullifiers = (d.nullifiers \ one.writes.del) \cup one.writes.put
      BY <2>1, WrittenFacts
    <2>3. /\ d3 \in Datastores /\ d3.txs = d.txs /\ d3.txHeight = d.txHeight /\ d3.keys = d.keys
          /\ d3.height = d.height /\ d3.acc = d.acc
          /\ d3.userTxs = d.userTxs \cup all.writes.userTxs
          /\ d3.nullifiers = (d.nullifiers \ all.writes.del) \cup all.writes.put
      BY <2>1, WrittenFacts
    <2> HIDE DEF d1
    <2>4. /\ d2 \in Datastores /\ d2.txs = d1.txs /\ d2.txHeight = d1.txHeight /\ d2.keys = d1.keys
          /\ d2.height = d1.height /\ d2.acc = d1.acc
          /\ d2.userTxs = d1.userTxs \cup two.writes.userTxs
          /\ d2.nullifiers = (d1.nullifiers \ two.writes.del) \cup two.writes.put
      BY <2>1, <2>2, WrittenFacts
    <2> HIDE DEF d2, d3
    <2>5. d2.userTxs = d3.userTxs
      BY <1>2, <1>4, <1>5, <1>15, <2>2, <2>3, <2>4
    <2>6. d2.nullifiers = d3.nullifiers
      <3>1. /\ one.writes.put = new1 \ (known1 \cap S1) /\ one.writes.del = known1 \cap S1
            /\ two.writes.put = new2 \ (known2 \cap S2) /\ two.writes.del = known2 \cap S2
            /\ all.writes.put = new \ (known \cap S) /\ all.writes.del = known \cap S
        BY <1>2, <1>4, <1>5
      <3>2. new1 \subseteq known1 /\ new2 \subseteq known2 /\ known1 \ S1 \subseteq known2
        BY DEF known1, known2
      <3> QED
        BY <1>9, <1>10, <1>11, <2>2, <2>3, <2>4, <3>1, <3>2
    <2>7. d2 = d3
      <3>1. \A e \in Datastores :
               e = [txs |-> e.txs, txHeight |-> e.txHeight, keys |-> e.keys, userTxs |-> e.userTxs,
                    nullifiers |-> e.nullifiers, height |-> e.height, acc |-> e.acc]
        BY DEF Datastores
      <3>2. /\ d2.txs = d3.txs /\ d2.txHeight = d3.txHeight /\ d2.keys = d3.keys
            /\ d2.height = d3.height /\ d2.acc = d3.acc
        BY <2>2, <2>3, <2>4
      <3> QED
        BY <2>3, <2>4, <2>5, <2>6, <3>1, <3>2, Zenon
    <2> QED
      BY <2>7 DEF d1, d2, d3
  <1> QED
    BY <1>16, <1>17 DEF one, two, all
=============================================================================
