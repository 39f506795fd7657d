----------------------------- MODULE ChainCaches -----------------------------
(***************************************************************************)
(* The caches in front of the nullifier set and the txo root set           *)
(* (nullifierset.go, txorootset.go), and the temporary chain on which      *)
(* CalcChainScore connects the blocks of a window (chainscore.go).         *)
(*                                                                         *)
(* "main" is the node's chain and "temp" the temporary one.  Temp reads    *)
(* the datastore of main and writes to one of its own, which its sets      *)
(* never read: what its blocks change must stay in its caches.             *)
(*                                                                         *)
(* stateLock: ConnectBlock holds it, lookups and CalcChainScore share it.  *)
(***************************************************************************)
EXTENDS Integers, Sequences, SequencesExt, FiniteSets, Maps

CONSTANTS
    Nullifiers,
    Blocks,             \* blocks that may be offered, on either chain
    MaxNullifiers,      \* maxNullifiers of the configuration
    DefaultMaxNullifiers, \* the same of every clone
    MaxTxoRoots,        \* maxTxoRoots of the configuration
    MaxWindow,          \* bound: blocks in a window
    MaxHeight           \* bound: blocks connected to the main chain

ASSUME CachesAssumption ==
    {MaxNullifiers, DefaultMaxNullifiers, MaxTxoRoots, MaxWindow, MaxHeight} \subseteq Nat

Chains == {"main", "temp"}
None == [step |-> "idle"]

\* A root is the height of the block that made it, negative on temp.
Roots == (-(MaxHeight + MaxWindow))..MaxHeight

\* What matters of a block: the nullifiers its transactions spend, in order,
\* the root they refer to, whether there are outputs, and the nullifiers that
\* it bans (vstx.NullifiersToBan).
ASSUME BlocksAssumption ==
    Blocks \subseteq [spends  : {s \in Seq(Nullifiers) : IsInjective(s)},
                      txoRoot : Roots, outputs : BOOLEAN, bans : SUBSET Nullifiers]

VARIABLES
    stored,         \* nullifiers and roots in the datastore
    cachedEntries,  \* by chain: NullifierSet.cachedEntries, a map to Booleans
    rootCache,      \* by chain: TxoRootSet.cache, the oldest root first
    height,         \* by chain: the tip
    connecting,     \* by chain: None, or the block in ConnectBlock
    window,         \* -1, or the blocks CalcChainScore has yet to connect
    ledger          \* history, by chain: the nullifiers and roots of its blocks,
                    \* those its blocks ban, and those its cache has dropped

cachesVars == <<stored, cachedEntries, rootCache, height, connecting, window, ledger>>

NoBlocks == [nullifiers |-> {}, roots |-> {0}, banned |-> {}, evicted |-> {}]

CachesInit ==
    /\ stored = [nullifiers |-> {}, roots |-> {0}]
    /\ cachedEntries = [c \in Chains |-> EmptyMap]
    /\ rootCache = [c \in Chains |-> <<>>]
    /\ height = [c \in Chains |-> 0]
    /\ connecting = [c \in Chains |-> None]
    /\ window = -1
    /\ ledger = [c \in Chains |-> NoBlocks]

Step(c, s) == connecting[c].step = s
Idle(c) == Step(c, "idle")

MaxEntries(c) == IF c = "main" THEN MaxNullifiers ELSE DefaultMaxNullifiers

----------------------------------------------------------------------------
(* The sets.                                                               *)

\* The answer of NullifierExists, and the caches it may leave behind: an
\* entry is evicted, whichever the map's iteration gives first.
NullifierAnswer(c, n) ==
    IF n \in DOMAIN cachedEntries[c] THEN cachedEntries[c][n] ELSE n \in stored.nullifiers

limitCache(c) ==
    LET m == cachedEntries[c] IN
    IF Cardinality(DOMAIN m) + 1 > MaxEntries(c) /\ m # EmptyMap
      THEN {Without(m, {e}) : e \in DOMAIN m} ELSE {m}

NullifierExists(c, n) ==
    IF n \in DOMAIN cachedEntries[c] \/ MaxEntries(c) = 0 THEN {cachedEntries[c]}
    ELSE {With(m, n, n \in stored.nullifiers) : m \in limitCache(c)}

\* With the cache m instead, c no longer knows that these are spent: they are
\* in no datastore.
Forgotten(c, m) ==
    {n \in DOMAIN cachedEntries[c] \ DOMAIN m : cachedEntries[c][n] /\ n \notin stored.nullifiers}

RootExists(c, r) == r \in ToSet(rootCache[c]) \/ r \in stored.roots

\* txoRootSet.maxEntries; CalcChainScore makes room for len(blks) more, the
\* blocks it has connected and those it has yet to.
MaxRoots(c) ==
    IF c = "main" THEN MaxTxoRoots
    ELSE MaxTxoRoots + (height["temp"] - height["main"]) + window

UpdateCache(c, r) ==
    IF MaxRoots(c) = 0 THEN rootCache[c]
    ELSE LET s == rootCache[c] IN
         Append(IF Len(s) + 1 > MaxRoots(c) THEN Tail(s) ELSE s, r)

----------------------------------------------------------------------------
(* Lookups of the mempool and others, and CalcChainScore.                  *)

\* Mutation of ReadLocked: no stateLock.
ReadLocked_Never == TRUE

\* stateLock.RLock.
ReadLocked == Idle("main")

\* Blockchain.NullifierExists.
LookUp ==
    /\ ReadLocked
    /\ \E n \in Nullifiers : \E m \in NullifierExists("main", n) :
          cachedEntries' = [cachedEntries EXCEPT !["main"] = m]
    /\ UNCHANGED <<stored, rootCache, height, connecting, window, ledger>>

\* CalcChainScore clones the sets; the clone of the nullifiers starts empty.
CalcChainScore ==
    /\ ReadLocked
    /\ window = -1
    /\ window' \in 1..MaxWindow
    /\ cachedEntries' = [cachedEntries EXCEPT !["temp"] = EmptyMap]
    /\ rootCache' = [rootCache EXCEPT !["temp"] = rootCache["main"]]
    /\ height' = [height EXCEPT !["temp"] = height["main"]]
    /\ ledger' = [ledger EXCEPT !["temp"] = [nullifiers |-> ledger["main"].nullifiers,
                                                    roots |-> ledger["main"].roots,
                                                    banned |-> {}, evicted |-> {}]]
    /\ UNCHANGED <<stored, connecting>>

\* The temporary chain is closed and forgotten.
Scored ==
    /\ window = 0
    /\ Idle("temp")
    /\ window' = -1
    /\ cachedEntries' = [cachedEntries EXCEPT !["temp"] = EmptyMap]
    /\ rootCache' = [rootCache EXCEPT !["temp"] = <<>>]
    /\ height' = [height EXCEPT !["temp"] = 0]
    /\ ledger' = [ledger EXCEPT !["temp"] = NoBlocks]
    /\ UNCHANGED <<stored, connecting>>

----------------------------------------------------------------------------
(* ConnectBlock on either chain.                                           *)

\* stateLock.Lock: the main chain waits for CalcChainScore, which connects
\* its blocks to temp one by one.
StartConnect(c, b) ==
    /\ Idle("main") /\ Idle("temp")
    /\ IF c = "main" THEN window = -1 /\ height[c] < MaxHeight ELSE window > 0
    /\ connecting' = [connecting EXCEPT ![c] = [block |-> b, todo |-> b.spends, step |-> "validate"]]
    /\ UNCHANGED <<stored, cachedEntries, rootCache, height, window, ledger>>

\* A block that fails ends the computation of a score as well.
Refuse(c) ==
    /\ connecting' = [connecting EXCEPT ![c] = None]
    /\ window' = IF c = "temp" THEN 0 ELSE window

\* validateBlock, a nullifier at a time and then the root.
ValidateNullifier(c) ==
    /\ Step(c, "validate")
    /\ connecting[c].todo # <<>>
    /\ LET n == Head(connecting[c].todo) IN
       /\ \E m \in NullifierExists(c, n) :
             /\ cachedEntries' = [cachedEntries EXCEPT ![c] = m]
             /\ ledger' = [ledger EXCEPT ![c].evicted = @ \cup Forgotten(c, m)]
       /\ IF NullifierAnswer(c, n) THEN Refuse(c)
          ELSE /\ connecting' = [connecting EXCEPT ![c].todo = Tail(@)]
               /\ UNCHANGED window
    /\ UNCHANGED <<stored, rootCache, height>>

ValidateRoot(c) ==
    /\ Step(c, "validate")
    /\ connecting[c].todo = <<>>
    /\ IF RootExists(c, connecting[c].block.txoRoot)
         THEN connecting' = [connecting EXCEPT ![c].step = "add"] /\ UNCHANGED window
         ELSE Refuse(c)
    /\ UNCHANGED <<stored, cachedEntries, rootCache, height, ledger>>

Entered(c) == LET b == connecting[c].block IN ToSet(b.spends) \cup b.bans

\* AddNullifiers: the entries leave the cache, the transaction is not
\* committed yet.
AddNullifiers(c) ==
    /\ Step(c, "add")
    /\ cachedEntries' = [cachedEntries EXCEPT ![c] = Without(@, Entered(c))]
    /\ connecting' = [connecting EXCEPT ![c].step = "commit"]
    /\ UNCHANGED <<stored, rootCache, height, window, ledger>>

\* What the temporary chain enters into its cache, which is all it knows of
\* the blocks of the window (chainscore.go:108).
Remembered(c) ==
    IF c = "main" THEN cachedEntries[c]
    ELSE LET S == ToSet(connecting[c].block.spends)
             m == cachedEntries[c]
         IN  [n \in DOMAIN m \cup S |-> IF n \in S THEN TRUE ELSE m[n]]

\* dbtx.Commit and what follows it.
Commit(c) ==
    /\ Step(c, "commit")
    /\ LET b   == connecting[c].block
           h   == height[c] + 1
           new == IF b.outputs THEN {IF c = "main" THEN h ELSE -h} ELSE {}
       IN
       /\ stored' = IF c = "temp" THEN stored
                    ELSE [nullifiers |-> stored.nullifiers \cup Entered(c), roots |-> stored.roots \cup new]
       /\ rootCache' = [rootCache EXCEPT ![c] = IF new = {} THEN @ ELSE UpdateCache(c, CHOOSE r \in new : TRUE)]
       /\ height' = [height EXCEPT ![c] = h]
       /\ cachedEntries' = [cachedEntries EXCEPT ![c] = Remembered(c)]
       /\ ledger' = [ledger EXCEPT ![c] = [nullifiers |-> @.nullifiers \cup Entered(c),
                                           roots |-> @.roots \cup new,
                                           banned |-> @.banned \cup b.bans,
                                           evicted |-> @.evicted]]
       /\ window' = IF c = "temp" THEN window - 1 ELSE window
    /\ connecting' = [connecting EXCEPT ![c] = None]

\* The datastore fails, and the transaction is discarded.
CommitFails ==
    /\ Step("main", "commit")
    /\ connecting' = [connecting EXCEPT !["main"] = None]
    /\ UNCHANGED <<stored, cachedEntries, rootCache, height, window, ledger>>

\* The process starts again with empty caches.
RestartCaches ==
    /\ cachedEntries' = [c \in Chains |-> EmptyMap]
    /\ rootCache' = [c \in Chains |-> <<>>]
    /\ connecting' = [c \in Chains |-> None]
    /\ window' = -1
    /\ height' = [height EXCEPT !["temp"] = 0]
    /\ ledger' = [ledger EXCEPT !["temp"] = NoBlocks]
    /\ UNCHANGED stored

CachesNext ==
    \/ LookUp \/ CalcChainScore \/ Scored \/ CommitFails \/ RestartCaches
    \/ \E c \in Chains :
          \/ \E b \in Blocks : StartConnect(c, b)
          \/ ValidateNullifier(c) \/ ValidateRoot(c) \/ AddNullifiers(c) \/ Commit(c)

CachesSpec == CachesInit /\ [][CachesNext]_cachesVars

----------------------------------------------------------------------------
\* What the temporary chain does not know of its own blocks: the nullifiers
\* they ban, which CalcChainScore does not enter (chainscore.go:108), and those
\* that made room for others in a cache of DefaultMaxNullifiers entries.
Unknown(c) == IF c = "main" THEN {} ELSE ledger[c].banned \cup ledger[c].evicted

\* Between blocks, both sets answer what the blocks of their chain say,
\* whatever lookups, evictions, failed commits, scores and restarts came
\* before: no nullifier is spent twice on the chain or within a window, and no
\* transaction is refused for a root the chain has.  On the node's chain
\* (nullifierset.go:41) this holds for a cache of any size; a window may be scored
\* that spends one of Unknown again, although it cannot be connected.
AnswersTrue ==
    \A c \in Chains : Idle(c) /\ (c = "temp" => window >= 0) =>
        /\ \A n \in Nullifiers \ Unknown(c) :
              NullifierAnswer(c, n) = (n \in ledger[c].nullifiers)
        /\ \A r \in Roots : RootExists(c, r) = (r \in ledger[c].roots)
=============================================================================
