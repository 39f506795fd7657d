------------------------------- MODULE Indexes -------------------------------
(***************************************************************************)
(* The indexes (blockchain/indexers): the manager, the transaction index   *)
(* and the wallet server index, as the blockchain starts them, connects    *)
(* blocks to them and closes them, with rescans for wallets, the flush of  *)
(* the accumulator, failing commits, crashes and restarts with other       *)
(* indexes enabled or dropped.                                             *)
(*                                                                         *)
(* The chain is fixed and numbered: an output is named by its position     *)
(* among all outputs, so the outputs of the blocks up to h are 0, 1, ...   *)
(* NumOutputs[h] - 1.  A nullifier is the pair of an output and the        *)
(* accumulator index it was computed from.  An accumulator is the sequence *)
(* of its elements and a map from protected outputs to their indexes; that *)
(* such a proof is right for the elements is the business of module        *)
(* Accumulator.  Whom an output belongs to is what the scanner finds out;  *)
(* its note deserializes and is locked to the script the user registered   *)
(* (see ScanBlock).                                                        *)
(***************************************************************************)
EXTENDS Integers, Sequences, Maps

CONSTANTS
    Users,
    Nobody,
    MaxTip,         \* bound: height of the chain; block 0 is genesis
    Txs,            \* the transactions of the chain
    BlockOf,        \* transaction -> height of its block
    NumOutputs,     \* height -> number of outputs up to that block; -1 -> 0
    TxOf,           \* output -> its transaction
    Spends,         \* transaction -> the outputs it spends
    Owner,          \* output -> the user that can decrypt it, or Nobody
    MaxRestarts,    \* bounds: restarts
    MaxRescans      \* and rescans

Heights == -1..MaxTip
Outputs == 0..(NumOutputs[MaxTip] - 1)

ASSUME IndexesAssumption ==
    /\ Nobody \notin Users
    /\ {MaxTip, MaxRestarts, MaxRescans} \subseteq Nat

\* The outputs are numbered block by block.  A transaction proves its inputs
\* against a root from before its block (txoRootSet.RootExists), and no output
\* is spent twice (nullifierSet).
ASSUME ChainAssumption ==
    /\ BlockOf \in [Txs -> 0..MaxTip]
    /\ NumOutputs \in [Heights -> Nat]
    /\ NumOutputs[-1] = 0
    /\ \A a, b \in Heights : a <= b => NumOutputs[a] <= NumOutputs[b]
    /\ TxOf \in [Outputs -> Txs]
    /\ \A o \in Outputs, h \in Heights : o < NumOutputs[h] <=> BlockOf[TxOf[o]] <= h
    /\ Owner \in [Outputs -> Users \cup {Nobody}]
    /\ Spends \in [Txs -> SUBSET Outputs]
    /\ \A tx \in Txs : \A o \in Spends[tx] : BlockOf[TxOf[o]] < BlockOf[tx]
    /\ \A t1, t2 \in Txs : Spends[t1] \cap Spends[t2] # {} => t1 = t2

VARIABLES
    disk,       \* what the datastore holds of the indexes
    tip,        \* height of the chain on disk
    up,         \* the node runs
    on,         \* the enabled indexes
    mem,        \* the fields of the WalletServerIndex
    dbtx,       \* the writes of a block that is being connected
    register,   \* RegisterViewKey: the user whose entry is not committed yet
    rescan,     \* RescanViewkey
    restarts,
    rescans,
    since,      \* history: user -> best height when its entry was committed,
                \* -1 when it is not registered or was removed as stale; a key
                \* removed while it is registered again stays removed
    spoiled,    \* history: an uncommitted block remained in the accumulator
    dropped     \* history: the indexes that were dropped

vars == <<disk, tip, up, on, mem, dbtx, register, rescan, restarts, rescans,
          since, spoiled, dropped>>
histories == <<rescans, since, spoiled, dropped>>

NoAcc == [elems |-> <<-1>>, proofs |-> EmptyMap]    \* a nil pointer
NewAccumulator == [elems |-> <<>>, proofs |-> EmptyMap]
NoWrites == [open |-> FALSE, userTxs |-> {}, put |-> {}, del |-> {}]
NoRescan == [pc |-> "none", user |-> Nobody, height |-> 0, best |-> 0,
             acc |-> NewAccumulator, nullifiers |-> {}]
NoIndex == [acc |-> NewAccumulator, keys |-> {}, nullifiers |-> {}, best |-> 0]

\* What the chain itself says of the blocks above a, up to b.
OutputsOf(a, b) == NumOutputs[a]..(NumOutputs[b] - 1)
TxsOf(a, b) == {tx \in Txs : a < BlockOf[tx] /\ BlockOf[tx] <= b}
OutputSeq(a, b) == [i \in 1..(NumOutputs[b] - NumOutputs[a]) |-> NumOutputs[a] + i - 1]

OutputsUpTo(h) == OutputSeq(-1, h)
TxsUpTo(h) == TxsOf(-1, h)
NullifierOf(o) == <<o, o>>
NullifiersSpent(a, b) == {NullifierOf(o) : o \in UNION {Spends[tx] : tx \in TxsOf(a, b)}}

-----------------------------------------------------------------------------
\* Accumulator.Insert for the outputs of the blocks above a, up to b, which
\* protects those in found, and DropProof for those in spent.
Inserted(acc, a, b, found, spent) ==
    [elems  |-> acc.elems \o OutputSeq(a, b),
     proofs |-> [o \in (DOMAIN acc.proofs \cup found) \ spent |->
                    IF o \in found THEN Len(acc.elems) + (o - NumOutputs[a])
                                   ELSE acc.proofs[o]]]

\* A proof that comes from an accumulator of other elements is for another
\* root.
WrongRoot == -1

MergeProofs(acc, other) ==
    [acc EXCEPT !.proofs =
        [o \in DOMAIN acc.proofs \cup DOMAIN other.proofs |->
            CASE o \in DOMAIN acc.proofs -> acc.proofs[o]
              [] o \notin DOMAIN acc.proofs /\ acc.elems = other.elems ->
                    other.proofs[o]
              [] OTHER -> WrongRoot]]

\* What an index finds in the blocks above a, up to b: the outputs of the users
\* in keys; the nullifiers of those whose locking script is in scripts, each
\* from the number of elements that index gives for its output; and which of
\* the nullifiers it then knows are spent.  Outputs are spent in later blocks
\* only, and once, so the order within the blocks does not matter.
Found(a, b, keys) == {o \in OutputsOf(a, b) : Owner[o] \in keys}
Made(outs, scripts, index) == {<<o, index[o]>> : o \in {p \in outs : Owner[p] \in scripts}}

\* The entries under which a user finds its transactions: those that pay it,
\* and those that spend one of the known nullifiers.
UserTxs(a, b, found, known) ==
    {<<Owner[o], TxOf[o]>> : o \in found} \cup
    UNION {{<<Owner[o], tx>> : o \in {p \in Spends[tx] : NullifierOf(p) \in known}}
              : tx \in TxsOf(a, b)}

\* WalletServerIndex.ConnectBlock for the blocks above a, up to b: the index
\* and the writes of the transaction.  scripts: the users whose locking script
\* the transaction finds.
Connected(idx, a, b, scripts) ==
    LET found == Found(a, b, idx.keys)
        new   == Made(found, scripts, [o \in found |-> Len(idx.acc.elems) + (o - NumOutputs[a])])
        known == idx.nullifiers \cup new
        spent == known \cap NullifiersSpent(a, b)
    IN  [idx    |-> [acc |-> Inserted(idx.acc, a, b, found, {n[1] : n \in spent}),
                     keys |-> idx.keys,
                     nullifiers |-> known \ spent,
                     best |-> b],
         writes |-> [open |-> TRUE, userTxs |-> UserTxs(a, b, found, known),
                     put |-> new \ spent, del |-> spent]]

\* The datastore after the writes of the wallet server index committed.
Written(d, writes) ==
    [d EXCEPT !.userTxs = @ \cup writes.userTxs,
              !.nullifiers = (@ \ writes.del) \cup writes.put]

\* The transaction index follows the chain to height h from where it was.
IndexTxs(d, h) ==
    [d EXCEPT !.txs = @ \cup TxsOf(d.txHeight, h),
              !.txHeight = h]

-----------------------------------------------------------------------------
EmptyDisk == [txs |-> {}, txHeight |-> -1, keys |-> {}, userTxs |-> {},
              nullifiers |-> {}, height |-> -1, acc |-> NoAcc]

\* A new node has connected the genesis block.
Init ==
    /\ tip = 0
    /\ up = TRUE
    /\ on \in {{}, {"tx"}, {"tx", "ws"}}
    /\ disk = IF "tx" \in on THEN IndexTxs(EmptyDisk, 0) ELSE EmptyDisk
    /\ mem = IF "ws" \in on THEN Connected(NoIndex, -1, 0, {}).idx ELSE NoIndex
    /\ dbtx = NoWrites
    /\ register = Nobody
    /\ rescan = NoRescan
    /\ restarts = 0
    /\ rescans = 0
    /\ since = [u \in Users |-> -1]
    /\ spoiled = FALSE
    /\ dropped = {}

\* The manager gives a block to the indexes, before the transaction commits.
\* Without an accumulator (see LoadIndex) the process dies, as in Crash.
ConnectBlock ==
    /\ up /\ ~dbtx.open
    /\ tip < MaxTip
    /\ mem.acc # NoAcc
    /\ IF "ws" \in on
         THEN LET c == Connected(mem, tip, tip + 1, disk.keys)
              IN  mem' = c.idx /\ dbtx' = c.writes
         ELSE dbtx' = [NoWrites EXCEPT !.open = TRUE] /\ UNCHANGED mem
    /\ UNCHANGED <<disk, tip, up, on, register, rescan, restarts, histories>>

CommitBlock ==
    /\ up /\ dbtx.open
    /\ tip' = tip + 1
    /\ disk' = IF "tx" \in on THEN IndexTxs(Written(disk, dbtx), tip + 1)
                              ELSE Written(disk, dbtx)
    /\ dbtx' = NoWrites
    /\ UNCHANGED <<up, on, mem, register, rescan, restarts, histories>>

\* The block is not connected, but the index has seen it.
CommitBlockFails ==
    /\ up /\ dbtx.open
    /\ dbtx' = NoWrites
    /\ spoiled' = (spoiled \/ "ws" \in on)
    /\ UNCHANGED <<disk, tip, up, on, mem, register, rescan, restarts, since,
                   dropped, rescans>>

-----------------------------------------------------------------------------
\* RegisterViewKey: the scanner has the key before the datastore has it.  A user
\* may register again, for instance when it was removed as stale.
RegisterViewKey(u) ==
    /\ up /\ "ws" \in on
    /\ register = Nobody
    /\ register' = u
    /\ mem' = [mem EXCEPT !.keys = @ \cup {u}]
    /\ UNCHANGED <<disk, tip, up, on, dbtx, rescan, restarts, histories>>

CommitViewKey ==
    /\ up /\ register # Nobody
    /\ disk' = [disk EXCEPT !.keys = @ \cup {register}]
    /\ since' = IF register \in mem.keys /\ since[register] = -1
                  THEN [since EXCEPT ![register] = mem.best] ELSE since
    /\ register' = Nobody
    /\ UNCHANGED <<tip, up, on, mem, dbtx, rescan, restarts, spoiled,
                   dropped, rescans>>

\* run removes a user that was not seen for long from the scanner.  Its entry
\* stays: the transaction is read-only, and the key it deletes has the prefix
\* twice.
RemoveStaleUser(u) ==
    /\ up /\ "ws" \in on
    /\ u \in mem.keys /\ u \in disk.keys
    /\ mem' = [mem EXCEPT !.keys = @ \ {u}]
    /\ since' = [since EXCEPT ![u] = -1]
    /\ UNCHANGED <<disk, tip, up, on, dbtx, register, rescan, restarts,
                   spoiled, dropped, rescans>>

\* RescanViewkey begins at an accumulator checkpoint or at genesis.
RescanViewkey(u, checkpoint) ==
    /\ up /\ "ws" \in on
    /\ rescan.pc = "none"
    /\ rescans < MaxRescans
    /\ rescans' = rescans + 1
    /\ since[u] >= 0
    /\ checkpoint <= tip
    /\ rescan' = [pc |-> "scan", user |-> u, height |-> checkpoint + 1,
                  best |-> mem.best,
                  acc |-> [NewAccumulator EXCEPT !.elems = OutputsUpTo(checkpoint)],
                  nullifiers |-> {}]
    /\ UNCHANGED <<disk, tip, up, on, mem, dbtx, register, restarts, since,
                   spoiled, dropped>>

\* A block is scanned: matched outputs are protected in the accumulator of the
\* rescan, but their nullifiers are computed from the number of elements of
\* the live one.  Each match is committed on its own.  A block that is not on
\* disk ends the rescan.  So would a note that does not deserialize, or that is
\* locked to another script than the user registered; there are none here.
ScanBlock ==
    /\ up /\ rescan.pc = "scan"
    /\ IF rescan.height > tip
         THEN rescan' = NoRescan /\ UNCHANGED disk
         ELSE LET h     == rescan.height
                  found == Found(h - 1, h, {rescan.user})
                  new   == Made(found, {rescan.user}, [o \in found |-> Len(mem.acc.elems)])
                  known == rescan.nullifiers \cup new
                  spent == known \cap NullifiersSpent(h - 1, h)
              IN  /\ rescan' = [pc |-> IF h >= rescan.best THEN "check" ELSE "scan",
                                user |-> rescan.user,
                                height |-> IF h >= rescan.best THEN h ELSE h + 1,
                                best |-> rescan.best,
                                acc |-> Inserted(rescan.acc, h - 1, h, found,
                                                 {n[1] : n \in spent}),
                                nullifiers |-> known \ spent]
                  /\ disk' = Written(disk, [userTxs |-> UserTxs(h - 1, h, found, known),
                                            put |-> new \ spent, del |-> spent])
    /\ UNCHANGED <<tip, up, on, mem, dbtx, register, restarts, histories>>

\* Mutation of MergeRescan: the chain is assumed not to have moved.
MergeRescan_Behind ==
    /\ up /\ rescan.pc = "check"
    /\ mem' = [mem EXCEPT !.acc = MergeProofs(@, rescan.acc),
                          !.nullifiers = @ \cup rescan.nullifiers]
    /\ rescan' = NoRescan
    /\ UNCHANGED <<disk, tip, up, on, dbtx, register, restarts, histories>>

\* At the height it saw last the rescan merges, or goes on if there are more
\* blocks by now.
MergeRescan ==
    /\ up /\ rescan.pc = "check"
    /\ IF rescan.height = mem.best
         THEN /\ mem' = [mem EXCEPT !.acc = MergeProofs(@, rescan.acc),
                                    !.nullifiers = @ \cup rescan.nullifiers]
              /\ rescan' = NoRescan
         ELSE /\ rescan' = [rescan EXCEPT !.pc = "scan", !.height = @ + 1,
                                          !.best = mem.best]
              /\ UNCHANGED mem
    /\ UNCHANGED <<disk, tip, up, on, dbtx, register, restarts, histories>>

-----------------------------------------------------------------------------
Flushed(d) == [d EXCEPT !.acc = mem.acc, !.height = mem.best]

\* The flush ticker, also while a block is being connected.
flush ==
    /\ up /\ "ws" \in on
    /\ mem.acc # NoAcc
    /\ disk' = Flushed(disk)
    /\ UNCHANGED <<tip, up, on, mem, dbtx, register, rescan, restarts, histories>>

Stop ==
    /\ up' = FALSE
    /\ mem' = NoIndex
    /\ dbtx' = NoWrites
    /\ register' = Nobody
    /\ rescan' = NoRescan

\* Blockchain.Close, which waits for a block being connected.
Close ==
    /\ up /\ ~dbtx.open
    /\ mem.acc # NoAcc
    /\ disk' = IF "ws" \in on THEN Flushed(disk) ELSE disk
    /\ Stop
    /\ UNCHANGED <<tip, on, restarts, histories>>

Crash ==
    /\ up
    /\ Stop
    /\ spoiled' = (spoiled \/ disk.height > tip)
    /\ UNCHANGED <<disk, tip, on, restarts, since, dropped, rescans>>

\* Mutation of LoadIndex: the nullifiers are not loaded.
LoadIndex_NoNullifiers ==
    [acc |-> CASE disk.height = -1 -> NewAccumulator
               [] disk.height = 0  -> NoAcc
               [] OTHER            -> disk.acc,
     keys |-> disk.keys,
     nullifiers |-> {},
     best |-> IF disk.height = -1 THEN 0 ELSE disk.height]

\* NewWalletServerIndex.  Height zero gives an index without accumulator.
LoadIndex ==
    [acc |-> CASE disk.height = -1 -> NewAccumulator
               [] disk.height = 0  -> NoAcc
               [] OTHER            -> disk.acc,
     keys |-> disk.keys,
     nullifiers |-> disk.nullifiers,
     best |-> IF disk.height = -1 THEN 0 ELSE disk.height]

\* Mutation of RollForward: the first block above the index is left out.
RollForward_OffByOne ==
    IF disk.height + 1 < tip THEN Connected(LoadIndex, disk.height + 1, tip, disk.keys)
                             ELSE [idx |-> LoadIndex, writes |-> NoWrites]

\* IndexManager.Init: the blocks above the height of the index.
RollForward ==
    IF disk.height < tip THEN Connected(LoadIndex, disk.height, tip, disk.keys)
                         ELSE [idx |-> LoadIndex, writes |-> NoWrites]

\* --droptxindex and --dropwsindex: all entries of the index are deleted, its
\* height is not.
Dropped(d, drop) ==
    LET d1 == IF "tx" \in drop THEN [d EXCEPT !.txs = {}] ELSE d
    IN  IF "ws" \in drop
          THEN [d1 EXCEPT !.keys = {}, !.userTxs = {}, !.nullifiers = {}, !.acc = NoAcc]
          ELSE d1

\* BuildServer: the indexes of the configuration that are not to be dropped
\* are loaded and rolled forward.  A wallet server index that was dropped has a
\* height but no accumulator, and the server does not start; one that was
\* flushed at height zero has none either, and starts only if there is nothing
\* to connect.
Restart(configured, drop) ==
    /\ ~up
    /\ restarts < MaxRestarts
    /\ restarts' = restarts + 1
    /\ up' = TRUE
    /\ on' = configured \ drop
    /\ "ws" \in on' => /\ ~(disk.height > 0 /\ disk.acc = NoAcc)
                       /\ ~(disk.height = 0 /\ tip > 0)
    /\ LET d1 == Dropped(disk, drop)
           d2 == IF "tx" \in on' THEN IndexTxs(d1, tip) ELSE d1
       IN  IF "ws" \in on'
             THEN mem' = RollForward.idx /\ disk' = Written(d2, RollForward.writes)
             ELSE mem' = NoIndex /\ disk' = d2
    /\ dropped' = dropped \cup drop
    /\ since' = IF "ws" \in drop THEN [u \in Users |-> -1] ELSE since
    /\ UNCHANGED <<tip, dbtx, register, rescan, spoiled, rescans>>

Next ==
    \/ ConnectBlock
    \/ CommitBlock
    \/ CommitBlockFails
    \/ \E u \in Users : RegisterViewKey(u) \/ RemoveStaleUser(u)
    \/ CommitViewKey
    \/ \E u \in Users, c \in 0..MaxTip : RescanViewkey(u, c)
    \/ ScanBlock
    \/ MergeRescan
    \/ flush
    \/ Close
    \/ Crash
    \/ \E configured \in {{}, {"tx"}, {"tx", "ws"}}, drop \in SUBSET {"tx", "ws"} :
          Restart(configured, drop)

Spec == Init /\ [][Next]_vars

-----------------------------------------------------------------------------
\* Whether the wallet server index is running, has an accumulator, and its
\* last block is committed.
Serving == up /\ "ws" \in on /\ mem.acc # NoAcc /\ ~dbtx.open

TypeOK ==
    /\ tip \in 0..MaxTip
    /\ on \subseteq {"tx", "ws"}
    /\ disk.txHeight \in -1..tip
    /\ disk.height \in -1..MaxTip
    /\ disk.keys \subseteq Users
    /\ mem.keys \subseteq Users
    /\ ~up => mem = NoIndex /\ ~dbtx.open

\* The accumulator of the wallet server index, whose proofs wallets put into
\* their transactions, has exactly the outputs of the chain, in their order:
\* after every crash, restart, missed flush or time without the index no block
\* is left out or connected twice.  The exception is a block whose database
\* transaction failed, or that was flushed before a crash undid it.  The types
\* are checked along with it.
AccumulatorExact ==
    /\ TypeOK
    /\ Serving /\ ~spoiled =>
          /\ mem.best = tip
          /\ mem.acc.elems = OutputsUpTo(tip)

\* A proof in that accumulator is for the true position of its output, also
\* those that a rescan merged into it while blocks were being connected.
ProofsExact ==
    Serving /\ ~spoiled =>
        \A o \in DOMAIN mem.acc.proofs :
            /\ mem.acc.proofs[o] = o
            /\ o < Len(mem.acc.elems)

\* A wallet misses no transaction: each one connected since its view key was
\* stored, that pays it or spends an output paid to it since, is in its list;
\* and every transaction in the list is in the transaction index, where
\* GetWalletTransactions looks it up, unless that index was dropped.
WalletComplete ==
    /\ Serving /\ ~spoiled =>
          \A u \in Users : since[u] >= 0 =>
              LET mine == {o \in OutputsOf(since[u], tip) : Owner[o] = u}
              IN  /\ \A o \in mine : <<u, TxOf[o]>> \in disk.userTxs
                  /\ \A tx \in TxsOf(since[u], tip) :
                        Spends[tx] \cap mine # {} => <<u, tx>> \in disk.userTxs
    /\ Serving /\ "tx" \in on /\ "tx" \notin dropped =>
          \A e \in disk.userTxs : e[2] \in disk.txs
=============================================================================
