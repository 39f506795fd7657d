---------------------------- MODULE MCStructures ----------------------------
(* The Merkle database, the accumulator, the compact blocks and the caches  *)
(* of the chain.  They do not share state, and a behaviour works with one.  *)
EXTENDS MerkleDB, Accumulator, Xthinner, ChainCaches

\* Keys of four bits that share prefixes of every length.
MCKeys == {<<0, 0, 0, 0>>, <<0, 0, 0, 1>>, <<0, 0, 1, 0>>, <<0, 1, 0, 0>>,
           <<0, 1, 1, 1>>, <<1, 0, 0, 0>>, <<1, 1, 1, 1>>}

\* Two elements recur.
MCElements == <<1, 2, 3, 1, 4, 5, 6, 2>>

\* IDs that share no, one or two digits.
MCTxids == {<<0, 0, 1>>, <<0, 0, 2>>, <<0, 1, 0>>, <<1, 0, 2>>, <<1, 2, 1>>, <<1, 2, 2>>}

\* Blocks that spend the same nullifiers, refer to roots of either chain, and
\* ban one or have no outputs.
MCBlocks ==
    UNION {[spends : {<<1>>, <<2>>, <<3, 1>>}, txoRoot : {0, 1, -1, -2},
            outputs : {kind[1]}, bans : {kind[2]}] :
               kind \in {<<TRUE, {}>>, <<TRUE, {2}>>, <<FALSE, {}>>}}

Init == MerkleInit /\ AccInit /\ XthinInit /\ CachesInit

NoMerkle == values = EmptyMap /\ nodes = {} /\ UNCHANGED merkleVars
NoAcc == live.n = 0 /\ UNCHANGED accVars
NoXthin == pool = {} /\ peerPool = {} /\ UNCHANGED xthinVars
NoCaches == UNCHANGED cachesVars /\ CachesInit

\* No value is put over itself (MerkleDB_put.cfg shows what happens then).
Next ==
    \/ MerkleNext /\ ~rewritten' /\ NoAcc /\ NoXthin /\ NoCaches
    \/ AccNext /\ NoMerkle /\ NoXthin /\ NoCaches
    \/ XthinNext /\ NoMerkle /\ NoAcc /\ NoCaches
    \/ CachesNext /\ NoMerkle /\ NoAcc /\ NoXthin

StructuresSpec == Init /\ [][Next]_<<merkleVars, accVars, xthinVars, cachesVars>>
=============================================================================
