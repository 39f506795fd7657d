-------------------------- MODULE MCConsensusEngine --------------------------
(* Small instances of ConsensusEngine: IDs of two bits.                    *)
EXTENDS ConsensusEngine

\* Two competing blocks that differ in the first bit.
MCOneHeight == {<<0, 1>>, <<1, 0>>}
MCAtOne == [b \in BlockIDs |-> 1]

\* One block at each of two heights.
MCTwoHeights == [b \in BlockIDs |-> IF b = <<0, 1>> THEN 1 ELSE 2]
=============================================================================
