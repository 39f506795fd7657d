----------------------------- MODULE MCMerkleDB -----------------------------
(* Keys of three bits that share prefixes of every length.                  *)
EXTENDS MerkleDB

MCKeys == {<<0, 0, 0>>, <<0, 0, 1>>, <<0, 1, 0>>, <<1, 0, 0>>, <<1, 0, 1>>}
=============================================================================
