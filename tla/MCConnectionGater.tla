------------------------- MODULE MCConnectionGater -------------------------
(* Two peers behind one address.                                            *)
EXTENDS ConnectionGater

MCAddrOf == [p \in Peers |-> "addr"]
MCPenalties == {<<1, 0>>, <<0, 2>>, <<3, 0>>}
=============================================================================
