------------------------------ MODULE MCMempool ------------------------------
(* A small instance of Mempool, with transactions that overlap in every way *)
(* the rules look at.                                                      *)
EXTENDS Mempool

CONSTANTS n1, n2, n3, v1, r0

Tx(kind, nulls, amount, root) ==
    [kind |-> kind, nulls |-> nulls, amount |-> amount, root |-> root]

Table == [
    spend12   |-> Tx("standard", {n1, n2}, 0, r0),
    spend1    |-> Tx("mint", {n1}, 0, r0),
    stake1    |-> Tx("stake", {n1}, 0, r0),
    coinbase1 |-> Tx("coinbase", {}, 1, r0),
    coinbase2 |-> Tx("coinbase", {}, 2, r0),
    pay2      |-> Tx("treasury", {}, 2, r0)]

MCAll == {"spend12", "spend1", "stake1", "coinbase1", "coinbase2", "pay2"}

MCStaked == {<<v1, n2>>}

MCKind == [t \in Txs |-> Table[t].kind]
MCNulls == [t \in Txs |-> Table[t].nulls]
MCOwner == [t \in Txs |-> v1]
MCAmount == [t \in Txs |-> Table[t].amount]
MCRootOf == [t \in Txs |-> Table[t].root]
=============================================================================
