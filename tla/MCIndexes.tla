----------------------------- MODULE MCIndexes ------------------------------
(* A chain that pays one user twice, whose outputs are spent one by one.    *)
EXTENDS Indexes

\* One output per transaction: 1 and 2 are paid to alice by "pay1" and "pay2".
MCTxSeq == <<"genesis", "pay1", "pay2", "spend1", "spend2">>
MCTxs == {MCTxSeq[i] : i \in 1..5}
MCBlockOf == [t \in MCTxs |->
    CASE t = "genesis" -> 0 [] t = "pay1" -> 1 [] t = "spend2" -> 3 [] OTHER -> 2]
MCNumOutputs == [h \in -1..3 |->
    CASE h = -1 -> 0 [] h = 0 -> 1 [] h = 1 -> 2 [] h = 2 -> 4 [] OTHER -> 5]
MCTxOf == [o \in 0..4 |-> MCTxSeq[o + 1]]
MCSpends == [t \in MCTxs |->
    CASE t = "spend1" -> {1} [] t = "spend2" -> {2} [] OTHER -> {}]
MCOwner == [o \in 0..4 |-> IF o \in {1, 2} THEN "alice" ELSE Nobody]

\* Nothing is claimed of a spoiled accumulator, so what follows is not explored.
Unspoiled == ~spoiled
=============================================================================
