------------------------------ MODULE MCServer ------------------------------
(* Small instances of Server: two blocks of the first height by the same    *)
(* producer, one of which the mempool does not decode, and a child of the   *)
(* other that arrives before its time.                                      *)
EXTENDS Server

MCHeight == [b \in Blocks |-> IF b = "a2" THEN 2 ELSE 1]
MCParent == [b \in Blocks |-> IF b = "a2" THEN "a1" ELSE NoBlock]
MCProducer == [b \in Blocks |-> "validator"]
MCTime == [b \in Blocks |-> IF b = "b1" THEN 3 ELSE 1]
MCFault == [b \in Blocks |-> "none"]
=============================================================================
