---------------------------- MODULE MCSyncManager ----------------------------
(* Small instances of SyncManager: a chain and two forks of it.            *)
EXTENDS SyncManager

Trunk == <<"a1", "a2", "a3", "a4", "a5", "a6", "a7">>
ForkB == <<"a1", "a2", "a3", "b4", "b5", "b6", "b7">>
ForkC == <<"a1", "a2", "a3", "a4", "c5">>

MCChains == {Trunk, ForkB, ForkC}
MCOneChain == {Trunk}
MCScore == [b \in Blocks |-> IF b \in {"b4", "b5", "b6", "b7"} THEN 2 ELSE 1]
MCCheckpoints == <<2, 3>>
MCNoCheckpoints == <<>>

CONSTANTS p1, p2, p3

\* Peers are interchangeable: of the initial states that differ in their names
\* only, one is enough.
Rank(p) == 10 * has[p] + (CASE follows[p] = Trunk -> 0
                            [] follows[p] = ForkB -> 1
                            [] OTHER -> 2)
MCInit ==
    /\ Init
    /\ Rank(p1) <= Rank(p2)
    /\ Rank(p2) <= Rank(p3)

MCFairSpec == MCInit /\ [][Next]_vars /\ Fairness
==============================================================================
