---------------------------- MODULE KeyValueStore ----------------------------
(***************************************************************************)
(* What a database of keys and values promises: it is a map, and the       *)
(* answer to each read is what was put last.                               *)
(***************************************************************************)
EXTENDS Maps

CONSTANTS Keys, Values

VARIABLE map

Init == map = EmptyMap

Put(k, v) == map' = With(map, k, v)

Delete(k) ==
    /\ k \in DOMAIN map
    /\ map' = Without(map, {k})

Next == \E k \in Keys : Delete(k) \/ \E v \in Values : Put(k, v)

Spec == Init /\ [][Next]_map
=============================================================================
