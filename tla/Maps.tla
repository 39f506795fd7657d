-------------------------------- MODULE Maps --------------------------------
(* Go maps: functions whose domain is the set of keys that are present.    *)

EmptyMap == [k \in {} |-> 0]

\* m without the keys in S, and m with key k set to v.
Without(m, S) == [k \in DOMAIN m \ S |-> m[k]]
With(m, k, v) == [x \in DOMAIN m \cup {k} |-> IF x = k THEN v ELSE m[x]]
=============================================================================
