------------------------------ MODULE MerkleDB ------------------------------
(***************************************************************************)
(* The Merkle database (zk/lurk/merkledb): a binary trie over the bits of  *)
(* the keys whose nodes are kept in the datastore under their hashes, next *)
(* to the values and the root node.                                        *)
(*                                                                         *)
(* The hash of a node is the node itself, so that two hashes are equal if  *)
(* and only if the nodes are; the node store is the set of the nodes in    *)
(* it.  A key is the sequence of its bits.  Each operation is one          *)
(* database transaction under mtx.                                         *)
(***************************************************************************)
EXTENDS Integers, Sequences, Maps

CONSTANTS
    Keys,       \* distinct sequences of bits, all of the same length
    Values

ASSUME MerkleDBAssumption ==
    \A k \in Keys, l \in Keys : Len(k) = Len(l) /\ k \in Seq({0, 1})

VARIABLES
    root,       \* the root node
    nodes,      \* the nodes in the datastore
    values,     \* key -> value
    rewritten   \* history: a value was put over itself

merkleVars == <<root, nodes, values, rewritten>>

\* The three kinds of HashVal.
Nil == [kind |-> "nil"]
Data(k, v) == [kind |-> "data", key |-> k, value |-> v]
Node(left, right) == [kind |-> "node", left |-> left, right |-> right]

IsNil(h) == h \in {Nil, Node(Nil, Nil)}
IsDataOf(h, k) == h.kind = "data" /\ h.key = k

\* Level 0 is the root.
getBit(k, level) == k[level + 1]
Slot(n, bit) == IF bit = 0 THEN n.left ELSE n.right
Sibling(n, bit) == IF bit = 0 THEN n.right ELSE n.left
SetSlot(n, bit, h) == IF bit = 0 THEN [n EXCEPT !.left = h]
                                 ELSE [n EXCEPT !.right = h]

MerkleInit ==
    /\ root = Node(Nil, Nil)
    /\ nodes = {}
    /\ values = EmptyMap
    /\ rewritten = FALSE

-----------------------------------------------------------------------------
Missing == [kind |-> "missing"]
fetchNode(h) == IF h \in nodes THEN h ELSE Missing

\* A node that holds only d, which is pushed down to this level.
PushedDown(d, level) == SetSlot(Node(Nil, Nil), getBit(d.key, level), d)

\* Mutation of NextNode: the child that takes the place of data is empty.
NextNode_Empty(h, level) ==
    IF h.kind = "data" THEN Node(Nil, Nil) ELSE fetchNode(h)

\* The node below a slot that is not free.
NextNode(h, level) ==
    IF h.kind = "data" THEN PushedDown(h, level) ELSE fetchNode(h)

\* recursivePut and its loop: the node that replaces n, the nodes written and
\* the nodes deleted; ok is FALSE if a node cannot be fetched.
RECURSIVE recursivePut(_, _, _, _)
recursivePut(k, v, n, level) ==
    LET bit  == getBit(k, level)
        h    == Slot(n, bit)
        next == NextNode(h, level + 1)
        r    == recursivePut(k, v, next, level + 1)
    IN  CASE IsNil(h) \/ IsDataOf(h, k) ->
               LET new == SetSlot(n, bit, Data(k, v))
               IN  [ok |-> TRUE, node |-> new, put |-> {new}, del |-> {n}]
          [] ~IsNil(h) /\ ~IsDataOf(h, k) /\ next = Missing ->
               [ok |-> FALSE, node |-> n, put |-> {}, del |-> {}]
          [] OTHER ->
               LET new == SetSlot(n, bit, r.node)
               IN  [ok |-> r.ok, node |-> new,
                    put |-> r.put \cup {new}, del |-> r.del \cup {n}]

\* The deletions come last.
Written(r) == (nodes \cup r.put) \ r.del

Put(k, v) ==
    LET r == recursivePut(k, v, root, 0)
    IN  /\ r.ok
        /\ root' = r.node
        /\ nodes' = Written(r)
        /\ values' = With(values, k, v)
        /\ rewritten' = (rewritten \/ (k \in DOMAIN values /\ values[k] = v))

\* Mutation of Collapsed: a node with a single entry stays.
Collapsed_Never(n) == n

\* isLeaf: what the parent's slot becomes when its child is n.
Collapsed(n) ==
    CASE IsNil(n.left) /\ n.right.kind = "data" -> n.right
      [] IsNil(n.right) /\ n.left.kind = "data" -> n.left
      [] IsNil(n) -> Nil
      [] OTHER -> n

\* recursiveDelete and its loop.  It gives up silently where the key is not.
RECURSIVE recursiveDelete(_, _, _)
recursiveDelete(k, n, level) ==
    LET bit  == getBit(k, level)
        h    == Slot(n, bit)
        r    == recursiveDelete(k, fetchNode(h), level + 1)
    IN  CASE IsDataOf(h, k) ->
               LET new == SetSlot(n, bit, Nil)
               IN  [ok |-> TRUE, node |-> new, put |-> {new}, del |-> {n}]
          [] ~IsDataOf(h, k) /\ (IsNil(h) \/ fetchNode(h) = Missing) ->
               [ok |-> FALSE, node |-> n, put |-> {}, del |-> {}]
          [] OTHER ->
               LET slot == Collapsed(r.node)
                   new  == SetSlot(n, bit, slot)
               IN  [ok |-> r.ok, node |-> new, put |-> r.put \cup {new},
                    del |-> r.del \cup {n} \cup
                            (IF slot.kind = "data" THEN {r.node} ELSE {})]

Delete(k) ==
    LET r == recursiveDelete(k, root, 0)
    IN  /\ k \in DOMAIN values
        /\ root' = IF r.ok THEN r.node ELSE root
        /\ nodes' = IF r.ok THEN Written(r) ELSE nodes
        /\ values' = Without(values, {k})
        /\ UNCHANGED rewritten

MerkleNext == \E k \in Keys : Delete(k) \/ \E v \in Values : Put(k, v)

Spec == MerkleInit /\ [][MerkleNext]_merkleVars

-----------------------------------------------------------------------------
\* The nodes from the root towards key k, and the slot where the walk of Get
\* and Exists ends.
RECURSIVE Walk(_, _, _)
Walk(k, n, level) ==
    LET h == Slot(n, getBit(k, level))
    IN  IF IsNil(h) \/ h.kind = "data" \/ fetchNode(h) = Missing
          THEN [path |-> <<n>>, final |-> h]
          ELSE LET w == Walk(k, h, level + 1)
               IN  [w EXCEPT !.path = <<n>> \o @]

\* Exists: whether the key is there, and the proof of it.
Found(k) == IsDataOf(Walk(k, root, 0).final, k)
Proof(k) ==
    LET w == Walk(k, root, 0)
    IN  Append([i \in DOMAIN w.path |-> Sibling(w.path[i], getBit(k, i - 1))],
               IF IsNil(w.final) THEN Nil ELSE w.final)

\* Get: the value, if both the values and the tree have the key.
Get(k) == k \in DOMAIN values /\ Found(k)

\* The root that the last i hashes of a proof give with the hash below them.
RECURSIVE ProofRoot(_, _, _, _)
ProofRoot(k, proof, i, h) ==
    IF i = 0 THEN h
    ELSE ProofRoot(k, proof, i - 1,
            IF getBit(k, i - 1) = 0 THEN Node(h, proof[i]) ELSE Node(proof[i], h))

\* ValidateProof for a value, and for the absence of the key.
ValidateProof(k, v, proof) ==
    LET final == proof[Len(proof)]
    IN  /\ final = Data(k, v)
        /\ ProofRoot(k, proof, Len(proof) - 1, final) = root

\* Mutation of ValidateExclusion: the end of the path may be anything.
ValidateExclusion_AnyEnd(k, proof) ==
    ProofRoot(k, proof, Len(proof) - 1, proof[Len(proof)]) = root

ValidateExclusion(k, proof) ==
    LET final == proof[Len(proof)]
    IN  /\ ~IsDataOf(final, k)
        /\ ProofRoot(k, proof, Len(proof) - 1, final) = root

-----------------------------------------------------------------------------
\* The trie of a map, built from nothing: below the root an entry is as high
\* up as it can be alone.  pre is the path to the slot.
RECURSIVE Trie(_, _)
Trie(m, pre) ==
    LET below == {k \in DOMAIN m : SubSeq(k, 1, Len(pre)) = pre}
    IN  CASE pre # <<>> /\ below = {} -> Nil
          [] pre # <<>> /\ \E k \in below : below = {k} ->
               LET k == CHOOSE x \in below : TRUE IN Data(k, m[k])
          [] OTHER -> Node(Trie(m, Append(pre, 0)), Trie(m, Append(pre, 1)))

RECURSIVE NodesOf(_)
NodesOf(h) ==
    IF h.kind # "node" THEN {} ELSE {h} \cup NodesOf(h.left) \cup NodesOf(h.right)

\* What a reader finds when it looks the keys up in the tree.
Contents ==
    [k \in {x \in Keys : Found(x)} |-> Walk(k, root, 0).final.value]

\* The root hash is a function of what is stored, whatever sequence of puts,
\* overwrites with other values and deletes led to it (a value put over itself
\* loses the path, merkledb.go:84, and is left out): a delete takes the root back to what it
\* was before the put, and the order of puts does not matter.  Put and Delete
\* leave no node behind and delete none that is still needed, although they
\* delete by hash after they have written.
RootCanonical ==
    /\ root = Trie(values, <<>>)
    /\ nodes \cup {root} = NodesOf(root)

\* A proof that Get or Exists returns is valid against the root, for the value
\* that is stored and no other, and for the absence of a key if and only if it
\* is not stored.
ProofsValid ==
    \A k \in Keys :
        /\ \A v \in Values :
              ValidateProof(k, v, Proof(k)) <=> Get(k) /\ values[k] = v
        /\ ValidateExclusion(k, Proof(k)) <=> k \notin DOMAIN values

\* The tree, as reads see it, is a map with the same operations.
Store == INSTANCE KeyValueStore WITH map <- Contents
IsStore == Store!Spec
=============================================================================
