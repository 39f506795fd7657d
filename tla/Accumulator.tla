---------------------------- MODULE Accumulator ----------------------------
(***************************************************************************)
(* The txo accumulator (blockchain/accumulator.go), a Merkle mountain      *)
(* range, and the Merkle trees of blockchain/merkle.go that combine its    *)
(* peaks and the transactions of a block.                                  *)
(*                                                                         *)
(* A hash is the term it is the hash of, so that two hashes are equal if   *)
(* and only if what they hash is.  The bits of Flags are the set of the    *)
(* positions that are set.  Clone and the serialization of io.go copy      *)
(* every field and are left out.                                           *)
(*                                                                         *)
(* Two accumulators take the same elements, as the accumulator of the      *)
(* wallet server and the one of a rescan do: each protects elements of its *)
(* own, and the proofs of the second are merged into the first.            *)
(***************************************************************************)
EXTENDS Integers, Sequences, FiniteSets, Maps, TLC

CONSTANTS
    Elements,   \* the data to insert, a sequence in which data may recur
    Wanted,     \* the data that somebody may protect
    MaxPeak     \* the height of the highest peak that is possible

ASSUME AccumulatorAssumption ==
    MaxPeak \in Nat /\ Len(Elements) < 2^(MaxPeak + 1)

VARIABLES
    live,       \* an accumulator
    scan,       \* another one
    tracked     \* history: the data protected in live or merged into it since
                \* it was dropped last

accVars == <<live, scan, tracked>>

NilHash == [nil |-> TRUE]
HashWithIndex(d, i) == [data |-> d, index |-> i]
HashMerkleBranches(l, r) == [left |-> l, right |-> r]

\* acc[h] is the peak of height h; the proofs are kept by the hash of the leaf.
NewAccumulator ==
    [acc |-> [h \in 0..MaxPeak |-> NilHash], n |-> 0,
     proofs |-> EmptyMap, lookup |-> EmptyMap]

AccInit ==
    /\ live = NewAccumulator
    /\ scan = NewAccumulator
    /\ tracked = {}

-----------------------------------------------------------------------------
\* The proof p with one more hash, on its right or on its left.
OnRight(p, h) ==
    [p EXCEPT !.hashes = Append(@, h), !.flags = @ \cup {Len(p.hashes)},
              !.last = HashMerkleBranches(@, h)]
OnLeft(p, h) ==
    [p EXCEPT !.hashes = Append(@, h), !.last = HashMerkleBranches(h, @)]

\* The proof of a leaf before any hash is added to it.
NewProof(leaf) == [hashes |-> <<>>, flags |-> {}, index |-> leaf.index, last |-> leaf]

\* Mutation of Extended: without the test of the proof's height.
Extended_AnyHeight(p, n, acc, h, peaks) ==
    CASE Len(p.hashes) = 0 \/ h + 1 > peaks -> p
      [] OTHER ->
           CASE p.last # n -> OnRight(p, n)
             [] p.last = n /\ acc[h + 1] # NilHash -> OnLeft(p, acc[h + 1])
             [] OTHER -> p

\* What the merge that makes n out of the peak of height h does to a proof.
Extended(p, n, acc, h, peaks) ==
    CASE Len(p.hashes) = 0 \/ h + 1 < Len(p.hashes) \/ h + 1 > peaks -> p
      [] OTHER ->
           CASE p.last # n -> OnRight(p, n)
             [] p.last = n /\ acc[h + 1] # NilHash -> OnLeft(p, acc[h + 1])
             [] OTHER -> p

\* The loop of Insert: peaks of the same height merge until a height is free.
RECURSIVE Merge(_, _, _, _, _)
Merge(acc, proofs, h, n, peaks) ==
    IF acc[h] = NilHash
      THEN [acc |-> [acc EXCEPT ![h] = n], proofs |-> proofs]
      ELSE LET m == HashMerkleBranches(acc[h], n)
           IN  Merge([acc EXCEPT ![h] = NilHash],
                     [k \in DOMAIN proofs |-> Extended(proofs[k], m, acc, h, peaks)],
                     h + 1, m, peaks)

\* The accumulator a after Insert.  A protected leaf that is a peak gets the
\* new leaf as its sibling, and the new leaf, if protected, gets that peak.
Insert(a, d, protect) ==
    LET leaf    == HashWithIndex(d, a.n)
        peak    == a.acc[0]
        sibling == [k \in DOMAIN a.proofs |->
                      IF k = peak THEN OnRight(a.proofs[k], leaf) ELSE a.proofs[k]]
        new     == IF peak = NilHash THEN NewProof(leaf)
                                     ELSE OnLeft(NewProof(leaf), peak)
        merged  == Merge(a.acc,
                         IF protect THEN With(sibling, leaf, new) ELSE sibling,
                         0, leaf,
                         Cardinality({h \in 0..MaxPeak : a.acc[h] # NilHash}))
    IN  [acc |-> merged.acc, n |-> a.n + 1, proofs |-> merged.proofs,
         lookup |-> IF protect THEN With(a.lookup, d, a.n) ELSE a.lookup]

\* Neither, one or both accumulators protect the next element.
InsertNext(protectLive, protectScan) ==
    /\ live.n < Len(Elements)
    /\ LET d == Elements[live.n + 1]
       IN  /\ protectLive \/ protectScan => d \in Wanted
           /\ live' = Insert(live, d, protectLive)
           /\ scan' = Insert(scan, d, protectScan)
           /\ tracked' = IF protectLive THEN tracked \cup {d} ELSE tracked

DropProof(d) ==
    /\ d \in DOMAIN live.lookup
    /\ live' = [live EXCEPT
                  !.proofs = Without(@, {HashWithIndex(d, live.lookup[d])}),
                  !.lookup = Without(@, {d})]
    /\ tracked' = tracked \ {d}
    /\ UNCHANGED scan

\* live takes over what it does not have.  The rescan is over, and the next one
\* has protected nothing so far.
MergeProofs ==
    /\ DOMAIN scan.lookup # {}
    /\ live' = [live EXCEPT
                  !.proofs = @ @@ scan.proofs,
                  !.lookup = @ @@ scan.lookup]
    /\ tracked' = tracked \cup DOMAIN scan.lookup
    /\ scan' = [scan EXCEPT !.proofs = EmptyMap, !.lookup = EmptyMap]

AccNext ==
    \/ \E protectLive \in BOOLEAN, protectScan \in BOOLEAN :
          InsertNext(protectLive, protectScan)
    \/ \E i \in DOMAIN Elements : DropProof(Elements[i])
    \/ MergeProofs

-----------------------------------------------------------------------------
RECURSIVE nextPowerOfTwo(_)
nextPowerOfTwo(n) == IF n <= 1 THEN n ELSE 2 * nextPowerOfTwo((n + 1) \div 2)

\* The tree as an array: the data, padded to a power of two, and then the
\* parents, level by level, up to the root.
BuildMerkleTreeStore(data) ==
    LET pot == nextPowerOfTwo(Len(data))
        merkles[i \in 0..(2 * pot - 2)] ==
            LET l == merkles[2 * (i - pot)]
                r == merkles[2 * (i - pot) + 1]
            IN  CASE i < Len(data) -> data[i + 1]
                  [] i >= Len(data) /\ i < pot -> NilHash
                  [] i >= pot /\ l = NilHash -> NilHash
                  [] i >= pot /\ l # NilHash /\ r = NilHash -> HashMerkleBranches(l, l)
                  [] OTHER -> HashMerkleBranches(l, r)
    IN  [size |-> 2 * pot - 1, at |-> merkles]

TreeRoot(store) == store.at[store.size - 1]

\* What the node at i is hashed with: its sibling, or itself if it has none.
ProofSibling(store, i) ==
    LET s == store.at[IF i % 2 = 0 THEN i + 1 ELSE i - 1]
    IN  IF s = NilHash THEN store.at[i] ELSE s

\* The loop of MerkleInclusionProof, from the level of count nodes that starts
\* at start: the hashes and, for each, whether its bit is set.
RECURSIVE ProofFrom(_, _, _, _)
ProofFrom(store, start, count, compare) ==
    LET found == {i \in start..(start + count - 1) : store.at[i] = compare}
        i     == CHOOSE x \in found : \A y \in found : x <= y
        s     == ProofSibling(store, i)
        step  == [hash |-> s, flag |-> i % 2 = 0]
        above == IF i % 2 = 0 THEN HashMerkleBranches(compare, s)
                              ELSE HashMerkleBranches(s, compare)
    IN  CASE start + count >= store.size -> <<>>
          [] start + count < store.size /\ found = {} ->
               ProofFrom(store, start + count, count \div 2, compare)
          [] OTHER ->
               <<step>> \o ProofFrom(store, start + count, count \div 2, above)

MerkleInclusionProof(store, id) ==
    LET steps == ProofFrom(store, 0, (store.size + 1) \div 2, id)
    IN  [hashes |-> [i \in DOMAIN steps |-> steps[i].hash],
         flags |-> {i - 1 : i \in {x \in DOMAIN steps : steps[x].flag}}]

\* The peaks, the highest first (byteSliceToIDs, reverseIDs).
RECURSIVE PeaksFrom(_, _)
PeaksFrom(a, h) ==
    IF h < 0 THEN <<>>
    ELSE (IF a.acc[h] = NilHash THEN <<>> ELSE <<a.acc[h]>>) \o PeaksFrom(a, h - 1)

PeakTree(a) == BuildMerkleTreeStore(PeaksFrom(a, MaxPeak))
Root(a) == TreeRoot(PeakTree(a))

\* The hash that a leaf and the first i hashes of a proof lead to.
RECURSIVE Climb(_, _, _, _)
Climb(n, hashes, flags, i) ==
    IF i = 0 THEN n
    ELSE LET below == Climb(n, hashes, flags, i - 1)
         IN  IF i - 1 \in flags THEN HashMerkleBranches(below, hashes[i])
                                ELSE HashMerkleBranches(hashes[i], below)

\* The proof up to the peak, continued in the tree of the peaks.
GetProof(a, d) ==
    LET leaf  == HashWithIndex(d, a.lookup[d])
        p     == a.proofs[leaf]
        k     == Len(p.hashes)
        extra == MerkleInclusionProof(PeakTree(a), Climb(leaf, p.hashes, p.flags, k))
    IN  [hashes |-> p.hashes \o extra.hashes,
         flags |-> p.flags \cup {f + k : f \in extra.flags},
         index |-> p.index]

\* The check of the circuit (zk/circuits/standard).
ValidateInclusionProof(d, index, hashes, flags, root) ==
    Climb(HashWithIndex(d, index), hashes, flags, Len(hashes)) = root

-----------------------------------------------------------------------------
\* The perfect tree of the 2^h elements from position lo on.
RECURSIVE Perfect(_, _)
Perfect(lo, h) ==
    IF h = 0 THEN HashWithIndex(Elements[lo + 1], lo)
    ELSE HashMerkleBranches(Perfect(lo, h - 1), Perfect(lo + 2^(h - 1), h - 1))

\* The perfect trees that the binary digits of the number of elements stand
\* for, the larger ones over the earlier elements.
PerfectPeaks(a) ==
    [h \in 0..MaxPeak |->
        IF (a.n \div 2^h) % 2 = 0 THEN NilHash
        ELSE Perfect((a.n \div 2^(h + 1)) * 2^(h + 1), h)]

\* The peaks are those trees, whatever was protected, dropped or merged: nodes
\* that protect different elements agree on the root, which is what a block's
\* transactions are checked against.
\* Every element that was protected, by this accumulator or by one whose
\* proofs were merged into it, and not dropped since has a proof that the
\* circuit accepts for the current root, however many elements came later;
\* with data that recurs it is for the position remembered last.  The proofs
\* of the Merkle tree over a list of transactions lead to its root as well,
\* whatever their number.
InclusionProofsValid ==
    /\ \A a \in {live, scan} : a.acc = PerfectPeaks(a)
    /\ \A d \in tracked :
          LET p == GetProof(live, d)
          IN  /\ d \in DOMAIN live.lookup
              /\ Elements[p.index + 1] = d
              /\ ValidateInclusionProof(d, p.index, p.hashes, p.flags, Root(live))
    /\ LET ids   == [i \in 1..live.n |-> HashWithIndex(Elements[i], i)]
           store == BuildMerkleTreeStore(ids)
       IN  \A i \in DOMAIN ids :
              LET p == MerkleInclusionProof(store, ids[i])
              IN  Climb(ids[i], p.hashes, p.flags, Len(p.hashes)) = TreeRoot(store)
=============================================================================
