------------------------------ MODULE Xthinner ------------------------------
(***************************************************************************)
(* Compact blocks (mempool/xthinner.go): a node that has generated a block *)
(* sends the shortest prefixes of the transaction IDs that tell them apart *)
(* in its own mempool, and the receiver looks them up in another one.      *)
(*                                                                         *)
(* An ID is a sequence of digits, a digit for a byte.  The hash function   *)
(* clears two bits of the first byte, so that no ID begins with Top, the   *)
(* digit of the decoder's sentinel.                                        *)
(***************************************************************************)
EXTENDS Integers, Sequences, SequencesExt, FiniteSetsExt

CONSTANTS
    Txids,      \* sequences of digits, all of the same length
    Top         \* the highest digit

Zeros(n) == [i \in 1..n |-> 0]
Tops(n) == [i \in 1..n |-> Top]

ASSUME XthinnerAssumption ==
    \A t \in Txids :
        /\ t \in Seq(0..Top) /\ t[1] < Top
        /\ \A u \in Txids : Len(t) = Len(u)
        /\ t # Zeros(Len(t))

VARIABLES
    pool,       \* the mempool of the node that generates the block
    peerPool,   \* the mempool of a node that receives it
    blk         \* the transactions of the block, {} before there is one

xthinVars == <<pool, peerPool, blk>>

XthinInit ==
    /\ pool = {}
    /\ peerPool = {}
    /\ blk = {}

\* The lexicographic order of IDs and of prefixes of the same length.
Less(s, t) ==
    \E i \in DOMAIN s : s[i] < t[i] /\ \A j \in 1..(i - 1) : s[j] = t[j]
Sorted(ids) == SetToSortSeq(ids, Less)
Prefix(t, n) == SubSeq(t, 1, n)

-----------------------------------------------------------------------------
\* encodeBitmap and decodeBitmap: the bits come back with zeros up to a full
\* byte.
Padded(bits) == bits \o Zeros((-Len(bits)) % 8)

\* n ones and the zero that ends them.
Unary(n) == [i \in 1..n |-> 1] \o <<0>>

\* Mutation of Neighbours: only the one before.
Neighbours_Before(txs, i) == {IF i = 1 THEN txs[Len(txs) - 1] ELSE txs[i - 1]}

\* The neighbours of the ID at i: the one before, which for the first is the
\* last of the pool, and the one behind, which for the last is the sentinel.
Neighbours(txs, i) ==
    {IF i = 1 THEN txs[Len(txs) - 1] ELSE txs[i - 1], txs[i + 1]}

\* What one transaction adds to an encoding: bytes are popped off the stack
\* until it is a prefix of t, and then pushed until no neighbour shares it.
\* Where the block's transactions are in the pool, the stack is a prefix of t.
EncodeTx(txs, e, t) ==
    LET left   == IF e.stack = <<>> THEN 0 ELSE Len(e.stack) - 1
        differ == {i \in 1..left : e.stack[i] # t[i]}
        kept   == IF differ = {} THEN left ELSE Min(differ) - 1
        at     == CHOOSE i \in DOMAIN txs : txs[i] = t
        shared(n) == /\ Len(txs) > 2
                     /\ \E u \in Neighbours(txs, at) : Prefix(u, n) = Prefix(t, n)
        n      == Min({m \in (kept + 1)..Len(t) : ~shared(m)})
    IN  [stack |-> Prefix(t, n),
         pops |-> e.pops \o Unary(left - kept),
         pushes |-> e.pushes \o Unary(n - kept - 1),
         bytes |-> e.bytes \o SubSeq(t, kept + 1, n)]

\* EncodeXthinner of a block whose transactions are all in the pool p; for
\* another it returns an error (xthinner.go:57), and nothing is sent.
EncodeXthinner(p, ids) ==
    LET len == Len(CHOOSE t \in ids : TRUE)
        txs == Append(Sorted(p), Zeros(len))
        e   == FoldLeft(LAMBDA x, t : EncodeTx(txs, x, t),
                        [stack |-> <<>>, pops |-> <<>>, pushes |-> <<>>, bytes |-> <<>>],
                        Sorted(ids))
    IN  [count |-> Cardinality(ids), pops |-> Padded(e.pops),
         pushes |-> Padded(e.pushes), bytes |-> e.bytes]

-----------------------------------------------------------------------------
\* The number of ones from position i on.
Ones(bits, i) == Min({j \in i..Len(bits) : bits[j] = 0}) - i

\* One round of DecodeXthinner: the stack of the next transaction, the position
\* in txs of the first ID that is not below it, and what that ID tells.
\* found is what the receiver has without asking.
DecodeTx(x, txs, found, d) ==
    LET pops   == Ones(x.pops, d.popi)
        pushes == Ones(x.pushes, d.pushi) + 1
        left   == IF d.stack = <<>> THEN 0 ELSE Len(d.stack) - 1
        stack  == Prefix(d.stack, left - pops)
                    \o SubSeq(x.bytes, d.bytei, d.bytei + pushes - 1)
        head(i) == Prefix(txs[i], Len(stack))
        at     == Min({i \in d.at..Len(txs) : i = Len(txs) \/ ~Less(head(i), stack)})
        missing == \/ stack # head(at)
                   \/ at < Len(txs) - 1 /\ head(at + 1) = stack
    IN  [stack |-> stack, at |-> at,
         popi |-> d.popi + pops + 1, pushi |-> d.pushi + pushes,
         bytei |-> d.bytei + pushes,
         txs |-> Append(d.txs, IF missing \/ txs[at] \notin found THEN <<>> ELSE txs[at]),
         rerequests |-> IF missing THEN d.rerequests \cup {Len(d.txs) + 1}
                                   ELSE d.rerequests]

\* The transactions, <<>> for nil, and the positions to ask for.
DecodeXthinner(p, prefilled, x) ==
    LET txs == Append(Sorted(p \cup prefilled),
                      Tops(Len(CHOOSE t \in Txids : TRUE)))
        round(d, i) == DecodeTx(x, txs, p \cup prefilled, d)
        d   == FoldLeft(round,
                        [stack |-> <<>>, at |-> 1, popi |-> 1, pushi |-> 1, bytei |-> 1,
                         txs |-> <<>>, rerequests |-> {}],
                        [i \in 1..x.count |-> i])
    IN  [txs |-> d.txs, rerequests |-> d.rerequests]

-----------------------------------------------------------------------------
\* A transaction arrives, before or after the block is put together; some of
\* the pool's transactions are made a block.
Arrive(t) ==
    /\ t \notin pool /\ pool' = pool \cup {t}
    /\ UNCHANGED <<peerPool, blk>>

PeerArrive(t) ==
    /\ t \notin peerPool /\ peerPool' = peerPool \cup {t}
    /\ UNCHANGED <<pool, blk>>

Generate(ids) ==
    /\ blk = {} /\ ids # {}
    /\ blk' = ids
    /\ UNCHANGED <<pool, peerPool>>

XthinNext ==
    \/ \E t \in Txids : Arrive(t) \/ PeerArrive(t)
    \/ \E ids \in SUBSET pool : Generate(ids)

-----------------------------------------------------------------------------
\* A receiver ends up with the block's transactions or asks for them: each one
\* is decoded rightly, or is in the list of the missing ones, or is mistaken
\* for a transaction that only the receiver has while it lacks the right one
\* (which the check of the Merkle root finds).  A receiver that has the block
\* and nothing the sender lacks has nothing to ask for, however many
\* transactions arrived at the sender since it generated the block.
DecodedOrAsked ==
    blk # {} =>
        LET ids == Sorted(blk)
            x   == EncodeXthinner(pool, blk)
        IN  \A prefilled \in {{}, blk \ peerPool} :
                LET d == DecodeXthinner(peerPool, prefilled, x)
                IN  /\ \A i \in DOMAIN ids :
                          \/ d.txs[i] = ids[i]
                          \/ d.txs[i] = <<>> /\ i \in d.rerequests
                          \/ d.txs[i] \in peerPool \ pool
                             /\ ids[i] \notin peerPool \cup prefilled
                    /\ blk \subseteq peerPool \cup prefilled /\ peerPool \subseteq pool =>
                          d.rerequests = {}
=============================================================================
