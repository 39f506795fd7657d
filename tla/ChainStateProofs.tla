-------------------------- MODULE ChainStateProofs --------------------------
(***************************************************************************)
(* For every length of the chain, number of faults and kind of datastore:  *)
(* the four safety invariants of ChainState.                               *)
(*                                                                         *)
(* The idea is that a store is Good for a height h if it holds no block    *)
(* twice, none out of order and none above h, and, as long as no flush was *)
(* left in a state that the code does not repair, exactly the blocks up to *)
(* h.  Phases says for each step of the process which store is good for    *)
(* which height.  Rebuilds says what memory holds when the repair connects *)
(* the genesis block, which is where the set may come to hold it twice.    *)
(***************************************************************************)
EXTENDS ChainState, SequenceTheorems, TLAPS

-----------------------------------------------------------------------------
\* s holds blocks of heights up to h, each once and in order, but for the
\* genesis block, which may be there d times, once or twice.
Ordered(d, s, h) ==
    /\ s \in Seq(Nat)
    /\ \A i \in 1..Len(s) : s[i] <= h
    /\ \A i, j \in 1..Len(s) : i < j =>
          s[i] < s[j] \/ (d = 2 /\ i = 1 /\ j = 2 /\ s[i] = 0 /\ s[j] = 0)

\* How often it may be in the validator set.
Times == IF FirstFlushFailed THEN 2 ELSE 1

\* And exactly those if k.
Good(k, d, s, h) ==
    /\ Ordered(d, s, h)
    /\ k => s = Upto(h)

VsFlush == {"vsOngoing", "vsData", "vsConsistent"}
AccFlush == {"accOngoing", "accData", "accConsistent"}
Repair == {"vsWipe", "vsReset", "vsEmpty"}
Places == {"down", "ready", "accCommit", "close", "vsInit", "vsRoll",
           "vsRolled", "reindex", "fatal"} \cup VsFlush \cup AccFlush \cup Repair
Afters == {"accCommit", "close", "exit", "vsInit", "vsRoll", "vsRolled",
           "ready"}

Memories == [tip : -1..MaxHeight, vs : Seq(Nat), acc : Seq(Nat),
             vsFlushed : BOOLEAN, accFlushed : BOOLEAN]
Jobs == [kind : CrashKinds, height : Nat, acc : Seq(Nat), after : Afters]

Types ==
    /\ tip \in -1..MaxHeight
    /\ indexed \in BOOLEAN
    /\ vsDisk \in Stores
    /\ accDisk \in Stores
    /\ mem \in Memories
    /\ pc \in Places
    /\ job \in Jobs
    /\ faults \in Seq(FaultKinds)
    /\ Len(faults) <= MaxFaults

\* Before the genesis block there is nothing; a process that is up knows the
\* tip, and has an index unless it is stuck in ReindexChainState.
Begun ==
    /\ tip = -1 => pc = "down" /\ vsDisk = EmptyStore /\ accDisk = EmptyStore
    /\ pc \notin {"down", "fatal"} =>
          /\ mem.tip = tip
          /\ indexed \/ pc = "reindex"
    /\ pc = "fatal" /\ indexed => accDisk.status = "ongoing"

\* What is on disk and in memory is in order and never ahead of the chain.
InOrder ==
    /\ tip >= 0 => vsDisk.height <= tip /\ accDisk.height <= tip
    /\ Ordered(Times, vsDisk.applied, vsDisk.height)
    /\ Ordered(1, accDisk.applied, accDisk.height)
    /\ Ordered(Times, mem.vs, tip)
    /\ Ordered(1, mem.acc, tip)
    /\ Ordered(1, job.acc, tip)

\* What the statuses on disk promise.
Statuses ==
    /\ OnlyKilled /\ indexed /\ vsDisk.status = "consistent" =>
          vsDisk.applied = Upto(vsDisk.height)
    /\ OnlyKilled /\ indexed /\ accDisk.status = "consistent" =>
          accDisk.applied = Upto(accDisk.height)
    /\ pc \in {"vsData", "vsConsistent"} \cup Repair => vsDisk.status = "ongoing"
    /\ pc \in {"accData", "accConsistent"} => accDisk.status = "ongoing"
    /\ OnlyKilled /\ pc = "vsConsistent" => vsDisk.applied = Upto(vsDisk.height)
    /\ OnlyKilled /\ pc = "accConsistent" =>
          accDisk.applied = Upto(accDisk.height)
    /\ pc = "vsReset" => vsDisk.applied = <<>>

\* A store is empty only while the genesis block is connected, or while the
\* validator set is repaired.
Filled ==
    OnlyKilled /\ tip >= 0 =>
        /\ vsDisk.status = "empty" =>
              pc = "vsOngoing" /\ job.kind \in {"genesis", "repair"}
        /\ accDisk.status = "empty" =>
              /\ job.kind = "genesis"
              /\ job.after = "accCommit"
              /\ pc \in VsFlush \cup {"accCommit", "accOngoing"}

\* A block is being connected: kind and the accumulator.
Connecting ==
    /\ job.kind \in {"running", "genesis"}
    /\ job.kind = "genesis" => ~mem.accFlushed

\* Which store is good for which height at each step of the process.
Phases ==
    /\ pc = "ready" =>
          /\ Good(OnlyKilled, Times, mem.vs, tip)
          /\ Good(OnlyKilled, 1, mem.acc, tip)
    /\ pc \in VsFlush =>
          /\ job.height <= tip
          /\ Good(OnlyKilled, Times, mem.vs, job.height)
          /\ job.after # "exit"
          /\ job.after \in {"accCommit", "close"} =>
                job.height = tip /\ Good(OnlyKilled, 1, job.acc, tip)
          /\ job.after \in {"vsRolled", "ready"} => job.height = tip
          /\ job.after = "vsRoll" => job.height < tip
          /\ job.after \in {"vsInit", "vsRoll", "vsRolled", "ready"} =>
                Good(OnlyKilled, 1, mem.acc, tip)
          /\ job.after = "accCommit" => Connecting
          /\ job.after = "close" => job.kind = "running"
    /\ pc = "accCommit" =>
          /\ job.after = "accCommit"
          /\ job.height = tip
          /\ Good(OnlyKilled, Times, mem.vs, tip)
          /\ Good(OnlyKilled, 1, job.acc, tip)
          /\ Connecting
    /\ pc \in AccFlush =>
          /\ job.after \in {"accCommit", "exit", "vsInit"}
          /\ job.height = tip
          /\ Good(OnlyKilled, 1, job.acc, tip)
          /\ job.after = "accCommit" =>
                /\ Good(OnlyKilled, Times, mem.vs, tip)
                /\ job.kind \in {"running", "genesis"}
          /\ job.after = "vsInit" => job.kind = "open"
    /\ pc = "close" =>
          /\ job.height = tip
          /\ Good(OnlyKilled, 1, job.acc, tip)
          /\ job.kind = "running"
    /\ pc \in {"vsInit", "vsRoll", "vsRolled"} \cup Repair =>
          Good(OnlyKilled, 1, mem.acc, tip)
    /\ pc \in {"vsRoll", "vsRolled"} =>
          Good(OnlyKilled, Times, mem.vs, job.height)
    /\ pc = "vsRoll" => job.height < tip
    /\ pc = "vsRolled" => job.height = tip
    /\ pc \in Repair => job.kind = "repair"

\* What the repair of the validator set starts from: an empty set, or the
\* genesis block in the process that connected it, whose flush then failed.
Rebuilds ==
    /\ pc = "vsInit" => job.kind \in {"genesis", "open", "repair"}
    /\ pc \in VsFlush /\ job.after = "vsInit" => job.kind = "repair"
    /\ pc = "vsInit" /\ job.kind = "repair" => vsDisk.status = "consistent"
    /\ job.kind = "genesis" =>
          /\ pc \in VsFlush /\ job.after = "accCommit" => mem.vs = <<0>>
          /\ pc \in AccFlush \cup {"accCommit", "vsInit"} =>
                /\ mem.vs = <<0>>
                /\ vsDisk.status = "ongoing" => FirstFlushFailed
    /\ job.kind = "open" /\ pc \in AccFlush \cup {"vsInit"} => mem.vs = <<>>
    /\ pc \in Repair => mem.vs = <<>> \/ (mem.vs = <<0>> /\ FirstFlushFailed)

\* The inductive invariant.
Inv == Types /\ Begun /\ InOrder /\ Statuses /\ Filled /\ Phases /\ Rebuilds

-----------------------------------------------------------------------------
(* Stores and heights.                                                     *)

LEMMA OrderedEmpty == ASSUME NEW d, NEW h PROVE Ordered(d, <<>>, h)
BY DEF Ordered

LEMMA OrderedMore ==
    ASSUME NEW d, NEW s, NEW h \in Int, NEW g \in Int, h <= g, Ordered(d, s, h)
    PROVE  Ordered(d, s, g)
BY DEF Ordered

LEMMA OrderedAppend ==
    ASSUME NEW d, NEW s, NEW h \in Int, NEW g \in Nat, h < g, Ordered(d, s, h)
    PROVE  Ordered(d, Append(s, g), g)
<1>1. s \in Seq(Nat)
  BY DEF Ordered
<1> DEFINE r == Append(s, g)
           n == Len(s)
<1>2. /\ n \in Nat
      /\ r \in Seq(Nat)
      /\ Len(r) = n + 1
      /\ \A i \in 1..n : r[i] = s[i]
      /\ r[n + 1] = g
  BY <1>1, AppendProperties, LenProperties
<1>3. /\ \A i \in 1..n : s[i] <= h /\ s[i] \in Nat
      /\ \A i, j \in 1..n : i < j =>
            s[i] < s[j] \/ (d = 2 /\ i = 1 /\ j = 2 /\ s[i] = 0 /\ s[j] = 0)
  BY <1>1 DEF Ordered
<1> HIDE DEF r, n
<1>4. ASSUME NEW i \in 1..(n + 1) PROVE r[i] <= g /\ (i # n + 1 => r[i] < g)
  BY <1>2, <1>3
<1>5. ASSUME NEW i \in 1..(n + 1), NEW j \in 1..(n + 1), i < j
      PROVE  r[i] < r[j] \/ (d = 2 /\ i = 1 /\ j = 2 /\ r[i] = 0 /\ r[j] = 0)
  <2>1. CASE j = n + 1
    BY <2>1, <1>2, <1>4, <1>5
  <2>2. CASE j # n + 1
    BY <2>2, <1>2, <1>3, <1>5
  <2> QED
    BY <2>1, <2>2
<1>6. Ordered(d, r, g)
  BY <1>2, <1>4, <1>5 DEF Ordered
<1> QED
  BY <1>6 DEF r

\* The genesis block may be there twice where it may be there once.
LEMMA OrderedWeaker ==
    ASSUME NEW d, NEW e, d = 2 => e = 2, NEW s, NEW h, Ordered(d, s, h)
    PROVE  Ordered(e, s, h)
BY DEF Ordered

LEMMA OrderedTwice ==
    /\ Append(<<>>, 0) = Upto(0)
    /\ Append(<<0>>, 0) \in Seq(Nat)
    /\ Ordered(2, Append(<<0>>, 0), 0)
<1>1. Append(<<>>, 0) = Upto(0)
  BY DEF Upto
<1> DEFINE r == Append(<<0>>, 0)
<1>2. /\ r \in Seq(Nat) /\ Len(r) = 2
      /\ r[1] = 0 /\ r[2] = 0
  OBVIOUS
<1> HIDE DEF r
<1>3. Ordered(2, r, 0)
  BY <1>2 DEF Ordered
<1> QED
  BY <1>1, <1>2, <1>3 DEF r

LEMMA OrderedUpto == ASSUME NEW d, NEW h \in Nat PROVE Ordered(d, Upto(h), h)
<1>1. Upto(h) \in Seq(Nat) /\ Len(Upto(h)) = h + 1
  BY DEF Upto
<1>2. \A i \in 1..(h + 1) : Upto(h)[i] = i - 1
  BY DEF Upto
<1> QED
  BY <1>1, <1>2 DEF Ordered

LEMMA UptoAppend ==
    ASSUME NEW h \in Int, h >= -1
    PROVE  Append(Upto(h), h + 1) = Upto(h + 1)
<1>1. Upto(h) \in Seq(Int) /\ Len(Upto(h)) = h + 1
  BY DEF Upto
<1>2. Upto(h + 1) \in Seq(Int) /\ Len(Upto(h + 1)) = h + 2
  BY DEF Upto
<1> DEFINE a == Append(Upto(h), h + 1)
           b == Upto(h + 1)
<1>3. \A i \in 1..(h + 2) : a[i] = b[i]
  BY <1>1 DEF Upto
<1>4. a \in Seq(Int) /\ Len(a) = h + 2
  BY <1>1, AppendProperties
<1> HIDE DEF a, b
<1>5. a = b
  BY <1>2, <1>3, <1>4, SeqEqual DEF b
<1> QED
  BY <1>5 DEF a, b

LEMMA UptoEmpty == Upto(-1) = <<>>
BY DEF Upto

LEMMA RolledIs ==
    ASSUME NEW s \in Seq(Nat), NEW h \in Nat, NEW t \in Nat, h <= t
    PROVE  /\ Rolled(s, h, t) \in Seq(Nat)
           /\ Len(Rolled(s, h, t)) = Len(s) + (t - h)
           /\ \A i \in 1..Len(s) : Rolled(s, h, t)[i] = s[i]
           /\ \A i \in (Len(s) + 1)..(Len(s) + (t - h)) :
                 Rolled(s, h, t)[i] = h + (i - Len(s))
<1> DEFINE r == [i \in 1..(t - h) |-> h + i]
           n == Len(s)
<1>1. r \in Seq(Nat) /\ Len(r) = t - h
  OBVIOUS
<1>2. Rolled(s, h, t) = s \o r
  BY DEF Rolled
<1>3. \A i \in 1..(t - h) : r[i] = h + i
  OBVIOUS
<1> HIDE DEF r
<1>4. /\ n \in Nat
      /\ s \o r \in Seq(Nat)
      /\ Len(s \o r) = n + (t - h)
      /\ \A i \in 1..(n + (t - h)) :
            (s \o r)[i] = IF i <= n THEN s[i] ELSE r[i - n]
  BY <1>1, ConcatProperties, LenProperties
<1> DEFINE q == s \o r
<1> HIDE DEF n, q
<1>5. \A i \in 1..n : q[i] = s[i]
  BY <1>4 DEF q
<1>6. \A i \in (n + 1)..(n + (t - h)) : q[i] = h + (i - n)
  <2> TAKE i \in (n + 1)..(n + (t - h))
  <2>1. i \in 1..(n + (t - h)) /\ ~(i <= n) /\ i - n \in 1..(t - h)
    BY <1>4
  <2>2. q[i] = r[i - n]
    BY <2>1, <1>4 DEF q
  <2> QED
    BY <2>1, <2>2, <1>3
<1> QED
  BY <1>2, <1>4, <1>5, <1>6 DEF q, n

LEMMA OrderedRolled ==
    ASSUME NEW s, NEW h \in Nat, NEW t \in Nat, h <= t, Ordered(1, s, h)
    PROVE  Ordered(1, Rolled(s, h, t), t)
<1>1. s \in Seq(Nat)
  BY DEF Ordered
<1> DEFINE r == Rolled(s, h, t)
           n == Len(s)
<1>2. /\ r \in Seq(Nat)
      /\ Len(r) = n + (t - h)
      /\ \A i \in 1..n : r[i] = s[i]
      /\ \A i \in (n + 1)..(n + (t - h)) : r[i] = h + (i - n)
  BY <1>1, RolledIs
<1>3. /\ n \in Nat
      /\ \A i \in 1..n : s[i] <= h /\ s[i] \in Nat
      /\ \A i, j \in 1..n : i < j => s[i] < s[j]
  BY <1>1 DEF Ordered
<1> HIDE DEF r, n
<1>4. ASSUME NEW i \in 1..(n + (t - h))
      PROVE  \/ i \in 1..n /\ r[i] = s[i] /\ r[i] <= h /\ r[i] \in Nat
             \/ i > n /\ r[i] = h + (i - n) /\ r[i] <= t
  <2>1. CASE i <= n
    BY <2>1, <1>2, <1>3
  <2>2. CASE i > n
    <3>1. i \in (n + 1)..(n + (t - h))
      BY <2>2, <1>3
    <3> QED
      BY <3>1, <2>2, <1>2, <1>3
  <2> QED
    BY <2>1, <2>2, <1>3
<1>5. ASSUME NEW i \in 1..(n + (t - h)), NEW j \in 1..(n + (t - h)), i < j
      PROVE  r[i] < r[j]
  BY <1>3, <1>4, <1>5
<1>6. \A i \in 1..(n + (t - h)) : r[i] <= t
  BY <1>3, <1>4
<1>7. Ordered(1, r, t)
  BY <1>2, <1>5, <1>6 DEF Ordered
<1> QED
  BY <1>7 DEF r

LEMMA RolledUpto ==
    ASSUME NEW h \in Nat, NEW t \in Nat, h <= t
    PROVE  Rolled(Upto(h), h, t) = Upto(t)
<1>1. /\ Upto(h) \in Seq(Nat) /\ Len(Upto(h)) = h + 1
      /\ \A i \in 1..(h + 1) : Upto(h)[i] = i - 1
  BY DEF Upto
<1>2. /\ Upto(t) \in Seq(Nat) /\ Len(Upto(t)) = t + 1
      /\ \A i \in 1..(t + 1) : Upto(t)[i] = i - 1
  BY DEF Upto
<1> DEFINE u == Upto(h)
           v == Upto(t)
           r == Rolled(u, h, t)
<1>3. /\ r \in Seq(Nat)
      /\ Len(r) = Len(u) + (t - h)
      /\ \A i \in 1..Len(u) : r[i] = u[i]
      /\ \A i \in (Len(u) + 1)..(Len(u) + (t - h)) : r[i] = h + (i - Len(u))
  BY <1>1, RolledIs
<1> HIDE DEF u, v, r
<1>4. \A i \in 1..(t + 1) : r[i] = v[i]
  BY <1>1, <1>2, <1>3 DEF u, v
<1>5. r = v
  BY <1>1, <1>2, <1>3, <1>4 DEF u, v
<1> QED
  BY <1>5 DEF r, u, v

-----------------------------------------------------------------------------
(* The faults that are told apart.                                         *)

LEMMA KilledSame ==
    faults' = faults => /\ OnlyKilled' = OnlyKilled
                        /\ FirstFlushFailed' = FirstFlushFailed
                        /\ Times' = Times
BY DEF OnlyKilled, FirstFlushFailed, Times

LEMMA KilledMore ==
    ASSUME NEW kind, faults \in Seq(FaultKinds), Fault(kind)
    PROVE  /\ faults' \in Seq(FaultKinds)
           /\ Len(faults') <= MaxFaults
           /\ OnlyKilled' => OnlyKilled /\ kind \in {"running", "open"}
           /\ FirstFlushFailed => FirstFlushFailed'
           /\ Times = 2 => Times' = 2
           /\ kind = "firstError" => FirstFlushFailed'
<1>1. kind \in FaultKinds
  BY ChainStateAssumption DEF Fault
<1>2. /\ faults' \in Seq(FaultKinds)
      /\ Len(faults') = Len(faults) + 1
      /\ \A i \in 1..Len(faults) : faults'[i] = faults[i]
      /\ faults'[Len(faults) + 1] = kind
      /\ Len(faults) \in Nat
  BY <1>1, AppendProperties, LenProperties DEF Fault
<1>3. Len(faults') <= MaxFaults
  BY <1>2, ChainStateAssumption DEF Fault
<1>4. DOMAIN faults = 1..Len(faults) /\ DOMAIN faults' = 1..(Len(faults) + 1)
  BY <1>2, LenProperties
<1> QED
  BY <1>2, <1>3, <1>4 DEF OnlyKilled, FirstFlushFailed, Times

\* The fields of the records.
LEMMA Fields ==
    ASSUME Types
    PROVE  /\ vsDisk.status \in {"empty", "ongoing", "consistent"}
           /\ vsDisk.height \in Nat
           /\ vsDisk.applied \in Seq(Nat)
           /\ accDisk.status \in {"empty", "ongoing", "consistent"}
           /\ accDisk.height \in Nat
           /\ accDisk.applied \in Seq(Nat)
           /\ mem.tip \in -1..MaxHeight
           /\ mem.vs \in Seq(Nat)
           /\ mem.acc \in Seq(Nat)
           /\ mem.vsFlushed \in BOOLEAN
           /\ mem.accFlushed \in BOOLEAN
           /\ job.kind \in CrashKinds
           /\ job.height \in Nat
           /\ job.acc \in Seq(Nat)
           /\ job.after \in Afters
           /\ tip \in Int
BY ChainStateAssumption DEF Types, Stores, Memories, Jobs

-----------------------------------------------------------------------------
(* The flush of the validator set.                                         *)

LEMMA vsFlushOngoingKeeps == Inv /\ vsFlushOngoing => Inv'
<1> SUFFICES ASSUME Inv, vsFlushOngoing PROVE Inv'
  OBVIOUS
<1>1. /\ OnlyKilled' = OnlyKilled /\ FirstFlushFailed' = FirstFlushFailed
      /\ Times' = Times
  BY KilledSame DEF vsFlushOngoing, env
<1>2. /\ vsDisk' \in Stores
      /\ vsDisk'.status = "ongoing"
      /\ vsDisk'.height = vsDisk.height
      /\ vsDisk'.applied = vsDisk.applied
  BY DEF Inv, Types, vsFlushOngoing, Stores
<1>3. Types'
  BY <1>2 DEF Inv, Types, vsFlushOngoing, env, Places, VsFlush
<1>4. Begun'
  BY <1>2 DEF Inv, Begun, vsFlushOngoing
<1>5. InOrder'
  BY <1>1, <1>2 DEF Inv, InOrder, vsFlushOngoing
<1>6. Statuses'
  BY <1>1, <1>2 DEF Inv, Statuses, vsFlushOngoing, Repair
<1>7. Filled'
  BY <1>1, <1>2 DEF Inv, Filled, vsFlushOngoing, VsFlush
<1>8. Phases'
  BY <1>1
  DEF Inv, Phases, Good, Connecting, vsFlushOngoing, VsFlush, AccFlush, Repair
<1>9. Rebuilds'
  BY <1>1 DEF Inv, vsFlushOngoing, VsFlush, AccFlush, Repair, Rebuilds, Phases
<1> QED
  BY <1>3, <1>4, <1>5, <1>6, <1>7, <1>8, <1>9 DEF Inv

LEMMA vsFlushDataKeeps == Inv /\ vsFlushData => Inv'
<1> SUFFICES ASSUME Inv, vsFlushData PROVE Inv'
  OBVIOUS
<1>1. /\ OnlyKilled' = OnlyKilled /\ FirstFlushFailed' = FirstFlushFailed
      /\ Times' = Times
  BY KilledSame DEF vsFlushData, env
<1>2. /\ vsDisk' \in Stores
      /\ vsDisk'.status = vsDisk.status
      /\ vsDisk'.height = job.height
      /\ vsDisk'.applied = mem.vs
  <2>1. job.height \in Nat /\ mem.vs \in Seq(Nat) /\ vsDisk \in Stores
    BY Fields DEF Inv, Types
  <2> QED
    BY <2>1 DEF vsFlushData, Stores
<1>3. Types'
  BY <1>2 DEF Inv, Types, vsFlushData, env, Places, VsFlush
<1>4. Begun'
  BY <1>2 DEF Inv, Begun, vsFlushData
<1>5. InOrder'
  BY <1>1, <1>2 DEF Inv, InOrder, Phases, Good, VsFlush, vsFlushData
<1>6. Statuses'
  BY <1>1, <1>2 DEF Inv, Statuses, Phases, Good, VsFlush, vsFlushData, Repair
<1>7. Filled'
  BY <1>1, <1>2 DEF Inv, Filled, vsFlushData, VsFlush
<1>8. Phases'
  BY <1>1
  DEF Inv, Phases, Good, Connecting, vsFlushData, VsFlush, AccFlush, Repair
<1>9. Rebuilds'
  BY <1>1 DEF Inv, vsFlushData, VsFlush, AccFlush, Repair, Rebuilds, Phases
<1> QED
  BY <1>3, <1>4, <1>5, <1>6, <1>7, <1>8, <1>9 DEF Inv

LEMMA vsFlushConsistentKeeps == Inv /\ vsFlushConsistent => Inv'
<1> SUFFICES ASSUME Inv, vsFlushConsistent PROVE Inv'
  OBVIOUS
<1>1. /\ OnlyKilled' = OnlyKilled /\ FirstFlushFailed' = FirstFlushFailed
      /\ Times' = Times
  BY KilledSame DEF vsFlushConsistent, env
<1>2. /\ vsDisk' \in Stores
      /\ vsDisk'.status = "consistent"
      /\ vsDisk'.height = vsDisk.height
      /\ vsDisk'.applied = vsDisk.applied
  BY DEF Inv, Types, vsFlushConsistent, Stores
<1>3. /\ mem' \in Memories
      /\ mem'.tip = mem.tip /\ mem'.vs = mem.vs /\ mem'.acc = mem.acc
      /\ mem'.accFlushed = mem.accFlushed
  BY DEF Inv, Types, Memories, vsFlushConsistent
<1>4. job.after \in Afters \ {"exit"}
  BY Fields DEF Inv, Phases, vsFlushConsistent, VsFlush
<1>5. Types'
  BY <1>2, <1>3, <1>4
  DEF Inv, Types, vsFlushConsistent, env, Places, VsFlush, Afters
<1>6. Begun'
  BY <1>2, <1>3, <1>4 DEF Inv, Begun, vsFlushConsistent, Afters
<1>7. InOrder'
  BY <1>1, <1>2, <1>3 DEF Inv, InOrder, vsFlushConsistent
<1>8. Statuses'
  BY <1>1, <1>2, <1>4 DEF Inv, Statuses, vsFlushConsistent, Repair, Afters
<1>9. Filled'
  BY <1>1, <1>2 DEF Inv, Filled, vsFlushConsistent, VsFlush
<1>10. Phases'
  BY <1>1, <1>3, <1>4 DEF Inv, Phases, Good, Connecting, vsFlushConsistent,
                          VsFlush, AccFlush, Repair, Afters
<1>11. Rebuilds'
  BY <1>1, <1>3, <1>4
  DEF Inv, vsFlushConsistent, VsFlush, AccFlush, Repair, Afters, Rebuilds,
      Phases
<1> QED
  BY <1>5, <1>6, <1>7, <1>8, <1>9, <1>10, <1>11 DEF Inv

-----------------------------------------------------------------------------
(* The process ends, which leaves what is on disk.                         *)

LEMMA ExitKeeps ==
    ASSUME Inv, Exit, pc # "down",
           tip' = tip, indexed' = indexed, vsDisk' = vsDisk,
           accDisk' \in Stores,
           accDisk'.height <= tip,
           Ordered(1, accDisk'.applied, accDisk'.height),
           OnlyKilled' /\ indexed /\ accDisk'.status = "consistent" =>
               accDisk'.applied = Upto(accDisk'.height),
           faults' \in Seq(FaultKinds), Len(faults') <= MaxFaults,
           Times = 2 => Times' = 2,
           OnlyKilled' => /\ OnlyKilled
                          /\ vsDisk.status # "empty"
                          /\ accDisk'.status # "empty"
    PROVE  Inv'
<1>1. mem' \in Memories /\ mem'.vs = <<>> /\ mem'.acc = <<>>
  BY ChainStateAssumption DEF Exit, NoMemory, Memories
<1>2. job' \in Jobs /\ job'.acc = <<>>
  BY DEF Exit, Idle, Jobs, CrashKinds, Afters
<1>3. pc' = "down"
  BY DEF Exit
<1>4. Types'
  BY <1>1, <1>2, <1>3 DEF Inv, Types, Places
<1>5. tip # -1 /\ Begun'
  BY <1>3 DEF Inv, Begun
<1>6. InOrder'
  <2>1. Ordered(Times', vsDisk.applied, vsDisk.height)
    BY OrderedWeaker DEF Inv, InOrder
  <2> QED
    BY <1>1, <1>2, <2>1, OrderedEmpty DEF Inv, InOrder
<1>7. Statuses'
  BY <1>3 DEF Inv, Statuses, Repair
<1>8. Filled'
  BY DEF Filled
<1>9. Phases'
  BY <1>3 DEF Phases, VsFlush, AccFlush, Repair
<1>10. Rebuilds'
  BY <1>3 DEF VsFlush, AccFlush, Repair, Inv, Rebuilds, Phases
<1> QED
  BY <1>4, <1>5, <1>6, <1>7, <1>8, <1>9, <1>10 DEF Inv

\* A store is never empty where a process of kind "running" or "open" is.
LEMMA FilledWhenKilled ==
    ASSUME Inv, pc # "down", job.kind \in {"running", "open"}, OnlyKilled
    PROVE  vsDisk.status # "empty" /\ accDisk.status # "empty"
BY Fields DEF Inv, Begun, Filled, Types

LEMMA CrashKeeps == Inv /\ Crash => Inv'
<1> SUFFICES ASSUME Inv, Crash PROVE Inv'
  OBVIOUS
<1>1. /\ faults' \in Seq(FaultKinds)
      /\ Len(faults') <= MaxFaults
      /\ OnlyKilled' => OnlyKilled /\ job.kind \in {"running", "open"}
      /\ Times = 2 => Times' = 2
  BY KilledMore DEF Inv, Types, Crash
<1>2. /\ tip' = tip /\ indexed' = indexed /\ vsDisk' = vsDisk
      /\ accDisk' = accDisk /\ Exit /\ pc # "down"
  BY DEF Crash, disk
<1>3. OnlyKilled' => vsDisk.status # "empty" /\ accDisk.status # "empty"
  BY <1>1, <1>2, FilledWhenKilled
<1>4. /\ accDisk' \in Stores
      /\ accDisk'.height <= tip
      /\ Ordered(1, accDisk'.applied, accDisk'.height)
      /\ OnlyKilled' /\ indexed /\ accDisk'.status = "consistent" =>
            accDisk'.applied = Upto(accDisk'.height)
  BY <1>1, <1>2 DEF Inv, Types, Begun, InOrder, Statuses
<1> QED
  BY <1>1, <1>2, <1>3, <1>4, ExitKeeps

LEMMA vsFlushErrorKeeps == Inv /\ vsFlushError => Inv'
<1> SUFFICES ASSUME Inv, vsFlushError PROVE Inv'
  OBVIOUS
<1>1. /\ faults' \in Seq(FaultKinds)
      /\ Len(faults') <= MaxFaults
      /\ ~OnlyKilled'
      /\ Times = 2 => Times' = 2
      /\ FirstFlushFailed => FirstFlushFailed'
      /\ job.kind = "genesis" => FirstFlushFailed'
  BY KilledMore DEF Inv, Types, vsFlushError
<1>2. /\ tip' = tip /\ indexed' = indexed /\ vsDisk' = vsDisk
      /\ accDisk' = accDisk /\ pc # "down" /\ pc \in VsFlush
  BY DEF vsFlushError, disk, VsFlush
<1>3. CASE job.after = "accCommit"
  <2>1. pc' = "accCommit" /\ mem' = mem /\ job' = job
    BY <1>3 DEF vsFlushError
  <2>2. Types'
    BY <1>1, <1>2, <2>1 DEF Inv, Types, Places
  <2>3. Begun'
    BY <1>2, <2>1 DEF Inv, Begun, VsFlush
  <2> DEFINE t == Times'
             d == vsDisk.applied
             v == mem.vs
  <2>0. /\ Ordered(t, d, vsDisk.height)
        /\ Ordered(t, v, tip)
        /\ Ordered(t, v, job.height)
    BY <1>1, <1>2, OrderedWeaker DEF Inv, InOrder, Phases, Good
  <2>4. InOrder'
    BY <1>1, <1>2, <2>1, <2>0 DEF Inv, InOrder
  <2>5. Statuses'
    BY <1>1, <2>1 DEF Statuses, Repair
  <2>6. Filled'
    BY <1>1 DEF Filled
  <2>7. Phases'
    BY <1>1, <1>2, <1>3, <2>1, <2>0 DEF Inv, Phases, Good, Connecting, VsFlush,
                                        AccFlush, Repair
  <2>8. Rebuilds'
    BY <1>1, <1>2, <1>3, <2>1
    DEF Inv, VsFlush, AccFlush, Repair, Rebuilds, Phases
  <2> QED
    BY <2>2, <2>3, <2>4, <2>5, <2>6, <2>7, <2>8 DEF Inv
<1>4. CASE job.after # "accCommit"
  <2>1. Exit
    BY <1>4 DEF vsFlushError
  <2>2. accDisk' \in Stores /\ accDisk'.height <= tip
        /\ Ordered(1, accDisk'.applied, accDisk'.height)
    BY <1>2 DEF Inv, Types, Begun, InOrder
  <2> QED
    BY <1>1, <1>2, <2>1, <2>2, ExitKeeps
<1> QED
  BY <1>3, <1>4

-----------------------------------------------------------------------------
(* The flush of the accumulator.                                           *)

LEMMA accCommitKeeps ==
    ASSUME NEW flush \in BOOLEAN, Inv, accCommit(flush)
    PROVE  Inv'
<1>1. /\ OnlyKilled' = OnlyKilled /\ FirstFlushFailed' = FirstFlushFailed
      /\ Times' = Times
  BY KilledSame DEF accCommit, env
<1>2. /\ tip' = tip /\ indexed' = indexed /\ vsDisk' = vsDisk
      /\ accDisk' = accDisk /\ job' = job /\ faults' = faults
      /\ pc = "accCommit"
  BY DEF accCommit, disk, env
<1>3. CASE flush \/ ~mem.accFlushed
  <2>1. pc' = "accOngoing" /\ mem' = mem
    BY <1>3 DEF accCommit
  <2>2. Types'
    BY <1>2, <2>1 DEF Inv, Types, Places, AccFlush
  <2>3. Begun' /\ InOrder'
    BY <1>1, <1>2, <2>1 DEF Inv, Begun, InOrder
  <2>4. Statuses'
    BY <1>1, <1>2, <2>1 DEF Inv, Statuses, Repair
  <2>5. Filled'
    BY <1>1, <1>2, <2>1 DEF Inv, Filled, VsFlush
  <2>6. Phases'
    BY <1>1, <1>2, <2>1 DEF Inv, Phases, Good, Connecting, VsFlush,
                            AccFlush, Repair
  <2>7. Rebuilds'
    BY <1>1, <1>2, <2>1
    DEF Inv, Connecting, VsFlush, AccFlush, Repair, Rebuilds, Phases
  <2> QED
    BY <2>2, <2>3, <2>4, <2>5, <2>6, <2>7 DEF Inv
<1>4. CASE ~flush /\ mem.accFlushed
  <2>1. job.kind = "running" /\ job.after = "accCommit"
    BY <1>2, <1>4 DEF Inv, Phases, Connecting
  <2>2. pc' = "ready" /\ mem' = [mem EXCEPT !.acc = job.acc]
    BY <1>4, <2>1 DEF accCommit, AfterAcc
  <2>3. /\ mem' \in Memories
        /\ mem'.tip = mem.tip /\ mem'.vs = mem.vs /\ mem'.acc = job.acc
    BY <2>2, Fields DEF Inv, Types, Memories
  <2>4. Types'
    BY <1>2, <2>2, <2>3 DEF Inv, Types, Places
  <2>5. Begun' /\ InOrder'
    BY <1>1, <1>2, <2>2, <2>3 DEF Inv, Begun, InOrder
  <2>6. Statuses'
    BY <1>1, <1>2, <2>2 DEF Inv, Statuses, Repair
  <2>7. Filled'
    BY <1>1, <1>2, <2>1, <2>2 DEF Inv, Filled
  <2>8. Phases'
    BY <1>1, <1>2, <2>2, <2>3 DEF Inv, Phases, Good, VsFlush, AccFlush, Repair
  <2>9. Rebuilds'
    BY <1>1, <1>2, <2>2, <2>3
    DEF Inv, VsFlush, AccFlush, Repair, Rebuilds, Phases
  <2> QED
    BY <2>4, <2>5, <2>6, <2>7, <2>8, <2>9 DEF Inv
<1> QED
  BY <1>3, <1>4, Fields DEF Inv

LEMMA accFlushOngoingKeeps == Inv /\ accFlushOngoing => Inv'
<1> SUFFICES ASSUME Inv, accFlushOngoing PROVE Inv'
  OBVIOUS
<1>1. /\ OnlyKilled' = OnlyKilled /\ FirstFlushFailed' = FirstFlushFailed
      /\ Times' = Times
  BY KilledSame DEF accFlushOngoing, env
<1>2. /\ accDisk' \in Stores
      /\ accDisk'.status = "ongoing"
      /\ accDisk'.height = accDisk.height
      /\ accDisk'.applied = accDisk.applied
  BY DEF Inv, Types, accFlushOngoing, Stores
<1>3. Types'
  BY <1>2 DEF Inv, Types, accFlushOngoing, env, Places, AccFlush
<1>4. Begun' /\ InOrder'
  BY <1>1, <1>2 DEF Inv, Begun, InOrder, accFlushOngoing
<1>5. Statuses'
  BY <1>1, <1>2 DEF Inv, Statuses, accFlushOngoing, Repair
<1>6. Filled'
  BY <1>1, <1>2 DEF Inv, Filled, accFlushOngoing
<1>7. Phases'
  BY <1>1 DEF Inv, Phases, Good, accFlushOngoing, VsFlush, AccFlush, Repair
<1>8. Rebuilds'
  BY <1>1 DEF Inv, accFlushOngoing, VsFlush, AccFlush, Repair, Rebuilds, Phases
<1> QED
  BY <1>3, <1>4, <1>5, <1>6, <1>7, <1>8 DEF Inv

LEMMA accFlushDataKeeps == Inv /\ accFlushData => Inv'
<1> SUFFICES ASSUME Inv, accFlushData PROVE Inv'
  OBVIOUS
<1>1. /\ OnlyKilled' = OnlyKilled /\ FirstFlushFailed' = FirstFlushFailed
      /\ Times' = Times
  BY KilledSame DEF accFlushData, env
<1>2. /\ accDisk' \in Stores
      /\ accDisk'.status = accDisk.status
      /\ accDisk'.height = job.height
      /\ accDisk'.applied = job.acc
  <2>1. job.height \in Nat /\ job.acc \in Seq(Nat) /\ accDisk \in Stores
    BY Fields DEF Inv, Types
  <2> QED
    BY <2>1 DEF accFlushData, Stores
<1>3. Types'
  BY <1>2 DEF Inv, Types, accFlushData, env, Places, AccFlush
<1>4. Begun'
  BY <1>2 DEF Inv, Begun, accFlushData
<1>5. InOrder'
  <2>1. job.height = tip /\ Ordered(1, job.acc, tip) /\ tip \in Int
    BY Fields DEF Inv, Phases, Good, AccFlush, accFlushData
  <2> QED
    BY <1>1, <1>2, <2>1 DEF Inv, InOrder, accFlushData
<1>6. Statuses'
  BY <1>1, <1>2 DEF Inv, Statuses, Phases, Good, AccFlush, accFlushData, Repair
<1>7. Filled'
  BY <1>1, <1>2 DEF Inv, Filled, VsFlush, accFlushData
<1>8. Phases'
  BY <1>1 DEF Inv, Phases, Good, accFlushData, VsFlush, AccFlush, Repair
<1>9. Rebuilds'
  BY <1>1 DEF Inv, accFlushData, VsFlush, AccFlush, Repair, Rebuilds, Phases
<1> QED
  BY <1>3, <1>4, <1>5, <1>6, <1>7, <1>8, <1>9 DEF Inv

LEMMA accFlushConsistentKeeps == Inv /\ accFlushConsistent => Inv'
<1> SUFFICES ASSUME Inv, accFlushConsistent PROVE Inv'
  OBVIOUS
<1>1. /\ OnlyKilled' = OnlyKilled /\ FirstFlushFailed' = FirstFlushFailed
      /\ Times' = Times
  BY KilledSame DEF accFlushConsistent, env
<1>2. /\ accDisk' \in Stores
      /\ accDisk'.status = "consistent"
      /\ accDisk'.height = accDisk.height
      /\ accDisk'.applied = accDisk.applied
  BY DEF Inv, Types, accFlushConsistent, Stores
<1>3. /\ tip' = tip /\ indexed' = indexed /\ vsDisk' = vsDisk
      /\ faults' = faults /\ pc = "accConsistent"
  BY DEF accFlushConsistent, env
<1>4. /\ job.after \in {"accCommit", "exit", "vsInit"}
      /\ Good(OnlyKilled, 1, job.acc, tip)
      /\ job.after = "accCommit" =>
            /\ Good(OnlyKilled, Times, mem.vs, tip)
            /\ job.kind \in {"running", "genesis"}
      /\ job.after = "vsInit" => job.kind = "open"
  BY <1>3 DEF Inv, Phases, AccFlush
<1>5. CASE job.after = "exit"
  <2>1. Exit
    BY <1>5 DEF accFlushConsistent, AfterAcc
  <2>2. OnlyKilled' => OnlyKilled /\ vsDisk.status # "empty"
    BY <1>1, <1>3, Fields DEF Inv, Begun, Filled, Types
  <2>3. accDisk'.height <= tip /\ Ordered(1, accDisk'.applied, accDisk'.height)
    BY <1>2, <1>3 DEF Inv, Types, Begun, InOrder
  <2>4. OnlyKilled' => accDisk'.applied = Upto(accDisk'.height)
    BY <1>1, <1>2, <1>3 DEF Inv, Statuses
  <2>5. faults' \in Seq(FaultKinds) /\ Len(faults') <= MaxFaults
    BY <1>3 DEF Inv, Types
  <2> QED
    BY <1>1, <1>2, <1>3, <2>1, <2>2, <2>3, <2>4, <2>5, ExitKeeps
<1>6. CASE job.after # "exit"
  <2>1. /\ pc' = IF job.kind = "running" THEN "ready" ELSE "vsInit"
        /\ mem' = [mem EXCEPT !.acc = job.acc, !.accFlushed = TRUE]
        /\ job' = job
    BY <1>6 DEF accFlushConsistent, AfterAcc
  <2>2. /\ mem' \in Memories
        /\ mem'.tip = mem.tip /\ mem'.vs = mem.vs /\ mem'.acc = job.acc
    <3>1. mem \in Memories /\ job.acc \in Seq(Nat)
      BY Fields DEF Inv, Types
    <3> QED
      BY <3>1, <2>1 DEF Memories
  <2>3. Types'
    BY <1>2, <1>3, <2>1, <2>2 DEF Inv, Types, Places
  <2>4. Begun' /\ InOrder'
    BY <1>1, <1>2, <1>3, <2>1, <2>2 DEF Inv, Begun, InOrder
  <2>5. Statuses'
    BY <1>1, <1>2, <1>3, <2>1 DEF Inv, Statuses, Repair
  <2>6. Filled'
    BY <1>1, <1>2, <1>3, <2>1 DEF Inv, Filled
  <2>7. Phases'
    BY <1>1, <1>3, <1>4, <1>6, <2>1, <2>2 DEF Phases, Good, VsFlush, AccFlush,
                                              Repair
  <2>8. Rebuilds'
    BY <1>1, <1>3, <1>4, <1>6, <2>1, <2>2
    DEF VsFlush, AccFlush, Repair, Inv, Rebuilds, Phases
  <2> QED
    BY <2>3, <2>4, <2>5, <2>6, <2>7, <2>8 DEF Inv
<1> QED
  BY <1>5, <1>6

LEMMA accFlushErrorKeeps == Inv /\ accFlushError => Inv'
<1> SUFFICES ASSUME Inv, accFlushError PROVE Inv'
  OBVIOUS
<1>1. /\ faults' \in Seq(FaultKinds)
      /\ Len(faults') <= MaxFaults
      /\ ~OnlyKilled'
      /\ Times = 2 => Times' = 2
      /\ FirstFlushFailed => FirstFlushFailed'
  BY KilledMore DEF Inv, Types, accFlushError
<1>2. /\ tip' = tip /\ indexed' = indexed /\ vsDisk' = vsDisk
      /\ accDisk' = accDisk /\ pc # "down" /\ pc \in AccFlush
  BY DEF accFlushError, disk, AccFlush
<1>3. CASE job.after = "accCommit"
  <2>1. /\ pc' = IF job.kind = "running" THEN "ready" ELSE "vsInit"
        /\ mem' = mem /\ job' = job
    BY <1>3 DEF accFlushError, AfterAcc
  <2>2. Types'
    BY <1>1, <1>2, <2>1 DEF Inv, Types, Places
  <2> DEFINE t == Times'
             d == vsDisk.applied
             v == mem.vs
  <2>0. /\ Ordered(t, d, vsDisk.height)
        /\ Ordered(t, v, tip)
    BY <1>1, <1>2, OrderedWeaker DEF Inv, InOrder
  <2>3. Begun' /\ InOrder'
    BY <1>1, <1>2, <2>1, <2>0 DEF Inv, Begun, InOrder, AccFlush
  <2>4. Statuses' /\ Filled'
    BY <1>1, <2>1 DEF Statuses, Filled, Repair
  <2>5. Phases'
    BY <1>1, <1>2, <2>1, <2>0 DEF Inv, InOrder, Phases, Good, VsFlush, AccFlush,
                                  Repair
  <2>6. Rebuilds'
    BY <1>1, <1>2, <1>3, <2>1, Fields
    DEF Inv, CrashKinds, VsFlush, AccFlush, Repair, Rebuilds, Phases
  <2> QED
    BY <2>2, <2>3, <2>4, <2>5, <2>6 DEF Inv
<1>4. CASE job.after # "accCommit"
  <2>1. Exit
    BY <1>4 DEF accFlushError
  <2>2. accDisk' \in Stores /\ accDisk'.height <= tip
        /\ Ordered(1, accDisk'.applied, accDisk'.height)
    BY <1>2 DEF Inv, Types, Begun, InOrder
  <2> QED
    BY <1>1, <1>2, <2>1, <2>2, ExitKeeps
<1> QED
  BY <1>3, <1>4

-----------------------------------------------------------------------------
(* A block is connected.                                                   *)

\* What both ways to connect a block have in common: the memory m they start
\* from is that of the chain on disk, whose tip is m.tip.
LEMMA ConnectedKeeps ==
    ASSUME NEW kind \in {"running", "genesis"}, NEW m \in Memories,
           NEW flush \in BOOLEAN, Inv, Connected(kind, m, flush),
           m.tip = tip, tip < MaxHeight,
           Good(OnlyKilled, Times, m.vs, tip), Good(OnlyKilled, 1, m.acc, tip),
           kind = "genesis" => /\ ~m.vsFlushed /\ ~m.accFlushed
                               /\ m.vs = <<>> /\ tip = -1,
           kind = "running" /\ OnlyKilled =>
               vsDisk.status # "empty" /\ accDisk.status # "empty",
           indexed \/ tip = -1
    PROVE  Inv'
<1>1. /\ OnlyKilled' = OnlyKilled /\ FirstFlushFailed' = FirstFlushFailed
      /\ Times' = Times
  BY KilledSame DEF Connected, env
<1> DEFINE h == tip + 1
<1>2. /\ m.vs \in Seq(Nat) /\ m.acc \in Seq(Nat) /\ m.vsFlushed \in BOOLEAN
      /\ tip \in Int /\ tip >= -1 /\ h \in Nat /\ h \in -1..MaxHeight
  BY ChainStateAssumption DEF Memories, Inv, Types
<1>3. /\ tip' = h /\ indexed' = TRUE
      /\ mem' = [m EXCEPT !.tip = h, !.vs = Append(m.vs, h)]
      /\ job' = [kind |-> kind, height |-> h, acc |-> Append(m.acc, h),
                 after |-> "accCommit"]
      /\ pc' = IF flush \/ ~m.vsFlushed THEN "vsOngoing" ELSE "accCommit"
      /\ vsDisk' = vsDisk /\ accDisk' = accDisk /\ faults' = faults
  BY DEF Connected, env
<1>4. /\ Append(m.vs, h) \in Seq(Nat) /\ Append(m.acc, h) \in Seq(Nat)
      /\ Good(OnlyKilled, Times, Append(m.vs, h), h)
      /\ Good(OnlyKilled, 1, Append(m.acc, h), h)
  <2>1. Append(m.vs, h) \in Seq(Nat) /\ Append(m.acc, h) \in Seq(Nat)
    BY <1>2, AppendProperties
  <2>2. Ordered(Times, Append(m.vs, h), h) /\ Ordered(1, Append(m.acc, h), h)
    BY <1>2, OrderedAppend DEF Good
  <2>3. Append(Upto(tip), h) = Upto(h)
    BY <1>2, UptoAppend
  <2> QED
    BY <2>1, <2>2, <2>3 DEF Good
<1>5. Ordered(1, m.acc, h)
  BY <1>2, OrderedMore DEF Good
<1> HIDE DEF h
<1>6. /\ mem' \in Memories /\ mem'.tip = h /\ mem'.vs = Append(m.vs, h)
      /\ mem'.acc = m.acc /\ mem'.accFlushed = m.accFlushed
  BY <1>2, <1>3, <1>4 DEF Memories
<1>7. /\ job' \in Jobs /\ job'.kind = kind /\ job'.height = h
      /\ job'.acc = Append(m.acc, h) /\ job'.after = "accCommit"
  BY <1>2, <1>3, <1>4 DEF Jobs, CrashKinds, Afters
<1>8. Types'
  BY <1>2, <1>3, <1>6, <1>7 DEF Inv, Types, Places, VsFlush
<1>9. h = tip + 1
  BY DEF h
<1>10. Begun'
  BY <1>2, <1>3, <1>6, <1>9 DEF Begun
<1>11. InOrder'
  <2>1. vsDisk.height <= h /\ accDisk.height <= h
    <3>1. CASE tip = -1
      BY <3>1, <1>9 DEF Inv, Begun, EmptyStore
    <3>2. CASE tip # -1
      BY <3>2, <1>2, <1>9, Fields DEF Inv, InOrder
    <3> QED
      BY <3>1, <3>2
  <2> QED
    BY <2>1, <1>1, <1>3, <1>4, <1>5, <1>6, <1>7 DEF Inv, InOrder, Good
<1>12. Statuses'
  <2>1. CASE tip = -1
    BY <2>1, <1>3 DEF Inv, Begun, EmptyStore, Statuses, Repair
  <2>2. CASE tip # -1
    BY <2>2, <1>1, <1>3 DEF Inv, Statuses, Repair
  <2> QED
    BY <2>1, <2>2
<1>13. Filled'
  BY <1>1, <1>3, <1>7 DEF Filled, VsFlush
<1>14. Phases'
  BY <1>1, <1>2, <1>3, <1>4, <1>6, <1>7 DEF Phases, Good, Connecting, VsFlush,
                                            AccFlush, Repair
<1>15. Rebuilds'
  <2>1. kind = "genesis" => pc' = "vsOngoing" /\ mem'.vs = <<0>>
    <3>1. ASSUME kind = "genesis" PROVE Append(m.vs, h) = <<0>>
      <4>1. m.vs = <<>> /\ h = 0
        BY <3>1 DEF h
      <4>2. Append(<<>>, 0) = <<0>>
        OBVIOUS
      <4> QED
        BY <4>1, <4>2
    <3> QED
      BY <3>1, <1>3, <1>6
  <2> QED
    BY <1>3, <1>7, <2>1 DEF Rebuilds, VsFlush, AccFlush, Repair
<1> QED
  BY <1>8, <1>10, <1>11, <1>12, <1>13, <1>14, <1>15 DEF Inv

LEMMA ConnectBlockKeeps ==
    ASSUME NEW flush \in BOOLEAN, Inv, ConnectBlock(flush)
    PROVE  Inv'
<1>1. pc = "ready" /\ mem.tip < MaxHeight /\ Connected("running", mem, flush)
  BY DEF ConnectBlock
<1>2. mem \in Memories /\ mem.tip = tip /\ indexed /\ tip \in Int /\ tip >= 0
  BY <1>1, Fields DEF Inv, Types, Begun
<1>3. Good(OnlyKilled, Times, mem.vs, tip) /\ Good(OnlyKilled, 1, mem.acc, tip)
  BY <1>1 DEF Inv, Phases
<1>4. OnlyKilled => vsDisk.status # "empty" /\ accDisk.status # "empty"
  BY <1>1, <1>2 DEF Inv, Filled, VsFlush
<1> QED
  BY <1>1, <1>2, <1>3, <1>4, ConnectedKeeps

LEMMA GenesisKeeps == Inv /\ Genesis => Inv'
<1> SUFFICES ASSUME Inv, Genesis PROVE Inv'
  OBVIOUS
<1>1. Connected("genesis", NoMemory, FALSE) /\ tip = -1
  BY DEF Genesis
<1>2. /\ NoMemory \in Memories /\ NoMemory.tip = -1
      /\ ~NoMemory.vsFlushed /\ ~NoMemory.accFlushed
      /\ NoMemory.vs = <<>> /\ NoMemory.acc = <<>>
  BY ChainStateAssumption DEF NoMemory, Memories
<1>3. Good(OnlyKilled, Times, <<>>, tip) /\ Good(OnlyKilled, 1, <<>>, tip)
  BY <1>1, OrderedEmpty, UptoEmpty DEF Good
<1>4. tip < MaxHeight
  BY <1>1, ChainStateAssumption
<1> QED
  BY <1>1, <1>2, <1>3, <1>4, ConnectedKeeps

LEMMA CloseKeeps == Inv /\ Close => Inv'
<1> SUFFICES ASSUME Inv, Close PROVE Inv'
  OBVIOUS
<1>1. /\ OnlyKilled' = OnlyKilled /\ FirstFlushFailed' = FirstFlushFailed
      /\ Times' = Times
  BY KilledSame DEF Close, env
<1>2. /\ tip' = tip /\ indexed' = indexed /\ vsDisk' = vsDisk
      /\ accDisk' = accDisk /\ mem' = mem /\ faults' = faults
      /\ pc = "ready" /\ pc' = "vsOngoing"
  BY DEF Close, disk, env
<1>3. mem.tip = tip /\ tip \in Nat /\ mem.acc \in Seq(Nat)
  BY <1>2, Fields DEF Inv, Types, Begun
<1>4. /\ job' \in Jobs /\ job'.kind = "running" /\ job'.height = tip
      /\ job'.acc = mem.acc /\ job'.after = "close"
  BY <1>3 DEF Close, Jobs, CrashKinds, Afters
<1>5. Types'
  BY <1>2, <1>4 DEF Inv, Types, Places, VsFlush
<1>6. Begun' /\ InOrder'
  BY <1>1, <1>2, <1>4 DEF Inv, Begun, InOrder
<1>7. Statuses'
  BY <1>1, <1>2 DEF Inv, Statuses, Repair
<1>8. Filled'
  BY <1>1, <1>2 DEF Inv, Filled, VsFlush
<1>9. Phases'
  BY <1>1, <1>2, <1>3, <1>4 DEF Inv, Phases, Good, VsFlush, AccFlush, Repair
<1>10. Rebuilds'
  BY <1>1, <1>2, <1>3, <1>4 DEF Inv, VsFlush, AccFlush, Repair, Rebuilds, Phases
<1> QED
  BY <1>5, <1>6, <1>7, <1>8, <1>9, <1>10 DEF Inv

LEMMA CloseAccKeeps == Inv /\ CloseAcc => Inv'
<1> SUFFICES ASSUME Inv, CloseAcc PROVE Inv'
  OBVIOUS
<1>1. /\ OnlyKilled' = OnlyKilled /\ FirstFlushFailed' = FirstFlushFailed
      /\ Times' = Times
  BY KilledSame DEF CloseAcc, env
<1>2. /\ tip' = tip /\ indexed' = indexed /\ vsDisk' = vsDisk
      /\ accDisk' = accDisk /\ mem' = mem /\ faults' = faults
      /\ pc = "close" /\ pc' = "accOngoing"
  BY DEF CloseAcc, disk, env
<1>3. /\ job' \in Jobs /\ job'.kind = job.kind /\ job'.height = job.height
      /\ job'.acc = job.acc /\ job'.after = "exit"
  BY DEF Inv, Types, CloseAcc, Jobs, Afters
<1>4. Types'
  BY <1>2, <1>3 DEF Inv, Types, Places, AccFlush
<1>5. Begun' /\ InOrder'
  BY <1>1, <1>2, <1>3 DEF Inv, Begun, InOrder
<1>6. Statuses'
  BY <1>1, <1>2 DEF Inv, Statuses, Repair
<1>7. Filled'
  BY <1>1, <1>2 DEF Inv, Filled, VsFlush
<1>8. Phases'
  BY <1>1, <1>2, <1>3 DEF Inv, Phases, Good, VsFlush, AccFlush, Repair
<1>9. Rebuilds'
  BY <1>1, <1>2, <1>3 DEF Inv, VsFlush, AccFlush, Repair, Rebuilds, Phases
<1> QED
  BY <1>4, <1>5, <1>6, <1>7, <1>8, <1>9 DEF Inv

-----------------------------------------------------------------------------
(* A start on an existing database.                                        *)

LEMMA OpenKeeps == Inv /\ Open => Inv'
<1> SUFFICES ASSUME Inv, Open PROVE Inv'
  OBVIOUS
<1>1. /\ OnlyKilled' = OnlyKilled /\ FirstFlushFailed' = FirstFlushFailed
      /\ Times' = Times
  BY KilledSame DEF Open, env
<1>2. /\ tip' = tip /\ indexed' = indexed /\ vsDisk' = vsDisk
      /\ accDisk' = accDisk /\ faults' = faults
      /\ pc = "down" /\ tip >= 0 /\ tip \in Nat
  BY ChainStateAssumption DEF Inv, Types, Open, disk, env
<1>3. vsDisk.height <= tip /\ accDisk.height <= tip
  BY <1>2 DEF Inv, InOrder
<1>4. accDisk.height \in Nat /\ accDisk.status \in {"empty", "ongoing", "consistent"}
      /\ indexed \in BOOLEAN
  BY Fields DEF Inv, Types
<1> DEFINE bad == ~indexed \/ accDisk.status = "ongoing"
                    \/ (accDisk.status = "consistent" /\ accDisk.height > tip)
<1>5. CASE bad
  <2>1. pc' = "fatal" /\ mem' = mem /\ job' = job
    BY <1>5 DEF Open
  <2>2. indexed => accDisk.status = "ongoing"
    BY <1>2, <1>3, <1>4, <1>5
  <2>3. Types'
    BY <1>2, <2>1 DEF Inv, Types, Places
  <2>4. Begun' /\ InOrder'
    BY <1>1, <1>2, <2>1, <2>2 DEF Inv, Begun, InOrder
  <2>5. Statuses'
    BY <1>1, <1>2, <2>1 DEF Inv, Statuses, Repair
  <2>6. Filled'
    BY <1>1, <1>2, <2>1 DEF Inv, Filled, VsFlush
  <2>7. Phases'
    BY <2>1 DEF Phases, VsFlush, AccFlush, Repair
  <2>8. Rebuilds'
    BY <2>1 DEF VsFlush, AccFlush, Repair, Inv, Rebuilds, Phases
  <2> QED
    BY <2>3, <2>4, <2>5, <2>6, <2>7, <2>8 DEF Inv
<1>6. CASE ~bad
  <2> DEFINE acc == IF accDisk.status = "empty" THEN <<>>
                    ELSE Rolled(accDisk.applied, accDisk.height, tip)
  <2>1. /\ indexed /\ accDisk.status \in {"empty", "consistent"}
        /\ mem' = [NoMemory EXCEPT !.tip = tip, !.acc = acc,
                     !.accFlushed = accDisk.status = "consistent"]
        /\ job' = [kind |-> "open", height |-> tip, acc |-> acc,
                   after |-> "vsInit"]
        /\ pc' \in {"accOngoing", "vsInit"}
    BY <1>4, <1>6 DEF Open
  <2>2. OnlyKilled => /\ vsDisk.status # "empty" /\ accDisk.status # "empty"
                      /\ accDisk.applied = Upto(accDisk.height)
    BY <1>2, <2>1 DEF Inv, Filled, Statuses, VsFlush
  <2>3. Good(OnlyKilled, 1, acc, tip)
    <3>1. CASE accDisk.status = "empty"
      BY <3>1, <2>2, OrderedEmpty DEF Good
    <3>2. CASE accDisk.status # "empty"
      <4>1. Ordered(1, acc, tip)
        BY <3>2, <1>2, <1>3, <1>4, OrderedRolled DEF Inv, InOrder
      <4>2. OnlyKilled => acc = Upto(tip)
        BY <3>2, <1>2, <1>3, <1>4, <2>2, RolledUpto
      <4> QED
        BY <4>1, <4>2 DEF Good
    <3> QED
      BY <3>1, <3>2
  <2>4. acc \in Seq(Nat)
    BY <2>3 DEF Good, Ordered
  <2> HIDE DEF acc
  <2>5. tip \in -1..MaxHeight
    BY DEF Inv, Types
  <2>6. /\ mem' \in Memories /\ mem'.tip = tip
        /\ mem'.vs = <<>> /\ mem'.acc = acc
    <3> DEFINE f == accDisk.status = "consistent"
    <3>1. f \in BOOLEAN
      OBVIOUS
    <3>2. mem' = [NoMemory EXCEPT !.tip = tip, !.acc = acc, !.accFlushed = f]
      BY <2>1
    <3> HIDE DEF f
    <3>3. mem' = [tip |-> tip, vs |-> <<>>, acc |-> acc, vsFlushed |-> FALSE,
                  accFlushed |-> f]
      BY <3>2 DEF NoMemory
    <3>4. <<>> \in Seq(Nat)
      OBVIOUS
    <3> QED
      BY <2>4, <2>5, <3>1, <3>3, <3>4 DEF Memories
  <2>7. /\ job' \in Jobs /\ job'.kind = "open" /\ job'.height = tip
        /\ job'.acc = acc /\ job'.after = "vsInit"
    BY <1>2, <2>1, <2>4 DEF Jobs, CrashKinds, Afters
  <2>8. Types'
    BY <1>2, <2>1, <2>6, <2>7 DEF Inv, Types, Places, AccFlush
  <2>9. Begun'
    BY <1>2, <2>1, <2>6 DEF Begun
  <2>10. InOrder'
    BY <1>1, <1>2, <2>3, <2>6, <2>7, OrderedEmpty DEF Inv, InOrder, Good
  <2>11. Statuses'
    BY <1>1, <1>2, <2>1 DEF Inv, Statuses, Repair
  <2>12. Filled'
    BY <1>1, <1>2, <2>2 DEF Filled
  <2>13. Phases'
    BY <1>1, <1>2, <2>1, <2>3, <2>6, <2>7 DEF Phases, VsFlush, AccFlush, Repair
  <2>14. Rebuilds'
    BY <1>1, <1>2, <2>1, <2>3, <2>6, <2>7
    DEF VsFlush, AccFlush, Repair, Inv, Rebuilds, Phases
  <2> QED
    BY <2>8, <2>9, <2>10, <2>11, <2>12, <2>13, <2>14 DEF Inv
<1> QED
  BY <1>5, <1>6

LEMMA vsInitKeeps == Inv /\ vsInit => Inv'
<1> SUFFICES ASSUME Inv, vsInit PROVE Inv'
  OBVIOUS
<1>1. /\ OnlyKilled' = OnlyKilled /\ FirstFlushFailed' = FirstFlushFailed
      /\ Times' = Times
  BY KilledSame DEF vsInit, env
<1>2. /\ tip' = tip /\ indexed' = indexed /\ vsDisk' = vsDisk
      /\ accDisk' = accDisk /\ faults' = faults /\ pc = "vsInit"
  BY DEF vsInit, disk, env
<1>3. /\ tip >= 0 /\ tip \in Nat /\ vsDisk.height <= tip /\ vsDisk.height \in Nat
      /\ vsDisk.applied \in Seq(Nat) /\ indexed
  BY <1>2, Fields DEF Inv, Types, Begun, InOrder
<1>4. /\ Good(OnlyKilled, 1, mem.acc, tip)
      /\ OnlyKilled => vsDisk.status # "empty" /\ accDisk.status # "empty"
  BY <1>2, <1>3 DEF Inv, Phases, Filled, VsFlush
<1>5. /\ Idle \in Jobs /\ Idle.acc = <<>> /\ Idle.kind = "running"
  BY DEF Idle, Jobs, CrashKinds, Afters
<1>6. CASE vsDisk.status = "empty"
  <2>1. pc' = "ready" /\ job' = Idle /\ mem' = mem
    BY <1>6 DEF vsInit
  <2>2. Types'
    BY <1>2, <1>5, <2>1 DEF Inv, Types, Places
  <2>3. Begun' /\ InOrder'
    BY <1>1, <1>2, <1>5, <2>1, OrderedEmpty DEF Inv, Begun, InOrder
  <2>4. Statuses' /\ Filled'
    BY <1>1, <1>2, <1>4, <1>6, <2>1 DEF Inv, Statuses, Filled, Repair
  <2>5. Phases'
    BY <1>1, <1>2, <1>4, <1>6, <2>1 DEF Inv, InOrder, Phases, Good, VsFlush,
                                        AccFlush, Repair
  <2>6. Rebuilds'
    BY <1>1, <1>2, <1>4, <1>6, <2>1
    DEF Inv, VsFlush, AccFlush, Repair, Rebuilds, Phases
  <2> QED
    BY <2>2, <2>3, <2>4, <2>5, <2>6 DEF Inv
<1>7. CASE vsDisk.status = "ongoing"
  <2>1. pc' = "vsWipe" /\ mem' = mem /\ job' = [job EXCEPT !.kind = "repair"]
    BY <1>7 DEF vsInit
  <2>2. /\ job' \in Jobs /\ job'.kind = "repair" /\ job'.acc = job.acc
    BY <2>1 DEF Inv, Types, Jobs, CrashKinds
  <2>3. Types'
    BY <1>2, <2>1, <2>2 DEF Inv, Types, Places, Repair
  <2>4. Begun' /\ InOrder'
    BY <1>1, <1>2, <2>1, <2>2 DEF Inv, Begun, InOrder
  <2>5. Statuses' /\ Filled'
    BY <1>1, <1>2, <1>4, <1>7, <2>1 DEF Inv, Statuses, Filled
  <2>6. Phases'
    BY <1>1, <1>2, <1>4, <2>1, <2>2 DEF Phases, VsFlush, AccFlush, Repair
  <2>7. Rebuilds'
    BY <1>1, <1>2, <1>7, <2>1, <2>2 DEF VsFlush, AccFlush, Repair, Inv, Rebuilds
  <2> QED
    BY <2>3, <2>4, <2>5, <2>6, <2>7 DEF Inv
<1>8. CASE vsDisk.status = "consistent"
  <2>1. /\ mem' = [mem EXCEPT !.vs = vsDisk.applied]
        /\ \/ vsDisk.height = tip /\ pc' = "ready" /\ job' = Idle
           \/ /\ vsDisk.height < tip /\ pc' = "vsRoll"
              /\ job' = [job EXCEPT !.height = vsDisk.height]
    BY <1>3, <1>8 DEF vsInit
  <2>2. /\ mem' \in Memories /\ mem'.tip = mem.tip /\ mem'.acc = mem.acc
        /\ mem'.vs = vsDisk.applied
    BY <1>3, <2>1 DEF Inv, Types, Memories
  <2>3. Good(OnlyKilled, Times, vsDisk.applied, vsDisk.height)
    BY <1>3, <1>8 DEF Inv, InOrder, Statuses, Good
  <2>4. Ordered(Times, vsDisk.applied, tip)
    BY <1>3, <2>3, OrderedMore DEF Good
  <2>5. CASE vsDisk.height = tip
    <3>1. pc' = "ready" /\ job' = Idle
      BY <2>5, <2>1, <1>3
    <3>2. Types'
      BY <1>2, <1>5, <2>2, <3>1 DEF Inv, Types, Places
    <3>3. Begun' /\ InOrder'
      BY <1>1, <1>2, <1>5, <2>2, <2>4, <3>1, OrderedEmpty
      DEF Inv, Begun, InOrder
    <3>4. Statuses' /\ Filled'
      BY <1>1, <1>2, <1>4, <3>1 DEF Inv, Statuses, Filled, Repair
    <3>5. Phases'
      BY <1>1, <1>2, <1>4, <2>2, <2>3, <2>5, <3>1 DEF Phases, VsFlush,
                                                      AccFlush, Repair
    <3>6. Rebuilds'
      BY <1>1, <1>2, <1>4, <2>2, <2>3, <2>5, <3>1
      DEF VsFlush, AccFlush, Repair, Inv, Rebuilds, Phases
    <3> QED
      BY <3>2, <3>3, <3>4, <3>5, <3>6 DEF Inv
  <2>6. CASE vsDisk.height < tip
    <3>1. pc' = "vsRoll" /\ job' = [job EXCEPT !.height = vsDisk.height]
      BY <2>6, <2>1, <1>3
    <3>2. /\ job' \in Jobs /\ job'.acc = job.acc /\ job'.height = vsDisk.height
      BY <1>3, <3>1 DEF Inv, Types, Jobs
    <3>3. Types'
      BY <1>2, <2>2, <3>1, <3>2 DEF Inv, Types, Places
    <3>4. Begun' /\ InOrder'
      BY <1>1, <1>2, <2>2, <2>4, <3>1, <3>2 DEF Inv, Begun, InOrder
    <3>5. Statuses' /\ Filled'
      BY <1>1, <1>2, <1>4, <3>1 DEF Inv, Statuses, Filled, Repair
    <3>6. Phases'
      BY <1>1, <1>2, <1>4, <2>2, <2>3, <2>6, <3>1, <3>2
      DEF Phases, VsFlush, AccFlush, Repair
    <3>7. Rebuilds'
      BY <1>1, <1>2, <1>4, <2>2, <2>3, <2>6, <3>1, <3>2
      DEF VsFlush, AccFlush, Repair, Inv, Rebuilds, Phases
    <3> QED
      BY <3>3, <3>4, <3>5, <3>6, <3>7 DEF Inv
  <2> QED
    BY <2>1, <2>5, <2>6
<1> QED
  BY <1>6, <1>7, <1>8, Fields DEF Inv

LEMMA vsRollKeeps ==
    ASSUME NEW flush \in BOOLEAN, Inv, vsRoll(flush)
    PROVE  Inv'
<1>1. /\ OnlyKilled' = OnlyKilled /\ FirstFlushFailed' = FirstFlushFailed
      /\ Times' = Times
  BY KilledSame DEF vsRoll, env
<1> DEFINE h    == job.height + 1
           then == IF h = tip THEN "vsRolled" ELSE "vsRoll"
<1>2. /\ tip' = tip /\ indexed' = indexed /\ vsDisk' = vsDisk
      /\ accDisk' = accDisk /\ faults' = faults /\ pc = "vsRoll"
      /\ mem' = [mem EXCEPT !.vs = Append(mem.vs, h)]
      /\ job' = [job EXCEPT !.height = h, !.after = then]
      /\ pc' = IF flush \/ ~mem.vsFlushed THEN "vsOngoing" ELSE then
  BY DEF vsRoll, disk, env
<1>3. /\ tip >= 0 /\ tip \in Nat /\ job.height \in Nat /\ job.height < tip
      /\ Good(OnlyKilled, Times, mem.vs, job.height)
      /\ Good(OnlyKilled, 1, mem.acc, tip)
      /\ h \in Nat /\ h <= tip
  <2>1. /\ tip >= 0 /\ tip \in Nat /\ job.height \in Nat
    BY <1>2, Fields DEF Inv, Types, Begun
  <2>2. /\ job.height < tip
        /\ Good(OnlyKilled, Times, mem.vs, job.height)
        /\ Good(OnlyKilled, 1, mem.acc, tip)
    BY <1>2 DEF Inv, Phases
  <2> QED
    BY <2>1, <2>2
<1>4. OnlyKilled => vsDisk.status # "empty" /\ accDisk.status # "empty"
  BY <1>2, <1>3 DEF Inv, Filled, VsFlush
<1>5. Good(OnlyKilled, Times, Append(mem.vs, h), h)
  <2>1. Ordered(Times, Append(mem.vs, h), h)
    BY <1>3, OrderedAppend DEF Good
  <2>2. Append(Upto(job.height), h) = Upto(h)
    <3>1. job.height \in Int /\ job.height >= -1
      BY <1>3
    <3> QED
      BY <3>1, UptoAppend
  <2> QED
    BY <1>3, <2>1, <2>2 DEF Good
<1>6. Append(mem.vs, h) \in Seq(Nat) /\ Ordered(Times, Append(mem.vs, h), tip)
  <2>1. Ordered(Times, Append(mem.vs, h), h)
    BY <1>5 DEF Good
  <2>2. Append(mem.vs, h) \in Seq(Nat)
    BY <2>1 DEF Ordered
  <2> QED
    BY <1>3, <2>1, <2>2, OrderedMore
<1>7. then \in {"vsRolled", "vsRoll"} /\ (then = "vsRolled" <=> h = tip)
  OBVIOUS
<1> HIDE DEF h, then
<1>8. /\ mem' \in Memories /\ mem'.tip = mem.tip /\ mem'.acc = mem.acc
      /\ mem'.vs = Append(mem.vs, h)
  BY <1>2, <1>6 DEF Inv, Types, Memories
<1>9. /\ job' \in Jobs /\ job'.acc = job.acc /\ job'.height = h
      /\ job'.after = then
  <2>1. then \in Afters /\ job \in Jobs
    BY <1>7 DEF Afters, Inv, Types
  <2> QED
    BY <1>2, <1>3, <2>1 DEF Jobs
<1>10. pc' \in {"vsOngoing", "vsRolled", "vsRoll"} /\ (pc' # "vsOngoing" => pc' = then)
  BY <1>2, <1>7
<1>11. Types'
  BY <1>2, <1>8, <1>9, <1>10 DEF Inv, Types, Places, VsFlush
<1>12. Begun' /\ InOrder'
  BY <1>1, <1>2, <1>6, <1>8, <1>9, <1>10 DEF Inv, Begun, InOrder
<1>13. Statuses' /\ Filled'
  BY <1>1, <1>2, <1>4, <1>10 DEF Inv, Statuses, Filled, Repair
<1>14. Phases'
  BY <1>1, <1>2, <1>3, <1>5, <1>7, <1>8, <1>9, <1>10
  DEF Phases, VsFlush, AccFlush, Repair
<1>15. Rebuilds'
  BY <1>1, <1>2, <1>3, <1>5, <1>7, <1>8, <1>9, <1>10
  DEF VsFlush, AccFlush, Repair, Inv, Rebuilds, Phases
<1> QED
  BY <1>11, <1>12, <1>13, <1>14, <1>15 DEF Inv

LEMMA vsRolledKeeps == Inv /\ vsRolled => Inv'
<1> SUFFICES ASSUME Inv, vsRolled PROVE Inv'
  OBVIOUS
<1>1. /\ OnlyKilled' = OnlyKilled /\ FirstFlushFailed' = FirstFlushFailed
      /\ Times' = Times
  BY KilledSame DEF vsRolled, env
<1>2. /\ tip' = tip /\ indexed' = indexed /\ vsDisk' = vsDisk
      /\ accDisk' = accDisk /\ mem' = mem /\ faults' = faults
      /\ pc = "vsRolled" /\ pc' = "vsOngoing"
  BY DEF vsRolled, disk, env
<1>3. /\ job' \in Jobs /\ job'.kind = job.kind /\ job'.height = job.height
      /\ job'.acc = job.acc /\ job'.after = "ready"
  BY DEF Inv, Types, vsRolled, Jobs, Afters
<1>4. Types'
  BY <1>2, <1>3 DEF Inv, Types, Places, VsFlush
<1>5. Begun' /\ InOrder'
  BY <1>1, <1>2, <1>3 DEF Inv, Begun, InOrder
<1>6. Statuses' /\ Filled'
  BY <1>1, <1>2 DEF Inv, Statuses, Filled, Repair, VsFlush
<1>7. Phases'
  BY <1>1, <1>2, <1>3, Fields DEF Inv, Phases, VsFlush, AccFlush, Repair
<1>8. Rebuilds'
  BY <1>1, <1>2, <1>3, Fields
  DEF Inv, VsFlush, AccFlush, Repair, Rebuilds, Phases
<1> QED
  BY <1>4, <1>5, <1>6, <1>7, <1>8 DEF Inv

-----------------------------------------------------------------------------
(* The repair of the validator set.                                        *)

LEMMA vsWipeKeeps == Inv /\ vsWipe => Inv'
<1> SUFFICES ASSUME Inv, vsWipe PROVE Inv'
  OBVIOUS
<1>1. /\ OnlyKilled' = OnlyKilled /\ FirstFlushFailed' = FirstFlushFailed
      /\ Times' = Times
  BY KilledSame DEF vsWipe, env
<1>2. /\ tip' = tip /\ indexed' = indexed /\ accDisk' = accDisk /\ mem' = mem
      /\ job' = job /\ faults' = faults /\ pc = "vsWipe" /\ pc' = "vsReset"
  BY DEF vsWipe, env
<1>3. /\ vsDisk' \in Stores /\ vsDisk'.status = vsDisk.status
      /\ vsDisk'.height = vsDisk.height /\ vsDisk'.applied = <<>>
  <2>1. <<>> \in Seq(Nat) /\ vsDisk \in Stores
    BY DEF Inv, Types
  <2> QED
    BY <2>1 DEF vsWipe, Stores
<1>4. Types'
  BY <1>2, <1>3 DEF Inv, Types, Places, Repair
<1>5. Begun' /\ InOrder'
  BY <1>1, <1>2, <1>3, OrderedEmpty DEF Inv, Begun, InOrder
<1>6. Statuses' /\ Filled'
  BY <1>1, <1>2, <1>3 DEF Inv, Statuses, Filled, Repair, VsFlush
<1>7. Phases'
  BY <1>1, <1>2 DEF Inv, Phases, VsFlush, AccFlush, Repair
<1>8. Rebuilds'
  BY <1>1, <1>2 DEF Inv, VsFlush, AccFlush, Repair, Rebuilds, Phases
<1> QED
  BY <1>4, <1>5, <1>6, <1>7, <1>8 DEF Inv

LEMMA vsResetKeeps == Inv /\ vsReset => Inv'
<1> SUFFICES ASSUME Inv, vsReset PROVE Inv'
  OBVIOUS
<1>1. /\ OnlyKilled' = OnlyKilled /\ FirstFlushFailed' = FirstFlushFailed
      /\ Times' = Times
  BY KilledSame DEF vsReset, env
<1>2. /\ tip' = tip /\ indexed' = indexed /\ accDisk' = accDisk
      /\ faults' = faults /\ pc = "vsReset"
  BY DEF vsReset, env
<1>3. vsDisk.status = "ongoing" /\ tip \in Nat
  BY <1>2, Fields DEF Inv, Types, Begun, Statuses, Repair
<1>4. CASE ds = "mock"
  <2>1. /\ vsDisk' = [vsDisk EXCEPT !.height = 0]
        /\ pc' = "vsEmpty" /\ mem' = mem /\ job' = job
    BY <1>4 DEF vsReset
  <2>2. /\ vsDisk' \in Stores /\ vsDisk'.status = vsDisk.status
        /\ vsDisk'.height = 0 /\ vsDisk'.applied = vsDisk.applied
    BY <2>1 DEF Inv, Types, Stores
  <2>3. Types'
    BY <1>2, <2>1, <2>2 DEF Inv, Types, Places, Repair
  <2>4. Begun'
    BY <1>2, <2>1, <2>2 DEF Inv, Begun
  <2>5. InOrder'
    <3>1. vsDisk.applied = <<>>
      BY <1>2 DEF Inv, Statuses
    <3> QED
      BY <1>1, <1>2, <1>3, <2>1, <2>2, <3>1, OrderedEmpty DEF Inv, InOrder
  <2>6. Statuses' /\ Filled'
    BY <1>1, <1>2, <2>1, <2>2 DEF Inv, Statuses, Filled, Repair, VsFlush
  <2>7. Phases'
    BY <1>1, <1>2, <2>1 DEF Inv, Phases, VsFlush, AccFlush, Repair
  <2>8. Rebuilds'
    BY <1>1, <1>2, <2>1 DEF Inv, VsFlush, AccFlush, Repair, Rebuilds, Phases
  <2> QED
    BY <2>3, <2>4, <2>5, <2>6, <2>7, <2>8 DEF Inv
<1>5. CASE ds # "mock"
  <2>1. Exit /\ vsDisk' = vsDisk
    BY <1>5 DEF vsReset
  <2>2. OnlyKilled' => OnlyKilled /\ accDisk'.status # "empty"
    BY <1>1, <1>2, <1>3 DEF Inv, Filled, VsFlush
  <2>3. /\ accDisk' \in Stores /\ accDisk'.height <= tip
        /\ Ordered(1, accDisk'.applied, accDisk'.height)
        /\ OnlyKilled' /\ indexed /\ accDisk'.status = "consistent" =>
              accDisk'.applied = Upto(accDisk'.height)
    BY <1>1, <1>2, <1>3 DEF Inv, Types, InOrder, Statuses
  <2>4. faults' \in Seq(FaultKinds) /\ Len(faults') <= MaxFaults
    BY <1>2 DEF Inv, Types
  <2> QED
    BY <1>1, <1>2, <1>3, <2>1, <2>2, <2>3, <2>4, ExitKeeps
<1> QED
  BY <1>4, <1>5

LEMMA vsEmptyKeeps == Inv /\ vsEmpty => Inv'
<1> SUFFICES ASSUME Inv, vsEmpty PROVE Inv'
  OBVIOUS
<1>1. /\ OnlyKilled' = OnlyKilled /\ FirstFlushFailed' = FirstFlushFailed
      /\ Times' = Times
  BY KilledSame DEF vsEmpty, env
<1>2. /\ tip' = tip /\ indexed' = indexed /\ accDisk' = accDisk
      /\ faults' = faults /\ pc = "vsEmpty" /\ pc' = "vsOngoing"
  BY DEF vsEmpty, env
<1>3. /\ vsDisk' \in Stores /\ vsDisk'.status = "empty"
      /\ vsDisk'.height = vsDisk.height /\ vsDisk'.applied = vsDisk.applied
  BY DEF Inv, Types, vsEmpty, Stores
<1>4. PICK v : v = Append(mem.vs, 0)
  OBVIOUS
<1>5. v \in Seq(Nat) /\ Good(OnlyKilled, Times, v, 0)
  <2>1. CASE mem.vs = <<>>
    <3>1. v = Upto(0)
      BY <1>4, <2>1, OrderedTwice
    <3> QED
      BY <3>1, OrderedUpto DEF Good, Ordered
  <2>2. CASE mem.vs = <<0>> /\ FirstFlushFailed
    <3>1. ~OnlyKilled
      BY <2>2 DEF OnlyKilled, FirstFlushFailed
    <3>2. Times = 2 /\ v \in Seq(Nat) /\ Ordered(2, v, 0)
      BY <1>4, <2>2, OrderedTwice DEF Times
    <3> QED
      BY <3>1, <3>2 DEF Good
  <2> QED
    BY <1>2, <2>1, <2>2 DEF Inv, Rebuilds, Repair
<1>6. /\ mem' \in Memories /\ mem'.tip = mem.tip /\ mem'.acc = mem.acc
      /\ mem'.vs = v
  BY <1>4, <1>5 DEF Inv, Types, Memories, vsEmpty
<1>7. /\ job' \in Jobs /\ job'.kind = job.kind /\ job'.height = 0
      /\ job'.acc = job.acc /\ job'.after = "vsInit"
  BY DEF Inv, Types, vsEmpty, Jobs, Afters
<1>8. /\ tip \in Nat /\ Ordered(Times, v, tip) /\ job.kind = "repair"
      /\ Good(OnlyKilled, 1, mem.acc, tip)
  <2>1. tip \in Nat
    BY <1>2, Fields DEF Inv, Types, Begun
  <2>2. job.kind = "repair" /\ Good(OnlyKilled, 1, mem.acc, tip)
    BY <1>2 DEF Inv, Phases, Repair
  <2> QED
    BY <1>5, <2>1, <2>2, OrderedMore DEF Good
<1>9. Types'
  BY <1>2, <1>3, <1>6, <1>7 DEF Inv, Types, Places, VsFlush
<1>10. Begun' /\ InOrder'
  BY <1>1, <1>2, <1>3, <1>6, <1>7, <1>8 DEF Inv, Begun, InOrder
<1>11. Statuses'
  BY <1>1, <1>2, <1>3 DEF Inv, Statuses, Repair
<1>12. Filled'
  BY <1>1, <1>2, <1>7, <1>8 DEF Inv, Filled, VsFlush
<1>13. Phases'
  BY <1>1, <1>2, <1>5, <1>6, <1>7, <1>8 DEF Phases, Good, VsFlush, AccFlush,
                                            Repair
<1>14. Rebuilds'
  BY <1>1, <1>2, <1>4, <1>6, <1>7, <1>8
  DEF VsFlush, AccFlush, Repair, Inv, Rebuilds, Phases
<1> QED
  BY <1>9, <1>10, <1>11, <1>12, <1>13, <1>14 DEF Inv

LEMMA ReindexChainStateKeeps == Inv /\ ReindexChainState => Inv'
<1> SUFFICES ASSUME Inv, ReindexChainState PROVE Inv'
  OBVIOUS
<1>1. /\ OnlyKilled' = OnlyKilled /\ FirstFlushFailed' = FirstFlushFailed
      /\ Times' = Times
  BY KilledSame DEF ReindexChainState, env
<1>2. /\ tip' = tip /\ indexed' = FALSE /\ mem' = mem /\ job' = job
      /\ faults' = faults /\ pc = "ready" /\ pc' = "reindex"
  BY DEF ReindexChainState, env
<1>3. <<>> \in Seq(Nat) /\ vsDisk \in Stores /\ accDisk \in Stores
  BY DEF Inv, Types
<1>4. /\ vsDisk' \in Stores /\ vsDisk'.status = vsDisk.status
      /\ vsDisk'.height = vsDisk.height /\ vsDisk'.applied = <<>>
  BY <1>3 DEF ReindexChainState, Stores
<1>5. /\ accDisk' \in Stores /\ accDisk'.status = accDisk.status
      /\ accDisk'.height = accDisk.height /\ accDisk'.applied = <<>>
  BY <1>3 DEF ReindexChainState, Stores
<1>6. Types'
  BY <1>2, <1>4, <1>5 DEF Inv, Types, Places
<1>7. Begun' /\ InOrder'
  BY <1>1, <1>2, <1>4, <1>5, OrderedEmpty DEF Inv, Begun, InOrder
<1>8. Statuses'
  BY <1>2 DEF Statuses, Repair
<1>9. Filled'
  BY <1>1, <1>2, <1>4, <1>5 DEF Inv, Filled, VsFlush
<1>10. Phases'
  BY <1>2 DEF Phases, VsFlush, AccFlush, Repair
<1>11. Rebuilds'
  BY <1>2 DEF VsFlush, AccFlush, Repair, Inv, Rebuilds, Phases
<1> QED
  BY <1>6, <1>7, <1>8, <1>9, <1>10, <1>11 DEF Inv

-----------------------------------------------------------------------------
(* The theorems.                                                           *)

LEMMA InitInv == Init => Inv
<1> SUFFICES ASSUME Init PROVE Inv
  OBVIOUS
<1>1. <<>> \in Seq(Nat) /\ <<>> \in Seq(FaultKinds) /\ Len(<<>>) = 0
  OBVIOUS
<1>2. vsDisk \in Stores /\ accDisk \in Stores
  BY <1>1 DEF Init, EmptyStore, Stores
<1>3. /\ mem \in Memories /\ mem.vs = <<>> /\ mem.acc = <<>>
      /\ job \in Jobs /\ job.acc = <<>>
  BY <1>1, ChainStateAssumption DEF Init, NoMemory, Memories, Idle, Jobs,
                                    CrashKinds, Afters
<1>4. Types
  <2>1. -1 \in -1..MaxHeight /\ 0 <= MaxFaults /\ "down" \in Places
    BY ChainStateAssumption DEF Places
  <2>2. tip \in -1..MaxHeight /\ Len(faults) <= MaxFaults /\ pc \in Places
    BY <1>1, <2>1 DEF Init
  <2>3. indexed \in BOOLEAN /\ faults \in Seq(FaultKinds)
    BY <1>1 DEF Init
  <2> QED
    BY <1>2, <1>3, <2>2, <2>3 DEF Types
<1>5. Begun
  BY DEF Init, Begun
<1>6. InOrder
  BY <1>3, OrderedEmpty DEF Init, InOrder, EmptyStore
<1>7. Statuses /\ Filled /\ Phases
  BY DEF Init, Statuses, Filled, Phases, EmptyStore, VsFlush, AccFlush, Repair
<1>8. Rebuilds
  BY DEF Init, Rebuilds, VsFlush, AccFlush, Repair
<1> QED
  BY <1>4, <1>5, <1>6, <1>7, <1>8 DEF Inv

LEMMA NextInv == Inv /\ [Next]_vars => Inv'
<1> SUFFICES ASSUME Inv, [Next]_vars PROVE Inv'
  OBVIOUS
<1>1. CASE Genesis
  BY <1>1, GenesisKeeps
<1>2. CASE vsFlushOngoing \/ vsFlushData \/ vsFlushConsistent
  BY <1>2, vsFlushOngoingKeeps, vsFlushDataKeeps, vsFlushConsistentKeeps
<1>3. CASE \E flush \in BOOLEAN : accCommit(flush)
  BY <1>3, accCommitKeeps
<1>4. CASE accFlushOngoing \/ accFlushData \/ accFlushConsistent
  BY <1>4, accFlushOngoingKeeps, accFlushDataKeeps, accFlushConsistentKeeps
<1>5. CASE CloseAcc \/ Open \/ vsInit
  BY <1>5, CloseAccKeeps, OpenKeeps, vsInitKeeps
<1>6. CASE \E flush \in BOOLEAN : vsRoll(flush)
  BY <1>6, vsRollKeeps
<1>7. CASE vsRolled \/ vsWipe \/ vsReset \/ vsEmpty
  BY <1>7, vsRolledKeeps, vsWipeKeeps, vsResetKeeps, vsEmptyKeeps
<1>8. CASE \E flush \in BOOLEAN : ConnectBlock(flush)
  BY <1>8, ConnectBlockKeeps
<1>9. CASE Close \/ vsFlushError \/ accFlushError
  BY <1>9, CloseKeeps, vsFlushErrorKeeps, accFlushErrorKeeps
<1>10. CASE ReindexChainState \/ Crash
  BY <1>10, ReindexChainStateKeeps, CrashKeeps
<1>11. CASE UNCHANGED vars
  <2>1. /\ tip' = tip /\ indexed' = indexed /\ vsDisk' = vsDisk
        /\ accDisk' = accDisk /\ mem' = mem /\ pc' = pc /\ job' = job
        /\ faults' = faults
    BY <1>11 DEF vars, disk, env
  <2>2. /\ OnlyKilled' = OnlyKilled /\ FirstFlushFailed' = FirstFlushFailed
        /\ Times' = Times
    BY <2>1, KilledSame
  <2>3. Types' /\ Begun' /\ InOrder'
    BY <2>1, <2>2 DEF Inv, Types, Begun, InOrder
  <2>4. Statuses' /\ Filled'
    BY <2>1, <2>2 DEF Inv, Statuses, Filled
  <2>5. Phases'
    BY <2>1, <2>2 DEF Inv, Phases, Good, Connecting
  <2>6. Rebuilds'
    BY <2>1, <2>2 DEF Inv, Rebuilds
  <2> QED
    BY <2>3, <2>4, <2>5, <2>6 DEF Inv
<1> QED
  BY <1>1, <1>2, <1>3, <1>4, <1>5, <1>6, <1>7, <1>8, <1>9, <1>10, <1>11
  DEF Next, Step

\* Inv holds in every state of every behaviour.
THEOREM ChainStateInvariant == Spec => []Inv
BY InitInv, NextInv, PTL DEF Spec

\* However long the chain, whenever a block is flushed and wherever the process
\* dies while it runs or starts, a node that is ready has in memory what the
\* blocks on disk give, each applied once (ConnectBlock, AccumulatorDB.Init,
\* ValidatorSet.Init).
THEOREM MemoryAlwaysAtTip == Spec => []MemoryAtTip
<1>1. Inv => MemoryAtTip
  BY DEF Inv, Begun, Phases, Good, MemoryAtTip, AtTip
<1> QED
  BY <1>1, ChainStateInvariant, PTL

\* A store marked consistent is what its flush height says, and that height is
\* never ahead of the chain (flushToDisk of both stores).
THEOREM StoresAlwaysSound == Spec => []StoresSound
<1>1. Inv => StoresSound
  <2> SUFFICES ASSUME Inv PROVE StoresSound
    OBVIOUS
  <2>1. TypeOK
    BY Fields DEF Inv, Types, TypeOK
  <2>2. tip = -1 \/ tip >= 0
    BY ChainStateAssumption DEF Inv, Types
  <2>3. \A s \in {vsDisk, accDisk} :
           indexed /\ OnlyKilled /\ s.status = "consistent" =>
               s.height <= tip /\ s.applied = Upto(s.height)
    BY <2>2 DEF Inv, Begun, InOrder, Statuses, EmptyStore
  <2> QED
    BY <2>1, <2>3 DEF StoresSound
<1> QED
  BY <1>1, ChainStateInvariant, PTL

\* No block is ever applied twice to a store or out of order, whatever fails,
\* but the genesis block to the validator set, after its own flush failed: this
\* needs no assumption on the faults.
THEOREM AlwaysAppliedOnce == Spec => []AppliedOnce
<1>1. ASSUME NEW s, NEW h, Ordered(1, s, h)
      PROVE  InOrderOf(FALSE, s)
  BY <1>1, LenProperties DEF Ordered, InOrderOf
<1>2. ASSUME NEW s, NEW h, Ordered(Times, s, h)
      PROVE  InOrderOf(FirstFlushFailed, s)
  <2>1. Times = 2 => FirstFlushFailed
    BY DEF Times
  <2> QED
    BY <1>2, <2>1, LenProperties DEF Ordered, InOrderOf
<1>3. Inv => AppliedOnce
  BY <1>1, <1>2 DEF Inv, InOrder, AppliedOnce
<1> QED
  BY <1>3, ChainStateInvariant, PTL

\* A start gives up only on an accumulator whose flush was cut short; the heights
\* "ahead of the tip" that both Inits guard against cannot be reached.
THEOREM FatalAlwaysMidFlush == Spec => []FatalOnlyMidFlush
<1>1. Inv => FatalOnlyMidFlush
  BY DEF Inv, Begun, FatalOnlyMidFlush
<1> QED
  BY <1>1, ChainStateInvariant, PTL
=============================================================================
