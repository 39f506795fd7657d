----------------------------- MODULE ChainState -----------------------------
(***************************************************************************)
(* How the chain state survives restarts: Blockchain (blockchain/chain.go) *)
(* with the two parts of its state that are kept in memory and written to  *)
(* disk from time to time, the ValidatorSet (blockchain/validatorset.go)   *)
(* and the AccumulatorDB (blockchain/accumulatordb.go).                    *)
(*                                                                         *)
(* A block is written by one database transaction, together with all other *)
(* state (nullifiers, txo roots, treasury, index).  The validator set and  *)
(* the accumulator are flushed by three writes each: the status "ongoing", *)
(* the data with the height it is for, the status "consistent".  The       *)
(* process can die between any two writes.  What a store holds is          *)
(* abstracted to the sequence of the heights that were applied to it.      *)
(***************************************************************************)
EXTENDS Integers, Sequences

CONSTANTS
    MaxHeight,      \* bound on the height of the chain
    MaxFaults,      \* bound on the crashes and failed writes
    Faults,         \* what may go wrong, a subset of FaultKinds
    Datastores      \* "mock" (repo/mock) or "badger" (server.go)

\* Where the process may die.  "genesis": its first start; "open": a later one;
\* "repair": while Init rebuilds the validator set; "running": connecting a
\* block, idle, closing
CrashKinds == {"genesis", "open", "repair", "running"}

\* "error": a write of a flush fails; "firstError": a write of the flush of the
\* validator set that holds the genesis block alone
FaultKinds == CrashKinds \cup {"error", "firstError"}

ASSUME ChainStateAssumption ==
    /\ MaxHeight \in Nat
    /\ MaxFaults \in Nat
    /\ Faults \subseteq FaultKinds
    /\ Datastores \subseteq {"mock", "badger"}

VARIABLES
    tip,        \* disk: height of the last block, -1 before genesis
    indexed,    \* disk: the block index state exists
    vsDisk,     \* disk: the validator set's status, flush height and content
    accDisk,    \* disk: the same for the accumulator
    mem,        \* the process: tip, contents, and whether lastFlush was set
    pc,         \* what the process does next
    job,        \* the call it is in: kind, height, accumulator, where to go on
    ds,         \* the datastore of this node
    faults      \* history: the faults so far, in order

disk == <<tip, indexed, vsDisk, accDisk>>
env == <<ds, faults>>
vars == <<disk, mem, pc, job, env>>

Upto(h) == [i \in 1..(h + 1) |-> i - 1]

EmptyStore == [status |-> "empty", height |-> 0, applied |-> <<>>]

NoMemory == [tip |-> -1, vs |-> <<>>, acc |-> <<>>, vsFlushed |-> FALSE,
             accFlushed |-> FALSE]

Idle == [kind |-> "running", height |-> 0, acc |-> <<>>, after |-> "ready"]

Init ==
    /\ tip = -1
    /\ indexed = FALSE
    /\ vsDisk = EmptyStore
    /\ accDisk = EmptyStore
    /\ mem = NoMemory
    /\ pc = "down"
    /\ job = Idle
    /\ ds \in Datastores
    /\ faults = <<>>

Exit ==
    /\ pc' = "down"
    /\ mem' = NoMemory
    /\ job' = Idle

Fault(kind) ==
    /\ kind \in Faults
    /\ Len(faults) < MaxFaults
    /\ faults' = Append(faults, kind)
    /\ ds' = ds

-----------------------------------------------------------------------------
\* ConnectBlock up to the flush of the validator set: the database transaction
\* commits and the memory of the index and of the validator set follows.  A
\* periodic flush is due when lastFlush is old or was never set.
Connected(kind, m, flush) ==
    LET h == m.tip + 1
    IN  /\ tip' = h
        /\ indexed' = TRUE
        /\ mem' = [m EXCEPT !.tip = h, !.vs = Append(@, h)]
        /\ job' = [kind |-> kind, height |-> h, acc |-> Append(m.acc, h),
                   after |-> "accCommit"]
        /\ pc' = IF flush \/ ~m.vsFlushed THEN "vsOngoing" ELSE "accCommit"
        /\ UNCHANGED <<vsDisk, accDisk, env>>

ConnectBlock(flush) ==
    /\ pc = "ready"
    /\ mem.tip < MaxHeight
    /\ Connected("running", mem, flush)

\* NewBlockchain on an empty database connects the genesis block.
Genesis ==
    /\ pc = "down"
    /\ tip = -1
    /\ Connected("genesis", NoMemory, FALSE)

-----------------------------------------------------------------------------
\* ValidatorSet.flushToDisk: three writes.
vsFlushOngoing ==
    /\ pc = "vsOngoing"
    /\ vsDisk' = [vsDisk EXCEPT !.status = "ongoing"]
    /\ pc' = "vsData"
    /\ UNCHANGED <<tip, indexed, accDisk, mem, job, env>>

\* Mutation of vsFlushData: the validators without their flush height.
vsFlushData_NoHeight ==
    /\ pc = "vsData"
    /\ vsDisk' = [vsDisk EXCEPT !.applied = mem.vs]
    /\ pc' = "vsConsistent"
    /\ UNCHANGED <<tip, indexed, accDisk, mem, job, env>>

vsFlushData ==
    /\ pc = "vsData"
    /\ vsDisk' = [vsDisk EXCEPT !.height = job.height, !.applied = mem.vs]
    /\ pc' = "vsConsistent"
    /\ UNCHANGED <<tip, indexed, accDisk, mem, job, env>>

vsFlushConsistent ==
    /\ pc = "vsConsistent"
    /\ vsDisk' = [vsDisk EXCEPT !.status = "consistent"]
    /\ mem' = [mem EXCEPT !.vsFlushed = TRUE]
    /\ pc' = job.after
    /\ UNCHANGED <<tip, indexed, accDisk, job, env>>

\* A write fails.  ConnectBlock logs the error; Init and Close return it.
vsFlushError ==
    /\ Fault(IF job.kind = "genesis" THEN "firstError" ELSE "error")
    /\ pc \in {"vsOngoing", "vsData", "vsConsistent"}
    /\ IF job.after = "accCommit"
         THEN pc' = "accCommit" /\ UNCHANGED <<mem, job>>
         ELSE Exit
    /\ UNCHANGED disk

-----------------------------------------------------------------------------
\* Where the process goes on once the accumulator is settled.
AfterAcc == IF job.after = "exit" THEN "down"
            ELSE IF job.kind = "running" THEN "ready" ELSE "vsInit"

\* AccumulatorDB.Commit.
accCommit(flush) ==
    /\ pc = "accCommit"
    /\ IF flush \/ ~mem.accFlushed
         THEN pc' = "accOngoing" /\ mem' = mem
         ELSE pc' = AfterAcc /\ mem' = [mem EXCEPT !.acc = job.acc]
    /\ UNCHANGED <<disk, job, env>>

\* AccumulatorDB.flushToDisk: three writes.
accFlushOngoing ==
    /\ pc = "accOngoing"
    /\ accDisk' = [accDisk EXCEPT !.status = "ongoing"]
    /\ pc' = "accData"
    /\ UNCHANGED <<tip, indexed, vsDisk, mem, job, env>>

\* Mutation of accFlushData: the accumulator as it was before the block.
accFlushData_Old ==
    /\ pc = "accData"
    /\ accDisk' = [accDisk EXCEPT !.height = job.height, !.applied = mem.acc]
    /\ pc' = "accConsistent"
    /\ UNCHANGED <<tip, indexed, vsDisk, mem, job, env>>

\* Mutation of accFlushData: the height of the next block.
accFlushData_Ahead ==
    /\ pc = "accData"
    /\ accDisk' = [accDisk EXCEPT !.height = job.height + 1, !.applied = job.acc]
    /\ pc' = "accConsistent"
    /\ UNCHANGED <<tip, indexed, vsDisk, mem, job, env>>

accFlushData ==
    /\ pc = "accData"
    /\ accDisk' = [accDisk EXCEPT !.height = job.height, !.applied = job.acc]
    /\ pc' = "accConsistent"
    /\ UNCHANGED <<tip, indexed, vsDisk, mem, job, env>>

accFlushConsistent ==
    /\ pc = "accConsistent"
    /\ accDisk' = [accDisk EXCEPT !.status = "consistent"]
    /\ IF AfterAcc = "down"
         THEN Exit
         ELSE /\ mem' = [mem EXCEPT !.acc = job.acc, !.accFlushed = TRUE]
              /\ pc' = AfterAcc
              /\ job' = job
    /\ UNCHANGED <<tip, indexed, vsDisk, env>>

\* A write fails: Commit leaves the accumulator in memory as it was.
accFlushError ==
    /\ Fault("error")
    /\ pc \in {"accOngoing", "accData", "accConsistent"}
    /\ IF job.after = "accCommit"
         THEN pc' = AfterAcc /\ UNCHANGED <<mem, job>>
         ELSE Exit
    /\ UNCHANGED disk

-----------------------------------------------------------------------------
\* Blockchain.Close: both stores are flushed, then the process ends.
Close ==
    /\ pc = "ready"
    /\ pc' = "vsOngoing"
    /\ job' = [kind |-> "running", height |-> mem.tip, acc |-> mem.acc,
               after |-> "close"]
    /\ UNCHANGED <<disk, mem, env>>

CloseAcc ==
    /\ pc = "close"
    /\ pc' = "accOngoing"
    /\ job' = [job EXCEPT !.after = "exit"]
    /\ UNCHANGED <<disk, mem, env>>

\* Mutation of Rolled: the block at the flush height is applied again.
Rolled_Again(s, h, t) == s \o [i \in 1..(t - h + 1) |-> h + i - 1]

\* s with the heights above h, up to t, applied.
Rolled(s, h, t) == s \o [i \in 1..(t - h) |-> h + i]

\* NewBlockchain on an existing database: blockIndex.Init and
\* AccumulatorDB.Init, which rolls the accumulator forward and flushes it.
Open ==
    /\ pc = "down"
    /\ tip >= 0
    /\ IF ~indexed \/ accDisk.status = "ongoing"
            \/ (accDisk.status = "consistent" /\ accDisk.height > tip)
         THEN /\ pc' = "fatal"
              /\ UNCHANGED <<mem, job>>
         ELSE LET acc == IF accDisk.status = "empty" THEN <<>>
                         ELSE Rolled(accDisk.applied, accDisk.height, tip)
              IN  /\ mem' = [NoMemory EXCEPT
                               !.tip = tip, !.acc = acc,
                               !.accFlushed = accDisk.status = "consistent"]
                  /\ job' = [kind |-> "open", height |-> tip, acc |-> acc,
                             after |-> "vsInit"]
                  /\ pc' = IF accDisk.status = "consistent" /\ accDisk.height < tip
                             THEN "accOngoing" ELSE "vsInit"
    /\ UNCHANGED <<disk, env>>

\* ValidatorSet.Init: by the status found on disk.
vsInit ==
    /\ pc = "vsInit"
    /\ \/ /\ vsDisk.status = "empty"
          /\ pc' = "ready"
          /\ job' = Idle
          /\ mem' = mem
       \/ /\ vsDisk.status = "ongoing"
          /\ pc' = "vsWipe"
          /\ job' = [job EXCEPT !.kind = "repair"]
          /\ mem' = mem
       \/ /\ vsDisk.status = "consistent"
          /\ mem' = [mem EXCEPT !.vs = vsDisk.applied]
          /\ IF vsDisk.height = tip
               THEN pc' = "ready" /\ job' = Idle
               ELSE /\ pc' = IF vsDisk.height < tip THEN "vsRoll" ELSE "fatal"
                    /\ job' = [job EXCEPT !.height = vsDisk.height]
    /\ UNCHANGED <<disk, env>>

\* One block is loaded and committed with a periodic flush; after the last
\* one the set is flushed at the tip.
vsRoll(flush) ==
    LET h    == job.height + 1
        then == IF h = tip THEN "vsRolled" ELSE "vsRoll"
    IN  /\ pc = "vsRoll"
        /\ mem' = [mem EXCEPT !.vs = Append(@, h)]
        /\ job' = [job EXCEPT !.height = h, !.after = then]
        /\ pc' = IF flush \/ ~mem.vsFlushed THEN "vsOngoing" ELSE then
        /\ UNCHANGED <<disk, env>>

vsRolled ==
    /\ pc = "vsRolled"
    /\ pc' = "vsOngoing"
    /\ job' = [job EXCEPT !.after = "ready"]
    /\ UNCHANGED <<disk, mem, env>>

\* The repair after a flush that did not finish: the validators are deleted
\* (dsDeleteValidatorSet commits), the flush height is set to 0, the status to
\* scsEmpty, and the genesis block is committed with a flush before Init is
\* called again.
vsWipe ==
    /\ pc = "vsWipe"
    /\ vsDisk' = [vsDisk EXCEPT !.applied = <<>>]
    /\ pc' = "vsReset"
    /\ UNCHANGED <<tip, indexed, accDisk, mem, job, env>>

\* The flush height is put in the transaction that was already committed: where
\* that is an error Init returns it, and the process ends.
vsReset ==
    /\ pc = "vsReset"
    /\ \/ /\ ds = "mock"
          /\ vsDisk' = [vsDisk EXCEPT !.height = 0]
          /\ pc' = "vsEmpty"
          /\ UNCHANGED <<mem, job>>
       \/ /\ ds = "badger"
          /\ Exit
          /\ UNCHANGED vsDisk
    /\ UNCHANGED <<tip, indexed, accDisk, env>>

\* Mutation of vsEmpty: Init is called again without the genesis block.
vsEmpty_NoGenesis ==
    /\ pc = "vsEmpty"
    /\ pc' = "vsInit"
    /\ UNCHANGED <<disk, mem, job, env>>

vsEmpty ==
    /\ pc = "vsEmpty"
    /\ vsDisk' = [vsDisk EXCEPT !.status = "empty"]
    /\ mem' = [mem EXCEPT !.vs = Append(@, 0)]
    /\ job' = [job EXCEPT !.height = 0, !.after = "vsInit"]
    /\ pc' = "vsOngoing"
    /\ UNCHANGED <<tip, indexed, accDisk, env>>

\* ReindexChainState takes stateLock, deletes the state and then calls
\* ConnectBlock, which waits for stateLock: no step of the process follows.
ReindexChainState ==
    /\ pc = "ready"
    /\ indexed' = FALSE
    /\ vsDisk' = [vsDisk EXCEPT !.applied = <<>>]
    /\ accDisk' = [accDisk EXCEPT !.applied = <<>>]
    /\ pc' = "reindex"
    /\ UNCHANGED <<tip, mem, job, env>>

\* The process dies.
Crash ==
    /\ pc \notin {"down", "fatal"}
    /\ Fault(job.kind)
    /\ Exit
    /\ UNCHANGED disk

Step ==
    \/ Genesis
    \/ vsFlushOngoing \/ vsFlushData \/ vsFlushConsistent
    \/ \E flush \in BOOLEAN : accCommit(flush)
    \/ accFlushOngoing \/ accFlushData \/ accFlushConsistent
    \/ CloseAcc
    \/ Open
    \/ vsInit
    \/ \E flush \in BOOLEAN : vsRoll(flush)
    \/ vsRolled
    \/ vsWipe \/ vsReset \/ vsEmpty

Next ==
    \/ Step
    \/ \E flush \in BOOLEAN : ConnectBlock(flush)
    \/ Close
    \/ vsFlushError
    \/ accFlushError
    \/ ReindexChainState
    \/ Crash

Spec == Init /\ [][Next]_vars

\* A process that is started goes on until it is ready.
FairSpec == Spec /\ WF_vars(Step)

-----------------------------------------------------------------------------
Stores == [status : {"empty", "ongoing", "consistent"}, height : Nat,
           applied : Seq(Nat)]

TypeOK ==
    /\ tip \in -1..MaxHeight
    /\ indexed \in BOOLEAN
    /\ vsDisk \in Stores
    /\ accDisk \in Stores
    /\ mem.vs \in Seq(Nat)
    /\ mem.acc \in Seq(Nat)
    /\ mem.tip \in -1..MaxHeight
    /\ job.kind \in CrashKinds
    /\ faults \in Seq(FaultKinds)
    /\ Len(faults) <= MaxFaults

\* The node has met no fault but a death of the process while it was running
\* or starting on an existing database.
OnlyKilled == \A i \in DOMAIN faults : faults[i] \in {"running", "open"}

\* When the chain can be used, what is in memory is what applying the blocks
\* on disk, each once and in order, gives, whatever was flushed and wherever
\* the process died before (AccumulatorDB.Init: "will roll the accumulator
\* forward until it is up to the tip"; ValidatorSet.Init: "will attempt to
\* repair the validator set").
AtTip ==
    pc = "ready" => /\ mem.tip = tip
                    /\ mem.vs = Upto(tip)
                    /\ mem.acc = Upto(tip)

MemoryAtTip == OnlyKilled => AtTip

\* The same after a flush has failed, which ConnectBlock only logs ("Any errors
\* we should be able to repair later").
MemoryRepaired == AtTip

\* A store marked consistent holds the blocks up to its flush height, which is
\* never ahead of the chain ("This really should never happen" in both Inits).
\* The types are checked along with it.
StoresSound ==
    /\ TypeOK
    /\ \A s \in {vsDisk, accDisk} :
          indexed /\ OnlyKilled /\ s.status = "consistent" =>
              s.height <= tip /\ s.applied = Upto(s.height)

\* The flush of the validator set failed when the genesis block was connected,
\* which ConnectBlock only logs.
FirstFlushFailed == \E i \in DOMAIN faults : faults[i] = "firstError"

\* Each block once and in order, but for the genesis block if twice.
InOrderOf(twice, s) ==
    \A i, j \in DOMAIN s : i < j =>
        s[i] < s[j] \/ (twice /\ i = 1 /\ j = 2 /\ s[i] = 0 /\ s[j] = 0)

\* Whatever fails and wherever the process dies, no block is applied twice to a
\* store, and none before an earlier one: not by the roll forward of the Inits,
\* not by a block connected after a failed flush, not by the repair of a later
\* start.  The repair of the first start is the exception: Init connects the
\* genesis block to a set that already holds it when the first flush has failed
\* (EpochBlocks counts it again), once and no other block.
AppliedOnce ==
    /\ \A s \in {mem.acc, accDisk.applied} : InOrderOf(FALSE, s)
    /\ \A s \in {mem.vs, vsDisk.applied} : InOrderOf(FirstFlushFailed, s)

\* The only damage a start gives up on is an accumulator flush cut short.
FatalOnlyMidFlush == pc = "fatal" /\ indexed => accDisk.status = "ongoing"

\* A node that is started gets to work, or gives up for the reason above; it
\* does not repair forever.  On badger this leaves out a validator set whose
\* flush was cut short ("Init will attempt to repair the validator set").
Starts ==
    pc = "down" ~> \/ pc \in {"ready", "fatal"}
                   \/ ds = "badger" /\ vsDisk.status = "ongoing"
=============================================================================
