--------------------------- MODULE BlockGenerator ---------------------------
(***************************************************************************)
(* The block generator (gen/generate.go) and the parts of the server that  *)
(* start and stop it: the notifications of the validator set, the callback *)
(* of SyncManager.SetCurrent and the resync of processBlock (server.go).   *)
(*                                                                         *)
(* Every callback runs in a goroutine of its own and may be overtaken by a *)
(* later one.  Each Start that finds the generator inactive makes a new    *)
(* quit channel and a new event loop; channels and loops have the number   *)
(* of their Start.  A loop evaluates g.quit whenever it enters its select. *)
(* The mempool is left out: a block may be given up for want of            *)
(* transactions.  Times are seconds.                                       *)
(***************************************************************************)
EXTENDS Integers, Sequences, FiniteSets, Functions

CONSTANTS
    DupTime,        \* MinAllowableTimeBetweenDupBlocks
    Future,         \* MaxBlockFutureTime as the chain uses it
    FutureNanos,    \* and as generateBlock uses it: a number of nanoseconds
    MaxHeight,      \* bounds: of the chain,
    MaxTime,        \* the clock,
    MaxStarts,      \* the event loops,
    MaxInterrupts,  \* the goroutines of Interrupt
    MaxResyncs      \* and the resyncs

ConstantsOK ==
    /\ DupTime \in Nat \ {0}
    /\ Future \in Nat
    /\ FutureNanos \in Nat
    /\ {MaxHeight, MaxTime, MaxStarts, MaxInterrupts, MaxResyncs} \subseteq Nat

ASSUME GeneratorAssumption == ConstantsOK

VARIABLES
    active,     \* g.active
    quit,       \* the number of the channel g.quit
    closed,     \* the channels that are closed
    loops,      \* loop -> its pc, the channel it waits on and its block
    last,       \* lastGenHeight and lastGenTime
    testing,    \* height -> goroutines of Interrupt about to test Active
    sending,    \* the heights that goroutines wait to send on interruptChan
    now,        \* the clock
    tip,        \* height and timestamp of the best block
    validator,  \* we are in the validator set
    pending,    \* callback -> how many of its goroutines have not run yet
    resyncs,    \* how often processBlock resynced
    sent,       \* history: height and time of the block broadcast last, and
                \* whether one followed another of its height too quickly
    overlapped  \* history: two event loops were alive at the same time

genVars == <<active, quit, closed, loops, overlapped>>
chainVars == <<now, tip, validator>>
envVars == <<chainVars, pending, testing, resyncs>>
vars == <<genVars, last, sending, envVars, sent>>

Loops == 1..MaxStarts
\* "add", "remove": the notifications; "status": handleCurrentStatusChange,
\* and "start": the same after it found that we are a validator
Callbacks == {"add", "remove", "status", "start"}

NoLoop == [pc |-> "none", chan |-> 0, height |-> 0, time |-> 0]

Init ==
    /\ active = FALSE
    /\ quit = 0
    /\ closed = {}
    /\ loops = [l \in Loops |-> NoLoop]
    /\ overlapped = FALSE
    /\ last = [height |-> 0, time |-> 0]
    /\ testing = [h \in 1..MaxHeight |-> 0]
    /\ sending = <<>>
    /\ now = 1
    /\ tip = [height |-> 0, time |-> 0]
    /\ validator \in BOOLEAN
    /\ pending = [c \in Callbacks |-> 0]
    /\ resyncs = 0
    /\ sent = [height |-> 0, time |-> 0, quick |-> FALSE]

Alive(l) == loops[l].pc \notin {"none", "stopped"}

\* Loop l goes to pc and forgets its channel and its block.
ReturnTo(l, pc) == loops' = [loops EXCEPT ![l] = [NoLoop EXCEPT !.pc = pc]]

-----------------------------------------------------------------------------
Start ==
    \/ /\ active
       /\ UNCHANGED genVars
    \/ /\ ~active
       /\ quit < MaxStarts
       /\ active' = TRUE
       /\ quit' = quit + 1
       /\ loops' = [loops EXCEPT ![quit + 1].pc = "top"]
       /\ overlapped' = (overlapped \/ \E l \in Loops : Alive(l))
       /\ UNCHANGED closed

\* Mutation of Close: the quit channel is not closed.
Close_KeepsQuit ==
    /\ sending' = <<>>
    /\ active' = FALSE
    /\ UNCHANGED <<quit, closed, loops, overlapped>>

\* Receives from whoever waits to send and closes the channel of the loop.
Close ==
    /\ sending' = <<>>
    /\ active' = FALSE
    /\ closed' = IF active THEN closed \cup {quit} ELSE closed
    /\ UNCHANGED <<quit, loops, overlapped>>

-----------------------------------------------------------------------------
\* eventLoop evaluates the cases of its select.
Select(l) ==
    /\ loops[l].pc = "top"
    /\ loops' = [loops EXCEPT ![l].pc = "select", ![l].chan = quit]
    /\ UNCHANGED <<active, quit, closed, overlapped, last, sending, envVars,
                   sent>>

Quit(l) ==
    /\ loops[l].pc = "select"
    /\ loops[l].chan \in closed
    /\ ReturnTo(l, "stopped")
    /\ UNCHANGED <<active, quit, closed, overlapped, last, sending, envVars,
                   sent>>

\* generateBlock returns before it has a block: another validator was drawn,
\* we are over the limit or no validator, there are no transactions, or the
\* encoding fails.
GiveUp(l) ==
    /\ loops[l].pc \in {"select", "seal"}
    /\ ReturnTo(l, "top")
    /\ UNCHANGED <<active, quit, closed, overlapped, last, sending, envVars,
                   sent>>

\* Mutation of GeneratedLately: the height of the best block is compared.
GeneratedLately_BestHeight ==
    /\ last.height # 0
    /\ last.height = tip.height
    /\ now < last.time + DupTime

GeneratedLately ==
    /\ last.height # 0
    /\ last.height = tip.height + 1
    /\ now < last.time + DupTime

BlockTime == IF now <= tip.time THEN tip.time + 1 ELSE now

\* The tick that draws us: the block is made on top of the best block.
Prepare(l) ==
    /\ loops[l].pc = "select"
    /\ validator
    /\ tip.height < MaxHeight
    /\ ~GeneratedLately
    /\ BlockTime <= tip.time + FutureNanos
    /\ loops' = [loops EXCEPT ![l] = [pc |-> "seal", chan |-> 0,
                 height |-> tip.height + 1, time |-> BlockTime]]
    /\ UNCHANGED <<active, quit, closed, overlapped, last, sending, envVars,
                   sent>>

\* checkBlockContext for a block of ours that extended the tip of its time.
CheckConnectBlock(blk) ==
    /\ blk.height = tip.height + 1
    /\ blk.time > tip.time
    /\ blk.time <= now + Future
    /\ validator

\* The block is signed, checked, encoded and remembered.
Seal(l) ==
    /\ loops[l].pc = "seal"
    /\ IF CheckConnectBlock(loops[l])
         THEN /\ loops' = [loops EXCEPT ![l].pc = "drain"]
              /\ last' = [height |-> loops[l].height, time |-> loops[l].time]
         ELSE /\ ReturnTo(l, "top")
              /\ UNCHANGED last
    /\ UNCHANGED <<active, quit, closed, overlapped, sending, envVars, sent>>

TooQuick(blk) == blk.height = sent.height /\ blk.time < sent.time + DupTime

\* The interrupts that wait are received until one is for this height or a
\* higher one, which gives the block up; otherwise the block is broadcast.
Broadcast(l) ==
    LET h     == loops[l].height
        stops == {i \in DOMAIN sending : sending[i] >= h}
    IN  /\ loops[l].pc = "drain"
        /\ ReturnTo(l, "top")
        /\ IF stops = {}
             THEN /\ sending' = <<>>
                  /\ sent' = [height |-> h, time |-> loops[l].time,
                              quick |-> sent.quick \/ TooQuick(loops[l])]
             ELSE /\ sending' = SubSeq(sending, 1 + CHOOSE i \in stops :
                                          \A j \in stops : i <= j, Len(sending))
                  /\ UNCHANGED sent
        /\ UNCHANGED <<active, quit, closed, overlapped, last, envVars>>

-----------------------------------------------------------------------------
\* processBlock interrupts the generator for a block that connects.
Interrupt ==
    /\ tip.height < MaxHeight
    /\ SumFunction(testing) + Len(sending) < MaxInterrupts
    /\ testing' = [testing EXCEPT ![tip.height + 1] = @ + 1]
    /\ UNCHANGED <<genVars, last, sending, chainVars, pending, resyncs, sent>>

\* The goroutine of Interrupt sends if the generator is active.
Send(h) ==
    /\ testing[h] > 0
    /\ testing' = [testing EXCEPT ![h] = @ - 1]
    /\ sending' = IF active THEN Append(sending, h) ELSE sending
    /\ UNCHANGED <<genVars, last, chainVars, pending, resyncs, sent>>

\* A block is connected: it may add us to the validator set or remove us.
ConnectBlock(t, isValidator) ==
    /\ tip.height < MaxHeight
    /\ tip.time < t /\ t <= now + Future
    /\ tip' = [height |-> tip.height + 1, time |-> t]
    /\ validator' = isValidator
    /\ pending' = CASE isValidator = validator -> pending
                    [] isValidator -> [pending EXCEPT !["add"] = @ + 1]
                    [] OTHER       -> [pending EXCEPT !["remove"] = @ + 1]
    /\ UNCHANGED <<genVars, last, sending, now, testing, resyncs, sent>>

\* SyncManager.SetCurrent, for each finalized block and at the end of a sync.
SetCurrent ==
    /\ pending["status"] = 0
    /\ pending' = [pending EXCEPT !["status"] = 1]
    /\ UNCHANGED <<genVars, last, sending, chainVars, testing, resyncs, sent>>

\* Mutation of handleCurrentStatusChange: nothing is started.
handleCurrentStatusChange_Idle ==
    /\ pending["status"] > 0
    /\ pending' = [pending EXCEPT !["status"] = @ - 1]
    /\ UNCHANGED <<genVars, last, sending, chainVars, testing, resyncs, sent>>

handleCurrentStatusChange ==
    /\ pending["status"] > 0
    /\ pending' = IF validator /\ pending["start"] = 0
                    THEN [pending EXCEPT !["status"] = @ - 1, !["start"] = @ + 1]
                    ELSE [pending EXCEPT !["status"] = @ - 1]
    /\ UNCHANGED <<genVars, last, sending, chainVars, testing, resyncs, sent>>

\* The NTAddValidator case of handleBlockchainNotification and the end of
\* handleCurrentStatusChange.
StartCallback(c) ==
    /\ c \in {"add", "start"}
    /\ pending[c] > 0
    /\ pending' = [pending EXCEPT ![c] = @ - 1]
    /\ Start
    /\ UNCHANGED <<last, sending, chainVars, testing, resyncs, sent>>

\* Its NTRemoveValidator case.
CloseCallback ==
    /\ pending["remove"] > 0
    /\ pending' = [pending EXCEPT !["remove"] = @ - 1]
    /\ \/ active /\ Close
       \/ ~active /\ UNCHANGED <<genVars, sending>>
    /\ UNCHANGED <<last, chainVars, testing, resyncs, sent>>

\* processBlock closes the generator and syncs anew; reIndexChain does so too.
Resync ==
    /\ resyncs < MaxResyncs
    /\ resyncs' = resyncs + 1
    /\ Close
    /\ UNCHANGED <<last, chainVars, pending, testing, sent>>

ClockTick ==
    /\ now < MaxTime
    /\ now' = now + 1
    /\ UNCHANGED <<genVars, last, sending, tip, validator, pending, testing,
                   resyncs, sent>>

Next ==
    \/ \E l \in Loops : Select(l) \/ Quit(l) \/ GiveUp(l) \/ Prepare(l)
                          \/ Seal(l) \/ Broadcast(l)
    \/ Interrupt
    \/ \E h \in 1..MaxHeight : Send(h)
    \/ \E t \in 1..(MaxTime + Future), v \in BOOLEAN : ConnectBlock(t, v)
    \/ SetCurrent
    \/ handleCurrentStatusChange
    \/ \E c \in Callbacks : StartCallback(c)
    \/ CloseCallback
    \/ Resync
    \/ ClockTick

Spec == Init /\ [][Next]_vars

\* Goroutines run, the ticker fires, and the chain keeps growing, so that
\* SetCurrent is called again and again.  A select chooses between a tick and
\* a closed channel at random, so it does not ignore the channel for ever.
Fairness ==
    /\ \A l \in Loops :
          /\ WF_vars(Select(l))
          /\ SF_vars(Quit(l))
          /\ WF_vars(GiveUp(l))
          /\ WF_vars(Broadcast(l))
    /\ WF_vars(SetCurrent)
    /\ WF_vars(handleCurrentStatusChange)
    /\ \A c \in Callbacks : WF_vars(StartCallback(c))
    /\ WF_vars(CloseCallback)

FairSpec == Spec /\ Fairness

-----------------------------------------------------------------------------
TypeOK ==
    /\ active \in BOOLEAN
    /\ quit \in 0..MaxStarts
    /\ closed \subseteq 1..quit
    /\ \A l \in Loops :
          /\ loops[l].pc \in {"none", "top", "select", "seal", "drain", "stopped"}
          /\ loops[l].chan \in 0..quit
    /\ last.height \in 0..MaxHeight
    /\ \A i \in DOMAIN sending : sending[i] \in 1..MaxHeight
    /\ tip.height \in 0..MaxHeight
    /\ \A c \in Callbacks : pending[c] \in Nat
    /\ resyncs \in 0..MaxResyncs

\* As long as there was only one event loop at a time, two blocks that this
\* node broadcast one after the other at the same height are at least DupTime
\* apart in their timestamps: a peer that gets them closer together bans
\* whoever relayed the second one (the inventory check of processBlock).  The
\* types are checked along with it.
NoQuickDuplicates ==
    /\ TypeOK
    /\ ~overlapped => ~sent.quick

\* Whatever the order in which notifications, status callbacks and resyncs
\* are handled, a node that remains a validator ends up generating blocks.
ValidatorGenerates == <>[]validator => <>[]active

\* Once the generator is inactive for good, all of its event loops end,
\* including those that waited on an earlier quit channel.
LoopsStop == <>[](~active) => <>[](\A l \in Loops : ~Alive(l))
=============================================================================
