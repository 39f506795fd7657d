------------------------ MODULE SenderGeneratorProofs ------------------------
(***************************************************************************)
(* Proofs about two parts that live beside the server.                     *)
(*                                                                         *)
(* MessageSender: for every number of calls and of lost connections.       *)
(*                                                                         *)
(* BlockGenerator: for every chain, clock and order of the callbacks.  A   *)
(* loop of the generator remembers the height and time of a block before   *)
(* it broadcasts the block or gives it up: Held says how far the block it  *)
(* holds is from what is remembered, Ordered that heights only grow.       *)
(***************************************************************************)
EXTENDS MessageSender, BlockGenerator, SequenceTheorems, WellFoundedInduction, TLAPS

-----------------------------------------------------------------------------
(* MessageSender.                                                          *)

PCs == {"new", "get", "prep", "ready", "send", "wait", "return", "put", "done"}
Callers == Calls \cup {None}
Streams == [up : BOOLEAN, asked : Seq(Calls), answers : Seq(Calls), by : Callers]

CallRecords == [pc : PCs, pool : Nat, sender : Callers, retry : BOOLEAN, got : Callers]
SenderRecords == [stream : Streams, invalid : BOOLEAN, torn : BOOLEAN]
PoolRecords == [idle : Seq(Calls), lastUsed : SUBSET Calls, waiting : Callers, done : BOOLEAN]

SenderTypeOK ==
    /\ call \in [Calls -> CallRecords]
    /\ sender \in [Calls -> SenderRecords]
    /\ pools \in Seq(PoolRecords)
    /\ strmap \in 0..Len(pools)
    /\ smlk \in Callers
    /\ drops \in [made : Nat, pending : Nat]
    /\ panicked \in BOOLEAN
    /\ \A c \in Calls : call[c].pc = "get" => call[c].pool \in DOMAIN pools

HoldingPCs == {"prep", "ready", "send", "wait", "return", "put"}
Holding(c) == call[c].pc \in HoldingPCs
Created(s) == s \in Calls /\ call[s].pc \notin {"new", "get"}

\* A sender is with one call or in one place of one pool.
HeldOnce ==
    /\ \A c \in Calls : Holding(c) => Created(call[c].sender)
    /\ \A c, d \in Calls :
          Holding(c) /\ Holding(d) /\ call[c].sender = call[d].sender => c = d

Free(s) == Created(s) /\ \A c \in Calls : Holding(c) => call[c].sender # s

Pooled(p, i, s) == p \in DOMAIN pools /\ i \in DOMAIN pools[p].idle /\ pools[p].idle[i] = s

IdleOnce ==
    \A s, p, i : Pooled(p, i, s) =>
        Free(s) /\ \A q, j : Pooled(q, j, s) => p = q /\ i = j

Exclusive == HeldOnce /\ IdleOnce

\* What is under way on a stream belongs to the call that waits for it.
Waits(c, s) == call[c].pc = "wait" /\ call[c].sender = s

UnderWay(s) ==
    LET asked == sender[s].stream.asked
        answers == sender[s].stream.answers
    IN  \/ asked = <<>> /\ answers = <<>>
        \/ \E c \in Calls : /\ Waits(c, s)
                            /\ \/ asked = <<c>> /\ answers = <<>>
                               \/ asked = <<>> /\ answers = <<c>>

OneUnderWay == \A s \in Calls : UnderWay(s)

\* The second attempt has a stream that the call opened, or none yet.
SecondAttempt ==
    \A c \in Calls :
        /\ call[c].pc \in {"new", "get", "prep", "ready"} => ~call[c].retry
        /\ call[c].pc \in {"send", "wait"} /\ call[c].retry =>
              sender[call[c].sender].stream.by \in {None, c}

Inv == SenderTypeOK /\ Exclusive /\ OneUnderWay /\ SecondAttempt /\ AnswersMatch

-----------------------------------------------------------------------------
(* Senders in pools.                                                       *)

\* A place of a pool is freed: whoever is left is where it was.
LEMMA IdleShrinks ==
    ASSUME IdleOnce, \A s : Free(s) => Free(s)',
           \A p, i, s : Pooled(p, i, s)' => Pooled(p, i, s)
    PROVE  IdleOnce'
<1> SUFFICES ASSUME NEW s, NEW p, NEW i, Pooled(p, i, s)'
             PROVE  Free(s)' /\ \A q, j : Pooled(q, j, s)' => p = q /\ i = j
  BY Zenon DEF IdleOnce
<1>1. Pooled(p, i, s)
  OBVIOUS
<1>2. Free(s) /\ \A q, j : Pooled(q, j, s) => p = q /\ i = j
  BY <1>1, Zenon DEF IdleOnce
<1> QED
  BY <1>2

\* Without a step of a call nothing changes for senders.
LEMMA FreeKept ==
    ASSUME call' = call
    PROVE  \A s : Free(s) => Free(s)'
  BY Zenon DEF Free, Created, Holding

-----------------------------------------------------------------------------
(* Steps of a call that holds a sender.                                    *)

LEMMA SendIsPC == "send" \in PCs /\ "return" \in PCs
  BY DEF PCs

\* The holder of a sender takes a step; v is the call then and w the sender.
\* What it leaves on the stream must be its own.
LEMMA HolderStep ==
    ASSUME Inv, NEW c \in Calls, Holding(c),
           NEW v \in CallRecords, v.pc \in HoldingPCs, v.sender = call[c].sender,
           call' = [call EXCEPT ![c] = v],
           NEW w \in SenderRecords, sender' = [sender EXCEPT ![call[c].sender] = w],
           smlk' \in Callers,
           UNCHANGED <<pools, strmap, drops, panicked>>,
           \/ w.stream.asked = <<>> /\ w.stream.answers = <<>>
           \/ v.pc = "wait" /\ w.stream.asked = <<c>> /\ w.stream.answers = <<>>
           \/ v.pc = "wait" /\ w.stream.asked = <<>> /\ w.stream.answers = <<c>>,
           v.pc \in {"prep", "ready"} => ~v.retry,
           v.pc \in {"send", "wait"} /\ v.retry => w.stream.by \in {None, c},
           v.got \in {None, c}
    PROVE  Inv'
<1> DEFINE s == call[c].sender
<1>1. SenderTypeOK /\ Exclusive /\ OneUnderWay /\ SecondAttempt /\ AnswersMatch
  BY Zenon DEF Inv
<1>2. s \in Calls /\ call[s].pc \notin {"new", "get"}
  BY <1>1, Zenon DEF Exclusive, HeldOnce, Created
<1>3. /\ call' \in [Calls -> CallRecords] /\ call'[c] = v
      /\ \A d \in Calls : d # c => call'[d] = call[d]
  BY <1>1, Zenon DEF SenderTypeOK
<1>4. /\ sender' \in [Calls -> SenderRecords] /\ sender'[s] = w
      /\ \A t \in Calls : t # s => sender'[t] = sender[t]
  BY <1>1, <1>2, Zenon DEF SenderTypeOK
<1>5. v.pc \notin {"new", "get"}
  BY SMT DEF HoldingPCs
<1>6. \A d \in Calls : /\ Holding(d)' <=> Holding(d)
                       /\ call'[d].sender = call[d].sender
  BY <1>3, Zenon DEF Holding
<1>7. \A x : Created(x) => Created(x)'
  BY <1>3, <1>5, Zenon DEF Created
<1>8. SenderTypeOK'
  <2>1. \A d \in Calls : call'[d].pc = "get" => call'[d].pool \in DOMAIN pools'
    BY <1>1, <1>3, <1>5, Zenon DEF SenderTypeOK
  <2> QED
    BY <1>1, <1>3, <1>4, <2>1, Zenon DEF SenderTypeOK
<1>9. Exclusive'
  <2>1. HeldOnce'
    BY <1>1, <1>6, <1>7, Zenon DEF Exclusive, HeldOnce
  <2>2. \A x : Free(x) => Free(x)'
    BY <1>6, <1>7, Zenon DEF Free
  <2>3. \A p, i, x : Pooled(p, i, x)' <=> Pooled(p, i, x)
    BY Zenon DEF Pooled
  <2>4. IdleOnce'
    BY <1>1, <2>2, <2>3, IdleShrinks, Zenon DEF Exclusive
  <2> QED
    BY <2>1, <2>4, Zenon DEF Exclusive
<1>10. OneUnderWay'
  <2> SUFFICES ASSUME NEW t \in Calls PROVE UnderWay(t)'
    BY Zenon DEF OneUnderWay
  <2>1. CASE t = s
    BY <1>3, <1>4, <2>1, Zenon DEF UnderWay, Waits
  <2>2. CASE t # s
    <3>1. UnderWay(t)
      BY <1>1, Zenon DEF OneUnderWay
    <3>2. \A d \in Calls : Waits(d, t) => Waits(d, t)'
      BY <1>3, <2>2, Zenon DEF Waits
    <3> QED
      BY <1>4, <2>2, <3>1, <3>2, Zenon DEF UnderWay
  <2> QED
    BY <2>1, <2>2
<1>11. SecondAttempt'
  <2> SUFFICES ASSUME NEW d \in Calls
               PROVE  /\ call'[d].pc \in {"new", "get", "prep", "ready"} => ~call'[d].retry
                      /\ call'[d].pc \in {"send", "wait"} /\ call'[d].retry =>
                            sender'[call'[d].sender].stream.by \in {None, d}
    BY Zenon DEF SecondAttempt
  <2>1. CASE d = c
    BY <1>3, <1>4, <1>5, <2>1, Zenon
  <2>2. CASE d # c
    <3>1. call'[d] = call[d]
      BY <1>3, <2>2, Zenon
    <3>2. call[d].pc \in {"send", "wait"} => sender'[call[d].sender] = sender[call[d].sender]
      <4>1. call[d].pc \in {"send", "wait"} => Holding(d)
        BY SMT DEF Holding, HoldingPCs
      <4>2. Holding(d) => call[d].sender \in Calls /\ call[d].sender # s
        BY <1>1, <2>2, Zenon DEF Exclusive, HeldOnce, Created
      <4> QED
        BY <1>4, <4>1, <4>2, Zenon
    <3> QED
      BY <1>1, <3>1, <3>2, Zenon DEF SecondAttempt
  <2> QED
    BY <2>1, <2>2
<1>12. AnswersMatch'
  BY <1>1, <1>3, Zenon DEF AnswersMatch
<1> QED
  BY <1>8, <1>9, <1>10, <1>11, <1>12, Zenon DEF Inv

\* The holder's stream carries nothing unless it waits, and then its own.
LEMMA HolderStream ==
    ASSUME Inv, NEW c \in Calls, Holding(c)
    PROVE  LET stream == sender[call[c].sender].stream
           IN  /\ call[c] \in CallRecords
               /\ call[c].sender \in Calls
               /\ sender[call[c].sender] \in SenderRecords
               /\ stream \in Streams
               /\ call[c].got \in {None, c}
               /\ \/ stream.asked = <<>> /\ stream.answers = <<>>
                  \/ /\ call[c].pc = "wait"
                     /\ \/ stream.asked = <<c>> /\ stream.answers = <<>>
                        \/ stream.asked = <<>> /\ stream.answers = <<c>>
<1> DEFINE s == call[c].sender
           stream == sender[s].stream
<1>1. SenderTypeOK /\ Exclusive /\ OneUnderWay /\ AnswersMatch
  BY Zenon DEF Inv
<1>2. s \in Calls
  BY <1>1, Zenon DEF Exclusive, HeldOnce, Created
<1>3. call[c] \in CallRecords /\ sender[s] \in SenderRecords /\ call[c].got \in {None, c}
  BY <1>1, <1>2, Zenon DEF SenderTypeOK, AnswersMatch
<1>4. stream \in Streams
  BY <1>3, Zenon DEF SenderRecords
<1>5. \A d \in Calls : Waits(d, s) => d = c
  <2>1. \A d \in Calls : call[d].pc = "wait" => Holding(d)
    BY SMT DEF Holding, HoldingPCs
  <2> QED
    BY <1>1, <2>1, Zenon DEF Exclusive, HeldOnce, Waits
<1>6. UnderWay(s)
  BY <1>1, <1>2, Zenon DEF OneUnderWay
<1> QED
  BY <1>2, <1>3, <1>4, <1>5, <1>6, Zenon DEF UnderWay, Waits

LEMMA PrepReadyKeeps ==
    ASSUME Inv, NEW c \in Calls, PrepReady(c) \/ PutLocks(c)
    PROVE  Inv'
<1> DEFINE s == call[c].sender
           v == [call[c] EXCEPT !.pc = IF PrepReady(c) THEN "ready" ELSE "put"]
           w == sender[s]
<1>1. /\ call[c].pc \in {"prep", "return"} /\ (PrepReady(c) => call[c].pc = "prep")
      /\ call' = [call EXCEPT ![c] = v]
      /\ smlk' \in {smlk, c} /\ sender' = sender /\ UNCHANGED <<pools, strmap, drops, panicked>>
  BY Zenon DEF PrepReady, PutLocks, At, Goto
<1>2. Holding(c)
  BY <1>1, SMT DEF Holding, HoldingPCs
<1>3. /\ call[c] \in CallRecords /\ s \in Calls /\ w \in SenderRecords /\ call[c].got \in {None, c}
      /\ w.stream.asked = <<>> /\ w.stream.answers = <<>>
  BY <1>1, <1>2, HolderStream, "prep" # "wait", "return" # "wait", Zenon
<1>4. /\ v \in CallRecords /\ v.pc \in HoldingPCs /\ v.sender = s
      /\ v.pc = IF PrepReady(c) THEN "ready" ELSE "put"
      /\ v.got = call[c].got /\ v.retry = call[c].retry
  BY <1>3, SMT DEF CallRecords, HoldingPCs, PCs
<1>5. sender' = [sender EXCEPT ![s] = w]
  BY <1>1, Zenon DEF Inv, SenderTypeOK
<1>6. PrepReady(c) => ~call[c].retry
  BY <1>1, Zenon DEF Inv, SecondAttempt
<1>7. smlk' \in Callers
  BY <1>1, Zenon DEF Inv, SenderTypeOK, Callers
<1>8. v.pc \in {"prep", "ready"} => ~v.retry
  BY <1>4, <1>6, SMT
<1>9. v.pc \notin {"send", "wait"}
  BY <1>4, SMT
<1> HIDE DEF v, w
<1> QED
  BY <1>1, <1>2, <1>3, <1>4, <1>5, <1>7, <1>8, <1>9, HolderStep, Zenon

\* A stream that a call opens is empty and its own.
LEMMA PrepOpensKeeps ==
    ASSUME Inv, NEW c \in Calls, PrepOpens(c)
    PROVE  Inv'
<1> DEFINE s == call[c].sender
           v == [call[c] EXCEPT !.pc = IF call[c].pc = "prep" THEN "ready" ELSE "send"]
           w == [sender[s] EXCEPT !.stream = FreshStream(c), !.invalid = FALSE]
<1>1. /\ call[c].pc \in {"prep", "ready", "send"}
      /\ call' = [call EXCEPT ![c] = v] /\ sender' = [sender EXCEPT ![s] = w]
      /\ UNCHANGED <<pools, strmap, smlk, drops, panicked>>
  BY Zenon DEF PrepOpens, At, Goto
<1>2. Holding(c)
  BY <1>1, SMT DEF Holding, HoldingPCs
<1>3. /\ call[c] \in CallRecords /\ s \in Calls /\ sender[s] \in SenderRecords
      /\ call[c].got \in {None, c}
  BY <1>1, <1>2, HolderStream, Zenon
<1>4. /\ v \in CallRecords /\ v.pc \in HoldingPCs /\ v.sender = s
      /\ v.pc = IF call[c].pc = "prep" THEN "ready" ELSE "send"
      /\ v.got = call[c].got /\ v.retry = call[c].retry
  BY <1>3, SMT DEF CallRecords, HoldingPCs, PCs
<1>5. FreshStream(c) \in Streams
  BY SMT DEF FreshStream, Streams, Callers
<1>6. w \in SenderRecords /\ w.stream = FreshStream(c)
  BY <1>3, <1>5, Zenon DEF SenderRecords
<1>7. w.stream.asked = <<>> /\ w.stream.answers = <<>> /\ w.stream.by = c
  BY <1>6 DEF FreshStream
<1>8. v.pc \in {"prep", "ready"} => ~v.retry
  BY <1>4, "send" # "ready", "send" # "prep", Zenon DEF Inv, SecondAttempt
<1>9. smlk' \in Callers
  BY <1>1, Zenon DEF Inv, SenderTypeOK
<1> HIDE DEF v, w
<1> QED
  BY <1>1, <1>2, <1>3, <1>4, <1>6, <1>7, <1>8, <1>9, HolderStep, Zenon

\* A call ends, without an answer or with its own, on a stream that is empty.
LEMMA ReturnKeeps ==
    ASSUME Inv, NEW c \in Calls, Holding(c), NEW got \in {None, c}, Return(c, got),
           NEW w \in SenderRecords, sender' = [sender EXCEPT ![call[c].sender] = w],
           w.stream.asked = <<>>, w.stream.answers = <<>>,
           UNCHANGED <<pools, strmap, smlk, drops, panicked>>
    PROVE  Inv'
<1> DEFINE v == [call[c] EXCEPT !.pc = "return", !.got = got]
<1>1. call' = [call EXCEPT ![c] = v]
  BY Zenon DEF Return
<1>2. call[c] \in CallRecords
  BY HolderStream, Zenon
<1>3. got \in Callers
  BY SMT DEF Callers
<1>4. /\ v \in CallRecords /\ v.pc \in HoldingPCs /\ v.sender = call[c].sender
      /\ v.pc = "return" /\ v.got = got
  <2>1. v \in CallRecords
    BY <1>2, <1>3, SendIsPC, Zenon DEF CallRecords
  <2> QED
    BY <1>2, <2>1, SMT DEF CallRecords, HoldingPCs
<1>5. v.pc \notin {"prep", "ready", "send", "wait"}
  BY <1>4, SMT
<1>6. smlk' \in Callers
  BY Zenon DEF Inv, SenderTypeOK
<1> HIDE DEF v
<1> QED
  BY <1>1, <1>4, <1>5, <1>6, HolderStep, Zenon

\* invalidate leaves a sender without a stream.
LEMMA Invalidated ==
    ASSUME NEW r \in SenderRecords, NEW b \in BOOLEAN
    PROVE  LET w == [r EXCEPT !.invalid = b, !.stream = NoStream]
           IN  /\ w \in SenderRecords /\ w.stream.asked = <<>> /\ w.stream.answers = <<>>
               /\ w.stream.by = None
<1>1. NoStream \in Streams
  BY SMT DEF NoStream, Streams, Callers
<1>2. [r EXCEPT !.invalid = b, !.stream = NoStream] \in SenderRecords
  BY <1>1, Zenon DEF SenderRecords
<1>3. [r EXCEPT !.invalid = b, !.stream = NoStream].stream = NoStream
  BY SMT DEF SenderRecords
<1>4. NoStream.asked = <<>> /\ NoStream.answers = <<>> /\ NoStream.by = None
  BY DEF NoStream
<1> QED
  BY <1>2, <1>3, <1>4

LEMMA PrepFailsKeeps ==
    ASSUME Inv, NEW c \in Calls, PrepFails(c)
    PROVE  Inv'
<1> DEFINE s == call[c].sender
           w == [sender[s] EXCEPT !.invalid = TRUE, !.stream = NoStream]
<1>1. /\ call[c].pc \in {"prep", "ready", "send"}
      /\ Return(c, None) /\ sender' = [sender EXCEPT ![s] = w]
      /\ UNCHANGED <<pools, strmap, smlk, drops, panicked>>
  BY Zenon DEF PrepFails, At, invalidate
<1>2. Holding(c)
  BY <1>1, SMT DEF Holding, HoldingPCs
<1>3. sender[s] \in SenderRecords
  BY <1>2, HolderStream, Zenon
<1>4. w \in SenderRecords /\ w.stream.asked = <<>> /\ w.stream.answers = <<>>
  BY <1>3, Invalidated
<1> HIDE DEF w
<1> QED
  BY <1>1, <1>2, <1>4, ReturnKeeps, Zenon

LEMMA AttemptFailsKeeps ==
    ASSUME Inv, NEW c \in Calls, WriteFails(c) \/ ReadFails(c)
    PROVE  Inv'
<1> DEFINE s == call[c].sender
<1>1. /\ call[c].pc \in {"ready", "send", "wait"}
      /\ AttemptFails(c)
      /\ UNCHANGED <<pools, strmap, smlk, drops, panicked>>
  BY Zenon DEF WriteFails, ReadFails, At
<1>2. Holding(c)
  BY <1>1, SMT DEF Holding, HoldingPCs
<1>3. call[c] \in CallRecords /\ sender[s] \in SenderRecords /\ call[c].got \in {None, c}
  BY <1>2, HolderStream, Zenon
<1>4. CASE call[c].retry
  <2> DEFINE w == [sender[s] EXCEPT !.invalid = TRUE, !.stream = NoStream]
  <2>1. Return(c, None) /\ sender' = [sender EXCEPT ![s] = w]
    BY <1>1, <1>4, Zenon DEF AttemptFails, invalidate
  <2>2. w \in SenderRecords /\ w.stream.asked = <<>> /\ w.stream.answers = <<>>
    BY <1>3, Invalidated
  <2> HIDE DEF w
  <2> QED
    BY <1>1, <1>2, <2>1, <2>2, ReturnKeeps, Zenon
<1>5. CASE ~call[c].retry
  <2> DEFINE v == [call[c] EXCEPT !.pc = "send", !.retry = TRUE]
             w == [sender[s] EXCEPT !.stream = NoStream]
  <2>1. call' = [call EXCEPT ![c] = v] /\ sender' = [sender EXCEPT ![s] = w]
    BY <1>1, <1>5, Zenon DEF AttemptFails
  <2>2. /\ v \in CallRecords /\ v.pc \in HoldingPCs /\ v.sender = s
        /\ v.pc = "send" /\ v.got = call[c].got
    <3>1. v \in CallRecords
      BY <1>3, SendIsPC, Zenon DEF CallRecords
    <3> QED
      BY <1>3, <3>1, SMT DEF CallRecords, HoldingPCs
  <2>3. NoStream \in Streams
    BY SMT DEF NoStream, Streams, Callers
  <2>4. w \in SenderRecords /\ w.stream = NoStream
    BY <1>3, <2>3, SMT DEF SenderRecords
  <2>5. w.stream.asked = <<>> /\ w.stream.answers = <<>> /\ w.stream.by = None
    BY <2>4 DEF NoStream
  <2>6. smlk' \in Callers
    BY <1>1, Zenon DEF Inv, SenderTypeOK
  <2>7. v.pc \notin {"prep", "ready"}
    BY <2>2, SMT
  <2> HIDE DEF v, w
  <2> QED
    BY <1>1, <1>2, <1>3, <2>1, <2>2, <2>4, <2>5, <2>6, <2>7, HolderStep, Zenon
<1> QED
  BY <1>4, <1>5

LEMMA WriteKeeps ==
    ASSUME Inv, NEW c \in Calls, Write(c)
    PROVE  Inv'
<1> DEFINE s == call[c].sender
           v == [call[c] EXCEPT !.pc = "wait"]
           w == [sender[s] EXCEPT !.stream.asked = Append(@, c)]
<1>1. /\ call[c].pc \in {"ready", "send"}
      /\ call' = [call EXCEPT ![c] = v] /\ sender' = [sender EXCEPT ![s] = w]
      /\ UNCHANGED <<pools, strmap, smlk, drops, panicked>>
  BY Zenon DEF Write, At, Goto
<1>2. Holding(c)
  BY <1>1, SMT DEF Holding, HoldingPCs
<1>3. /\ call[c] \in CallRecords /\ s \in Calls /\ sender[s] \in SenderRecords
      /\ call[c].got \in {None, c} /\ sender[s].stream \in Streams
      /\ sender[s].stream.asked = <<>> /\ sender[s].stream.answers = <<>>
  BY <1>1, <1>2, HolderStream, "ready" # "wait", "send" # "wait", Zenon
<1>4. /\ v \in CallRecords /\ v.pc \in HoldingPCs /\ v.sender = s
      /\ v.pc = "wait" /\ v.got = call[c].got /\ v.retry = call[c].retry
  BY <1>3, SMT DEF CallRecords, HoldingPCs, PCs
<1>5. Append(<<>>, c) = <<c>> /\ <<c>> \in Seq(Calls)
  BY SMT
<1>6. /\ w \in SenderRecords /\ w.stream.asked = <<c>> /\ w.stream.answers = <<>>
      /\ w.stream.by = sender[s].stream.by
  <2>1. [sender[s].stream EXCEPT !.asked = <<c>>] \in Streams
    BY <1>3, <1>5, Zenon DEF Streams
  <2>2. w = [sender[s] EXCEPT !.stream = [sender[s].stream EXCEPT !.asked = <<c>>]]
    BY <1>3, <1>5
  <2>3. w \in SenderRecords /\ w.stream = [sender[s].stream EXCEPT !.asked = <<c>>]
    BY <1>3, <2>1, <2>2, Zenon DEF SenderRecords
  <2> QED
    BY <1>3, <2>3, Zenon DEF Streams
<1>7. v.retry => w.stream.by \in {None, c}
  <2>1. call[c].pc = "ready" => ~call[c].retry
    BY Zenon DEF Inv, SecondAttempt
  <2>2. call[c].pc = "send" /\ call[c].retry => sender[s].stream.by \in {None, c}
    BY Zenon DEF Inv, SecondAttempt
  <2> QED
    BY <1>1, <1>4, <1>6, <2>1, <2>2, Zenon
<1>8. v.pc \notin {"prep", "ready"}
  BY <1>4, SMT
<1>9. smlk' \in Callers
  BY <1>1, Zenon DEF Inv, SenderTypeOK
<1> HIDE DEF v, w
<1> QED
  BY <1>1, <1>2, <1>3, <1>4, <1>6, <1>7, <1>8, <1>9, HolderStep, Zenon

\* The answer that is read is the call's own.
LEMMA ReadKeeps ==
    ASSUME Inv, NEW c \in Calls, Read(c)
    PROVE  Inv' /\ call'[c].got = c
<1> DEFINE s == call[c].sender
           w == [sender[s] EXCEPT !.stream.answers = Tail(@)]
           got == Head(sender[s].stream.answers)
<1>1. /\ call[c].pc = "wait" /\ sender[s].stream.answers # <<>>
      /\ Return(c, got) /\ sender' = [sender EXCEPT ![s] = w]
      /\ UNCHANGED <<pools, strmap, smlk, drops, panicked>>
  BY Zenon DEF Read, At
<1>2. Holding(c)
  BY <1>1, SMT DEF Holding, HoldingPCs
<1>3. /\ call[c] \in CallRecords /\ s \in Calls /\ sender[s] \in SenderRecords
      /\ sender[s].stream \in Streams
      /\ sender[s].stream.asked = <<>> /\ sender[s].stream.answers = <<c>>
  BY <1>1, <1>2, HolderStream, Zenon
<1>4. Head(<<c>>) = c /\ Tail(<<c>>) = <<>>
  BY SMT
<1>5. got = c
  BY <1>3, <1>4, Zenon
<1>6. w \in SenderRecords /\ w.stream.asked = <<>> /\ w.stream.answers = <<>>
  BY <1>3, <1>4, SMT DEF SenderRecords, Streams
<1>7. call'[c].got = c
  <2>1. call \in [Calls -> CallRecords]
    BY Zenon DEF Inv, SenderTypeOK
  <2> QED
    BY <1>1, <1>5, <2>1, SMT DEF Return, CallRecords
<1> HIDE DEF w, got
<1>8. Inv'
  BY <1>1, <1>2, <1>5, <1>6, ReturnKeeps, Zenon
<1> QED
  BY <1>7, <1>8

-----------------------------------------------------------------------------
(* Pools.                                                                  *)

\* A pool is replaced by r.
LEMMA PoolReplaced ==
    ASSUME SenderTypeOK, NEW p \in DOMAIN pools, NEW r \in PoolRecords,
           pools' = [pools EXCEPT ![p] = r]
    PROVE  /\ pools' \in Seq(PoolRecords) /\ Len(pools') = Len(pools)
           /\ DOMAIN pools' = DOMAIN pools
           /\ \A q, i, s : Pooled(q, i, s)' <=>
                 \/ q # p /\ Pooled(q, i, s)
                 \/ q = p /\ i \in DOMAIN r.idle /\ r.idle[i] = s
<1>1. pools \in Seq(PoolRecords)
  BY Zenon DEF SenderTypeOK
<1>2. /\ pools' \in Seq(PoolRecords) /\ Len(pools') = Len(pools) /\ DOMAIN pools' = DOMAIN pools
  BY <1>1, SMT
<1>3. pools'[p] = r /\ \A q \in DOMAIN pools : q # p => pools'[q] = pools[q]
  BY <1>1, Zenon
<1> QED
  BY <1>2, <1>3, Zenon DEF Pooled

\* The type of a pool.
LEMMA PoolType ==
    ASSUME SenderTypeOK, NEW p \in DOMAIN pools
    PROVE  /\ pools[p] \in PoolRecords
           /\ pools[p].idle \in Seq(Calls)
           /\ pools[p].waiting \in Callers
           /\ pools[p].lastUsed \in SUBSET Calls
<1>1. pools[p] \in PoolRecords
  BY SMT DEF SenderTypeOK
<1> QED
  BY <1>1, Zenon DEF PoolRecords

LEMMA FindPoolKeeps ==
    ASSUME Inv, NEW c \in Calls, FindPool(c)
    PROVE  Inv'
<1> DEFINE v == [call[c] EXCEPT !.pc = "get", !.pool = strmap']
           fresh == [idle |-> <<>>, lastUsed |-> {}, waiting |-> None, done |-> FALSE]
<1>1. SenderTypeOK /\ Exclusive /\ OneUnderWay /\ SecondAttempt /\ AnswersMatch
  BY Zenon DEF Inv
<1>2. /\ call[c].pc = "new" /\ UNCHANGED <<sender, smlk, drops, panicked>>
      /\ call' = [call EXCEPT ![c] = v]
      /\ \/ strmap # None /\ UNCHANGED <<pools, strmap>>
         \/ pools' = Append(pools, fresh) /\ strmap' = Len(pools) + 1
  BY Zenon DEF FindPool, At
<1>3. fresh \in PoolRecords /\ fresh.idle = <<>>
  BY SMT DEF PoolRecords, Callers
<1> HIDE DEF fresh
<1>4. /\ pools' \in Seq(PoolRecords) /\ strmap' \in 1..Len(pools')
      /\ DOMAIN pools' = 1..Len(pools') /\ DOMAIN pools \subseteq DOMAIN pools'
      /\ strmap' \in Nat
      /\ \A p \in DOMAIN pools : pools'[p] = pools[p]
      /\ \A p \in DOMAIN pools' \ DOMAIN pools : pools'[p] = fresh
  <2>1. pools \in Seq(PoolRecords) /\ strmap \in 0..Len(pools)
    BY <1>1, Zenon DEF SenderTypeOK
  <2>2. CASE strmap # None /\ UNCHANGED <<pools, strmap>>
    BY <2>1, <2>2, SMT DEF None
  <2>3. CASE pools' = Append(pools, fresh) /\ strmap' = Len(pools) + 1
    BY <1>3, <2>1, <2>3, SMT
  <2> QED
    BY <1>2, <2>2, <2>3
<1>5. /\ v \in CallRecords /\ v.pc = "get" /\ v.pool = strmap' /\ v.sender = call[c].sender
      /\ v.got = call[c].got /\ v.retry = call[c].retry
  <2>1. call[c] \in CallRecords
    BY <1>1, Zenon DEF SenderTypeOK
  <2>2. "get" \in PCs
    BY DEF PCs
  <2>3. v \in CallRecords
    BY <1>4, <2>1, <2>2, Zenon DEF CallRecords
  <2> QED
    BY <2>1, <2>3, SMT DEF CallRecords
<1> HIDE DEF v
<1>6. /\ call' \in [Calls -> CallRecords] /\ call'[c] = v
      /\ \A d \in Calls : d # c => call'[d] = call[d]
  BY <1>1, <1>2, <1>5, Zenon DEF SenderTypeOK
<1>7. SenderTypeOK'
  <2>1. strmap' \in 0..Len(pools')
    BY <1>4, SMT
  <2>2. \A d \in Calls : call'[d].pc = "get" => call'[d].pool \in DOMAIN pools'
    <3>1. \A d \in Calls : call[d].pc = "get" => call[d].pool \in DOMAIN pools
      BY <1>1, Zenon DEF SenderTypeOK
    <3>2. strmap' \in DOMAIN pools'
      BY <1>4, Zenon
    <3> QED
      BY <1>4, <1>5, <1>6, <3>1, <3>2, Zenon
  <2> QED
    BY <1>1, <1>2, <1>4, <1>6, <2>1, <2>2, Zenon DEF SenderTypeOK
<1>8. \A d \in Calls : /\ Holding(d)' <=> Holding(d)
                       /\ call'[d].sender = call[d].sender
  <2>1. v.pc \notin HoldingPCs /\ call[c].pc \notin HoldingPCs
    BY <1>2, <1>5, SMT DEF HoldingPCs
  <2> QED
    BY <1>5, <1>6, <2>1, Zenon DEF Holding
<1>9. \A x : Created(x)' <=> Created(x)
  BY <1>2, <1>5, <1>6, Zenon DEF Created
<1>10. Exclusive'
  <2>1. HeldOnce'
    BY <1>1, <1>8, <1>9, Zenon DEF Exclusive, HeldOnce
  <2>2. \A x : Free(x) => Free(x)'
    BY <1>8, <1>9, Zenon DEF Free
  <2>3. \A p, i, x : Pooled(p, i, x)' => Pooled(p, i, x)
    <3>1. DOMAIN <<>> = {}
      BY SMT
    <3> QED
      BY <1>3, <1>4, <3>1, Zenon DEF Pooled
  <2>4. IdleOnce'
    BY <1>1, <2>2, <2>3, IdleShrinks, Zenon DEF Exclusive
  <2> QED
    BY <2>1, <2>4, Zenon DEF Exclusive
<1>11. OneUnderWay'
  <2>1. \A d, s : Waits(d, s) /\ d \in Calls => Waits(d, s)'
    BY <1>2, <1>6, "new" # "wait", Zenon DEF Waits
  <2> QED
    BY <1>1, <1>2, <2>1, Zenon DEF OneUnderWay, UnderWay
<1>12. SecondAttempt'
  BY <1>1, <1>2, <1>5, <1>6, "get" # "send", "get" # "wait", Zenon DEF SecondAttempt
<1>13. AnswersMatch'
  BY <1>1, <1>5, <1>6, Zenon DEF AnswersMatch
<1> QED
  BY <1>7, <1>10, <1>11, <1>12, <1>13, Zenon DEF Inv

\* A call takes the sender that was put back last, which nobody else has, or
\* makes one.
LEMMA GetKeeps ==
    ASSUME Inv, NEW c \in Calls, Get(c)
    PROVE  Inv'
<1>p. PICK p : p = call[c].pool
  OBVIOUS
<1>i. PICK idle : idle = pools[p].idle
  OBVIOUS
<1>s. PICK s : s = IF idle = <<>> THEN c ELSE Last(idle)
  OBVIOUS
<1>r. PICK rest : rest = IF idle = <<>> THEN idle ELSE Front(idle)
  OBVIOUS
<1> DEFINE v == [call[c] EXCEPT !.pc = "prep", !.sender = s]
           r == [pools[p] EXCEPT !.idle = rest, !.lastUsed = @ \cup {s}]
<1>1. SenderTypeOK /\ Exclusive /\ OneUnderWay /\ SecondAttempt /\ AnswersMatch
  BY Zenon DEF Inv
<1>2. /\ call[c].pc = "get"
      /\ pools' = [pools EXCEPT ![p] = r]
      /\ call' = [call EXCEPT ![c] = v]
      /\ UNCHANGED <<sender, strmap, smlk, drops, panicked>>
  BY <1>p, <1>i, <1>s, <1>r, Zenon DEF Get, At
<1>3. p \in DOMAIN pools
  BY <1>1, <1>2, <1>p, Zenon DEF SenderTypeOK
<1>4. pools[p] \in PoolRecords /\ idle \in Seq(Calls)
  BY <1>1, <1>3, <1>i, PoolType, Zenon
<1>5. /\ s \in Calls /\ rest \in Seq(Calls)
      /\ \A i \in DOMAIN rest : i \in DOMAIN idle /\ rest[i] = idle[i]
      /\ idle # <<>> => /\ Len(idle) \in DOMAIN idle /\ idle[Len(idle)] = s
                        /\ Len(idle) \notin DOMAIN rest
  <2>1. CASE idle = <<>>
    BY <1>4, <1>s, <1>r, <2>1, SMT
  <2>2. CASE idle # <<>>
    <3>1. /\ Len(idle) \in Nat \ {0} /\ DOMAIN idle = 1..Len(idle)
          /\ idle[Len(idle)] \in Calls
      BY <1>4, <2>2, SMT
    <3>2. s = idle[Len(idle)] /\ rest = SubSeq(idle, 1, Len(idle) - 1)
      BY <1>s, <1>r, <2>2, Zenon DEF Last, Front
    <3>3. /\ rest \in Seq(Calls) /\ Len(rest) = Len(idle) - 1
          /\ \A i \in 1..(Len(idle) - 1) : rest[i] = idle[i]
      BY <1>4, <3>1, <3>2, SMT
    <3> QED
      BY <1>4, <3>1, <3>2, <3>3, SMT
  <2> QED
    BY <2>1, <2>2
<1>6. call[c] \in CallRecords
  BY <1>1, Zenon DEF SenderTypeOK
<1>7. v \in CallRecords
  <2>1. "prep" \in PCs /\ s \in Callers
    BY <1>5, SMT DEF PCs, Callers
  <2> QED
    BY <1>6, <2>1, Zenon DEF CallRecords
<1>8. v.pc = "prep" /\ v.sender = s /\ v.got = call[c].got /\ v.retry = call[c].retry
  BY <1>6, SMT DEF CallRecords
<1>9. r \in PoolRecords /\ r.idle = rest
  <2>1. pools[p].lastUsed \cup {s} \in SUBSET Calls
    BY <1>4, <1>5, SMT DEF PoolRecords
  <2>2. r \in PoolRecords
    BY <1>4, <1>5, <2>1, Zenon DEF PoolRecords
  <2>3. r.idle = rest
    BY <1>4, Zenon DEF PoolRecords
  <2> QED
    BY <2>2, <2>3
<1> HIDE DEF v, r
<1>10. /\ pools' \in Seq(PoolRecords) /\ Len(pools') = Len(pools) /\ DOMAIN pools' = DOMAIN pools
       /\ \A q, i, x : Pooled(q, i, x)' <=>
             \/ q # p /\ Pooled(q, i, x)
             \/ q = p /\ i \in DOMAIN rest /\ rest[i] = x
  <2>1. /\ pools' \in Seq(PoolRecords) /\ Len(pools') = Len(pools) /\ DOMAIN pools' = DOMAIN pools
        /\ \A q, i, x : Pooled(q, i, x)' <=>
              \/ q # p /\ Pooled(q, i, x)
              \/ q = p /\ i \in DOMAIN r.idle /\ r.idle[i] = x
    BY <1>1, <1>2, <1>3, <1>9, PoolReplaced, Zenon
  <2> QED
    BY <1>9, <2>1, Zenon
<1>11. /\ call' \in [Calls -> CallRecords] /\ call'[c] = v
       /\ \A d \in Calls : d # c => call'[d] = call[d]
  BY <1>1, <1>2, <1>7, Zenon DEF SenderTypeOK
<1>12. SenderTypeOK'
  <2>1. \A d \in Calls : call'[d].pc = "get" => call'[d].pool \in DOMAIN pools'
    BY <1>1, <1>8, <1>10, <1>11, "prep" # "get", Zenon DEF SenderTypeOK
  <2>2. strmap' \in 0..Len(pools')
    BY <1>1, <1>2, <1>10, Zenon DEF SenderTypeOK
  <2> QED
    BY <1>1, <1>2, <1>10, <1>11, <2>1, <2>2, Zenon DEF SenderTypeOK
<1>13. Holding(c)' /\ ~Holding(c) /\ \A d \in Calls : d # c => (Holding(d)' <=> Holding(d))
  <2>1. v.pc \in HoldingPCs /\ call[c].pc \notin HoldingPCs
    BY <1>2, <1>8, SMT DEF HoldingPCs
  <2> QED
    BY <1>11, <2>1, Zenon DEF Holding
<1>14. /\ \A x : Created(x) => Created(x)' /\ x # c
       /\ Created(c)'
  <2>1. v.pc \notin {"new", "get"}
    BY <1>8, SMT
  <2> QED
    BY <1>2, <1>11, <2>1, Zenon DEF Created
<1>15. \/ s = c /\ idle = <<>>
       \/ idle # <<>> /\ Pooled(p, Len(idle), s)
  BY <1>3, <1>5, <1>i, <1>s, Zenon DEF Pooled
<1>16. Created(s)' /\ \A d \in Calls : Holding(d) => call[d].sender # s
  <2>1. CASE s = c
    <3>1. \A d \in Calls : Holding(d) => Created(call[d].sender)
      BY <1>1, Zenon DEF Exclusive, HeldOnce
    <3> QED
      BY <1>14, <2>1, <3>1, Zenon
  <2>2. CASE Pooled(p, Len(idle), s)
    <3>1. Free(s)
      BY <1>1, <2>2, Zenon DEF Exclusive, IdleOnce
    <3> QED
      BY <1>14, <3>1, Zenon DEF Free
  <2> QED
    BY <1>15, <2>1, <2>2
<1>17. HeldOnce'
  <2>1. ASSUME NEW d \in Calls, Holding(d)', NEW x, x = call'[d].sender
        PROVE  Created(x)'
    <3>1. CASE d = c
      BY <1>8, <1>11, <1>16, <2>1, <3>1, Zenon
    <3>2. CASE d # c
      BY <1>1, <1>11, <1>13, <1>14, <2>1, <3>2, Zenon DEF Exclusive, HeldOnce
    <3> QED
      BY <3>1, <3>2
  <2>2. ASSUME NEW d \in Calls, NEW e \in Calls, Holding(d)', Holding(e)',
               call'[d].sender = call'[e].sender
        PROVE  d = e
    BY <1>1, <1>8, <1>11, <1>13, <1>16, <2>2, Zenon DEF Exclusive, HeldOnce
  <2> QED
    BY <2>1, <2>2, Zenon DEF HeldOnce, Created
<1>18. IdleOnce'
  <2> SUFFICES ASSUME NEW x, NEW q, NEW i, Pooled(q, i, x)'
               PROVE  Free(x)' /\ \A k, j : Pooled(k, j, x)' => q = k /\ i = j
    BY Zenon DEF IdleOnce
  <2>1. \A k, j : Pooled(k, j, x)' => Pooled(k, j, x) /\ ~(k = p /\ j = Len(idle) /\ idle # <<>>)
    <3> SUFFICES ASSUME NEW k, NEW j, Pooled(k, j, x)'
                 PROVE  Pooled(k, j, x) /\ ~(k = p /\ j = Len(idle) /\ idle # <<>>)
      BY Zenon
    <3>1. \/ k # p /\ Pooled(k, j, x)
          \/ k = p /\ j \in DOMAIN rest /\ rest[j] = x
      BY <1>10, Zenon
    <3>2. CASE k = p /\ j \in DOMAIN rest /\ rest[j] = x
      BY <1>3, <1>5, <1>i, <3>2, Zenon DEF Pooled
    <3> QED
      BY <3>1, <3>2
  <2>2. Free(x) /\ \A k, j : Pooled(k, j, x) => q = k /\ i = j
    BY <1>1, <2>1, Zenon DEF Exclusive, IdleOnce
  <2>3. x # s
    <3>1. CASE s = c
      BY <1>14, <2>2, <3>1, Zenon DEF Free
    <3>2. CASE idle # <<>> /\ Pooled(p, Len(idle), s)
      BY <2>1, <2>2, <3>2, Zenon
    <3> QED
      BY <1>15, <3>1, <3>2
  <2>4. Free(x)'
    BY <1>8, <1>11, <1>13, <1>14, <2>2, <2>3, Zenon DEF Free
  <2> QED
    BY <2>1, <2>2, <2>4, Zenon
<1>19. OneUnderWay'
  <2>1. \A d, x : Waits(d, x) /\ d \in Calls => Waits(d, x)'
    BY <1>2, <1>11, "get" # "wait", Zenon DEF Waits
  <2> QED
    BY <1>1, <1>2, <2>1, Zenon DEF OneUnderWay, UnderWay
<1>20. SecondAttempt'
  BY <1>1, <1>2, <1>8, <1>11, "prep" # "send", "prep" # "wait", Zenon DEF SecondAttempt
<1>21. AnswersMatch'
  BY <1>1, <1>8, <1>11, Zenon DEF AnswersMatch
<1> QED
  BY <1>12, <1>17, <1>18, <1>19, <1>20, <1>21, Zenon DEF Inv, Exclusive

\* A call puts the sender back that it alone had.
LEMMA PutKeeps ==
    ASSUME Inv, NEW c \in Calls, Put(c)
    PROVE  Inv'
<1>s. PICK s : s = call[c].sender
  OBVIOUS
<1> DEFINE v == [call[c] EXCEPT !.pc = "done"]
           r == [pools[strmap] EXCEPT !.idle = Append(@, s), !.lastUsed = @ \cup {s}]
<1>1. SenderTypeOK /\ Exclusive /\ OneUnderWay /\ SecondAttempt /\ AnswersMatch
  BY Zenon DEF Inv
<1>2. /\ call[c].pc = "put" /\ smlk' = None
      /\ call' = [call EXCEPT ![c] = v]
      /\ \/ pools' = pools
         \/ strmap # None /\ pools' = [pools EXCEPT ![strmap] = r]
      /\ UNCHANGED <<sender, strmap, drops, panicked>>
  BY <1>s, Zenon DEF Put, At, Goto
<1>3. Holding(c)
  BY <1>2, SMT DEF Holding, HoldingPCs
<1>4. s \in Calls /\ Created(s) /\ \A d \in Calls : Holding(d) /\ call[d].sender = s => d = c
  BY <1>1, <1>3, <1>s, Zenon DEF Exclusive, HeldOnce, Created
<1>5. call[c] \in CallRecords
  BY <1>1, Zenon DEF SenderTypeOK
<1>6. /\ v \in CallRecords /\ v.pc = "done" /\ v.sender = s /\ v.got = call[c].got
      /\ v.retry = call[c].retry
  BY <1>5, <1>s, SMT DEF CallRecords, PCs
<1> HIDE DEF v
<1>7. /\ call' \in [Calls -> CallRecords] /\ call'[c] = v
      /\ \A d \in Calls : d # c => call'[d] = call[d]
  BY <1>1, <1>2, <1>6, Zenon DEF SenderTypeOK
<1>8. ~Holding(c)' /\ \A d \in Calls : d # c => (Holding(d)' <=> Holding(d))
  <2>1. v.pc \notin HoldingPCs
    BY <1>6, SMT DEF HoldingPCs
  <2> QED
    BY <1>7, <2>1, Zenon DEF Holding
<1>9. \A x : Created(x) => Created(x)'
  <2>1. v.pc \notin {"new", "get"}
    BY <1>6, SMT
  <2> QED
    BY <1>7, <2>1, Zenon DEF Created
<1>10. \A x : Free(x) => Free(x)'
  BY <1>7, <1>8, <1>9, Zenon DEF Free
<1>11. Free(s)'
  BY <1>4, <1>7, <1>8, <1>9, Zenon DEF Free
<1>12. ~Free(s)
  BY <1>3, <1>s, Zenon DEF Free
<1>13. HeldOnce'
  <2>1. ASSUME NEW d \in Calls, Holding(d)', NEW x, x = call'[d].sender
        PROVE  Created(x)'
    BY <1>1, <1>7, <1>8, <1>9, <2>1, Zenon DEF Exclusive, HeldOnce
  <2>2. ASSUME NEW d \in Calls, NEW e \in Calls, Holding(d)', Holding(e)',
               call'[d].sender = call'[e].sender
        PROVE  d = e
    BY <1>1, <1>7, <1>8, <2>2, Zenon DEF Exclusive, HeldOnce
  <2> QED
    BY <2>1, <2>2, Zenon DEF HeldOnce, Created
<1>14. OneUnderWay'
  <2>1. \A d, x : Waits(d, x) /\ d \in Calls => Waits(d, x)'
    BY <1>2, <1>7, "put" # "wait", Zenon DEF Waits
  <2> QED
    BY <1>1, <1>2, <2>1, Zenon DEF OneUnderWay, UnderWay
<1>15. SecondAttempt'
  <2>1. v.pc \notin {"new", "get", "prep", "ready", "send", "wait"}
    BY <1>6, SMT
  <2> QED
    BY <1>1, <1>2, <1>7, <2>1, Zenon DEF SecondAttempt
<1>16. AnswersMatch'
  BY <1>1, <1>6, <1>7, Zenon DEF AnswersMatch
<1>17. smlk' \in Callers
  BY <1>2, SMT DEF Callers
<1>18. \A d \in Calls : call'[d].pc = "get" => call'[d].pool \in DOMAIN pools
  BY <1>1, <1>6, <1>7, "done" # "get", Zenon DEF SenderTypeOK
<1>19. CASE pools' = pools
  <2>1. SenderTypeOK'
    BY <1>1, <1>2, <1>7, <1>17, <1>18, <1>19, Zenon DEF SenderTypeOK
  <2>2. \A q, i, x : Pooled(q, i, x)' => Pooled(q, i, x)
    BY <1>19, Zenon DEF Pooled
  <2>3. IdleOnce'
    BY <1>1, <1>10, <2>2, IdleShrinks, Zenon DEF Exclusive
  <2> QED
    BY <1>13, <1>14, <1>15, <1>16, <2>1, <2>3, Zenon DEF Inv, Exclusive
<1>20. CASE strmap # None /\ pools' = [pools EXCEPT ![strmap] = r]
  <2>p. PICK p : p = strmap
    OBVIOUS
  <2>i. PICK idle : idle = pools[p].idle
    OBVIOUS
  <2>1. p \in DOMAIN pools
    <3>1. pools \in Seq(PoolRecords) /\ strmap \in 0..Len(pools) /\ strmap # 0
      BY <1>1, <1>20, Zenon DEF SenderTypeOK, None
    <3> QED
      BY <2>p, <3>1, SMT
  <2>2. pools[p] \in PoolRecords /\ idle \in Seq(Calls) /\ pools[p].lastUsed \in SUBSET Calls
    BY <1>1, <2>1, <2>i, PoolType, Zenon
  <2>3. r \in PoolRecords /\ r.idle = Append(idle, s)
    <3>1. pools[p].lastUsed \cup {s} \in SUBSET Calls
      BY <1>4, <2>2, Zenon
    <3>2. Append(idle, s) \in Seq(Calls)
      BY <1>4, <2>2, SMT
    <3>3. r = [pools[p] EXCEPT !.idle = Append(idle, s), !.lastUsed = pools[p].lastUsed \cup {s}]
      BY <2>p, <2>i, Zenon
    <3> HIDE DEF r
    <3>4. r \in PoolRecords
      BY <2>2, <3>1, <3>2, <3>3, Zenon DEF PoolRecords
    <3>5. r.idle = Append(idle, s)
      BY <2>2, <3>3, Zenon DEF PoolRecords
    <3> QED
      BY <3>4, <3>5
  <2> HIDE DEF r
  <2>4. /\ pools' \in Seq(PoolRecords) /\ Len(pools') = Len(pools) /\ DOMAIN pools' = DOMAIN pools
        /\ \A q, i, x : Pooled(q, i, x)' <=>
              \/ q # p /\ Pooled(q, i, x)
              \/ q = p /\ i \in DOMAIN r.idle /\ r.idle[i] = x
    BY <1>1, <1>20, <2>1, <2>3, <2>p, PoolReplaced, Zenon
  <2>5. SenderTypeOK'
    <3>1. strmap' \in 0..Len(pools')
      BY <1>1, <1>2, <2>4, Zenon DEF SenderTypeOK
    <3> QED
      BY <1>1, <1>2, <1>7, <1>17, <1>18, <2>4, <3>1, Zenon DEF SenderTypeOK
  <2>6. \A q, i, x : Pooled(q, i, x)' =>
                        Pooled(q, i, x) \/ (q = p /\ i = Len(idle) + 1 /\ x = s)
    <3> SUFFICES ASSUME NEW q, NEW i, NEW x, Pooled(q, i, x)'
                 PROVE  Pooled(q, i, x) \/ (q = p /\ i = Len(idle) + 1 /\ x = s)
      BY Zenon
    <3>1. CASE q # p
      BY <2>4, <3>1, Zenon
    <3>2. CASE q = p
      <4>1. i \in DOMAIN Append(idle, s) /\ Append(idle, s)[i] = x
        BY <2>3, <2>4, <3>2, Zenon
      <4>2. (i \in DOMAIN idle /\ idle[i] = x) \/ (i = Len(idle) + 1 /\ x = s)
        BY <2>2, <4>1, SMT
      <4> QED
        BY <2>1, <2>i, <3>2, <4>2, Zenon DEF Pooled
    <3> QED
      BY <3>1, <3>2
  <2>7. IdleOnce'
    <3> SUFFICES ASSUME NEW x, NEW q, NEW i, Pooled(q, i, x)'
                 PROVE  Free(x)' /\ \A k, j : Pooled(k, j, x)' => q = k /\ i = j
      BY Zenon DEF IdleOnce
    <3>1. \A k, j : ~Pooled(k, j, s)
      BY <1>1, <1>12, Zenon DEF Exclusive, IdleOnce
    <3>2. CASE x = s
      BY <1>11, <2>6, <3>1, <3>2
    <3>3. CASE x # s
      <4>1. \A k, j : Pooled(k, j, x)' => Pooled(k, j, x)
        BY <2>6, <3>3
      <4>2. Free(x) /\ \A k, j : Pooled(k, j, x) => q = k /\ i = j
        BY <1>1, <4>1, Zenon DEF Exclusive, IdleOnce
      <4> QED
        BY <1>10, <4>1, <4>2, Zenon
    <3> QED
      BY <3>2, <3>3
  <2> QED
    BY <1>13, <1>14, <1>15, <1>16, <2>5, <2>7, Zenon DEF Inv, Exclusive
<1> QED
  BY <1>2, <1>19, <1>20

-----------------------------------------------------------------------------
(* The peer, the network and the collector.                                *)

\* A step of anyone but a call.
LEMMA EnvironmentStep ==
    ASSUME Inv, call' = call, sender' \in [Calls -> SenderRecords],
           \A s \in Calls : sender'[s].stream.by \in {None, sender[s].stream.by},
           \A s \in Calls : UnderWay(s)',
           pools' \in Seq(PoolRecords), DOMAIN pools' = DOMAIN pools, IdleOnce',
           strmap' \in 0..Len(pools'), smlk' = smlk,
           drops' \in [made : Nat, pending : Nat], panicked' \in BOOLEAN
    PROVE  Inv'
<1>1. SenderTypeOK /\ Exclusive /\ SecondAttempt /\ AnswersMatch
  BY Zenon DEF Inv
<1>2. SenderTypeOK'
  BY <1>1, Zenon DEF SenderTypeOK
<1>3. HeldOnce'
  BY <1>1, Zenon DEF Exclusive, HeldOnce, Holding, Created
<1>5. SecondAttempt'
  <2>1. \A c \in Calls : call[c].pc \in {"send", "wait"} => call[c].sender \in Calls
    <3>1. \A c \in Calls : call[c].pc \in {"send", "wait"} => Holding(c)
      BY SMT DEF Holding, HoldingPCs
    <3> QED
      BY <1>1, <3>1, Zenon DEF Exclusive, HeldOnce, Created
  <2> QED
    BY <1>1, <2>1, Zenon DEF SecondAttempt
<1>6. AnswersMatch'
  BY <1>1, Zenon DEF AnswersMatch
<1> QED
  BY <1>2, <1>3, <1>5, <1>6, Zenon DEF Inv, Exclusive, OneUnderWay

\* Where a stream is unchanged or emptied, what is under way still has its call.
LEMMA UnderWayKept ==
    ASSUME Inv, call' = call, NEW s \in Calls,
           \/ sender'[s].stream = sender[s].stream
           \/ sender'[s].stream.asked = <<>> /\ sender'[s].stream.answers = <<>>
    PROVE  UnderWay(s)'
<1>1. UnderWay(s)
  BY Zenon DEF Inv, OneUnderWay
<1>2. \A c : Waits(c, s) => Waits(c, s)'
  BY Zenon DEF Waits
<1> QED
  BY <1>1, <1>2, Zenon DEF UnderWay

\* The parts of the type invariant that most of these steps leave alone.
LEMMA PoolsAlone ==
    ASSUME Inv, UNCHANGED <<call, pools, strmap>>
    PROVE  /\ pools' \in Seq(PoolRecords) /\ DOMAIN pools' = DOMAIN pools
           /\ IdleOnce'
           /\ strmap' \in 0..Len(pools')
<1>1. pools \in Seq(PoolRecords) /\ strmap \in 0..Len(pools)
  BY Zenon DEF Inv, SenderTypeOK
<1>2. \A q, i, s : Pooled(q, i, s)' => Pooled(q, i, s)
  BY Zenon DEF Pooled
<1>3. IdleOnce'
  BY <1>2, FreeKept, IdleShrinks, Zenon DEF Inv, Exclusive
<1> QED
  BY <1>1, <1>3

LEMMA HandleMessageKeeps ==
    ASSUME Inv, NEW s \in Calls, HandleMessage(s)
    PROVE  Inv'
<1> DEFINE stream == sender[s].stream
           answer == [Handled(s) EXCEPT !.answers = Append(@, Head(stream.asked))]
<1>1. /\ stream.asked # <<>>
      /\ \E next \in {answer, [answer EXCEPT !.up = FALSE], Handled(s)} :
            sender' = [sender EXCEPT ![s].stream = next]
      /\ UNCHANGED <<call, pools, strmap, smlk, drops, panicked>>
  BY Zenon DEF HandleMessage
<1>2. SenderTypeOK
  BY Zenon DEF Inv
<1>3. sender \in [Calls -> SenderRecords] /\ sender[s] \in SenderRecords
  BY <1>2, Zenon DEF SenderTypeOK
<1>4. stream \in Streams
  BY <1>3, Zenon DEF SenderRecords
<1>5. PICK c \in Calls : Waits(c, s) /\ stream.asked = <<c>> /\ stream.answers = <<>>
  <2>1. UnderWay(s)
    BY Zenon DEF Inv, OneUnderWay
  <2> QED
    BY <1>1, <2>1, Zenon DEF UnderWay
<1>6. Head(<<c>>) = c /\ Tail(<<c>>) = <<>> /\ Append(<<>>, c) = <<c>> /\ <<c>> \in Seq(Calls)
      /\ <<>> \in Seq(Calls)
  BY SMT
<1>7. Handled(s) = [stream EXCEPT !.asked = <<>>]
  BY <1>5, <1>6 DEF Handled
<1>8. /\ Handled(s) \in Streams /\ Handled(s).by = stream.by
      /\ Handled(s).asked = <<>> /\ Handled(s).answers = <<>>
  <2>1. Handled(s) \in Streams
    BY <1>4, <1>6, <1>7, Zenon DEF Streams
  <2> QED
    BY <1>4, <1>5, <1>7, <2>1, SMT DEF Streams
<1>9. answer = [Handled(s) EXCEPT !.answers = <<c>>]
  BY <1>5, <1>6, <1>8
<1>10. /\ answer \in Streams /\ answer.by = stream.by
       /\ answer.asked = <<>> /\ answer.answers = <<c>>
  <2>1. answer \in Streams
    BY <1>6, <1>8, <1>9, Zenon DEF Streams
  <2> QED
    BY <1>8, <1>9, <2>1, SMT DEF Streams
<1> HIDE DEF answer
<1>11. /\ [answer EXCEPT !.up = FALSE] \in Streams
       /\ [answer EXCEPT !.up = FALSE].by = stream.by
       /\ [answer EXCEPT !.up = FALSE].asked = <<>>
       /\ [answer EXCEPT !.up = FALSE].answers = <<c>>
  <2>1. [answer EXCEPT !.up = FALSE] \in Streams
    BY <1>10, Zenon DEF Streams
  <2> QED
    BY <1>10, <2>1, SMT DEF Streams
<1>12. PICK next \in Streams : /\ sender' = [sender EXCEPT ![s].stream = next]
                               /\ next.by = stream.by /\ next.asked = <<>>
                               /\ next.answers \in {<<>>, <<c>>}
  BY <1>1, <1>8, <1>10, <1>11, Zenon
<1>13. /\ sender' \in [Calls -> SenderRecords] /\ sender'[s].stream = next
       /\ \A t \in Calls : t # s => sender'[t] = sender[t]
  <2>1. [sender[s] EXCEPT !.stream = next] \in SenderRecords
    BY <1>3, Zenon DEF SenderRecords
  <2>2. [sender[s] EXCEPT !.stream = next].stream = next
    BY <1>3, Zenon DEF SenderRecords
  <2>3. sender' = [sender EXCEPT ![s] = [sender[s] EXCEPT !.stream = next]]
    BY <1>12, Zenon
  <2> QED
    BY <1>3, <2>1, <2>2, <2>3, Zenon
<1>14. Waits(c, s)'
  BY <1>1, <1>5, Zenon DEF Waits
<1>15. ASSUME NEW t \in Calls PROVE UnderWay(t)'
  <2>1. CASE t = s
    BY <1>12, <1>13, <1>14, <2>1, Zenon DEF UnderWay
  <2>2. CASE t # s
    BY <1>1, <1>13, <2>2, UnderWayKept, Zenon
  <2> QED
    BY <2>1, <2>2
<1>16. \A t \in Calls : sender'[t].stream.by \in {None, sender[t].stream.by}
  BY <1>12, <1>13, Zenon
<1>17. drops' \in [made : Nat, pending : Nat] /\ panicked' \in BOOLEAN
  BY <1>1, <1>2, Zenon DEF SenderTypeOK
<1> QED
  BY <1>1, <1>13, <1>15, <1>16, <1>17, PoolsAlone, EnvironmentStep, Zenon

LEMMA DisconnectKeeps ==
    ASSUME Inv, Disconnect
    PROVE  Inv'
<1> DEFINE cut(s) == [sender[s].stream EXCEPT !.up = FALSE, !.asked = <<>>, !.answers = <<>>]
<1>1. /\ drops' = [made |-> drops.made + 1, pending |-> drops.pending + 1]
      /\ sender' = [s \in Calls |-> [sender[s] EXCEPT !.stream = cut(s)]]
      /\ UNCHANGED <<call, pools, strmap, smlk, panicked>>
  BY Zenon DEF Disconnect
<1>2. SenderTypeOK
  BY Zenon DEF Inv
<1>3. ASSUME NEW s \in Calls
      PROVE  /\ [sender[s] EXCEPT !.stream = cut(s)] \in SenderRecords
             /\ sender'[s].stream.asked = <<>> /\ sender'[s].stream.answers = <<>>
             /\ sender'[s].stream.by = sender[s].stream.by
  <2>1. sender[s] \in SenderRecords
    BY <1>2, Zenon DEF SenderTypeOK
  <2>2. sender[s].stream \in Streams
    BY <2>1, Zenon DEF SenderRecords
  <2>3. <<>> \in Seq(Calls)
    BY SMT
  <2>4. cut(s) \in Streams
    BY <2>2, <2>3, Zenon DEF Streams
  <2>5. cut(s).asked = <<>> /\ cut(s).answers = <<>> /\ cut(s).by = sender[s].stream.by
    BY <2>2, SMT DEF Streams
  <2> HIDE DEF cut
  <2>6. [sender[s] EXCEPT !.stream = cut(s)] \in SenderRecords
    BY <2>1, <2>4, Zenon DEF SenderRecords
  <2>7. sender'[s].stream = cut(s)
    BY <1>1, <2>1, Zenon DEF SenderRecords
  <2> QED
    BY <2>5, <2>6, <2>7
<1> HIDE DEF cut
<1>4. sender' \in [Calls -> SenderRecords]
  BY <1>1, <1>3, Zenon
<1>5. \A s \in Calls : UnderWay(s)'
  BY <1>1, <1>3, UnderWayKept, Zenon
<1>6. \A s \in Calls : sender'[s].stream.by \in {None, sender[s].stream.by}
  BY <1>3, Zenon
<1>7. drops' \in [made : Nat, pending : Nat] /\ panicked' \in BOOLEAN
  <2>1. drops \in [made : Nat, pending : Nat] /\ panicked \in BOOLEAN
    BY <1>2, Zenon DEF SenderTypeOK
  <2>2. drops.made + 1 \in Nat /\ drops.pending + 1 \in Nat
    BY <2>1, SMT
  <2> QED
    BY <1>1, <2>1, <2>2, Zenon
<1> QED
  BY <1>1, <1>4, <1>5, <1>6, <1>7, PoolsAlone, EnvironmentStep, Zenon

LEMMA OnDisconnectKeeps ==
    ASSUME Inv, OnDisconnect
    PROVE  Inv'
<1> DEFINE r == [pools[strmap] EXCEPT !.done = TRUE]
<1>1. /\ drops.pending > 0 /\ drops' = [drops EXCEPT !.pending = @ - 1]
      /\ \/ UNCHANGED <<pools, strmap>>
         \/ strmap # None /\ pools' = [pools EXCEPT ![strmap] = r] /\ strmap' = None
      /\ UNCHANGED <<call, sender, smlk, panicked>>
  BY Zenon DEF OnDisconnect
<1>2. SenderTypeOK
  BY Zenon DEF Inv
<1>3. drops' \in [made : Nat, pending : Nat] /\ panicked' \in BOOLEAN
  <2>1. drops \in [made : Nat, pending : Nat] /\ panicked \in BOOLEAN
    BY <1>2, Zenon DEF SenderTypeOK
  <2> QED
    BY <1>1, <2>1, SMT
<1>4. sender' \in [Calls -> SenderRecords]
  BY <1>1, <1>2, Zenon DEF SenderTypeOK
<1>5. /\ \A s \in Calls : UnderWay(s)'
      /\ \A s \in Calls : sender'[s].stream.by \in {None, sender[s].stream.by}
  BY <1>1, UnderWayKept, Zenon
<1>6. CASE UNCHANGED <<pools, strmap>>
  BY <1>1, <1>3, <1>4, <1>5, <1>6, PoolsAlone, EnvironmentStep, Zenon
<1>7. CASE strmap # None /\ pools' = [pools EXCEPT ![strmap] = r] /\ strmap' = None
  <2>p. PICK p : p = strmap
    OBVIOUS
  <2>1. p \in DOMAIN pools
    <3>1. pools \in Seq(PoolRecords) /\ strmap \in 0..Len(pools) /\ strmap # 0
      BY <1>2, <1>7, Zenon DEF SenderTypeOK, None
    <3> QED
      BY <2>p, <3>1, SMT
  <2>2. r \in PoolRecords /\ r.idle = pools[p].idle
    <3>1. pools[p] \in PoolRecords
      BY <1>2, <2>1, PoolType, Zenon
    <3> QED
      BY <2>p, <3>1, Zenon DEF PoolRecords
  <2> HIDE DEF r
  <2>3. /\ pools' \in Seq(PoolRecords) /\ Len(pools') = Len(pools) /\ DOMAIN pools' = DOMAIN pools
        /\ \A q, i, x : Pooled(q, i, x)' <=>
              \/ q # p /\ Pooled(q, i, x)
              \/ q = p /\ i \in DOMAIN r.idle /\ r.idle[i] = x
    BY <1>2, <1>7, <2>1, <2>2, <2>p, PoolReplaced, Zenon
  <2>4. \A i, x : i \in DOMAIN r.idle /\ r.idle[i] = x => Pooled(p, i, x)
    BY <2>1, <2>2, Zenon DEF Pooled
  <2>5. \A q, i, x : Pooled(q, i, x)' => Pooled(q, i, x)
    BY <2>3, <2>4
  <2>6. IdleOnce'
    BY <1>1, <2>5, FreeKept, IdleShrinks, Zenon DEF Inv, Exclusive
  <2>7. strmap' \in 0..Len(pools')
    BY <1>7, <2>3, SMT DEF None
  <2> QED
    BY <1>1, <1>3, <1>4, <1>5, <2>3, <2>6, <2>7, EnvironmentStep, Zenon
<1> QED
  BY <1>1, <1>6, <1>7

\* The collector tears down a sender that no call waits for.
LEMMA teardownKeeps ==
    ASSUME Inv, NEW p \in DOMAIN pools, teardown(p)
    PROVE  Inv'
<1>s. PICK s : s = pools[p].waiting
  OBVIOUS
<1> DEFINE r == [pools[p] EXCEPT !.lastUsed = @ \ {s}, !.waiting = None]
           w == [sender[s] EXCEPT !.stream = NoStream, !.torn = TRUE]
<1>1. /\ s # None
      /\ sender' = [sender EXCEPT ![s] = w]
      /\ pools' = [pools EXCEPT ![p] = r]
      /\ UNCHANGED <<call, strmap, smlk, drops, panicked>>
  BY <1>s, Zenon DEF teardown
<1>2. SenderTypeOK
  BY Zenon DEF Inv
<1>3. pools[p] \in PoolRecords /\ s \in Callers /\ pools[p].lastUsed \in SUBSET Calls
  BY <1>2, <1>s, PoolType, Zenon
<1>4. s \in Calls
  BY <1>1, <1>3, Zenon DEF Callers
<1>5. r \in PoolRecords /\ r.idle = pools[p].idle
  <2>1. pools[p].lastUsed \ {s} \in SUBSET Calls /\ None \in Callers
    BY <1>3, SMT DEF Callers
  <2>2. r \in PoolRecords
    BY <1>3, <2>1, Zenon DEF PoolRecords
  <2> QED
    BY <1>3, <2>2, SMT DEF PoolRecords
<1>6. /\ sender \in [Calls -> SenderRecords] /\ w \in SenderRecords /\ w.stream = NoStream
  <2>1. sender \in [Calls -> SenderRecords] /\ sender[s] \in SenderRecords
    BY <1>2, <1>4, Zenon DEF SenderTypeOK
  <2>2. NoStream \in Streams
    BY SMT DEF NoStream, Streams, Callers
  <2>3. w \in SenderRecords
    BY <2>1, <2>2, Zenon DEF SenderRecords
  <2>4. w.stream = NoStream
    BY <2>1, SMT DEF SenderRecords
  <2> QED
    BY <2>1, <2>3, <2>4
<1> HIDE DEF r, w
<1>7. /\ sender' \in [Calls -> SenderRecords] /\ sender'[s].stream = NoStream
      /\ \A t \in Calls : t # s => sender'[t] = sender[t]
  BY <1>1, <1>4, <1>6, Zenon
<1>8. NoStream.asked = <<>> /\ NoStream.answers = <<>> /\ NoStream.by = None
  BY DEF NoStream
<1>9. /\ \A t \in Calls : UnderWay(t)'
      /\ \A t \in Calls : sender'[t].stream.by \in {None, sender[t].stream.by}
  BY <1>1, <1>7, <1>8, UnderWayKept, Zenon
<1>10. /\ pools' \in Seq(PoolRecords) /\ Len(pools') = Len(pools) /\ DOMAIN pools' = DOMAIN pools
       /\ \A q, i, x : Pooled(q, i, x)' <=>
             \/ q # p /\ Pooled(q, i, x)
             \/ q = p /\ i \in DOMAIN r.idle /\ r.idle[i] = x
  BY <1>1, <1>2, <1>5, PoolReplaced, Zenon
<1>11. \A i, x : i \in DOMAIN r.idle /\ r.idle[i] = x => Pooled(p, i, x)
  BY <1>5, Zenon DEF Pooled
<1>12. \A q, i, x : Pooled(q, i, x)' => Pooled(q, i, x)
  BY <1>10, <1>11
<1>13. IdleOnce'
  BY <1>1, <1>12, FreeKept, IdleShrinks, Zenon DEF Inv, Exclusive
<1>14. /\ strmap' \in 0..Len(pools') /\ drops' \in [made : Nat, pending : Nat]
       /\ panicked' \in BOOLEAN
  BY <1>1, <1>2, <1>10, Zenon DEF SenderTypeOK
<1> QED
  BY <1>1, <1>7, <1>9, <1>10, <1>13, <1>14, EnvironmentStep, Zenon

\* RemoveAt takes out one element and moves those behind it up.
LEMMA RemovedAt ==
    ASSUME NEW S, NEW seq \in Seq(S), NEW k \in DOMAIN seq
    PROVE  /\ RemoveAt(seq, k) \in Seq(S)
           /\ \A i \in DOMAIN RemoveAt(seq, k) :
                 IF i < k THEN i \in DOMAIN seq /\ RemoveAt(seq, k)[i] = seq[i]
                 ELSE i + 1 \in DOMAIN seq /\ RemoveAt(seq, k)[i] = seq[i + 1]
<1> DEFINE a == SubSeq(seq, 1, k - 1)
           b == SubSeq(seq, k + 1, Len(seq))
<1>1. k \in 1..Len(seq) /\ Len(seq) \in Nat /\ \A i \in 1..Len(seq) : seq[i] \in S
  BY SMT
<1>2. /\ a \in Seq(S) /\ Len(a) = k - 1 /\ \A i \in 1..(k - 1) : a[i] = seq[i]
  BY <1>1, SMT
<1>3. /\ b \in Seq(S) /\ Len(b) = Len(seq) - k
      /\ \A i \in 1..(Len(seq) - k) : b[i] = seq[k + i]
  BY <1>1, SMT
<1>4. RemoveAt(seq, k) = a \o b
  BY DEF RemoveAt
<1> HIDE DEF a, b
<1>5. /\ a \o b \in Seq(S) /\ DOMAIN (a \o b) = 1..(Len(seq) - 1)
      /\ \A i \in 1..(Len(seq) - 1) : (a \o b)[i] = IF i <= k - 1 THEN a[i] ELSE b[i - (k - 1)]
  BY <1>1, <1>2, <1>3, SMT
<1>6. ASSUME NEW i \in 1..(Len(seq) - 1), i < k
      PROVE  i \in DOMAIN seq /\ (a \o b)[i] = seq[i]
  BY <1>1, <1>2, <1>5, <1>6, SMT
<1>7. ASSUME NEW i \in 1..(Len(seq) - 1), ~(i < k)
      PROVE  i + 1 \in DOMAIN seq /\ (a \o b)[i] = seq[i + 1]
  <2>1. i - (k - 1) \in 1..(Len(seq) - k) /\ k + (i - (k - 1)) = i + 1 /\ ~(i <= k - 1)
        /\ i + 1 \in DOMAIN seq
    BY <1>1, <1>7, SMT
  <2> QED
    <3>1. (a \o b)[i] = b[i - (k - 1)]
      BY <1>5, <2>1, Zenon
    <3>2. b[i - (k - 1)] = seq[k + (i - (k - 1))]
      BY <1>3, <2>1, Zenon
    <3> QED
      BY <2>1, <3>1, <3>2, Zenon
<1> QED
  BY <1>4, <1>5, <1>6, <1>7, Zenon

LEMMA CollectKeeps ==
    ASSUME Inv, NEW p \in DOMAIN pools, NEW s \in Calls, Collect(p, s)
    PROVE  Inv'
<1>i. PICK idle : idle = pools[p].idle
  OBVIOUS
<1> DEFINE r == [pools[p] EXCEPT !.idle = Removed(idle, s), !.waiting = s]
<1>1. /\ pools' = [pools EXCEPT ![p] = r]
      /\ UNCHANGED <<call, sender, strmap, smlk, drops, panicked>>
  BY <1>i, Zenon DEF Collect
<1>2. SenderTypeOK /\ IdleOnce
  BY Zenon DEF Inv, Exclusive
<1>3. pools[p] \in PoolRecords /\ idle \in Seq(Calls)
  BY <1>2, <1>i, PoolType, Zenon
\* Where an element that is left was before.
<1>k. PICK k : k \in Int /\ /\ Removed(idle, s) \in Seq(Calls)
               /\ \A i \in DOMAIN Removed(idle, s) :
                     IF i < k THEN i \in DOMAIN idle /\ Removed(idle, s)[i] = idle[i]
                     ELSE i + 1 \in DOMAIN idle /\ Removed(idle, s)[i] = idle[i + 1]
  <2>1. CASE s \in ToSet(idle)
    <3> DEFINE n == CHOOSE i \in DOMAIN idle : idle[i] = s
    <3>1. n \in DOMAIN idle
      BY <2>1, Zenon DEF ToSet
    <3>2. Removed(idle, s) = RemoveAt(idle, n)
      BY <2>1, Zenon DEF Removed
    <3>3. n \in Int
      BY <1>3, <3>1, SMT
    <3> HIDE DEF n
    <3>4. /\ RemoveAt(idle, n) \in Seq(Calls)
          /\ \A i \in DOMAIN RemoveAt(idle, n) :
                IF i < n THEN i \in DOMAIN idle /\ RemoveAt(idle, n)[i] = idle[i]
                ELSE i + 1 \in DOMAIN idle /\ RemoveAt(idle, n)[i] = idle[i + 1]
      BY <1>3, <3>1, RemovedAt, Zenon
    <3> QED
      BY <3>2, <3>3, <3>4, Zenon
  <2>2. CASE s \notin ToSet(idle)
    <3>1. Removed(idle, s) = idle
      BY <2>2, Zenon DEF Removed
    <3>2. Len(idle) + 1 \in Int /\ \A i \in DOMAIN idle : i < Len(idle) + 1
      BY <1>3, SMT
    <3> QED
      BY <1>3, <3>1, <3>2, Zenon
  <2> QED
    BY <2>1, <2>2
<1>4. r \in PoolRecords /\ r.idle = Removed(idle, s)
  <2>1. s \in Callers
    BY DEF Callers
  <2>2. r \in PoolRecords
    BY <1>3, <1>k, <2>1, Zenon DEF PoolRecords
  <2>3. r.idle = Removed(idle, s)
    BY <1>3, SMT DEF PoolRecords
  <2> QED
    BY <2>2, <2>3
<1> HIDE DEF r
<1>5. /\ pools' \in Seq(PoolRecords) /\ Len(pools') = Len(pools) /\ DOMAIN pools' = DOMAIN pools
      /\ \A q, i, x : Pooled(q, i, x)' <=>
            \/ q # p /\ Pooled(q, i, x)
            \/ q = p /\ i \in DOMAIN r.idle /\ r.idle[i] = x
  BY <1>1, <1>2, <1>4, PoolReplaced, Zenon
<1> DEFINE was(q, i) == IF q = p /\ ~(i < k) THEN i + 1 ELSE i
<1>6. ASSUME NEW q, NEW i, NEW x, Pooled(q, i, x)'
      PROVE  Pooled(q, was(q, i), x) /\ (q = p => i \in Int)
  <2>1. CASE q # p
    BY <1>5, <1>6, <2>1, Zenon
  <2>2. CASE q = p
    <3>1. i \in DOMAIN Removed(idle, s) /\ Removed(idle, s)[i] = x
      BY <1>4, <1>5, <1>6, <2>2, Zenon
    <3>2. was(q, i) \in DOMAIN idle /\ idle[was(q, i)] = x
      BY <1>k, <2>2, <3>1, Zenon
    <3>3. i \in Int
      BY <1>k, <3>1, SMT
    <3> QED
      BY <1>i, <2>2, <3>2, <3>3, Zenon DEF Pooled
  <2> QED
    BY <2>1, <2>2
<1>7. IdleOnce'
  <2> SUFFICES ASSUME NEW x, NEW q, NEW i, Pooled(q, i, x)'
               PROVE  Free(x)' /\ \A l, j : Pooled(l, j, x)' => q = l /\ i = j
    BY Zenon DEF IdleOnce
  <2>1. Pooled(q, was(q, i), x) /\ (q = p => i \in Int)
    BY <1>6
  <2>2. Free(x) /\ \A l, j : Pooled(l, j, x) => q = l /\ was(q, i) = j
    BY <1>2, <2>1, Zenon DEF IdleOnce
  <2>3. ASSUME NEW l, NEW j, Pooled(l, j, x)' PROVE q = l /\ i = j
    <3>1. Pooled(l, was(l, j), x) /\ (l = p => j \in Int)
      BY <1>6, <2>3
    <3>2. q = l /\ was(q, i) = was(l, j)
      BY <2>2, <3>1, Zenon
    <3>3. CASE q = p
      BY <1>k, <2>1, <3>1, <3>2, <3>3, SMT
    <3>4. CASE q # p
      BY <3>2, <3>4, Zenon
    <3> QED
      BY <3>2, <3>3, <3>4
  <2>4. Free(x)'
    BY <1>1, <2>2, FreeKept, Zenon
  <2> QED
    BY <2>3, <2>4, Zenon
<1>8. /\ strmap' \in 0..Len(pools') /\ drops' \in [made : Nat, pending : Nat]
      /\ panicked' \in BOOLEAN /\ sender' \in [Calls -> SenderRecords]
  BY <1>1, <1>2, <1>5, Zenon DEF SenderTypeOK
<1>9. /\ \A t \in Calls : UnderWay(t)'
      /\ \A t \in Calls : sender'[t].stream.by \in {None, sender[t].stream.by}
  BY <1>1, UnderWayKept, Zenon
<1> QED
  BY <1>1, <1>5, <1>7, <1>8, <1>9, EnvironmentStep, Zenon

-----------------------------------------------------------------------------
(* The theorems.                                                           *)

LEMMA InitInv ==
    ASSUME SenderInit
    PROVE  Inv
<1> DEFINE v == [pc |-> "new", pool |-> None, sender |-> None, retry |-> FALSE, got |-> None]
           w == [stream |-> NoStream, invalid |-> FALSE, torn |-> FALSE]
<1>1. v \in CallRecords /\ v.pc = "new" /\ v.got = None /\ v.retry = FALSE
  BY SMT DEF CallRecords, PCs, Callers, None
<1>2. w \in SenderRecords /\ w.stream = NoStream
  BY SMT DEF SenderRecords, NoStream, Streams, Callers
<1> HIDE DEF v, w
<1>3. /\ \A c \in Calls : call[c] = v /\ sender[c] = w
      /\ call \in [Calls -> CallRecords] /\ sender \in [Calls -> SenderRecords]
  BY <1>1, <1>2, Zenon DEF SenderInit, v, w
<1>4. SenderTypeOK
  <2>1. \A c \in Calls : call[c].pc # "get"
    BY <1>1, <1>3, "new" # "get", Zenon
  <2>2. pools \in Seq(PoolRecords) /\ strmap \in 0..Len(pools) /\ smlk \in Callers
    BY SMT DEF SenderInit, None, Callers
  <2>3. drops \in [made : Nat, pending : Nat]
    BY SMT DEF SenderInit
  <2>4. panicked \in BOOLEAN
    BY Zenon DEF SenderInit
  <2> QED
    BY <1>3, <2>1, <2>2, <2>3, <2>4, Zenon DEF SenderTypeOK
<1>5. \A c \in Calls : ~Holding(c)
  BY <1>1, <1>3, SMT DEF Holding, HoldingPCs
<1>6. Exclusive
  <2>1. DOMAIN pools = {}
    BY SMT DEF SenderInit
  <2> QED
    BY <1>5, <2>1, Zenon DEF Exclusive, HeldOnce, IdleOnce, Pooled
<1>7. OneUnderWay
  <2>1. NoStream.asked = <<>> /\ NoStream.answers = <<>>
    BY DEF NoStream
  <2> QED
    BY <1>2, <1>3, <2>1, Zenon DEF OneUnderWay, UnderWay
<1>8. SecondAttempt
  BY <1>1, <1>3, "new" # "send", "new" # "wait", Zenon DEF SecondAttempt
<1>9. AnswersMatch
  BY <1>1, <1>3, Zenon DEF AnswersMatch
<1> QED
  BY <1>4, <1>6, <1>7, <1>8, <1>9, Zenon DEF Inv

\* A panic, and a step that is none, leave everything as it is.
LEMMA StutterKeeps ==
    ASSUME Inv, UNCHANGED <<call, sender, pools, strmap, smlk, drops>>, panicked' \in BOOLEAN
    PROVE  Inv'
<1>1. /\ sender' \in [Calls -> SenderRecords] /\ drops' \in [made : Nat, pending : Nat]
  BY Zenon DEF Inv, SenderTypeOK
<1>2. /\ \A t \in Calls : UnderWay(t)'
      /\ \A t \in Calls : sender'[t].stream.by \in {None, sender[t].stream.by}
  BY UnderWayKept, Zenon
<1> QED
  BY <1>1, <1>2, PoolsAlone, EnvironmentStep, Zenon

LEMMA NextInv ==
    ASSUME Inv, [SenderNext]_senderVars
    PROVE  Inv'
<1>1. CASE UNCHANGED senderVars
  <2>1. panicked' \in BOOLEAN
    BY <1>1, Zenon DEF senderVars, Inv, SenderTypeOK
  <2> QED
    BY <1>1, <2>1, StutterKeeps, Zenon DEF senderVars
<1>2. ASSUME NEW c \in Calls, Step(c) PROVE Inv'
  <2>1. CASE FindPool(c)
    BY <2>1, FindPoolKeeps, Zenon
  <2>2. CASE Get(c)
    BY <2>2, GetKeeps, Zenon
  <2>3. CASE PrepReady(c) \/ PutLocks(c)
    BY <2>3, PrepReadyKeeps, Zenon
  <2>4. CASE PrepOpens(c)
    BY <2>4, PrepOpensKeeps, Zenon
  <2>5. CASE PrepFails(c)
    BY <2>5, PrepFailsKeeps, Zenon
  <2>6. CASE PrepPanics(c)
    BY <2>6, StutterKeeps, TRUE \in BOOLEAN, Zenon DEF PrepPanics
  <2>7. CASE Write(c)
    BY <2>7, WriteKeeps, Zenon
  <2>8. CASE WriteFails(c) \/ ReadFails(c)
    BY <2>8, AttemptFailsKeeps, Zenon
  <2>9. CASE Read(c)
    BY <2>9, ReadKeeps, Zenon
  <2>10. CASE Put(c)
    BY <2>10, PutKeeps, Zenon
  <2> QED
    BY <1>2, <2>1, <2>2, <2>3, <2>4, <2>5, <2>6, <2>7, <2>8, <2>9, <2>10, Zenon DEF Step
<1>3. CASE \E s \in Calls : HandleMessage(s)
  BY <1>3, HandleMessageKeeps, Zenon
<1>4. CASE Disconnect \/ OnDisconnect
  BY <1>4, DisconnectKeeps, OnDisconnectKeeps, Zenon
<1>5. CASE \E p \in DOMAIN pools : teardown(p) \/ \E s \in Calls : Collect(p, s)
  BY <1>5, teardownKeeps, CollectKeeps, Zenon
<1> QED
  BY <1>1, <1>2, <1>3, <1>4, <1>5, Zenon DEF SenderNext

\* The inductive invariant: a sender is used by one call at a time, and its
\* stream carries only what that call asked.
THEOREM SenderInvariant == SenderSpec => []Inv
<1> QED
  BY InitInv, NextInv, PTL DEF SenderSpec

\* SendRequest returns the answer to the request it was called with, or none:
\* for every number of calls that share pooled streams, however often the
\* connection is lost, streams time out or the collector runs.
THEOREM AnswersAlwaysMatch == SenderSpec => []AnswersMatch
<1>1. Inv => AnswersMatch
  BY DEF Inv
<1> QED
  BY <1>1, SenderInvariant, PTL

\* What RetriedFresh says of a step of a call.
Fresh(c) ==
    call[c].pc # "return" /\ call'[c].pc = "return" /\ call'[c].got = None =>
        NeedsStream(call[c].sender) \/ sender[call[c].sender].stream.by = c

\* A call gives up only when no stream could be opened or on one it opened.
LEMMA GivesUpFresh ==
    ASSUME Inv, NEW c \in Calls, AttemptFails(c), call[c].pc \in {"ready", "send", "wait"}
    PROVE  Fresh(c)
<1>1. call \in [Calls -> CallRecords] /\ call[c] \in CallRecords
  BY Zenon DEF Inv, SenderTypeOK
<1>2. CASE call[c].retry
  <2>1. sender[call[c].sender].stream.by \in {None, c}
    BY <1>2, Zenon DEF Inv, SecondAttempt
  <2> QED
    BY <2>1, Zenon DEF Fresh, NeedsStream
<1>3. CASE ~call[c].retry
  <2>1. call'[c].pc = "send"
    BY <1>1, <1>3, SMT DEF AttemptFails, CallRecords
  <2> QED
    BY <2>1, "send" # "return", Zenon DEF Fresh
<1> QED
  BY <1>2, <1>3

LEMMA StepFresh ==
    ASSUME Inv, NEW d \in Calls, Step(d), NEW c \in Calls
    PROVE  Fresh(c)
<1>1. call \in [Calls -> CallRecords]
  BY Zenon DEF Inv, SenderTypeOK
<1>2. CASE c # d
  <2>1. call'[c] = call[c]
    BY <1>1, <1>2, Zenon DEF Step, FindPool, Get, PrepReady, PrepOpens, PrepFails, PrepPanics,
          Write, WriteFails, Read, ReadFails, PutLocks, Put, Goto, Return, AttemptFails
  <2> QED
    BY <2>1, Zenon DEF Fresh
<1>3. CASE c = d
  <2>0. call[c] \in CallRecords
    BY <1>1
  <2>1. CASE FindPool(c)
    <3>1. call'[c].pc = "get"
      BY <1>1, <2>0, <2>1, SMT DEF FindPool, CallRecords
    <3> QED
      BY <3>1, "get" # "return", Zenon DEF Fresh
  <2>2. CASE Get(c)
    <3>1. call'[c].pc = "prep"
      BY <1>1, <2>0, <2>2, SMT DEF Get, CallRecords
    <3> QED
      BY <3>1, "prep" # "return", Zenon DEF Fresh
  <2>3. CASE PrepReady(c) \/ PutLocks(c) \/ PrepOpens(c) \/ Write(c) \/ Put(c)
    <3>1. call'[c].pc \in {"ready", "put", "send", "wait", "done"}
      BY <1>1, <2>0, <2>3, SMT DEF PrepReady, PutLocks, PrepOpens, Write, Put, Goto, CallRecords
    <3>2. call'[c].pc # "return"
      BY <3>1, SMT
    <3> QED
      BY <3>2, Zenon DEF Fresh
  <2>4. CASE PrepFails(c)
    BY <2>4, Zenon DEF PrepFails, Fresh
  <2>5. CASE PrepPanics(c)
    <3>1. call' = call
      BY <2>5, Zenon DEF PrepPanics
    <3> QED
      BY <3>1, Zenon DEF Fresh
  <2>6. CASE WriteFails(c) \/ ReadFails(c)
    <3>1. AttemptFails(c) /\ call[c].pc \in {"ready", "send", "wait"}
      BY <2>6, Zenon DEF WriteFails, ReadFails, At
    <3> QED
      BY <3>1, GivesUpFresh, Zenon
  <2>7. CASE Read(c)
    <3>1. call'[c].got = c
      BY <2>7, ReadKeeps, Zenon
    <3>2. c # None
      BY BoundsAssumption, SMT DEF Calls, None
    <3> QED
      BY <3>1, <3>2, Zenon DEF Fresh
  <2> QED
    BY <1>3, <2>1, <2>2, <2>3, <2>4, <2>5, <2>6, <2>7, Zenon DEF Step
<1> QED
  BY <1>2, <1>3

\* A request fails only when no stream could be opened or on one that the call
\* opened itself: the second attempt of SendRequest is never spent on a stream
\* that broke in the pool.
THEOREM CallsRetryFresh == SenderSpec => RetriedFresh
<1>1. ASSUME Inv, [SenderNext]_senderVars, NEW c \in Calls PROVE Fresh(c)
  <2>1. CASE \E d \in Calls : Step(d)
    BY <1>1, <2>1, StepFresh, Zenon
  <2>2. CASE call' = call
    BY <2>2, Zenon DEF Fresh
  <2>3. (\E d \in Calls : Step(d)) \/ call' = call
    BY <1>1, Zenon DEF SenderNext, senderVars, HandleMessage, Disconnect, OnDisconnect, teardown, Collect
  <2> QED
    BY <2>1, <2>2, <2>3
<1>2. Inv /\ [SenderNext]_senderVars => [\A c \in Calls : Fresh(c)]_senderVars
  BY <1>1
<1>3. [\A c \in Calls : Fresh(c)]_senderVars =>
        [\A c \in Calls :
          call[c].pc # "return" /\ call'[c].pc = "return" /\ call'[c].got = None =>
              LET s == call[c].sender
              IN  NeedsStream(s) \/ sender[s].stream.by = c]_senderVars
  BY Zenon DEF Fresh
<1> QED
  BY <1>2, <1>3, SenderInvariant, PTL DEF SenderSpec, RetriedFresh

-----------------------------------------------------------------------------
(* BlockGenerator.                                                         *)

LoopRecs == [pc : {"none", "top", "select", "seal", "drain", "stopped"},
             chan : 0..MaxStarts, height : 0..MaxHeight, time : Nat]

GeneratorTypes ==
    /\ active \in BOOLEAN
    /\ quit \in 0..MaxStarts
    /\ active => quit # 0
    /\ closed \subseteq 1..quit
    /\ loops \in [Loops -> LoopRecs]
    /\ \A l \in Loops : loops[l].chan <= quit
    /\ overlapped \in BOOLEAN
    /\ last \in [height : 0..MaxHeight, time : Nat]
    /\ sending \in Seq(1..MaxHeight)
    /\ now \in Nat
    /\ tip \in [height : 0..MaxHeight, time : Nat]
    /\ validator \in BOOLEAN
    /\ pending \in [Callbacks -> Nat]
    /\ resyncs \in 0..MaxResyncs
    /\ sent \in [height : 0..MaxHeight, time : Nat, quick : BOOLEAN]

\* A block is remembered before it is broadcast, at the next height or below it.
Ordered ==
    /\ last.height <= tip.height + 1
    /\ sent.height <= last.height
    /\ \A l \in Loops : loops[l].pc = "drain" => loops[l].height <= last.height

OneLoop == \A k, l \in Loops : Alive(k) /\ Alive(l) => k = l

Apart(blk, mark) == blk.height = mark.height => mark.time + DupTime <= blk.time

\* The block a loop holds is far enough from the one remembered last until it is
\* remembered itself, and from the one broadcast last until it is broadcast.
Held(l) ==
    /\ loops[l].pc = "seal" => /\ loops[l].height \in 1..(tip.height + 1)
                               /\ last.height <= loops[l].height
                               /\ Apart(loops[l], last)
    /\ loops[l].pc = "drain" => /\ loops[l].height # 0
                                /\ last.height = loops[l].height
                                /\ last.time = loops[l].time
                                /\ Apart(loops[l], sent)

Single ==
    /\ OneLoop
    /\ \A l \in Loops : Held(l)
    /\ last.height = sent.height => sent.time <= last.time
    /\ sent.quick = FALSE

GeneratorInv == GeneratorTypes /\ Ordered /\ (overlapped = FALSE => Single)

LEMMA GeneratorInit ==
    ASSUME ConstantsOK, Init
    PROVE  GeneratorInv
<1>1. {MaxHeight, MaxStarts, MaxResyncs} \subseteq Nat
  BY DEF ConstantsOK
<1>2. GeneratorTypes
  <2>1. NoLoop \in LoopRecs /\ NoLoop.chan = 0
    BY <1>1 DEF LoopRecs, NoLoop
  <2>2. loops \in [Loops -> LoopRecs] /\ \A l \in Loops : loops[l].chan <= 0
    BY <2>1 DEF Init
  <2>3. /\ sending \in Seq(1..MaxHeight)
        /\ pending \in [Callbacks -> Nat]
    BY DEF Init
  <2>4. /\ last \in [height : 0..MaxHeight, time : Nat]
        /\ tip \in [height : 0..MaxHeight, time : Nat]
        /\ sent \in [height : 0..MaxHeight, time : Nat, quick : BOOLEAN]
    BY <1>1 DEF Init
  <2>5. /\ active = FALSE /\ quit = 0 /\ closed = {} /\ overlapped = FALSE /\ now = 1
        /\ validator \in BOOLEAN /\ resyncs = 0
    BY Zenon DEF Init
  <2>6. /\ active \in BOOLEAN /\ overlapped \in BOOLEAN /\ ~active
    BY <2>5, Zenon
  <2>7. /\ quit \in 0..MaxStarts /\ closed \subseteq 1..quit /\ now \in Nat
        /\ resyncs \in 0..MaxResyncs
        /\ \A l \in Loops : loops[l].chan <= quit
    BY <1>1, <2>2, <2>5
  <2> QED
    BY <2>2, <2>3, <2>4, <2>5, <2>6, <2>7, Zenon DEF GeneratorTypes
<1>3. Ordered
  BY DEF Init, Ordered, NoLoop
<1>4. Single
  BY DEF Init, Single, OneLoop, Held, NoLoop, Alive
<1> QED
  BY <1>2, <1>3, <1>4 DEF GeneratorInv

\* A step of loop l that leaves what was remembered and broadcast alone, and
\* keeps no block that was not held already.
LEMMA LoopTurns ==
    ASSUME GeneratorInv, NEW l \in Loops, NEW r \in LoopRecs, r.chan <= quit,
           loops' = [loops EXCEPT ![l] = r], Alive(l),
           r.pc # "drain", r.pc = "seal" => Held(l)',
           UNCHANGED <<active, quit, closed, overlapped, last, sending, sent, envVars>>
    PROVE  GeneratorInv'
<1>1. UNCHANGED <<active, quit, closed, overlapped, last, sending, sent, now, tip, validator,
                  pending, testing, resyncs>>
  BY DEF envVars, chainVars
<1>2. loops' \in [Loops -> LoopRecs]
  BY DEF GeneratorInv, GeneratorTypes
<1>3. \A k \in Loops : loops'[k] = IF k = l THEN r ELSE loops[k]
  BY DEF GeneratorInv, GeneratorTypes
<1>4. GeneratorTypes'
  BY <1>1, <1>2, <1>3 DEF GeneratorInv, GeneratorTypes
<1>5. ASSUME overlapped = FALSE PROVE Single'
  <2>1. OneLoop'
    BY <1>3, <1>5 DEF GeneratorInv, Single, OneLoop, Alive
  <2>2. ASSUME NEW k \in Loops PROVE Held(k)'
    <3>1. CASE k # l
      BY <1>1, <1>3, <1>5, <3>1 DEF GeneratorInv, Single, Held, Apart
    <3>2. CASE k = l
      BY <1>3, <1>5, <3>2 DEF Held
    <3> QED
      BY <3>1, <3>2
  <2> QED
    BY <1>1, <1>5, <2>1, <2>2 DEF GeneratorInv, Single
<1>6. Ordered'
  BY <1>1, <1>3 DEF GeneratorInv, Ordered
<1> QED
  BY <1>1, <1>4, <1>5, <1>6 DEF GeneratorInv

Returned(pc) == [NoLoop EXCEPT !.pc = pc]

LEMMA ReturnedIs ==
    ASSUME ConstantsOK, GeneratorTypes, NEW pc \in {"top", "stopped"}
    PROVE  Returned(pc) \in LoopRecs /\ Returned(pc).chan <= quit /\ Returned(pc).pc = pc
<1>1. MaxHeight \in Nat /\ MaxStarts \in Nat
  BY DEF ConstantsOK
<1> QED
  BY <1>1 DEF GeneratorTypes, LoopRecs, Returned, NoLoop

LEMMA LoopStep ==
    ASSUME ConstantsOK, GeneratorInv, NEW l \in Loops,
           Select(l) \/ Quit(l) \/ GiveUp(l)
    PROVE  GeneratorInv'
<1>1. loops[l] \in LoopRecs /\ GeneratorTypes
  BY DEF GeneratorInv, GeneratorTypes
<1>2. CASE Select(l)
  <2> DEFINE r == [loops[l] EXCEPT !.pc = "select", !.chan = quit]
  <2>1. loops' = [loops EXCEPT ![l] = r]
    BY <1>1, <1>2 DEF Select, GeneratorTypes, LoopRecs
  <2>2. r \in LoopRecs /\ r.chan = quit /\ r.pc = "select"
    BY <1>1 DEF LoopRecs, GeneratorTypes
  <2>3. Alive(l) /\ quit <= quit
    BY <1>1, <1>2 DEF Select, Alive, GeneratorTypes
  <2>4. UNCHANGED <<active, quit, closed, overlapped, last, sending, sent, envVars>>
    BY <1>2 DEF Select
  <2> HIDE DEF r
  <2> QED
    BY <2>1, <2>2, <2>3, <2>4, LoopTurns
<1>3. CASE Quit(l) \/ GiveUp(l)
  <2>1. PICK pc \in {"top", "stopped"} : ReturnTo(l, pc)
    BY <1>3 DEF Quit, GiveUp
  <2>2. loops' = [loops EXCEPT ![l] = Returned(pc)]
    BY <2>1 DEF ReturnTo, Returned
  <2>2a. Returned(pc) \in LoopRecs /\ Returned(pc).chan <= quit /\ Returned(pc).pc = pc
    BY <1>1, <2>1, ReturnedIs
  <2>3. PICK r : loops' = [loops EXCEPT ![l] = r] /\ r \in LoopRecs /\ r.chan <= quit /\ r.pc = pc
    BY <2>2, <2>2a
  <2>4. Alive(l)
    BY <1>3 DEF Quit, GiveUp, Alive
  <2>5. UNCHANGED <<active, quit, closed, overlapped, last, sending, sent, envVars>>
    BY <1>3 DEF Quit, GiveUp
  <2> QED
    BY <2>2, <2>3, <2>4, <2>5, LoopTurns
<1> QED
  BY <1>2, <1>3

LEMMA PrepareStep ==
    ASSUME ConstantsOK, GeneratorInv, NEW l \in Loops,
           Prepare(l)
    PROVE  GeneratorInv'
<1>1. /\ now \in Nat /\ tip.height \in 0..MaxHeight /\ tip.time \in Nat
      /\ last.height \in 0..MaxHeight /\ last.time \in Nat
      /\ quit \in 0..MaxStarts
      /\ MaxHeight \in Nat /\ MaxStarts \in Nat /\ DupTime \in Nat
  BY DEF GeneratorInv, GeneratorTypes, ConstantsOK
<1>2. PICK t : t = BlockTime
  OBVIOUS
<1>3. t \in Nat /\ now <= t
  BY <1>1, <1>2 DEF BlockTime
<1>4. PICK r : r = [pc |-> "seal", chan |-> 0, height |-> tip.height + 1, time |-> t]
  OBVIOUS
<1>5. r \in LoopRecs /\ r.chan <= quit /\ r.height = tip.height + 1 /\ r.time = t /\ r.pc = "seal"
  BY <1>1, <1>3, <1>4 DEF Prepare, LoopRecs
<1>6. /\ loops' = [loops EXCEPT ![l] = r]
      /\ UNCHANGED <<active, quit, closed, overlapped, last, sending, sent, envVars>>
  BY <1>2, <1>4 DEF Prepare
<1>7. Alive(l)
  BY DEF Prepare, Alive
<1>8. Held(l)'
  <2>1. loops'[l] = r /\ tip' = tip /\ last' = last
    BY <1>6 DEF GeneratorInv, GeneratorTypes, envVars, chainVars
  <2>2. last.height <= tip.height + 1
    BY DEF GeneratorInv, Ordered
  <2>3. last.height = tip.height + 1 => last.time + DupTime <= t
    BY <1>1, <1>3 DEF Prepare, GeneratedLately
  <2> QED
    BY <1>1, <1>5, <2>1, <2>2, <2>3 DEF Held, Apart
<1> QED
  BY <1>5, <1>6, <1>7, <1>8, LoopTurns

LEMMA SealStep ==
    ASSUME ConstantsOK, GeneratorInv, NEW l \in Loops,
           Seal(l)
    PROVE  GeneratorInv'
<1>1. /\ loops[l] \in LoopRecs /\ GeneratorTypes /\ Ordered
      /\ loops[l].pc = "seal"
      /\ \A k \in Loops : loops[k] \in LoopRecs
  BY DEF GeneratorInv, GeneratorTypes, Seal
<1>2. Alive(l)
  BY <1>1 DEF Alive
<1>3. CASE ~CheckConnectBlock(loops[l])
  <2>1. ReturnTo(l, "top")
        /\ UNCHANGED <<active, quit, closed, overlapped, last, sending, sent, envVars>>
    BY <1>3 DEF Seal
  <2>2. loops' = [loops EXCEPT ![l] = Returned("top")]
    BY <2>1 DEF ReturnTo, Returned
  <2>2a. Returned("top") \in LoopRecs /\ Returned("top").chan <= quit /\ Returned("top").pc = "top"
    BY <1>1, ReturnedIs
  <2>3. PICK r : loops' = [loops EXCEPT ![l] = r] /\ r \in LoopRecs /\ r.chan <= quit /\ r.pc = "top"
    BY <2>2, <2>2a
  <2> QED
    BY <1>2, <2>1, <2>3, LoopTurns
<1>4. CASE CheckConnectBlock(loops[l])
  <2> DEFINE r == [loops[l] EXCEPT !.pc = "drain"]
  <2>1. /\ loops' = [loops EXCEPT ![l].pc = "drain"]
        /\ last' = [height |-> loops[l].height, time |-> loops[l].time]
        /\ UNCHANGED <<active, quit, closed, overlapped, sending, sent, now, tip, validator,
                       pending, testing, resyncs>>
    BY <1>4 DEF Seal, envVars, chainVars
  <2>2. /\ r \in LoopRecs /\ r.chan = loops[l].chan /\ r.pc = "drain"
        /\ r.height = loops[l].height /\ r.time = loops[l].time
    BY <1>1 DEF LoopRecs
  <2>3. \A k \in Loops : loops'[k] = IF k = l THEN r ELSE loops[k]
    BY <2>1 DEF GeneratorInv, GeneratorTypes
  <2>4. loops' = [loops EXCEPT ![l] = r]
    BY <2>1
  <2> HIDE DEF r
  <2>5. loops' \in [Loops -> LoopRecs]
    BY <2>2, <2>4 DEF GeneratorInv, GeneratorTypes
  <2>6. /\ loops[l].height \in 0..MaxHeight /\ loops[l].time \in Nat
        /\ last'.height = loops[l].height /\ last'.time = loops[l].time
        /\ last' \in [height : 0..MaxHeight, time : Nat]
    BY <1>1, <2>1 DEF LoopRecs
  <2>7. \A k \in Loops : loops'[k].chan <= quit
    BY <2>2, <2>3 DEF GeneratorInv, GeneratorTypes
  <2>8. GeneratorTypes'
    BY <1>1, <2>1, <2>5, <2>6, <2>7 DEF GeneratorTypes
  <2>9. loops[l].height = tip.height + 1
    BY <1>4 DEF CheckConnectBlock
  <2>10. /\ tip.height \in Nat /\ last.height \in Nat /\ sent.height \in Nat
         /\ last.time \in Nat /\ sent.time \in Nat /\ DupTime \in Nat
         /\ last.height <= tip.height + 1 /\ sent.height <= last.height
    BY <1>1 DEF GeneratorTypes, Ordered, ConstantsOK
  <2>11. Ordered'
    <3>1. \A k \in Loops :
             loops[k].pc = "drain" => loops[k].height <= last.height /\ loops[k].height \in Nat
      BY <1>1 DEF Ordered, LoopRecs
    <3> QED
      BY <2>1, <2>2, <2>3, <2>6, <2>9, <2>10, <3>1 DEF Ordered
  <2>12. ASSUME overlapped = FALSE PROVE Single'
    <3>1. OneLoop /\ Held(l) /\ sent.quick = FALSE
          /\ (last.height = sent.height => sent.time <= last.time)
      BY <2>12 DEF GeneratorInv, Single
    <3>2. OneLoop'
      BY <3>1, <1>2, <2>2, <2>3 DEF OneLoop, Alive
    <3>3. \A k \in Loops \ {l} : loops'[k].pc \in {"none", "stopped"}
      BY <3>1, <1>2, <2>3 DEF OneLoop, Alive
    <3>4. sent.height = loops[l].height => sent.time + DupTime <= loops[l].time
      BY <3>1, <1>1, <2>6, <2>9, <2>10 DEF Held, Apart
    <3>5. ASSUME NEW k \in Loops PROVE Held(k)'
      <4>1. CASE k # l
        BY <3>3, <4>1 DEF Held
      <4>2. CASE k = l
        BY <2>1, <2>2, <2>3, <2>6, <2>9, <2>10, <3>4, <4>2 DEF Held, Apart
      <4> QED
        BY <4>1, <4>2
    <3>6. last'.height = sent'.height => sent'.time <= last'.time
      BY <2>1, <2>6, <2>10, <3>4
    <3> QED
      BY <2>1, <3>1, <3>2, <3>5, <3>6 DEF Single
  <2> QED
    BY <2>1, <2>8, <2>11, <2>12 DEF GeneratorInv
<1> QED
  BY <1>3, <1>4

\* A set of numbers has a least one: the order of Nat is well founded.
LEMMA LeastNat ==
    ASSUME NEW T \in SUBSET Nat, T # {}
    PROVE  \E x \in T : \A y \in T : x <= y
<1> DEFINE R == {ss \in Nat \X Nat : ss[1] < ss[2]}
<1>1. IsWellFoundedOn(R, Nat)
  BY NatLessThanWellFounded, Zenon DEF OpToRel
<1>2. PICK x \in T : \A y \in T : <<y, x>> \notin R
  <2> HIDE DEF R
  <2> QED
    BY <1>1, WFMin
<1>3. \A y \in T : ~(y < x)
  BY <1>2
<1> QED
  BY <1>3

LEMMA BroadcastStep ==
    ASSUME ConstantsOK, GeneratorInv, NEW l \in Loops,
           Broadcast(l)
    PROVE  GeneratorInv'
<1>1. /\ loops[l] \in LoopRecs /\ GeneratorTypes /\ Ordered
      /\ loops[l].pc = "drain"
      /\ ReturnTo(l, "top")
      /\ UNCHANGED <<active, quit, closed, overlapped, last, now, tip, validator,
                     pending, testing, resyncs>>
  BY DEF GeneratorInv, GeneratorTypes, Broadcast, envVars,
         chainVars
<1>r. loops' = [loops EXCEPT ![l] = Returned("top")]
  BY <1>1 DEF ReturnTo, Returned
<1>s. Returned("top") \in LoopRecs /\ Returned("top").chan <= quit /\ Returned("top").pc = "top"
  BY <1>1, ReturnedIs
<1>2. PICK r : loops' = [loops EXCEPT ![l] = r] /\ r \in LoopRecs /\ r.chan <= quit /\ r.pc = "top"
  BY <1>r, <1>s
<1>3. \A k \in Loops : loops'[k] = IF k = l THEN r ELSE loops[k]
  BY <1>1, <1>2 DEF GeneratorTypes
<1>4. loops' \in [Loops -> LoopRecs]
  BY <1>1, <1>2 DEF GeneratorTypes
<1>5. \A k \in Loops : loops'[k].chan <= quit
  BY <1>1, <1>2, <1>3 DEF GeneratorTypes
<1>q. PICK q \in BOOLEAN : q = (sent.quick \/ TooQuick(loops[l]))
  BY Zenon
<1>6. \/ sent' = sent
      \/ sent' = [height |-> loops[l].height, time |-> loops[l].time, quick |-> q]
  BY <1>q DEF Broadcast
<1>7. sending' \in Seq(1..MaxHeight)
  <2> DEFINE stops == {i \in DOMAIN sending : sending[i] >= loops[l].height}
             n     == CHOOSE i \in stops : \A j \in stops : i <= j
  <2>1. \/ sending' = <<>>
        \/ stops # {} /\ sending' = SubSeq(sending, 1 + n, Len(sending))
    BY DEF Broadcast
  <2>2. CASE sending' = <<>>
    BY <2>2
  <2>3. CASE stops # {} /\ sending' = SubSeq(sending, 1 + n, Len(sending))
    <3>1. sending \in Seq(1..MaxHeight) /\ stops \subseteq Nat
      BY <1>1 DEF GeneratorTypes
    <3>2. n \in stops
      <4>1. PICK m \in stops : \A j \in stops : m <= j
        BY <2>3, <3>1, LeastNat, Zenon
      <4> QED
        BY <4>1, Zenon
    <3>3. n \in 1..Len(sending)
      BY <3>1, <3>2
    <3> HIDE DEF n, stops
    <3>4. \A i \in (1 + n)..Len(sending) : sending[i] \in 1..MaxHeight
      <4>1. Len(sending) \in Nat /\ n \in Nat
        BY <3>1, <3>3
      <4>2. \A i \in 1..Len(sending) : sending[i] \in 1..MaxHeight
        BY <3>1, ElementOfSeq, Zenon
      <4> QED
        BY <4>1, <4>2
    <3> QED
      BY <2>3, <3>1, <3>3, <3>4, SubSeqProperties
  <2> QED
    BY <2>1, <2>2, <2>3
<1>8. /\ sent.height \in Nat /\ sent.time \in Nat /\ sent.quick \in BOOLEAN
      /\ loops[l].height \in 0..MaxHeight /\ loops[l].time \in Nat /\ DupTime \in Nat
      /\ last.height \in Nat /\ last.time \in Nat /\ sent.height <= last.height
  BY <1>1 DEF GeneratorTypes, LoopRecs, Ordered, ConstantsOK
<1>9. sent' \in [height : 0..MaxHeight, time : Nat, quick : BOOLEAN]
  <2>1. CASE sent' = sent
    BY <1>1, <2>1 DEF GeneratorTypes
  <2>2. CASE sent' = [height |-> loops[l].height, time |-> loops[l].time, quick |-> q]
    BY <1>8, <2>2, Zenon
  <2> QED
    BY <1>6, <2>1, <2>2
<1>10. GeneratorTypes'
  BY <1>1, <1>4, <1>5, <1>7, <1>9 DEF GeneratorTypes
<1>11. Ordered'
  <2>1. sent'.height <= last.height
    BY <1>1, <1>6, <1>8 DEF Ordered
  <2> QED
    BY <1>1, <1>2, <1>3, <2>1 DEF Ordered
<1>12. ASSUME overlapped = FALSE PROVE Single'
  <2>1. /\ OneLoop /\ Held(l) /\ sent.quick = FALSE
        /\ last.height = sent.height => sent.time <= last.time
    BY <1>12 DEF GeneratorInv, Single
  <2>2. \A k \in Loops \ {l} : loops'[k].pc \in {"none", "stopped"}
    BY <2>1, <1>1, <1>3 DEF OneLoop, Alive
  <2>3. OneLoop'
    BY <2>2 DEF OneLoop, Alive
  <2>4. \A k \in Loops : Held(k)'
    BY <1>2, <1>3, <2>2 DEF Held
  <2>5. /\ loops[l].height = last.height /\ loops[l].time = last.time
        /\ ~TooQuick(loops[l])
    BY <1>1, <1>8, <2>1 DEF Held, Apart, TooQuick
  <2>6. sent'.quick = FALSE
    <3>1. q = FALSE
      BY <1>q, <2>1, <2>5, Zenon
    <3> QED
      BY <1>6, <2>1, <3>1
  <2>7. last'.height = sent'.height => sent'.time <= last'.time
    BY <1>1, <1>6, <1>8, <2>1, <2>5
  <2> QED
    BY <2>3, <2>4, <2>6, <2>7 DEF Single
<1> QED
  BY <1>1, <1>10, <1>11, <1>12 DEF GeneratorInv

\* A step of the environment, which only lets the chain grow.
LEMMA Outside ==
    ASSUME GeneratorInv, GeneratorTypes', UNCHANGED <<loops, overlapped, last, sent>>,
           tip.height <= tip'.height
    PROVE  GeneratorInv'
<1>1. tip.height \in Nat /\ tip'.height \in Nat /\ last.height \in Nat
  BY DEF GeneratorInv, GeneratorTypes
<1>2. Ordered'
  BY <1>1 DEF GeneratorInv, Ordered
<1>3. ASSUME overlapped = FALSE PROVE Single'
  <2>1. Single
    BY <1>3 DEF GeneratorInv
  <2>2. ASSUME NEW l \in Loops PROVE Held(l)'
    <3>1. Held(l) /\ loops[l].height \in Nat
      BY <2>1 DEF Single, GeneratorInv, GeneratorTypes, LoopRecs
    <3> QED
      BY <1>1, <3>1 DEF Held, Apart
  <2> QED
    BY <2>1, <2>2 DEF Single, OneLoop, Alive
<1> QED
  BY <1>2, <1>3 DEF GeneratorInv

LEMMA ChainStep ==
    ASSUME ConstantsOK, GeneratorInv,
           \/ \E t \in 1..(MaxTime + Future), v \in BOOLEAN : ConnectBlock(t, v)
           \/ ClockTick
    PROVE  GeneratorInv'
<1>1. GeneratorTypes /\ MaxTime \in Nat /\ Future \in Nat /\ MaxHeight \in Nat
  BY DEF GeneratorInv, ConstantsOK
<1>2. CASE ClockTick
  <2>1. /\ UNCHANGED <<active, quit, closed, loops, overlapped, last, sending, tip, validator,
                       pending, testing, resyncs, sent>>
        /\ now' = now + 1
    BY <1>2 DEF ClockTick, genVars
  <2>2. GeneratorTypes'
    BY <1>1, <2>1 DEF GeneratorTypes
  <2>3. tip.height <= tip'.height
    BY <1>1, <2>1 DEF GeneratorTypes
  <2> QED
    BY <2>1, <2>2, <2>3, Outside
<1>3. ASSUME NEW t \in 1..(MaxTime + Future), NEW v \in BOOLEAN, ConnectBlock(t, v)
      PROVE  GeneratorInv'
  <2>1. /\ UNCHANGED <<active, quit, closed, loops, overlapped, last, sending, now, testing,
                       resyncs, sent>>
        /\ tip' = [height |-> tip.height + 1, time |-> t]
        /\ tip.height < MaxHeight
        /\ validator' = v
    BY <1>3 DEF ConnectBlock, genVars
  <2>2. tip' \in [height : 0..MaxHeight, time : Nat] /\ tip.height <= tip'.height
    BY <1>1, <1>3, <2>1 DEF GeneratorTypes
  <2>3. pending' \in [Callbacks -> Nat]
    <3>1. \/ pending' = pending
          \/ pending' = [pending EXCEPT !["add"] = @ + 1]
          \/ pending' = [pending EXCEPT !["remove"] = @ + 1]
      BY <1>3 DEF ConnectBlock
    <3> QED
      BY <1>1, <3>1 DEF GeneratorTypes, Callbacks
  <2>4. GeneratorTypes'
    BY <1>1, <1>3, <2>1, <2>2, <2>3 DEF GeneratorTypes
  <2> QED
    BY <2>1, <2>2, <2>4, Outside
<1> QED
  BY <1>2, <1>3

LEMMA InterruptStep ==
    ASSUME ConstantsOK, GeneratorInv,
           \/ Interrupt \/ SetCurrent \/ handleCurrentStatusChange
           \/ \E h \in 1..MaxHeight : Send(h)
    PROVE  GeneratorInv'
<1>1. GeneratorTypes
  BY DEF GeneratorInv
<1>2. /\ UNCHANGED <<active, quit, closed, loops, overlapped, last, now, tip, validator, resyncs,
                     sent>>
      /\ tip.height <= tip'.height
  BY <1>1 DEF Interrupt, SetCurrent, handleCurrentStatusChange,
              Send, genVars, chainVars, GeneratorTypes
<1>3. sending' \in Seq(1..MaxHeight)
  <2>1. sending' = sending \/ \E h \in 1..MaxHeight : sending' = Append(sending, h)
    BY DEF Interrupt, SetCurrent, handleCurrentStatusChange,
           Send
  <2>2. \A h \in 1..MaxHeight : Append(sending, h) \in Seq(1..MaxHeight)
    BY <1>1, AppendProperties, Zenon DEF GeneratorTypes
  <2> QED
    BY <1>1, <2>1, <2>2, Zenon DEF GeneratorTypes
<1>4. pending' \in [Callbacks -> Nat]
  <2>1. CASE pending' = pending
    BY <1>1, <2>1 DEF GeneratorTypes
  <2>2. CASE SetCurrent
    BY <1>1, <2>2 DEF GeneratorTypes, SetCurrent, Callbacks
  <2>3. CASE handleCurrentStatusChange
    BY <1>1, <2>3 DEF GeneratorTypes, handleCurrentStatusChange, Callbacks
  <2> QED
    BY <2>1, <2>2, <2>3 DEF Interrupt, Send
<1>5. GeneratorTypes'
  BY <1>1, <1>2, <1>3, <1>4 DEF GeneratorTypes
<1> QED
  BY <1>2, <1>5, Outside

LEMMA CloseStep ==
    ASSUME ConstantsOK, GeneratorInv, CloseCallback \/ Resync
    PROVE  GeneratorInv'
<1>1. GeneratorTypes /\ MaxResyncs \in Nat
  BY DEF GeneratorInv, ConstantsOK
<1>2. /\ UNCHANGED <<quit, loops, overlapped, last, now, tip, validator, sent>>
      /\ tip.height <= tip'.height
  BY <1>1 DEF CloseCallback, Resync, Close, genVars,
              chainVars, GeneratorTypes
<1>3. /\ sending' = <<>> \/ sending' = sending
      /\ closed' = closed \/ (active /\ closed' = closed \cup {quit})
      /\ active' = FALSE \/ active' = active
  BY DEF CloseCallback, Resync, Close, genVars
<1>4. pending' \in [Callbacks -> Nat] /\ resyncs' \in 0..MaxResyncs
  BY <1>1 DEF CloseCallback, Resync, Callbacks, GeneratorTypes
<1>5. sending' \in Seq(1..MaxHeight)
  <2>1. <<>> \in Seq(1..MaxHeight)
    OBVIOUS
  <2> QED
    BY <1>1, <1>3, <2>1, Zenon DEF GeneratorTypes
<1>6. closed' \subseteq 1..quit
  <2>1. closed' = closed \/ (quit # 0 /\ closed' = closed \cup {quit})
    BY <1>1, <1>3, Zenon DEF GeneratorTypes
  <2>2. quit \in Nat /\ closed \subseteq 1..quit
    BY <1>1 DEF GeneratorTypes
  <2>3. CASE closed' = closed
    BY <2>2, <2>3
  <2>4. CASE quit # 0 /\ closed' = closed \cup {quit}
    <3>1. quit \in 1..quit
      BY <2>2, <2>4
    <3> QED
      BY <2>2, <2>4, <3>1, Zenon
  <2> QED
    BY <2>1, <2>3, <2>4
<1>7. active' \in BOOLEAN /\ (active' => quit # 0)
  <2>1. CASE active' = FALSE
    BY <2>1, Zenon
  <2>2. CASE active' = active
    BY <1>1, <2>2, Zenon DEF GeneratorTypes
  <2> QED
    BY <1>3, <2>1, <2>2
<1>8. GeneratorTypes'
  BY <1>1, <1>2, <1>4, <1>5, <1>6, <1>7 DEF GeneratorTypes
<1> QED
  BY <1>2, <1>8, Outside

LEMMA StartStep ==
    ASSUME ConstantsOK, GeneratorInv, NEW c \in Callbacks,
           StartCallback(c)
    PROVE  GeneratorInv'
<1>1. GeneratorTypes /\ MaxStarts \in Nat
  BY DEF GeneratorInv, ConstantsOK
<1>2. /\ UNCHANGED <<last, sending, now, tip, validator, testing, resyncs, sent>>
      /\ pending' \in [Callbacks -> Nat]
      /\ tip.height <= tip'.height
  BY <1>1 DEF StartCallback, chainVars, GeneratorTypes
<1>3. CASE UNCHANGED genVars
  <2>1. UNCHANGED <<active, quit, closed, loops, overlapped>>
    BY <1>3 DEF genVars
  <2>2. GeneratorTypes'
    BY <1>1, <1>2, <2>1 DEF GeneratorTypes
  <2> QED
    BY <1>2, <2>1, <2>2, Outside
<1>4. CASE /\ quit < MaxStarts
           /\ active' = TRUE
           /\ quit' = quit + 1
           /\ loops' = [loops EXCEPT ![quit + 1].pc = "top"]
           /\ overlapped' = (overlapped \/ \E l \in Loops : Alive(l))
           /\ UNCHANGED closed
  <2>1. PICK n : n = quit + 1
    OBVIOUS
  <2>2. /\ quit \in Nat /\ n \in Loops /\ n \in 0..MaxStarts /\ n # 0
        /\ quit' = n /\ 1..quit \subseteq 1..n
    BY <1>1, <1>4, <2>1 DEF GeneratorTypes, Loops
  <2>3. loops' = [loops EXCEPT ![n].pc = "top"]
    BY <1>4, <2>1
  <2>4. loops[n] \in LoopRecs
    BY <1>1, <2>2 DEF GeneratorTypes
  <2>5. PICK r : r = [loops[n] EXCEPT !.pc = "top"]
    OBVIOUS
  <2>6. r \in LoopRecs /\ r.pc = "top" /\ r.chan = loops[n].chan
    BY <2>4, <2>5 DEF LoopRecs
  <2>7. /\ loops' \in [Loops -> LoopRecs]
        /\ \A l \in Loops : loops'[l] = IF l = n THEN r ELSE loops[l]
    BY <1>1, <2>2, <2>3, <2>5, <2>6 DEF GeneratorTypes
  <2>8. \A l \in Loops : loops'[l].chan <= quit'
    <3>1. \A l \in Loops : loops[l].chan \in Nat /\ loops[l].chan <= quit
      BY <1>1 DEF GeneratorTypes, LoopRecs
    <3> QED
      BY <1>4, <2>2, <2>6, <2>7, <3>1
  <2>9. overlapped' \in BOOLEAN /\ active' \in BOOLEAN
    BY <1>4, Zenon
  <2>10. closed' \subseteq 1..quit' /\ quit' \in 0..MaxStarts /\ quit' # 0
    BY <1>1, <1>4, <2>2 DEF GeneratorTypes
  <2>11. GeneratorTypes'
    BY <1>1, <1>2, <2>7, <2>8, <2>9, <2>10 DEF GeneratorTypes
  <2>12. Ordered'
    BY <1>2, <2>6, <2>7 DEF GeneratorInv, Ordered
  <2>13. ASSUME overlapped' = FALSE PROVE Single'
    <3>1. overlapped = FALSE /\ \A l \in Loops : ~Alive(l)
      BY <1>1, <1>4, <2>13, Zenon DEF GeneratorTypes
    <3>2. \A l \in Loops : l # n => loops'[l].pc \in {"none", "stopped"}
      BY <3>1, <2>7 DEF Alive
    <3>3. OneLoop'
      BY <3>2 DEF OneLoop, Alive
    <3>4. \A l \in Loops : Held(l)'
      BY <2>6, <2>7, <3>2 DEF Held
    <3> QED
      BY <1>2, <3>1, <3>3, <3>4 DEF GeneratorInv, Single
  <2> QED
    BY <2>11, <2>12, <2>13 DEF GeneratorInv
<1> QED
  BY <1>3, <1>4 DEF StartCallback, Start

\* The inductive invariant of the generator: types; that last is at or above
\* every height a loop is about to broadcast; and, while loops did not overlap,
\* how far the block a loop holds is from the one generated last
\* (gen/generate.go:157-170, 250-267).
THEOREM GeneratorInvariant ==
    Spec => []GeneratorInv
<1> ConstantsOK
  BY GeneratorAssumption
<1>1. Init => GeneratorInv
  BY GeneratorInit
<1>2. ASSUME GeneratorInv, [Next]_vars
      PROVE  GeneratorInv'
  <2>1. CASE UNCHANGED vars
    <3>1. UNCHANGED <<active, quit, closed, loops, overlapped, last, sending, now, tip, validator,
                      pending, testing, resyncs, sent>>
      BY <2>1 DEF vars, genVars, envVars, chainVars
    <3>2. GeneratorTypes'
      BY <1>2, <3>1 DEF GeneratorInv, GeneratorTypes
    <3>3. tip.height <= tip'.height
      BY <1>2, <3>1 DEF GeneratorInv, GeneratorTypes
    <3> QED
      BY <1>2, <3>1, <3>2, <3>3, Outside
  <2>2. ASSUME NEW l \in Loops,
               \/ Select(l) \/ Quit(l) \/ GiveUp(l)
               \/ Prepare(l) \/ Seal(l) \/ Broadcast(l)
        PROVE  GeneratorInv'
    BY <1>2, <2>2, LoopStep, PrepareStep, SealStep, BroadcastStep
  <2>3. CASE \/ Interrupt \/ SetCurrent
             \/ handleCurrentStatusChange
             \/ \E h \in 1..MaxHeight : Send(h)
    BY <1>2, <2>3, InterruptStep
  <2>4. CASE \/ \E t \in 1..(MaxTime + Future), v \in BOOLEAN : ConnectBlock(t, v)
             \/ ClockTick
    BY <1>2, <2>4, ChainStep
  <2>5. CASE CloseCallback \/ Resync
    BY <1>2, <2>5, CloseStep
  <2>6. CASE \E c \in Callbacks : StartCallback(c)
    BY <1>2, <2>6, StartStep
  <2> QED
    BY <1>2, <2>1, <2>2, <2>3, <2>4, <2>5, <2>6 DEF Next
<1> QED
  BY <1>1, <1>2, PTL DEF Spec

\* As long as one event loop runs at a time, two blocks of a height that this
\* node broadcasts one after the other are DupTime apart, whatever resyncs,
\* interrupts, notifications and status callbacks happen in between, and for any
\* clock and chain (gen/generate.go:157-161; what a peer checks is
\* server.go:681-691).
THEOREM NeverQuickDuplicates ==
    Spec => []NoQuickDuplicates
<1>1. ASSUME GeneratorInv
      PROVE  NoQuickDuplicates
  <2>1. GeneratorTypes
    BY <1>1 DEF GeneratorInv
  <2>2. \A l \in Loops : loops[l] \in LoopRecs /\ loops[l].chan <= quit
    BY <2>1 DEF GeneratorTypes
  <2>3. \A l \in Loops :
           /\ loops[l].pc \in {"none", "top", "select", "seal", "drain", "stopped"}
           /\ loops[l].chan \in 0..quit
    BY <2>1, <2>2 DEF LoopRecs, GeneratorTypes
  <2>4. \A i \in DOMAIN sending : sending[i] \in 1..MaxHeight
    <3>1. DOMAIN sending = 1..Len(sending)
      BY <2>1 DEF GeneratorTypes
    <3> QED
      BY <2>1, <3>1, ElementOfSeq, Zenon DEF GeneratorTypes
  <2>5. last.height \in 0..MaxHeight /\ tip.height \in 0..MaxHeight
    BY <2>1 DEF GeneratorTypes
  <2>6. \A c \in Callbacks : pending[c] \in Nat
    BY <2>1 DEF GeneratorTypes
  <2>7. TypeOK
    BY <2>1, <2>3, <2>4, <2>5, <2>6, Zenon DEF GeneratorTypes, TypeOK
  <2>8. ~overlapped => ~sent.quick
    BY <1>1, <2>1, Zenon DEF GeneratorInv, GeneratorTypes, Single
  <2> QED
    BY <2>7, <2>8 DEF NoQuickDuplicates
<1>2. Spec => []GeneratorInv
  BY GeneratorInvariant
<1> QED
  BY <1>1, <1>2, PTL
=============================================================================
