----------------------- MODULE RolloutRecorderProofs ------------------------
(***************************************************************************)
(* Proofs, for any number of tasks, any capacity and any number of items,  *)
(* crashes and failed writes, that what a flush covers is in the file.     *)
(*                                                                         *)
(* A flush covers what is in the file or was queued when it was sent.  The *)
(* invariant follows such an item: it is in the file, in the command that  *)
(* is being written, or in a command in front of the flush (Ahead).  The   *)
(* writer answers only between two commands, when nothing is in front.     *)
(*                                                                         *)
(* The same order makes the file a log: what is queued is the rest of the  *)
(* command being written, and the items of the channel in a row            *)
(* (QueuedInOrder).                                                        *)
(***************************************************************************)
EXTENDS RolloutRecorder, SequenceTheorems, FiniteSetTheorems, WellFoundedInduction, TLAPS

InSeq(i, seq) == \E m \in DOMAIN seq : seq[m] = i

\* Item i will be in the file when the command at place n is taken.
Ahead(i, n) ==
    \/ i \in Written
    \/ InSeq(i, batch)
    \/ \E j \in 1..(n - 1) : queue[j].kind = "add" /\ InSeq(i, queue[j].items)

AsksCovered ==
    \A n \in 1..Len(queue) :
        queue[n].kind = "ask" => \A i \in queue[n].covers : Ahead(i, n)

QueuedFound == \A m \in 1..Len(queued) : Ahead(queued[m], Len(queue) + 1)

BatchIsWritten == batch # <<>> <=> writer = "writing"

RecordsSomething == \A s \in Senders : sender[s] = "recording" => holds[s] # <<>>

Inv ==
    /\ TypeOK
    /\ BatchIsWritten
    /\ RecordsSomething
    /\ AsksCovered
    /\ QueuedFound
    /\ FlushedIsWritten

----------------------------------------------------------------------------
(* Lemmas on the file.                                                     *)

\* What is on a whole line stays on it.
LEMMA WrittenGrows ==
  ASSUME TypeOK, NEW l \in Lines, file' = Append(file, l)
  PROVE  /\ file' \in Seq(Lines)
         /\ Written \subseteq Written'
         /\ Whole(l) /\ l.item # Meta => l.item \in Written'
  <1>1. /\ file' \in Seq(Lines)
        /\ Len(file') = Len(file) + 1
        /\ \A k \in 1..Len(file) : file'[k] = file[k]
        /\ file'[Len(file) + 1] = l
    BY AppendProperties DEF TypeOK
  <1>2. DOMAIN file = 1..Len(file) /\ DOMAIN file' = 1..Len(file') /\ Len(file) \in Nat
    BY <1>1, LenProperties DEF TypeOK
  <1> QED
    BY <1>1, <1>2 DEF Written, Whole

\* A line that is cut leaves the whole lines as they are.
LEMMA CutKeepsWritten ==
  ASSUME TypeOK, NEW i \in Items \cup {Meta}, CutLine(i)
  PROVE  /\ file' \in Seq(Lines)
         /\ Written \subseteq Written'
         /\ torn' \in 0..MaxTears
  <1>1. CASE UNCHANGED <<file, torn>>
    BY <1>1 DEF TypeOK, Written
  <1>2. CASE /\ torn < MaxTears
             /\ torn' = torn + 1
             /\ \E t \in Tails \ {"newline"} : file' = Append(file, Line(i, t))
    <2>1. PICK t \in Tails \ {"newline"} : file' = Append(file, Line(i, t))
      BY <1>2
    <2>2. Line(i, t) \in Lines
      BY DEF Line, Lines
    <2>3. torn' \in 0..MaxTears
      BY <1>2, BoundAssumption DEF TypeOK
    <2> QED
      BY <2>1, <2>2, <2>3, WrittenGrows
  <1> QED
    BY <1>1, <1>2 DEF CutLine

----------------------------------------------------------------------------
(* Type correctness.                                                       *)

LEMMA InitInv == Init => Inv
  <1> SUFFICES ASSUME Init PROVE Inv
    OBVIOUS
  <1>1. \A S : <<>> \in Seq(S) /\ Len(<<>>) = 0
    BY EmptySeq
  <1>2. TypeOK
    <2>1. file \in Seq(Lines) /\ queue \in Seq(Commands) /\ batch \in Seq(Items)
          /\ queued \in Seq(Items)
      BY <1>1 DEF Init
    <2>2. Len(queue) <= Capacity /\ torn \in 0..MaxTears /\ next \in 1..(MaxItems + 1)
      BY <1>1, BoundAssumption, CapacityAssumption DEF Init
    <2>3. processes \in 0..MaxProcesses
      BY BoundAssumption DEF Init
    <2>4. holds \in [Senders -> Seq(Items)]
      BY <1>1 DEF Init
    <2> QED
      BY <2>1, <2>2, <2>3, <2>4 DEF Init, TypeOK, WriterPCs, SenderPCs
  <1>3. Len(queue) = 0 /\ Len(queued) = 0
    BY <1>1 DEF Init
  <1> QED
    BY <1>2, <1>3 DEF Init, Inv, BatchIsWritten, RecordsSomething, AsksCovered, QueuedFound, FlushedIsWritten

\* A command that is sent is one more in the channel, behind the others.
LEMMA SendTypes ==
  ASSUME TypeOK, NEW c \in Commands, Send(c)
  PROVE  /\ queue' \in Seq(Commands)
         /\ Len(queue') = Len(queue) + 1
         /\ Len(queue') <= Capacity
         /\ \A k \in 1..Len(queue) : queue'[k] = queue[k]
         /\ queue'[Len(queue) + 1] = c
  <1>1. queue' = Append(queue, c) /\ Len(queue) < Capacity /\ Len(queue) \in Nat
    BY LenProperties DEF Send, TypeOK
  <1> QED
    BY <1>1, AppendProperties, CapacityAssumption DEF TypeOK

\* The command that is taken is the first.
LEMMA TakeTypes ==
  ASSUME TypeOK, queue # <<>>, queue' = Tail(queue)
  PROVE  /\ Head(queue) = queue[1]
         /\ queue[1] \in Commands
         /\ queue' \in Seq(Commands)
         /\ Len(queue) \in Nat \ {0}
         /\ Len(queue') = Len(queue) - 1
         /\ Len(queue') <= Capacity
         /\ \A k \in 1..Len(queue') : queue'[k] = queue[k + 1]
  <1>1. Len(queue) \in Nat \ {0} /\ Len(queue) <= Capacity
    BY EmptySeq DEF TypeOK
  <1>2. /\ queue' \in Seq(Commands)
        /\ Len(queue') = Len(queue) - 1
        /\ \A k \in 1..Len(queue') : queue'[k] = queue[k + 1]
    BY HeadTailProperties DEF TypeOK
  <1>3. Head(queue) = queue[1] /\ queue[1] \in Commands
    BY <1>1, ElementOfSeq DEF TypeOK
  <1> QED
    BY <1>1, <1>2, <1>3, CapacityAssumption

\* A receiver that is dropped leaves the commands in their places.
LEMMA UnheardTypes ==
  ASSUME TypeOK, NEW s \in Senders,
         queue' = [k \in DOMAIN queue |-> Unheard(queue[k], s)]
  PROVE  /\ queue' \in Seq(Commands)
         /\ Len(queue') = Len(queue)
         /\ \A k \in 1..Len(queue) :
                /\ queue'[k].kind = queue[k].kind
                /\ queue[k].kind = "add" => queue'[k] = queue[k]
                /\ queue[k].kind = "ask" => queue'[k].covers = queue[k].covers
  <1>1. /\ Len(queue) \in Nat
        /\ DOMAIN queue = 1..Len(queue)
        /\ \A k \in 1..Len(queue) : queue[k] \in Commands
    BY LenProperties, ElementOfSeq DEF TypeOK
  <1>2. ASSUME NEW c \in Commands
        PROVE  /\ Unheard(c, s) \in Commands
               /\ Unheard(c, s).kind = c.kind
               /\ c.kind = "add" => Unheard(c, s) = c
               /\ c.kind = "ask" => Unheard(c, s).covers = c.covers
    <2>1. CASE c \in [kind : {"add"}, items : Seq(Items) \ {<<>>}]
      BY <2>1 DEF Unheard, Commands
    <2>2. CASE c \in [kind : {"ask"}, by : Senders \cup {Nobody}, covers : SUBSET Items]
      BY <2>2 DEF Unheard, Commands
    <2> QED
      BY <2>1, <2>2 DEF Commands
  <1>3. queue' \in [1..Len(queue) -> Commands]
    BY <1>1, <1>2
  <1>4. queue' \in Seq(Commands) /\ Len(queue') = Len(queue)
    BY <1>1, <1>3
  <1> QED
    BY <1>1, <1>2, <1>4

----------------------------------------------------------------------------
(* What is ahead of a command stays ahead of it.                           *)

\* While only the end of the channel changes and the file grows, what is ahead stays so.
LEMMA AheadKept ==
  ASSUME TypeOK, NEW i, NEW n \in 1..(Len(queue) + 1), Ahead(i, n),
         Written \subseteq Written', batch' = batch,
         \A k \in 1..Len(queue) :
             queue[k].kind = "add" => queue'[k].kind = "add" /\ queue'[k].items = queue[k].items
  PROVE  Ahead(i, n)'
  <1>1. Len(queue) \in Nat
    BY LenProperties DEF TypeOK
  <1> QED
    BY <1>1 DEF Ahead, InSeq

\* Senders' steps that leave the channel and the file alone keep the invariant.
LEMMA QuietStep ==
  ASSUME Inv, TypeOK', RecordsSomething', UNCHANGED <<file, queue, batch, queued, flushed>>,
         writer' = writer
  PROVE  Inv'
  BY DEF Inv, BatchIsWritten, AsksCovered, QueuedFound, FlushedIsWritten, Ahead, InSeq, Written,
         Whole

\* The channel and what is in it are lost.
LEMMA ChannelLost ==
  ASSUME Inv, TypeOK', RecordsSomething', writer' # "writing", queue' = <<>>, batch' = <<>>, queued' = <<>>, flushed' = flushed,
         Written \subseteq Written'
  PROVE  Inv'
  <1>1. Len(queue') = 0 /\ Len(queued') = 0
    BY EmptySeq
  <1> QED
    BY <1>1 DEF Inv, BatchIsWritten, AsksCovered, QueuedFound, FlushedIsWritten

----------------------------------------------------------------------------
(* The steps of the senders.                                               *)

LEMMA StepRecord ==
  ASSUME Inv, NEW s \in Senders, NEW n \in 1..2, Record(s, n)
  PROVE  Inv'
  <1>1. [k \in 1..n |-> next + k - 1] \in Seq(Items)
    <2>1. [k \in 1..n |-> next + k - 1] \in [1..n -> Items]
      BY BoundAssumption DEF Inv, TypeOK, Record, Items
    <2> QED
      BY <2>1, SeqDef
  <1>2. TypeOK'
    BY <1>1, BoundAssumption
    DEF Inv, TypeOK, Record, Go, channel, SenderPCs, Written, Whole
  <1>3. RecordsSomething'
    <2>1. DOMAIN [k \in 1..n |-> next + k - 1] = 1..n /\ 1 \in 1..n
      OBVIOUS
    <2>2. DOMAIN <<>> = {}
      OBVIOUS
    <2>3. [k \in 1..n |-> next + k - 1] # <<>>
      BY <2>1, <2>2
    <2> QED
      BY <2>3 DEF Inv, TypeOK, RecordsSomething, Record, Go
  <1> QED
    BY <1>2, <1>3, QuietStep DEF Record, channel

LEMMA StepSendItems ==
  ASSUME Inv, NEW s \in Senders, SendItems(s)
  PROVE  Inv'
  <1> DEFINE c == Add(holds[s])
  <1>0. holds[s] \in Seq(Items) /\ c \in Commands
    BY DEF Inv, TypeOK, RecordsSomething, SendItems, Add, Commands
  <1>1. /\ queue' \in Seq(Commands)
        /\ Len(queue') = Len(queue) + 1
        /\ Len(queue') <= Capacity
        /\ \A k \in 1..Len(queue) : queue'[k] = queue[k]
        /\ queue'[Len(queue) + 1] = c
    <2>1. Send(c)
      BY DEF SendItems
    <2>2. TypeOK
      BY DEF Inv
    <2> HIDE DEF c
    <2> QED
      BY <1>0, <2>1, <2>2, SendTypes
  <1>2. /\ queued' \in Seq(Items)
        /\ Len(queued') = Len(queued) + Len(holds[s])
        /\ \A m \in 1..Len(queued) : queued'[m] = queued[m]
        /\ \A m \in 1..Len(holds[s]) : queued'[Len(queued) + m] = holds[s][m]
        /\ Len(queued) \in Nat /\ Len(holds[s]) \in Nat
        /\ Len(queue) \in Nat
    BY <1>0, ConcatProperties, LenProperties DEF Inv, TypeOK, SendItems
  <1>3. TypeOK'
    BY <1>0, <1>1, <1>2, EmptySeq DEF Inv, TypeOK, SendItems, Go, SenderPCs
  <1>4. UNCHANGED <<file, batch, flushed, writer>> /\ Written' = Written
    BY DEF SendItems, Written, Whole
  <1>5. ASSUME NEW i, NEW n \in 1..(Len(queue) + 1), Ahead(i, n)
        PROVE  Ahead(i, n)'
    <2>1. CASE i \in Written
      BY <2>1, <1>4 DEF Ahead
    <2>2. CASE InSeq(i, batch)
      BY <2>2, <1>4 DEF Ahead, InSeq
    <2>3. CASE \E j \in 1..(n - 1) : queue[j].kind = "add" /\ InSeq(i, queue[j].items)
      <3>1. PICK j \in 1..(n - 1) : queue[j].kind = "add" /\ InSeq(i, queue[j].items)
        BY <2>3
      <3>2. queue'[j] = queue[j]
        BY <3>1, <1>1, <1>2
      <3>3. queue'[j].kind = "add" /\ InSeq(i, queue'[j].items)
        BY ONLY <3>1, <3>2
      <3> QED
        BY <3>3 DEF Ahead, InSeq
    <2> QED
      BY <1>5, <2>1, <2>2, <2>3 DEF Ahead
  <1>6. AsksCovered'
    <2> SUFFICES ASSUME NEW n \in 1..Len(queue'), queue'[n].kind = "ask",
                        NEW i \in queue'[n].covers
                 PROVE  Ahead(i, n)'
      BY DEF AsksCovered
    <2>1. n \in 1..Len(queue)
      BY <1>1, <1>2 DEF Add
    <2> QED
      BY <2>1, <1>1, <1>2, <1>5 DEF Inv, AsksCovered
  <1>7. QueuedFound'
    <2> SUFFICES ASSUME NEW m \in 1..Len(queued')
                 PROVE  Ahead(queued[m], Len(queue) + 1)'
      BY DEF QueuedFound
    <2>1. CASE m \in 1..Len(queued)
      <3>1. PICK i, n : i = queued[m] /\ n = Len(queue) + 1
        OBVIOUS
      <3>2. Ahead(i, n)'
        <4>1. Ahead(i, n)
          BY <3>1, <2>1 DEF Inv, QueuedFound
        <4> QED
          BY <4>1, <3>1, <1>2, <1>5
      <3> QED
        BY <3>1, <3>2, <2>1, <1>1, <1>2 DEF Ahead, InSeq
    <2>2. CASE m \notin 1..Len(queued)
      <3>1. m - Len(queued) \in 1..Len(holds[s])
        BY <2>2, <1>2
      <3>2. queued'[m] = holds[s][m - Len(queued)]
        BY <3>1, <1>2
      <3>3. DOMAIN holds[s] = 1..Len(holds[s])
        BY <1>0, LenProperties
      <3>4. c.kind = "add" /\ InSeq(queued'[m], c.items)
        BY <3>1, <3>2, <3>3 DEF InSeq, Add
      <3>5. queue'[Len(queue) + 1] = c /\ Len(queue') = Len(queue) + 1 /\ Len(queue) \in Nat
        BY <1>1, <1>2
      <3> HIDE DEF c
      <3>6. \E j \in 1..Len(queue') :
               queue'[j].kind = "add" /\ InSeq(queued'[m], queue'[j].items)
        BY <3>4, <3>5
      <3> QED
        BY <3>5, <3>6 DEF Ahead, InSeq
    <2> QED
      BY <2>1, <2>2
  <1>8. RecordsSomething'
    BY DEF Inv, TypeOK, RecordsSomething, SendItems, Go
  <1> QED
    BY <1>3, <1>4, <1>6, <1>7, <1>8 DEF Inv, BatchIsWritten, FlushedIsWritten

\* A command that waits for its acknowledgement is sent.
LEMMA StepSendAsk ==
  ASSUME Inv, TypeOK', RecordsSomething', NEW s \in Senders, Send(Ask(s, Written \cup Range(queued))),
         UNCHANGED <<file, batch, queued, flushed, writer>>
  PROVE  Inv'
  <1> DEFINE c == Ask(s, Written \cup Range(queued))
  <1>0. c \in Commands
    <2>1. Range(queued) \subseteq Items
      BY RangeOfSeq DEF Inv, TypeOK
    <2>2. Written \subseteq Items
      <3>1. \A k \in DOMAIN file : file[k] \in Lines
        BY LenProperties, ElementOfSeq DEF Inv, TypeOK
      <3> QED
        BY <3>1 DEF Written, Lines
    <2> QED
      BY <2>1, <2>2 DEF Ask, Commands
  <1>1. /\ queue' \in Seq(Commands)
        /\ Len(queue') = Len(queue) + 1
        /\ Len(queue') <= Capacity
        /\ \A k \in 1..Len(queue) : queue'[k] = queue[k]
        /\ queue'[Len(queue) + 1] = c
    <2>1. TypeOK
      BY DEF Inv
    <2> HIDE DEF c
    <2> QED
      BY <1>0, <2>1, SendTypes DEF c
  <1>2. Len(queue) \in Nat /\ DOMAIN queued = 1..Len(queued)
    BY LenProperties DEF Inv, TypeOK
  <1>3. Written' = Written
    BY DEF Written, Whole
  <1>4. ASSUME NEW i, NEW n \in 1..(Len(queue) + 1), Ahead(i, n)
        PROVE  Ahead(i, n)'
    BY <1>1, <1>2, <1>3, <1>4 DEF Ahead, InSeq
  <1>5. \A i \in c.covers : Ahead(i, Len(queue) + 1)
    <2>1. \A i \in Range(queued) : Ahead(i, Len(queue) + 1)
      BY <1>2 DEF Inv, QueuedFound, Range
    <2>2. \A i \in Written : Ahead(i, Len(queue) + 1)
      BY DEF Ahead
    <2> QED
      BY <2>1, <2>2 DEF Ask
  <1>6. AsksCovered'
    <2> SUFFICES ASSUME NEW n \in 1..Len(queue'), queue'[n].kind = "ask",
                        NEW i \in queue'[n].covers
                 PROVE  Ahead(i, n)'
      BY DEF AsksCovered
    <2>1. CASE n \in 1..Len(queue)
      BY <2>1, <1>1, <1>2, <1>4 DEF Inv, AsksCovered
    <2>2. CASE n = Len(queue) + 1
      <3>1. Ahead(i, n)
        BY <2>2, <1>1, <1>5
      <3> QED
        BY <3>1, <1>2, <1>4, <2>2
    <2> QED
      BY <2>1, <2>2, <1>1, <1>2
  <1>7. QueuedFound'
    <2>1. \A i, n : Ahead(i, n) /\ n = Len(queue) + 1 => Ahead(i, n)'
      BY <1>2, <1>4
    <2> QED
      BY <2>1, <1>1, <1>2 DEF Inv, QueuedFound, Ahead, InSeq
  <1> QED
    BY <1>3, <1>6, <1>7 DEF Inv, BatchIsWritten, FlushedIsWritten

LEMMA StepLeave ==
  ASSUME Inv, NEW s \in Senders, Leave(s)
  PROVE  Inv'
  <1>1. /\ queue' \in Seq(Commands)
        /\ Len(queue') = Len(queue)
        /\ \A k \in 1..Len(queue) :
               /\ queue'[k].kind = queue[k].kind
               /\ queue[k].kind = "add" => queue'[k] = queue[k]
               /\ queue[k].kind = "ask" => queue'[k].covers = queue[k].covers
    BY UnheardTypes DEF Inv, Leave
  <1>2. TypeOK'
    BY <1>1, EmptySeq DEF Inv, TypeOK, Leave, Go, SenderPCs
  <1>3. UNCHANGED <<file, batch, queued, flushed, writer>> /\ Written' = Written
    BY DEF Leave, Written, Whole
  <1>4. ASSUME NEW i, NEW n \in 1..(Len(queue) + 1), Ahead(i, n)
        PROVE  Ahead(i, n)'
    <2>1. Len(queue) \in Nat
      BY LenProperties DEF Inv, TypeOK
    <2> QED
      BY <1>1, <1>3, <1>4, <2>1 DEF Ahead, InSeq
  <1>5. Len(queue) \in Nat
    BY LenProperties DEF Inv, TypeOK
  <1>6. AsksCovered'
    BY <1>1, <1>4, <1>5 DEF Inv, AsksCovered
  <1>7. QueuedFound'
    <2>1. \A i, n : Ahead(i, n) /\ n = Len(queue) + 1 => Ahead(i, n)'
      BY <1>4, <1>5
    <2> QED
      BY <2>1, <1>1, <1>3, <1>5 DEF Inv, QueuedFound, Ahead, InSeq
  <1>8. RecordsSomething'
    BY DEF Inv, TypeOK, RecordsSomething, Leave, Go
  <1> QED
    BY <1>2, <1>3, <1>6, <1>7, <1>8 DEF Inv, BatchIsWritten, FlushedIsWritten

\* The other steps of a sender: only SendFlush and SendShutdown touch the channel.
LEMMA SenderSteps ==
  ASSUME Inv, NEW s \in Senders,
         \/ ItemsRefused(s) \/ BeginFlush(s) \/ SendFlush(s) \/ FlushRefused(s)
         \/ AnswerDropped(s) \/ BeginShutdown \/ SendShutdown \/ ShutdownRefused
  PROVE  Inv'
  <1>1. TypeOK /\ Loop \in Senders /\ <<>> \in Seq(Items)
    BY LoopAssumption, EmptySeq DEF Inv
  <1>2. CASE ItemsRefused(s)
    <2>1. TypeOK'
      BY <1>1, <1>2 DEF TypeOK, ItemsRefused, Go, channel, SenderPCs
    <2>2. RecordsSomething'
      BY <1>2, <1>1 DEF Inv, TypeOK, RecordsSomething, ItemsRefused, Go
    <2> QED
      BY <1>2, <2>1, <2>2, QuietStep DEF ItemsRefused, channel
  <1>3. CASE BeginFlush(s)
    <2>1. TypeOK'
      BY <1>1, <1>3 DEF TypeOK, BeginFlush, Go, channel, SenderPCs
    <2>2. RecordsSomething'
      BY <1>3, <1>1 DEF Inv, TypeOK, RecordsSomething, BeginFlush, Go
    <2> QED
      BY <1>3, <2>1, <2>2, QuietStep DEF BeginFlush, channel
  <1>4. CASE FlushRefused(s)
    <2>1. TypeOK'
      BY <1>1, <1>4 DEF TypeOK, FlushRefused, Go, channel, SenderPCs
    <2>2. RecordsSomething'
      BY <1>4, <1>1 DEF Inv, TypeOK, RecordsSomething, FlushRefused, Go
    <2> QED
      BY <1>4, <2>1, <2>2, QuietStep DEF FlushRefused, channel
  <1>5. CASE AnswerDropped(s)
    <2>1. TypeOK'
      BY <1>1, <1>5 DEF TypeOK, AnswerDropped, Go, channel, SenderPCs
    <2>2. RecordsSomething'
      BY <1>5, <1>1 DEF Inv, TypeOK, RecordsSomething, AnswerDropped, Go
    <2> QED
      BY <1>5, <2>1, <2>2, QuietStep DEF AnswerDropped, channel
  <1>6. CASE BeginShutdown
    <2>1. TypeOK'
      BY <1>1, <1>6 DEF TypeOK, BeginShutdown, Go, channel, SenderPCs
    <2>2. RecordsSomething'
      BY <1>6, <1>1 DEF Inv, TypeOK, RecordsSomething, BeginShutdown, Go
    <2> QED
      BY <1>6, <2>1, <2>2, QuietStep DEF BeginShutdown, channel
  <1>7. CASE ShutdownRefused
    <2>1. TypeOK'
      BY <1>1, <1>7 DEF TypeOK, ShutdownRefused, Go, channel, SenderPCs
    <2>2. RecordsSomething'
      BY <1>7, <1>1 DEF Inv, TypeOK, RecordsSomething, ShutdownRefused, Go
    <2> QED
      BY <1>7, <2>1, <2>2, QuietStep DEF ShutdownRefused, channel
  <1>8. ASSUME NEW a \in Senders, Send(Ask(a, Written \cup Range(queued)))
        PROVE  queue' \in Seq(Commands) /\ Len(queue') <= Capacity
    <2>1. Range(queued) \subseteq Items
      BY RangeOfSeq DEF Inv, TypeOK
    <2>2. Written \subseteq Items
      <3>1. \A k \in DOMAIN file : file[k] \in Lines
        BY LenProperties, ElementOfSeq DEF Inv, TypeOK
      <3> QED
        BY <3>1 DEF Written, Lines
    <2>3. Ask(a, Written \cup Range(queued)) \in Commands
      BY <2>1, <2>2 DEF Ask, Commands
    <2> QED
      BY <1>1, <1>8, <2>3, SendTypes
  <1>9. CASE SendFlush(s)
    <2>1. TypeOK'
      BY <1>1, <1>8, <1>9 DEF TypeOK, SendFlush, Go, SenderPCs
    <2>2. RecordsSomething'
      BY <1>9, <1>1 DEF Inv, TypeOK, RecordsSomething, SendFlush, Go
    <2> QED
      BY <1>9, <2>1, <2>2, StepSendAsk DEF SendFlush
  <1>10. CASE SendShutdown
    <2>1. TypeOK'
      BY <1>1, <1>8, <1>10 DEF TypeOK, SendShutdown, Go, SenderPCs
    <2>2. RecordsSomething'
      BY <1>10, <1>1 DEF Inv, TypeOK, RecordsSomething, SendShutdown, Go
    <2> QED
      BY <1>1, <1>10, <2>1, <2>2, StepSendAsk DEF SendShutdown
  <1> QED
    BY <1>2, <1>3, <1>4, <1>5, <1>6, <1>7, <1>9, <1>10

----------------------------------------------------------------------------
(* The steps of the writer.                                                *)

LEMMA StepWriteMeta ==
  ASSUME Inv, WriteMeta
  PROVE  Inv'
  <1>1. Line(Meta, "newline") \in Lines
    BY DEF Line, Lines, Tails
  <1>2. file' \in Seq(Lines) /\ Written \subseteq Written'
    BY <1>1, WrittenGrows DEF Inv, WriteMeta, WriteLine
  <1>3. TypeOK'
    BY <1>2 DEF Inv, TypeOK, WriteMeta, channel, senders, WriterPCs
  <1> QED
    BY <1>2, <1>3
    DEF Inv, WriteMeta, channel, senders, BatchIsWritten, RecordsSomething, AsksCovered, QueuedFound,
        FlushedIsWritten, Ahead, InSeq

LEMMA StepTakeItems ==
  ASSUME Inv, TakeItems
  PROVE  Inv'
  <1>1. /\ Head(queue) = queue[1]
        /\ queue[1] \in Commands
        /\ queue' \in Seq(Commands)
        /\ Len(queue) \in Nat \ {0}
        /\ Len(queue') = Len(queue) - 1
        /\ Len(queue') <= Capacity
        /\ \A k \in 1..Len(queue') : queue'[k] = queue[k + 1]
    BY TakeTypes DEF Inv, TakeItems
  <1>2. batch' = queue[1].items /\ batch' \in Seq(Items) \ {<<>>} /\ batch = <<>>
    BY <1>1 DEF Inv, BatchIsWritten, TakeItems, Commands
  <1>3. TypeOK'
    BY <1>1, <1>2 DEF Inv, TypeOK, TakeItems, senders, WriterPCs
  <1>4. Written' = Written
    BY DEF TakeItems, Written, Whole
  <1>5. ASSUME NEW i, NEW n \in 1..(Len(queue') + 1), Ahead(i, n + 1)
        PROVE  Ahead(i, n)'
    <2>1. CASE i \in Written
      BY <2>1, <1>4 DEF Ahead
    <2>2. CASE InSeq(i, batch)
      BY <2>2, <1>2, EmptySeq DEF InSeq
    <2>3. CASE \E j \in 1..n : queue[j].kind = "add" /\ InSeq(i, queue[j].items)
      <3>1. PICK j \in 1..n : queue[j].kind = "add" /\ InSeq(i, queue[j].items)
        BY <2>3
      <3>2. CASE j = 1
        BY <3>1, <3>2, <1>2 DEF Ahead, InSeq
      <3>3. CASE j # 1
        <4>1. j - 1 \in 1..(n - 1) /\ j - 1 \in 1..Len(queue')
          BY <3>3, <1>1
        <4>2. queue'[j - 1] = queue[j]
          BY <4>1, <1>1
        <4> QED
          BY <3>1, <4>1, <4>2 DEF Ahead, InSeq
      <3> QED
        BY <3>2, <3>3
    <2> QED
      BY <2>1, <2>2, <2>3, <1>5 DEF Ahead
  <1>6. AsksCovered'
    <2> SUFFICES ASSUME NEW n \in 1..Len(queue'), queue'[n].kind = "ask",
                        NEW i \in queue'[n].covers
                 PROVE  Ahead(i, n)'
      BY DEF AsksCovered
    <2>1. n + 1 \in 1..Len(queue) /\ queue'[n] = queue[n + 1]
      BY <1>1
    <2> QED
      BY <2>1, <1>1, <1>5 DEF Inv, AsksCovered
  <1>7. QueuedFound'
    <2>1. queued' = queued
      BY DEF TakeItems
    <2> SUFFICES ASSUME NEW m \in 1..Len(queued)
                 PROVE  Ahead(queued[m], Len(queue) + 1)'
      BY <2>1 DEF QueuedFound
    <2>2. PICK i, n : i = queued[m] /\ n = Len(queue') + 1
      OBVIOUS
    <2>3. Ahead(i, n)'
      BY <2>2, <1>1, <1>5 DEF Inv, QueuedFound
    <2> QED
      BY <2>1, <2>2, <2>3 DEF Ahead, InSeq
  <1> QED
    BY <1>2, <1>3, <1>4, <1>6, <1>7
    DEF Inv, TakeItems, senders, BatchIsWritten, RecordsSomething, FlushedIsWritten

LEMMA StepWriteItem ==
  ASSUME Inv, WriteItem
  PROVE  Inv'
  <1>0. batch # <<>>
    BY DEF Inv, BatchIsWritten, WriteItem
  <1>1. /\ Head(batch) = batch[1] /\ batch[1] \in Items
        /\ Len(batch) \in Nat \ {0}
        /\ batch' \in Seq(Items)
        /\ Len(batch') = Len(batch) - 1
        /\ DOMAIN batch = 1..Len(batch) /\ DOMAIN batch' = 1..Len(batch')
        /\ \A k \in 1..Len(batch') : batch'[k] = batch[k + 1]
    BY <1>0, HeadTailProperties, EmptySeq, LenProperties DEF Inv, TypeOK, WriteItem
  <1>2. /\ queued' \in Seq(Items)
        /\ Len(queued) \in Nat
        /\ Len(queued') = IF Len(queued) = 0 THEN 0 ELSE Len(queued) - 1
        /\ \A k \in 1..Len(queued') : queued'[k] = queued[k + 1]
    <2>1. Len(queued) \in Nat /\ queued \in Seq(Items)
      BY LenProperties DEF Inv, TypeOK
    <2>2. \A k \in 2..Len(queued) : queued[k] \in Items
      BY <2>1
    <2> QED
      BY <2>1, <2>2, SubSeqProperties DEF WriteItem
  <1>3. /\ file' \in Seq(Lines)
        /\ Written \subseteq Written'
        /\ batch[1] \in Written'
    <2>1. Line(batch[1], "newline") \in Lines
      BY <1>1 DEF Line, Lines, Tails
    <2>2. Whole(Line(batch[1], "newline")) /\ Line(batch[1], "newline").item # Meta
      BY <1>1, BoundAssumption DEF Line, Whole, Items, Meta
    <2> QED
      BY <1>1, <2>1, <2>2, WrittenGrows DEF Inv, WriteItem, WriteLine, Line
  <1>4. TypeOK'
    BY <1>1, <1>2, <1>3 DEF Inv, TypeOK, WriteItem, senders, WriterPCs
  <1>5. ASSUME NEW i, NEW n, Ahead(i, n)
        PROVE  Ahead(i, n)'
    <2>1. CASE InSeq(i, batch)
      <3>1. PICK k \in 1..Len(batch) : batch[k] = i
        BY <2>1, <1>1 DEF InSeq
      <3>2. CASE k = 1
        BY <3>1, <3>2, <1>3 DEF Ahead
      <3>3. CASE k # 1
        <4>1. k - 1 \in 1..Len(batch') /\ batch'[k - 1] = i
          BY <3>1, <3>3, <1>1
        <4> QED
          BY <4>1, <1>1 DEF Ahead, InSeq
      <3> QED
        BY <3>2, <3>3
    <2>2. CASE ~InSeq(i, batch)
      BY <2>2, <1>3, <1>5 DEF Ahead, InSeq, WriteItem
    <2> QED
      BY <2>1, <2>2
  <1>6. AsksCovered'
    BY <1>5 DEF Inv, AsksCovered, WriteItem
  <1>7. QueuedFound'
    <2> SUFFICES ASSUME NEW m \in 1..Len(queued')
                 PROVE  Ahead(queued[m], Len(queue) + 1)'
      BY DEF QueuedFound
    <2>1. PICK i, n : i = queued[m + 1] /\ n = Len(queue) + 1
      OBVIOUS
    <2>2. i = queued'[m] /\ m + 1 \in 1..Len(queued)
      BY <2>1, <1>2
    <2>3. Ahead(i, n)'
      <3>1. Ahead(i, n)
        BY <2>1, <2>2 DEF Inv, QueuedFound
      <3> QED
        BY <3>1, <1>5
    <2> QED
      BY <2>1, <2>2, <2>3 DEF Ahead, InSeq, WriteItem
  <1>8. BatchIsWritten'
    <2>1. batch' = <<>> <=> Len(batch') = 0
      BY <1>1, EmptySeq
    <2> QED
      BY <1>1, <2>1 DEF BatchIsWritten, WriteItem
  <1> QED
    BY <1>3, <1>4, <1>6, <1>7, <1>8
    DEF Inv, RecordsSomething, WriteItem, senders, FlushedIsWritten

LEMMA StepAnswer ==
  ASSUME Inv, Answer
  PROVE  Inv'
  <1>1. /\ Head(queue) = queue[1]
        /\ queue[1] \in Commands
        /\ queue' \in Seq(Commands)
        /\ Len(queue) \in Nat \ {0}
        /\ Len(queue') = Len(queue) - 1
        /\ Len(queue') <= Capacity
        /\ \A k \in 1..Len(queue') : queue'[k] = queue[k + 1]
    BY TakeTypes DEF Inv, Answer
  <1>2. batch = <<>> /\ batch' = batch /\ queued' = queued /\ Written' = Written
    BY DEF Inv, BatchIsWritten, Answer, Written, Whole
  <1>3. \A i \in queue[1].covers : i \in Written
    BY <1>1, <1>2, EmptySeq DEF Inv, AsksCovered, Answer, Ahead, InSeq
  <1>4. queue[1].by \in Senders \cup {Nobody} /\ queue[1].covers \subseteq Items
    BY <1>1 DEF Answer, Commands
  <1>5. TypeOK'
    BY <1>1, <1>2, <1>4 DEF Inv, TypeOK, Answer, Go, SenderPCs
  <1>6. ASSUME NEW i, NEW n \in 1..(Len(queue') + 1), Ahead(i, n + 1)
        PROVE  Ahead(i, n)'
    <2>1. CASE i \in Written
      BY <2>1, <1>2 DEF Ahead
    <2>2. CASE InSeq(i, batch)
      BY <2>2, <1>2, EmptySeq DEF InSeq
    <2>3. CASE \E j \in 1..n : queue[j].kind = "add" /\ InSeq(i, queue[j].items)
      <3>1. PICK j \in 1..n : queue[j].kind = "add" /\ InSeq(i, queue[j].items)
        BY <2>3
      <3>2. j # 1
        BY <3>1, <1>1 DEF Answer
      <3>3. j - 1 \in 1..(n - 1) /\ j - 1 \in 1..Len(queue')
        BY <3>2, <1>1
      <3>4. queue'[j - 1] = queue[j]
        BY <3>3, <1>1
      <3> QED
        BY <3>1, <3>3, <3>4 DEF Ahead, InSeq
    <2> QED
      BY <2>1, <2>2, <2>3, <1>6 DEF Ahead
  <1>7. AsksCovered'
    <2> SUFFICES ASSUME NEW n \in 1..Len(queue'), queue'[n].kind = "ask",
                        NEW i \in queue'[n].covers
                 PROVE  Ahead(i, n)'
      BY DEF AsksCovered
    <2>1. n + 1 \in 1..Len(queue) /\ queue'[n] = queue[n + 1]
      BY <1>1
    <2> QED
      BY <2>1, <1>1, <1>6 DEF Inv, AsksCovered
  <1>8. QueuedFound'
    <2> SUFFICES ASSUME NEW m \in 1..Len(queued)
                 PROVE  Ahead(queued[m], Len(queue) + 1)'
      BY <1>2 DEF QueuedFound
    <2>1. PICK i, n : i = queued[m] /\ n = Len(queue') + 1
      OBVIOUS
    <2>2. Ahead(i, n)'
      BY <2>1, <1>1, <1>6 DEF Inv, QueuedFound
    <2> QED
      BY <2>1, <2>2, <1>2 DEF Ahead, InSeq
  <1>9. FlushedIsWritten'
    BY <1>1, <1>2, <1>3 DEF Inv, FlushedIsWritten, Answer
  <1>10. RecordsSomething'
    BY DEF Inv, TypeOK, RecordsSomething, Answer, Go
  <1> QED
    BY <1>2, <1>5, <1>7, <1>8, <1>9, <1>10 DEF Inv, BatchIsWritten, Answer

LEMMA StepWriteFails ==
  ASSUME Inv, WriteFails
  PROVE  Inv'
  <1>1. PICK i \in Items \cup {Meta} : CutLine(i)
    <2>1. CASE writer = "meta" /\ CutLine(Meta)
      BY <2>1
    <2>2. CASE writer = "writing" /\ CutLine(Head(batch))
      <3>1. Head(batch) \in Items
        BY <2>2, HeadTailProperties DEF Inv, TypeOK, BatchIsWritten
      <3> QED
        BY <2>2, <3>1
    <2> QED
      BY <2>1, <2>2 DEF WriteFails
  <1>2. file' \in Seq(Lines) /\ Written \subseteq Written' /\ torn' \in 0..MaxTears
    BY <1>1, CutKeepsWritten DEF Inv
  <1>3. TypeOK'
    <2>1. \A S : <<>> \in Seq(S) /\ Len(<<>>) = 0
      BY EmptySeq
    <2> QED
      BY <1>2, <2>1, CapacityAssumption DEF Inv, TypeOK, WriteFails, senders, WriterPCs
  <1>4. RecordsSomething'
    BY DEF Inv, RecordsSomething, WriteFails, senders
  <1> QED
    BY <1>2, <1>3, <1>4, ChannelLost DEF WriteFails, senders

LEMMA StepWriterEnds ==
  ASSUME Inv, WriterEnds
  PROVE  Inv'
  BY DEF Inv, TypeOK, WriterEnds, channel, senders, BatchIsWritten, RecordsSomething, AsksCovered,
         QueuedFound, FlushedIsWritten, Ahead, InSeq, Written, Whole, WriterPCs

LEMMA StepKill ==
  ASSUME Inv, Kill
  PROVE  Inv'
  <1>1. file' \in Seq(Lines) /\ Written \subseteq Written' /\ torn' \in 0..MaxTears
    <2>1. CASE UNCHANGED <<file, torn>>
      BY <2>1 DEF Inv, TypeOK, Written, Whole
    <2>2. CASE writer = "meta" /\ CutLine(Meta)
      BY <2>2, CutKeepsWritten DEF Inv
    <2>3. CASE writer = "writing" /\ CutLine(Head(batch))
      <3>1. Head(batch) \in Items
        BY <2>3, HeadTailProperties DEF Inv, TypeOK, BatchIsWritten
      <3> QED
        BY <2>3, <3>1, CutKeepsWritten DEF Inv
    <2> QED
      BY <2>1, <2>2, <2>3 DEF Kill
  <1>2. \A S : <<>> \in Seq(S) /\ Len(<<>>) = 0
    BY EmptySeq
  <1>3. holds' \in [Senders -> Seq(Items)] /\ sender' \in [Senders -> SenderPCs]
    BY <1>2 DEF Kill, SenderPCs
  <1>4. TypeOK'
    <2>1. /\ queue' \in Seq(Commands) /\ Len(queue') <= Capacity
          /\ batch' \in Seq(Items) /\ queued' \in Seq(Items)
      BY <1>2, CapacityAssumption DEF Kill
    <2> QED
      BY <1>1, <1>3, <2>1 DEF Inv, TypeOK, Kill, WriterPCs
  <1>5. RecordsSomething'
    BY DEF RecordsSomething, Kill
  <1> QED
    BY <1>1, <1>4, <1>5, ChannelLost DEF Kill

LEMMA StepResume ==
  ASSUME Inv, Resume
  PROVE  Inv'
  BY BoundAssumption
  DEF Inv, TypeOK, Resume, channel, senders, BatchIsWritten, RecordsSomething, AsksCovered,
      QueuedFound, FlushedIsWritten, Ahead, InSeq, Written, Whole, WriterPCs

----------------------------------------------------------------------------
(* The theorems.                                                           *)

LEMMA StepInv ==
  ASSUME Inv, [Next]_vars
  PROVE  Inv'
  <1>1. CASE \E s \in Senders, n \in 1..2 : Record(s, n)
    BY <1>1, StepRecord
  <1>2. CASE \E s \in Senders : SenderReturns(s) \/ BeginFlush(s) \/ Leave(s)
    BY <1>2, StepSendItems, SenderSteps, StepLeave DEF SenderReturns
  <1>3. CASE BeginShutdown \/ ShutdownReturns
    BY <1>3, SenderSteps, LoopAssumption DEF ShutdownReturns
  <1>4. CASE WriterStep
    BY <1>4, StepWriteMeta, StepTakeItems, StepWriteItem, StepAnswer, StepWriteFails,
       StepWriterEnds
    DEF WriterStep
  <1>5. CASE Kill \/ Resume
    BY <1>5, StepKill, StepResume
  <1>6. CASE UNCHANGED vars
    <2>1. TypeOK' /\ RecordsSomething'
      BY <1>6 DEF vars, channel, senders, Inv, TypeOK, RecordsSomething
    <2> QED
      BY <1>6, <2>1, QuietStep DEF vars, channel, senders
  <1> QED
    BY <1>1, <1>2, <1>3, <1>4, <1>5, <1>6 DEF Next

\* Every behaviour keeps the invariant.
LEMMA InvHolds == Spec => []Inv
  <1>1. Inv /\ [Next]_vars => Inv'
    BY StepInv
  <1> QED
    BY InitInv, <1>1, PTL DEF Spec

\* The variables of the recorder keep their types, and the channel its capacity.
THEOREM RecorderTypes == Spec => []TypeOK
  <1>1. Inv => TypeOK
    BY DEF Inv
  <1> QED
    BY InvHolds, <1>1, PTL

\* Whatever a flush or a shutdown that returned Ok covers is on whole lines of the file,
\* whichever task recorded it and whatever happens later.
THEOREM FlushCommits == Spec => []FlushedIsWritten
  <1>1. Inv => FlushedIsWritten
    BY DEF Inv
  <1> QED
    BY InvHolds, <1>1, PTL

----------------------------------------------------------------------------
(* What a cut line costs.  A whole line does not parse only if the one     *)
(* before it is cut, so the lost items are told apart by cut lines.        *)

Cut == {k \in DOMAIN file : ~Whole(file[k])}

CutsCounted == IsFiniteSet(Cut) /\ Cardinality(Cut) = torn

\* All that a step does to the file.
FileMoves ==
    \/ UNCHANGED <<file, torn>>
    \/ \E i \in Items \cup {Meta}, t \in Tails :
          /\ file' = Append(file, Line(i, t))
          /\ torn' = IF t = "newline" THEN torn ELSE torn + 1

LEMMA CutMoves ==
  ASSUME NEW i \in Items \cup {Meta}, CutLine(i)
  PROVE  FileMoves
  BY DEF CutLine, FileMoves

LEMMA WriteMoves ==
  ASSUME NEW i \in Items \cup {Meta}, WriteLine(i), UNCHANGED torn
  PROVE  FileMoves
  BY DEF WriteLine, Tails, FileMoves

LEMMA FileStep ==
  ASSUME Inv, [Next]_vars
  PROVE  FileMoves
  <1>1. writer = "writing" => Head(batch) \in Items
    BY HeadTailProperties DEF Inv, TypeOK, BatchIsWritten
  <1>2. CASE UNCHANGED <<file, torn>>
    BY <1>2 DEF FileMoves
  <1>3. CASE WriteMeta
    <2>1. WriteLine(Meta) /\ UNCHANGED torn
      BY <1>3 DEF WriteMeta
    <2> QED BY <2>1, WriteMoves
  <1>4. CASE WriteItem
    <2>1. WriteLine(Head(batch)) /\ UNCHANGED torn /\ Head(batch) \in Items
      BY <1>1, <1>4 DEF WriteItem
    <2> QED BY <2>1, WriteMoves
  <1>5. CASE WriteFails \/ Kill
    <2>1. CASE writer = "meta" /\ CutLine(Meta)
      BY <2>1, CutMoves
    <2>2. CASE writer = "writing" /\ CutLine(Head(batch))
      BY <1>1, <2>2, CutMoves
    <2> QED BY <1>2, <1>5, <2>1, <2>2 DEF WriteFails, Kill
  <1>6. CASE TakeItems \/ Answer \/ WriterEnds \/ Resume
    BY <1>2, <1>6 DEF TakeItems, Answer, WriterEnds, Resume
  <1>7. CASE BeginShutdown \/ ShutdownReturns
    BY <1>2, <1>7 DEF BeginShutdown, ShutdownReturns, SendShutdown, ShutdownRefused
  <1>8. ASSUME NEW s \in Senders, NEW n \in 1..2, Record(s, n)
        PROVE  FileMoves
    BY <1>2, <1>8 DEF Record
  <1>9. ASSUME NEW s \in Senders, SenderReturns(s) \/ BeginFlush(s) \/ Leave(s)
        PROVE  FileMoves
    BY <1>2, <1>9
    DEF SenderReturns, SendItems, ItemsRefused, SendFlush, FlushRefused, AnswerDropped,
        BeginFlush, Leave
  <1>10. CASE UNCHANGED vars
    BY <1>2, <1>10 DEF vars
  <1> QED
    BY <1>3, <1>4, <1>5, <1>6, <1>7, <1>8, <1>9, <1>10 DEF Next, WriterStep

\* Each write that stops in the middle leaves one cut line, and no cut line is ever mended.
LEMMA CutsInductive ==
  ASSUME Inv, CutsCounted, [Next]_vars
  PROVE  CutsCounted'
  <1>1. CASE UNCHANGED <<file, torn>>
    BY <1>1 DEF CutsCounted, Cut
  <1>2. ASSUME NEW i \in Items \cup {Meta}, NEW t \in Tails,
               file' = Append(file, Line(i, t)),
               torn' = IF t = "newline" THEN torn ELSE torn + 1
        PROVE  CutsCounted'
    <2> DEFINE l == Line(i, t)
               n == Len(file) + 1
    <2>1. l \in Lines /\ (Whole(l) <=> t = "newline")
      BY DEF Line, Lines, Whole
    <2>2. file \in Seq(Lines) /\ file' = Append(file, l) /\ torn \in Nat
      BY <1>2, BoundAssumption DEF Inv, TypeOK
    <2> HIDE DEF l
    <2>3. /\ \A k \in DOMAIN file : k \in DOMAIN file' /\ file'[k] = file[k]
          /\ n \in DOMAIN file' /\ file'[n] = l /\ n \notin DOMAIN file
          /\ \A k \in DOMAIN file' : k \in DOMAIN file \/ k = n
      BY <2>1, <2>2
    <2> HIDE DEF n
    <2>4. Cut' = IF Whole(l) THEN Cut ELSE Cut \cup {n}
      BY <2>3 DEF Cut, Whole
    <2>5. n \notin Cut
      BY <2>3 DEF Cut
    <2> QED BY <1>2, <2>1, <2>2, <2>4, <2>5, FS_AddElement DEF CutsCounted
  <1> QED BY <1>1, <1>2, FileStep DEF FileMoves

\* To each flushed item that is not read, the cut line in front of it.
LEMMA LossesBounded ==
  ASSUME TypeOK, FlushedIsWritten, CutsCounted
  PROVE  OneLossPerTear
  <1> DEFINE lost == flushed \ Loaded(file)
             Holds(k, i) == /\ k \in DOMAIN file
                            /\ k - 1 \in Cut
                            /\ file[k].item = i
             before == [i \in lost |-> (CHOOSE k \in Nat : Holds(k, i)) - 1]
  <1>1. DOMAIN file = 1..Len(file) /\ Len(file) \in Nat
    BY LenProperties DEF TypeOK
  <1>2. \A i \in lost : \E k \in Nat : Holds(k, i)
    <2> SUFFICES ASSUME NEW i \in lost PROVE \E k \in Nat : Holds(k, i)
      OBVIOUS
    <2>1. PICK k \in DOMAIN file : Whole(file[k]) /\ file[k].item = i
      BY DEF FlushedIsWritten, Written
    <2>2. ~Parses(file, k)
      BY <2>1 DEF Loaded
    <2>3. k > 1 /\ ~Whole(file[k - 1])
      BY <2>1, <2>2 DEF Parses
    <2> QED BY <1>1, <2>1, <2>3 DEF Cut
  <1>3. \A i \in lost : /\ before[i] \in Cut
                         /\ before[i] \in Int
                         /\ file[before[i] + 1].item = i
    <2> SUFFICES ASSUME NEW i \in lost
                 PROVE  /\ before[i] \in Cut
                        /\ before[i] \in Int
                        /\ file[before[i] + 1].item = i
      OBVIOUS
    <2> DEFINE k == CHOOSE k \in Nat : Holds(k, i)
    <2>1. k \in Nat /\ Holds(k, i)
      BY <1>2
    <2>2. before[i] = k - 1
      OBVIOUS
    <2> HIDE DEF k, before
    <2>3. before[i] + 1 = k /\ before[i] \in Int
      BY <2>1, <2>2
    <2> QED BY <2>1, <2>2, <2>3
  <1>4. before \in Injection(lost, Cut)
    <2>1. before \in [lost -> Cut]
      BY <1>3
    <2>2. \A i, j \in lost : before[i] = before[j] => i = j
      <3> HIDE DEF before, lost
      <3> QED BY <1>3
    <2> HIDE DEF before, lost
    <2>3. IsInjective(before)
      BY <2>1, <2>2 DEF IsInjective
    <2> QED BY <2>1, <2>3 DEF Injection
  <1> HIDE DEF before, lost
  <1>5. Cardinality(lost) <= Cardinality(Cut)
    BY <1>4, FS_Injection DEF CutsCounted
  <1> QED BY <1>5 DEF CutsCounted, OneLossPerTear, lost

\* Every line cut short costs at most one item that was flushed, however many processes
\* have appended to the file since (load_rollout_items).
THEOREM LossPerTear == Spec => []OneLossPerTear
  <1>1. Init => CutsCounted
    BY FS_EmptySet, EmptySeq DEF Init, CutsCounted, Cut
  <1>2. Inv /\ CutsCounted /\ [Next]_vars => CutsCounted'
    BY CutsInductive
  <1>3. Inv /\ CutsCounted => OneLossPerTear
    BY LossesBounded DEF Inv
  <1> QED BY <1>1, <1>2, <1>3, InvHolds, PTL DEF Spec

----------------------------------------------------------------------------
(* Induction.  The library's theorems on it take an operator; these are    *)
(* about sets, and follow from the well-foundedness of <.                  *)

Below == {ss \in Nat \X Nat : ss[1] < ss[2]}

\* A set of numbers that is not empty has a least one.
LEMMA LeastNat ==
  ASSUME NEW T, T \subseteq Nat, T # {}
  PROVE  \E x \in T : \A y \in T : x <= y
  <1>0. IsWellFoundedOn(Below, Nat)
    BY NatLessThanWellFounded DEF OpToRel, Below
  <1>1. \E x \in T : \A y \in T : <<y, x>> \notin Below
    BY <1>0, WFMin, Zenon
  <1>2. \A x, y \in Nat : <<y, x>> \notin Below => x <= y
    BY DEF Below
  <1>3. PICK x \in T : \A y \in T : <<y, x>> \notin Below
    BY <1>1
  <1>4. x \in Nat /\ \A y \in T : y \in Nat
    OBVIOUS
  <1>5. \A y \in T : x <= y
    BY <1>2, <1>3, <1>4
  <1> QED BY <1>5

\* Induction over the numbers, on the set of those that have a property.
LEMMA SetInduction ==
  ASSUME NEW T, 0 \in T, \A n \in Nat : n \in T => n + 1 \in T
  PROVE  Nat \subseteq T
  <1> SUFFICES ASSUME Nat \ T # {} PROVE FALSE
    OBVIOUS
  <1>1. PICK x \in Nat \ T : \A y \in Nat \ T : x <= y
    BY LeastNat
  <1>2. x # 0 /\ x - 1 \in Nat
    BY <1>1
  <1>3. x - 1 \in T
    BY <1>1, <1>2
  <1>4. (x - 1) + 1 \in T
    BY <1>2, <1>3
  <1> QED BY <1>1, <1>4

\* Induction over sequences: the empty one, and one more element at the end.
LEMMA SeqInduction ==
  ASSUME NEW S, NEW T, <<>> \in T, \A h \in Seq(S), i \in S : h \in T => Append(h, i) \in T
  PROVE  Seq(S) \subseteq T
  <1> DEFINE N == {n \in Nat : \A h \in Seq(S) : Len(h) = n => h \in T}
  <1>1. 0 \in N
    <2>1. \A h \in Seq(S) : Len(h) = 0 => h = <<>>
      OBVIOUS
    <2> QED BY <2>1
  <1>2. ASSUME NEW n \in Nat, n \in N PROVE n + 1 \in N
    <2> SUFFICES ASSUME NEW h \in Seq(S), Len(h) = n + 1 PROVE h \in T
      OBVIOUS
    <2> DEFINE p == SubSeq(h, 1, n)
    <2>1. p \in Seq(S) /\ Len(p) = n /\ h[n + 1] \in S /\ h = Append(p, h[n + 1])
      OBVIOUS
    <2>2. p \in T
      BY <1>2, <2>1
    <2> HIDE DEF p
    <2> QED BY <2>1, <2>2
  <1>3. Nat \subseteq N
    <2> HIDE DEF N
    <2> QED BY <1>1, <1>2, SetInduction
  <1> QED BY <1>3

\* f takes b through the first n steps of F, whose values are in S.
StepsIn(n, S, F) == \A k \in 1..n : \A s \in S : F[k][s] \in S
IsFold(f, n, S, b, F) ==
    /\ f \in [0..n -> S]
    /\ f[0] = b
    /\ \A k \in 1..n : f[k] = F[k][f[k - 1]]
HasFold(n, S, b, F) == \E f : IsFold(f, n, S, b, F)

\* A fold exists, whatever it is that F computes in S.
LEMMA FoldExists ==
  ASSUME NEW n \in Nat, NEW S, NEW b \in S, NEW F, StepsIn(n, S, F)
  PROVE  HasFold(n, S, b, F)
  <1> DEFINE T == {m \in Nat : m <= n => \E f \in [0..m -> S] : IsFold(f, m, S, b, F)}
  <1>1. 0 \in T
    <2>1. [k \in 0..0 |-> b] \in [0..0 -> S] /\ IsFold([k \in 0..0 |-> b], 0, S, b, F)
      BY DEF IsFold
    <2> QED BY <2>1
  <1>2. \A m \in Nat : m \in T => m + 1 \in T
    <2> SUFFICES ASSUME NEW m \in Nat, m \in T, m + 1 <= n
                 PROVE  \E f \in [0..(m + 1) -> S] : IsFold(f, m + 1, S, b, F)
      OBVIOUS
    <2>1. PICK f \in [0..m -> S] : IsFold(f, m, S, b, F)
      OBVIOUS
    <2> DEFINE v == F[m + 1][f[m]]
               g == [k \in 0..(m + 1) |-> IF k = m + 1 THEN v ELSE f[k]]
    <2>2. v \in S
      <3>1. f[m] \in S /\ m + 1 \in 1..n
        OBVIOUS
      <3> QED BY <3>1 DEF StepsIn
    <2>3. g \in [0..(m + 1) -> S]
      BY <2>2
    <2>4. IsFold(g, m + 1, S, b, F)
      <3>1. g[0] = b /\ \A k \in 1..(m + 1) : g[k] = F[k][g[k - 1]]
        <4>1. \A k \in 1..m : g[k] = f[k] /\ g[k - 1] = f[k - 1]
          OBVIOUS
        <4>2. g[0] = f[0] /\ g[m + 1] = v /\ g[(m + 1) - 1] = f[m]
          OBVIOUS
        <4>3. f[0] = b /\ \A k \in 1..m : f[k] = F[k][f[k - 1]]
          BY <2>1 DEF IsFold
        <4>4. \A k \in 1..(m + 1) : k \in 1..m \/ k = m + 1
          OBVIOUS
        <4> HIDE DEF g
        <4> QED BY <4>1, <4>2, <4>3, <4>4
      <3> HIDE DEF g
      <3> QED BY <2>3, <3>1 DEF IsFold
    <2> HIDE DEF g
    <2> QED BY <2>3, <2>4
  <1>3. n \in T
    <2> HIDE DEF T
    <2> QED BY <1>1, <1>2, SetInduction
  <1> QED BY <1>3 DEF HasFold

----------------------------------------------------------------------------
(* FlattenSeq, whose definition is recursive.                              *)

\* The function it computes.
Flattened(ss) ==
    CHOOSE g : g = [k \in 1..Len(ss) |-> IF k = 1 THEN ss[k] ELSE g[k - 1] \o ss[k]]

\* It takes the steps of its definition.
LEMMA FlattenSteps ==
  ASSUME NEW I, NEW ss \in Seq(Seq(I)), Len(ss) # 0
  PROVE  /\ Flattened(ss)[1] = ss[1]
         /\ \A k \in 2..Len(ss) : Flattened(ss)[k] = Flattened(ss)[k - 1] \o ss[k]
         /\ FlattenSeq(ss) = Flattened(ss)[Len(ss)]
  <1> DEFINE n == Len(ss)
             S == Seq(I)
             Body(g) == [k \in 1..Len(ss) |-> IF k = 1 THEN ss[k] ELSE g[k - 1] \o ss[k]]
             F == [k \in 1..n |-> [v \in S |-> v \o ss[k]]]
             G == Flattened(ss)
  <1>1. n \in Nat /\ <<>> \in S /\ \A k \in 1..n : ss[k] \in S
    OBVIOUS
  <1>2. \A k \in 1..n : \A v \in S : v \o ss[k] \in S
    BY <1>1
  <1>3. PICK f : IsFold(f, n, S, <<>>, F)
    <2>1. StepsIn(n, S, F)
      <3> HIDE DEF S, n
      <3> QED BY <1>2 DEF StepsIn
    <2> HIDE DEF S, F, n
    <2> QED BY <1>1, <2>1, FoldExists DEF HasFold
  <1> HIDE DEF S, n
  <1>4. /\ f \in [0..n -> S] /\ f[0] = <<>>
        /\ \A k \in 1..n : f[k] = f[k - 1] \o ss[k]
    <2>1. f \in [0..n -> S] /\ f[0] = <<>> /\ \A k \in 1..n : f[k] = F[k][f[k - 1]]
      BY <1>3 DEF IsFold
    <2>2. ASSUME NEW k \in 1..n PROVE f[k] = f[k - 1] \o ss[k]
      <3>1. f[k - 1] \in S
        BY <1>1, <2>1
      <3> QED BY <2>1, <3>1
    <2> QED BY <2>1, <2>2
  <1> DEFINE g == [k \in 1..n |-> f[k]]
  <1>5. g = Body(g)
    <2>1. 1 \in 1..n => g[1] = ss[1]
      <3> SUFFICES ASSUME 1 \in 1..n PROVE f[1] = ss[1]
        OBVIOUS
      <3>1. f[1] = f[1 - 1] \o ss[1] /\ ss[1] \in Seq(I)
        BY <1>1, <1>4, Zenon DEF S
      <3>2. f[1 - 1] = <<>>
        BY <1>4
      <3>3. <<>> \o ss[1] = ss[1]
        BY <3>1
      <3> QED BY <3>1, <3>2, <3>3, Zenon
    <2>2. ASSUME NEW k \in 1..n, k # 1 PROVE g[k] = g[k - 1] \o ss[k]
      <3>1. k - 1 \in 1..n
        BY <1>1, <2>2
      <3>2. g[k] = f[k] /\ g[k - 1] = f[k - 1]
        BY <3>1
      <3> HIDE DEF g
      <3> QED BY <1>4, <3>2, Zenon
    <2>3. \A k \in 1..n : g[k] = Body(g)[k]
      <3> HIDE DEF g
      <3> QED BY <2>1, <2>2 DEF n
    <2>4. DOMAIN g = 1..n /\ g = [k \in 1..n |-> g[k]]
      OBVIOUS
    <2> HIDE DEF g
    <2> QED BY <2>3, <2>4 DEF n
  <1>6. G = Body(G)
    <2>1. G = CHOOSE h : h = Body(h)
      BY DEF Flattened
    <2> HIDE DEF Body, g
    <2> QED BY <1>5, <2>1
  <1>7. \A k \in 1..n : G[k] = Body(G)[k]
    BY <1>6
  <1>8. FlattenSeq(ss) = G[Len(ss)]
    BY DEF FlattenSeq, Flattened
  <1> HIDE DEF G, F
  <1>9. 1 \in 1..n /\ \A k \in 2..n : k \in 1..n /\ k # 1
    BY <1>1 DEF n
  <1>10. G[1] = ss[1] /\ \A k \in 2..n : G[k] = G[k - 1] \o ss[k]
    BY <1>7, <1>9 DEF n
  <1> QED BY <1>8, <1>10 DEF G, n

\* Nothing comes of nothing.
LEMMA FlattenEmpty == FlattenSeq(<<>>) = <<>>
  BY DEF FlattenSeq

\* What a last sequence adds.
LEMMA FlattenAppend ==
  ASSUME NEW I, NEW ss \in Seq(Seq(I)), NEW s \in Seq(I)
  PROVE  FlattenSeq(Append(ss, s)) = FlattenSeq(ss) \o s
  <1> DEFINE a == Append(ss, s)
             n == Len(ss)
  <1>1. /\ a \in Seq(Seq(I)) /\ Len(a) = n + 1 /\ n \in Nat /\ a[n + 1] = s
        /\ \A k \in 1..n : a[k] = ss[k]
    OBVIOUS
  <1> HIDE DEF a
  <1>2. CASE n = 0
    <2>1. ss = <<>>
      BY <1>2
    <2>2. FlattenSeq(ss) = <<>>
      BY <2>1, FlattenEmpty
    <2>3. FlattenSeq(a) = s
      <3>1. Len(a) # 0 /\ Len(a) = 1 /\ a[1] = s
        BY <1>1, <1>2
      <3>2. Flattened(a)[1] = a[1] /\ FlattenSeq(a) = Flattened(a)[Len(a)]
        BY <1>1, <3>1, FlattenSteps, Zenon
      <3> QED BY <3>1, <3>2, Zenon
    <2>4. <<>> \o s = s
      OBVIOUS
    <2> QED BY <2>2, <2>3, <2>4 DEF a
  <1>3. CASE n # 0
    <2> DEFINE A == Flattened(a)
               G == Flattened(ss)
               T == {k \in Nat : k \in 1..n => A[k] = G[k]}
    <2>1. G[1] = ss[1] /\ (\A k \in 2..n : G[k] = G[k - 1] \o ss[k]) /\ FlattenSeq(ss) = G[n]
      BY <1>3, FlattenSteps
    <2>2. A[1] = a[1] /\ (\A k \in 2..(n + 1) : A[k] = A[k - 1] \o a[k]) /\ FlattenSeq(a) = A[n + 1]
      <3>1. Len(a) # 0
        BY <1>1
      <3>2. /\ Flattened(a)[1] = a[1]
            /\ \A k \in 2..Len(a) : Flattened(a)[k] = Flattened(a)[k - 1] \o a[k]
            /\ FlattenSeq(a) = Flattened(a)[Len(a)]
        BY <1>1, <3>1, FlattenSteps, Zenon
      <3> QED BY <1>1, <3>2, Zenon
    <2> HIDE DEF A, G
    <2>3. 0 \in T
      BY <1>1
    <2>4. ASSUME NEW k \in Nat, k \in T PROVE k + 1 \in T
      <3> SUFFICES ASSUME k + 1 \in 1..n PROVE A[k + 1] = G[k + 1]
        OBVIOUS
      <3>1. CASE k = 0
        BY <1>1, <1>3, <2>1, <2>2, <3>1
      <3>2. CASE k # 0
        <4>1. k \in 1..n /\ k + 1 \in 2..n /\ k + 1 \in 2..(n + 1) /\ (k + 1) - 1 = k
          BY <1>1, <3>2
        <4>2. A[k] = G[k] /\ a[k + 1] = ss[k + 1]
          BY <1>1, <2>4, <4>1
        <4>3. G[k + 1] = G[k] \o ss[k + 1]
          BY <2>1, <4>1
        <4>4. A[k + 1] = A[k] \o a[k + 1]
          BY <2>2, <4>1
        <4> QED BY <4>2, <4>3, <4>4
      <3> QED BY <3>1, <3>2
    <2>5. Nat \subseteq T
      <3> HIDE DEF T
      <3> QED BY <2>3, <2>4, SetInduction
    <2>6. A[n] = G[n]
      BY <1>1, <1>3, <2>5
    <2>7. n + 1 \in 2..(n + 1) /\ (n + 1) - 1 = n
      BY <1>1, <1>3
    <2>8. A[n + 1] = A[n] \o s
      BY <1>1, <2>2, <2>7
    <2> QED BY <2>1, <2>2, <2>6, <2>8 DEF a
  <1> QED BY <1>2, <1>3

\* Sequences in a row are a sequence.
LEMMA FlattenType ==
  ASSUME NEW I, NEW ss \in Seq(Seq(I))
  PROVE  FlattenSeq(ss) \in Seq(I)
  <1> DEFINE T == {tt \in Seq(Seq(I)) : FlattenSeq(tt) \in Seq(I)}
  <1>1. <<>> \in T
    <2>1. <<>> \in Seq(Seq(I)) /\ <<>> \in Seq(I)
      OBVIOUS
    <2> QED BY <2>1, FlattenEmpty, Zenon
  <1>2. ASSUME NEW tt \in Seq(Seq(I)), NEW s \in Seq(I), tt \in T PROVE Append(tt, s) \in T
    <2>1. Append(tt, s) \in Seq(Seq(I)) /\ FlattenSeq(tt) \in Seq(I)
      BY <1>2
    <2>2. FlattenSeq(Append(tt, s)) = FlattenSeq(tt) \o s
      BY FlattenAppend
    <2>3. FlattenSeq(tt) \o s \in Seq(I)
      BY <2>1
    <2> QED BY <2>1, <2>2, <2>3, Zenon
  <1>3. Seq(Seq(I)) \subseteq T
    <2> HIDE DEF T
    <2> QED BY <1>1, <1>2, SeqInduction
  <1> QED BY <1>3

\* An element at the end of the second is at the end of both.
LEMMA ConcatAppend ==
  ASSUME NEW S, NEW t \in Seq(S), NEW u \in Seq(S), NEW e \in S
  PROVE  t \o Append(u, e) = Append(t \o u, e)
  <1> DEFINE v == <<e>>
  <1>1. v \in Seq(S) /\ t \o u \in Seq(S)
    OBVIOUS
  <1>2. Append(u, e) = u \o v /\ Append(t \o u, e) = (t \o u) \o v
    BY <1>1, AppendIsConcat
  <1> HIDE DEF v
  <1>3. (t \o u) \o v = t \o (u \o v)
    BY <1>1
  <1> QED BY <1>2, <1>3, Zenon

\* What a first sequence adds.
LEMMA FlattenFirst ==
  ASSUME NEW I, NEW s \in Seq(I), NEW ss \in Seq(Seq(I))
  PROVE  FlattenSeq(<<s>> \o ss) = s \o FlattenSeq(ss)
  <1> DEFINE T == {tt \in Seq(Seq(I)) : FlattenSeq(<<s>> \o tt) = s \o FlattenSeq(tt)}
             one == <<s>>
  <1>1. <<>> \in T
    <2>1. one \o <<>> = Append(<<>>, s) /\ <<>> \in Seq(Seq(I))
      OBVIOUS
    <2>2. FlattenSeq(Append(<<>>, s)) = FlattenSeq(<<>>) \o s
      BY <2>1, FlattenAppend
    <2>3. <<>> \o s = s /\ s \o <<>> = s
      OBVIOUS
    <2> QED BY <2>1, <2>2, <2>3, FlattenEmpty
  <1>2. ASSUME NEW tt \in Seq(Seq(I)), NEW r \in Seq(I), tt \in T PROVE Append(tt, r) \in T
    <2>1. one \in Seq(Seq(I)) /\ Append(tt, r) \in Seq(Seq(I))
      OBVIOUS
    <2>2. FlattenSeq(one \o tt) = s \o FlattenSeq(tt)
      BY <1>2
    <2> HIDE DEF one
    <2>3. one \o Append(tt, r) = Append(one \o tt, r) /\ one \o tt \in Seq(Seq(I))
      BY <2>1, ConcatProperties, ConcatAppend
    <2>4. FlattenSeq(Append(one \o tt, r)) = FlattenSeq(one \o tt) \o r
      BY <2>3, FlattenAppend
    <2>5. FlattenSeq(Append(tt, r)) = FlattenSeq(tt) \o r
      BY FlattenAppend
    <2>6. FlattenSeq(tt) \in Seq(I)
      BY FlattenType
    <2>7. (s \o FlattenSeq(tt)) \o r = s \o (FlattenSeq(tt) \o r)
      <3> DEFINE u == FlattenSeq(tt)
      <3> HIDE DEF T
      <3>1. u \in Seq(I)
        BY <2>6
      <3> HIDE DEF u
      <3>2. (s \o u) \o r = s \o (u \o r)
        BY <3>1, SMTT(20)
      <3> QED BY <3>2 DEF u
    <2> QED BY <2>1, <2>2, <2>3, <2>4, <2>5, <2>7 DEF one
  <1>3. Seq(Seq(I)) \subseteq T
    <2> HIDE DEF T
    <2> QED BY <1>1, <1>2, SeqInduction
  <1> QED BY <1>3

\* A sequence with one more element.
LEMMA AppendIs ==
  ASSUME NEW S, NEW a \in Seq(S), NEW e \in S, NEW b \in Seq(S), Len(b) = Len(a) + 1,
         \A k \in 1..Len(a) : b[k] = a[k], b[Len(a) + 1] = e
  PROVE  b = Append(a, e)
  <1> DEFINE c == Append(a, e)
  <1>1. c \in Seq(S) /\ Len(c) = Len(a) + 1 /\ Len(a) \in Nat
    OBVIOUS
  <1>2. (\A k \in 1..Len(a) : c[k] = a[k]) /\ c[Len(a) + 1] = e
    OBVIOUS
  <1> HIDE DEF c
  <1>3. \A k \in 1..Len(b) : b[k] = c[k]
    BY <1>1, <1>2
  <1>4. b = c
    BY <1>1, <1>3, SeqEqual
  <1> QED BY <1>4 DEF c

\* A sequence that begins with an element.
LEMMA FirstIs ==
  ASSUME NEW S, NEW a \in Seq(S), NEW e \in S, NEW b \in Seq(S), Len(b) = Len(a) + 1,
         \A k \in 1..Len(a) : b[k + 1] = a[k], b[1] = e
  PROVE  b = <<e>> \o a
  <1> DEFINE one == <<e>>
             c == one \o a
  <1>1. one \in Seq(S) /\ Len(one) = 1 /\ one[1] = e /\ Len(a) \in Nat
    OBVIOUS
  <1> HIDE DEF one
  <1>2. /\ c \in Seq(S) /\ Len(c) = 1 + Len(a)
        /\ \A k \in 1..(1 + Len(a)) : c[k] = IF k <= 1 THEN one[k] ELSE a[k - 1]
    <2>1. /\ one \o a \in Seq(S) /\ Len(one \o a) = Len(one) + Len(a)
          /\ \A k \in 1..(Len(one) + Len(a)) :
               (one \o a)[k] = IF k <= Len(one) THEN one[k] ELSE a[k - Len(one)]
      BY <1>1, ConcatProperties
    <2>2. c = one \o a
      OBVIOUS
    <2> HIDE DEF c
    <2> QED BY <1>1, <2>1, <2>2, Zenon
  <1> HIDE DEF c
  <1>3. \A k \in 1..Len(b) : b[k] = c[k]
    <2> SUFFICES ASSUME NEW k \in 1..Len(b) PROVE b[k] = c[k]
      OBVIOUS
    <2>1. CASE k = 1
      BY <1>1, <1>2, <2>1
    <2>2. CASE k # 1
      <3>1. k - 1 \in 1..Len(a) /\ (k - 1) + 1 = k
        BY <1>1, <2>2
      <3>2. c[k] = a[k - 1]
        BY <1>1, <1>2, <3>1
      <3>3. b[(k - 1) + 1] = a[k - 1]
        BY <3>1
      <3> QED BY <3>1, <3>2, <3>3
    <2> QED BY <2>1, <2>2
  <1>4. b = c
    BY <1>1, <1>2, <1>3, SeqEqual
  <1> QED BY <1>4 DEF c, one

----------------------------------------------------------------------------
(* The file is the log, and what is queued is what the log has yet to      *)
(* write: the rest of the command being written, and then, in their order, *)
(* the items of the commands in the channel.                               *)

Recorded(c) == IF c.kind = "add" THEN c.items ELSE <<>>
Handed(q) == [k \in DOMAIN q |-> Recorded(q[k])]
ItemsIn(q) == FlattenSeq(Handed(q))

OnLines(f) == [k \in DOMAIN f |-> Item(f[k])]

QueuedInOrder == queued = batch \o ItemsIn(queue)

OneOrTwo == \A s \in Senders : sender[s] = "recording" => Len(holds[s]) \in 1..2

LogInv == QueuedInOrder /\ OneOrTwo

\* The items of a channel are items.
LEMMA HandedType ==
  ASSUME NEW q \in Seq(Commands)
  PROVE  /\ Handed(q) \in Seq(Seq(Items))
         /\ Len(Handed(q)) = Len(q)
         /\ \A k \in 1..Len(q) : Handed(q)[k] = Recorded(q[k])
         /\ ItemsIn(q) \in Seq(Items)
  <1>1. DOMAIN q = 1..Len(q) /\ Len(q) \in Nat
    OBVIOUS
  <1>2. \A c \in Commands : Recorded(c) \in Seq(Items)
    BY DEF Commands, Recorded
  <1>3. /\ Handed(q) \in Seq(Seq(Items)) /\ Len(Handed(q)) = Len(q)
        /\ \A k \in 1..Len(q) : Handed(q)[k] = Recorded(q[k])
    BY <1>1, <1>2 DEF Handed
  <1> QED BY <1>3, FlattenType DEF ItemsIn

\* So are those of a file.
LEMMA OnLinesType ==
  ASSUME NEW f \in Seq(Lines)
  PROVE  /\ OnLines(f) \in Seq(Seq(Items))
         /\ Len(OnLines(f)) = Len(f)
         /\ \A k \in 1..Len(f) : OnLines(f)[k] = Item(f[k])
         /\ FlattenSeq(OnLines(f)) \in Seq(Items)
  <1>1. DOMAIN f = 1..Len(f) /\ Len(f) \in Nat
    OBVIOUS
  <1>2. \A l \in Lines : Item(l) \in Seq(Items)
    BY DEF Lines, Item
  <1>3. /\ OnLines(f) \in Seq(Seq(Items)) /\ Len(OnLines(f)) = Len(f)
        /\ \A k \in 1..Len(f) : OnLines(f)[k] = Item(f[k])
    BY <1>1, <1>2 DEF OnLines
  <1> QED BY <1>3, FlattenType

\* A line more is its item more in the log, if it has one.
LEMMA LineMore ==
  ASSUME TypeOK, NEW l \in Lines, file' = Append(file, l)
  PROVE  OnDisk' = OnDisk \o Item(l)
  <1> DEFINE a == OnLines(file)
             b == OnLines(file')
             i == Item(l)
  <1>1. file \in Seq(Lines) /\ file' \in Seq(Lines)
    BY DEF TypeOK
  <1>2. i \in Seq(Items)
    BY DEF Lines, Item
  <1>3. /\ Len(file') = Len(file) + 1 /\ Len(file) \in Nat
        /\ \A k \in 1..Len(file) : file'[k] = file[k]
        /\ file'[Len(file) + 1] = l
    BY <1>1
  <1>4. /\ a \in Seq(Seq(Items)) /\ Len(a) = Len(file)
        /\ \A k \in 1..Len(file) : a[k] = Item(file[k])
    BY <1>1, OnLinesType
  <1>5. /\ b \in Seq(Seq(Items)) /\ Len(b) = Len(file')
        /\ \A k \in 1..Len(file') : b[k] = Item(file'[k])
    BY <1>1, OnLinesType
  <1>6. OnDisk = FlattenSeq(a) /\ OnDisk' = FlattenSeq(b)
    BY DEF OnDisk, OnLines
  <1> HIDE DEF a, b
  <1>7. b = Append(a, i)
    <2>1. \A k \in 1..Len(a) : b[k] = a[k]
      BY <1>3, <1>4, <1>5
    <2>2. Len(b) = Len(a) + 1 /\ Len(a) + 1 \in 1..Len(file')
      BY <1>3, <1>4, <1>5
    <2>3. b[Len(a) + 1] = Item(file'[Len(a) + 1]) /\ file'[Len(a) + 1] = l
      BY <1>3, <1>4, <1>5, <2>2
    <2>4. b[Len(a) + 1] = i
      BY <2>3, Zenon
    <2> HIDE DEF i
    <2> QED BY <1>2, <1>4, <1>5, <2>1, <2>2, <2>4, AppendIs
  <1> HIDE DEF i
  <1>8. FlattenSeq(Append(a, i)) = FlattenSeq(a) \o i
    BY <1>2, <1>4, FlattenAppend
  <1> QED BY <1>6, <1>7, <1>8, Zenon DEF i

\* A line that is cut short, or bears no item, adds nothing.
LEMMA NoItemMore ==
  ASSUME TypeOK, NEW l \in Lines, file' = Append(file, l), Item(l) = <<>>
  PROVE  OnDisk' = OnDisk
  <1>1. OnDisk' = OnDisk \o Item(l)
    BY LineMore
  <1>2. OnDisk \in Seq(Items)
    BY OnLinesType DEF OnDisk, OnLines, TypeOK
  <1>3. OnDisk \o <<>> = OnDisk
    BY <1>2, ConcatEmptySeq
  <1> QED BY <1>1, <1>3, Zenon

\* So does a write that stops in the middle, or before it began.
LEMMA CutAddsNothing ==
  ASSUME TypeOK, NEW i \in Items \cup {Meta}, CutLine(i)
  PROVE  OnDisk' = OnDisk
  <1>1. CASE UNCHANGED file
    BY <1>1 DEF OnDisk
  <1>2. ASSUME NEW t \in Tails \ {"newline"}, file' = Append(file, Line(i, t))
        PROVE  OnDisk' = OnDisk
    <2> DEFINE l == Line(i, t)
    <2>1. l \in Lines /\ Item(l) = <<>>
      BY DEF Line, Lines, Item, Whole
    <2> HIDE DEF l
    <2>2. file' = Append(file, l)
      BY <1>2 DEF l
    <2> QED BY <2>1, <2>2, NoItemMore
  <1> QED BY <1>1, <1>2 DEF CutLine

\* A command more in the channel is its items more, behind the others.
LEMMA CommandMore ==
  ASSUME NEW q \in Seq(Commands), NEW c \in Commands
  PROVE  ItemsIn(Append(q, c)) = ItemsIn(q) \o Recorded(c)
  <1> DEFINE p == Append(q, c)
             a == Handed(q)
             b == Handed(p)
             i == Recorded(c)
  <1>1. i \in Seq(Items)
    BY DEF Commands, Recorded
  <1>2. /\ p \in Seq(Commands)
        /\ Len(p) = Len(q) + 1 /\ Len(q) \in Nat
        /\ \A k \in 1..Len(q) : p[k] = q[k]
        /\ p[Len(q) + 1] = c
    OBVIOUS
  <1> HIDE DEF p
  <1>3. /\ a \in Seq(Seq(Items)) /\ Len(a) = Len(q)
        /\ \A k \in 1..Len(q) : a[k] = Recorded(q[k])
    BY HandedType
  <1>4. /\ b \in Seq(Seq(Items)) /\ Len(b) = Len(p)
        /\ \A k \in 1..Len(p) : b[k] = Recorded(p[k])
    BY <1>2, HandedType
  <1> HIDE DEF a, b
  <1>5. b = Append(a, i)
    <2>1. \A k \in 1..Len(a) : b[k] = a[k]
      BY <1>2, <1>3, <1>4
    <2>2. b[Len(a) + 1] = i /\ Len(b) = Len(a) + 1
      BY <1>2, <1>3, <1>4
    <2> HIDE DEF i
    <2> QED BY <1>1, <1>3, <1>4, <2>1, <2>2, AppendIs
  <1> HIDE DEF i
  <1>6. FlattenSeq(Append(a, i)) = FlattenSeq(a) \o i
    BY <1>1, <1>3, FlattenAppend
  <1> QED BY <1>5, <1>6, Zenon DEF ItemsIn, a, b, i, p

\* The command that is taken is what came first.
LEMMA CommandLess ==
  ASSUME NEW q \in Seq(Commands), q # <<>>
  PROVE  /\ Head(q) \in Commands
         /\ Tail(q) \in Seq(Commands)
         /\ ItemsIn(q) = Recorded(Head(q)) \o ItemsIn(Tail(q))
  <1> DEFINE p == Tail(q)
             a == Handed(p)
             b == Handed(q)
             c == Head(q)
             i == Recorded(c)
  <1>1. /\ p \in Seq(Commands)
        /\ Len(q) = Len(p) + 1 /\ Len(p) \in Nat
        /\ \A k \in 1..Len(p) : p[k] = q[k + 1]
        /\ c \in Commands /\ q[1] = c
    <2>1. Len(q) \in Nat \ {0}
      BY EmptySeq
    <2> QED BY <2>1, HeadTailProperties
  <1> HIDE DEF p, c
  <1>2. i \in Seq(Items)
    BY <1>1 DEF Commands, Recorded
  <1>3. /\ a \in Seq(Seq(Items)) /\ Len(a) = Len(p)
        /\ \A k \in 1..Len(p) : a[k] = Recorded(p[k])
    BY <1>1, HandedType
  <1>4. /\ b \in Seq(Seq(Items)) /\ Len(b) = Len(q)
        /\ \A k \in 1..Len(q) : b[k] = Recorded(q[k])
    BY HandedType
  <1> HIDE DEF a, b
  <1>5. b = <<i>> \o a
    <2>1. \A k \in 1..Len(a) : b[k + 1] = a[k]
      BY <1>1, <1>3, <1>4
    <2>2. b[1] = i /\ Len(b) = Len(a) + 1
      BY <1>1, <1>3, <1>4
    <2> HIDE DEF i
    <2> QED BY <1>2, <1>3, <1>4, <2>1, <2>2, FirstIs
  <1> HIDE DEF i
  <1>6. FlattenSeq(<<i>> \o a) = i \o FlattenSeq(a)
    BY <1>2, <1>3, FlattenFirst
  <1>7. ItemsIn(q) = i \o ItemsIn(p)
    BY <1>5, <1>6, Zenon DEF ItemsIn, a, b
  <1> QED BY <1>1, <1>7, Zenon DEF i, p, c

\* A receiver that is dropped takes no items with it.
LEMMA UnheardRecords ==
  ASSUME TypeOK, NEW s \in Senders,
         queue' = [k \in DOMAIN queue |-> Unheard(queue[k], s)]
  PROVE  ItemsIn(queue') = ItemsIn(queue)
  <1>1. /\ queue' \in Seq(Commands)
        /\ Len(queue') = Len(queue)
        /\ \A k \in 1..Len(queue) :
                /\ queue'[k].kind = queue[k].kind
                /\ queue[k].kind = "add" => queue'[k] = queue[k]
    BY UnheardTypes
  <1>2. queue \in Seq(Commands)
    BY DEF TypeOK
  <1>3. ASSUME NEW k \in 1..Len(queue) PROVE Recorded(queue'[k]) = Recorded(queue[k])
    <2>1. CASE queue[k].kind = "add"
      BY <1>1, <2>1
    <2>2. CASE queue[k].kind # "add"
      BY <1>1, <2>2, Zenon DEF Recorded
    <2> QED BY <2>1, <2>2
  <1>4. Handed(queue') = Handed(queue)
    <2> DEFINE a == Handed(queue)
               b == Handed(queue')
    <2>1. /\ a \in Seq(Seq(Items)) /\ Len(a) = Len(queue)
          /\ \A k \in 1..Len(queue) : a[k] = Recorded(queue[k])
      BY <1>2, HandedType
    <2>2. /\ b \in Seq(Seq(Items)) /\ Len(b) = Len(queue')
          /\ \A k \in 1..Len(queue') : b[k] = Recorded(queue'[k])
      BY <1>1, HandedType
    <2> HIDE DEF a, b
    <2>3. Len(queue') = Len(queue)
      BY <1>1
    <2>4. \A k \in 1..Len(queue) : b[k] = a[k]
      BY <1>3, <2>1, <2>2, <2>3, Zenon
    <2>5. b = a
      BY <2>1, <2>2, <2>3, <2>4, SeqEqual
    <2> QED BY <2>5 DEF a, b
  <1> QED BY <1>4, Zenon DEF ItemsIn

\* What is done to the file, the channel and the command being written, save by the
\* steps that write an item or lose some.
LEMMA LogQuiet ==
  ASSUME LogInv, OneOrTwo', OnDisk' = OnDisk, UNCHANGED queued,
         batch' \o ItemsIn(queue') = batch \o ItemsIn(queue)
  PROVE  LogInv' /\ [Log!Next]_<<OnDisk, queued>>
  <1>1. QueuedInOrder'
    BY Zenon DEF LogInv, QueuedInOrder
  <1> QED BY <1>1, Zenon DEF LogInv

\* What is handed over enters the channel behind all the rest.
LEMMA LogSendItems ==
  ASSUME Inv, LogInv, NEW s \in Senders, SendItems(s)
  PROVE  LogInv' /\ [Log!Next]_<<OnDisk, queued>>
  <1> DEFINE h == holds[s]
             c == Add(h)
  <1>1. /\ h \in Seq(Items) /\ h # <<>> /\ Len(h) \in 1..2
        /\ sender' = [sender EXCEPT ![s] = "recorded"]
        /\ holds' = [holds EXCEPT ![s] = <<>>]
        /\ queued' = queued \o h /\ UNCHANGED <<file, batch>> /\ Send(c)
    BY DEF Inv, TypeOK, RecordsSomething, LogInv, OneOrTwo, SendItems, Go
  <1>2. c \in Commands /\ Recorded(c) = h
    BY <1>1 DEF Add, Commands, Recorded
  <1>3. queue \in Seq(Commands) /\ batch \in Seq(Items) /\ queued \in Seq(Items)
    BY DEF Inv, TypeOK
  <1>4. ItemsIn(queue') = ItemsIn(queue) \o h /\ ItemsIn(queue) \in Seq(Items)
    <2>1. queue' = Append(queue, c)
      BY <1>1 DEF Send
    <2> HIDE DEF c, h
    <2> QED BY <1>2, <1>3, <2>1, CommandMore, HandedType
  <1>5. OneOrTwo'
    BY <1>1 DEF Inv, TypeOK, LogInv, OneOrTwo
  <1> HIDE DEF c, h
  <1>6. QueuedInOrder'
    <2>1. queued' = (batch \o ItemsIn(queue)) \o h
      BY <1>1, Zenon DEF LogInv, QueuedInOrder
    <2> DEFINE r == ItemsIn(queue)
    <2>2. r \in Seq(Items)
      BY <1>4
    <2> HIDE DEF r
    <2>3. (batch \o r) \o h = batch \o (r \o h)
      <3>1. batch \in Seq(Items) /\ r \in Seq(Items) /\ h \in Seq(Items)
        BY <1>1, <1>3, <2>2
      <3> QED BY <3>1, ConcatAssociative
    <2>4. queued' = batch' \o ItemsIn(queue')
      BY <1>1, <1>4, <2>1, <2>3 DEF r
    <2> QED BY <2>4 DEF QueuedInOrder
  <1>7. OnDisk' = OnDisk
    BY <1>1 DEF OnDisk
  <1>8. Log!Next
    <2>1. CASE Len(h) = 1
      <3>1. h[1] \in Items /\ h = <<h[1]>>
        BY <1>1, <2>1
      <3>2. queued' = Append(queued, h[1])
        BY <1>1, <1>3, <3>1, AppendIsConcat
      <3>3. Log!Append1(h[1])
        BY <1>7, <3>2, Zenon DEF Log!Append1
      <3> QED BY <3>1, <3>3 DEF Log!Next
    <2>2. CASE Len(h) = 2
      <3>1. h[1] \in Items /\ h[2] \in Items /\ h = <<h[1], h[2]>>
        BY <1>1, <2>2
      <3>2. queued' = queued \o <<h[1], h[2]>>
        BY <1>1, <3>1, Zenon
      <3>3. Log!Append2(h[1], h[2])
        BY <1>7, <3>2, Zenon DEF Log!Append2
      <3> QED BY <3>1, <3>3 DEF Log!Next
    <2> QED BY <1>1, <2>1, <2>2
  <1> QED BY <1>5, <1>6, <1>8 DEF LogInv

\* A command that waits for its acknowledgement has no items.
LEMMA LogSendAsk ==
  ASSUME Inv, LogInv, OneOrTwo', NEW s \in Senders, NEW i \in SUBSET Items, Send(Ask(s, i)),
         UNCHANGED <<file, batch, queued>>
  PROVE  LogInv' /\ [Log!Next]_<<OnDisk, queued>>
  <1> DEFINE c == Ask(s, i)
  <1>1. c \in Commands /\ Recorded(c) = <<>>
    BY DEF Ask, Commands, Recorded
  <1>2. queue \in Seq(Commands) /\ queue' = Append(queue, c)
    BY DEF Inv, TypeOK, Send
  <1> HIDE DEF c
  <1>3. ItemsIn(queue') = ItemsIn(queue) \o <<>> /\ ItemsIn(queue) \in Seq(Items)
    BY <1>1, <1>2, CommandMore, HandedType
  <1>4. ItemsIn(queue') = ItemsIn(queue)
    BY <1>3, ConcatEmptySeq
  <1>5. OnDisk' = OnDisk
    BY DEF OnDisk
  <1> QED BY <1>4, <1>5, LogQuiet, Zenon

\* The command that is taken becomes the one being written.
LEMMA LogTakeItems ==
  ASSUME Inv, LogInv, TakeItems
  PROVE  LogInv' /\ [Log!Next]_<<OnDisk, queued>>
  <1>1. /\ queue # <<>> /\ Head(queue).kind = "add" /\ queue' = Tail(queue)
        /\ batch' = Head(queue).items /\ batch = <<>>
        /\ UNCHANGED <<file, queued, sender, holds>>
        /\ queue \in Seq(Commands)
    BY DEF Inv, TypeOK, BatchIsWritten, TakeItems, senders
  <1>2. /\ Head(queue) \in Commands /\ Tail(queue) \in Seq(Commands)
        /\ ItemsIn(queue) = Recorded(Head(queue)) \o ItemsIn(Tail(queue))
    BY <1>1, CommandLess
  <1>3. ItemsIn(queue) = batch' \o ItemsIn(queue')
    <2>1. Recorded(Head(queue)) = batch'
      BY <1>1, Zenon DEF Recorded
    <2> QED BY <1>1, <1>2, <2>1, Zenon
  <1>4. batch \o ItemsIn(queue) = ItemsIn(queue)
    BY <1>1, HandedType, ConcatEmptySeq
  <1>5. OneOrTwo' /\ OnDisk' = OnDisk /\ UNCHANGED queued
    BY <1>1 DEF LogInv, OneOrTwo, OnDisk
  <1> QED BY <1>3, <1>4, <1>5, LogQuiet, Zenon

\* A command that is answered leaves the items behind it as they are.
LEMMA LogAnswer ==
  ASSUME Inv, LogInv, Answer
  PROVE  LogInv' /\ [Log!Next]_<<OnDisk, queued>>
  <1>1. /\ queue # <<>> /\ Head(queue).kind = "ask" /\ queue' = Tail(queue)
        /\ UNCHANGED <<file, batch, queued, holds>>
        /\ queue \in Seq(Commands)
        /\ sender' = sender \/ \E s \in Senders : sender' = [sender EXCEPT ![s] = "idle"]
    <2>1. queue # <<>> /\ Head(queue).kind = "ask" /\ queue' = Tail(queue)
          /\ UNCHANGED <<file, batch, queued, holds>> /\ queue \in Seq(Commands)
      BY DEF Inv, TypeOK, Answer
    <2>2. Head(queue) \in Commands
      BY <2>1, CommandLess
    <2>3. Head(queue).by \in Senders \cup {Nobody}
      BY <2>1, <2>2 DEF Commands
    <2>4. sender' = sender \/ \E s \in Senders : sender' = [sender EXCEPT ![s] = "idle"]
      BY <2>3 DEF Answer, Go
    <2> QED BY <2>1, <2>4
  <1>2. /\ Head(queue) \in Commands /\ Tail(queue) \in Seq(Commands)
        /\ ItemsIn(queue) = Recorded(Head(queue)) \o ItemsIn(Tail(queue))
    BY <1>1, CommandLess
  <1>3. ItemsIn(queue') = ItemsIn(queue)
    <2>1. Recorded(Head(queue)) = <<>>
      BY <1>1 DEF Recorded
    <2>2. ItemsIn(Tail(queue)) \in Seq(Items)
      BY <1>2, HandedType
    <2>3. <<>> \o ItemsIn(Tail(queue)) = ItemsIn(Tail(queue))
      BY <2>2, ConcatEmptySeq
    <2> QED BY <1>1, <1>2, <2>1, <2>3, Zenon
  <1>4. OneOrTwo'
    BY <1>1 DEF Inv, TypeOK, LogInv, OneOrTwo
  <1>5. OnDisk' = OnDisk /\ UNCHANGED <<queued, batch>>
    BY <1>1 DEF OnDisk
  <1> QED BY <1>3, <1>4, <1>5, LogQuiet, Zenon

\* The item that is written is the one that was queued first.
LEMMA LogWriteItem ==
  ASSUME Inv, LogInv, WriteItem
  PROVE  LogInv' /\ [Log!Next]_<<OnDisk, queued>>
  <1> DEFINE i == Head(batch)
             l == Line(i, "newline")
             r == ItemsIn(queue)
  <1>1. /\ batch # <<>> /\ batch \in Seq(Items) /\ queued \in Seq(Items)
        /\ file' = Append(file, l) /\ batch' = Tail(batch)
        /\ queued' = SubSeq(queued, 2, Len(queued))
        /\ UNCHANGED <<queue, sender, holds>>
        /\ queue \in Seq(Commands)
    BY DEF Inv, TypeOK, BatchIsWritten, WriteItem, WriteLine, senders
  <1>2. i \in Items
    BY <1>1, HeadTailProperties
  <1>3. l \in Lines /\ Item(l) = <<i>>
    <2> HIDE DEF i
    <2> QED BY <1>2, BoundAssumption DEF Line, Lines, Tails, Item, Whole, Items, Meta
  <1>4. OnDisk' = OnDisk \o <<i>> /\ OnDisk \in Seq(Items)
    <2>1. OnDisk' = OnDisk \o Item(l)
      <3> HIDE DEF l
      <3> QED BY <1>1, <1>3, LineMore DEF Inv
    <2>2. OnDisk \in Seq(Items)
      BY OnLinesType DEF OnDisk, OnLines, Inv, TypeOK
    <2> QED BY <1>3, <2>1, <2>2, Zenon
  <1>5. OnDisk' = Append(OnDisk, i)
    <2> HIDE DEF i
    <2> QED BY <1>2, <1>4, AppendIsConcat, Zenon
  <1>6. r \in Seq(Items) /\ queued = batch \o r
    BY <1>1, HandedType DEF LogInv, QueuedInOrder
  <1> HIDE DEF r
  <1>7. /\ queued # <<>> /\ Head(queued) = i
        /\ Tail(queued) = Tail(batch) \o r
        /\ queued' = Tail(queued)
    <2>1. Len(batch) \in Nat \ {0} /\ Len(r) \in Nat /\ Len(queued) = Len(batch) + Len(r)
      BY <1>1, <1>6, ConcatProperties, EmptySeq
    <2>2. queued[1] = batch[1] /\ queued # <<>>
      <3>1. 1 \in 1..(Len(batch) + Len(r)) /\ 1 <= Len(batch)
        BY <2>1
      <3>2. (batch \o r)[1] = batch[1]
        BY <1>1, <1>6, <3>1, ConcatProperties
      <3>3. queued # <<>>
        BY <2>1
      <3> QED BY <1>6, <3>2, <3>3, Zenon
    <2>3. Head(queued) = queued[1] /\ i = batch[1]
      BY <1>1, <2>2
    <2>4. queued' = Tail(queued)
      <3>1. \A S : \A q \in Seq(S) : q # <<>> => SubSeq(q, 2, Len(q)) = Tail(q)
        OBVIOUS
      <3> QED BY <1>1, <2>2, <3>1, Zenon
    <2>5. Tail(batch \o r) = Tail(batch) \o r
      BY <1>1, <1>6
    <2> QED BY <1>6, <2>2, <2>3, <2>4, <2>5
  <1>8. QueuedInOrder'
    <2>1. queued' = batch' \o ItemsIn(queue')
      BY <1>1, <1>7, Zenon DEF r
    <2> QED BY <2>1, Zenon DEF QueuedInOrder
  <1>9. OneOrTwo'
    BY <1>1 DEF LogInv, OneOrTwo
  <1>10. Log!Stabilise
    BY <1>5, <1>7, Zenon DEF Log!Stabilise
  <1> QED BY <1>8, <1>9, <1>10, Zenon DEF LogInv, Log!Next

\* What was queued is lost together, whatever is left of a line.
LEMMA LogLost ==
  ASSUME Inv, LogInv, OneOrTwo',
         \/ writer = "meta" /\ CutLine(Meta)
         \/ writer = "writing" /\ CutLine(Head(batch))
         \/ UNCHANGED file,
         queue' = <<>>, batch' = <<>>, queued' = <<>>
  PROVE  LogInv' /\ [Log!Next]_<<OnDisk, queued>>
  <1>1. OnDisk' = OnDisk
    <2>1. CASE UNCHANGED file
      BY <2>1 DEF OnDisk
    <2>2. writer = "writing" => Head(batch) \in Items
      BY HeadTailProperties DEF Inv, TypeOK, BatchIsWritten
    <2> QED BY <2>1, <2>2, CutAddsNothing DEF Inv
  <1>2. QueuedInOrder'
    <2>1. Handed(<<>>) = <<>>
      BY DEF Handed
    <2>2. ItemsIn(<<>>) = <<>>
      BY <2>1, FlattenEmpty, Zenon DEF ItemsIn
    <2>3. <<>> \o <<>> = <<>>
      OBVIOUS
    <2>4. queued' = batch' \o ItemsIn(queue')
      BY <2>2, <2>3, Zenon
    <2> QED BY <2>4, Zenon DEF QueuedInOrder
  <1>3. Log!Lose
    BY <1>1, Zenon DEF Log!Lose
  <1> QED BY <1>2, <1>3, Zenon DEF LogInv, Log!Next

\* Every step appends to the log, stabilises, loses, or leaves it alone.
LEMMA LogStep ==
  ASSUME Inv, LogInv, [Next]_vars
  PROVE  LogInv' /\ [Log!Next]_<<OnDisk, queued>>
  <1>1. ASSUME OneOrTwo', UNCHANGED <<file, queue, batch, queued>>
        PROVE  LogInv' /\ [Log!Next]_<<OnDisk, queued>>
    <2>1. OnDisk' = OnDisk
      BY <1>1 DEF OnDisk
    <2>2. batch' \o ItemsIn(queue') = batch \o ItemsIn(queue)
      BY <1>1, Zenon
    <2> QED BY <1>1, <2>1, <2>2, LogQuiet, Zenon
  <1>2. ASSUME UNCHANGED <<sender, holds>> PROVE OneOrTwo'
    BY <1>2 DEF LogInv, OneOrTwo
  <1>3. ASSUME NEW s \in Senders, NEW pc \in SenderPCs \ {"recording"}, Go(s, pc),
               UNCHANGED holds \/ holds' = [holds EXCEPT ![s] = <<>>]
        PROVE  OneOrTwo'
    BY <1>3 DEF LogInv, OneOrTwo, Go, Inv, TypeOK
  <1>4. Written \cup Range(queued) \in SUBSET Items
    <2>1. Range(queued) \subseteq Items
      BY RangeOfSeq DEF Inv, TypeOK
    <2>2. Written \subseteq Items
      <3>1. \A k \in DOMAIN file : file[k] \in Lines
        BY LenProperties, ElementOfSeq DEF Inv, TypeOK
      <3> QED BY <3>1 DEF Written, Lines
    <2> QED BY <2>1, <2>2
  <1>5. ASSUME NEW s \in Senders, NEW n \in 1..2, Record(s, n)
        PROVE  LogInv' /\ [Log!Next]_<<OnDisk, queued>>
    <2>1. /\ UNCHANGED <<file, queue, batch, queued>>
          /\ sender' = [sender EXCEPT ![s] = "recording"]
          /\ holds' = [holds EXCEPT ![s] = [k \in 1..n |-> next + k - 1]]
      BY <1>5 DEF Record, Go, channel
    <2>2. Len([k \in 1..n |-> next + k - 1]) \in 1..2
      OBVIOUS
    <2>3. OneOrTwo'
      BY <2>1, <2>2 DEF LogInv, OneOrTwo, Inv, TypeOK
    <2> QED BY <1>1, <2>1, <2>3
  <1>6. ASSUME NEW s \in Senders, SendItems(s)
        PROVE  LogInv' /\ [Log!Next]_<<OnDisk, queued>>
    BY <1>6, LogSendItems
  <1>7. ASSUME NEW s \in Senders, ItemsRefused(s)
        PROVE  LogInv' /\ [Log!Next]_<<OnDisk, queued>>
    <2>1. OneOrTwo'
      BY <1>3, <1>7 DEF ItemsRefused, SenderPCs
    <2> QED BY <1>1, <1>7, <2>1 DEF ItemsRefused, channel
  <1>8. ASSUME NEW s \in Senders, BeginFlush(s) \/ FlushRefused(s) \/ AnswerDropped(s)
        PROVE  LogInv' /\ [Log!Next]_<<OnDisk, queued>>
    <2>1. OneOrTwo'
      BY <1>3, <1>8 DEF BeginFlush, FlushRefused, AnswerDropped, SenderPCs
    <2> QED BY <1>1, <1>8, <2>1 DEF BeginFlush, FlushRefused, AnswerDropped, channel
  <1>9. ASSUME NEW s \in Senders, SendFlush(s)
        PROVE  LogInv' /\ [Log!Next]_<<OnDisk, queued>>
    <2>1. OneOrTwo'
      BY <1>3, <1>9 DEF SendFlush, SenderPCs
    <2> QED BY <1>4, <1>9, <2>1, LogSendAsk DEF SendFlush
  <1>10. ASSUME NEW s \in Senders, Leave(s)
         PROVE  LogInv' /\ [Log!Next]_<<OnDisk, queued>>
    <2>1. OneOrTwo'
      BY <1>3, <1>10 DEF Leave, SenderPCs
    <2>2. ItemsIn(queue') = ItemsIn(queue)
      BY <1>10, UnheardRecords DEF Leave, Inv
    <2>3. OnDisk' = OnDisk /\ UNCHANGED <<queued, batch>>
      BY <1>10 DEF Leave, OnDisk
    <2> QED BY <2>1, <2>2, <2>3, LogQuiet, Zenon
  <1>11. CASE BeginShutdown \/ ShutdownRefused
    <2>1. OneOrTwo'
      BY <1>3, <1>11, LoopAssumption DEF BeginShutdown, ShutdownRefused, SenderPCs
    <2> QED BY <1>1, <1>11, <2>1 DEF BeginShutdown, ShutdownRefused, channel
  <1>12. CASE SendShutdown
    <2>1. OneOrTwo'
      BY <1>3, <1>12, LoopAssumption DEF SendShutdown, SenderPCs
    <2> QED BY <1>4, <1>12, <2>1, LoopAssumption, LogSendAsk DEF SendShutdown
  <1>13. CASE WriteMeta
    <2> DEFINE l == Line(Meta, "newline")
    <2>1. l \in Lines /\ Item(l) = <<>>
      BY DEF Line, Lines, Tails, Item
    <2>2. file' = Append(file, l) /\ UNCHANGED <<queue, batch, queued, sender, holds>>
      BY <1>13 DEF WriteMeta, WriteLine, channel, senders
    <2> HIDE DEF l
    <2>3. OnDisk' = OnDisk
      BY <2>1, <2>2, NoItemMore DEF Inv
    <2>4. batch' \o ItemsIn(queue') = batch \o ItemsIn(queue)
      BY <2>2, Zenon
    <2> QED BY <1>2, <2>2, <2>3, <2>4, LogQuiet, Zenon
  <1>14. CASE WriteFails
    <2>1. OneOrTwo'
      BY <1>2, <1>14 DEF WriteFails, senders
    <2> QED BY <1>14, <2>1, LogLost DEF WriteFails
  <1>15. CASE Kill
    <2>1. OneOrTwo'
      BY <1>15 DEF Kill, OneOrTwo
    <2> QED BY <1>15, <2>1, LogLost DEF Kill
  <1>16. CASE WriterEnds \/ Resume
    BY <1>1, <1>2, <1>16 DEF WriterEnds, Resume, channel, senders
  <1>17. CASE UNCHANGED vars
    BY <1>1, <1>2, <1>17 DEF vars, channel, senders
  <1> QED
    BY <1>5, <1>6, <1>7, <1>8, <1>9, <1>10, <1>11, <1>12, <1>13, <1>14, <1>15, <1>16, <1>17,
       LogTakeItems, LogAnswer, LogWriteItem
    DEF Next, SenderReturns, ShutdownReturns, WriterStep

\* The items of a session are written in the order in which they entered the channel, once
\* each and none left out, and the end of the writer or of the process loses a tail of them
\* (rollout_writer).
THEOREM RecorderIsLog == Spec => LogSpec
  <1>1. Init => LogInv /\ Log!Init
    <2> SUFFICES ASSUME Init PROVE LogInv /\ Log!Init
      OBVIOUS
    <2>1. Handed(<<>>) = <<>> /\ OnLines(<<>>) = <<>>
      BY DEF Handed, OnLines
    <2>2. ItemsIn(queue) = <<>> /\ OnDisk = <<>>
      BY <2>1, FlattenEmpty, Zenon DEF ItemsIn, OnLines, OnDisk, Init
    <2>3. <<>> \o <<>> = <<>>
      OBVIOUS
    <2>4. QueuedInOrder
      BY <2>2, <2>3, Zenon DEF QueuedInOrder, Init
    <2>5. OneOrTwo
      BY DEF OneOrTwo, Init
    <2> QED BY <2>2, <2>4, <2>5, Zenon DEF LogInv, Log!Init, Init
  <1>2. Inv /\ LogInv /\ [Next]_vars => LogInv' /\ [Log!Next]_(Log!logVars)
    BY LogStep DEF Log!logVars
  <1> QED BY <1>1, <1>2, InvHolds, PTL DEF Spec, LogSpec, Log!Spec
=============================================================================
