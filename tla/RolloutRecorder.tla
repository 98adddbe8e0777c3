-------------------------- MODULE RolloutRecorder ---------------------------
(***************************************************************************)
(* The rollout recorder of a session (trill-rs/core/src/rollout).  The     *)
(* tasks of the session send their items to a writer task over a bounded   *)
(* channel and may wait until they are written; the writer appends them to *)
(* a file, one line each.  The process may be killed and the disk may be   *)
(* full at any time, and a later process goes on with the same file.       *)
(*                                                                         *)
(* An item is a number; 0 is the SessionMeta that heads the file.          *)
(* An operator named X_Y is X with the fault Y put in.                     *)
(***************************************************************************)
EXTENDS Naturals, Sequences, FiniteSets, SequencesExt

CONSTANTS
    Senders,      \* Tasks of the session that record and flush.
    Loop,         \* The one that also shuts the session down.
    Nobody,       \* A command whose sender no longer waits.
    Capacity,     \* The channel holds so many commands (256).
    MaxItems,     \* Bound: so many items are recorded in all.
    MaxTears,     \* Bound: so many writes stop in the middle of a line.
    MaxProcesses  \* Bound: so many processes write the file.

ASSUME LoopAssumption == Loop \in Senders /\ Nobody \notin Senders
ASSUME CapacityAssumption == Capacity \in Nat \ {0}
ASSUME BoundAssumption ==
    MaxItems \in Nat /\ MaxTears \in Nat /\ MaxProcesses \in Nat \ {0}

VARIABLES
    file,      \* The lines.
    processes, \* How many processes have opened it.
    writer,    \* Where the writer task is.
    queue,     \* The channel.
    batch,     \* What is left of the AddItems being written.
    recorder,  \* Does the session still hold the recorder?
    sender,    \* Where each sender is.
    holds,     \* What it is about to send.
    next,      \* The next item.
    queued,    \* Auxiliary: the items of this process that entered the channel, not yet written or lost.
    flushed,   \* Auxiliary: the items that a flush that returned Ok, or the shutdown, covers.
    torn       \* Auxiliary: how many writes stopped in the middle.

channel == <<queue, batch, queued>>
senders == <<sender, holds, flushed>>
vars == <<file, processes, writer, channel, recorder, senders, next, torn>>

Meta == 0
Items == 1..MaxItems

\* How a line ends: in its newline; without it, the JSON complete; in the middle of the
\* JSON; or in the middle of a UTF-8 character.
Tails == {"newline", "bare", "part", "split"}
Line(i, t) == [item |-> i, tail |-> t]

Lines == [item : Items \cup {Meta}, tail : Tails]

\* A command waits for its acknowledgement as long as the receiver of it lives.
Add(items) == [kind |-> "add", items |-> items]
Ask(s, covers) == [kind |-> "ask", by |-> s, covers |-> covers]
Commands ==
    [kind : {"add"}, items : Seq(Items) \ {<<>>}]
        \cup [kind : {"ask"}, by : Senders \cup {Nobody}, covers : SUBSET Items]

WriterPCs == {"meta", "idle", "writing", "dead", "done", "off"}
SenderPCs == {"idle", "recording", "recorded", "flushing", "waiting", "closing"}

TypeOK ==
    /\ file \in Seq(Lines)
    /\ processes \in 0..MaxProcesses
    /\ writer \in WriterPCs
    /\ queue \in Seq(Commands)
    /\ Len(queue) <= Capacity
    /\ batch \in Seq(Items)
    /\ recorder \in BOOLEAN
    /\ sender \in [Senders -> SenderPCs]
    /\ holds \in [Senders -> Seq(Items)]
    /\ next \in 1..(MaxItems + 1)
    /\ queued \in Seq(Items)
    /\ flushed \in SUBSET Items
    /\ torn \in 0..MaxTears

Init ==
    /\ file = <<>>
    /\ processes = 1
    /\ writer = "meta"
    /\ queue = <<>>
    /\ batch = <<>>
    /\ recorder = TRUE
    /\ sender = [s \in Senders |-> "idle"]
    /\ holds = [s \in Senders |-> <<>>]
    /\ next = 1
    /\ queued = <<>>
    /\ flushed = {}
    /\ torn = 0

Go(s, pc) == sender' = [sender EXCEPT ![s] = pc]
Up == writer # "off"
Open == writer \in {"meta", "idle", "writing"}
Whole(l) == l.tail = "newline"
Written == {file[k].item : k \in {n \in DOMAIN file : Whole(file[n])}} \ {Meta}

----------------------------------------------------------------------------
(* The senders: persist_rollout_items, flush_rollout, and the shutdown of  *)
(* the session.                                                            *)

\* The recorder is cloned under its lock; the send may come much later.
Record(s, n) ==
    /\ Up
    /\ recorder
    /\ sender[s] = "idle"
    /\ next + n <= MaxItems + 1
    /\ holds' = [holds EXCEPT ![s] = [k \in 1..n |-> next + k - 1]]
    /\ next' = next + n
    /\ Go(s, "recording")
    /\ UNCHANGED <<file, processes, writer, channel, recorder, flushed, torn>>

\* An unbounded channel.
Send(c) ==
    /\ Open
    /\ Len(queue) < Capacity
    /\ queue' = Append(queue, c)

SendItems(s) ==
    /\ sender[s] = "recording"
    /\ Send(Add(holds[s]))
    /\ queued' = queued \o holds[s]
    /\ holds' = [holds EXCEPT ![s] = <<>>]
    /\ Go(s, "recorded")
    /\ UNCHANGED <<file, processes, writer, batch, recorder, next, flushed, torn>>

\* The writer is gone: the error is logged and the items are lost.
ItemsRefused(s) ==
    /\ sender[s] = "recording"
    /\ writer = "dead"
    /\ holds' = [holds EXCEPT ![s] = <<>>]
    /\ Go(s, "recorded")
    /\ UNCHANGED <<file, processes, writer, channel, recorder, next, flushed, torn>>

BeginFlush(s) ==
    /\ Up
    /\ recorder
    /\ sender[s] \in {"idle", "recorded"}
    /\ Go(s, "flushing")
    /\ UNCHANGED <<file, processes, writer, channel, recorder, holds, next, flushed, torn>>

SendFlush(s) ==
    /\ sender[s] = "flushing"
    /\ Send(Ask(s, Written \cup Range(queued)))
    /\ Go(s, "waiting")
    /\ UNCHANGED <<file, processes, writer, batch, queued, recorder, holds, next, flushed, torn>>

FlushRefused(s) ==
    /\ sender[s] = "flushing"
    /\ writer = "dead"
    /\ Go(s, "idle")
    /\ UNCHANGED <<file, processes, writer, channel, recorder, holds, next, flushed, torn>>

\* The writer task ended and dropped the command with its acknowledgement.
AnswerDropped(s) ==
    /\ sender[s] = "waiting"
    /\ writer = "dead"
    /\ Go(s, "idle")
    /\ UNCHANGED <<file, processes, writer, channel, recorder, holds, next, flushed, torn>>

Unheard(c, s) ==
    IF c.kind = "ask" /\ c.by = s THEN [c EXCEPT !.by = Nobody] ELSE c

\* The session goes on to something else, or the task is aborted while it waits.
Leave(s) ==
    /\ sender[s] \in {"recording", "recorded", "flushing", "waiting"}
    /\ holds' = [holds EXCEPT ![s] = <<>>]
    /\ queue' = [k \in DOMAIN queue |-> Unheard(queue[k], s)]
    /\ Go(s, "idle")
    /\ UNCHANGED <<file, processes, writer, batch, queued, recorder, next, flushed, torn>>

\* shutdown takes the recorder out of the session.
BeginShutdown ==
    /\ Up
    /\ recorder
    /\ sender[Loop] = "idle"
    /\ recorder' = FALSE
    /\ Go(Loop, "closing")
    /\ UNCHANGED <<file, processes, writer, channel, holds, next, flushed, torn>>

SendShutdown ==
    /\ sender[Loop] = "closing"
    /\ Send(Ask(Loop, Written \cup Range(queued)))
    /\ Go(Loop, "waiting")
    /\ UNCHANGED <<file, processes, writer, batch, queued, recorder, holds, next, flushed, torn>>

ShutdownRefused ==
    /\ sender[Loop] = "closing"
    /\ writer = "dead"
    /\ Go(Loop, "idle")
    /\ UNCHANGED <<file, processes, writer, channel, recorder, holds, next, flushed, torn>>

----------------------------------------------------------------------------
(* The writer task, rollout_writer.                                        *)

\* A line is written and flushed in one go; if it is cut short, the rest never comes.
WriteLine(i) == file' = Append(file, Line(i, "newline"))

\* The disk is full, or the process is killed meanwhile: nothing more of the line.
CutLine(i) ==
    \/ UNCHANGED <<file, torn>>
    \/ /\ torn < MaxTears
       /\ torn' = torn + 1
       /\ \E t \in Tails \ {"newline"} : file' = Append(file, Line(i, t))

WriteMeta ==
    /\ writer = "meta"
    /\ WriteLine(Meta)
    /\ writer' = "idle"
    /\ UNCHANGED <<processes, channel, recorder, senders, next, torn>>

TakeItems ==
    /\ writer = "idle"
    /\ queue # <<>>
    /\ Head(queue).kind = "add"
    /\ batch' = Head(queue).items
    /\ queue' = Tail(queue)
    /\ writer' = "writing"
    /\ UNCHANGED <<file, processes, queued, recorder, senders, next, torn>>

WriteItem ==
    /\ writer = "writing"
    /\ WriteLine(Head(batch))
    /\ batch' = Tail(batch)
    /\ queued' = SubSeq(queued, 2, Len(queued))
    /\ writer' = IF Len(batch) = 1 THEN "idle" ELSE "writing"
    /\ UNCHANGED <<processes, queue, recorder, senders, next, torn>>

\* Flush and Shutdown are answered alike; every line is already on disk.
Answer_Never ==
    /\ writer = "idle"
    /\ queue # <<>>
    /\ Head(queue).kind = "ask"
    /\ queue' = Tail(queue)
    /\ UNCHANGED <<file, processes, writer, batch, queued, recorder, senders, next, torn>>

\* Flushes do not wait behind the items.
Answer_Ahead ==
    /\ writer = "idle"
    /\ \E k \in DOMAIN queue :
          /\ queue[k].kind = "ask"
          /\ queue[k].by # Nobody
          /\ queue' = RemoveAt(queue, k)
          /\ Go(queue[k].by, "idle")
          /\ flushed' = flushed \cup queue[k].covers
    /\ UNCHANGED <<file, processes, writer, batch, queued, recorder, holds, next, torn>>

Answer ==
    /\ writer = "idle"
    /\ queue # <<>>
    /\ Head(queue).kind = "ask"
    /\ queue' = Tail(queue)
    /\ LET s == Head(queue).by IN
         \/ /\ s # Nobody
            /\ Go(s, "idle")
            /\ flushed' = flushed \cup Head(queue).covers
         \/ /\ s = Nobody
            /\ UNCHANGED <<sender, flushed>>
    /\ UNCHANGED <<file, processes, writer, batch, queued, recorder, holds, next, torn>>

\* The error is logged, and the task goes on.
WriteFails_GoesOn ==
    /\ writer = "writing"
    /\ CutLine(Head(batch))
    /\ batch' = Tail(batch)
    /\ queued' = SubSeq(queued, 2, Len(queued))
    /\ writer' = IF Len(batch) = 1 THEN "idle" ELSE "writing"
    /\ UNCHANGED <<processes, queue, recorder, senders, next>>

\* An error ends the task and drops the channel with what is in it.
WriteFails ==
    /\ \/ writer = "meta" /\ CutLine(Meta)
       \/ writer = "writing" /\ CutLine(Head(batch))
    /\ writer' = "dead"
    /\ queue' = <<>>
    /\ batch' = <<>>
    /\ queued' = <<>>
    /\ UNCHANGED <<processes, recorder, senders, next>>

\* The last handle of the channel is dropped.
WriterEnds ==
    /\ writer = "idle"
    /\ queue = <<>>
    /\ ~recorder
    /\ \A s \in Senders : sender[s] \in {"idle", "recorded"}
    /\ writer' = "done"
    /\ UNCHANGED <<file, processes, channel, recorder, senders, next, torn>>

----------------------------------------------------------------------------
(* The end of a process, and the next one.                                 *)

Kill ==
    /\ Up
    /\ \/ writer = "meta" /\ CutLine(Meta)
       \/ writer = "writing" /\ CutLine(Head(batch))
       \/ UNCHANGED <<file, torn>>
    /\ writer' = "off"
    /\ queue' = <<>>
    /\ batch' = <<>>
    /\ queued' = <<>>
    /\ recorder' = FALSE
    /\ sender' = [s \in Senders |-> "idle"]
    /\ holds' = [s \in Senders |-> <<>>]
    /\ UNCHANGED <<processes, flushed, next>>

\* A line that does not parse is skipped.  A line starts after a newline and is read up
\* to the next, or to the end of the file.
Parses(f, k) ==
    /\ k > 1 => Whole(f[k - 1])
    /\ Whole(f[k]) \/ (f[k].tail = "bare" /\ k = Len(f))

\* Reading stops at the first line that does not parse.
Loaded_UpToError(f) ==
    {f[k].item : k \in {n \in DOMAIN f : \A m \in 1..n : Parses(f, m)}}

Loaded(f) == {f[k].item : k \in {n \in DOMAIN f : Parses(f, n)}}

\* read_to_string wants UTF-8, and the thread id comes from the first SessionMeta.
Resumable(f) ==
    /\ \A k \in DOMAIN f : f[k].tail # "split"
    /\ Meta \in Loaded(f)

\* The file is opened to append, as it is.
Resume ==
    /\ writer \in {"off", "done"}
    /\ processes < MaxProcesses
    /\ Resumable(file)
    /\ processes' = processes + 1
    /\ writer' = "idle"
    /\ recorder' = TRUE
    /\ UNCHANGED <<file, channel, senders, next, torn>>

----------------------------------------------------------------------------
WriterStep == WriteMeta \/ TakeItems \/ WriteItem \/ Answer \/ WriteFails \/ WriterEnds

SenderReturns(s) ==
    \/ SendItems(s) \/ ItemsRefused(s) \/ SendFlush(s) \/ FlushRefused(s) \/ AnswerDropped(s)

ShutdownReturns == SendShutdown \/ ShutdownRefused

Next ==
    \/ \E s \in Senders, n \in 1..2 : Record(s, n)
    \/ \E s \in Senders : SenderReturns(s) \/ BeginFlush(s) \/ Leave(s)
    \/ BeginShutdown \/ ShutdownReturns
    \/ WriterStep
    \/ Kill \/ Resume

Spec == Init /\ [][Next]_vars

\* The writer task is scheduled; a call that waits for room in the channel gets it in
\* its turn.
FairSpec ==
    /\ Spec
    /\ WF_vars(WriterStep)
    /\ \A s \in Senders : SF_vars(SenderReturns(s))
    /\ SF_vars(ShutdownReturns)

----------------------------------------------------------------------------
(* Properties.                                                             *)

\* FlushedIsWritten: what was queued before a flush that returned Ok, by whichever task,
\* is in the file, for good and whatever fails later (RolloutRecorder::flush; the
\* session sends ThreadRolledBack and TurnAborted after a flush because clients read
\* the file when they get them).
FlushedIsWritten == flushed \subseteq Written

\* OneLossPerTear: a line cut short costs at most one item that was flushed, the one of
\* the line after it, however often the session is resumed (load_rollout_items skips
\* what does not parse).
OneLossPerTear == Cardinality(flushed \ Loaded(file)) <= torn

\* LogSpec: the file is a log: items are written in the order in which they entered the
\* channel, once each and without a gap, and an error or the end of the process loses
\* a tail of them (rollout_writer ends at the first error).
Item(l) == IF Whole(l) /\ l.item # Meta THEN <<l.item>> ELSE <<>>
OnDisk == FlattenSeq([k \in DOMAIN file |-> Item(file[k])])
Log == INSTANCE RolloutLog WITH stable <- OnDisk, pending <- queued
LogSpec == Log!Spec

\* CallsReturn: a task that records, flushes or shuts down is not kept waiting for ever,
\* not even by a writer that has ended.
CallsReturn ==
    \A s \in Senders :
        sender[s] \in {"recording", "flushing", "waiting", "closing"}
            ~> sender[s] \in {"idle", "recorded"}
=============================================================================
