---------------------------- MODULE SessionTurns ----------------------------
(***************************************************************************)
(* The turn lifecycle of one Trill session (trill-rs/core): the submission *)
(* loop, which handles the client's operations one at a time, and the tokio*)
(* tasks it spawns, one per turn, which run concurrently with it.  They    *)
(* share `active_turn`, the unified-exec process store, the rollout and    *)
(* the event channel.                                                      *)
(*                                                                         *)
(* A step is the code between two awaits at which another task can run.    *)
(* A turn, and an input injected into a turn, is named by the id of the    *)
(* submission that carried it.                                             *)
(*                                                                         *)
(* An operator named X_Y is X with the fault Y put in: it is not part of   *)
(* the specification, and shows that a property notices the fault.         *)
(***************************************************************************)
EXTENDS Integers, Sequences

CONSTANTS
    MaxSubs,    \* Bound: submissions that carry an input or start a turn.
    MaxRounds,  \* Bound: follow-up requests the model itself may ask a turn for.
    Kinds,      \* The kinds of task the client starts.
    Contended   \* May an await on a lock of the session find it taken, and so
                \* suspend the task?

AllKinds == {"regular", "empty", "review", "other"}

ASSUME MaxSubsAssumption == MaxSubs \in Nat
ASSUME MaxRoundsAssumption == MaxRounds \in Nat
ASSUME KindsAssumption == Kinds \subseteq AllKinds
ASSUME ContendedAssumption == Contended \in BOOLEAN

Subs == 1 .. MaxSubs
NoTurn == 0

VARIABLES
    lpc,        \* Where the submission loop is.
    op,         \* The operation it handles: "none", "spawn", "interrupt", "shutdown".
    victim,     \* The turn it took out of `active` to abort, or NoTurn.
    nextSub,    \* The id of the next submission.
    active,     \* active_turn: the turn registered there, or NoTurn for None.
    pending,    \* pending_input of the TurnState of the active turn.
    kind,       \* The task kind of each turn.
    task,       \* Where the task of each turn is.
    rounds,     \* Follow-up requests made so far, per turn.
    cancelled,  \* The turns whose cancellation token is cancelled.
    doomed,     \* Aborted while being polled: dropped at the next suspension.
    tools,      \* The turns with an exec tool call in flight.
    procs,      \* The turns that own a process in the process store.
    recorded,   \* The inputs recorded in the conversation history.
    marker,     \* The interruption marker of each turn on its way to disk.
    writing,    \* Is the rollout writer alive?
    events      \* What the client received, in order.

loopVars == <<lpc, op, victim, nextSub>>
turnVars == <<active, pending>>
taskVars == <<kind, task, rounds>>
abortVars == <<cancelled, doomed>>
execVars == <<tools, procs>>
rolloutVars == <<recorded, marker, writing>>
vars == <<loopVars, turnVars, taskVars, abortVars, execVars, rolloutVars, events>>

LoopPCs == {"recv", "take", "cancel", "grace", "hook", "mark", "flush", "aborted",
            "close", "spawn", "register", "announce", "terminate", "stop", "stopped", "exited"}
TaskPCs == {"none", "start", "input", "pending", "sample", "calling", "work",
            "exitReview", "flush", "check", "finish", "close", "emit", "done", "dropped"}
EventTypes == {"TurnStarted", "TurnComplete", "TurnAborted", "Error",
               "EnteredReviewMode", "ExitedReviewMode", "ShutdownComplete"}
Event == [type : EventTypes, turn : Subs \cup {NoTurn}]

TypeOK ==
    /\ lpc \in LoopPCs
    /\ op \in {"none", "spawn", "interrupt", "shutdown"}
    /\ victim \in Subs \cup {NoTurn}
    /\ nextSub \in 1 .. MaxSubs + 1
    /\ active \in Subs \cup {NoTurn}
    /\ pending \in SUBSET Subs
    /\ kind \in [Subs -> AllKinds]
    /\ task \in [Subs -> TaskPCs]
    /\ rounds \in [Subs -> 0 .. MaxRounds]
    /\ cancelled \in SUBSET Subs
    /\ doomed \in SUBSET Subs
    /\ tools \in SUBSET Subs
    /\ procs \in SUBSET Subs
    /\ recorded \in SUBSET Subs
    /\ marker \in [Subs -> {"none", "queued", "durable", "lost"}]
    /\ writing \in BOOLEAN
    /\ events \in Seq(Event)

Init ==
    /\ lpc = "recv"
    /\ op = "none"
    /\ victim = NoTurn
    /\ nextSub = 1
    /\ active = NoTurn
    /\ pending = {}
    /\ kind = [t \in Subs |-> "regular"]
    /\ task = [t \in Subs |-> "none"]
    /\ rounds = [t \in Subs |-> 0]
    /\ cancelled = {}
    /\ doomed = {}
    /\ tools = {}
    /\ procs = {}
    /\ recorded = {}
    /\ marker = [t \in Subs |-> "none"]
    /\ writing = TRUE
    /\ events = <<>>

----------------------------------------------------------------------------
(* Events and tasks.                                                       *)

Send(type, t) == events' = Append(events, [type |-> type, turn |-> t])

Sent(type, t) == \E i \in DOMAIN events : events[i] = [type |-> type, turn |-> t]

Go(t, pc) == task' = [task EXCEPT ![t] = pc]

Alive(t) == task[t] \notin {"none", "done", "dropped"}

\* The submission that starts the turn the loop is spawning.
Spawning == nextSub - 1

\* The awaits at which a task may return Pending: the model's stream, a sub-agent,
\* the acknowledgement of a flush; with contention, any await at all.
Suspendable == {"input", "sample", "calling", "work", "flush"}
MaySuspend(t) == task[t] \in Suspendable \/ Contended

\* handle.abort(): a task that is not being polled is dropped; one that is being
\* polled runs on until an await suspends it.
AbortHandle_Missing(t) == UNCHANGED <<task, doomed>>

AbortHandle(t) ==
    \/ /\ Alive(t)
       /\ task[t] = "start" \/ MaySuspend(t)
       /\ Go(t, "dropped")
       /\ UNCHANGED doomed
    \/ /\ Alive(t)
       /\ doomed' = doomed \cup {t}
       /\ UNCHANGED task
    \/ /\ ~Alive(t)
       /\ UNCHANGED <<task, doomed>>

----------------------------------------------------------------------------
(* The submission loop: receiving an operation.                            *)

StartSpawn(k) ==
    /\ op' = "spawn"
    /\ kind' = [kind EXCEPT ![nextSub] = k]
    /\ lpc' = "take"

\* handlers::user_input_or_turn: inject_input into the active turn, or start one.
RecvUserInput ==
    /\ lpc = "recv"
    /\ nextSub <= MaxSubs
    /\ nextSub' = nextSub + 1
    /\ \/ /\ active # NoTurn
          /\ pending' = pending \cup {nextSub}
          /\ UNCHANGED <<lpc, op, kind>>
       \/ /\ active = NoTurn
          /\ \E k \in Kinds \cap {"regular", "empty"} : StartSpawn(k)
          /\ UNCHANGED pending
    /\ UNCHANGED <<victim, active, task, rounds, abortVars, execVars, rolloutVars, events>>

\* handlers::review, compact, undo and run_user_shell_command always start a turn.
RecvSpawn ==
    /\ lpc = "recv"
    /\ nextSub <= MaxSubs
    /\ nextSub' = nextSub + 1
    /\ \E k \in Kinds \cap {"review", "other"} : StartSpawn(k)
    /\ UNCHANGED <<victim, turnVars, task, rounds, abortVars, execVars, rolloutVars, events>>

\* Op::Interrupt, and an approval answered with Abort.  Without an active turn the
\* handler only cancels the start-up of MCP servers.
RecvInterrupt ==
    /\ lpc = "recv"
    /\ active # NoTurn
    /\ op' = "interrupt"
    /\ lpc' = "take"
    /\ UNCHANGED <<victim, nextSub, turnVars, taskVars, abortVars, execVars, rolloutVars, events>>

RecvShutdown ==
    /\ lpc = "recv"
    /\ op' = "shutdown"
    /\ lpc' = "take"
    /\ UNCHANGED <<victim, nextSub, turnVars, taskVars, abortVars, execVars, rolloutVars, events>>

----------------------------------------------------------------------------
(* The submission loop: abort_all_tasks and handle_task_abort.             *)

\* take_all_running_tasks: the turn's pending input is cleared with it.
TakeActive ==
    /\ lpc = "take"
    /\ victim' = active
    /\ active' = NoTurn
    /\ pending' = {}
    /\ lpc' = IF active = NoTurn THEN "close" ELSE "cancel"
    /\ UNCHANGED <<op, nextSub, taskVars, abortVars, execVars, rolloutVars, events>>

\* The handler returns early on a token already cancelled, and no turn is taken twice.
CancelToken_Forgotten ==
    /\ lpc = "cancel"
    /\ victim \notin cancelled
    /\ lpc' = "grace"
    /\ UNCHANGED <<op, victim, nextSub, turnVars, taskVars, abortVars, execVars, rolloutVars, events>>

CancelToken ==
    /\ lpc = "cancel"
    /\ victim \notin cancelled
    /\ cancelled' = cancelled \cup {victim}
    /\ lpc' = "grace"
    /\ UNCHANGED <<op, victim, nextSub, turnVars, taskVars, doomed, execVars, rolloutVars, events>>

\* The loop waits for the task's `done`, but never longer than 100ms: whatever the
\* task does, the wait may be over.
GraceOver(t) == TRUE

GraceEnds ==
    /\ lpc = "grace"
    /\ GraceOver(victim)
    /\ AbortHandle(victim)
    /\ lpc' = "hook"
    /\ UNCHANGED <<op, victim, nextSub, turnVars, kind, rounds, cancelled, execVars,
                   rolloutVars, events>>

\* Only an interruption leaves a marker in the history.
AfterHook_Silent == IF op = "spawn" THEN "close" ELSE "mark"

AfterHook == IF op = "spawn" THEN "aborted" ELSE "mark"

\* SessionTask::abort, which only ReviewTask implements.
AbortHook ==
    /\ lpc = "hook"
    /\ \/ /\ kind[victim] = "review"
          /\ Send("ExitedReviewMode", victim)
       \/ /\ kind[victim] # "review"
          /\ UNCHANGED events
    /\ lpc' = AfterHook
    /\ UNCHANGED <<op, victim, nextSub, turnVars, taskVars, abortVars, execVars, rolloutVars>>

\* A channel whose writer is gone takes no item: the handler logs that and goes on.
RecordMarker ==
    /\ lpc = "mark"
    /\ marker' = [marker EXCEPT ![victim] = IF writing THEN "queued" ELSE "lost"]
    /\ lpc' = "flush"
    /\ UNCHANGED <<op, victim, nextSub, turnVars, taskVars, abortVars, execVars, recorded,
                   writing, events>>

\* flush_rollout returns once nothing is queued any more, since the writer has written it
\* or since it has died: the error is logged, and the caller told nothing.
Flushed_NoWait == TRUE

Flushed == \A t \in Subs : marker[t] # "queued"

FlushMarker ==
    /\ lpc = "flush"
    /\ Flushed
    /\ lpc' = "aborted"
    /\ UNCHANGED <<op, victim, nextSub, turnVars, taskVars, abortVars, execVars, rolloutVars, events>>

EmitAborted ==
    /\ lpc = "aborted"
    /\ Send("TurnAborted", victim)
    /\ lpc' = "close"
    /\ UNCHANGED <<op, victim, nextSub, turnVars, taskVars, abortVars, execVars, rolloutVars>>

\* close_unified_exec_processes, and back to the operation that asked for the abort.
AfterAbort ==
    CASE op = "spawn" -> "spawn"
      [] op = "shutdown" -> "terminate"
      [] OTHER -> "recv"

CloseProcesses ==
    /\ lpc = "close"
    /\ procs' = {}
    /\ victim' = NoTurn
    /\ lpc' = AfterAbort
    /\ op' = IF op = "interrupt" THEN "none" ELSE op
    /\ UNCHANGED <<nextSub, turnVars, taskVars, abortVars, tools, rolloutVars, events>>

----------------------------------------------------------------------------
(* The submission loop: the rest of spawn_task, review and shutdown.       *)

SpawnTask ==
    /\ lpc = "spawn"
    /\ Go(Spawning, "start")
    /\ lpc' = "register"
    /\ UNCHANGED <<op, victim, nextSub, turnVars, kind, rounds, abortVars, execVars,
                   rolloutVars, events>>

\* register_new_active_task runs after tokio::spawn: the task may be well under way.
RegisterTask ==
    /\ lpc = "register"
    /\ active' = Spawning
    /\ pending' = {}
    /\ lpc' = IF kind[Spawning] = "review" THEN "announce" ELSE "recv"
    /\ op' = "none"
    /\ UNCHANGED <<victim, nextSub, taskVars, abortVars, execVars, rolloutVars, events>>

AnnounceReview ==
    /\ lpc = "announce"
    /\ Send("EnteredReviewMode", Spawning)
    /\ lpc' = "recv"
    /\ UNCHANGED <<op, victim, nextSub, turnVars, taskVars, abortVars, execVars, rolloutVars>>

TerminateProcesses ==
    /\ lpc = "terminate"
    /\ procs' = {}
    /\ lpc' = "stop"
    /\ UNCHANGED <<op, victim, nextSub, turnVars, taskVars, abortVars, tools, rolloutVars, events>>

\* The recorder is shut down, which writes what is queued; a dead writer is reported.
StopRecorder ==
    /\ lpc = "stop"
    /\ Flushed
    /\ \/ writing /\ UNCHANGED events
       \/ ~writing /\ Send("Error", NoTurn)
    /\ lpc' = "stopped"
    /\ UNCHANGED <<op, victim, nextSub, turnVars, taskVars, abortVars, execVars, rolloutVars>>

StopSession ==
    /\ lpc = "stopped"
    /\ Send("ShutdownComplete", NoTurn)
    /\ lpc' = "exited"
    /\ UNCHANGED <<op, victim, nextSub, turnVars, taskVars, abortVars, execVars, rolloutVars>>

Receive == RecvUserInput \/ RecvSpawn \/ RecvInterrupt \/ RecvShutdown

Handle ==
    \/ TakeActive \/ CancelToken \/ GraceEnds \/ AbortHook \/ RecordMarker
    \/ FlushMarker \/ EmitAborted \/ CloseProcesses \/ SpawnTask \/ RegisterTask
    \/ AnnounceReview \/ TerminateProcesses \/ StopRecorder \/ StopSession

----------------------------------------------------------------------------
(* The task of a turn.                                                     *)

\* run_turn returns at once on an empty input; ReviewTask leaves TurnStarted to
\* the sub-agent it starts.
StartTask(t) ==
    /\ task[t] = "start"
    /\ \/ /\ kind[t] = "empty"
          /\ Go(t, "flush")
          /\ UNCHANGED events
       \/ /\ kind[t] = "regular"
          /\ Go(t, "input")
          /\ Send("TurnStarted", t)
       \/ /\ kind[t] = "other"
          /\ Go(t, "work")
          /\ Send("TurnStarted", t)
       \/ /\ kind[t] = "review"
          /\ Go(t, "work")
          /\ UNCHANGED events
    /\ UNCHANGED <<loopVars, turnVars, kind, rounds, abortVars, execVars, rolloutVars>>

RecordInput(t) ==
    /\ task[t] = "input"
    /\ recorded' = recorded \cup {t}
    /\ Go(t, "pending")
    /\ UNCHANGED <<loopVars, turnVars, kind, rounds, abortVars, execVars, marker, writing, events>>

\* get_pending_input takes the input of whichever turn is active.
TakePendingInput(t) ==
    /\ task[t] = "pending"
    /\ recorded' = recorded \cup pending
    /\ pending' = {}
    /\ Go(t, "sample")
    /\ UNCHANGED <<loopVars, active, kind, rounds, abortVars, execVars, marker, writing, events>>

\* The model calls a tool that may leave a process running; the request now needs
\* a follow-up.
CallTool(t) ==
    /\ task[t] = "sample"
    /\ rounds[t] < MaxRounds
    /\ rounds' = [rounds EXCEPT ![t] = @ + 1]
    /\ tools' = tools \cup {t}
    /\ Go(t, "calling")
    /\ UNCHANGED <<loopVars, turnVars, kind, abortVars, procs, rolloutVars, events>>

\* ResponseEvent::Completed: follow up on input that arrived in the meantime.
HasPendingInput == active # NoTurn /\ pending # {}

CompleteRequest(t) ==
    /\ \/ /\ task[t] = "sample"
          /\ Go(t, IF HasPendingInput THEN "pending" ELSE "flush")
       \/ /\ task[t] = "calling"
          /\ t \notin tools
          /\ Go(t, "pending")
    /\ UNCHANGED <<loopVars, turnVars, kind, rounds, abortVars, execVars, rolloutVars, events>>

\* The stream fails for good: the call in flight is dropped with it.
FailRequest(t) ==
    /\ task[t] \in {"sample", "calling"}
    /\ Send("Error", t)
    /\ Go(t, "flush")
    /\ UNCHANGED <<loopVars, turnVars, kind, rounds, abortVars, execVars, rolloutVars>>

\* The stream is cancelled, and the call in flight awaited.
AbortRequest(t) ==
    /\ task[t] \in {"sample", "calling"}
    /\ t \in cancelled
    /\ t \notin tools
    /\ Go(t, "flush")
    /\ UNCHANGED <<loopVars, turnVars, kind, rounds, abortVars, execVars, rolloutVars, events>>

\* Compact, undo, a user shell command and the sub-agent of a review.
EndWork_Completes(t) ==
    /\ task[t] = "work"
    /\ Send("TurnComplete", t)
    /\ Go(t, IF kind[t] = "review" /\ t \notin cancelled THEN "exitReview" ELSE "flush")
    /\ UNCHANGED <<loopVars, turnVars, kind, rounds, abortVars, execVars, rolloutVars>>

EndWork(t) ==
    /\ task[t] = "work"
    /\ Go(t, IF kind[t] = "review" /\ t \notin cancelled THEN "exitReview" ELSE "flush")
    /\ UNCHANGED <<loopVars, turnVars, kind, rounds, abortVars, execVars, rolloutVars, events>>

ExitReview(t) ==
    /\ task[t] = "exitReview"
    /\ Send("ExitedReviewMode", t)
    /\ Go(t, "flush")
    /\ UNCHANGED <<loopVars, turnVars, kind, rounds, abortVars, execVars, rolloutVars>>

FlushRollout(t) ==
    /\ task[t] = "flush"
    /\ Flushed
    /\ Go(t, "check")
    /\ UNCHANGED <<loopVars, turnVars, kind, rounds, abortVars, execVars, rolloutVars, events>>

CheckCancelled_ActiveOnly(t) ==
    /\ task[t] = "check"
    /\ Go(t, IF t \in cancelled \/ active # t THEN "done" ELSE "finish")
    /\ UNCHANGED <<loopVars, turnVars, kind, rounds, abortVars, execVars, rolloutVars, events>>

CheckCancelled(t) ==
    /\ task[t] = "check"
    /\ Go(t, IF t \in cancelled THEN "done" ELSE "finish")
    /\ UNCHANGED <<loopVars, turnVars, kind, rounds, abortVars, execVars, rolloutVars, events>>

\* ActiveTurn::remove_task: is the active turn left without a task?
RemoveTask_Any(t) == active # NoTurn

RemoveTask(t) == active = t

\* on_task_finished under the active_turn lock.  Removing the RunningTask drops its
\* AbortOnDropHandle, which aborts the very task that is running this code.
FinishTurn(t) ==
    /\ task[t] = "finish"
    /\ \/ /\ RemoveTask(t)
          /\ active' = NoTurn
          /\ pending' = {}
          /\ doomed' = doomed \cup {t}
          /\ Go(t, "close")
       \/ /\ ~RemoveTask(t)
          /\ Go(t, "emit")
          /\ UNCHANGED <<turnVars, doomed>>
    /\ UNCHANGED <<loopVars, kind, rounds, cancelled, execVars, rolloutVars, events>>

CloseOnFinish(t) ==
    /\ task[t] = "close"
    /\ procs' = {}
    /\ Go(t, "emit")
    /\ UNCHANGED <<loopVars, turnVars, kind, rounds, abortVars, tools, rolloutVars, events>>

EmitComplete(t) ==
    /\ task[t] = "emit"
    /\ Send("TurnComplete", t)
    /\ Go(t, "done")
    /\ UNCHANGED <<loopVars, turnVars, kind, rounds, abortVars, execVars, rolloutVars>>

\* An await suspends a task whose handle was aborted: it is never polled again.
DropTask(t) ==
    /\ t \in doomed
    /\ Alive(t)
    /\ MaySuspend(t)
    /\ Go(t, "dropped")
    /\ UNCHANGED <<loopVars, turnVars, kind, rounds, abortVars, execVars, rolloutVars, events>>

Run(t) ==
    \/ StartTask(t) \/ RecordInput(t) \/ TakePendingInput(t) \/ CallTool(t)
    \/ CompleteRequest(t) \/ FailRequest(t) \/ AbortRequest(t) \/ EndWork(t)
    \/ ExitReview(t) \/ FlushRollout(t) \/ CheckCancelled(t) \/ FinishTurn(t) \/ CloseOnFinish(t)
    \/ EmitComplete(t) \/ DropTask(t)

----------------------------------------------------------------------------
(* The tokio task of an exec tool call, and the rollout writer.            *)

ToolReturns(t) ==
    /\ t \in tools
    /\ tools' = tools \ {t}
    /\ \/ procs' = procs \cup {t}
       \/ UNCHANGED procs
    /\ UNCHANGED <<loopVars, turnVars, taskVars, abortVars, rolloutVars, events>>

\* The call sees the cancellation, or its AbortOnDropHandle went with the request.
ToolDropped(t) ==
    /\ t \in tools
    /\ t \in cancelled \/ task[t] # "calling"
    /\ tools' = tools \ {t}
    /\ UNCHANGED <<loopVars, turnVars, taskVars, abortVars, procs, rolloutVars, events>>

Tool(t) == ToolReturns(t) \/ ToolDropped(t)

\* What becomes of the markers in the queue.
Dequeue(fate) ==
    marker' = [t \in Subs |-> IF marker[t] = "queued" THEN fate ELSE marker[t]]

WriteRollout ==
    /\ writing
    /\ ~Flushed
    /\ Dequeue("durable")
    /\ UNCHANGED <<loopVars, turnVars, taskVars, abortVars, execVars, recorded, writing, events>>

\* The first write that fails ends the writer for good, and what is queued goes with it.
WriterFails ==
    /\ writing
    /\ writing' = FALSE
    /\ Dequeue("lost")
    /\ UNCHANGED <<loopVars, turnVars, taskVars, abortVars, execVars, recorded, events>>

Writer == WriteRollout \/ WriterFails

Next ==
    \/ Receive
    \/ Handle
    \/ \E t \in Subs : Run(t) \/ Tool(t)
    \/ Writer

Spec == Init /\ [][Next]_vars

\* The loop's own steps and the writer's, with no help from any task.
LoopSpec == Spec /\ WF_vars(Handle) /\ WF_vars(WriteRollout)

\* The runtime polls every task that is ready and the model's stream ends; the
\* client owes the session nothing.
TasksRun == \A t \in Subs : WF_vars(Run(t)) /\ WF_vars(Tool(t))

----------------------------------------------------------------------------
(* Safety.                                                                 *)

\* The code of a turn that still acts on the session: not past its removal.
Working(t) == Alive(t) /\ task[t] \notin {"close", "emit"}

\* However spawning, registering, finishing and aborting interleave, two turns
\* are never at work at once, save those whose cancellation has been requested.
AtMostOneWorking ==
    \A t, u \in Subs :
        Working(t) /\ Working(u) /\ t \notin cancelled /\ u \notin cancelled => t = u

\* When the loop sees no active turn (and so allows a rollback of the history, or
\* starts another turn), every turn still at work has been cancelled and aborted,
\* and runs no further than its next suspension.
IdleMeansQuiet ==
    lpc \in {"recv", "exited"} /\ active = NoTurn =>
        \A t \in Subs : Working(t) => t \in cancelled /\ t \in doomed

\* The client is never told twice that a turn completed, or twice that it was
\* aborted, although the task and the loop race to end it.
TerminalOnce ==
    \A i, j \in DOMAIN events :
        events[i] = events[j] /\ events[i].type \in {"TurnComplete", "TurnAborted"} => i = j

\* Some clients re-read the rollout on TurnAborted.  The marker of an interruption is on
\* disk by then, or the writer has failed and the marker is lost for good: it is never
\* still on its way.  A turn without a marker made room for a later one.
MarkerDurableBeforeAborted ==
    \A t \in Subs : Sent("TurnAborted", t) =>
        \/ marker[t] = "durable"
        \/ marker[t] = "lost" /\ ~writing
        \/ marker[t] = "none" /\ t < Spawning

\* on_task_finished of a turn that was aborted meanwhile leaves the turn that
\* replaced it alone: only the loop, or the active turn's own task as it
\* finishes, empties active_turn.
FinishClearsOwnTurn ==
    [][ active # NoTurn /\ active' = NoTurn =>
          lpc = "take" \/ (task[active] = "finish" /\ task'[active] # "finish") ]_vars

\* While a turn is registered, any other task still at work has been told to stop: the
\* session functions it calls find another turn's state in active_turn, and take its
\* pending input, only after its own token was cancelled.
StrayIsCancelled ==
    \A t \in Subs : active # NoTurn /\ Working(t) /\ t # active => t \in cancelled

\* The session implements the slot: a turn starts when none is in force, stops only
\* when evicted, and is reported as it ended, across loop, task and rollout writer.
Phase(t) ==
    CASE task[t] = "none" -> "fresh"
      [] task[t] \in {"close", "emit"} -> "completing"
      [] task[t] \in {"done", "dropped"} -> "over"
      [] OTHER -> "running"

Reported(type) == {t \in Subs : Sent(type, t)}

Slot == INSTANCE TurnSlot WITH
            Turns <- Subs,
            phase <- [t \in Subs |-> Phase(t)],
            evicted <- cancelled,
            completed <- Reported("TurnComplete"),
            aborted <- Reported("TurnAborted")
SlotSpec == Slot!Spec

----------------------------------------------------------------------------
(* Liveness.                                                               *)

\* A turn taken out to be aborted is reported aborted, whatever its task does.
AbortReported == \A t \in Subs : (victim = t) ~> Sent("TurnAborted", t)

\* The abort that a task brings on itself as it finishes took effect before TurnComplete
\* was sent: nobody else aborted it, and an await after the removal had to wait.
DroppedItself(t) == task[t] = "dropped" /\ t \in doomed /\ t \notin cancelled

\* Once tasks run, every turn that starts is reported complete or aborted, with one
\* exception: on_task_finished aborts the task it runs in, and where it then finds a lock
\* of the session taken, the turn has ended and nobody is told.
EveryTurnEnds ==
    TasksRun =>
        \A t \in Subs :
            (task[t] = "start") ~>
                \/ Sent("TurnComplete", t) \/ Sent("TurnAborted", t)
                \/ Contended /\ DroppedItself(t)

----------------------------------------------------------------------------
(* What comments, tests and documents say, and the code does not do.       *)

\* core/src/trill.rs, test: "interrupts still result in `TurnAborted` being the
\* only client-visible signal".
AbortedOrComplete ==
    \A t \in Subs : ~(Sent("TurnAborted", t) /\ Sent("TurnComplete", t))
=============================================================================
