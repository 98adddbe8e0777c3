# Verification of the Trill session core

Trill (`trill-rs/`) is an agent that runs in a terminal or behind an editor: it
sends a conversation to a language model, runs the tools the model calls, asks
its client to approve the dangerous ones, and records everything so that a
conversation can be resumed. The part that carries this logic is the crate
`core`; the terminal UI, the app server and the command line programs are clients
of it, which submit operations and receive events.

This directory holds TLA+ models of that core, the TLC runs that check them on
small instances, and TLAPS proofs of every safety property and every refinement the runs
check, for instances of any size. `PROJECT.json` maps every definition to the source lines it
translates.

## 1. The system

| Part | State | Operations | What is hard | What makes it correct |
| --- | --- | --- | --- | --- |
| Turn lifecycle (`core/src/tasks`, `state/turn.rs`, the submission loop of `trill.rs`) | `active_turn`, the pending input of its `TurnState`, a cancellation token and an abort handle per turn | user input, review, compact, undo, user shell, interrupt, shutdown; the end of a task | the loop and the tasks it spawns run concurrently; a turn is registered after it is spawned; an abort waits 100 ms and no longer | one turn at work at a time; every turn ends, and is reported |
| Sampling requests and tool calls (`trill.rs`, `tools/parallel.rs`, `stream_events_utils.rs`, `context_manager/normalize.rs`) | `in_flight`, a lock per attempt, retries, `pending_approvals`, the history | stream events, retry, transport switch, drain, approvals, cancellation | a task per call; streams that fail half-way; answers that come late | exclusive calls run alone; outputs are recorded once and in order; nothing runs on unowned; a cancelled turn ends |
| Readiness flag (`utils/readiness`, `tasks/ghost_snapshot.rs`) | an atomic flag, tokens behind a mutex, a watch channel | subscribe, mark ready, ask, wait | lock, atomic and channel are not read together | no tool passes while a snapshot is taken; a waiter is woken |
| Sub-agents (`agent/`, `tools/handlers/collab.rs`, `thread_manager.rs`) | a count, a set of threads, a map of threads | reserve, commit, release; spawn, prompt, close | a lock-free counter; several parties release one agent | the count is exact, the limit holds |
| Rollout (`rollout/`) | a channel, a writer task, a JSONL file | add, flush, shutdown, resume | crashes, I/O errors, torn lines | what was acknowledged is in the file, which has no gaps |
| History and compaction (`context_manager`, `compact*.rs`, `tasks/undo.rs`, `rollout/truncation.rs`) | the items in memory, the rollout | record, compact, undo, roll back, fork, resume | memory and rollout are changed one after the other; copies are put in place of what was copied | a resume rebuilds what the model was shown; the user's words are kept |
| Unified exec (`unified_exec/`) | process store, reserved ids, watchers | exec, write stdin, prune, terminate all | processes exit on their own; calls are dropped; turns overlap at their ends | a running process can be found; its end is reported once; the limit holds |
| App server (`app-server/`) | pending interrupts and rollbacks per thread | requests of the client, a listener task | answers wait for events that do not name them | every request is answered, by what it asked for |
| Tool orchestration (`tools/orchestrator.rs`, `sandboxing.rs`) | approval cache | approve, run sandboxed, escalate, retry | little: the tools that use the cache run alone | nothing runs unapproved |
| Delegated sessions (`trill_delegate.rs`) | forwarded approvals | spawn, forward, interrupt | cancellation of parent and child | an answer reaches its request |
| Configuration, auth, models, exec policy, MCP, sandboxes, UI, SDK | mostly none that is shared | I/O, parsing, rendering | external services | out of scope, see section 7 |

The parts interact through a few things. The *submission channel* carries operations
to the loop, which handles one at a time. The *event channel* carries events to the
client. `active_turn`, behind a tokio mutex, is shared by the loop and the tasks; so
are the history and the process store. The *rollout channel* leads to a writer task
that owns the file. A turn's *tool call gate* stands between its ghost snapshot and its
tools. The *guards* of a user session are shared by all its sub-agents. The app
server's *pending maps* are filled by its message processor and emptied by listeners.

## 2. Modules

| Module | What it is |
| --- | --- |
| `TurnSlot` | what a session promises about its turns |
| `SessionTurns`, `SessionTurnsProofs` | the turn lifecycle of one session, which implements `TurnSlot` |
| `ToolCalls`, `ToolCallsProofs` | the sampling requests and tool calls of one turn |
| `ToolGate` | what the gate of a turn promises |
| `ReadinessFlag`, `ReadinessFlagProofs` | the flag at the grain of its atomic operations, which implements `ToolGate` |
| `SpawnSlots` | a pool of slots |
| `Agents`, `AgentsProofs` | sub-agents and their guards, which implement `SpawnSlots` |
| `RolloutLog` | a log without gaps that loses a tail |
| `RolloutRecorder`, `RolloutRecorderProofs` | the recorder with failing writes, kills and resumes, which implements `RolloutLog` |
| `SessionHistory`, `SessionHistoryProofs` | the history in memory and in the rollout |
| `UnifiedExec`, `UnifiedExecProofs` | interactive processes |
| `AppServerTurns`, `AppServerTurnsProofs` | the app server and a thread, whose session is `TurnSlot` |
| `MC*` | the sets the runs use |

In every module a step is the code between two awaits at which another task can
run: the grain at which the tokio runtime interleaves tasks, and at which an abort
takes effect. Where actors are on different threads and share atomics (`ReadinessFlag`,
`Agents`) a step is one atomic operation or one critical section. An operator named
`X_Y` is `X` with the plausible fault `Y` put in; it is not part of a specification and
is there to show that a property would notice the fault.

`AppServerTurns` is a composition: instead of the several hundred steps of a session it
takes the six of `TurnSlot`. That `SessionTurns` implements `TurnSlot` is checked and
proved, so what the app server's runs assume of a session holds of the code's.

### 2.1 SessionTurns

The submission loop is one process with a program counter `lpc`; each turn `t`
(named by the id of the submission that started it) has a task with a program
counter `task[t]`.

| Actions | Code |
| --- | --- |
| `RecvUserInput`, `RecvSpawn`, `RecvInterrupt`, `RecvShutdown` | the arms of `submission_loop` that touch turns; input goes to the active turn (`inject_input`) or starts one |
| `TakeActive`, `CancelToken`, `GraceEnds`, `AbortHook`, `RecordMarker`, `FlushMarker`, `EmitAborted`, `CloseProcesses` | `abort_all_tasks` and `handle_task_abort`, one action per await |
| `SpawnTask`, `RegisterTask`, `AnnounceReview` | `spawn_task`, `register_new_active_task`, the end of `spawn_review_thread` |
| `TerminateProcesses`, `StopRecorder`, `StopSession` | `handlers::shutdown` |
| `StartTask` ... `ExitReview` | `run_turn` and the other tasks, down to what they do to shared state |
| `FlushRollout`, `CheckCancelled`, `FinishTurn`, `CloseOnFinish`, `EmitComplete` | the future that `spawn_task` spawns, and `on_task_finished` |
| `DropTask` | the runtime drops an aborted task at a suspension |
| `ToolReturns`, `ToolDropped` | the task of an exec call, which may leave a process in the store |
| `WriteRollout`, `WriterFails` | the rollout writer task, which an error of a write ends for good |

Four points of the translation deserve a word.

*Abort.* `AbortOnDropHandle::abort` drops a task that is suspended. A task that is
being polled at that moment runs on until an await returns Pending; such a task is
in `doomed`, and `DropTask` removes it at an await that may suspend
(`MaySuspend`). Awaits on the model, a sub-agent or a flush always may; an await on
a session lock may only if the lock is taken. The constant `Contended` says whether
that happens: TRUE allows every outcome, FALSE gives the best case.

*Self-abort.* `on_task_finished` removes its own `RunningTask`, whose handle aborts
the very task that runs this code. `FinishTurn` therefore dooms its own turn.

*Grace.* The loop waits for the task or for 100 ms. Time is not modelled: the wait
may end at once, whatever the task does.

*Marker.* What the loop records goes to the writer's channel, and `flush_rollout` waits for
the writer's answer. The writer may die of an error at any point (`WriterFails`): what is
queued is lost with the channel, what is recorded afterwards is refused, and a flush is
refused as well. In both cases `flush_rollout` only warns and the abort goes on, so `marker`
says of each turn whether there is none, it is queued, durable, or lost.

`TurnSlot` sees of this: which turn is in force, which was told to stop, and what was
reported. A turn may start as soon as its predecessor was told to stop. An evicted turn may
still complete, and be reported both complete and aborted, since the code does that
(section 6); nothing else is reported twice, or of a turn that did not come to that end.

### 2.2 ToolCalls

One turn, whose task (`turn`) goes through requests and their attempts; each call
`c` has a task (`tool[c]`). `runtime[c]` names the attempt that started a call and
so the `RwLock` it uses: `ToolCallRuntime::new` is called once per attempt.

| Actions | Code |
| --- | --- |
| `StartRequest` | `run_turn` builds the prompt; `told` is what it says of each call |
| `Connect`, `StreamCall`, `StreamCallWithoutId`, `ResponseCompleted`, `StreamClosed`, `StreamFails`, `SeeCancelled` | `try_run_sampling_request` and `handle_output_item_done` |
| `DrainNext`, `DrainEnds` | `drain_in_flight` and what follows it |
| `AttemptFailed` (`SwitchTransport`, `WaitAndRetry`, `GiveUp`), `BackoffEnds` | the retry loop of `run_sampling_request` |
| `Acquire`, `Ask`, `AskUnregistered`, `ToolReturns`, `ToolCancelled`, `ToolDropped` | `ToolCallRuntime::handle_tool_call` and `request_command_approval` / `request_patch_approval` |
| `Answer` | the client, and `notify_approval` |
| `TakeTurn`, `CancelToken`, `AbortTurn` | what `SessionTurns` does to the turn, seen from inside it |

The history keeps of each item only whether it is a call, an output or an error,
and of which call. The prompt keeps of each call whether it is absent, has its
output, has the synthesized output "aborted", or stands bare.

The end of a stream comes in three forms. A stream that completes or closes breaks
the loop and is drained. A stream that yields an error leaves through `?`: the calls in
flight are dropped, which aborts their tasks. A cancelled stream is drained, and
its calls return an output that says so.

### 2.3 ReadinessFlag

Each snapshot is a subscriber with the token it was given, each tool call that may change
files a waiter. `Subscribe` ... `InsertToken` are `subscribe`, `SnapshotEnds` ...
`Broadcast` are `mark_ready`, and `CallWait` ... `Look` are `wait_ready` with `is_ready`
inside it. `LockFails` is the timeout of a second. `SendTrue` is tokio's `send`, which
changes nothing when no receiver is attached.

### 2.4 Agents

Each call spawns, prompts or closes an agent, and an agent is named by the call that
spawned it. The calls run on different threads, since the agents of a tree share the
guards. `LoadCount` and `SwapCount` are the compare-and-exchange loop; `AbandonSpawn` is
the reservation dropped without a commit; `RemoveThread`, the release of the set and the
decrement are steps of their own, so that two closes of one agent interleave. Agents end
on their own, and clients remove threads without telling the guards.

### 2.5 RolloutRecorder

The tasks (`Senders`) record, flush and, one of them, shut down; the channel is bounded.
`WriterStep` is `rollout_writer`, one write at a time. `CutLine` stops a write in the
middle of a line, because the disk is full or the process is killed; `Kill` may come at
any point, and `Resume` opens the same file. A line is whole, bare of its newline, cut, or the
second half of another; what is appended to a tail joins its line. `Loaded` is what
`load_rollout_items` gets from the file, and `Resumable` what it takes to be accepted.

### 2.6 SessionHistory

An item is a kind and a number: a message of the user, what a truncation left of one
("clipped"), a reply (or a tool call, or its output), the marker of an aborted turn, a summary,
what a server packed, a snapshot. `history` is what the session has in memory, `log` the
rollout, and `owed` what was changed in memory and has yet to be logged: recording is two
steps, and an abort may come between them. The loop (`BeginTurn`, `Interrupt`, `RollBack`),
the turn (`TakePrompt`, `RecordReply`, both compactions, `Undo`) and a snapshot that
outlives its turn act on it. `Replay` is `reconstruct_history_from_rollout`, a fold over
the rollout, written as a recursive function of the number of lines, as is `UserPositions`,
the positions a fork counts; `TruncateBefore` is where it cuts. A rollback counts from the
end (`TurnsIn`, `Boundaries`), and one of no turns is refused before it is made.

*Abort.* `handle_task_abort` waits 100 ms and then records the marker. `Interrupt` has both
outcomes: the task is dropped at the await it has come to, and its copies with it, or it is
being polled and runs on beside the loop (`doomed`), until it ends or `DropTask` removes it.
Meanwhile the marker is recorded, a rollback may be made and the next turn be submitted, and the
aborted task may still put back the copy that its compaction or undo took before all that.

*Limit.* `build_compacted_history` keeps the newest 20,000 tokens of what the user said and of
the markers, truncates the message that only partly fits and leaves out what is older. `Tokens`
are those of the m newest messages, `Whole` how many of them fit, `Limited` what is kept. A
message of the user has the size 2 and everything else the size 1, so a message can be kept, be
clipped, or be left out.

### 2.7 UnifiedExec

A process bears the number of the call that started it. `Allocate` ... `Watch` are
`exec_command`, with what happens to the id when it fails or the process has exited;
`Poll` and `Refresh` are `write_stdin`; `ReportExit` is the watcher. `StartTurn`,
`FinishTurn`, `CloseFinished`, `Interrupt` and `CloseInterrupted` are where turns terminate
processes. The two tools are not parallel, so a turn has one call at a time; what overlaps
is a dropped call that runs on to its next await, and a completed turn that has left the
slot and has yet to terminate the processes.

### 2.8 AppServerTurns

The message processor (`Receive`, `PendInterrupt`, `PendRollback`, `Submit`,
`AnswerArchive`) handles a request at a time; the session's loop (`Take*`, `Abort`,
`StartReview`) takes the submissions in order; turns go on by themselves (`TurnStep`);
the listener (`Read*`) reads the events in order and answers what is pending.

## 3. Runs

| Run | Instance | Shows |
| --- | --- | --- |
| `session_safety` | 2 submissions, 1 follow-up, every kind of task, contended, a writer that may die | `IdleMeansQuiet`, `MarkerDurableBeforeAborted`, `StrayIsCancelled`, `FinishClearsOwnTurn`; the session implements `TurnSlot` (`SlotSpec`) |
| `session_live` | 2 submissions, input and reviews, contended, a writer that may die; fairness of the loop and the writer | `AbortReported`; and, if tasks run, `EveryTurnEnds` |
| `tool_safety` | 2 calls, 1 retry, every kind | `ExclusiveAlone`, `OutputsInOrder`, `AbortedIsFinal`, `NothingLeaks`, `RetryBudget` |
| `tool_live` | 2 calls of three kinds, no retry on either transport | `CancelEnds`; and, if the client answers, `ApprovalSettles` |
| `gate_opens` | 2 snapshots, 2 tool calls | `GateHoldsCallsBack`, `NoTokenOnceReady`, `AttachedCallsPass`; the flag implements `ToolGate` (`GateSpec`) |
| `agent_slots` | 3 calls, a limit of 1 | `CountIsSlots`, `FoundHasSlot`, `ClosedIsReleased`; the guards implement `SpawnSlots` (`PoolSpec`) |
| `rollout` | 2 tasks, room for 2 commands, 3 items, 1 cut line, 3 processes | `FlushedIsWritten`, `OneLossPerTear`, `CallsReturn`; the file implements `RolloutLog` (`LogSpec`) |
| `history` | 3 numbered items or rollbacks, 2 turns, rollbacks of up to 2 turns, 2 processes, a limit of 3 tokens | types; `ReplayIsHistory`, `ForkKeepsTurnsBefore`, `UserWordsKept` |
| `unified_exec` | 4 calls, 2 turns, 3 ids, a store of 2 of which 1 is protected | `WithinLimit`, `EndedOnce`, `RunningIsFound`, `EndIsComing`, `PrunedIsOld` |
| `app_server` | 4 requests of 5 kinds | types; `AnsweredOrPending`, `RollbackMatches`, `RollbackAnswered`, `InterruptAnswered` |
| `find_*` | the smallest instance that shows it | one disagreement each, section 6 |

Every type invariant is proved for all instances (section 5); the runs `history` and
`app_server` also check it, the others do not repeat it.

*Bounds.*

- `session_*`: `MaxSubs` bounds the submissions that carry input or start a turn. Two
  are enough for what the properties are about: a turn and the one that replaces it, or a
  turn and an input injected into it; interrupts and shutdowns are not counted, so each may
  come at any point of both turns. `session_safety` has every kind of task. In
  `session_live` the other tasks are left out, which do what reviews do but for the events of a
  review, and empty input, which goes through no request; no turn makes a follow-up request.
  Both runs have the view `EndsOnly`: no action reads the events, what was recorded or whose
  processes there are, and the properties ask only which ends of turns were sent, so states
  that differ in nothing else are taken for one. `MaxRounds` bounds
  the follow-up requests a turn makes, one of which separates the first look at the pending
  input from the next.
- `tool_*`: `MaxCalls` = 2 gives a call and its neighbour, in one attempt or in two;
  `MaxRetries` = 1 with two transports gives four attempts, and with 0 still two.
- `gate_opens`: two subscribers race to mark the flag, and a waiter beside another that
  turns the flag for want of tokens. The mutex makes a third of either behave as one of them.
- `agent_slots`: three calls are a spawn and two that prompt or close its agent at once, or
  two spawns that race for one slot and a call that frees it.
- `rollout`: a cut line, the line glued to it and the one after it, with a process that
  writes before the cut, one that goes on with the tail, and one that reads the result.
- `history`: two turns are the least in which a rollback keeps one, an undo or a
  compaction meets the snapshot of the turn before, and a fork has somewhere to cut. Three
  numbers are two messages and a summary, with replies or snapshots in the place of a message;
  markers have the number of their turn and do not count. With a limit of 3 a compaction keeps
  one message and clips the one before it, or keeps one and a marker, or leaves a message or a marker out.
- `unified_exec`: a store of two with one protected has a process to prune and one not to;
  with three ids one is free while two are kept, or reserved twice in a row. The ids are
  symmetric. Four calls fill the store, prune, and poll what was pruned.
- `app_server`: four requests are a turn, one that meets it (an interrupt, a rollback, a
  review, an archive), and two more while the first is pending.

The proofs of section 5 remove these bounds for the safety properties they cover.

*Deadlock* is not checked: the session really ends after a shutdown, a turn or a call when it
is over, and a client may stop asking.

*Mutants.* `PROJECT.json` names for each property a fault of the code that breaks it:
a turn spawned without aborting the previous one, a flush that does not wait, a
finished turn that empties `active_turn` without looking whose it is, outputs
recorded as they come, a slot stored where it should be exchanged, a writer that goes on
after an error, a fork that counts rolled-back turns, a watcher only for a process that
still runs, an interrupt made pending after it was submitted, and so on.

## 4. Fairness

All is weak fairness unless it says strong: every step named stays possible until it is
taken, or until what it waits for is moot.

- `SessionTurns!LoopSpec`: the loop's own steps and the rollout writer. The loop awaits
  only locks, the 100 ms timer and the writer, so no task and no client is needed for its
  progress; nothing makes the writer fail, and nothing keeps it from failing.
  `EveryTurnEnds` has the further premise `TasksRun`: every task and exec call
  is polled when it can proceed. `Run(t)` includes the end of the model's stream,
  which the idle timeout of the stream guarantees. The client owes nothing. Locks may be taken
  at every await (`Contended`), and the property names what that costs as its one exception:
  a finished turn that its own abort drops (`DroppedItself`, section 6).
- `ToolCalls!CancelSpec`: a cancelled token wakes the `select!` of each call and the
  `or_cancel` of the stream, the turn's task drains and retries, and a turn taken out is
  cancelled. Nothing makes the model, a tool or the client proceed, and the task need not
  be dropped (`AbortTurn` is not fair). `ApprovalSettles` has the premise `ClientAnswers`:
  aborted calls are dropped and the client answers each request it is shown.
- `ReadinessFlag!FairSpec`: a snapshot ends (git returns, or the turn is cancelled) and no
  thread stands still for ever. The calls need not wait, and may be dropped.
- `Agents!FairSpec`: a call is polled while it can proceed. Nothing makes an agent end.
- `RolloutRecorder!FairSpec`: the writer is scheduled. A call that waits for room in the
  channel has strong fairness, as tokio's bounded channel serves its senders in turn.
- `AppServerTurns!FairSpec`: message processor, loop and listener. No turn has to end, and
  the client need not ask.

## 5. Proofs

All constants are arbitrary; the named assumptions say only that bounds are natural
numbers, that kinds are among the known ones, that sets are finite or disjoint where the code
makes them so, and that the protected processes are fewer than the limit.

**SessionTurnsProofs.** `AtMostOneWorking` is not inductive: it does not say where the
one turn in force is. The invariant `Inv` does. A turn at work that is not
cancelled is the one in `active_turn`, the one the loop is about to register, or
the one it has just taken out (`InForce`). From taking a turn out to registering
the next, the slot stays empty (`SlotFree`). A cancelled turn at work has had its
handle aborted, save during the grace period (`CancelledIsDoomed`). `Started` and `InHand`
say which ids are used and which is in hand. A step of any task
is summed up by `RunEffect` (it moves that task only, and never from idle to
working), so the proof has one step per action of the loop and one for all steps
of the tasks. From `Inv` follow `SessionExclusion`, `SessionIdle`, `SessionStray` and `SessionSlot`.
`SessionTerminalOnce` and `SessionMarker` have invariants of their own. That of the marker
(`Marked`) says what the loop and the writer owe each other: past the flush a marker is
no longer queued (`OnItsWay`), a marker is lost only to a writer that is dead (`LostToWriter`),
and a turn is reported aborted with a marker that is durable or lost, or made room for a later
one (`Noted`).
`SessionImplementsSlot` maps each step to one of `TurnSlot` or to a stutter; it needs `Inv`, the
invariant of the event log, and that only cancelled turns are doomed before they finish.

**ToolCallsProofs.** Four invariants, each with the types: `LockInv` (the sender in the
approval slot is that of an exclusive call that waits for it or is over) gives `ToolExclusion` and
`ToolSlot`: a call that asks while the slot holds a live call of its own attempt would
share a lock with it. `FlightInv` (nothing is in flight outside an attempt; a live
call is in flight or dropped; a call reported aborted is neither in flight nor has
an output) gives `ToolNoLeak` and `ToolAbortedIsFinal`. `Budget` relates the attempts made to the
retries and the transport left. `OrderInv` (every output recorded belongs to an
older call than every call in flight, whose numbers increase) gives `ToolOrder`.

**ReadinessFlagProofs.** Flag, tokens and channel are read one at a time, so the invariant
relates what an actor has read to what is there when it acts: the mutex excludes, a
subscriber that holds the gate still has its token or another opened the gate, tokens are used up once
the flag is ready, and whoever was told that it is ready was told the truth. From it
follow the properties of the run and the refinement (`FlagIsGate`).

**AgentsProofs.** Counter and set are changed in separate steps; the invariant says who
holds a slot in between, and that the counter is the cardinality of those. The limit and the
refinement (`AgentPool`) follow.

**RolloutRecorderProofs.** A flush covers what was in the file or queued when it was sent.
The invariant follows such an item: it is in the file, in the command being written, or in a
command ahead of the flush. The writer answers between two commands, when nothing is
ahead. `FlushCommits` holds for any capacity and any number of tasks, failures and kills.
`LossPerTear` needs that the cut lines are as many as the writes that stopped in the middle
(`CutsCounted`): a line does not parse only if it is cut or follows a cut one, and what was flushed
is on whole lines, so the lost items map one-to-one into the cut lines. `RecorderIsLog` is the
refinement. Its invariant is an order: what is queued is the rest of the command being
written, followed by the items of the commands in the channel, in a row (`QueuedInOrder`). So the item
that is written is the head of what is pending, and a failure, which takes channel and
command together, loses all of that and nothing else.

**SessionHistoryProofs.** That the rollout replays to the history holds only between two
recordings, so `Replays` states it of the rollout with the line still owed (`Owed`), and only of
what both record (`Told`: not the snapshots, which may be lost, and not the replies once a
failed compaction left one in memory only). It is inductive only with the rest of `Inv`: loop
and turn never owe a line at the same time (`InTurn`); between the copy a compaction, an undo or
a rollback takes and the moment it puts it back only snapshots come (`Copies`), of which a turn
takes one at most (`Snapshots`); and only a compaction writes a summary or clips a message
(`LogProper`). An aborted turn that runs on breaks the first two: they hold of turns that are
not `doomed`, and `Replays` until one was (`cut`). A rollback then drops the same turns in
memory and in the replay because `DropLastUserTurns` depends on the user's messages alone. From
`Inv` follow `HistoryTypeOK` and `HistoryReplays`. The action property `HistoryKeepsWords` has one
lemma per action that puts a copy in place (`SummariseWords`, `UndoWords`), which rest on what
the limit keeps: `WholeFits` and `LimitedKeeps` say of any sequence of messages that one is kept
if it fits together with all that are newer. `HistoryForks` is about the rollout alone: by
induction over its lines, the n-th position that a fork counts is that of the n-th message of
the replay, and what comes before replays to the messages before it (`Placed`), provided no
rollback follows a compaction, no compaction had to leave messages out (`Fits`), and no server
replaced the history.

**UnifiedExecProofs.** What each stage of a call says of its process gives
`ExecEndsOnce` and `ExecEndIsComing`. That no two processes were last used by the same call makes the
least recently used one unique, so that a full store always has one to prune:
`StoreWithinLimit` follows from that and from `Protected < Limit`. `RunningProcessIsFound`
needs that an id is in two hands only after a reservation of it was cleared. The action property
`PruningIsFair` needs that nothing in the store was killed (`Undead`): a prunable process
that has not exited then runs.

**AppServerTurnsProofs.** Processor and listener know a request by what is pending, and the
listener's events name submissions. The invariant `Inv` follows a submission from the processor over
the queue and the loop to the events, where it is in one place at a time (`InTransit`); only
input and reviews become turns (`TurnKinds`, `LoopKinds`), so no event of a turn bears the id of a
rollback; and it says what may be pending and how far the latest request has come (`Pending`,
`InHand`). From it follow `ServerAnswersOnce` and `ServerRollbackMatches`, for any number
of requests.

*Induction.* The induction theorems of the library take an operator as a parameter, which the
provers cannot instantiate. Where a recursive function has to be reasoned about (`Replay`,
`UserPositions`, `FlattenSeq`), the rule is stated of a set instead: a set of numbers with 0 and the
successor of each member has them all (`SetInduction`), a set of sequences with the empty one and
every extension has them all (`SeqInduction`). Both follow from the least-number
principle (`LeastNat`), and that from the library's theorem that `<` is well-founded.
`FoldExists` then gives the existence of the function that a recursive definition chooses, and so its
equations. `SessionHistory` writes its folds as recursive functions, and the recorder's `OnDisk`
with `FlattenSeq`, for the sake of this.

*Only model-checked.* Liveness under fairness is out of the prover's reach:
`AbortReported`, `EveryTurnEnds`, `CancelEnds`, `ApprovalSettles`, `AttachedCallsPass`,
`ClosedIsReleased`, `CallsReturn`, `RollbackAnswered` and `InterruptAnswered` are checked on
the instances of section 3. Every other property of a passing run is stated by a theorem.

## 6. Where the code and its documents disagree

Two are runs that TLC ends with a counterexample of a few steps.

- `find_both_ends`: `TurnComplete` and `TurnAborted` for one turn. The task looks at its token
  before the loop cancels it, and the loop does not learn that the task has passed.
- `find_output_unsent`: a retry sends the prompt of the first attempt; the turn may complete
  without the model's having seen the output of a call that ran.

The models show more, for which no run is kept; each is a reachable behaviour of the module
named.

*SessionTurns, ToolCalls.* The comment at `tasks/mod.rs:273` says "Ensure the marker is durably
visible before emitting TurnAborted"; if the writer has failed the flush is refused,
`flush_rollout` warns (`trill.rs:1004`) and `TurnAborted` is sent with the marker lost, which
`MarkerDurableBeforeAborted` names as an exception. `TurnAborted` is sent before the turn's
processes are terminated. Input accepted between a task's last look and the end of the turn is
discarded with the turn. A finished turn aborts its own task; if one of the next awaits finds a
lock taken, `TurnComplete` is never sent, the exception that `EveryTurnEnds` names. Input that
was meant for a turn may be taken by a cancelled task that outlived its own. Approvals are keyed
by the turn alone, so the answer to a request of a dropped attempt resumes the call of the next
one. A task that ends before it is registered leaves `active_turn` naming a finished turn. A
review that fails at once is reported left before entered.

*ReadinessFlag.* The flag is sent only to receivers there are (`utils/readiness/src/lib.rs:164`): a
call that reads the flag before it turns and attaches afterwards waits until it is dropped.

*Agents.* A slot is not given back when a client removes the thread and nobody prompts or
closes the agent, or when `close_agent` finds it shut down already; a spawn dropped
after its commit leaves an agent nobody was told of.

*RolloutRecorder.* An item flushed after a resume on a cut line shares that line, so later
loads skip it. A tail cut inside a UTF-8 character makes the whole file unreadable. The first
line joined to a cut one loses the thread's id.

*SessionHistory.* A snapshot recorded between the copy and the replacement of a compaction or an
undo is lost, which the comment in `compact_remote.rs` ("Required to keep `/undo` available
after compaction") means to prevent. Undo removes the snapshot from memory only, so it is back
after a resume; the snapshots kept by a local compaction are gone after one. A turn aborted
between memory and log may make a later rollback drop another turn after a resume. An aborted
task that outlives the 100 ms may put back a copy of its compaction or undo that has not the
marker of its abort: the model is then not told of the interruption, and `UserWordsKept` bounds
the loss to what came after the copy. A local compaction drops the oldest words of the user
beyond 20,000 tokens, as the test
`build_token_limited_compacted_history_truncates_overlong_user_messages` has it; a fork counts
without regard to compactions, so it then counts messages that the replay has no more. A
compaction that fails leaves its answer in memory but not in the rollout (the test
`reconstruct_history_matches_live_compactions` has only those that succeed).

*UnifiedExec.* A completed turn may terminate the processes of the next. `terminate_all` clears
the ids of calls that have yet to store; an id may then be given out twice, and the process that
is displaced is never terminated: `RunningIsFound` names this case as its only exception. A
dropped call has its begin reported and never its end. A refused patch keeps its id until the
turn ends.

*AppServerTurns.* Input that is given to a running turn is answered with a turn of its own,
which is started and never completed (against `app-server/README.md:432`). An interrupt
stops whichever turn is in force, not the one it names (`README.md:89`). One
that finds no turn stays pending until some later abort; one may be answered by an earlier turn's abort
before its own operation is submitted, which then ends the next turn.

## 7. What is abstracted, and what is not modelled

*In SessionTurns.* A write of the rollout is one step, in which the writer may die
(`RolloutRecorder` has its writes one by one). A process started by an exec call may enter the
store after `terminate_all`, as in the code. What compact, undo and user-shell tasks do while
they run is one step. The cancellation of MCP start-up is left out, as are operations that touch
no turn.

*In ToolCalls.* Call ids are unique, as providers make them. The build is a release
build, in which `error_or_panic` logs. A call asks its client at most once. Text,
reasoning and plan items are left out, as is the image fallback, token
accounting and auto-compaction; pending input is in `SessionTurns`. After the turn
is taken out, a sender has nowhere to go: that it could land in the state of a later
turn is left out. Other sessions do not switch this one's transport. Tools
return an output or a fatal error, and nothing is said of what they do.

*In ReadinessFlag.* The accesses to the atomic are sequentially consistent. They acquire and
release, and every read that matters is under the mutex or of the one atomic alone.

*In Agents.* There is a limit (without one the counter is only added to). Sending an operation
to an agent is one step. The limit of depth, waiting on agents and their status are left out.

*In RolloutRecorder.* A batch has one or two items. A flush that fails with nothing to write
(`recorder.rs:598`) is left out: every line is flushed as it is written. Two recorders on one
file, the state database and the file's name are left out.

*In SessionHistory.* The output of a single tool is not truncated and no image is replaced. The
task of a turn comes up when an aborted one that ran on is gone, and an aborted one does not
come past the call of the model that a compaction begins with: it stops at the next await that
waits. What is left of a message is of size 1, so a marker is kept whole or left out. The server
that compacts keeps the user's messages. Trimming a history that does not fit is left out: a
compaction works or fails.

*In UnifiedExec.* Output, its buffers and the time a call polls are left out: a poll ends at
any point. So are an unknown id, the retry after a denial by the sandbox, and the numbering of
ids in tests. A call's number stands for the time at which it used a process.

*In AppServerTurns.* The thread has one listener; with several they would compete for its
events. The session's loop is alive as long as the thread is found, so no submission fails. The status
a turn is reported with, approvals, detached reviews, and the limits of channels are left
out, as is every request that is answered at once without the session.

*Not modelled.* `PROJECT.json` lists every component with the reason. In short: stateless
parsing and classification (exec policy, configuration, patches), I/O in front of
external services (providers, auth, MCP, the database), operating-system sandboxes, the
terminal UI, and packaging: they are by far the most of the code, and have no state that
several actors share. The hazards that no property covers are listed there too, each with the reason.

## 8. Plan

Done: the turn lifecycle and its abstract slot, tool calls, the readiness flag, sub-agents,
the rollout recorder, the history, unified exec, and the app server over the slot; proofs of
every safety property, action property and refinement that the runs check.

1. The fork over a history that a server has compacted, and a rollback after a compaction:
   what a fork keeps there, beyond the premises of `ForkKeepsTurnsBefore`.
2. Delegated sessions: approvals forwarded to the parent's slot while either is cancelled.
3. The orchestrator of sandboxed attempts; the loop that trims a history while it compacts.
4. A composition of `SessionTurns` and `ToolCalls`, in which `TakeTurn`, `CancelToken` and
   `AbortTurn` are the loop's own steps.
