----------------------------- MODULE UnifiedExec -----------------------------
(***************************************************************************)
(* The interactive processes of a session (trill-rs/core/src/unified_exec):*)
(* exec_command reserves an id, starts a process, polls it for a while and *)
(* keeps it in a bounded store if it still runs; write_stdin polls a kept  *)
(* process again. A watcher reports the end of a kept process. Every end   *)
(* of a turn terminates what the store holds.                              *)
(*                                                                         *)
(* Neither tool may run in parallel, so a turn has one call at a time. Two *)
(* things overlap all the same: a call of an interrupted turn may go on to *)
(* its next await before it is dropped, and a turn that completes leaves   *)
(* the turn slot before it terminates the processes, so that the next turn *)
(* may already have its own.                                               *)
(*                                                                         *)
(* A process bears the number of the call that started it. Calls are       *)
(* numbered in the order they begin, which makes a call's number the time  *)
(* of its use of a process.                                                *)
(***************************************************************************)
EXTENDS Integers, FiniteSets

CONSTANTS
    Ids,        \* The process ids: 99000 numbers.
    NoId,       \* No id.
    MaxCalls,   \* Bound: calls of the two tools.
    MaxTurns,   \* Bound: turns that are started.
    Limit,      \* MAX_UNIFIED_EXEC_PROCESSES: 64.
    Protected   \* How many of the most recently used are never pruned: 8.

ASSUME IdsAssumption == IsFiniteSet(Ids) /\ NoId \notin Ids
ASSUME CallsAssumption == MaxCalls \in Nat
ASSUME LimitAssumption == Limit \in Nat /\ Protected \in Nat /\ Protected < Limit

Calls == 1..MaxCalls

VARIABLES
    processes,  \* The store: what is kept under each id; 0 for nothing.
    reserved,   \* The ids that are not given out.
    stage,      \* Of each call.
    id,         \* The id each exec_command was given.
    asked,      \* The id each write_stdin asks for.
    dropped,    \* The calls that were dropped before their end.
    child,      \* The process each call started.
    lastUsed,   \* The latest call that used the process.
    watched,    \* The processes whose exit watcher waits.
    ended,      \* How many ExecCommandEnd were sent for each.
    turn,       \* "idle", "running" or "stopping": interrupted.
    turns,      \* How many turns were started.
    closers,    \* Completed turns that have yet to terminate the processes.
    cleared     \* Calls whose reservation was cleared before they were over.

vars == <<processes, reserved, stage, id, asked, dropped, child, lastUsed,
          watched, ended, turn, turns, closers, cleared>>

callVars == <<stage, id, asked, dropped>>
childVars == <<child, lastUsed, watched, ended>>
turnVars == <<turn, turns, closers>>

Live(c) == stage[c] \notin {"fresh", "over"}

Kept == {i \in Ids : processes[i] # 0}

TypeOK ==
    /\ processes \in [Ids -> Calls \cup {0}]
    /\ reserved \subseteq Ids
    /\ stage \in [Calls -> {"fresh", "reserved", "collecting", "releasing",
                            "storing", "unwatched", "polling", "over"}]
    /\ id \in [Calls -> Ids \cup {NoId}]
    /\ asked \in [Calls -> Ids \cup {NoId}]
    /\ dropped \subseteq Calls
    /\ child \in [Calls -> {"none", "running", "exited", "killed"}]
    /\ lastUsed \in [Calls -> Calls \cup {0}]
    /\ watched \subseteq Calls
    /\ ended \in [Calls -> Nat]
    /\ turn \in {"idle", "running", "stopping"}
    /\ turns \in Nat
    /\ closers \in Nat
    /\ cleared \subseteq Calls

Init ==
    /\ processes = [i \in Ids |-> 0]
    /\ reserved = {}
    /\ stage = [c \in Calls |-> "fresh"]
    /\ id = [c \in Calls |-> NoId]
    /\ asked = [c \in Calls |-> NoId]
    /\ dropped = {}
    /\ child = [c \in Calls |-> "none"]
    /\ lastUsed = [c \in Calls |-> 0]
    /\ watched = {}
    /\ ended = [c \in Calls |-> 0]
    /\ turn = "idle"
    /\ turns = 0
    /\ closers = 0
    /\ cleared = {}

Goto(c, s) == stage' = [stage EXCEPT ![c] = s]

Kill(P) ==
    child' = [p \in Calls |-> IF p \in P /\ child[p] = "running"
                             THEN "killed" ELSE child[p]]

\* What ProcessStore::remove does: the id becomes free with its entry.
Remove(i) ==
    /\ processes' = [processes EXCEPT ![i] = 0]
    /\ reserved' = reserved \ {i}

ReportEnd(c) == ended' = [ended EXCEPT ![c] = @ + 1]

-----------------------------------------------------------------------------
(* exec_command. *)

\* A turn's next call begins when the one before it is over. A dying call of
\* an interrupted turn holds nobody up.
Begins(c) ==
    /\ turn = "running"
    /\ stage[c] = "fresh"
    /\ \A d \in Calls : d < c => stage[d] # "fresh"
    /\ \A d \in Calls : ~Live(d) \/ d \in dropped

Allocate(c, i) ==
    /\ Begins(c)
    /\ i \in Ids \ reserved
    /\ reserved' = reserved \cup {i}
    /\ id' = [id EXCEPT ![c] = i]
    /\ Goto(c, "reserved")
    /\ UNCHANGED <<processes, asked, dropped, childVars, turnVars, cleared>>

\* Escalation is refused, the command is a patch, or the process cannot be
\* opened. A patch that fails leaves the id reserved.
Refuse(c) ==
    /\ stage[c] = "reserved"
    /\ Goto(c, "over")
    /\ Remove(id[c]) \/ UNCHANGED <<processes, reserved>>
    /\ UNCHANGED <<id, asked, dropped, childVars, turnVars, cleared>>

Open(c) ==
    /\ stage[c] = "reserved"
    /\ c \notin dropped
    /\ child' = [child EXCEPT ![c] = "running"]
    /\ lastUsed' = [lastUsed EXCEPT ![c] = c]
    /\ Goto(c, "collecting")
    /\ UNCHANGED <<processes, reserved, id, asked, dropped, watched, ended,
                   turnVars, cleared>>

\* The deadline has come, or the process has exited.
CollectedExited_FallsThrough(c) ==
    /\ stage[c] = "collecting"
    /\ child[c] = "exited"
    /\ ReportEnd(c)
    /\ Goto(c, "storing")
    /\ UNCHANGED <<processes, reserved, id, asked, dropped, child, lastUsed,
                   watched, turnVars, cleared>>

CollectedExited(c) ==
    /\ stage[c] = "collecting"
    /\ child[c] = "exited"
    /\ ReportEnd(c)
    /\ Goto(c, "releasing")
    /\ UNCHANGED <<processes, reserved, id, asked, dropped, child, lastUsed,
                   watched, turnVars, cleared>>

CollectedRunning(c) ==
    /\ stage[c] = "collecting"
    /\ child[c] = "running"
    /\ Goto(c, "storing")
    /\ UNCHANGED <<processes, reserved, id, asked, dropped, childVars, turnVars,
                   cleared>>

Release(c) ==
    /\ stage[c] = "releasing"
    /\ Remove(id[c])
    /\ Goto(c, "over")
    /\ UNCHANGED <<id, asked, dropped, childVars, turnVars, cleared>>

-----------------------------------------------------------------------------
(* Pruning. *)

UsedAfter_Reversed(i) ==
    {j \in Kept : lastUsed[processes[j]] < lastUsed[processes[i]]}

UsedAfter(i) ==
    {j \in Kept : lastUsed[processes[j]] > lastUsed[processes[i]]}

Prunable == {i \in Kept : Cardinality(UsedAfter(i)) >= Protected}

\* The least recently used one that has exited, else the least recently used.
ToPrune ==
    LET exited == {i \in Prunable : child[processes[i]] = "exited"}
        from == IF exited # {} THEN exited ELSE Prunable
    IN {i \in from :
          \A j \in from : lastUsed[processes[i]] <= lastUsed[processes[j]]}

MustPrune_Late == Cardinality(Kept) > Limit

MustPrune == Cardinality(Kept) >= Limit

\* The processes that insert drops from under the id: nobody terminates what
\* has a watcher.
Replaced(c) == {processes[id[c]]} \ (watched \cup {0})

\* store_process: prune and insert, in one critical section. The id is not
\* reserved again.
Store(c) ==
    /\ stage[c] = "storing"
    /\ IF MustPrune /\ ToPrune # {}
       THEN \E i \in ToPrune :
              /\ reserved' = reserved \ {i}
              /\ processes' = [processes EXCEPT ![i] = 0, ![id[c]] = c]
              /\ Kill({processes[i]} \cup Replaced(c))
       ELSE /\ processes' = [processes EXCEPT ![id[c]] = c]
            /\ reserved' = reserved
            /\ Kill(Replaced(c))
    /\ Goto(c, "unwatched")
    /\ UNCHANGED <<id, asked, dropped, lastUsed, watched, ended, turnVars, cleared>>

Watch_OnlyRunning(c) ==
    /\ stage[c] = "unwatched"
    /\ watched' = IF child[c] = "running" THEN watched \cup {c} ELSE watched
    /\ Goto(c, "over")
    /\ UNCHANGED <<processes, reserved, id, asked, dropped, child, lastUsed,
                   ended, turnVars, cleared>>

Watch(c) ==
    /\ stage[c] = "unwatched"
    /\ watched' = watched \cup {c}
    /\ Goto(c, "over")
    /\ UNCHANGED <<processes, reserved, id, asked, dropped, child, lastUsed,
                   ended, turnVars, cleared>>

-----------------------------------------------------------------------------
(* write_stdin. *)

\* prepare_process_handles. Input for a process without a terminal ends the
\* call here.
Poll(c, i) ==
    /\ Begins(c)
    /\ processes[i] # 0
    /\ lastUsed' = [lastUsed EXCEPT ![processes[i]] = c]
    /\ asked' = [asked EXCEPT ![c] = i]
    /\ Goto(c, "polling") \/ Goto(c, "over")
    /\ UNCHANGED <<processes, reserved, id, dropped, child, watched, ended,
                   turnVars, cleared>>

\* refresh_process_state: an exited process leaves the store.
Refresh(c) ==
    /\ stage[c] = "polling"
    /\ LET p == processes[asked[c]] IN
         IF p # 0 /\ child[p] = "exited"
         THEN Remove(asked[c])
         ELSE UNCHANGED <<processes, reserved>>
    /\ Goto(c, "over")
    /\ UNCHANGED <<id, asked, dropped, childVars, turnVars, cleared>>

-----------------------------------------------------------------------------
(* The processes and their watchers. *)

Exit(c) ==
    /\ child[c] = "running"
    /\ child' = [child EXCEPT ![c] = "exited"]
    /\ UNCHANGED <<processes, reserved, callVars, lastUsed, watched, ended,
                   turnVars, cleared>>

\* The exit token is cancelled by the exit and by terminate alike.
ReportExit(c) ==
    /\ c \in watched
    /\ child[c] # "running"
    /\ watched' = watched \ {c}
    /\ ReportEnd(c)
    /\ UNCHANGED <<processes, reserved, callVars, child, lastUsed, turnVars,
                   cleared>>

-----------------------------------------------------------------------------
(* Turns. *)

TerminateAll_OnlyDrains ==
    /\ processes' = [i \in Ids |-> 0]
    /\ reserved' = {}
    /\ child' = child
    /\ cleared' = cleared \cup {c \in Calls : id[c] \in reserved /\ Live(c)}

\* terminate_all_processes.
TerminateAll ==
    /\ processes' = [i \in Ids |-> 0]
    /\ reserved' = {}
    /\ Kill({processes[i] : i \in Kept})
    /\ cleared' = cleared \cup {c \in Calls : id[c] \in reserved /\ Live(c)}

\* spawn_task, which runs abort_all_tasks first.
StartTurn ==
    /\ turn = "idle"
    /\ turns < MaxTurns
    /\ TerminateAll
    /\ turn' = "running"
    /\ turns' = turns + 1
    /\ UNCHANGED <<callVars, lastUsed, watched, ended, closers>>

\* on_task_finished: the slot is free before the processes are terminated.
FinishTurn ==
    /\ turn = "running"
    /\ \A c \in Calls : ~Live(c) \/ c \in dropped
    /\ turn' = "idle"
    /\ closers' = closers + 1
    /\ UNCHANGED <<processes, reserved, callVars, childVars, turns, cleared>>

CloseFinished ==
    /\ closers > 0
    /\ TerminateAll
    /\ closers' = closers - 1
    /\ UNCHANGED <<callVars, lastUsed, watched, ended, turn, turns>>

\* handle_task_abort cancels the turn and drops its calls, and
\* abort_all_tasks then terminates the processes.
Interrupt ==
    /\ turn = "running"
    /\ turn' = "stopping"
    /\ dropped' = dropped \cup {c \in Calls : Live(c)}
    /\ UNCHANGED <<processes, reserved, stage, id, asked, childVars, turns, closers,
                   cleared>>

CloseInterrupted ==
    /\ turn = "stopping"
    /\ TerminateAll
    /\ turn' = "idle"
    /\ UNCHANGED <<callVars, lastUsed, watched, ended, turns, closers>>

\* A call is dropped at an await: its process goes with it unless it is kept.
Drop(c) ==
    /\ c \in dropped
    /\ Live(c)
    /\ Kill({c} \ {processes[i] : i \in Kept})
    /\ Goto(c, "over")
    /\ UNCHANGED <<processes, reserved, id, asked, dropped, lastUsed, watched,
                   ended, turnVars, cleared>>

-----------------------------------------------------------------------------
CallStep(c) ==
    \/ Refuse(c) \/ Open(c) \/ CollectedExited(c) \/ CollectedRunning(c)
    \/ Release(c) \/ Store(c) \/ Watch(c) \/ Refresh(c) \/ Drop(c)

Next ==
    \/ \E c \in Calls, i \in Ids : Allocate(c, i) \/ Poll(c, i)
    \/ \E c \in Calls : CallStep(c) \/ Exit(c) \/ ReportExit(c)
    \/ StartTurn \/ FinishTurn \/ CloseFinished \/ Interrupt \/ CloseInterrupted

Spec == Init /\ [][Next]_vars

-----------------------------------------------------------------------------
(* Properties. *)

\* The store never holds more than MAX_UNIFIED_EXEC_PROCESSES
\* (prune_processes_if_needed before every insert).
WithinLimit == Cardinality(Kept) <= Limit

\* The end of a command is reported once, by the call or by the watcher, and
\* only when the process is dead (exec_command, spawn_exit_watcher).
EndedOnce ==
    \A c \in Calls : ended[c] > 0 => ended[c] = 1 /\ child[c] \notin {"none", "running"}

\* A running process is in the hands of its call or in the store, where the
\* end of the turn finds it. Only an id that was given out again while its
\* reservation was cleared under a call can lose one
\* (terminate_all_processes clears the ids of calls that have yet to store).
RunningIsFound ==
    \A p \in Calls :
        child[p] = "running" =>
            \/ stage[p] \in {"collecting", "storing"}
            \/ processes[id[p]] = p
            \/ \E q \in Calls \ {p} : id[q] = id[p] /\ {p, q} \cap cleared # {}

\* Pruning kills no running process that is among the most recently used, and
\* none at all while an exited one can go (process_id_to_prune_from_meta).
PrunedIsOld ==
    [][\A c, p \in Calls :
         /\ stage[c] = "storing" /\ stage'[c] = "unwatched"
         /\ child[p] = "running" /\ child'[p] = "killed"
         => \/ processes[id[c]] = p
            \/ LET After(x) == {i \in Kept : lastUsed[processes[i]] > lastUsed[x]}
               IN /\ Cardinality(After(p)) >= Protected
                  /\ \A i \in Kept :
                        Cardinality(After(processes[i])) >= Protected
                            => child[processes[i]] = "running"]_vars

\* The end of a dead process is never forgotten, so that the client's item
\* does not stay open: it was reported, or the call or a watcher is about to,
\* unless the call was dropped (exec_command, spawn_exit_watcher).
EndIsComing ==
    \A c \in Calls :
        child[c] \in {"exited", "killed"} /\ c \notin dropped =>
            ended[c] > 0 \/ c \in watched \/ Live(c)
=============================================================================
