------------------------- MODULE SessionTurnsProofs -------------------------
(***************************************************************************)
(* Proofs, for any number of submissions, that turns exclude each other.   *)
(*                                                                         *)
(* AtMostOneWorking is not inductive: it does not say where the one turn   *)
(* in force is to be found.  The invariant Inv does: it is the turn in     *)
(* active_turn, or the one the loop is about to register there, or the one *)
(* it has just taken out (InForce); while the loop is between taking a     *)
(* turn out and registering the next, active_turn stays empty (SlotFree);  *)
(* and a turn whose token is cancelled has had its handle aborted by the   *)
(* time the loop goes on (CancelledIsDoomed).                              *)
(***************************************************************************)
EXTENDS SessionTurns, TLAPS

\* Where the loop is while it holds active_turn empty.
SlotFreePCs == {"cancel", "grace", "hook", "mark", "flush", "aborted", "close",
                "spawn", "register", "terminate", "stop", "stopped", "exited"}
VictimPCs == {"cancel", "grace", "hook", "mark", "flush", "aborted"}

SlotFree == lpc \in SlotFreePCs => active = NoTurn

InForce ==
    \A t \in Subs :
        Working(t) /\ t \notin cancelled =>
            \/ active = t
            \/ lpc = "register" /\ t = Spawning
            \/ lpc = "cancel" /\ t = victim

CancelledIsDoomed ==
    \A t \in Subs :
        Working(t) /\ t \in cancelled => t \in doomed \/ (lpc = "grace" /\ t = victim)

\* A turn that is active, aborted or cancelled was started; the next one was not.
Started ==
    /\ \A t \in Subs : t = active \/ t = victim \/ t \in cancelled => task[t] # "none"
    /\ \A t \in Subs : nextSub <= t => task[t] = "none"
    /\ lpc = "register" => task[Spawning] # "none"

\* The operation in hand: a spawn holds an id of its own, and has not started it yet.
InHand ==
    /\ lpc \in {"spawn", "register"} => op = "spawn"
    /\ lpc = "announce" => nextSub > 1
    /\ op = "spawn" => nextSub > 1
    /\ op = "spawn" /\ lpc # "register" => task[Spawning] = "none"
    /\ lpc \in {"recv", "announce"} => op = "none"
    /\ lpc \in VictimPCs => victim # NoTurn

Inv == TypeOK /\ SlotFree /\ InForce /\ CancelledIsDoomed /\ Started /\ InHand

----------------------------------------------------------------------------
(* Init, and the types.                                                    *)

\* A session starts with no turn, so the invariant holds.
LEMMA InitInv == Init => Inv
  BY MaxSubsAssumption, MaxRoundsAssumption
  DEF Init, Inv, TypeOK, SlotFree, InForce, CancelledIsDoomed, Started, InHand, Subs,
      NoTurn, AllKinds, LoopPCs, TaskPCs, Event, SlotFreePCs, VictimPCs, Working, Alive

\* Sending an event of a known type keeps the log well typed.
LEMMA SendType ==
  ASSUME events \in Seq(Event), NEW type \in EventTypes, NEW t \in Subs \cup {NoTurn},
         Send(type, t)
  PROVE  events' \in Seq(Event)
  BY DEF Send, Event

\* What a step of a turn's task does to the state the loop relies on: it moves that
\* task alone, never from idle to working, and frees the slot only of its own turn.
RunEffect(t) ==
    /\ \E pc \in TaskPCs \ {"none"} :
          /\ task' = [task EXCEPT ![t] = pc]
          /\ pc \notin {"done", "dropped", "close", "emit"} => Working(t)
          /\ active' # active => active = t /\ active' = NoTurn /\ pc = "close"
    /\ task[t] # "none"
    /\ doomed \subseteq doomed'
    /\ UNCHANGED <<lpc, op, victim, nextSub, cancelled>>

\* Every step of spawn_task's future has the effect RunEffect.
LEMMA RunHasEffect ==
  ASSUME TypeOK, NEW t \in Subs, Run(t)
  PROVE  RunEffect(t)
  <1>1. CASE StartTask(t)
    BY <1>1 DEF StartTask, RunEffect, TypeOK, TaskPCs, Working, Alive, Go, loopVars,
        turnVars, taskVars, abortVars, RemoveTask
  <1>2. CASE RecordInput(t)
    BY <1>2 DEF RecordInput, RunEffect, TypeOK, TaskPCs, Working, Alive, Go, loopVars,
        turnVars, taskVars, abortVars, RemoveTask
  <1>3. CASE TakePendingInput(t)
    BY <1>3 DEF TakePendingInput, RunEffect, TypeOK, TaskPCs, Working, Alive, Go, loopVars,
        turnVars, taskVars, abortVars, RemoveTask
  <1>4. CASE CallTool(t)
    BY <1>4 DEF CallTool, RunEffect, TypeOK, TaskPCs, Working, Alive, Go, loopVars,
        turnVars, taskVars, abortVars, RemoveTask
  <1>5. CASE CompleteRequest(t)
    BY <1>5 DEF CompleteRequest, RunEffect, TypeOK, TaskPCs, Working, Alive, Go, loopVars,
        turnVars, taskVars, abortVars, RemoveTask
  <1>6. CASE FailRequest(t)
    BY <1>6 DEF FailRequest, RunEffect, TypeOK, TaskPCs, Working, Alive, Go, loopVars,
        turnVars, taskVars, abortVars, RemoveTask
  <1>7. CASE AbortRequest(t)
    BY <1>7 DEF AbortRequest, RunEffect, TypeOK, TaskPCs, Working, Alive, Go, loopVars,
        turnVars, taskVars, abortVars, RemoveTask
  <1>8. CASE EndWork(t)
    BY <1>8 DEF EndWork, RunEffect, TypeOK, TaskPCs, Working, Alive, Go, loopVars, turnVars,
        taskVars, abortVars, RemoveTask
  <1>9. CASE ExitReview(t)
    BY <1>9 DEF ExitReview, RunEffect, TypeOK, TaskPCs, Working, Alive, Go, loopVars,
        turnVars, taskVars, abortVars, RemoveTask
  <1>10. CASE FlushRollout(t)
    BY <1>10 DEF FlushRollout, RunEffect, TypeOK, TaskPCs, Working, Alive, Go, loopVars,
        turnVars, taskVars, abortVars, RemoveTask
  <1>11. CASE CheckCancelled(t)
    BY <1>11 DEF CheckCancelled, RunEffect, TypeOK, TaskPCs, Working, Alive, Go, loopVars,
        turnVars, taskVars, abortVars, RemoveTask
  <1>12. CASE FinishTurn(t)
    BY <1>12 DEF FinishTurn, RunEffect, TypeOK, TaskPCs, Working, Alive, Go, loopVars,
        turnVars, taskVars, abortVars, RemoveTask
  <1>13. CASE CloseOnFinish(t)
    BY <1>13 DEF CloseOnFinish, RunEffect, TypeOK, TaskPCs, Working, Alive, Go, loopVars,
        turnVars, taskVars, abortVars, RemoveTask
  <1>14. CASE EmitComplete(t)
    BY <1>14 DEF EmitComplete, RunEffect, TypeOK, TaskPCs, Working, Alive, Go, loopVars,
        turnVars, taskVars, abortVars, RemoveTask
  <1>15. CASE DropTask(t)
    BY <1>15 DEF DropTask, RunEffect, TypeOK, TaskPCs, Working, Alive, Go, loopVars,
        turnVars, taskVars, abortVars, RemoveTask
  <1> QED
    BY <1>1, <1>2, <1>3, <1>4, <1>5, <1>6, <1>7, <1>8, <1>9, <1>10, <1>11, <1>12, <1>13,
       <1>14, <1>15
    DEF Run

\* The variables a step of a task leaves well typed.
LEMMA RunType ==
  ASSUME TypeOK, NEW t \in Subs, Run(t)
  PROVE  TypeOK'
  <1>1. CASE StartTask(t)
    BY <1>1, SendType
    DEF StartTask, TypeOK, TaskPCs, Go, loopVars, turnVars, taskVars, abortVars, execVars,
        rolloutVars, EventTypes
  <1>2. CASE RecordInput(t)
    BY <1>2
    DEF RecordInput, TypeOK, TaskPCs, Go, loopVars, turnVars, taskVars, abortVars, execVars,
        rolloutVars
  <1>3. CASE TakePendingInput(t)
    BY <1>3
    DEF TakePendingInput, TypeOK, TaskPCs, Go, loopVars, turnVars, taskVars, abortVars,
        execVars, rolloutVars
  <1>4. CASE CallTool(t)
    BY <1>4, MaxRoundsAssumption
    DEF CallTool, TypeOK, TaskPCs, Go, loopVars, turnVars, taskVars, abortVars, execVars,
        rolloutVars
  <1>5. CASE CompleteRequest(t)
    BY <1>5
    DEF CompleteRequest, TypeOK, TaskPCs, Go, loopVars, turnVars, taskVars, abortVars,
        execVars, rolloutVars
  <1>6. CASE FailRequest(t)
    BY <1>6, SendType
    DEF FailRequest, TypeOK, TaskPCs, Go, loopVars, turnVars, taskVars, abortVars, execVars,
        rolloutVars, EventTypes
  <1>7. CASE AbortRequest(t)
    BY <1>7
    DEF AbortRequest, TypeOK, TaskPCs, Go, loopVars, turnVars, taskVars, abortVars,
        execVars, rolloutVars
  <1>8. CASE EndWork(t)
    BY <1>8
    DEF EndWork, TypeOK, TaskPCs, Go, loopVars, turnVars, taskVars, abortVars, execVars,
        rolloutVars
  <1>9. CASE ExitReview(t)
    BY <1>9, SendType
    DEF ExitReview, TypeOK, TaskPCs, Go, loopVars, turnVars, taskVars, abortVars, execVars,
        rolloutVars, EventTypes
  <1>10. CASE FlushRollout(t)
    BY <1>10
    DEF FlushRollout, TypeOK, TaskPCs, Go, loopVars, turnVars, taskVars, abortVars,
        execVars, rolloutVars
  <1>11. CASE CheckCancelled(t)
    BY <1>11
    DEF CheckCancelled, TypeOK, TaskPCs, Go, loopVars, turnVars, taskVars, abortVars,
        execVars, rolloutVars
  <1>12. CASE FinishTurn(t)
    BY <1>12
    DEF FinishTurn, TypeOK, TaskPCs, Go, loopVars, turnVars, taskVars, abortVars, execVars,
        rolloutVars
  <1>13. CASE CloseOnFinish(t)
    BY <1>13
    DEF CloseOnFinish, TypeOK, TaskPCs, Go, loopVars, turnVars, taskVars, abortVars,
        execVars, rolloutVars
  <1>14. CASE EmitComplete(t)
    BY <1>14, SendType
    DEF EmitComplete, TypeOK, TaskPCs, Go, loopVars, turnVars, taskVars, abortVars,
        execVars, rolloutVars, EventTypes
  <1>15. CASE DropTask(t)
    BY <1>15
    DEF DropTask, TypeOK, TaskPCs, Go, loopVars, turnVars, taskVars, abortVars, execVars,
        rolloutVars
  <1> QED
    BY <1>1, <1>2, <1>3, <1>4, <1>5, <1>6, <1>7, <1>8, <1>9, <1>10, <1>11, <1>12, <1>13,
       <1>14, <1>15
    DEF Run

----------------------------------------------------------------------------
(* The steps of a task.                                                    *)

\* No step of a turn's task, on_task_finished included, breaks the invariant.
LEMMA RunInv ==
  ASSUME Inv, NEW t \in Subs, Run(t)
  PROVE  Inv'
  <1>1. TypeOK'
    BY RunType DEF Inv
  <1>2. PICK pc \in TaskPCs \ {"none"} :
          /\ task' = [task EXCEPT ![t] = pc]
          /\ pc \notin {"done", "dropped", "close", "emit"} => Working(t)
          /\ active' # active => active = t /\ active' = NoTurn /\ pc = "close"
    BY RunHasEffect DEF Inv, RunEffect
  <1>3. /\ task[t] # "none"
        /\ doomed \subseteq doomed'
        /\ UNCHANGED <<lpc, op, victim, nextSub, cancelled>>
    BY RunHasEffect DEF Inv, RunEffect
  <1>4. \A u \in Subs : /\ Working(u)' => Working(u)
                        /\ task[u] = "none" <=> task'[u] = "none"
    BY <1>2, <1>3 DEF Inv, TypeOK, Working, Alive
  <1>5. \A u \in Subs : Working(u)' /\ active = u => active' = u
    BY <1>2, <1>3 DEF Inv, TypeOK, Working, Alive
  <1>6. SlotFree'
    BY <1>2, <1>3 DEF Inv, SlotFree
  <1>7. InForce'
    BY <1>3, <1>4, <1>5 DEF Inv, InForce, Spawning
  <1>8. CancelledIsDoomed'
    BY <1>3, <1>4 DEF Inv, CancelledIsDoomed
  <1>9. Started'
    BY <1>2, <1>3, <1>4 DEF Inv, Started, Spawning, Subs, NoTurn, TypeOK
  <1>10. InHand'
    BY <1>2, <1>3, <1>4 DEF Inv, InHand, Spawning, Subs, TypeOK
  <1> QED BY <1>1, <1>6, <1>7, <1>8, <1>9, <1>10 DEF Inv

----------------------------------------------------------------------------
(* The steps of the loop.                                                  *)

\* AbortHandle: the turn is no longer at work, or is marked to be dropped.
LEMMA AbortHandleEffect ==
  ASSUME TypeOK, NEW t \in Subs, AbortHandle(t)
  PROVE  /\ task' \in [Subs -> TaskPCs]
         /\ doomed' \in SUBSET Subs
         /\ doomed \subseteq doomed'
         /\ \A u \in Subs : /\ Working(u)' => Working(u)
                            /\ task[u] = "none" <=> task'[u] = "none"
         /\ Working(t)' => t \in doomed'
  BY DEF TypeOK, AbortHandle, Working, Alive, Go, TaskPCs

\* The submission loop keeps every variable in its type.
LEMMA HandleType ==
  ASSUME Inv, Receive \/ Handle
  PROVE  TypeOK'
  <1>1. CASE RecvUserInput
    <2>1. nextSub \in Subs /\ nextSub' \in 1 .. MaxSubs + 1
      BY <1>1, MaxSubsAssumption DEF RecvUserInput, Inv, TypeOK, Subs
    <2>2. CASE active # NoTurn
      BY <1>1, <2>1, <2>2
      DEF RecvUserInput, Inv, TypeOK, abortVars, execVars, rolloutVars
    <2>3. CASE active = NoTurn
      <3>1. PICK k \in AllKinds : StartSpawn(k)
        BY <1>1, <2>3, KindsAssumption DEF RecvUserInput
      <3> QED
        BY <1>1, <2>1, <2>3, <3>1
        DEF RecvUserInput, Inv, TypeOK, LoopPCs, StartSpawn, abortVars, execVars, rolloutVars
    <2> QED BY <2>2, <2>3
  <1>2. CASE RecvSpawn
    BY <1>2, MaxSubsAssumption, KindsAssumption
    DEF RecvSpawn, Inv, TypeOK, LoopPCs, loopVars, turnVars, taskVars, abortVars, execVars,
        rolloutVars, StartSpawn, Subs, AllKinds
  <1>3. CASE RecvInterrupt
    BY <1>3
    DEF RecvInterrupt, Inv, TypeOK, LoopPCs, loopVars, turnVars, taskVars, abortVars,
        execVars, rolloutVars
  <1>4. CASE RecvShutdown
    BY <1>4
    DEF RecvShutdown, Inv, TypeOK, LoopPCs, loopVars, turnVars, taskVars, abortVars,
        execVars, rolloutVars
  <1>5. CASE TakeActive
    BY <1>5
    DEF TakeActive, Inv, TypeOK, LoopPCs, loopVars, turnVars, taskVars, abortVars, execVars,
        rolloutVars
  <1>6. CASE CancelToken
    BY <1>6
    DEF CancelToken, Inv, InHand, VictimPCs, TypeOK, LoopPCs, loopVars, turnVars, taskVars,
        abortVars, execVars, rolloutVars
  <1>7. CASE GraceEnds
    BY <1>7, AbortHandleEffect
    DEF GraceEnds, Inv, TypeOK, LoopPCs, loopVars, turnVars, taskVars, abortVars, execVars,
        rolloutVars, InHand, VictimPCs
  <1>8. CASE AbortHook
    BY <1>8, SendType
    DEF AbortHook, Inv, TypeOK, LoopPCs, loopVars, turnVars, taskVars, abortVars, execVars,
        rolloutVars, EventTypes, InHand, VictimPCs, AfterHook
  <1>9. CASE RecordMarker
    BY <1>9
    DEF RecordMarker, Inv, TypeOK, LoopPCs, loopVars, turnVars, taskVars, abortVars,
        execVars, rolloutVars
  <1>10. CASE FlushMarker
    BY <1>10
    DEF FlushMarker, Inv, TypeOK, LoopPCs, loopVars, turnVars, taskVars, abortVars,
        execVars, rolloutVars
  <1>11. CASE EmitAborted
    BY <1>11, SendType
    DEF EmitAborted, Inv, TypeOK, LoopPCs, loopVars, turnVars, taskVars, abortVars,
        execVars, rolloutVars, EventTypes, InHand, VictimPCs
  <1>12. CASE CloseProcesses
    BY <1>12
    DEF CloseProcesses, Inv, TypeOK, LoopPCs, loopVars, turnVars, taskVars, abortVars,
        execVars, rolloutVars, AfterAbort
  <1>13. CASE SpawnTask
    BY <1>13
    DEF SpawnTask, Inv, TypeOK, LoopPCs, loopVars, turnVars, taskVars, abortVars, execVars,
        rolloutVars, Go, TaskPCs
  <1>14. CASE RegisterTask
    BY <1>14, MaxSubsAssumption
    DEF RegisterTask, Inv, TypeOK, LoopPCs, loopVars, turnVars, taskVars, abortVars,
        execVars, rolloutVars, InHand, Spawning, Subs
  <1>15. CASE AnnounceReview
    <2>1. Spawning \in Subs
      BY <1>15, MaxSubsAssumption DEF AnnounceReview, Inv, TypeOK, InHand, Spawning, Subs
    <2>2. events' \in Seq(Event)
      BY <1>15, <2>1, SendType DEF AnnounceReview, Inv, TypeOK, EventTypes
    <2> QED
      BY <1>15, <2>2
      DEF AnnounceReview, Inv, TypeOK, LoopPCs, turnVars, taskVars, abortVars, execVars,
          rolloutVars
  <1>16. CASE TerminateProcesses
    <2>1. /\ lpc' = "stop" /\ procs' = {} /\ tools' = tools
          /\ UNCHANGED <<op, victim, nextSub, events>>
      BY <1>16 DEF TerminateProcesses
    <2>2. UNCHANGED <<turnVars, taskVars, abortVars, rolloutVars>>
      BY <1>16 DEF TerminateProcesses
    <2>3. TypeOK
      BY DEF Inv
    <2> HIDE <1>16
    <2> QED
      BY <2>1, <2>2, <2>3
      DEF TypeOK, LoopPCs, turnVars, taskVars, abortVars, rolloutVars
  <1>17. CASE StopSession
    BY <1>17, SendType
    DEF StopSession, Inv, TypeOK, LoopPCs, loopVars, turnVars, taskVars, abortVars,
        execVars, rolloutVars, EventTypes
  <1>18. CASE StopRecorder
    BY <1>18, SendType
    DEF StopRecorder, Inv, TypeOK, LoopPCs, loopVars, turnVars, taskVars, abortVars,
        execVars, rolloutVars, EventTypes
  <1> QED
    BY <1>1, <1>2, <1>3, <1>4, <1>5, <1>6, <1>7, <1>8, <1>9, <1>10, <1>11, <1>12, <1>13,
       <1>14, <1>15, <1>16, <1>17, <1>18
    DEF Receive, Handle

\* No handler of the submission loop breaks the rest of the invariant.
LEMMA HandleControl ==
  ASSUME Inv, Receive \/ Handle
  PROVE  SlotFree' /\ InForce' /\ CancelledIsDoomed' /\ Started' /\ InHand'
  <1>1. CASE RecvUserInput
    BY <1>1, MaxSubsAssumption
    DEF RecvUserInput, Inv, TypeOK, SlotFree, InForce, CancelledIsDoomed, Started, InHand,
        SlotFreePCs, VictimPCs, Working, Alive, Spawning, Subs, NoTurn, StartSpawn,
        loopVars, turnVars, taskVars, abortVars, AfterHook, AfterAbort, AbortHandle, Go
  <1>2. CASE RecvSpawn
    BY <1>2, MaxSubsAssumption
    DEF RecvSpawn, Inv, TypeOK, SlotFree, InForce, CancelledIsDoomed, Started, InHand,
        SlotFreePCs, VictimPCs, Working, Alive, Spawning, Subs, NoTurn, StartSpawn,
        loopVars, turnVars, taskVars, abortVars, AfterHook, AfterAbort, AbortHandle, Go
  <1>3. CASE RecvInterrupt
    BY <1>3, MaxSubsAssumption
    DEF RecvInterrupt, Inv, TypeOK, SlotFree, InForce, CancelledIsDoomed, Started, InHand,
        SlotFreePCs, VictimPCs, Working, Alive, Spawning, Subs, NoTurn, StartSpawn,
        loopVars, turnVars, taskVars, abortVars, AfterHook, AfterAbort, AbortHandle, Go
  <1>4. CASE RecvShutdown
    BY <1>4, MaxSubsAssumption
    DEF RecvShutdown, Inv, TypeOK, SlotFree, InForce, CancelledIsDoomed, Started, InHand,
        SlotFreePCs, VictimPCs, Working, Alive, Spawning, Subs, NoTurn, StartSpawn,
        loopVars, turnVars, taskVars, abortVars, AfterHook, AfterAbort, AbortHandle, Go
  <1>5. CASE TakeActive
    BY <1>5, MaxSubsAssumption
    DEF TakeActive, Inv, TypeOK, SlotFree, InForce, CancelledIsDoomed, Started, InHand,
        SlotFreePCs, VictimPCs, Working, Alive, Spawning, Subs, NoTurn, StartSpawn,
        loopVars, turnVars, taskVars, abortVars, AfterHook, AfterAbort, AbortHandle, Go
  <1>6. CASE CancelToken
    BY <1>6, MaxSubsAssumption
    DEF CancelToken, Inv, TypeOK, SlotFree, InForce, CancelledIsDoomed, Started, InHand,
        SlotFreePCs, VictimPCs, Working, Alive, Spawning, Subs, NoTurn, StartSpawn,
        loopVars, turnVars, taskVars, abortVars, AfterHook, AfterAbort, AbortHandle, Go
  <1>7. CASE GraceEnds
    <2>1. /\ victim \in Subs /\ lpc = "grace" /\ lpc' = "hook"
          /\ UNCHANGED <<op, victim, nextSub, active, cancelled>>
      BY <1>7 DEF GraceEnds, Inv, TypeOK, InHand, VictimPCs, turnVars
    <2>2. /\ doomed \subseteq doomed'
          /\ \A u \in Subs : /\ Working(u)' => Working(u)
                             /\ task[u] = "none" <=> task'[u] = "none"
          /\ Working(victim)' => victim \in doomed'
      BY <1>7, <2>1, AbortHandleEffect DEF GraceEnds, Inv
    <2>3. SlotFree' /\ InForce' /\ CancelledIsDoomed'
      BY <2>1, <2>2 DEF Inv, SlotFree, SlotFreePCs, InForce, CancelledIsDoomed
    <2>4. Started'
      BY <2>1, <2>2 DEF Inv, TypeOK, Started, Spawning, Subs
    <2>5. op = "spawn" => Spawning \in Subs
      BY MaxSubsAssumption DEF Inv, TypeOK, InHand, Spawning, Subs
    <2>6. InHand'
      BY <2>1, <2>2, <2>5 DEF Inv, InHand, VictimPCs, Spawning
    <2> QED BY <2>3, <2>4, <2>6
  <1>8. CASE AbortHook
    BY <1>8, MaxSubsAssumption
    DEF AbortHook, Inv, TypeOK, SlotFree, InForce, CancelledIsDoomed, Started, InHand,
        SlotFreePCs, VictimPCs, Working, Alive, Spawning, Subs, NoTurn, StartSpawn,
        loopVars, turnVars, taskVars, abortVars, AfterHook, AfterAbort, AbortHandle, Go
  <1>9. CASE RecordMarker
    BY <1>9, MaxSubsAssumption
    DEF RecordMarker, Inv, TypeOK, SlotFree, InForce, CancelledIsDoomed, Started, InHand,
        SlotFreePCs, VictimPCs, Working, Alive, Spawning, Subs, NoTurn, StartSpawn,
        loopVars, turnVars, taskVars, abortVars, AfterHook, AfterAbort, AbortHandle, Go
  <1>10. CASE FlushMarker
    BY <1>10, MaxSubsAssumption
    DEF FlushMarker, Inv, TypeOK, SlotFree, InForce, CancelledIsDoomed, Started, InHand,
        SlotFreePCs, VictimPCs, Working, Alive, Spawning, Subs, NoTurn, StartSpawn,
        loopVars, turnVars, taskVars, abortVars, AfterHook, AfterAbort, AbortHandle, Go
  <1>11. CASE EmitAborted
    BY <1>11, MaxSubsAssumption
    DEF EmitAborted, Inv, TypeOK, SlotFree, InForce, CancelledIsDoomed, Started, InHand,
        SlotFreePCs, VictimPCs, Working, Alive, Spawning, Subs, NoTurn, StartSpawn,
        loopVars, turnVars, taskVars, abortVars, AfterHook, AfterAbort, AbortHandle, Go
  <1>12. CASE CloseProcesses
    BY <1>12, MaxSubsAssumption
    DEF CloseProcesses, Inv, TypeOK, SlotFree, InForce, CancelledIsDoomed, Started, InHand,
        SlotFreePCs, VictimPCs, Working, Alive, Spawning, Subs, NoTurn, StartSpawn,
        loopVars, turnVars, taskVars, abortVars, AfterHook, AfterAbort, AbortHandle, Go
  <1>13. CASE SpawnTask
    BY <1>13, MaxSubsAssumption
    DEF SpawnTask, Inv, TypeOK, SlotFree, InForce, CancelledIsDoomed, Started, InHand,
        SlotFreePCs, VictimPCs, Working, Alive, Spawning, Subs, NoTurn, StartSpawn,
        loopVars, turnVars, taskVars, abortVars, AfterHook, AfterAbort, AbortHandle, Go
  <1>14. CASE RegisterTask
    BY <1>14, MaxSubsAssumption
    DEF RegisterTask, Inv, TypeOK, SlotFree, InForce, CancelledIsDoomed, Started, InHand,
        SlotFreePCs, VictimPCs, Working, Alive, Spawning, Subs, NoTurn, StartSpawn,
        loopVars, turnVars, taskVars, abortVars, AfterHook, AfterAbort, AbortHandle, Go
  <1>15. CASE AnnounceReview
    BY <1>15, MaxSubsAssumption
    DEF AnnounceReview, Inv, TypeOK, SlotFree, InForce, CancelledIsDoomed, Started, InHand,
        SlotFreePCs, VictimPCs, Working, Alive, Spawning, Subs, NoTurn, StartSpawn,
        loopVars, turnVars, taskVars, abortVars, AfterHook, AfterAbort, AbortHandle, Go
  <1>16. CASE TerminateProcesses
    BY <1>16, MaxSubsAssumption
    DEF TerminateProcesses, Inv, TypeOK, SlotFree, InForce, CancelledIsDoomed, Started, InHand,
        SlotFreePCs, VictimPCs, Working, Alive, Spawning, Subs, NoTurn, StartSpawn,
        loopVars, turnVars, taskVars, abortVars, AfterHook, AfterAbort, AbortHandle, Go
  <1>17. CASE StopSession
    BY <1>17, MaxSubsAssumption
    DEF StopSession, Inv, TypeOK, SlotFree, InForce, CancelledIsDoomed, Started, InHand,
        SlotFreePCs, VictimPCs, Working, Alive, Spawning, Subs, NoTurn, StartSpawn,
        loopVars, turnVars, taskVars, abortVars, AfterHook, AfterAbort, AbortHandle, Go
  <1>18. CASE StopRecorder
    BY <1>18, MaxSubsAssumption
    DEF StopRecorder, Inv, TypeOK, SlotFree, InForce, CancelledIsDoomed, Started, InHand,
        SlotFreePCs, VictimPCs, Working, Alive, Spawning, Subs, NoTurn, StartSpawn,
        loopVars, turnVars, taskVars, abortVars, AfterHook, AfterAbort, AbortHandle, Go
  <1> QED
    BY <1>1, <1>2, <1>3, <1>4, <1>5, <1>6, <1>7, <1>8, <1>9, <1>10, <1>11, <1>12, <1>13,
       <1>14, <1>15, <1>16, <1>17, <1>18
    DEF Receive, Handle

\* The rollout writer, alive or dying, touches nothing the invariant reads but the types.
LEMMA WriterInv ==
  ASSUME Inv, Writer
  PROVE  Inv'
  <1>1. UNCHANGED <<loopVars, turnVars, taskVars, abortVars, execVars, recorded, events>>
    BY DEF Writer, WriteRollout, WriterFails
  <1>2. /\ marker' \in [Subs -> {"none", "queued", "durable", "lost"}]
        /\ writing' \in BOOLEAN
    BY DEF Writer, WriteRollout, WriterFails, Dequeue, Inv, TypeOK
  <1>3. TypeOK'
    BY <1>1, <1>2 DEF Inv, TypeOK, loopVars, turnVars, taskVars, abortVars, execVars
  <1> QED
    BY <1>1, <1>3
    DEF Inv, SlotFree, InForce, CancelledIsDoomed, Started, InHand, Working, Alive, Spawning,
        loopVars, turnVars, taskVars, abortVars

\* A tool call touches nothing the invariant reads but the types.
LEMMA ToolInv ==
  ASSUME Inv, NEW t \in Subs, Tool(t)
  PROVE  Inv'
  BY DEF Tool, ToolReturns, ToolDropped, Inv, TypeOK, SlotFree, InForce, CancelledIsDoomed,
         Started, InHand, Working, Alive, Spawning, loopVars, turnVars, taskVars, abortVars,
         rolloutVars

\* A stuttering step changes nothing.
LEMMA StutterInv ==
  ASSUME Inv, UNCHANGED vars
  PROVE  Inv'
  BY DEF vars, Inv, TypeOK, SlotFree, InForce, CancelledIsDoomed, Started, InHand,
         Working, Alive, Spawning, loopVars, turnVars, taskVars, abortVars, execVars, rolloutVars

\* The invariant holds in every reachable state.
THEOREM SessionInv == Spec => []Inv
  <1>1. Inv /\ [Next]_vars => Inv'
    <2> SUFFICES ASSUME Inv, [Next]_vars PROVE Inv'
      OBVIOUS
    <2>1. CASE Receive \/ Handle
      BY <2>1, HandleType, HandleControl DEF Inv
    <2>2. CASE \E t \in Subs : Run(t) \/ Tool(t)
      BY <2>2, RunInv, ToolInv
    <2>3. CASE Writer
      BY <2>3, WriterInv
    <2>4. CASE UNCHANGED vars
      BY <2>4, StutterInv
    <2> QED BY <2>1, <2>2, <2>3, <2>4 DEF Next
  <1> QED BY <1>1, InitInv, PTL DEF Spec

----------------------------------------------------------------------------
(* What follows for every reachable state.                                 *)

\* Every variable stays in its type.
THEOREM SessionTypeOK == Spec => []TypeOK
  BY SessionInv, PTL DEF Inv

\* Two turns whose tokens are not cancelled are never at work at once, however
\* spawn_task, register_new_active_task, on_task_finished and abort_all_tasks interleave.
THEOREM SessionExclusion == Spec => []AtMostOneWorking
  <1>1. Inv => AtMostOneWorking
    BY DEF Inv, TypeOK, InForce, SlotFree, SlotFreePCs, AtMostOneWorking, Subs, NoTurn
  <1> QED BY <1>1, SessionInv, PTL

\* When the loop finds active_turn empty, every task still at work has been cancelled
\* and its handle aborted: handlers::thread_rollback relies on it.
THEOREM SessionIdle == Spec => []IdleMeansQuiet
  <1>1. Inv => IdleMeansQuiet
    BY DEF Inv, InForce, CancelledIsDoomed, IdleMeansQuiet, Subs, NoTurn
  <1> QED BY <1>1, SessionInv, PTL

----------------------------------------------------------------------------
(* Each end of a turn is reported once.  TerminalOnce needs to know which  *)
(* reports are still to come: a complete turn's task is done, an aborted   *)
(* one's token is cancelled, and only a turn whose token is not cancelled  *)
(* can be, or become, the active one.                                      *)

Ends ==
    /\ \A t \in Subs : Sent("TurnComplete", t) => task[t] = "done"
    /\ \A t \in Subs : Sent("TurnAborted", t) => t \in cancelled
    /\ lpc \in VictimPCs \ {"cancel"} => victim \in cancelled /\ ~Sent("TurnAborted", victim)
    /\ lpc = "cancel" => victim \notin cancelled
    /\ lpc = "register" => Spawning \notin cancelled
    /\ active \notin cancelled
    /\ TerminalOnce

\* Sending an event adds that event to those sent, and no other.
LEMMA SentAfter ==
  ASSUME events \in Seq(Event), NEW type \in EventTypes, NEW t \in Subs \cup {NoTurn},
         Send(type, t), NEW ty, NEW u
  PROVE  Sent(ty, u)' <=> Sent(ty, u) \/ (ty = type /\ u = t)
  BY DEF Send, Sent, Event

\* Sending a first report of a turn's end keeps the reports unique.
LEMMA OnceAfter ==
  ASSUME events \in Seq(Event), NEW type \in EventTypes, NEW t \in Subs \cup {NoTurn},
         Send(type, t), TerminalOnce,
         type \in {"TurnComplete", "TurnAborted"} => ~Sent(type, t)
  PROVE  TerminalOnce'
  BY DEF Send, Sent, Event, TerminalOnce

\* A step that sends nothing reports nothing.
LEMMA EndsUnsent ==
  ASSUME Inv, Ends, UNCHANGED events
  PROVE  /\ \A ty, u : Sent(ty, u)' <=> Sent(ty, u)
         /\ TerminalOnce'
  BY DEF Ends, Sent, TerminalOnce

\* The steps of a task, TurnComplete included, keep Ends.
LEMMA EndsRun ==
  ASSUME Inv, Ends, NEW t \in Subs, Run(t)
  PROVE  Ends'
  <1> USE DEF NoTurn
  <1>0. NoTurn \notin cancelled
    BY MaxSubsAssumption DEF Inv, TypeOK, Subs
  <1>1. /\ UNCHANGED <<lpc, victim, nextSub, cancelled>>
        /\ active' = active \/ active' = NoTurn
    BY RunHasEffect DEF Inv, RunEffect
  <1>2. \A u \in Subs : task[u] = "done" => task'[u] = "done"
    BY DEF Run, Go, Inv, TypeOK, Alive, StartTask, RecordInput, TakePendingInput, CallTool,
           CompleteRequest, FailRequest, AbortRequest, EndWork, ExitReview, FlushRollout,
           CheckCancelled, FinishTurn, CloseOnFinish, EmitComplete, DropTask
  <1>3. CASE UNCHANGED events
    BY <1>0, <1>1, <1>2, <1>3, EndsUnsent DEF Ends, Spawning
  <1>4. CASE \E type \in EventTypes \ {"TurnComplete", "TurnAborted"} : Send(type, t)
    <2>1. PICK type \in EventTypes \ {"TurnComplete", "TurnAborted"} : Send(type, t)
      BY <1>4
    <2>2. \A ty, u : Sent(ty, u)' <=> Sent(ty, u) \/ (ty = type /\ u = t)
      BY <2>1, SentAfter DEF Inv, TypeOK
    <2>3. TerminalOnce'
      BY <2>1, OnceAfter DEF Inv, TypeOK, Ends
    <2> QED BY <1>0, <1>1, <1>2, <2>1, <2>2, <2>3 DEF Ends, Spawning
  <1>5. CASE EmitComplete(t)
    <2>1. Send("TurnComplete", t) /\ ~Sent("TurnComplete", t) /\ task'[t] = "done"
      BY <1>5 DEF EmitComplete, Ends, Go, Inv, TypeOK
    <2>2. \A ty, u : Sent(ty, u)' <=> Sent(ty, u) \/ (ty = "TurnComplete" /\ u = t)
      BY <2>1, SentAfter DEF Inv, TypeOK, EventTypes
    <2>3. TerminalOnce'
      BY <2>1, OnceAfter DEF Inv, TypeOK, Ends, EventTypes
    <2> QED BY <1>0, <1>1, <1>2, <2>1, <2>2, <2>3 DEF Ends, Spawning
  <1> QED
    BY <1>3, <1>4, <1>5
    DEF Run, EventTypes, StartTask, RecordInput, TakePendingInput, CallTool, CompleteRequest,
        FailRequest, AbortRequest, EndWork, ExitReview, FlushRollout, CheckCancelled,
        FinishTurn, CloseOnFinish, DropTask

\* The steps of the loop, TurnAborted included, keep Ends.
LEMMA EndsHandle ==
  ASSUME Inv, Ends, Receive \/ Handle
  PROVE  Ends'
  <1> USE DEF NoTurn
  <1>1. /\ NoTurn \notin cancelled
        /\ victim \in Subs \cup {NoTurn}
        /\ lpc \in {"register", "announce"} => Spawning \in Subs
    BY MaxSubsAssumption DEF Inv, TypeOK, InHand, Subs, Spawning
  <1>2. CASE EmitAborted
    <2>1. Send("TurnAborted", victim) /\ ~Sent("TurnAborted", victim) /\ victim \in cancelled
      BY <1>2 DEF EmitAborted, Ends, VictimPCs
    <2>2. \A ty, u : Sent(ty, u)' <=> Sent(ty, u) \/ (ty = "TurnAborted" /\ u = victim)
      BY <1>1, <2>1, SentAfter DEF Inv, TypeOK, EventTypes
    <2>3. TerminalOnce'
      BY <1>1, <2>1, OnceAfter DEF Inv, TypeOK, Ends, EventTypes
    <2> QED
      BY <1>2, <2>1, <2>2, <2>3
      DEF EmitAborted, Ends, VictimPCs, turnVars, taskVars, abortVars, Spawning
  <1>3. CASE AbortHook \/ AnnounceReview \/ StopRecorder \/ StopSession
    <2>1. CASE UNCHANGED events
      BY <1>3, <2>1, EndsUnsent
      DEF AbortHook, AnnounceReview, StopRecorder, StopSession, AfterHook, Ends, VictimPCs, turnVars,
          taskVars, abortVars, Spawning
    <2>2. CASE \E type \in EventTypes \ {"TurnComplete", "TurnAborted"},
                  u \in Subs \cup {NoTurn} : Send(type, u)
      <3>1. PICK type \in EventTypes \ {"TurnComplete", "TurnAborted"},
                 u \in Subs \cup {NoTurn} : Send(type, u)
        BY <2>2
      <3>2. \A ty, v : Sent(ty, v)' <=> Sent(ty, v) \/ (ty = type /\ v = u)
        BY <3>1, SentAfter DEF Inv, TypeOK
      <3>3. TerminalOnce'
        BY <3>1, OnceAfter DEF Inv, TypeOK, Ends
      <3> QED
        BY <1>3, <3>1, <3>2, <3>3
        DEF AbortHook, AnnounceReview, StopRecorder, StopSession, AfterHook, Ends, VictimPCs, turnVars,
            taskVars, abortVars, Spawning
    <2> QED
      BY <1>1, <1>3, <2>1, <2>2 DEF AbortHook, AnnounceReview, StopRecorder, StopSession, EventTypes
  <1>4. CASE GraceEnds
    <2>1. \A u \in Subs : task[u] = "done" => task'[u] = "done"
      BY <1>4 DEF GraceEnds, AbortHandle, Alive, Go, Inv, TypeOK
    <2> QED
      BY <1>4, <2>1, EndsUnsent DEF GraceEnds, Ends, VictimPCs, turnVars, Spawning
  <1>5. CASE SpawnTask
    <2>1. Spawning \notin cancelled
      BY <1>5, MaxSubsAssumption DEF SpawnTask, Inv, TypeOK, InHand, Started, Spawning, Subs
    <2>2. \A u \in Subs : task[u] = "done" => task'[u] = "done"
      BY <1>5 DEF SpawnTask, Go, Inv, TypeOK, InHand
    <2> QED
      BY <1>5, <2>1, <2>2, EndsUnsent
      DEF SpawnTask, Ends, VictimPCs, turnVars, abortVars, Spawning
  <1>6. CASE RecvUserInput
    BY <1>1, <1>6, EndsUnsent
    DEF RecvUserInput, Ends, VictimPCs, Spawning, loopVars, turnVars, taskVars, abortVars,
        StartSpawn
  <1>7. CASE RecvSpawn
    BY <1>1, <1>7, EndsUnsent
    DEF RecvSpawn, Ends, VictimPCs, Spawning, loopVars, turnVars, taskVars, abortVars,
        StartSpawn
  <1>8. CASE RecvInterrupt
    BY <1>1, <1>8, EndsUnsent
    DEF RecvInterrupt, Ends, VictimPCs, Spawning, loopVars, turnVars, taskVars, abortVars
  <1>9. CASE RecvShutdown
    BY <1>1, <1>9, EndsUnsent
    DEF RecvShutdown, Ends, VictimPCs, Spawning, loopVars, turnVars, taskVars, abortVars
  <1>10. CASE TakeActive
    BY <1>1, <1>10, EndsUnsent
    DEF TakeActive, Ends, VictimPCs, Spawning, loopVars, turnVars, taskVars, abortVars
  <1>11. CASE CancelToken
    BY <1>1, <1>11, EndsUnsent
    DEF CancelToken, Ends, VictimPCs, Spawning, loopVars, turnVars, taskVars, abortVars,
        Inv, InHand, SlotFree, SlotFreePCs
  <1>12. CASE RecordMarker
    BY <1>1, <1>12, EndsUnsent
    DEF RecordMarker, Ends, VictimPCs, Spawning, loopVars, turnVars, taskVars, abortVars
  <1>13. CASE FlushMarker
    BY <1>1, <1>13, EndsUnsent
    DEF FlushMarker, Ends, VictimPCs, Spawning, loopVars, turnVars, taskVars, abortVars
  <1>14. CASE CloseProcesses
    BY <1>1, <1>14, EndsUnsent
    DEF CloseProcesses, Ends, VictimPCs, Spawning, loopVars, turnVars, taskVars, abortVars,
        AfterAbort
  <1>15. CASE RegisterTask
    BY <1>1, <1>15, EndsUnsent
    DEF RegisterTask, Ends, VictimPCs, Spawning, loopVars, turnVars, taskVars, abortVars
  <1>16. CASE TerminateProcesses
    BY <1>1, <1>16, EndsUnsent
    DEF TerminateProcesses, Ends, VictimPCs, Spawning, loopVars, turnVars, taskVars, abortVars
  <1> QED
    BY <1>2, <1>3, <1>4, <1>5, <1>6, <1>7, <1>8, <1>9, <1>10, <1>11, <1>12, <1>13,
       <1>14, <1>15, <1>16
    DEF Receive, Handle

\* Ends holds in every reachable state.
LEMMA SessionEnds == Spec => []Ends
  <1>1. Init => Ends
    BY DEF Init, Ends, Sent, TerminalOnce, VictimPCs
  <1>2. Inv /\ Ends /\ [Next]_vars => Ends'
    <2> SUFFICES ASSUME Inv, Ends, [Next]_vars PROVE Ends'
      OBVIOUS
    <2>1. CASE Receive \/ Handle
      BY <2>1, EndsHandle
    <2>2. ASSUME NEW t \in Subs, Run(t) PROVE Ends'
      BY <2>2, EndsRun
    <2>3. CASE (\E t \in Subs : Tool(t)) \/ Writer \/ UNCHANGED vars
      BY <2>3, EndsUnsent
      DEF Tool, ToolReturns, ToolDropped, Writer, WriteRollout, WriterFails, vars, Ends, Spawning, loopVars,
          turnVars, taskVars, abortVars
    <2> QED BY <2>1, <2>2, <2>3 DEF Next
  <1> QED BY <1>1, <1>2, SessionInv, PTL DEF Spec

\* A turn is reported complete at most once, and aborted at most once, although
\* on_task_finished and handle_task_abort race to report it.
THEOREM SessionTerminalOnce == Spec => []TerminalOnce
  <1>1. Ends => TerminalOnce
    BY DEF Ends
  <1> QED BY <1>1, SessionEnds, PTL

----------------------------------------------------------------------------
(* The marker, the slot and the pending input.                             *)

\* How far the marker of each turn has come: one is on its way only while the loop waits
\* for it, one is lost only to a dead writer, and a turn that is about to be reported
\* aborted has one or makes room for the turn that is being spawned.
OnItsWay == \A t \in Subs : marker[t] = "queued" => lpc = "flush" /\ t = victim
LostToWriter == \A t \in Subs : marker[t] = "lost" => ~writing
MakesRoom == op = "spawn" /\ victim < Spawning
Noted ==
    /\ lpc = "flush" => marker[victim] # "none"
    /\ lpc = "mark" => op # "spawn"
    /\ lpc = "aborted" => marker[victim] \in {"durable", "lost"} \/ MakesRoom
    /\ \A t \in Subs :
           Sent("TurnAborted", t) => marker[t] \in {"durable", "lost"} \/ t < Spawning
Marked == OnItsWay /\ LostToWriter /\ Noted

\* Only EmitAborted reports an abort.
LEMMA AbortsAsBefore ==
  ASSUME TypeOK,
         \/ UNCHANGED events
         \/ \E type \in EventTypes \ {"TurnAborted"}, u \in Subs \cup {NoTurn} : Send(type, u)
  PROVE  \A t : Sent("TurnAborted", t)' <=> Sent("TurnAborted", t)
  <1>1. CASE UNCHANGED events
    BY <1>1 DEF Sent
  <1>2. CASE \E type \in EventTypes \ {"TurnAborted"}, u \in Subs \cup {NoTurn} : Send(type, u)
    BY <1>2, SentAfter DEF TypeOK
  <1> QED BY <1>1, <1>2

\* The steps of handle_task_abort that make, await and pass the marker.
LEMMA MarkedAbort ==
  ASSUME Inv, Ends, Marked, AbortHook \/ RecordMarker \/ FlushMarker \/ EmitAborted
  PROVE  Marked'
  <1> USE DEF Marked
  <1>1. victim \in Subs /\ nextSub \in Nat /\ Spawning' = Spawning
    BY MaxSubsAssumption
    DEF Inv, TypeOK, InHand, VictimPCs, AbortHook, RecordMarker, FlushMarker, EmitAborted,
        Spawning
  <1>2. CASE AbortHook
    <2>1. \A t : Sent("TurnAborted", t)' <=> Sent("TurnAborted", t)
      BY <1>1, <1>2, AbortsAsBefore DEF AbortHook, EventTypes, Inv
    <2>2. op = "spawn" => victim < Spawning
      <3> SUFFICES ASSUME op = "spawn" PROVE victim < Spawning
        OBVIOUS
      <3>1. task[Spawning] = "none" /\ task[victim] # "none"
        BY <1>1, <1>2 DEF AbortHook, Inv, InHand, Started
      <3>2. ~(nextSub <= victim)
        BY <1>1, <3>1 DEF Inv, Started
      <3> QED BY <1>1, <3>1, <3>2 DEF Spawning, Subs
    <2> QED
      BY <1>1, <1>2, <2>1, <2>2
      DEF AbortHook, AfterHook, OnItsWay, LostToWriter, Noted, MakesRoom, rolloutVars
  <1>3. CASE RecordMarker
    <2>1. ~Sent("TurnAborted", victim)
      BY <1>3 DEF RecordMarker, Ends, VictimPCs
    <2>2. \A t : Sent("TurnAborted", t)' <=> Sent("TurnAborted", t)
      BY <1>3, AbortsAsBefore DEF RecordMarker, Inv
    <2>3. /\ \A t \in Subs \ {victim} : marker'[t] = marker[t]
          /\ marker'[victim] = IF writing THEN "queued" ELSE "lost"
      BY <1>1, <1>3 DEF RecordMarker, Inv, TypeOK
    <2> QED
      BY <1>1, <1>3, <2>1, <2>2, <2>3 DEF RecordMarker, OnItsWay, LostToWriter, Noted
  <1>4. CASE FlushMarker
    <2>1. \A t : Sent("TurnAborted", t)' <=> Sent("TurnAborted", t)
      BY <1>4, AbortsAsBefore DEF FlushMarker, Inv
    <2>2. marker[victim] \in {"durable", "lost"}
      BY <1>1, <1>4 DEF FlushMarker, Flushed, Noted, Inv, TypeOK
    <2> QED
      BY <1>1, <1>4, <2>1, <2>2
      DEF FlushMarker, Flushed, OnItsWay, LostToWriter, Noted, rolloutVars
  <1>5. CASE EmitAborted
    <2>1. \A t : Sent("TurnAborted", t)' <=> Sent("TurnAborted", t) \/ t = victim
      BY <1>1, <1>5, SentAfter DEF EmitAborted, EventTypes, Inv, TypeOK
    <2> QED
      BY <1>1, <1>5, <2>1
      DEF EmitAborted, OnItsWay, LostToWriter, Noted, MakesRoom, rolloutVars
  <1> QED BY <1>2, <1>3, <1>4, <1>5

\* The writer writes what is queued or takes it with it, and touches no other marker.
LEMMA MarkedWriter ==
  ASSUME Inv, Marked, Writer
  PROVE  Marked'
  <1>1. UNCHANGED <<lpc, op, victim, nextSub>> /\ Spawning' = Spawning
    BY DEF Writer, WriteRollout, WriterFails, loopVars, Spawning
  <1>2. \A t : Sent("TurnAborted", t)' <=> Sent("TurnAborted", t)
    BY DEF Writer, WriteRollout, WriterFails, Sent
  <1>3. PICK fate \in {"durable", "lost"} :
          /\ fate = "lost" => ~writing'
          /\ ~writing => ~writing'
          /\ \A t \in Subs : marker'[t] = IF marker[t] = "queued" THEN fate ELSE marker[t]
    BY DEF Writer, WriteRollout, WriterFails, Dequeue
  <1>4. OnItsWay' /\ LostToWriter'
    BY <1>1, <1>3 DEF Marked, OnItsWay, LostToWriter
  <1>5. lpc \in {"flush", "aborted"} => victim \in Subs
    BY DEF Inv, TypeOK, InHand, VictimPCs
  <1>6. Noted'
    BY <1>1, <1>2, <1>3, <1>5 DEF Marked, Noted, MakesRoom
  <1> QED BY <1>4, <1>6 DEF Marked

\* Steps of the loop and of tasks that neither touch a marker nor report an abort.
LEMMA MarkedElsewhere ==
  ASSUME Inv, Marked, UNCHANGED <<marker, writing>>,
         \/ UNCHANGED events
         \/ \E type \in EventTypes \ {"TurnAborted"}, u \in Subs \cup {NoTurn} : Send(type, u),
         \/ UNCHANGED <<lpc, op, victim, nextSub>>
         \/ /\ lpc # "flush" /\ lpc' \notin {"mark", "flush", "aborted"}
            /\ nextSub' \in {nextSub, nextSub + 1}
  PROVE  Marked'
  <1>1. \A t : Sent("TurnAborted", t)' <=> Sent("TurnAborted", t)
    BY AbortsAsBefore DEF Inv
  <1>2. nextSub \in Nat /\ Subs \subseteq Nat
    BY DEF Inv, TypeOK, Subs
  <1>3. \A t \in Subs : t < Spawning => t < Spawning'
    BY <1>2 DEF Spawning
  <1> QED
    BY <1>1, <1>2, <1>3 DEF Marked, OnItsWay, LostToWriter, Noted, MakesRoom, Spawning

\* Only handle_task_abort makes a marker, and it waits until it is written or lost.
LEMMA MarkedStep == Inv /\ Ends /\ Marked /\ [Next]_vars => Marked'
  <1> SUFFICES ASSUME Inv, Ends, Marked, [Next]_vars PROVE Marked'
    OBVIOUS
  <1>1. CASE AbortHook \/ RecordMarker \/ FlushMarker \/ EmitAborted
    BY <1>1, MarkedAbort
  <1>2. CASE Writer
    BY <1>2, MarkedWriter
  <1>3. ASSUME NEW t \in Subs, Run(t) PROVE Marked'
    BY <1>3, MarkedElsewhere
    DEF Run, loopVars, rolloutVars, EventTypes, StartTask, RecordInput, TakePendingInput,
        CallTool, CompleteRequest, FailRequest, AbortRequest, EndWork, ExitReview,
        FlushRollout, CheckCancelled, FinishTurn, CloseOnFinish, EmitComplete, DropTask
  <1>4. CASE AnnounceReview \/ StopRecorder \/ StopSession
    <2>1. lpc = "announce" => Spawning \in Subs
      BY MaxSubsAssumption DEF Inv, InHand, TypeOK, Subs, Spawning
    <2> QED
      BY <1>4, <2>1, MarkedElsewhere
      DEF AnnounceReview, StopRecorder, StopSession, rolloutVars, EventTypes
  <1>5. CASE Receive
    BY <1>5, MarkedElsewhere
    DEF Receive, RecvUserInput, RecvSpawn, RecvInterrupt, RecvShutdown, StartSpawn, rolloutVars
  <1>6. CASE \/ TakeActive \/ CancelToken \/ GraceEnds \/ CloseProcesses \/ SpawnTask
             \/ RegisterTask \/ TerminateProcesses
    BY <1>6, MarkedElsewhere
    DEF TakeActive, CancelToken, GraceEnds, CloseProcesses, AfterAbort, SpawnTask,
        RegisterTask, TerminateProcesses, rolloutVars
  <1>7. CASE (\E t \in Subs : Tool(t)) \/ UNCHANGED vars
    BY <1>7, MarkedElsewhere
    DEF Tool, ToolReturns, ToolDropped, vars, loopVars, rolloutVars
  <1> QED
    BY <1>1, <1>2, <1>3, <1>4, <1>5, <1>6, <1>7 DEF Next, Handle

\* When handle_task_abort sends TurnAborted, the marker of an interruption is on disk, or
\* was lost to a writer that has failed, and is on its way in neither case.
THEOREM SessionMarker == Spec => []MarkerDurableBeforeAborted
  <1>1. Init => Marked
    BY DEF Init, Marked, OnItsWay, LostToWriter, Noted, Sent
  <1>2. Inv /\ Ends /\ Marked => MarkerDurableBeforeAborted
    <2> SUFFICES ASSUME Inv, Ends, Marked, NEW t \in Subs, Sent("TurnAborted", t)
                 PROVE  \/ marker[t] = "durable"
                        \/ marker[t] = "lost" /\ ~writing
                        \/ marker[t] = "none" /\ t < Spawning
      BY DEF MarkerDurableBeforeAborted
    <2>1. marker[t] # "queued"
      BY DEF Marked, OnItsWay, Ends, VictimPCs
    <2> QED BY <2>1 DEF Marked, LostToWriter, Noted, Inv, TypeOK
  <1> QED BY <1>1, <1>2, MarkedStep, SessionInv, SessionEnds, PTL DEF Spec

\* A task at work beside the registered turn was cancelled.
THEOREM SessionStray == Spec => []StrayIsCancelled
  <1>1. Inv => StrayIsCancelled
    BY DEF Inv, InForce, SlotFree, SlotFreePCs, StrayIsCancelled
  <1> QED BY <1>1, SessionInv, PTL

\* on_task_finished empties active_turn only for the turn that finishes.
THEOREM SessionSlot == Spec => FinishClearsOwnTurn
  <1> DEFINE Own == active # NoTurn /\ active' = NoTurn =>
                      lpc = "take" \/ (task[active] = "finish" /\ task'[active] # "finish")
  <1>1. Inv /\ [Next]_vars => Own
    <2> SUFFICES ASSUME Inv, [Next]_vars PROVE Own
      OBVIOUS
    <2>1. CASE active' = active
      BY <2>1
    <2>2. CASE TakeActive
      BY <2>2 DEF TakeActive
    <2>3. CASE RegisterTask
      BY <2>3, MaxSubsAssumption DEF RegisterTask, Inv, TypeOK, InHand, Spawning, NoTurn
    <2>4. ASSUME NEW t \in Subs, FinishTurn(t) PROVE Own
      BY <2>4 DEF FinishTurn, RemoveTask, Go, Inv, TypeOK, turnVars
    <2> QED
      BY <2>1, <2>2, <2>3, <2>4
      DEF Next, Receive, Handle, Run, Tool, vars, turnVars, RecvUserInput, RecvSpawn,
          RecvInterrupt, RecvShutdown, CancelToken, GraceEnds, AbortHook, EmitAborted,
          RecordMarker, FlushMarker, CloseProcesses, SpawnTask, AnnounceReview, Writer,
          WriteRollout, WriterFails, TerminateProcesses, StopRecorder, StopSession, StartTask, RecordInput, TakePendingInput, CallTool,
          CompleteRequest, FailRequest, AbortRequest, EndWork, ExitReview, FlushRollout,
          CheckCancelled, CloseOnFinish, EmitComplete, DropTask, ToolReturns, ToolDropped
  <1> QED BY <1>1, SessionInv, PTL DEF Spec, FinishClearsOwnTurn

----------------------------------------------------------------------------
(* The session implements the slot.                                        *)

\* A task that will be dropped was started, and is cancelled if it is still at work.
Doomed == \A t \in doomed : task[t] # "none" /\ (Working(t) => t \in cancelled)

\* A task is only doomed by the abort of its turn, or as it finishes.
LEMMA DoomedStep ==
  ASSUME Inv, Ends, Doomed, [Next]_vars
  PROVE  Doomed'
  <1>1. ASSUME NEW t \in Subs, Run(t) PROVE Doomed'
    <2>1. doomed' = doomed \/ (doomed' = doomed \cup {t} /\ task'[t] = "close")
      BY <1>1 DEF Run, abortVars, Inv, TypeOK, Go, StartTask, RecordInput, TakePendingInput,
          CallTool, CompleteRequest, FailRequest, AbortRequest, EndWork, ExitReview,
          FlushRollout, CheckCancelled, FinishTurn, CloseOnFinish, EmitComplete, DropTask
    <2>2. PICK pc \in TaskPCs \ {"none"} :
            /\ task' = [task EXCEPT ![t] = pc]
            /\ pc \notin {"done", "dropped", "close", "emit"} => Working(t)
      BY <1>1, RunHasEffect DEF Inv, RunEffect
    <2>3. cancelled' = cancelled
      BY <1>1, RunHasEffect DEF Inv, RunEffect
    <2> QED
      BY <2>1, <2>2, <2>3 DEF Doomed, Working, Alive, Inv, TypeOK
  <1>2. CASE GraceEnds
    <2>1. victim \in Subs /\ victim \in cancelled /\ task[victim] # "none" /\ cancelled' = cancelled
      BY <1>2 DEF GraceEnds, Ends, Inv, InHand, Started, VictimPCs, TypeOK
    <2>2. doomed' \subseteq doomed \cup {victim}
      BY <1>2 DEF GraceEnds, AbortHandle
    <2>3. \A u \in Subs : /\ Working(u)' => Working(u)
                          /\ task[u] = "none" <=> task'[u] = "none"
      BY <1>2, <2>1, AbortHandleEffect DEF GraceEnds, Inv
    <2> QED BY <2>1, <2>2, <2>3 DEF Doomed, Inv, TypeOK
  <1>3. CASE SpawnTask
    BY <1>3, MaxSubsAssumption
    DEF SpawnTask, Go, Doomed, Working, Alive, Inv, TypeOK, InHand, Subs, Spawning, abortVars
  <1>4. CASE task' = task /\ doomed' = doomed /\ cancelled \subseteq cancelled'
    BY <1>4 DEF Doomed, Working, Alive
  <1> QED
    BY <1>1, <1>2, <1>3, <1>4
    DEF Next, Receive, Handle, Tool, vars, taskVars, abortVars, RecvUserInput, RecvSpawn,
        RecvInterrupt, RecvShutdown, TakeActive, CancelToken, AbortHook, EmitAborted,
        RecordMarker, FlushMarker, CloseProcesses, RegisterTask, AnnounceReview, Writer,
        WriteRollout, WriterFails, TerminateProcesses, StopRecorder, StopSession, ToolReturns, ToolDropped

Phases == [t \in Subs |-> Phase(t)]

\* A step that moves no task from phase to phase and reports no end is a stutter.
Stutter ==
    /\ Phases' = Phases /\ cancelled' = cancelled
    /\ Reported("TurnComplete")' = Reported("TurnComplete")
    /\ Reported("TurnAborted")' = Reported("TurnAborted")

\* Moving one task moves one phase.
LEMMA MovePhase ==
  ASSUME TypeOK, NEW t \in Subs, NEW pc \in TaskPCs, task' = [task EXCEPT ![t] = pc]
  PROVE  /\ pc = "none" => Phases' = [Phases EXCEPT ![t] = "fresh"]
         /\ pc \in {"close", "emit"} => Phases' = [Phases EXCEPT ![t] = "completing"]
         /\ pc \in {"done", "dropped"} => Phases' = [Phases EXCEPT ![t] = "over"]
         /\ pc \notin {"none", "close", "emit", "done", "dropped"} =>
                Phases' = [Phases EXCEPT ![t] = "running"]
  <1>1. \A u \in Subs : u # t => Phase(u)' = Phase(u)
    BY DEF TypeOK, Phase
  <1>2. task'[t] = pc
    BY DEF TypeOK
  <1>3. /\ pc = "none" => Phase(t)' = "fresh"
        /\ pc \in {"close", "emit"} => Phase(t)' = "completing"
        /\ pc \in {"done", "dropped"} => Phase(t)' = "over"
        /\ pc \notin {"none", "close", "emit", "done", "dropped"} => Phase(t)' = "running"
    BY <1>2 DEF Phase
  <1> QED BY <1>1, <1>3 DEF Phases

\* What a phase says of the task.
LEMMA PhaseMeans ==
  ASSUME TypeOK, NEW t \in Subs
  PROVE  /\ Phases[t] = Phase(t)
         /\ Phase(t) = "running" <=> Working(t)
         /\ Phase(t) = "fresh" <=> task[t] = "none"
         /\ Phase(t) = "completing" <=> task[t] \in {"close", "emit"}
         /\ Phase(t) = "over" <=> task[t] \in {"done", "dropped"}
  BY DEF Phases, Phase, Working, Alive, TypeOK, TaskPCs

\* Reports and phases of a step that sends nothing.
LEMMA UnsentReports ==
  ASSUME UNCHANGED events
  PROVE  /\ Reported("TurnComplete")' = Reported("TurnComplete")
         /\ Reported("TurnAborted")' = Reported("TurnAborted")
  BY DEF Reported, Sent

\* An event adds its turn to those it is about.
LEMMA SentReports ==
  ASSUME TypeOK, NEW type \in EventTypes, NEW t \in Subs \cup {NoTurn}, Send(type, t)
  PROVE  /\ type # "TurnComplete" => Reported("TurnComplete")' = Reported("TurnComplete")
         /\ type # "TurnAborted" => Reported("TurnAborted")' = Reported("TurnAborted")
         /\ t \in Subs /\ type \in {"TurnComplete", "TurnAborted"} =>
                Reported(type)' = Reported(type) \cup {t}
  <1>1. \A ty, u : Sent(ty, u)' <=> Sent(ty, u) \/ (ty = type /\ u = t)
    BY SentAfter DEF TypeOK
  <1> QED BY <1>1 DEF Reported

\* Every step of a task is a step of its turn in the slot, or a stutter.
LEMMA SlotRun ==
  ASSUME Inv, Ends, Doomed, NEW t \in Subs, Run(t)
  PROVE  Slot!Next \/ Stutter
  <1> USE DEF Inv
  <1>1. cancelled' = cancelled
    BY RunHasEffect DEF RunEffect
  <1>2. CASE EmitComplete(t)
    <2>1. Phases' = [Phases EXCEPT ![t] = "over"] /\ Phase(t) = "completing"
      BY <1>2, MovePhase, PhaseMeans DEF EmitComplete, Go, TaskPCs
    <2>2. /\ Reported("TurnComplete")' = Reported("TurnComplete") \cup {t}
          /\ Reported("TurnAborted")' = Reported("TurnAborted")
      BY <1>2, SentReports DEF EmitComplete, EventTypes
    <2> QED
      BY <1>1, <2>1, <2>2, PhaseMeans DEF Slot!Next, Slot!ReportComplete, Slot!Enter, Phases
  <1>3. CASE DropTask(t)
    <2>1. Phases' = [Phases EXCEPT ![t] = "over"]
      BY <1>3, MovePhase DEF DropTask, Go, TaskPCs
    <2>2. (Phase(t) = "running" /\ t \in cancelled) \/ Phase(t) = "completing"
      BY <1>3, PhaseMeans DEF DropTask, Doomed, Alive, Working
    <2>3. UNCHANGED events
      BY <1>3 DEF DropTask
    <2> QED
      BY <1>1, <2>1, <2>2, <2>3, UnsentReports, PhaseMeans
      DEF Slot!Next, Slot!Stop, Slot!Enter, Phases
  <1>4. CASE CheckCancelled(t) /\ t \in cancelled
    <2>1. Phases' = [Phases EXCEPT ![t] = "over"] /\ Phase(t) = "running"
      BY <1>4, MovePhase, PhaseMeans DEF CheckCancelled, Go, TaskPCs, Working, Alive
    <2>2. UNCHANGED events
      BY <1>4 DEF CheckCancelled
    <2> QED
      BY <1>1, <1>4, <2>1, <2>2, UnsentReports, PhaseMeans
      DEF Slot!Next, Slot!Stop, Slot!Enter, Phases
  <1>5. CASE FinishTurn(t)
    <2>1. Phases' = [Phases EXCEPT ![t] = "completing"] /\ Phase(t) = "running"
      BY <1>5, MovePhase, PhaseMeans DEF FinishTurn, Go, TaskPCs, Working, Alive
    <2>2. UNCHANGED events
      BY <1>5 DEF FinishTurn
    <2> QED
      BY <1>1, <2>1, <2>2, UnsentReports, PhaseMeans
      DEF Slot!Next, Slot!Finish, Slot!Enter, Phases
  <1>6. CASE CloseOnFinish(t)
    <2>1. Phases' = [Phases EXCEPT ![t] = "completing"] /\ Phase(t) = "completing"
      BY <1>6, MovePhase, PhaseMeans DEF CloseOnFinish, Go, TaskPCs
    <2>2. Phases' = Phases
      BY <2>1 DEF Phases
    <2> QED
      BY <1>1, <1>6, <2>2, UnsentReports DEF CloseOnFinish, Stutter
  <1>7. ASSUME NEW pc \in TaskPCs \ {"none", "close", "emit", "done", "dropped"}, Go(t, pc),
               Working(t),
               \/ UNCHANGED events
               \/ \E type \in EventTypes \ {"TurnComplete", "TurnAborted"} : Send(type, t)
        PROVE  Stutter
    <2>1. Phases' = [Phases EXCEPT ![t] = "running"] /\ Phase(t) = "running"
      BY <1>7, MovePhase, PhaseMeans DEF Go
    <2>2. Phases' = Phases
      BY <2>1 DEF Phases
    <2>3. /\ Reported("TurnComplete")' = Reported("TurnComplete")
          /\ Reported("TurnAborted")' = Reported("TurnAborted")
      BY <1>7, UnsentReports, SentReports
    <2> QED BY <1>1, <2>2, <2>3 DEF Stutter
  <1>8. CASE StartTask(t) \/ FailRequest(t) \/ ExitReview(t)
    BY <1>7, <1>8 DEF StartTask, FailRequest, ExitReview, TaskPCs, Working, Alive, EventTypes
  <1>9. CASE \/ RecordInput(t) \/ TakePendingInput(t) \/ CallTool(t) \/ CompleteRequest(t)
             \/ AbortRequest(t) \/ EndWork(t) \/ FlushRollout(t)
    BY <1>7, <1>9
    DEF RecordInput, TakePendingInput, CallTool, CompleteRequest, AbortRequest, EndWork,
        FlushRollout, TaskPCs, Working, Alive
  <1>10. CASE CheckCancelled(t) /\ t \notin cancelled
    BY <1>7, <1>10 DEF CheckCancelled, TaskPCs, Working, Alive
  <1> QED
    BY <1>2, <1>3, <1>4, <1>5, <1>6, <1>8, <1>9, <1>10 DEF Run

\* Every handler of the loop is a step of a turn in the slot, or a stutter.
LEMMA SlotHandle ==
  ASSUME Inv, Ends, Inv', Receive \/ Handle
  PROVE  Slot!Next \/ Stutter
  <1>1. CASE CancelToken
    <2>1. /\ victim \in Subs /\ Phase(victim) # "fresh" /\ victim \notin cancelled
          /\ cancelled' = cancelled \cup {victim}
      BY <1>1, PhaseMeans DEF CancelToken, Inv, InHand, Started, VictimPCs, TypeOK
    <2>2. Phases' = Phases /\ UNCHANGED events
      BY <1>1 DEF CancelToken, Phases, Phase, taskVars
    <2> QED
      BY <2>1, <2>2, UnsentReports, PhaseMeans DEF Slot!Next, Slot!Evict, Phases, Inv
  <1>2. CASE GraceEnds
    <2>1. victim \in Subs /\ victim \in cancelled /\ cancelled' = cancelled /\ UNCHANGED events
      BY <1>2 DEF GraceEnds, Ends, Inv, InHand, VictimPCs, TypeOK
    <2>2. CASE UNCHANGED task
      BY <2>1, <2>2, UnsentReports DEF Stutter, Phases, Phase
    <2>3. CASE Alive(victim) /\ Go(victim, "dropped")
      <3>1. Phases' = [Phases EXCEPT ![victim] = "over"]
        BY <2>1, <2>3, MovePhase DEF Go, TaskPCs, Inv
      <3>2. Phase(victim) \in {"running", "completing"}
        BY <2>1, <2>3, PhaseMeans DEF Alive, Working, Inv
      <3> QED
        BY <2>1, <3>1, <3>2, UnsentReports, PhaseMeans
        DEF Slot!Next, Slot!Stop, Slot!Enter, Phases, Inv
    <2> QED BY <1>2, <2>2, <2>3 DEF GraceEnds, AbortHandle
  <1>3. CASE EmitAborted
    <2>1. /\ victim \in Subs /\ victim \in cancelled /\ ~Sent("TurnAborted", victim)
          /\ cancelled' = cancelled /\ Send("TurnAborted", victim)
      BY <1>3 DEF EmitAborted, Ends, Inv, InHand, VictimPCs, TypeOK, abortVars
    <2>2. /\ Reported("TurnAborted")' = Reported("TurnAborted") \cup {victim}
          /\ Reported("TurnComplete")' = Reported("TurnComplete")
          /\ victim \notin Reported("TurnAborted")
      BY <2>1, SentReports DEF Inv, EventTypes, Reported
    <2>3. Phases' = Phases
      BY <1>3 DEF EmitAborted, Phases, Phase, taskVars
    <2> QED BY <2>1, <2>2, <2>3 DEF Slot!Next, Slot!ReportAborted, Phases
  <1>4. CASE SpawnTask
    <2>1. /\ Spawning \in Subs /\ task[Spawning] = "none" /\ task' = [task EXCEPT ![Spawning] = "start"]
          /\ cancelled' = cancelled /\ UNCHANGED events
      BY <1>4, MaxSubsAssumption
      DEF SpawnTask, Go, Inv, InHand, TypeOK, Subs, Spawning, abortVars
    <2>2. \A u \in Subs : Phase(u) = "running" => u \in cancelled
      BY <1>4, PhaseMeans
      DEF SpawnTask, Inv, InForce, SlotFree, SlotFreePCs, Subs, NoTurn
    <2>3. Phases' = [Phases EXCEPT ![Spawning] = "running"] /\ Phase(Spawning) = "fresh"
      BY <2>1, MovePhase, PhaseMeans DEF TaskPCs, Inv
    <2> QED
      BY <2>1, <2>2, <2>3, UnsentReports, PhaseMeans
      DEF Slot!Next, Slot!Start, Slot!InForce, Slot!Enter, Phases, Inv
  <1>5. CASE AbortHook \/ AnnounceReview \/ StopRecorder \/ StopSession
    <2>1. cancelled' = cancelled /\ Phases' = Phases
      BY <1>5 DEF AbortHook, AnnounceReview, StopRecorder, StopSession, abortVars, taskVars, Phases, Phase
    <2>2. lpc = "announce" => Spawning \in Subs
      BY MaxSubsAssumption DEF Inv, InHand, TypeOK, Subs, Spawning
    <2>3. \/ UNCHANGED events
          \/ \E type \in EventTypes \ {"TurnComplete", "TurnAborted"},
                u \in Subs \cup {NoTurn} : Send(type, u)
      BY <1>5, <2>2 DEF AbortHook, AnnounceReview, StopRecorder, StopSession, EventTypes, Inv, TypeOK
    <2> QED BY <2>1, <2>3, UnsentReports, SentReports DEF Stutter, Inv
  <1>6. CASE UNCHANGED <<task, cancelled, events>>
    BY <1>6, UnsentReports DEF Stutter, Phases, Phase
  <1> QED
    BY <1>1, <1>2, <1>3, <1>4, <1>5, <1>6
    DEF Receive, Handle, taskVars, abortVars, RecvUserInput, RecvSpawn, RecvInterrupt,
        RecvShutdown, TakeActive, RecordMarker, FlushMarker, CloseProcesses, RegisterTask,
        TerminateProcesses

\* The loop, the tasks and the writer together implement the slot: one turn in force,
\* none stopped unless evicted, each end reported once and of a turn that came to it.
THEOREM SessionImplementsSlot == Spec => SlotSpec
  <1>1. Init => Slot!Init /\ Doomed
    BY DEF Init, Slot!Init, Phase, Doomed, Reported, Sent
  <1>2. Inv /\ Ends /\ Doomed /\ [Next]_vars => Doomed'
    BY DoomedStep
  <1>3. Inv /\ Inv' /\ Ends /\ Doomed /\ [Next]_vars => [Slot!Next]_(Slot!slotVars)
    <2> SUFFICES ASSUME Inv, Inv', Ends, Doomed, [Next]_vars
                 PROVE  [Slot!Next]_(Slot!slotVars)
      OBVIOUS
    <2>1. Stutter => UNCHANGED Slot!slotVars
      BY DEF Stutter, Phases, Slot!slotVars
    <2>2. CASE Receive \/ Handle
      BY <2>1, <2>2, SlotHandle
    <2>3. ASSUME NEW t \in Subs, Run(t) PROVE [Slot!Next]_(Slot!slotVars)
      BY <2>1, <2>3, SlotRun
    <2>4. CASE (\E t \in Subs : Tool(t)) \/ Writer \/ UNCHANGED vars
      <3>1. UNCHANGED <<task, cancelled, events>>
        BY <2>4
        DEF Tool, ToolReturns, ToolDropped, Writer, WriteRollout, WriterFails, vars, taskVars, abortVars
      <3> QED BY <2>1, <3>1, UnsentReports DEF Stutter, Phases, Phase
    <2> QED BY <2>2, <2>3, <2>4 DEF Next
  <1> QED
    BY <1>1, <1>2, <1>3, SessionInv, SessionEnds, PTL DEF Spec, SlotSpec, Slot!Spec
=============================================================================
