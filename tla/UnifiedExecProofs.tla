-------------------------- MODULE UnifiedExecProofs --------------------------
(***************************************************************************)
(* Proofs, for any number of calls, ids and turns and any size of the      *)
(* store, of what UnifiedExec promises. The inductive invariant has four   *)
(* parts: what each stage of a call says of its process (Stages, Entries,  *)
(* EndWillCome), that no two processes were last used by one call (Uses),  *)
(* and that an id is in two hands only after a reservation of it was       *)
(* cleared (Holders, RunningIsFound). What is pruned needs one more: what  *)
(* is kept was not killed (Undead).                                        *)
(***************************************************************************)
EXTENDS UnifiedExec, FiniteSetTheorems, WellFoundedInduction, TLAPS

Stages ==
    \A c \in Calls :
        /\ stage[c] = "fresh" => id[c] = NoId
        /\ stage[c] \in {"fresh", "reserved", "polling"} => child[c] = "none"
        /\ stage[c] \in {"collecting", "releasing", "storing", "unwatched"} => child[c] # "none"
        /\ stage[c] = "reserved" \/ child[c] # "none" \/ c \in cleared => id[c] \in Ids
        /\ stage[c] = "releasing" => child[c] = "exited" /\ ended[c] = 1
        /\ ended[c] > 0 => /\ ended[c] = 1
                           /\ child[c] \in {"exited", "killed"}
                           /\ c \notin watched
                           /\ stage[c] \in {"releasing", "over"}
        /\ c \in watched => stage[c] = "over" /\ child[c] # "none"
        /\ asked[c] # NoId => stage[c] \in {"polling", "over"} /\ child[c] = "none"
        /\ stage[c] = "polling" => asked[c] \in Ids

Entries ==
    \A i \in Ids : processes[i] # 0 =>
        /\ id[processes[i]] = i
        /\ child[processes[i]] # "none"
        /\ stage[processes[i]] \in {"unwatched", "over"}

EndWillCome ==
    \A c \in Calls :
        child[c] # "none" /\ c \notin dropped => ended[c] > 0 \/ c \in watched \/ Live(c)

Control == TypeOK /\ Stages /\ Entries /\ EndWillCome

Uses ==
    \A p \in Calls :
        /\ child[p] # "none" => lastUsed[p] # 0
        /\ lastUsed[p] # 0 => /\ child[p] # "none"
                              /\ stage[lastUsed[p]] # "fresh"
                              /\ lastUsed[p] = p \/ asked[lastUsed[p]] # NoId
        /\ \A q \in Calls \ {p} : lastUsed[p] # 0 => lastUsed[q] # lastUsed[p]

\* A call has an id in hand until it is over or its process leaves the store.
Holds(p) ==
    \/ stage[p] \in {"reserved", "collecting", "releasing", "storing"}
    \/ child[p] # "none" /\ processes[id[p]] = p

Disturbed(i) == \E q \in cleared : id[q] = i

Holders ==
    /\ \A p \in Calls : Holds(p) => id[p] \in reserved \/ Disturbed(id[p])
    /\ \A p, q \in Calls : p # q /\ Holds(p) /\ Holds(q) /\ id[p] = id[q] => Disturbed(id[p])

Inv == Control /\ Uses /\ Holders /\ RunningIsFound

\* The kinds of step that a part of the invariant has to survive.
ExecStep(c) ==
    \/ \E i \in Ids : Allocate(c, i)
    \/ Refuse(c) \/ Open(c) \/ CollectedExited(c) \/ CollectedRunning(c) \/ Release(c)

OtherStep(c) ==
    \/ \E i \in Ids : Poll(c, i)
    \/ Watch(c) \/ Refresh(c) \/ Drop(c) \/ Exit(c) \/ ReportExit(c)

Closing == StartTurn \/ CloseFinished \/ CloseInterrupted

\* Every step is of one of these kinds.
LEMMA StepKinds ==
  ASSUME Next
  PROVE  \/ \E c \in Calls : ExecStep(c) \/ Store(c) \/ OtherStep(c)
         \/ Closing \/ FinishTurn \/ Interrupt
  BY DEF Next, CallStep, ExecStep, OtherStep, Closing

----------------------------------------------------------------------------
(* Calls and their processes.                                              *)

\* Zero is not the number of a call.
LEMMA NumbersOfCalls == Calls \subseteq Nat /\ 0 \notin Calls
  BY CallsAssumption DEF Calls

\* A session starts without calls and processes.
LEMMA InitControl == Init => Control
  BY NumbersOfCalls, IdsAssumption
  DEF Init, Control, TypeOK, Stages, Entries, EndWillCome, Live

\* Killing some processes kills those that run, and no other.
LEMMA KillKeeps ==
  ASSUME Control, NEW P, Kill(P)
  PROVE  /\ child' \in [Calls -> {"none", "running", "exited", "killed"}]
         /\ \A p \in Calls : child'[p] = child[p] \/ (child[p] = "running" /\ child'[p] = "killed")
         /\ \A p \in Calls : p \in P => child'[p] # "running"
         /\ \A p \in Calls : p \notin P => child'[p] = child[p]
  <1> USE DEF Control, TypeOK
  <1>1. ASSUME NEW p \in Calls
        PROVE  child'[p] = IF p \in P /\ child[p] = "running" THEN "killed" ELSE child[p]
    BY DEF Kill
  <1>2. \A p \in Calls : child'[p] = child[p] \/ (child[p] = "running" /\ child'[p] = "killed")
    BY <1>1
  <1>3. \A p \in Calls : child'[p] \in {"none", "running", "exited", "killed"}
    BY <1>2
  <1>4. child' = [p \in Calls |-> child'[p]]
    BY DEF Kill
  <1>5. /\ \A p \in Calls : p \in P => child'[p] # "running"
        /\ \A p \in Calls : p \notin P => child'[p] = child[p]
    BY <1>1
  <1>6. QED
    BY ONLY <1>2, <1>3, <1>4, <1>5

\* A step of exec_command up to the store.
LEMMA ExecControl ==
  ASSUME Control, NEW c \in Calls, ExecStep(c)
  PROVE  Control'
  <1> USE NumbersOfCalls, IdsAssumption
      DEF Control, TypeOK, Stages, Entries, EndWillCome, Live, Goto, Remove, ReportEnd,
          Kill, callVars, childVars, turnVars
  <1>1. CASE \E i \in Ids : Allocate(c, i)
    <2>1. TypeOK'
      BY <1>1 DEF Allocate, Begins
    <2>2. Stages'
      BY <1>1 DEF Allocate, Begins
    <2>3. Entries'
      BY <1>1 DEF Allocate, Begins
    <2>4. EndWillCome'
      BY <1>1 DEF Allocate, Begins
    <2>5. QED
      BY ONLY <2>1, <2>2, <2>3, <2>4 DEF Control
  <1>2. CASE Refuse(c)
    <2>1. TypeOK'
      BY <1>2 DEF Refuse
    <2>2. Stages'
      BY <1>2 DEF Refuse
    <2>3. Entries'
      BY <1>2 DEF Refuse
    <2>4. EndWillCome'
      BY <1>2 DEF Refuse
    <2>5. QED
      BY ONLY <2>1, <2>2, <2>3, <2>4 DEF Control
  <1>3. CASE Open(c)
    <2>1. TypeOK'
      BY <1>3 DEF Open
    <2>2. Stages'
      BY <1>3 DEF Open
    <2>3. Entries'
      BY <1>3 DEF Open
    <2>4. EndWillCome'
      BY <1>3 DEF Open
    <2>5. QED
      BY ONLY <2>1, <2>2, <2>3, <2>4 DEF Control
  <1>4. CASE CollectedExited(c)
    <2>1. TypeOK'
      BY <1>4 DEF CollectedExited
    <2>2. Stages'
      BY <1>4 DEF CollectedExited
    <2>3. Entries'
      BY <1>4 DEF CollectedExited
    <2>4. EndWillCome'
      BY <1>4 DEF CollectedExited
    <2>5. QED
      BY ONLY <2>1, <2>2, <2>3, <2>4 DEF Control
  <1>5. CASE CollectedRunning(c)
    <2>1. TypeOK'
      BY <1>5 DEF CollectedRunning
    <2>2. Stages'
      BY <1>5 DEF CollectedRunning
    <2>3. Entries'
      BY <1>5 DEF CollectedRunning
    <2>4. EndWillCome'
      BY <1>5 DEF CollectedRunning
    <2>5. QED
      BY ONLY <2>1, <2>2, <2>3, <2>4 DEF Control
  <1>6. CASE Release(c)
    <2>1. TypeOK'
      BY <1>6 DEF Release
    <2>2. Stages'
      BY <1>6 DEF Release
    <2>3. Entries'
      BY <1>6 DEF Release
    <2>4. EndWillCome'
      BY <1>6 DEF Release
    <2>5. QED
      BY ONLY <2>1, <2>2, <2>3, <2>4 DEF Control
  <1>7. QED
    BY ONLY ExecStep(c), <1>1, <1>2, <1>3, <1>4, <1>5, <1>6 DEF ExecStep

\* The store keeps a process under its own id.
LEMMA StoreControl ==
  ASSUME Control, NEW c \in Calls, Store(c)
  PROVE  Control'
  <1> USE NumbersOfCalls, IdsAssumption DEF Control, TypeOK
  <1>1. /\ stage[c] = "storing" /\ stage' = [stage EXCEPT ![c] = "unwatched"]
        /\ UNCHANGED <<id, asked, dropped, lastUsed, watched, ended, turn, turns, closers, cleared>>
    BY DEF Store, Goto, turnVars
  <1>2. id[c] \in Ids
    BY <1>1 DEF Stages
  <1>3. \E P : Kill(P)
    BY DEF Store
  <1>4. /\ child' \in [Calls -> {"none", "running", "exited", "killed"}]
        /\ \A p \in Calls : child'[p] = child[p] \/ (child[p] = "running" /\ child'[p] = "killed")
    BY <1>3, KillKeeps
  <1>5. \/ \E i \in Ids : /\ reserved' = reserved \ {i}
                          /\ processes' = [processes EXCEPT ![i] = 0, ![id[c]] = c]
        \/ /\ processes' = [processes EXCEPT ![id[c]] = c]
           /\ reserved' = reserved
    BY DEF Store, ToPrune, Prunable, Kept
  <1>6. /\ processes' \in [Ids -> Calls \cup {0}]
        /\ reserved' \subseteq Ids
        /\ \A j \in Ids : \/ processes'[j] \in {processes[j], 0}
                         \/ (j = id[c] /\ processes'[j] = c)
    <2>1. CASE \E i \in Ids : /\ reserved' = reserved \ {i}
                             /\ processes' = [processes EXCEPT ![i] = 0, ![id[c]] = c]
      BY <1>2, <2>1
    <2>2. CASE processes' = [processes EXCEPT ![id[c]] = c] /\ reserved' = reserved
      BY <1>2, <2>2
    <2>3. QED
      BY <1>5, <2>1, <2>2
  <1>7. TypeOK'
    BY <1>1, <1>4, <1>6
  <1>8. Stages'
    BY <1>1, <1>4 DEF Stages
  <1>9. Entries'
    <2>1. ASSUME NEW j \in Ids, processes'[j] # 0
          PROVE  processes'[j] \in Calls /\ (processes'[j] = processes[j] \/ (j = id[c] /\ processes'[j] = c))
      BY <1>6, <2>1
    <2>2. child[c] # "none"
      BY <1>1 DEF Stages
    <2>3. ASSUME NEW j \in Ids, processes'[j] # 0
          PROVE  /\ id[processes'[j]] = j
                 /\ child'[processes'[j]] # "none"
                 /\ stage'[processes'[j]] \in {"unwatched", "over"}
      <3>1. CASE processes'[j] = processes[j]
        <4>1. id[processes[j]] = j /\ child[processes[j]] # "none"
              /\ stage[processes[j]] \in {"unwatched", "over"}
          BY <2>3, <3>1 DEF Entries
        <4>2. processes[j] \in Calls
          BY <2>1, <2>3, <3>1
        <4>3. child'[processes[j]] # "none"
          BY ONLY <4>1, <4>2, <1>4
        <4>4. stage'[processes[j]] \in {"unwatched", "over"}
          BY <4>1, <4>2, <1>1
        <4>5. QED
          BY ONLY <3>1, <4>1, <4>3, <4>4
      <3>2. CASE j = id[c] /\ processes'[j] = c
        <4>1. child'[c] # "none"
          BY <1>4, <2>2
        <4>2. stage'[c] = "unwatched"
          BY <1>1
        <4>3. QED
          BY ONLY <3>2, <4>1, <4>2
      <3>3. QED
        BY <2>1, <2>3, <3>1, <3>2
    <2>4. QED
      BY <1>1, <2>3 DEF Entries
  <1>10. EndWillCome'
    BY <1>1, <1>4 DEF EndWillCome, Live
  <1>11. QED
    BY ONLY <1>7, <1>8, <1>9, <1>10 DEF Control

\* A step of write_stdin, of a process or of its watcher, and a dropped call.
LEMMA OtherControl ==
  ASSUME Control, NEW c \in Calls, OtherStep(c)
  PROVE  Control'
  <1> USE NumbersOfCalls, IdsAssumption
      DEF Control, TypeOK, Stages, Entries, EndWillCome, Live, Goto, Remove, ReportEnd,
          Kill, callVars, childVars, turnVars
  <1>1. CASE \E i \in Ids : Poll(c, i)
    <2>1. PICK i \in Ids : Poll(c, i)
      BY <1>1
    <2>2. PICK s \in {"polling", "over"} : stage' = [stage EXCEPT ![c] = s]
      BY <2>1 DEF Poll
    <2>3. /\ stage[c] = "fresh"
          /\ lastUsed' = [lastUsed EXCEPT ![processes[i]] = c]
          /\ asked' = [asked EXCEPT ![c] = i]
          /\ UNCHANGED <<processes, reserved, id, dropped, child, watched, ended, turn, turns,
                         closers, cleared>>
      BY <2>1 DEF Poll, Begins
    <2>4. TypeOK'
      BY <2>2, <2>3
    <2>5. Stages'
      BY <2>2, <2>3
    <2>6. \A j \in Ids : processes[j] # 0 => processes[j] \in Calls /\ processes[j] # c
      BY <2>3
    <2>7. Entries'
      BY <2>2, <2>3, <2>6
    <2>8. EndWillCome'
      BY <2>2, <2>3
    <2>9. QED
      BY ONLY <2>4, <2>5, <2>7, <2>8 DEF Control
  <1>2. CASE Watch(c)
    <2>1. TypeOK'
      BY <1>2 DEF Watch
    <2>2. Stages'
      BY <1>2 DEF Watch
    <2>3. Entries'
      BY <1>2 DEF Watch
    <2>4. EndWillCome'
      BY <1>2 DEF Watch
    <2>5. QED
      BY ONLY <2>1, <2>2, <2>3, <2>4 DEF Control
  <1>3. CASE Refresh(c)
    <2>1. TypeOK'
      BY <1>3 DEF Refresh
    <2>2. Stages'
      BY <1>3 DEF Refresh
    <2>3. Entries'
      BY <1>3 DEF Refresh
    <2>4. EndWillCome'
      BY <1>3 DEF Refresh
    <2>5. QED
      BY ONLY <2>1, <2>2, <2>3, <2>4 DEF Control
  <1>4. CASE Drop(c)
    <2>1. TypeOK'
      BY <1>4 DEF Drop
    <2>2. Stages'
      BY <1>4 DEF Drop
    <2>3. Entries'
      BY <1>4 DEF Drop
    <2>4. EndWillCome'
      BY <1>4 DEF Drop
    <2>5. QED
      BY ONLY <2>1, <2>2, <2>3, <2>4 DEF Control
  <1>5. CASE Exit(c)
    <2>1. TypeOK'
      BY <1>5 DEF Exit
    <2>2. Stages'
      BY <1>5 DEF Exit
    <2>3. Entries'
      BY <1>5 DEF Exit
    <2>4. EndWillCome'
      BY <1>5 DEF Exit
    <2>5. QED
      BY ONLY <2>1, <2>2, <2>3, <2>4 DEF Control
  <1>6. CASE ReportExit(c)
    <2>1. TypeOK'
      BY <1>6 DEF ReportExit
    <2>2. Stages'
      BY <1>6 DEF ReportExit
    <2>3. Entries'
      BY <1>6 DEF ReportExit
    <2>4. EndWillCome'
      BY <1>6 DEF ReportExit
    <2>5. QED
      BY ONLY <2>1, <2>2, <2>3, <2>4 DEF Control
  <1>7. QED
    BY ONLY OtherStep(c), <1>1, <1>2, <1>3, <1>4, <1>5, <1>6 DEF OtherStep

\* Terminating all processes.
LEMMA TerminateAllKills ==
  ASSUME Control, TerminateAll
  PROVE  /\ processes' = [i \in Ids |-> 0] /\ reserved' = {}
         /\ child' \in [Calls -> {"none", "running", "exited", "killed"}]
         /\ \A p \in Calls : child'[p] = child[p] \/ (child[p] = "running" /\ child'[p] = "killed")
         /\ \A i \in Ids : processes[i] # 0 => child'[processes[i]] # "running"
         /\ cleared \subseteq cleared' /\ cleared' \subseteq Calls
         /\ \A c \in cleared' \ cleared : id[c] \in reserved
         /\ \A c \in Calls : id[c] \in reserved /\ Live(c) => c \in cleared'
  <1> USE DEF Control, TypeOK
  <1>1. /\ processes' = [i \in Ids |-> 0] /\ reserved' = {}
        /\ cleared' = cleared \cup {c \in Calls : id[c] \in reserved /\ Live(c)}
    BY DEF TerminateAll
  <1>2. Kill({processes[i] : i \in Kept})
    BY DEF TerminateAll
  <1>3. ASSUME NEW i \in Ids, processes[i] # 0
        PROVE  processes[i] \in Calls /\ processes[i] \in {processes[j] : j \in Kept}
    BY <1>3 DEF Kept
  <1>4. QED
    BY <1>1, <1>2, <1>3, KillKeeps

\* The end of a turn.
LEMMA TurnControl ==
  ASSUME Control, Closing \/ FinishTurn \/ Interrupt
  PROVE  Control'
  <1> USE DEF callVars, childVars
  <1>1. CASE Closing
    <2>1. TerminateAll
      BY <1>1 DEF Closing, StartTurn, CloseFinished, CloseInterrupted
    <2>2. /\ UNCHANGED <<stage, id, asked, dropped, lastUsed, watched, ended>>
          /\ turn' \in {"idle", "running", "stopping"} /\ turns' \in Nat /\ closers' \in Nat
      BY <1>1 DEF Closing, StartTurn, CloseFinished, CloseInterrupted, Control, TypeOK
    <2>3. TypeOK'
      BY <2>1, <2>2, TerminateAllKills DEF Control, TypeOK
    <2>4. Stages'
      BY <2>1, <2>2, TerminateAllKills DEF Control, TypeOK, Stages
    <2>5. Entries'
      BY <2>1, TerminateAllKills DEF Entries
    <2>6. EndWillCome'
      BY <2>1, <2>2, TerminateAllKills DEF Control, EndWillCome, Live
    <2>7. QED
      BY ONLY <2>3, <2>4, <2>5, <2>6 DEF Control
  <1>2. CASE FinishTurn
    BY <1>2 DEF FinishTurn, Control, TypeOK, Stages, Entries, EndWillCome, Live
  <1>3. CASE Interrupt
    BY <1>3 DEF Interrupt, Control, TypeOK, Stages, Entries, EndWillCome, Live
  <1>4. QED
    BY ONLY Closing \/ FinishTurn \/ Interrupt, <1>1, <1>2, <1>3

\* Every step keeps what the stages say.
LEMMA StepControl ==
  ASSUME Control, [Next]_vars
  PROVE  Control'
  <1>1. CASE Next
    BY <1>1, StepKinds, ExecControl, StoreControl, OtherControl, TurnControl
  <1>2. CASE UNCHANGED vars
    BY <1>2 DEF vars, Control, TypeOK, Stages, Entries, EndWillCome, Live, callVars,
                childVars, turnVars
  <1>3. QED
    BY <1>1, <1>2

----------------------------------------------------------------------------
(* No call is the last user of two processes.                              *)

\* No process was used yet.
LEMMA InitUses == Init => Uses
  BY DEF Init, Uses

\* A call uses one process: the one it started or the one it polls.
LEMMA StepUses ==
  ASSUME Control, Uses, [Next]_vars
  PROVE  Uses'
  <1> USE NumbersOfCalls, IdsAssumption DEF Control, TypeOK, Stages, Uses
  <1>1. ASSUME NEW c \in Calls, Open(c)
        PROVE  Uses'
    <2>1. /\ stage[c] = "reserved" /\ stage' = [stage EXCEPT ![c] = "collecting"]
          /\ lastUsed' = [lastUsed EXCEPT ![c] = c]
          /\ child' = [child EXCEPT ![c] = "running"] /\ asked' = asked
      BY <1>1 DEF Open, Goto
    <2>2. asked[c] = NoId
      BY <2>1
    <2>3. \A p \in Calls \ {c} : lastUsed[p] # c
      BY <2>2
    <2>4. QED
      BY <2>1, <2>2, <2>3
  <1>2. ASSUME NEW c \in Calls, NEW i \in Ids, Poll(c, i)
        PROVE  Uses'
    <2>1. PICK s \in {"polling", "over"} : stage' = [stage EXCEPT ![c] = s]
      BY <1>2 DEF Poll, Goto
    <2>2. /\ stage[c] = "fresh" /\ processes[i] # 0
          /\ lastUsed' = [lastUsed EXCEPT ![processes[i]] = c]
          /\ asked' = [asked EXCEPT ![c] = i] /\ child' = child
      BY <1>2 DEF Poll, Begins
    <2>3. processes[i] \in Calls /\ child[processes[i]] # "none"
      BY <2>2 DEF Entries
    <2>4. \A p \in Calls : lastUsed[p] # c
      BY <2>2
    <2>5. QED
      BY <2>1, <2>2, <2>3, <2>4
  <1>3. ASSUME /\ \A c \in Calls : ~Open(c) /\ \A i \in Ids : ~Poll(c, i)
               /\ Next
        PROVE  Uses'
    <2>1. /\ lastUsed' = lastUsed /\ asked' = asked
          /\ \A p \in Calls : stage[p] # "fresh" => stage'[p] # "fresh"
      <3>1. ASSUME NEW c \in Calls, ExecStep(c)
            PROVE  /\ lastUsed' = lastUsed /\ asked' = asked
                   /\ \A p \in Calls : stage[p] # "fresh" => stage'[p] # "fresh"
        BY <1>3, <3>1 DEF ExecStep, Allocate, Refuse, CollectedExited, CollectedRunning, Release,
                          Goto, childVars
      <3>2. ASSUME NEW c \in Calls, Store(c)
            PROVE  /\ lastUsed' = lastUsed /\ asked' = asked
                   /\ \A p \in Calls : stage[p] # "fresh" => stage'[p] # "fresh"
        BY <3>2 DEF Store, Goto
      <3>3. ASSUME NEW c \in Calls, OtherStep(c)
            PROVE  /\ lastUsed' = lastUsed /\ asked' = asked
                   /\ \A p \in Calls : stage[p] # "fresh" => stage'[p] # "fresh"
        <4>1. Watch(c) \/ Refresh(c) \/ Drop(c) \/ Exit(c) \/ ReportExit(c)
          BY ONLY <1>3, <3>3 DEF OtherStep
        <4>2. /\ lastUsed' = lastUsed /\ asked' = asked
              /\ stage' = stage \/ stage' = [stage EXCEPT ![c] = "over"]
          BY ONLY <4>1 DEF Watch, Refresh, Drop, Exit, ReportExit, Goto, callVars, childVars
        <4>3. QED
          BY <4>2
      <3>4. ASSUME Closing \/ FinishTurn \/ Interrupt
            PROVE  /\ lastUsed' = lastUsed /\ asked' = asked
                   /\ \A p \in Calls : stage[p] # "fresh" => stage'[p] # "fresh"
        BY <3>4 DEF Closing, StartTurn, CloseFinished, CloseInterrupted, FinishTurn, Interrupt,
                    callVars, childVars
      <3>5. QED
        BY ONLY <1>3, StepKinds, <3>1, <3>2, <3>3, <3>4
    <2>2. \/ child' = child
          \/ \E c \in Calls : child[c] = "running" /\ child' = [child EXCEPT ![c] = "exited"]
          \/ \E P : Kill(P)
      <3>1. ASSUME NEW c \in Calls, ExecStep(c)
            PROVE  child' = child
        BY <1>3, <3>1 DEF ExecStep, Allocate, Refuse, CollectedExited, CollectedRunning, Release,
                          childVars
      <3>2. ASSUME NEW c \in Calls, Store(c)
            PROVE  \E P : Kill(P)
        BY <3>2 DEF Store
      <3>3. ASSUME NEW c \in Calls, Drop(c)
            PROVE  \E P : Kill(P)
        BY <3>3 DEF Drop
      <3>4. ASSUME NEW c \in Calls, OtherStep(c), ~Drop(c)
            PROVE  \/ child' = child
                   \/ child[c] = "running" /\ child' = [child EXCEPT ![c] = "exited"]
        BY <1>3, <3>4 DEF OtherStep, Watch, Refresh, Exit, ReportExit, childVars
      <3>5. ASSUME Closing
            PROVE  \E P : Kill(P)
        <4>1. TerminateAll
          BY <3>5 DEF Closing, StartTurn, CloseFinished, CloseInterrupted
        <4>2. QED
          BY <4>1 DEF TerminateAll
      <3>6. FinishTurn \/ Interrupt => child' = child
        BY DEF FinishTurn, Interrupt, childVars
      <3>7. QED
        BY ONLY <1>3, StepKinds, <3>1, <3>2, <3>3, <3>4, <3>5, <3>6
    <2>3. \A p \in Calls : child'[p] = "none" <=> child[p] = "none"
      BY <2>2, KillKeeps
    <2>4. QED
      BY <2>1, <2>3
  <1>4. CASE UNCHANGED vars
    BY <1>4 DEF vars, callVars, childVars
  <1>5. QED
    BY <1>1, <1>2, <1>3, <1>4

----------------------------------------------------------------------------
(* Ids in two hands.                                                       *)

\* Nothing is in anybody's hands yet.
LEMMA InitHolders == Init => Holders /\ RunningIsFound
  BY DEF Init, Holders, Holds, RunningIsFound

\* Removing what is kept under the id of a holder takes nothing from others
\* unless the id was disturbed.
LEMMA RemovedIsDisturbed ==
  ASSUME Control, Holders, NEW c \in Calls, Holds(c),
         NEW p \in Calls \ {c}, Holds(p), id[p] = id[c]
  PROVE  Disturbed(id[p])
  BY DEF Holders

\* Who lost an id to another call has lost it for good.
LEMMA LostStaysLost ==
  ASSUME Control, NEW p \in Calls, child[p] # "none",
         NEW q \in Calls \ {p}, id[q] = id[p], {p, q} \cap cleared # {},
         cleared \subseteq cleared',
         \A d \in Calls : id[d] # NoId => id'[d] = id[d]
  PROVE  \E r \in Calls \ {p} : id'[r] = id'[p] /\ {p, r} \cap cleared' # {}
  <1>1. id[p] # NoId /\ id[q] # NoId
    BY IdsAssumption DEF Control, Stages
  <1>2. QED
    BY <1>1

\* A disturbed id stays so.
LEMMA DisturbedStays ==
  ASSUME Control, NEW i \in Ids, Disturbed(i), cleared \subseteq cleared',
         \A d \in Calls : id[d] # NoId => id'[d] = id[d]
  PROVE  Disturbed(i)'
  BY IdsAssumption DEF Disturbed, Control, TypeOK

\* When two calls hold one id, one that is running may be lost.
LEMMA DisturbedIsLost ==
  ASSUME Control, NEW p \in Calls, NEW c \in Calls \ {p}, id[c] = id[p], Disturbed(id[p])
  PROVE  \E q \in Calls \ {p} : id[q] = id[p] /\ {p, q} \cap cleared # {}
  <1>1. PICK r \in cleared : id[r] = id[p]
    BY DEF Disturbed
  <1>2. r \in Calls
    BY DEF Control, TypeOK
  <1>3. CASE r = p
    BY <1>1, <1>3
  <1>4. CASE r # p
    BY <1>1, <1>2, <1>4
  <1>5. QED
    BY <1>3, <1>4

\* What most steps do to hands and ids: nobody gets an id, and an id that is
\* released or taken from the store was in other hands only if disturbed.
LEMMA FewerHolders ==
  ASSUME Control, Holders, id' = id, cleared \subseteq cleared',
         \A p \in Calls : Holds(p)' => Holds(p),
         \A p \in Calls : Holds(p)' => \/ id[p] \in reserved => id[p] \in reserved'
                                       \/ Disturbed(id[p]) \/ Disturbed(id[p])'
  PROVE  Holders'
  <1>1. \A p \in Calls : Holds(p) => id[p] \in Ids
    BY DEF Control, Stages, Holds
  <1>2. ASSUME NEW i \in Ids, Disturbed(i)
        PROVE  Disturbed(i)'
    BY <1>2, DisturbedStays
  <1>3. ASSUME NEW p \in Calls, Holds(p)'
        PROVE  id[p] \in reserved' \/ Disturbed(id[p])'
    <2>1. Holds(p) /\ id[p] \in Ids
      BY <1>1, <1>3
    <2>2. id[p] \in reserved \/ Disturbed(id[p])
      BY <2>1 DEF Holders
    <2>3. QED
      BY <1>2, <1>3, <2>1, <2>2
  <1>4. ASSUME NEW p \in Calls, NEW q \in Calls, p # q, Holds(p)', Holds(q)', id[p] = id[q]
        PROVE  Disturbed(id[p])'
    BY <1>1, <1>2, <1>4 DEF Holders
  <1>5. QED
    BY <1>3, <1>4 DEF Holders, Disturbed

\* exec_command: an id is given out when it is free, so that whoever holds it
\* was disturbed, and is freed by its holder.
LEMMA ExecHolders ==
  ASSUME Control, Holders, NEW c \in Calls, ExecStep(c)
  PROVE  Holders'
  <1>1. CASE \E i \in Ids : Allocate(c, i)
    <2>1. PICK i \in Ids : Allocate(c, i)
      BY <1>1
    <2>2. /\ stage[c] = "fresh" /\ stage' = [stage EXCEPT ![c] = "reserved"]
          /\ id' = [id EXCEPT ![c] = i] /\ reserved' = reserved \cup {i} /\ i \notin reserved
          /\ UNCHANGED <<processes, child, cleared>>
      BY <2>1 DEF Allocate, Begins, Goto, childVars
    <2>3. /\ c \notin cleared /\ id[c] = NoId /\ ~Holds(c)
          /\ cleared \subseteq Calls
      BY <2>2, IdsAssumption DEF Control, TypeOK, Stages, Holds
    <2>4. \A p \in Calls \ {c} : (Holds(p)' <=> Holds(p)) /\ id'[p] = id[p]
      BY <2>2 DEF Control, TypeOK, Holds
    <2>5. \A j : Disturbed(j)' <=> Disturbed(j)
      BY <2>2, <2>3 DEF Control, TypeOK, Disturbed
    <2>6. id'[c] = i
      BY <2>2 DEF Control, TypeOK
    <2>7. \A p \in Calls \ {c} : Holds(p) /\ id[p] = i => Disturbed(i)
      BY <2>2 DEF Holders
    <2>8. \A p \in Calls : Holds(p)' => id'[p] \in reserved' \/ Disturbed(id'[p])
      BY <2>2, <2>4, <2>6 DEF Holders
    <2>9. \A p, q \in Calls : p # q /\ Holds(p)' /\ Holds(q)' /\ id'[p] = id'[q] => Disturbed(id'[p])
      BY <2>4, <2>6, <2>7 DEF Holders
    <2>10. cleared' = cleared
      BY <2>2
    <2>11. QED
      BY <2>5, <2>8, <2>9, <2>10, <2>2, <2>3 DEF Holders, Disturbed
  <1>2. CASE Refuse(c) \/ Release(c)
    <2>1. /\ Holds(c) /\ child[c] \in {"none", "exited"}
          /\ stage[c] \in {"reserved", "releasing"}
          /\ stage' = [stage EXCEPT ![c] = "over"]
          /\ UNCHANGED <<id, child, cleared>>
          /\ Remove(id[c]) \/ UNCHANGED <<processes, reserved>>
      BY <1>2 DEF Refuse, Release, Goto, childVars, Holds, Control, Stages
    <2>2. \A p \in Calls : Holds(p)' => Holds(p) /\ p # c
      BY <2>1, IdsAssumption, NumbersOfCalls DEF Control, TypeOK, Stages, Entries, Holds, Remove
    <2>3. reserved' = reserved \/ reserved' = reserved \ {id[c]}
      BY <2>1 DEF Remove
    <2>4. \A p \in Calls : Holds(p)' /\ id[p] = id[c] => Disturbed(id[p])
      BY <2>1, <2>2, RemovedIsDisturbed
    <2>5. QED
      BY <2>1, <2>2, <2>3, <2>4, FewerHolders
  <1>3. CASE Open(c) \/ CollectedExited(c) \/ CollectedRunning(c)
    <2>1. /\ UNCHANGED <<id, processes, reserved, cleared>>
          /\ stage[c] \in {"reserved", "collecting"}
          /\ \E s \in {"collecting", "releasing", "storing"} : stage' = [stage EXCEPT ![c] = s]
          /\ \A p \in Calls \ {c} : child'[p] = child[p]
      BY <1>3 DEF Open, CollectedExited, CollectedRunning, Goto, childVars, Control, TypeOK
    <2>2. \A p \in Calls : Holds(p)' => Holds(p)
      BY <2>1 DEF Holds, Control, TypeOK
    <2>3. QED
      BY <2>1, <2>2, FewerHolders
  <1>4. QED
    BY ONLY ExecStep(c), <1>1, <1>2, <1>3 DEF ExecStep

\* The store: the process keeps the id in hand; the pruned one gives its own up.
LEMMA StoreHolders ==
  ASSUME Control, Holders, NEW c \in Calls, Store(c)
  PROVE  Holders'
  <1> USE NumbersOfCalls, IdsAssumption
  <1>1. /\ stage[c] = "storing" /\ stage' = [stage EXCEPT ![c] = "unwatched"]
        /\ UNCHANGED <<id, cleared>>
    BY DEF Store, Goto
  <1>2. id[c] \in Ids /\ Holds(c)
    BY <1>1 DEF Control, Stages, Holds
  <1>3. \A p \in Calls : child'[p] = "none" <=> child[p] = "none"
    <2>1. \E P : Kill(P)
      BY DEF Store
    <2>2. QED
      BY <2>1, KillKeeps
  <1>4. CASE MustPrune /\ ToPrune # {}
    <2>1. PICK i \in ToPrune : /\ reserved' = reserved \ {i}
                               /\ processes' = [processes EXCEPT ![i] = 0, ![id[c]] = c]
      BY <1>4 DEF Store
    <2>2. i \in Ids /\ processes[i] # 0 /\ processes[i] \in Calls
      BY DEF ToPrune, Prunable, Kept, Control, TypeOK
    <2>3. PICK r \in Calls : r = processes[i]
      BY <2>2
    <2>4. Holds(r) /\ id[r] = i /\ r # c
      BY <1>1, <2>2, <2>3 DEF Control, Entries, Holds
    <2>5. \A j \in Ids : processes'[j] = IF j = id[c] THEN c ELSE IF j = i THEN 0 ELSE processes[j]
      BY <1>2, <2>1, <2>2 DEF Control, TypeOK
    <2>6. \A p \in Calls : child[p] # "none" => id[p] \in Ids
      BY DEF Control, Stages
    <2>7. \A p \in Calls : Holds(p)' => Holds(p) /\ p # r
      BY <1>1, <1>2, <1>3, <2>2, <2>3, <2>4, <2>5, <2>6 DEF Holds, Control, TypeOK, Entries
    <2>8. \A p \in Calls : Holds(p)' /\ id[p] = i => Disturbed(id[p])
      BY <2>4, <2>7, RemovedIsDisturbed
    <2>9. QED
      BY <1>1, <2>1, <2>7, <2>8, FewerHolders
  <1>5. CASE ~(MustPrune /\ ToPrune # {})
    <2>1. reserved' = reserved /\ processes' = [processes EXCEPT ![id[c]] = c]
      BY <1>5 DEF Store
    <2>2. \A j \in Ids : processes'[j] = IF j = id[c] THEN c ELSE processes[j]
      BY <1>2, <2>1 DEF Control, TypeOK
    <2>3. \A p \in Calls : child[p] # "none" => id[p] \in Ids
      BY DEF Control, Stages
    <2>4. \A p \in Calls : Holds(p)' => Holds(p)
      BY <1>1, <1>2, <1>3, <2>2, <2>3 DEF Holds, Control, TypeOK
    <2>5. QED
      BY <1>1, <2>1, <2>4, FewerHolders
  <1>6. QED
    BY <1>4, <1>5

\* write_stdin, processes and watchers, dropped calls.
LEMMA OtherHolders ==
  ASSUME Control, Holders, NEW c \in Calls, OtherStep(c)
  PROVE  Holders'
  <1> USE NumbersOfCalls, IdsAssumption
  <1>1. CASE Refresh(c) /\ Remove(asked[c]) /\ processes[asked[c]] # 0
    <2>1. /\ asked[c] \in Ids /\ stage[c] = "polling" /\ stage' = [stage EXCEPT ![c] = "over"]
          /\ UNCHANGED <<id, child, cleared>>
      BY <1>1 DEF Refresh, Goto, childVars, Control, Stages
    <2>2. PICK r \in Calls : r = processes[asked[c]]
      BY <1>1, <2>1 DEF Control, TypeOK
    <2>3. Holds(r) /\ id[r] = asked[c] /\ stage[r] \in {"unwatched", "over"}
      BY <1>1, <2>1, <2>2 DEF Control, Entries, Holds
    <2>4. \A p \in Calls : child[p] # "none" => id[p] \in Ids
      BY DEF Control, Stages
    <2>5. \A p \in Calls : Holds(p)' => Holds(p) /\ p # r
      BY <1>1, <2>1, <2>2, <2>3, <2>4 DEF Remove, Holds, Control, TypeOK
    <2>6. \A p \in Calls : Holds(p)' /\ id[p] = asked[c] => Disturbed(id[p])
      BY <2>3, <2>5, RemovedIsDisturbed
    <2>7. reserved' = reserved \ {asked[c]}
      BY <1>1 DEF Remove
    <2>8. QED
      BY <2>1, <2>5, <2>6, <2>7, FewerHolders
  <1>2. CASE ~(Refresh(c) /\ Remove(asked[c]) /\ processes[asked[c]] # 0)
    <2>1. UNCHANGED <<id, cleared, processes, reserved>>
      BY <1>2 DEF OtherStep, Poll, Watch, Refresh, Drop, Exit, ReportExit, callVars
    <2>2. \A p \in Calls : stage'[p] = stage[p] \/ stage'[p] \in {"polling", "over"}
      BY DEF OtherStep, Poll, Watch, Refresh, Drop, Exit, ReportExit, callVars, Goto, Control, TypeOK
    <2>3. \A p \in Calls : child'[p] # "none" => child[p] # "none"
      <3>1. CASE Drop(c)
        BY <3>1, KillKeeps DEF Drop
      <3>2. CASE ~Drop(c)
        BY <3>2 DEF OtherStep, Poll, Watch, Refresh, Exit, ReportExit, childVars, Control, TypeOK
      <3>3. QED
        BY <3>1, <3>2
    <2>4. \A p \in Calls : Holds(p)' => Holds(p)
      BY <2>1, <2>2, <2>3 DEF Holds
    <2>5. QED
      BY <2>1, <2>4, FewerHolders
  <1>3. QED
    BY <1>1, <1>2

\* A reservation that is cleared under a call leaves its id disturbed.
LEMMA TurnHolders ==
  ASSUME Control, Holders, Closing \/ FinishTurn \/ Interrupt
  PROVE  Holders'
  <1>1. CASE Closing
    <2>1. TerminateAll
      BY <1>1 DEF Closing, StartTurn, CloseFinished, CloseInterrupted
    <2>2. UNCHANGED <<id, stage>>
      BY <1>1 DEF Closing, StartTurn, CloseFinished, CloseInterrupted, callVars
    <2>3. \A p \in Calls : child[p] # "none" => id[p] \in Ids
      BY DEF Control, Stages
    <2>4. \A p \in Calls : Holds(p)' => /\ Holds(p)
                                        /\ stage[p] \in {"reserved", "collecting", "releasing", "storing"}
      BY <2>1, <2>2, <2>3, TerminateAllKills, NumbersOfCalls DEF Holds
    <2>5. \A p \in Calls : Holds(p)' /\ id[p] \in reserved => Disturbed(id[p])'
      BY <2>1, <2>2, <2>4, TerminateAllKills DEF Disturbed, Live
    <2>6. cleared \subseteq cleared'
      BY <2>1, TerminateAllKills
    <2>7. QED
      BY <2>2, <2>4, <2>5, <2>6, FewerHolders
  <1>2. CASE FinishTurn \/ Interrupt
    <2>1. UNCHANGED <<id, cleared, stage, processes, reserved, child>>
      BY <1>2 DEF FinishTurn, Interrupt, callVars, childVars
    <2>2. QED
      BY <2>1 DEF Holders, Holds, Disturbed
  <1>3. QED
    BY <1>1, <1>2

\* Every step keeps the ids in order.
LEMMA StepHolders ==
  ASSUME Control, Holders, [Next]_vars
  PROVE  Holders'
  <1>1. CASE Next
    BY <1>1, StepKinds, ExecHolders, StoreHolders, OtherHolders, TurnHolders
  <1>2. CASE UNCHANGED vars
    BY <1>2 DEF vars, callVars, childVars, Holders, Holds, Disturbed
  <1>3. QED
    BY <1>1, <1>2

----------------------------------------------------------------------------
(* Running processes are found.                                            *)

\* A process that runs on stays found when no other takes its place.
LEMMA StaysFound ==
  ASSUME Control, RunningIsFound, cleared \subseteq cleared',
         \A d \in Calls : id[d] # NoId => id'[d] = id[d],
         NEW p \in Calls, child[p] = "running",
         stage[p] \in {"collecting", "storing"} =>
             stage'[p] \in {"collecting", "storing"} \/ processes'[id[p]] = p,
         processes[id[p]] = p => \/ processes'[id[p]] = p
                                 \/ \E q \in Calls \ {p} : id[q] = id[p] /\ Disturbed(id[p])
  PROVE  \/ stage'[p] \in {"collecting", "storing"}
         \/ processes'[id'[p]] = p
         \/ \E q \in Calls \ {p} : id'[q] = id'[p] /\ {p, q} \cap cleared' # {}
  <1>1. id'[p] = id[p]
    BY IdsAssumption DEF Control, Stages
  <1>2. CASE stage[p] \in {"collecting", "storing"}
    BY <1>1, <1>2
  <1>3. CASE processes[id[p]] = p
    <2>1. ASSUME NEW q \in Calls \ {p}, id[q] = id[p], Disturbed(id[p])
          PROVE  \E r \in Calls \ {p} : id[r] = id[p] /\ {p, r} \cap cleared # {}
      BY <2>1, DisturbedIsLost
    <2>2. QED
      BY <1>1, <1>3, <2>1, LostStaysLost
  <1>4. CASE \E q \in Calls \ {p} : id[q] = id[p] /\ {p, q} \cap cleared # {}
    BY <1>4, LostStaysLost
  <1>5. QED
    BY <1>2, <1>3, <1>4 DEF RunningIsFound

\* exec_command.
LEMMA ExecFound ==
  ASSUME Control, Holders, RunningIsFound, NEW c \in Calls, ExecStep(c)
  PROVE  RunningIsFound'
  <1> USE NumbersOfCalls, IdsAssumption
  <1>1. cleared' = cleared /\ \A d \in Calls : id[d] # NoId => id'[d] = id[d]
    BY DEF ExecStep, Allocate, Begins, Refuse, Open, CollectedExited, CollectedRunning, Release,
           Control, TypeOK, Stages
  <1>2. CASE Open(c)
    <2>1. /\ stage' = [stage EXCEPT ![c] = "collecting"] /\ child' = [child EXCEPT ![c] = "running"]
          /\ UNCHANGED <<id, processes>>
      BY <1>2 DEF Open, Goto
    <2>2. \A p \in Calls \ {c} : child'[p] = child[p] /\ stage'[p] = stage[p]
      BY <2>1 DEF Control, TypeOK
    <2>3. stage'[c] = "collecting"
      BY <2>1 DEF Control, TypeOK
    <2>4. QED
      BY <1>1, <2>1, <2>2, <2>3 DEF RunningIsFound
  <1>3. CASE ~Open(c)
    <2>1. child' = child
      BY <1>3 DEF ExecStep, Allocate, Refuse, CollectedExited, CollectedRunning, Release, childVars
    <2>2. \A p \in Calls : child[p] = "running" /\ stage[p] \in {"collecting", "storing"} =>
                             stage'[p] \in {"collecting", "storing"}
      BY <1>3 DEF ExecStep, Allocate, Begins, Refuse, CollectedExited, CollectedRunning, Release,
                  Goto, Control, TypeOK
    <2>3. \A i \in Ids : \/ processes'[i] = processes[i]
                         \/ i = id[c] /\ Holds(c) /\ child[c] # "running"
      BY <1>3 DEF ExecStep, Allocate, Refuse, CollectedExited, CollectedRunning, Release, Remove,
                  Control, TypeOK, Stages, Holds
    <2>4. ASSUME NEW p \in Calls, child[p] = "running", processes[id[p]] = p
          PROVE  \/ processes'[id[p]] = p
                 \/ \E q \in Calls \ {p} : id[q] = id[p] /\ Disturbed(id[p])
      <3>1. id[p] \in Ids /\ Holds(p)
        BY <2>4 DEF Control, Stages, Holds
      <3>2. CASE id[p] = id[c] /\ Holds(c) /\ child[c] # "running"
        BY <2>4, <3>1, <3>2, RemovedIsDisturbed
      <3>3. QED
        BY <2>3, <2>4, <3>1, <3>2
    <2>5. QED
      BY <1>1, <2>1, <2>2, <2>4, StaysFound DEF RunningIsFound
  <1>4. QED
    BY <1>2, <1>3

\* The store: what is pruned is killed, what is replaced was disturbed.
LEMMA StoreFound ==
  ASSUME Control, Holders, RunningIsFound, NEW c \in Calls, Store(c)
  PROVE  RunningIsFound'
  <1> USE NumbersOfCalls, IdsAssumption
  <1>1. /\ stage[c] = "storing" /\ stage' = [stage EXCEPT ![c] = "unwatched"]
        /\ UNCHANGED <<id, cleared>>
    BY DEF Store, Goto
  <1>2. id[c] \in Ids /\ Holds(c)
    BY <1>1 DEF Control, Stages, Holds
  <1>3. \A p \in Calls : child'[p] = "running" => child[p] = "running"
    <2>1. \E P : Kill(P)
      BY DEF Store
    <2>2. QED
      BY <2>1, KillKeeps
  <1>4. \A i \in Ids : \/ processes'[i] = processes[i]
                       \/ i = id[c] /\ processes'[i] = c
                       \/ processes[i] \in Calls /\ child'[processes[i]] # "running"
    <2>1. CASE MustPrune /\ ToPrune # {}
      <3>1. PICK i \in ToPrune :
                   /\ processes' = [processes EXCEPT ![i] = 0, ![id[c]] = c]
                   /\ Kill({processes[i]} \cup Replaced(c))
        BY <2>1 DEF Store
      <3>2. i \in Ids /\ processes[i] # 0 /\ processes[i] \in Calls
        BY DEF ToPrune, Prunable, Kept, Control, TypeOK
      <3>3. child'[processes[i]] # "running"
        <4> DEFINE P == {processes[i]} \cup Replaced(c)
        <4>1. processes[i] \in P /\ Kill(P)
          BY <3>1
        <4> HIDE DEF P
        <4>2. QED
          BY <3>2, <4>1, KillKeeps
      <3>4. QED
        BY <1>2, <3>1, <3>2, <3>3 DEF Control, TypeOK
    <2>2. CASE ~(MustPrune /\ ToPrune # {})
      BY <1>2, <2>2 DEF Store, Control, TypeOK
    <2>3. QED
      BY <2>1, <2>2
  <1>5. processes'[id[c]] = c
    <2>1. CASE MustPrune /\ ToPrune # {}
      <3>1. PICK i \in ToPrune : processes' = [processes EXCEPT ![i] = 0, ![id[c]] = c]
        BY <2>1 DEF Store
      <3>2. QED
        BY <1>2, <3>1 DEF Control, TypeOK
    <2>2. CASE ~(MustPrune /\ ToPrune # {})
      BY <1>2, <2>2 DEF Store, Control, TypeOK
    <2>3. QED
      BY <2>1, <2>2
  <1>6. ASSUME NEW p \in Calls, child'[p] = "running"
        PROVE  /\ stage[p] \in {"collecting", "storing"} =>
                    stage'[p] \in {"collecting", "storing"} \/ processes'[id[p]] = p
               /\ processes[id[p]] = p =>
                    \/ processes'[id[p]] = p
                    \/ \E q \in Calls \ {p} : id[q] = id[p] /\ Disturbed(id[p])
    <2>1. child[p] = "running" /\ id[p] \in Ids
      BY <1>3, <1>6 DEF Control, Stages
    <2>2. stage[p] \in {"collecting", "storing"} =>
            stage'[p] \in {"collecting", "storing"} \/ processes'[id[p]] = p
      BY <1>1, <1>5 DEF Control, TypeOK
    <2>3. ASSUME processes[id[p]] = p, processes'[id[p]] # p
          PROVE  \E q \in Calls \ {p} : id[q] = id[p] /\ Disturbed(id[p])
      <3>1. id[p] = id[c] /\ p # c /\ Holds(p)
        BY <1>4, <1>5, <1>6, <2>1, <2>3 DEF Holds
      <3>2. QED
        BY <1>2, <3>1, RemovedIsDisturbed
    <2>4. QED
      BY <2>2, <2>3
  <1>7. QED
    BY <1>1, <1>3, <1>6, StaysFound DEF RunningIsFound

\* write_stdin, processes and watchers, dropped calls.
LEMMA OtherFound ==
  ASSUME Control, Holders, RunningIsFound, NEW c \in Calls, OtherStep(c)
  PROVE  RunningIsFound'
  <1> USE NumbersOfCalls, IdsAssumption
  <1>1. UNCHANGED <<id, cleared>>
    BY DEF OtherStep, Poll, Watch, Refresh, Drop, Exit, ReportExit, callVars
  <1>2. \A p \in Calls : child'[p] = "running" => child[p] = "running"
    <2>1. CASE Drop(c)
      BY <2>1, KillKeeps DEF Drop
    <2>2. CASE ~Drop(c)
      BY <2>2 DEF OtherStep, Poll, Watch, Refresh, Exit, ReportExit, childVars, Control, TypeOK
    <2>3. QED
      BY <2>1, <2>2
  <1>3. ASSUME NEW p \in Calls, child'[p] = "running", stage[p] \in {"collecting", "storing"}
        PROVE  stage'[p] \in {"collecting", "storing"}
    <2>1. CASE Drop(c)
      <3>1. /\ Kill({c} \ {processes[i] : i \in Kept}) /\ stage' = [stage EXCEPT ![c] = "over"]
        BY <2>1 DEF Drop, Goto
      <3>2. \A i \in Kept : processes[i] # p
        BY <1>3 DEF Kept, Control, Entries
      <3>3. p # c
        BY <1>3, <3>1, <3>2, KillKeeps
      <3>4. QED
        BY <1>3, <3>1, <3>3 DEF Control, TypeOK
    <2>2. CASE ~Drop(c)
      BY <1>3, <2>2 DEF OtherStep, Poll, Begins, Watch, Refresh, Exit, ReportExit, Goto, callVars,
                        Control, TypeOK
    <2>3. QED
      BY <2>1, <2>2
  <1>4. \A i \in Ids : \/ processes'[i] = processes[i]
                       \/ processes[i] \in Calls /\ child[processes[i]] # "running"
    BY DEF OtherStep, Poll, Watch, Refresh, Drop, Exit, ReportExit, Remove, Control, TypeOK, Stages
  <1>5. ASSUME NEW p \in Calls, child'[p] = "running", processes[id[p]] = p
        PROVE  processes'[id[p]] = p
    <2>1. child[p] = "running" /\ id[p] \in Ids
      BY <1>2, <1>5 DEF Control, Stages
    <2>2. QED
      BY <1>4, <1>5, <2>1
  <1>6. QED
    BY <1>1, <1>2, <1>3, <1>5, StaysFound DEF RunningIsFound

\* The end of a turn kills what it takes out of the store.
LEMMA TurnFound ==
  ASSUME Control, Holders, RunningIsFound, Closing \/ FinishTurn \/ Interrupt
  PROVE  RunningIsFound'
  <1>1. CASE Closing
    <2>1. TerminateAll
      BY <1>1 DEF Closing, StartTurn, CloseFinished, CloseInterrupted
    <2>2. UNCHANGED <<id, stage>>
      BY <1>1 DEF Closing, StartTurn, CloseFinished, CloseInterrupted, callVars
    <2>3. ASSUME NEW p \in Calls, child'[p] = "running"
          PROVE  child[p] = "running" /\ processes[id[p]] # p
      <3>1. child[p] = "running"
        BY <2>1, <2>3, TerminateAllKills
      <3>2. id[p] \in Ids
        BY <3>1 DEF Control, Stages
      <3>3. QED
        BY <2>1, <2>3, <3>1, <3>2, TerminateAllKills, NumbersOfCalls
    <2>4. cleared \subseteq cleared'
      BY <2>1, TerminateAllKills
    <2>5. QED
      BY <2>2, <2>3, <2>4, StaysFound DEF RunningIsFound
  <1>2. CASE FinishTurn \/ Interrupt
    BY <1>2 DEF FinishTurn, Interrupt, callVars, childVars, RunningIsFound
  <1>3. QED
    BY <1>1, <1>2

\* Every step leaves the running processes found.
LEMMA StepFound ==
  ASSUME Control, Holders, RunningIsFound, [Next]_vars
  PROVE  RunningIsFound'
  <1>1. CASE Next
    BY <1>1, StepKinds, ExecFound, StoreFound, OtherFound, TurnFound
  <1>2. CASE UNCHANGED vars
    BY <1>2 DEF vars, callVars, childVars, RunningIsFound
  <1>3. QED
    BY <1>1, <1>2

----------------------------------------------------------------------------
(* Pruning.                                                                *)

\* What is kept was started by a call, and was last used by one.
LEMMA UsesAreNumbers ==
  ASSUME Control, NEW i \in Kept
  PROVE  processes[i] \in Calls /\ lastUsed[processes[i]] \in Nat
  <1>1. processes[i] \in Calls
    BY DEF Control, TypeOK, Kept
  <1>2. lastUsed[processes[i]] \in Calls \cup {0}
    BY <1>1 DEF Control, TypeOK
  <1>3. \A n \in Calls \cup {0} : n \in Nat
    BY NumbersOfCalls
  <1>4. QED
    BY ONLY <1>1, <1>2, <1>3

\* No infinite descent among the numbers.
Less == {ss \in Nat \X Nat : ss[1] < ss[2]}

LEMMA LessWellFounded == IsWellFoundedOn(Less, Nat)
  BY NatLessThanWellFounded, Zenon DEF OpToRel, Less

\* Of some kept processes one was used least recently.
LEMMA LeastUsed ==
  ASSUME Control, NEW S \in SUBSET Kept, S # {}
  PROVE  \E i \in S : \A j \in S : lastUsed[processes[i]] <= lastUsed[processes[j]]
  <1> DEFINE T == {lastUsed[processes[i]] : i \in S}
  <1>1. T \in SUBSET Nat /\ T # {}
    BY UsesAreNumbers
  <1>2. PICK t \in T : \A u \in T : ~ (<<u, t>> \in Less)
    <2> HIDE DEF T
    <2>1. QED
      BY <1>1, LessWellFounded, WFMin
  <1>3. ASSUME NEW u \in T
        PROVE  t <= u
    <2>1. u \in Nat /\ t \in Nat
      BY <1>1
    <2>2. <<u, t>> \notin Less
      BY <1>2
    <2>3. ~ (u < t)
      BY <2>1, <2>2 DEF Less
    <2>4. QED
      BY <2>1, <2>3
  <1>4. QED
    BY <1>3

\* A store at its limit has a process that pruning may take.
LEMMA PruneFinds ==
  ASSUME Control, Uses, MustPrune
  PROVE  ToPrune # {}
  <1>1. IsFiniteSet(Kept) /\ Cardinality(Kept) \in Nat
    BY IdsAssumption, FS_Subset, FS_CardinalityType DEF Kept
  <1>2. Kept # {}
    BY <1>1, FS_EmptySet, LimitAssumption DEF MustPrune
  <1>3. PICK i \in Kept : \A j \in Kept : lastUsed[processes[i]] <= lastUsed[processes[j]]
    BY <1>2, LeastUsed
  <1>4. UsedAfter(i) = Kept \ {i}
    <2>1. ASSUME NEW j \in Kept \ {i}
          PROVE  lastUsed[processes[j]] > lastUsed[processes[i]]
      <3>1. /\ processes[i] \in Calls /\ processes[j] \in Calls /\ processes[i] # processes[j]
            /\ lastUsed[processes[i]] # 0
        BY DEF Kept, Control, TypeOK, Entries, Uses
      <3>2. lastUsed[processes[j]] # lastUsed[processes[i]]
        BY <3>1 DEF Uses
      <3>3. lastUsed[processes[i]] \in Nat /\ lastUsed[processes[j]] \in Nat
        BY UsesAreNumbers
      <3>4. QED
        BY <1>3, <3>2, <3>3
    <2>2. ~(lastUsed[processes[i]] > lastUsed[processes[i]])
      BY UsesAreNumbers
    <2>3. QED
      BY <2>1, <2>2 DEF UsedAfter
  <1>5. Cardinality(Kept \ {i}) = Cardinality(Kept) - 1
    BY <1>1, FS_RemoveElement
  <1>6. i \in Prunable
    BY <1>1, <1>4, <1>5, LimitAssumption DEF MustPrune, Prunable
  <1>7. QED
    <2> DEFINE exited == {j \in Prunable : child[processes[j]] = "exited"}
               from == IF exited # {} THEN exited ELSE Prunable
    <2>1. from \in SUBSET Kept /\ from # {}
      BY <1>6 DEF Prunable
    <2>2. ToPrune = {j \in from : \A k \in from : lastUsed[processes[j]] <= lastUsed[processes[k]]}
      BY DEF ToPrune
    <2> HIDE DEF from
    <2>3. QED
      BY <2>1, <2>2, LeastUsed

\* A step keeps the store within its limit.
LEMMA StepWithinLimit ==
  ASSUME Control, Uses, WithinLimit, [Next]_vars
  PROVE  WithinLimit'
  <1>1. IsFiniteSet(Kept) /\ Cardinality(Kept) \in Nat
    BY IdsAssumption, FS_Subset, FS_CardinalityType DEF Kept
  <1>2. ASSUME Kept' \subseteq Kept
        PROVE  WithinLimit'
    <2>1. Cardinality(Kept') <= Cardinality(Kept)
      BY <1>1, <1>2, FS_Subset
    <2>2. Cardinality(Kept') \in Nat
      BY <1>1, <1>2, FS_Subset, FS_CardinalityType
    <2>3. QED
      BY <1>1, <2>1, <2>2, LimitAssumption DEF WithinLimit
  <1>3. ASSUME NEW S \in SUBSET Kept, Cardinality(S) < Limit, NEW i, Kept' \subseteq S \cup {i}
        PROVE  WithinLimit'
    <2>1. IsFiniteSet(S) /\ Cardinality(S) \in Nat
      BY <1>1, FS_Subset, FS_CardinalityType
    <2>2. /\ IsFiniteSet(S \cup {i}) /\ Cardinality(S \cup {i}) \in Nat
          /\ Cardinality(S \cup {i}) <= Cardinality(S) + 1
      BY <2>1, FS_AddElement, FS_CardinalityType
    <2>3. Cardinality(Kept') <= Cardinality(S \cup {i}) /\ Cardinality(Kept') \in Nat
      BY <1>3, <2>2, FS_Subset, FS_CardinalityType
    <2>4. QED
      BY <1>3, <2>1, <2>2, <2>3, LimitAssumption DEF WithinLimit
  <1>4. ASSUME NEW c \in Calls, Store(c)
        PROVE  WithinLimit'
    <2>1. CASE MustPrune
      <3>1. PICK i \in ToPrune : processes' = [processes EXCEPT ![i] = 0, ![id[c]] = c]
        BY <1>4, <2>1, PruneFinds DEF Store
      <3>2. i \in Kept
        BY DEF ToPrune, Prunable
      <3>3. Kept' \subseteq (Kept \ {i}) \cup {id[c]}
        BY <3>1 DEF Kept, Control, TypeOK
      <3>4. Cardinality(Kept \ {i}) < Limit
        <4>1. Cardinality(Kept \ {i}) = Cardinality(Kept) - 1
          BY <1>1, <3>2, FS_RemoveElement
        <4>2. QED
          BY <1>1, <4>1, LimitAssumption DEF WithinLimit
      <3>5. QED
        BY <1>3, <3>3, <3>4
    <2>2. CASE ~MustPrune
      <3>1. processes' = [processes EXCEPT ![id[c]] = c]
        BY <1>4, <2>2 DEF Store
      <3>2. Kept' \subseteq Kept \cup {id[c]}
        BY <3>1 DEF Kept, Control, TypeOK
      <3>3. Cardinality(Kept) < Limit
        BY <1>1, <2>2, LimitAssumption DEF MustPrune
      <3>4. QED
        BY <1>3, <3>2, <3>3
    <2>3. QED
      BY <2>1, <2>2
  <1>5. ASSUME NEW c \in Calls, ExecStep(c) \/ OtherStep(c)
        PROVE  Kept' \subseteq Kept
    BY <1>5 DEF ExecStep, Allocate, Refuse, Open, CollectedExited, CollectedRunning, Release,
                OtherStep, Poll, Watch, Refresh, Drop, Exit, ReportExit, Remove, Kept, Control, TypeOK
  <1>6. ASSUME Closing \/ FinishTurn \/ Interrupt
        PROVE  Kept' \subseteq Kept
    BY <1>6 DEF Closing, StartTurn, CloseFinished, CloseInterrupted, TerminateAll, FinishTurn,
                Interrupt, Kept
  <1>7. CASE UNCHANGED vars
    BY <1>2, <1>7 DEF vars, Kept
  <1>8. QED
    BY <1>2, <1>4, <1>5, <1>6, <1>7, StepKinds

----------------------------------------------------------------------------
(* The theorems.                                                           *)

\* The invariant holds throughout.
LEMMA InvHolds == Spec => []Inv
  <1>1. Init => Inv
    BY InitControl, InitUses, InitHolders DEF Inv
  <1>2. Inv /\ [Next]_vars => Inv'
    BY StepControl, StepUses, StepHolders, StepFound DEF Inv
  <1>3. QED
    BY <1>1, <1>2, PTL DEF Spec

\* Every variable keeps its type, whichever calls are dropped and processes
\* terminated (unified_exec/process_manager.rs).
THEOREM ExecTypes == Spec => []TypeOK
  <1>1. Inv => TypeOK
    BY DEF Inv, Control
  <1>2. QED
    BY <1>1, InvHolds, PTL

\* The end of a command is reported at most once, by its call or by its
\* watcher, and never while the process runs (exec_command and
\* spawn_exit_watcher).
THEOREM ExecEndsOnce == Spec => []EndedOnce
  <1>1. Inv => EndedOnce
    BY DEF Inv, Control, Stages, EndedOnce
  <1>2. QED
    BY <1>1, InvHolds, PTL

\* The end of a dead process is reported, or somebody is about to report it,
\* unless its call was dropped (exec_command and spawn_exit_watcher).
THEOREM ExecEndIsComing == Spec => []EndIsComing
  <1>1. Inv => EndIsComing
    BY DEF Inv, Control, EndWillCome, EndIsComing
  <1>2. QED
    BY <1>1, InvHolds, PTL

\* A running process is with its call or in the store, unless its id was given
\* out again after terminate_all_processes cleared the reservation.
THEOREM RunningProcessIsFound == Spec => []RunningIsFound
  <1>1. Inv => RunningIsFound
    BY DEF Inv
  <1>2. QED
    BY <1>1, InvHolds, PTL

\* The store never outgrows MAX_UNIFIED_EXEC_PROCESSES: at the limit there is
\* always a process that prune_processes_if_needed may take.
THEOREM StoreWithinLimit == Spec => []WithinLimit
  <1>1. Init => WithinLimit
    BY FS_EmptySet, LimitAssumption DEF Init, WithinLimit, Kept
  <1>2. Inv /\ WithinLimit /\ [Next]_vars => WithinLimit'
    BY StepWithinLimit DEF Inv
  <1>3. QED
    BY <1>1, <1>2, InvHolds, PTL DEF Spec

----------------------------------------------------------------------------
(* What is pruned.                                                         *)

\* A process is killed only as it leaves the store, or with its call.
Undead ==
    /\ \A c \in Calls :
          stage[c] \in {"collecting", "storing"} => child[c] \in {"running", "exited"}
    /\ \A i \in Ids :
          processes[i] # 0 => child[processes[i]] \in {"running", "exited"}

\* Whatever kills none of them and stores none keeps them alive.
LEMMA UndeadKept ==
  ASSUME Control, Undead, Control',
         \A c \in Calls :
             stage'[c] \in {"collecting", "storing"} =>
                 stage[c] = stage'[c] /\ child'[c] \in {child[c], "exited"},
         \A i \in Ids : processes'[i] # 0 =>
             processes'[i] = processes[i] /\ child'[processes[i]] \in {child[processes[i]], "exited"}
  PROVE  Undead'
  BY DEF Undead

\* Another call's process is never the one that is stored under this call's id.
LEMMA StoreUndead ==
  ASSUME Control, Undead, NEW c \in Calls, Store(c)
  PROVE  Undead'
  <1>1. /\ stage[c] = "storing" /\ stage' = [stage EXCEPT ![c] = "unwatched"]
        /\ id[c] \in Ids /\ child[c] \in {"running", "exited"}
    BY DEF Store, Goto, Control, Stages, TypeOK, Undead
  <1>2. \A j \in Ids : processes[j] # 0 =>
          /\ processes[j] \in Calls /\ id[processes[j]] = j
          /\ stage[processes[j]] \in {"unwatched", "over"}
    BY DEF Control, TypeOK, Entries
  <1>3. ASSUME NEW P,  Kill(P),
               \A q \in P : q = 0 \/ \E j \in Ids : q = processes[j],
               \A j \in Ids : processes'[j] # 0 =>
                   \/ j = id[c] /\ processes'[j] = c
                   \/ processes'[j] = processes[j] /\ processes[j] \notin P
        PROVE  Undead'
    <2>1. ASSUME NEW d \in Calls, stage[d] \in {"collecting", "storing"} PROVE child'[d] = child[d]
      <3>1. d \notin P
        BY <1>2, <1>3, <2>1, NumbersOfCalls
      <3> QED BY <1>3, <3>1, KillKeeps
    <2>2. ASSUME NEW d \in Calls, stage'[d] \in {"collecting", "storing"}
          PROVE  child'[d] \in {"running", "exited"}
      <3>1. stage[d] \in {"collecting", "storing"}
        BY <1>1, <2>2 DEF Control, TypeOK
      <3> QED BY <2>1, <3>1 DEF Undead
    <2>3. ASSUME NEW j \in Ids, processes'[j] # 0
          PROVE  child'[processes'[j]] \in {"running", "exited"}
      <3>1. CASE j = id[c] /\ processes'[j] = c
        BY <1>1, <2>1, <3>1
      <3>2. CASE processes'[j] = processes[j] /\ processes[j] \notin P
        <4>1. processes[j] \in Calls /\ child[processes[j]] \in {"running", "exited"}
          BY <1>2, <2>3, <3>2 DEF Undead
        <4>2. child'[processes[j]] = child[processes[j]]
          BY <1>3, <3>2, <4>1, KillKeeps
        <4> QED BY <3>2, <4>1, <4>2
      <3> QED BY <1>3, <2>3, <3>1, <3>2
    <2> QED BY <2>2, <2>3 DEF Undead
  <1>4. \A q \in Replaced(c) : q = processes[id[c]]
    BY DEF Replaced
  <1>5. CASE MustPrune /\ ToPrune # {}
    <2>1. PICK i \in ToPrune :
            /\ processes' = [processes EXCEPT ![i] = 0, ![id[c]] = c]
            /\ Kill({processes[i]} \cup Replaced(c))
      BY <1>5 DEF Store
    <2>2. i \in Ids /\ processes[i] # 0
      BY <2>1 DEF ToPrune, Prunable, Kept
    <2>3. \A q \in {processes[i]} \cup Replaced(c) : q = processes[i] \/ q = processes[id[c]]
      BY <1>4
    <2>4. ASSUME NEW j \in Ids, processes'[j] # 0
          PROVE  \/ j = id[c] /\ processes'[j] = c
                 \/ processes'[j] = processes[j] /\ processes[j] \notin {processes[i]} \cup Replaced(c)
      <3>1. CASE j = id[c]
        BY <1>1, <2>1, <3>1 DEF Control, TypeOK
      <3>2. CASE j # id[c]
        <4>1. j # i /\ processes'[j] = processes[j]
          BY <2>1, <2>2, <2>4, <3>2 DEF Control, TypeOK
        <4>2. processes[j] # processes[i] /\ processes[j] # processes[id[c]]
          BY <1>1, <1>2, <2>2, <2>4, <3>2, <4>1
        <4> QED BY <2>3, <4>1, <4>2
      <3> QED BY <3>1, <3>2
    <2>5. \A q \in {processes[i]} \cup Replaced(c) : q = 0 \/ \E j \in Ids : q = processes[j]
      BY <1>1, <2>2, <2>3
    <2> QED BY <1>3, <2>1, <2>4, <2>5
  <1>6. CASE ~(MustPrune /\ ToPrune # {})
    <2>1. processes' = [processes EXCEPT ![id[c]] = c] /\ Kill(Replaced(c))
      BY <1>6 DEF Store
    <2>2. ASSUME NEW j \in Ids, processes'[j] # 0
          PROVE  \/ j = id[c] /\ processes'[j] = c
                 \/ processes'[j] = processes[j] /\ processes[j] \notin Replaced(c)
      <3>1. CASE j = id[c]
        BY <1>1, <2>1, <3>1 DEF Control, TypeOK
      <3>2. CASE j # id[c]
        <4>1. processes'[j] = processes[j]
          BY <2>1, <3>2 DEF Control, TypeOK
        <4>2. processes[j] # processes[id[c]]
          BY <1>1, <1>2, <2>2, <3>2, <4>1
        <4> QED BY <1>4, <4>1, <4>2
      <3> QED BY <3>1, <3>2
    <2>3. \A q \in Replaced(c) : q = 0 \/ \E j \in Ids : q = processes[j]
      BY <1>1, <1>4
    <2> QED BY <1>3, <2>1, <2>2, <2>3
  <1> QED BY <1>5, <1>6

\* Every step keeps them alive.
LEMMA StepUndead ==
  ASSUME Control, Undead, [Next]_vars
  PROVE  Undead'
  <1>0. Control'
    BY StepControl
  <1> USE DEF Control, TypeOK
  <1>1. ASSUME NEW c \in Calls, ExecStep(c) PROVE Undead'
    <2>1. CASE \E i \in Ids : Allocate(c, i)
      BY <1>0, <2>1, UndeadKept DEF Allocate, Goto, childVars
    <2>2. CASE Refuse(c) \/ Release(c)
      BY <1>0, <2>2, UndeadKept DEF Refuse, Release, Goto, Remove, childVars
    <2>3. CASE Open(c)
      <3>1. \A i \in Ids : processes[i] # c
        BY <2>3, NumbersOfCalls DEF Open, Entries
      <3>2. child' = [child EXCEPT ![c] = "running"] /\ stage' = [stage EXCEPT ![c] = "collecting"]
            /\ processes' = processes
        BY <2>3 DEF Open, Goto
      <3> QED BY <3>1, <3>2 DEF Undead
    <2>4. CASE CollectedExited(c) \/ CollectedRunning(c)
      BY <2>4 DEF CollectedExited, CollectedRunning, Goto, childVars, Undead
    <2> QED BY <1>1, <2>1, <2>2, <2>3, <2>4 DEF ExecStep
  <1>2. ASSUME NEW c \in Calls, OtherStep(c) PROVE Undead'
    <2>1. CASE \E i \in Ids : Poll(c, i)
      BY <1>0, <2>1, UndeadKept DEF Poll, Goto
    <2>2. CASE Watch(c) \/ ReportExit(c)
      BY <1>0, <2>2, UndeadKept DEF Watch, ReportExit, Goto, callVars
    <2>3. CASE Refresh(c)
      <3>1. \A i \in Ids : processes'[i] \in {processes[i], 0}
        BY <2>3 DEF Refresh, Remove
      <3>2. child' = child /\ stage' = [stage EXCEPT ![c] = "over"]
        BY <2>3 DEF Refresh, Goto, childVars
      <3> QED BY <1>0, <3>1, <3>2, UndeadKept
    <2>4. CASE Exit(c)
      <3>1. child[c] = "running" /\ child' = [child EXCEPT ![c] = "exited"]
            /\ UNCHANGED <<stage, processes>>
        BY <2>4 DEF Exit, callVars
      <3> QED BY <1>0, <3>1, UndeadKept
    <2>5. CASE Drop(c)
      <3> DEFINE P == {c} \ {processes[i] : i \in Kept}
      <3>1. Kill(P) /\ stage' = [stage EXCEPT ![c] = "over"] /\ processes' = processes
        BY <2>5 DEF Drop, Goto
      <3>2. \A d \in Calls : d # c => d \notin P
        OBVIOUS
      <3>3. \A i \in Ids : processes[i] # 0 => processes[i] \in Calls /\ processes[i] \notin P
        BY DEF Kept
      <3> HIDE DEF P
      <3>4. \A d \in Calls : d \notin P => child'[d] = child[d]
        BY <3>1, KillKeeps
      <3>5. ASSUME NEW d \in Calls, stage'[d] \in {"collecting", "storing"}
            PROVE  stage[d] = stage'[d] /\ child'[d] = child[d]
        BY <3>1, <3>2, <3>4, <3>5
      <3> QED BY <1>0, <3>1, <3>3, <3>4, <3>5, UndeadKept
    <2> QED BY <1>2, <2>1, <2>2, <2>3, <2>4, <2>5 DEF OtherStep
  <1>3. CASE Closing
    <2>1. TerminateAll /\ UNCHANGED stage
      BY <1>3 DEF Closing, StartTurn, CloseFinished, CloseInterrupted, callVars
    <2>2. processes' = [i \in Ids |-> 0] /\ Kill({processes[i] : i \in Kept})
      BY <2>1 DEF TerminateAll
    <2>3. ASSUME NEW d \in Calls, stage[d] \in {"collecting", "storing"} PROVE child'[d] = child[d]
      <3>1. d \notin {processes[i] : i \in Kept}
        BY <2>3 DEF Entries, Kept
      <3> QED BY <2>2, <3>1, KillKeeps
    <2> QED BY <2>1, <2>2, <2>3 DEF Undead
  <1>4. CASE FinishTurn \/ Interrupt \/ UNCHANGED vars
    BY <1>0, <1>4, UndeadKept DEF FinishTurn, Interrupt, vars, callVars, childVars
  <1>5. ASSUME NEW c \in Calls, Store(c) PROVE Undead'
    BY <1>5, StoreUndead
  <1> QED BY <1>1, <1>2, <1>3, <1>4, <1>5, StepKinds

\* Only the call itself stores its process.
LEMMA OnlyStores ==
  ASSUME TypeOK, [Next]_vars, NEW c \in Calls, stage[c] = "storing", stage'[c] = "unwatched"
  PROVE  Store(c)
  <1> USE DEF TypeOK, Goto
  <1>1. ASSUME NEW d \in Calls, ExecStep(d) PROVE FALSE
    BY <1>1 DEF ExecStep, Allocate, Begins, Refuse, Open, CollectedExited, CollectedRunning, Release
  <1>2. ASSUME NEW d \in Calls, OtherStep(d) PROVE FALSE
    BY <1>2 DEF OtherStep, Poll, Begins, Watch, Refresh, Drop, Exit, ReportExit, callVars
  <1>3. CASE Closing \/ FinishTurn \/ Interrupt \/ UNCHANGED vars
    BY <1>3 DEF Closing, StartTurn, CloseFinished, CloseInterrupted, FinishTurn, Interrupt, vars, callVars
  <1>4. ASSUME NEW d \in Calls, Store(d) PROVE d = c
    BY <1>4 DEF Store
  <1> QED BY <1>1, <1>2, <1>3, <1>4, StepKinds

\* The one to prune is not among the most recently used, and runs only if no prunable
\* one has exited.
LEMMA PrunedOnlyOld ==
  ASSUME Inv, Undead, NEW c \in Calls, NEW p \in Calls, Store(c),
         child[p] = "running", child'[p] = "killed", processes[id[c]] # p
  PROVE  /\ Cardinality({i \in Kept : lastUsed[processes[i]] > lastUsed[p]}) >= Protected
         /\ \A i \in Kept :
               Cardinality({j \in Kept : lastUsed[processes[j]] > lastUsed[processes[i]]}) >= Protected
                   => child[processes[i]] = "running"
  <1>1. p \notin Replaced(c)
    BY DEF Replaced
  <1>2. ~Kill(Replaced(c))
    <2>1. Kill(Replaced(c)) => child'[p] = child[p]
      BY <1>1, KillKeeps DEF Inv
    <2> QED BY <2>1
  <1>3. PICK i \in ToPrune : Kill({processes[i]} \cup Replaced(c))
    BY <1>2 DEF Store
  <1>4. p = processes[i]
    <2>1. p \in {processes[i]} \cup Replaced(c)
      BY <1>3, KillKeeps DEF Inv
    <2> QED BY <1>1, <2>1
  <1> DEFINE exited == {j \in Prunable : child[processes[j]] = "exited"}
  <1>5. exited = {} /\ i \in Prunable
    BY <1>4 DEF ToPrune
  <1>6. ASSUME NEW j \in Kept,
               Cardinality({k \in Kept : lastUsed[processes[k]] > lastUsed[processes[j]]}) >= Protected
        PROVE  child[processes[j]] = "running"
    <2>1. j \in Prunable
      BY <1>6 DEF Prunable, UsedAfter
    <2>2. child[processes[j]] \in {"running", "exited"}
      BY DEF Kept, Undead
    <2> QED BY <1>5, <2>1, <2>2
  <1>7. Cardinality({k \in Kept : lastUsed[processes[k]] > lastUsed[p]}) >= Protected
    BY <1>4, <1>5 DEF Prunable, UsedAfter
  <1> QED BY <1>6, <1>7

\* Pruning kills no running process that is among the most recently used, and none while
\* one that may go has exited (process_id_to_prune_from_meta).
THEOREM PruningIsFair == Spec => PrunedIsOld
  <1>1. Init => Undead
    BY DEF Init, Undead
  <1>2. Inv /\ Undead /\ [Next]_vars => Undead'
    BY StepUndead DEF Inv
  <1>3. Inv /\ Undead /\ [Next]_vars =>
          [\A c, p \in Calls :
             /\ stage[c] = "storing" /\ stage'[c] = "unwatched"
             /\ child[p] = "running" /\ child'[p] = "killed"
             => \/ processes[id[c]] = p
                \/ LET After(x) == {i \in Kept : lastUsed[processes[i]] > lastUsed[x]}
                   IN /\ Cardinality(After(p)) >= Protected
                      /\ \A i \in Kept :
                            Cardinality(After(processes[i])) >= Protected
                                => child[processes[i]] = "running"]_vars
    BY OnlyStores, PrunedOnlyOld DEF Inv, Control
  <1> QED BY <1>1, <1>2, <1>3, InvHolds, PTL DEF Spec, PrunedIsOld
=============================================================================
