------------------------------- MODULE Agents -------------------------------
(***************************************************************************)
(* The sub-agents of a user session (trill-rs/core/src/agent, the collab   *)
(* tools and the thread manager's map).  Tool calls of several sessions    *)
(* spawn, prompt and close agents concurrently; each agent is a session    *)
(* with a loop of its own, which may be over before anyone closes it.      *)
(*                                                                         *)
(* The guards are a counter and a set behind a mutex, which are not        *)
(* changed together: a step is one atomic operation, one critical section, *)
(* or the code between two awaits.  An agent is named by the call that     *)
(* spawns it.                                                              *)
(*                                                                         *)
(* An operator named X_Y is X with the fault Y put in.                     *)
(***************************************************************************)
EXTENDS Integers, FiniteSets

CONSTANTS
    Calls,  \* The tool calls, each of which spawns, prompts or closes an agent.
    Limit   \* agent_max_threads, the same in every session of the tree.

\* Zero is refused where the configuration is read.
ASSUME LimitAssumption == Limit \in Nat \ {0}
ASSUME CallsAssumption == IsFiniteSet(Calls)

VARIABLES
    count,      \* Guards.total_count.
    committed,  \* Guards.threads_set.
    threads,    \* The agents in the thread manager's map.
    announced,  \* The agents the clients were told of (notify_thread_created).
    loop,       \* The submission loop of each agent.
    call,       \* Where each call is.
    seen,       \* The count each spawning call has read.
    target      \* The agent each call is about.

guardVars == <<count, committed>>
agentVars == <<threads, announced, loop>>
vars == <<guardVars, agentVars, call, seen, target>>

\* "asked" to shut down; "down", when its status is Shutdown; "over", when the channel
\* of its submissions is closed.
LoopPCs == {"none", "running", "asked", "down", "over"}
CallPCs == {"idle", "load", "swap", "create", "insert", "commit", "send", "bury", "closing",
            "remove", "release", "subtract", "spawned", "done", "dropped"}

TypeOK ==
    /\ count \in Nat
    /\ committed \in SUBSET Calls
    /\ threads \in SUBSET Calls
    /\ announced \in SUBSET Calls
    /\ loop \in [Calls -> LoopPCs]
    /\ call \in [Calls -> CallPCs]
    /\ seen \in [Calls -> Nat]
    /\ target \in [Calls -> Calls]

Init ==
    /\ count = 0
    /\ committed = {}
    /\ threads = {}
    /\ announced = {}
    /\ loop = [c \in Calls |-> "none"]
    /\ call = [c \in Calls |-> "idle"]
    /\ seen = [c \in Calls |-> 0]
    /\ target = [c \in Calls |-> c]

Go(c, pc) == call' = [call EXCEPT ![c] = pc]

\* The call holds a SpawnReservation.
Reserving(c) == call[c] \in {"create", "insert", "commit"}

----------------------------------------------------------------------------
(* spawn_agent.                                                            *)

BeginSpawn(c) ==
    /\ call[c] = "idle"
    /\ Go(c, "load")
    /\ UNCHANGED <<guardVars, agentVars, seen, target>>

LoadCount(c) ==
    /\ call[c] = "load"
    /\ seen' = [seen EXCEPT ![c] = count]
    /\ Go(c, "swap")
    /\ UNCHANGED <<guardVars, agentVars, target>>

SwapCount_Store(c) ==
    /\ call[c] = "swap"
    /\ \/ /\ seen[c] >= Limit
          /\ Go(c, "done")
          /\ UNCHANGED count
       \/ /\ seen[c] < Limit
          /\ count' = seen[c] + 1
          /\ Go(c, "create")
    /\ UNCHANGED <<committed, agentVars, seen, target>>

\* compare_exchange_weak, which may also fail for no reason.
SwapCount(c) ==
    /\ call[c] = "swap"
    /\ \/ /\ seen[c] >= Limit
          /\ Go(c, "done")
          /\ UNCHANGED <<count, seen>>
       \/ /\ seen[c] < Limit
          /\ count = seen[c]
          /\ count' = count + 1
          /\ Go(c, "create")
          /\ UNCHANGED seen
       \/ /\ seen[c] < Limit
          /\ seen' = [seen EXCEPT ![c] = count]
          /\ UNCHANGED <<count, call>>
    /\ UNCHANGED <<committed, agentVars, target>>

CreateSession(c) ==
    /\ call[c] = "create"
    /\ loop' = [loop EXCEPT ![c] = "running"]
    /\ Go(c, "insert")
    /\ UNCHANGED <<guardVars, threads, announced, seen, target>>

\* Creation fails, or the spawning call is dropped at one of its awaits: the
\* reservation is dropped too, and a session that exists loses its last sender.
AbandonSpawn_KeepsSlot(c) ==
    /\ call[c] \in {"create", "insert"}
    /\ loop' = [loop EXCEPT ![c] = IF call[c] = "insert" THEN "over" ELSE @]
    /\ Go(c, "done")
    /\ UNCHANGED <<guardVars, threads, announced, seen, target>>

AbandonSpawn(c) ==
    /\ call[c] \in {"create", "insert"}
    /\ count' = count - 1
    /\ loop' = [loop EXCEPT ![c] = IF call[c] = "insert" THEN "over" ELSE @]
    /\ Go(c, "done")
    /\ UNCHANGED <<committed, threads, announced, seen, target>>

InsertThread(c) ==
    /\ call[c] = "insert"
    /\ threads' = threads \cup {c}
    /\ Go(c, "commit")
    /\ UNCHANGED <<guardVars, announced, loop, seen, target>>

\* SpawnReservation::commit, and the news to the clients.
CommitSpawn(c) ==
    /\ call[c] = "commit"
    /\ committed' = committed \cup {c}
    /\ announced' = announced \cup {c}
    /\ Go(c, "send")
    /\ UNCHANGED <<count, threads, loop, seen, target>>

----------------------------------------------------------------------------
(* send_prompt, at the end of a spawn or for the send_input tool.          *)

\* The model knows an agent's id once the call that spawned it has returned.
BeginPrompt(c, a) ==
    /\ call[c] = "idle"
    /\ call[a] = "spawned"
    /\ target' = [target EXCEPT ![c] = a]
    /\ Go(c, "send")
    /\ UNCHANGED <<guardVars, agentVars, seen>>

Returned(c) == IF target[c] = c THEN "spawned" ELSE "done"

\* send_op: the thread is not found, or takes the prompt, or its loop is over.
SendPrompt(c) ==
    /\ call[c] = "send"
    /\ Go(c, CASE target[c] \notin threads -> "done"
               [] loop[target[c]] = "over" -> "bury"
               [] OTHER -> Returned(c))
    /\ UNCHANGED <<guardVars, agentVars, seen, target>>

\* InternalAgentDied.
BuryAgent(c) ==
    /\ call[c] = "bury"
    /\ threads' = threads \ {target[c]}
    /\ Go(c, "release")
    /\ UNCHANGED <<guardVars, announced, loop, seen, target>>

----------------------------------------------------------------------------
(* close_agent and shutdown_agent.                                         *)

AskLoop(a) == loop' = [loop EXCEPT ![a] = IF @ = "running" THEN "asked" ELSE @]

\* An agent that is not found, or whose status is Shutdown, is not shut down again.
BeginClose(c, a) ==
    /\ call[c] = "idle"
    /\ call[a] = "spawned"
    /\ target' = [target EXCEPT ![c] = a]
    /\ Go(c, IF a \in threads /\ loop[a] \in {"running", "asked"} THEN "closing" ELSE "done")
    /\ UNCHANGED <<guardVars, agentVars, seen>>

AskShutdown(c) ==
    /\ call[c] = "closing"
    /\ \/ /\ target[c] \in threads
          /\ AskLoop(target[c])
       \/ /\ target[c] \notin threads
          /\ UNCHANGED loop
    /\ Go(c, "remove")
    /\ UNCHANGED <<guardVars, threads, announced, seen, target>>

RemoveThread_Kept(c) ==
    /\ call[c] = "remove"
    /\ Go(c, "release")
    /\ UNCHANGED <<guardVars, agentVars, seen, target>>

RemoveThread_OrDone(c) ==
    /\ call[c] = "remove"
    /\ threads' = threads \ {target[c]}
    /\ Go(c, IF target[c] \in threads THEN "release" ELSE "done")
    /\ UNCHANGED <<guardVars, announced, loop, seen, target>>

RemoveThread(c) ==
    /\ call[c] = "remove"
    /\ threads' = threads \ {target[c]}
    /\ Go(c, "release")
    /\ UNCHANGED <<guardVars, announced, loop, seen, target>>

\* release_spawned_thread: only the call that finds the agent in the set gives the
\* slot back.
ReleaseThread(c) ==
    /\ call[c] = "release"
    /\ committed' = committed \ {target[c]}
    /\ Go(c, IF target[c] \in committed THEN "subtract" ELSE "done")
    /\ UNCHANGED <<count, agentVars, seen, target>>

SubtractCount(c) ==
    /\ call[c] = "subtract"
    /\ count' = count - 1
    /\ Go(c, "done")
    /\ UNCHANGED <<committed, agentVars, seen, target>>

\* The turn of the call is aborted while it waits for a lock or a channel.
DropCall(c) ==
    /\ call[c] \in {"send", "bury", "closing", "remove"}
    /\ Go(c, "dropped")
    /\ UNCHANGED <<guardVars, agentVars, seen, target>>

----------------------------------------------------------------------------
(* The agents' own sessions, and the clients.                              *)

\* ShutdownComplete sets the status; then the loop returns.
StopLoop(a) ==
    /\ \/ loop[a] = "asked" /\ loop' = [loop EXCEPT ![a] = "down"]
       \/ loop[a] = "down" /\ loop' = [loop EXCEPT ![a] = "over"]
    /\ UNCHANGED <<guardVars, threads, announced, call, seen, target>>

\* A client shuts down any thread it was told of.
ClientShutdown(a) ==
    /\ a \in announced
    /\ loop[a] = "running"
    /\ AskLoop(a)
    /\ UNCHANGED <<guardVars, threads, announced, call, seen, target>>

\* A client archives a thread: it leaves the map, and the guards are not told.
ClientArchive(a) ==
    /\ a \in announced \cap threads
    /\ threads' = threads \ {a}
    /\ AskLoop(a)
    /\ UNCHANGED <<guardVars, announced, call, seen, target>>

Proceed(c) ==
    \/ LoadCount(c) \/ SwapCount(c) \/ CreateSession(c) \/ InsertThread(c)
    \/ CommitSpawn(c) \/ SendPrompt(c) \/ BuryAgent(c) \/ AskShutdown(c) \/ RemoveThread(c)
    \/ ReleaseThread(c) \/ SubtractCount(c)

Next ==
    \E c \in Calls :
        \/ BeginSpawn(c) \/ \E a \in Calls : BeginPrompt(c, a) \/ BeginClose(c, a)
        \/ Proceed(c) \/ AbandonSpawn(c) \/ DropCall(c)
        \/ StopLoop(c) \/ ClientShutdown(c) \/ ClientArchive(c)

Spec == Init /\ [][Next]_vars

\* Every call is polled while it can proceed.
FairSpec == Spec /\ \A c \in Calls : WF_vars(Proceed(c))

----------------------------------------------------------------------------
(* Properties.                                                             *)

\* A slot is held by a spawned agent, a reservation, or an agent whose slot is on its
\* way back.
HasSlot(a) ==
    \/ a \in committed
    \/ Reserving(a)
    \/ \E c \in Calls : call[c] = "subtract" /\ target[c] = a

Slots == {a \in Calls : HasSlot(a)}

\* The counter tells how many hold a slot, although it is not changed together with
\* the set, spawns fail or are dropped half-way, and two calls may release one agent.
CountIsSlots == count = Cardinality(Slots)

\* However many sessions spawn at once, the manager never has more agents than the
\* limit allows.
AgentsWithinLimit == Cardinality(threads) <= Limit

\* An agent that can be found has its slot: it leaves the map before the slot is given
\* back.
FoundHasSlot == \A a \in threads : a \in committed \/ call[a] = "commit"

\* The guards implement the slots.
Pool == INSTANCE SpawnSlots WITH Agents <- Calls, taken <- Slots
PoolSpec == Pool!Spec

\* A call that found its agent dead, or shuts it down, gives the slot back, unless it is
\* aborted on the way: whoever else removes the agent or releases it meanwhile.
ClosedIsReleased ==
    \A c, a \in Calls :
        (call[c] \in {"bury", "remove"} /\ target[c] = a)
            ~> (a \notin Slots \/ call[c] = "dropped")
=============================================================================
