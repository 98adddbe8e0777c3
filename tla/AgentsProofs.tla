---------------------------- MODULE AgentsProofs ----------------------------
(***************************************************************************)
(* Proofs, for any number of calls and any limit, that the guards count    *)
(* the slots exactly and that the limit holds.                             *)
(*                                                                         *)
(* The counter and the set are changed in separate steps, so the invariant *)
(* says who holds a slot in between: an agent that was committed is past   *)
(* its reservation (Past), one whose slot is being given back is no longer *)
(* in the set, in the map or in other hands (GivenBack), and the counter   *)
(* is the number of those who hold one (CountIsSlots).                     *)
(***************************************************************************)
EXTENDS Agents, FiniteSetTheorems, TLAPS

\* The call is over with its reservation, or was never a spawn.
PastPCs == {"send", "bury", "closing", "remove", "release", "subtract", "spawned", "done",
            "dropped"}
Past(c) == call[c] \in PastPCs

OnAgentPCs == {"send", "bury", "closing", "remove", "release", "subtract"}

TargetsPast ==
    /\ \A a \in committed : Past(a)
    /\ \A c \in Calls : ~Past(c) => target[c] = c
    /\ \A c \in Calls : call[c] \in OnAgentPCs => Past(target[c])

GivenBack ==
    \A c \in Calls :
        /\ call[c] \in {"release", "subtract"} => target[c] \notin threads
        /\ call[c] = "subtract" =>
               /\ target[c] \notin committed
               /\ \A d \in Calls : call[d] = "subtract" /\ target[d] = target[c] => d = c

Control == TypeOK /\ TargetsPast /\ GivenBack /\ FoundHasSlot

Inv == Control /\ CountIsSlots /\ count <= Limit

----------------------------------------------------------------------------
(* The control part of the invariant.                                      *)

\* A session starts without agents.
LEMMA InitControl == Init => Control
  BY CallsAssumption
  DEF Init, Control, TypeOK, TargetsPast, GivenBack, FoundHasSlot, CallPCs, LoopPCs, OnAgentPCs

\* A step of a spawn keeps the control part.
LEMMA SpawnControl ==
  ASSUME Control, NEW c \in Calls,
         \/ BeginSpawn(c) \/ LoadCount(c) \/ SwapCount(c) \/ CreateSession(c)
         \/ InsertThread(c) \/ CommitSpawn(c)
  PROVE  Control'
  <1> USE LimitAssumption
      DEF Control, TypeOK, TargetsPast, GivenBack, FoundHasSlot, CallPCs, LoopPCs, OnAgentPCs,
          PastPCs, Past, Go, guardVars, agentVars
  <1>1. CASE BeginSpawn(c)
    BY <1>1 DEF BeginSpawn
  <1>2. CASE LoadCount(c)
    BY <1>2 DEF LoadCount
  <1>3. CASE SwapCount(c)
    BY <1>3 DEF SwapCount
  <1>4. CASE CreateSession(c)
    BY <1>4 DEF CreateSession
  <1>5. CASE InsertThread(c)
    BY <1>5 DEF InsertThread
  <1>6. CASE CommitSpawn(c)
    <2>1. /\ call[c] = "commit" /\ committed' = committed \cup {c}
          /\ call' = [call EXCEPT ![c] = "send"]
          /\ UNCHANGED <<count, threads, loop, seen, target>> /\ announced' = announced \cup {c}
      BY <1>6 DEF CommitSpawn
    <2>2. TypeOK'
      BY <2>1
    <2>3. TargetsPast'
      BY <2>1
    <2>4. \A d \in Calls : call[d] \in OnAgentPCs => target[d] # c
      BY <2>1
    <2>5. \A d \in Calls : call'[d] \in {"release", "subtract"} => d # c /\ call'[d] = call[d]
      BY <2>1
    <2>6. GivenBack'
      BY <2>1, <2>4, <2>5
    <2>7. FoundHasSlot'
      BY <2>1
    <2>8. QED
      BY <2>2, <2>3, <2>6, <2>7
  <1>7. QED
    BY <1>1, <1>2, <1>3, <1>4, <1>5, <1>6

\* A step of a prompt or a close keeps the control part.
LEMMA PromptControl ==
  ASSUME Control, NEW c \in Calls, NEW a \in Calls,
         \/ BeginPrompt(c, a) \/ BeginClose(c, a) \/ SendPrompt(c) \/ BuryAgent(c)
         \/ AskShutdown(c) \/ RemoveThread(c) \/ DropCall(c)
  PROVE  Control'
  <1> USE DEF Control, TypeOK, TargetsPast, GivenBack, FoundHasSlot, CallPCs, LoopPCs,
          OnAgentPCs, PastPCs, Past, Go, guardVars, agentVars
  <1>1. CASE BeginPrompt(c, a)
    BY <1>1 DEF BeginPrompt
  <1>2. CASE BeginClose(c, a)
    BY <1>2 DEF BeginClose
  <1>3. CASE SendPrompt(c)
    BY <1>3 DEF SendPrompt, Returned
  <1>4. CASE BuryAgent(c)
    BY <1>4 DEF BuryAgent
  <1>5. CASE AskShutdown(c)
    BY <1>5 DEF AskShutdown, AskLoop
  <1>6. CASE RemoveThread(c)
    BY <1>6 DEF RemoveThread
  <1>7. CASE DropCall(c)
    BY <1>7 DEF DropCall
  <1>8. QED
    BY <1>1, <1>2, <1>3, <1>4, <1>5, <1>6, <1>7

\* A step of an agent or a client keeps the control part.
LEMMA OutsideControl ==
  ASSUME Control, NEW a \in Calls,
         StopLoop(a) \/ ClientShutdown(a) \/ ClientArchive(a)
  PROVE  Control'
  BY DEF Control, TypeOK, TargetsPast, GivenBack, FoundHasSlot, CallPCs, LoopPCs, OnAgentPCs,
      PastPCs, Past, guardVars, StopLoop, ClientShutdown, ClientArchive, AskLoop

\* Releasing an agent keeps the control part: it left the map before.
LEMMA ReleaseControl ==
  ASSUME Control, NEW c \in Calls, ReleaseThread(c)
  PROVE  Control'
  BY DEF Control, TypeOK, TargetsPast, GivenBack, FoundHasSlot, CallPCs, LoopPCs, OnAgentPCs,
      PastPCs, Past, Go, agentVars, ReleaseThread

----------------------------------------------------------------------------
(* The slots.                                                              *)

\* The slots are finitely many, as the calls are.
LEMMA SlotsFinite == IsFiniteSet(Slots) /\ Cardinality(Slots) \in Nat
  <1>1. Slots \subseteq Calls
    BY DEF Slots
  <1>2. QED
    BY <1>1, CallsAssumption, FS_Subset, FS_CardinalityType

\* What a step does to the slots: nothing, or it takes one below the limit, or it gives
\* one back.
Untouched == Slots' = Slots /\ count' = count
Taken(c) == c \notin Slots /\ count < Limit /\ Slots' = Slots \cup {c} /\ count' = count + 1
Given(a) == a \in Slots /\ Slots' = Slots \ {a} /\ count' = count - 1

\* When somebody holds a slot the counter is above zero.
LEMMA HeldCounts ==
  ASSUME Inv, NEW a \in Slots
  PROVE  count - 1 \in Nat
  <1>1. Cardinality(Slots) # 0
    BY SlotsFinite, FS_EmptySet
  <1>2. QED
    BY <1>1 DEF Inv, Control, TypeOK, CountIsSlots

\* A compare-exchange that succeeds takes a slot below the limit.
LEMMA SwapSlots ==
  ASSUME Control, NEW c \in Calls, SwapCount(c)
  PROVE  Untouched \/ Taken(c)
  <1> USE LimitAssumption
      DEF Control, TypeOK, TargetsPast, OnAgentPCs, PastPCs, Past, Go, agentVars, CallPCs
  <1>1. CASE seen[c] >= Limit
    BY <1>1 DEF SwapCount, Untouched, Slots, HasSlot, Reserving
  <1>2. CASE seen[c] < Limit /\ count' = count + 1 /\ Go(c, "create") /\ count = seen[c]
    <2>1. ~HasSlot(c)
      BY <1>2 DEF SwapCount, HasSlot, Reserving
    <2>2. \A a \in Calls : HasSlot(a)' <=> HasSlot(a) \/ a = c
      BY <1>2 DEF SwapCount, HasSlot, Reserving
    <2>3. Slots' = Slots \cup {c} /\ c \notin Slots
      BY <2>1, <2>2 DEF Slots
    <2>4. QED
      BY <1>2, <2>3 DEF Taken
  <1>3. CASE UNCHANGED <<count, call>>
    BY <1>3 DEF SwapCount, Untouched, Slots, HasSlot, Reserving
  <1>4. QED
    BY <1>1, <1>2, <1>3 DEF SwapCount

\* A reservation that is dropped gives its slot back.
LEMMA AbandonSlots ==
  ASSUME Control, NEW c \in Calls, AbandonSpawn(c)
  PROVE  Given(c)
  <1> USE DEF Control, TypeOK, TargetsPast, OnAgentPCs, PastPCs, Past, Go, CallPCs
  <1>1. HasSlot(c)
    BY DEF AbandonSpawn, HasSlot, Reserving
  <1>2. \A a \in Calls : HasSlot(a)' <=> HasSlot(a) /\ a # c
    BY DEF AbandonSpawn, HasSlot, Reserving
  <1>3. Slots' = Slots \ {c} /\ c \in Slots
    BY <1>1, <1>2 DEF Slots
  <1>4. QED
    BY <1>3 DEF Given, AbandonSpawn

\* Subtracting gives back the slot of the agent released.
LEMMA SubtractSlots ==
  ASSUME Control, NEW c \in Calls, SubtractCount(c)
  PROVE  Given(target[c])
  <1> USE DEF Control, TypeOK, TargetsPast, GivenBack, OnAgentPCs, PastPCs, Past, Go, CallPCs
  <1>1. HasSlot(target[c])
    BY DEF SubtractCount, HasSlot
  <1>2. \A a \in Calls : HasSlot(a)' <=> HasSlot(a) /\ a # target[c]
    BY DEF SubtractCount, HasSlot, Reserving
  <1>3. Slots' = Slots \ {target[c]} /\ target[c] \in Slots
    BY <1>1, <1>2 DEF Slots
  <1>4. QED
    BY <1>3 DEF Given, SubtractCount

\* Committing a reservation, and taking an agent out of the set, move a slot from hand
\* to hand.
LEMMA HandOver ==
  ASSUME Control, NEW c \in Calls, CommitSpawn(c) \/ ReleaseThread(c)
  PROVE  Untouched
  <1> USE DEF Control, TypeOK, TargetsPast, GivenBack, OnAgentPCs, PastPCs, Past, Go, CallPCs
  <1>1. CASE CommitSpawn(c)
    <2>1. \A a \in Calls : HasSlot(a)' <=> HasSlot(a)
      BY <1>1 DEF CommitSpawn, HasSlot, Reserving
    <2>2. QED
      BY <1>1, <2>1 DEF CommitSpawn, Untouched, Slots
  <1>2. CASE ReleaseThread(c)
    <2>1. \A a \in Calls : HasSlot(a)' <=> HasSlot(a)
      BY <1>2 DEF ReleaseThread, HasSlot, Reserving
    <2>2. QED
      BY <1>2, <2>1 DEF ReleaseThread, Untouched, Slots
  <1>3. QED
    BY <1>1, <1>2

\* No other step concerns the slots.
LEMMA OtherSlots ==
  ASSUME Control, NEW c \in Calls, NEW a \in Calls,
         \/ BeginSpawn(c) \/ LoadCount(c) \/ CreateSession(c) \/ InsertThread(c)
         \/ BeginPrompt(c, a) \/ BeginClose(c, a) \/ SendPrompt(c) \/ BuryAgent(c)
         \/ AskShutdown(c) \/ RemoveThread(c) \/ DropCall(c)
         \/ StopLoop(c) \/ ClientShutdown(c) \/ ClientArchive(c)
  PROVE  Untouched
  <1>1. /\ count' = count /\ committed' = committed
        /\ \A d \in Calls : Reserving(d)' <=> Reserving(d)
        /\ \A d \in Calls : (call[d] = "subtract")' <=> call[d] = "subtract"
        /\ \A d \in Calls : call[d] = "subtract" => target'[d] = target[d]
    BY DEF Control, TypeOK, Reserving, Go, guardVars, agentVars, BeginSpawn, LoadCount,
        CreateSession, InsertThread, BeginPrompt, BeginClose, SendPrompt, Returned, BuryAgent,
        AskShutdown, RemoveThread, DropCall, StopLoop, ClientShutdown, ClientArchive
  <1>2. QED
    BY <1>1 DEF Untouched, Slots, HasSlot

\* Every step leaves the slots alone, takes one or gives one back, and keeps the
\* control part.
LEMMA StepSlots ==
  ASSUME Inv, Next
  PROVE  Control' /\ (Untouched \/ \E c \in Calls : Taken(c) \/ Given(c))
  <1>1. PICK c \in Calls :
          \/ BeginSpawn(c)
          \/ \E a \in Calls : BeginPrompt(c, a) \/ BeginClose(c, a)
          \/ Proceed(c) \/ AbandonSpawn(c) \/ DropCall(c)
          \/ StopLoop(c) \/ ClientShutdown(c) \/ ClientArchive(c)
    BY DEF Next
  <1> USE DEF Inv
  <1>2. CASE SwapCount(c)
    BY <1>2, SwapSlots, SpawnControl
  <1>3. CASE AbandonSpawn(c)
    <2>1. Given(c)
      BY <1>3, AbandonSlots
    <2>2. count - 1 \in Nat
      BY <2>1, HeldCounts DEF Given
    <2>3. Control'
      BY <1>3, <2>2 DEF Control, TypeOK, TargetsPast, GivenBack, FoundHasSlot, CallPCs, LoopPCs,
          OnAgentPCs, PastPCs, Past, Go, AbandonSpawn
    <2>4. QED
      BY <2>1, <2>3
  <1>4. CASE SubtractCount(c)
    <2>1. Given(target[c]) /\ target[c] \in Calls
      BY <1>4, SubtractSlots DEF Control, TypeOK
    <2>2. count - 1 \in Nat
      BY <2>1, HeldCounts DEF Given
    <2>3. Control'
      BY <1>4, <2>2 DEF Control, TypeOK, TargetsPast, GivenBack, FoundHasSlot, CallPCs, LoopPCs,
          OnAgentPCs, PastPCs, Past, Go, SubtractCount, agentVars
    <2>4. QED
      BY <2>1, <2>3
  <1>5. CASE CommitSpawn(c) \/ ReleaseThread(c)
    BY <1>5, HandOver, SpawnControl, ReleaseControl
  <1>6. CASE StopLoop(c) \/ ClientShutdown(c) \/ ClientArchive(c)
    BY <1>6, OtherSlots, OutsideControl
  <1>7. CASE BeginSpawn(c) \/ LoadCount(c) \/ CreateSession(c) \/ InsertThread(c)
    BY <1>7, OtherSlots, SpawnControl
  <1>8. CASE \/ \E a \in Calls : BeginPrompt(c, a) \/ BeginClose(c, a)
             \/ SendPrompt(c) \/ BuryAgent(c) \/ AskShutdown(c) \/ RemoveThread(c) \/ DropCall(c)
    BY <1>8, OtherSlots, PromptControl
  <1>9. QED
    BY <1>1, <1>2, <1>3, <1>4, <1>5, <1>6, <1>7, <1>8 DEF Proceed

----------------------------------------------------------------------------
(* The invariant and what follows from it.                                 *)

\* A session starts with no slot taken.
LEMMA InitInv == Init => Inv
  <1> SUFFICES ASSUME Init
               PROVE  Inv
    OBVIOUS
  <1>1. Slots = {}
    BY DEF Init, Slots, HasSlot, Reserving
  <1>2. CountIsSlots /\ count <= Limit
    BY <1>1, FS_EmptySet, LimitAssumption DEF Init, CountIsSlots
  <1>3. QED
    BY <1>2, InitControl DEF Inv

\* A step keeps the count of the slots: it changes both by one, or neither.
LEMMA StepInv ==
  ASSUME Inv, [Next]_vars
  PROVE  Inv'
  <1>1. CASE UNCHANGED vars
    <2>1. Control'
      BY <1>1 DEF Inv, Control, TypeOK, TargetsPast, GivenBack, FoundHasSlot, Past, vars,
          guardVars, agentVars
    <2>2. Untouched
      BY <1>1 DEF vars, guardVars, Untouched, Slots, HasSlot, Reserving
    <2>3. QED
      BY <2>1, <2>2 DEF Inv, CountIsSlots, Untouched
  <1>2. CASE Next
    <2>1. Control' /\ (Untouched \/ \E c \in Calls : Taken(c) \/ Given(c))
      BY <1>2, StepSlots
    <2>2. count \in Nat /\ IsFiniteSet(Slots) /\ Cardinality(Slots) \in Nat
      BY SlotsFinite DEF Inv, Control, TypeOK
    <2>3. CASE Untouched
      BY <2>1, <2>3 DEF Inv, CountIsSlots, Untouched
    <2>4. ASSUME NEW c \in Calls, Taken(c)
          PROVE  Inv'
      <3>1. Cardinality(Slots \cup {c}) = Cardinality(Slots) + 1
        BY <2>2, <2>4, FS_AddElement DEF Taken
      <3>2. CountIsSlots' /\ count' <= Limit
        BY <2>2, <2>4, <3>1, LimitAssumption DEF Taken, Inv, CountIsSlots
      <3>3. QED
        BY <2>1, <3>2 DEF Inv
    <2>5. ASSUME NEW c \in Calls, Given(c)
          PROVE  Inv'
      <3>1. Cardinality(Slots \ {c}) = Cardinality(Slots) - 1
        BY <2>2, <2>5, FS_RemoveElement DEF Given
      <3>2. CountIsSlots' /\ count' <= Limit
        BY <2>2, <2>5, <3>1, LimitAssumption DEF Given, Inv, CountIsSlots
      <3>3. QED
        BY <2>1, <3>2 DEF Inv
    <2>6. QED
      BY <2>1, <2>3, <2>4, <2>5
  <1>3. QED
    BY <1>1, <1>2

\* The invariant holds in every state.
LEMMA SpecInv == Spec => []Inv
  BY InitInv, StepInv, PTL DEF Spec

\* An agent in the map holds a slot: there are no more agents than slots taken.
LEMMA FoundWithin ==
  ASSUME Inv
  PROVE  AgentsWithinLimit
  <1>1. threads \subseteq Slots
    BY DEF Inv, Control, TypeOK, FoundHasSlot, Slots, HasSlot, Reserving
  <1>2. IsFiniteSet(threads) /\ Cardinality(threads) <= Cardinality(Slots)
    BY <1>1, SlotsFinite, FS_Subset
  <1>3. Cardinality(threads) \in Nat
    BY <1>2, FS_CardinalityType
  <1>4. QED
    BY <1>2, <1>3, SlotsFinite, LimitAssumption DEF Inv, CountIsSlots, AgentsWithinLimit

\* Every variable keeps its type; the count never goes below zero.
THEOREM AgentTypes == Spec => []TypeOK
  <1>1. Inv => TypeOK
    BY DEF Inv, Control
  <1>2. QED
    BY <1>1, SpecInv, PTL

\* The counter is the number of slots held, in every interleaving.
THEOREM SlotsCounted == Spec => []CountIsSlots
  <1>1. Inv => CountIsSlots
    BY DEF Inv
  <1>2. QED
    BY <1>1, SpecInv, PTL

\* The manager never has more agents than the limit.
THEOREM AgentLimit == Spec => []AgentsWithinLimit
  BY FoundWithin, SpecInv, PTL

\* An agent that can be found has a slot.
THEOREM AgentHasSlot == Spec => []FoundHasSlot
  <1>1. Inv => FoundHasSlot
    BY DEF Inv, Control
  <1>2. QED
    BY <1>1, SpecInv, PTL

\* The guards implement the slots: taken below the limit, given back once.
THEOREM AgentPool == Spec => PoolSpec
  <1>1. Init => Pool!Init
    BY DEF Init, Pool!Init, Slots, HasSlot, Reserving
  <1>2. Inv /\ [Next]_vars => [Pool!Next]_Slots
    <2> SUFFICES ASSUME Inv, [Next]_vars
                 PROVE  [Pool!Next]_Slots
      OBVIOUS
    <2>1. CASE UNCHANGED vars
      BY <2>1 DEF vars, guardVars, Slots, HasSlot, Reserving
    <2>2. CASE Next
      <3>1. Untouched \/ \E c \in Calls : Taken(c) \/ Given(c)
        BY <2>2, StepSlots
      <3>2. CASE Untouched
        BY <3>2 DEF Untouched
      <3>3. ASSUME NEW c \in Calls, Taken(c)
            PROVE  Pool!Take(c)
        <4>1. Pool!Cardinality(Slots) = Cardinality(Slots)
          BY DEF Pool!Cardinality, Cardinality
        <4>2. Cardinality(Slots) < Limit
          BY <3>3 DEF Taken, Inv, CountIsSlots
        <4>3. QED
          BY <3>3, <4>1, <4>2 DEF Taken, Pool!Take
      <3>4. ASSUME NEW c \in Calls, Given(c)
            PROVE  Pool!Give(c)
        BY <3>4 DEF Given, Pool!Give, Slots
      <3>5. QED
        BY <3>1, <3>2, <3>3, <3>4 DEF Pool!Next
    <2>3. QED
      BY <2>1, <2>2
  <1>3. QED
    BY <1>1, <1>2, SpecInv, PTL DEF Spec, PoolSpec, Pool!Spec
=============================================================================
