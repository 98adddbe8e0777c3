--------------------------- MODULE ToolCallsProofs ---------------------------
(***************************************************************************)
(* Proofs, for any number of calls and retries, of the safety properties   *)
(* of ToolCalls.                                                           *)
(*                                                                         *)
(* None of them is inductive as it stands.  Each gets the invariant that   *)
(* carries it: LockInv says that the sender in the approval slot belongs   *)
(* to a call that asks, which holds its lock alone; FlightInv, where every *)
(* live call is owned (in flight, or its handle dropped) and that a call   *)
(* reported aborted is in neither; Budget counts the attempts that retries *)
(* and transport still allow; OrderInv relates the history to the calls in *)
(* flight.  Each holds initially and is preserved by every step.           *)
(***************************************************************************)
EXTENDS ToolCalls, TLAPS

\* A call the model has not made has no task.
Fresh == \A c \in Calls : ~Recorded("call", c) => tool[c] = "none"

\* Outside an attempt nothing is in flight.
Settled == turn \notin {"stream", "drain"} => inFlight = <<>>

InFlight(c) == \E i \in DOMAIN inFlight : inFlight[i] = c

\* A live call is in flight, or its handle was dropped.
Owned == \A c \in Calls : Live(c) => c \in dropped \/ InFlight(c)

\* The sender in the slot is that of a call that waits for it, or is over.
SlotWaits ==
    slot # NoCall =>
        kind[slot] = "approval" /\ tool[slot] \in {"asking", "done", "gone"}

\* A call the model was told was aborted can no longer be drained.
Told ==
    \A c \in Calls : told[c] = "aborted" =>
        Recorded("call", c) /\ ~Recorded("output", c) /\ ~InFlight(c)

\* Attempts under way, of those the retries and the transport still allow.
Budget ==
    tries + (IF turn \in {"connect", "backoff"} THEN 1 ELSE 0)
        <= retries + 1 + (IF websockets THEN 0 ELSE MaxRetries + 1)

\* The initial state has its types.
LEMMA TypeInit == Init => TypeOK
  <1> SUFFICES ASSUME Init PROVE TypeOK
    OBVIOUS
  <1>1. retries \in 0 .. MaxRetries
    BY MaxRetriesAssumption DEF Init
  <1>2. history \in Seq(Items) /\ inFlight \in Seq(Calls)
    BY DEF Init
  <1>3. slot \in Calls \cup {NoCall} /\ answeredBy \in [Calls -> Calls \cup {NoCall}]
    BY DEF Init
  <1>4. websockets \in BOOLEAN /\ followUp \in BOOLEAN
    BY DEF Init
  <1> QED
    BY <1>1, <1>2, <1>3, <1>4 DEF Init, TypeOK, AllKinds, TurnPCs, ToolPCs

\* Every step keeps the types.
LEMMA TypeStep == TypeOK /\ [Next]_vars => TypeOK'
  <1> SUFFICES ASSUME TypeOK, [Next]_vars PROVE TypeOK'
    OBVIOUS
  <1> USE DEF TypeOK, turnVars, recordVars, toolVars, approvalVars, abortVars
  <1>1. CASE StartRequest
    BY <1>1, MaxRetriesAssumption DEF StartRequest, ForPrompt, TurnPCs
  <1>2. CASE Connect
    <2>1. attempt' \in Nat /\ tries' \in Nat
      BY <1>2 DEF Connect
    <2> QED BY <2>1, <1>2 DEF Connect, TurnPCs
  <1>3. ASSUME NEW c \in Calls, NEW k \in Kinds, StreamCall(k, c) PROVE TypeOK'
    BY <1>3, KindsAssumption DEF StreamCall, Record, Items, ToolPCs
  <1>4. ASSUME NEW c \in Calls, StreamCallWithoutId(c) PROVE TypeOK'
    BY <1>4 DEF StreamCallWithoutId, Record, Items, AllKinds
  <1>5. ASSUME NEW o \in {"ok", "retryable", "cancelled"}, BreakStream(o) PROVE TypeOK'
    BY <1>5 DEF BreakStream, TurnPCs
  <1>6. ASSUME NEW o \in {"retryable", "error"}, StreamFails(o) PROVE TypeOK'
    BY <1>6 DEF StreamFails, DropInFlight, TurnPCs
  <1>7. CASE SeeCancelled
    BY <1>7 DEF SeeCancelled, BreakStream, TurnPCs
  <1>8. CASE DrainNext
    <2>1. Head(inFlight) \in Calls /\ inFlight' \in Seq(Calls)
      BY <1>8 DEF DrainNext
    <2>2. history' \in Seq(Items)
      <3>1. OutputOf(Head(inFlight)) \in Seq(Items)
        <4>1. [item |-> "output", call |-> Head(inFlight)] \in Items
          BY <2>1 DEF Items
        <4> QED BY <4>1 DEF OutputOf
      <3> QED BY <3>1, <1>8 DEF DrainNext, Record
    <2> QED BY <2>1, <2>2, <1>8 DEF DrainNext
  <1>9. CASE DrainEnds
    BY <1>9 DEF DrainEnds, TurnPCs
  <1>10. CASE AttemptFailed
    <2>1. retries' \in 0 .. MaxRetries
      BY <1>10, MaxRetriesAssumption
      DEF AttemptFailed, SwitchTransport, WaitAndRetry, GiveUp
    <2>2. websockets' \in BOOLEAN
      BY <1>10 DEF AttemptFailed, SwitchTransport, WaitAndRetry, GiveUp
    <2> QED
      BY <2>1, <2>2, <1>10
      DEF AttemptFailed, SwitchTransport, WaitAndRetry, GiveUp, TurnPCs
  <1>11. CASE BackoffEnds
    BY <1>11 DEF BackoffEnds, TurnPCs
  <1>12. ASSUME NEW c \in Calls, Tool(c) PROVE TypeOK'
    <2>1. CASE Acquire(c)
      BY <2>1 DEF Acquire, Move, ToolPCs
    <2>2. CASE Ask(c)
      BY <2>2 DEF Ask, Insert, ToolPCs
    <2>3. CASE AskUnregistered(c)
      BY <2>3 DEF AskUnregistered, Move, ToolPCs
    <2>4. ASSUME NEW r \in {"output", "fatal"}, Return(c, r) PROVE TypeOK'
      BY <2>4 DEF Return, Move, ToolPCs
    <2>5. CASE ToolDropped(c)
      BY <2>5 DEF ToolDropped, Move, ToolPCs
    <2> QED
      BY <1>12, <2>1, <2>2, <2>3, <2>4, <2>5 DEF Tool, ToolReturns, ToolCancelled
  <1>13. ASSUME NEW p \in Calls, Answer(p) PROVE TypeOK'
    <2>1. slot # NoCall => slot \in Calls
      OBVIOUS
    <2>2. CASE UNCHANGED <<tool, answeredBy>>
      BY <2>2, <1>13 DEF Answer
    <2>3. CASE SlotAwaited /\ Move(slot, "resumed") /\ answeredBy' = [answeredBy EXCEPT ![slot] = p]
      BY <2>1, <2>3, <1>13 DEF Answer, SlotAwaited, Move, ToolPCs
    <2> QED BY <2>2, <2>3, <1>13 DEF Answer
  <1>14. CASE TakeTurn
    BY <1>14 DEF TakeTurn, ToolPCs
  <1>15. CASE CancelToken
    BY <1>15 DEF CancelToken
  <1>16. CASE AbortTurn
    BY <1>16 DEF AbortTurn, DropInFlight, TurnPCs
  <1>17. CASE UNCHANGED vars
    BY <1>17 DEF vars
  <1> QED
    BY <1>1, <1>2, <1>3, <1>4, <1>5, <1>6, <1>7, <1>8, <1>9, <1>10, <1>11, <1>12, <1>13,
       <1>14, <1>15, <1>16, <1>17
    DEF Next, Turn, ResponseCompleted, StreamClosed

\* The variables of a turn keep their types.
THEOREM ToolTypeOK == Spec => []TypeOK
  <1> QED BY TypeInit, TypeStep, PTL DEF Spec

\* Record keeps what the history has, at its place, and adds the new items after it.
LEMMA RecordAppends ==
    ASSUME TypeOK, NEW s \in Seq(Items), Record(s)
    PROVE  /\ \A i \in DOMAIN history : i \in DOMAIN history' /\ history'[i] = history[i]
           /\ \A j \in DOMAIN s : /\ Len(history) + j \in DOMAIN history'
                                 /\ history'[Len(history) + j] = s[j]
           /\ \A i \in DOMAIN history' : i \notin DOMAIN history =>
                 /\ i \in Int
                 /\ i - Len(history) \in DOMAIN s
                 /\ history'[i] = s[i - Len(history)]
                 /\ \A k \in DOMAIN history : k < i
  <1>1. history \in Seq(Items) /\ history' = history \o s
    BY DEF TypeOK, Record
  <1>2. DOMAIN history' = 1 .. Len(history) + Len(s)
    BY <1>1
  <1> QED BY <1>1, <1>2

\* What is recorded stays recorded, and Record adds what it says.
LEMMA RecordedGrows ==
    ASSUME TypeOK, NEW s \in Seq(Items), Record(s), NEW x, NEW c
    PROVE  Recorded(x, c)' <=>
             Recorded(x, c) \/ \E j \in DOMAIN s : s[j] = [item |-> x, call |-> c]
  <1> DEFINE r == [item |-> x, call |-> c]
  <1>1. ASSUME Recorded(x, c)'
        PROVE  Recorded(x, c) \/ \E j \in DOMAIN s : s[j] = r
    BY <1>1, RecordAppends DEF Recorded
  <1>2. ASSUME Recorded(x, c) \/ \E j \in DOMAIN s : s[j] = r
        PROVE  Recorded(x, c)'
    BY <1>2, RecordAppends DEF Recorded
  <1> QED BY <1>1, <1>2

----------------------------------------------------------------------------
(* The lock and the approval slot.                                         *)

LockInv == Fresh /\ ExclusiveAlone /\ SlotWaits

\* A call is recorded before its task is spawned, under a kind and a lock that do not
\* change while it runs.
LEMMA LockStep == TypeOK /\ LockInv /\ [Next]_vars => LockInv'
  <1> SUFFICES ASSUME TypeOK, LockInv, [Next]_vars PROVE LockInv'
    OBVIOUS
  <1>1. CASE UNCHANGED <<history, kind, tool, runtime, slot>>
    BY <1>1 DEF LockInv, Fresh, Recorded, ExclusiveAlone, SlotWaits, Holding
  <1>2. ASSUME NEW c \in Calls, NEW k \in Kinds, StreamCall(k, c) PROVE LockInv'
    <2> DEFINE s == <<[item |-> "call", call |-> c]>>
    <2>1. s \in Seq(Items) /\ Record(s) /\ s[1] = [item |-> "call", call |-> c] /\ 1 \in DOMAIN s
      BY <1>2 DEF StreamCall, Items
    <2>2. tool[c] = "none"
      BY <1>2 DEF StreamCall, IsNext, LockInv, Fresh
    <2>3. slot # c
      BY <2>2 DEF LockInv, SlotWaits, TypeOK, NoCall, Calls
    <2>4. Fresh'
      <3> SUFFICES ASSUME NEW d \in Calls, ~Recorded("call", d)' PROVE tool'[d] = "none"
        BY DEF Fresh
      <3>1. /\ ~Recorded("call", d)
            /\ \A j \in DOMAIN s : s[j] # [item |-> "call", call |-> d]
        BY <2>1, RecordedGrows
      <3>2. d # c
        BY <2>1, <3>1
      <3>3. tool[d] = "none"
        BY <3>1 DEF LockInv, Fresh
      <3> QED BY <1>2, <3>2, <3>3 DEF StreamCall, TypeOK
    <2>5. ExclusiveAlone'
      BY <1>2, <2>2 DEF StreamCall, LockInv, ExclusiveAlone, Holding, TypeOK
    <2>6. SlotWaits'
      BY <1>2, <2>3 DEF StreamCall, LockInv, SlotWaits, TypeOK, approvalVars
    <2> QED BY <2>4, <2>5, <2>6 DEF LockInv
  <1>3. ASSUME NEW c \in Calls, StreamCallWithoutId(c) PROVE LockInv'
    <2> DEFINE s == <<[item |-> "call", call |-> c], [item |-> "error", call |-> c]>>
    <2>1. s \in Seq(Items) /\ Record(s)
      BY <1>3 DEF StreamCallWithoutId, Items
    <2>2. tool[c] = "none"
      BY <1>3 DEF StreamCallWithoutId, IsNext, LockInv, Fresh
    <2>3. slot # c
      BY <2>2 DEF LockInv, SlotWaits, TypeOK, NoCall, Calls
    <2>4. Fresh'
      BY <1>3, <2>1, RecordedGrows DEF StreamCallWithoutId, LockInv, Fresh, TypeOK
    <2>5. ExclusiveAlone'
      BY <1>3, <2>2 DEF StreamCallWithoutId, LockInv, ExclusiveAlone, Holding, TypeOK
    <2>6. SlotWaits'
      BY <1>3, <2>3 DEF StreamCallWithoutId, LockInv, SlotWaits, TypeOK, approvalVars
    <2> QED BY <2>4, <2>5, <2>6 DEF LockInv
  <1>4. CASE DrainNext
    <2>1. OutputOf(Head(inFlight)) \in Seq(Items) /\ Record(OutputOf(Head(inFlight)))
      <3>1. Head(inFlight) \in Calls
        BY <1>4 DEF DrainNext, TypeOK
      <3>2. [item |-> "output", call |-> Head(inFlight)] \in Items
        BY <3>1 DEF Items
      <3> QED BY <1>4, <3>2 DEF DrainNext, OutputOf
    <2>2. Fresh'
      BY <1>4, <2>1, RecordedGrows DEF DrainNext, LockInv, Fresh, toolVars
    <2> QED
      BY <1>4, <2>2
      DEF DrainNext, LockInv, ExclusiveAlone, SlotWaits, Holding, toolVars, approvalVars
  <1>5. ASSUME NEW c \in Calls, Tool(c) PROVE LockInv'
    <2>1. CASE Acquire(c)
      BY <2>1 DEF Acquire, Move, LockInv, Fresh, Recorded, ExclusiveAlone, SlotWaits, Holding,
        Shares, TypeOK, recordVars, approvalVars
    <2>2. CASE Ask(c)
      BY <2>2 DEF Ask, Insert, LockInv, Fresh, Recorded, ExclusiveAlone, SlotWaits, Holding,
        TypeOK, recordVars
    <2>3. CASE AskUnregistered(c)
      <3>1. tool[c] = "running" /\ \E pc \in {"asking", "resumed"} : Move(c, pc)
        BY <2>3 DEF AskUnregistered
      <3>2. SlotWaits'
        BY <2>3, <3>1 DEF AskUnregistered, Move, LockInv, SlotWaits, TypeOK
      <3>3. Fresh' /\ ExclusiveAlone'
        BY <2>3, <3>1
        DEF AskUnregistered, Move, LockInv, Fresh, Recorded, ExclusiveAlone, Holding, TypeOK,
            recordVars
      <3> QED BY <3>2, <3>3 DEF LockInv
    <2>4. ASSUME NEW r \in {"output", "fatal"}, Return(c, r), tool[c] # "none" PROVE LockInv'
      BY <2>4 DEF Return, Move, LockInv, Fresh, Recorded, ExclusiveAlone, SlotWaits,
        Holding, TypeOK, recordVars, approvalVars
    <2>5. CASE ToolDropped(c)
      BY <2>5 DEF ToolDropped, Live, Move, LockInv, Fresh, Recorded, ExclusiveAlone, SlotWaits,
        Holding, TypeOK, recordVars, approvalVars
    <2> QED
      BY <1>5, <2>1, <2>2, <2>3, <2>4, <2>5 DEF Tool, ToolReturns, ToolCancelled, Live
  <1>6. ASSUME NEW p \in Calls, Answer(p) PROVE LockInv'
    <2>1. SlotWaits'
      BY <1>6 DEF Answer, SlotWaits
    <2>2. CASE SlotAwaited /\ Move(slot, "resumed")
      <3>1. slot \in Calls /\ tool[slot] = "asking"
        BY <2>2 DEF SlotAwaited, TypeOK
      <3>2. Fresh'
        BY <1>6, <2>2, <3>1 DEF Answer, Move, LockInv, Fresh, Recorded, TypeOK, recordVars
      <3>3. ExclusiveAlone'
        BY <1>6, <2>2, <3>1 DEF Answer, Move, LockInv, ExclusiveAlone, Holding, TypeOK
      <3> QED BY <2>1, <3>2, <3>3 DEF LockInv
    <2>3. CASE UNCHANGED tool
      BY <1>6, <2>1, <2>3
      DEF Answer, LockInv, Fresh, Recorded, ExclusiveAlone, Holding, recordVars
    <2> QED BY <1>6, <2>2, <2>3 DEF Answer
  <1>7. CASE TakeTurn
    BY <1>7 DEF TakeTurn, LockInv, Fresh, Recorded, ExclusiveAlone, SlotWaits, Holding,
      TypeOK, recordVars
  <1> QED
    BY <1>1, <1>2, <1>3, <1>4, <1>5, <1>6, <1>7
    DEF Next, Turn, StartRequest, Connect, ResponseCompleted, StreamClosed, BreakStream,
        StreamFails, DropInFlight, SeeCancelled, DrainEnds, AttemptFailed, BackoffEnds,
        CancelToken, AbortTurn, vars, turnVars, recordVars, toolVars, approvalVars

\* The lock invariant, with the types it needs, holds throughout.
LEMMA LockAlways == Spec => [](TypeOK /\ LockInv)
  <1>1. Init => LockInv
    BY DEF Init, LockInv, Fresh, ExclusiveAlone, SlotWaits, Holding, NoCall
  <1> QED BY <1>1, LockStep, TypeInit, TypeStep, PTL DEF Spec

\* handle_tool_call's lock: a call that is not read-only runs alone in its attempt.
THEOREM ToolExclusion == Spec => []ExclusiveAlone
  <1>1. LockInv => ExclusiveAlone
    BY DEF LockInv
  <1> QED BY <1>1, LockAlways, PTL

\* Calls of one attempt never displace one another's approval request.
THEOREM ToolSlot == Spec => AttemptSharesNoSlot
  <1> DEFINE Keeps == \A c \in Calls :
                (slot = c /\ slot' \notin {c, NoCall} /\ Live(c)) => runtime[slot'] # runtime[c]
  <1>1. TypeOK /\ LockInv /\ [Next]_vars => Keeps
    <2> SUFFICES ASSUME TypeOK, LockInv, [Next]_vars PROVE Keeps
      OBVIOUS
    <2>1. CASE slot' \in {slot, NoCall}
      BY <2>1
    <2>2. ASSUME NEW d \in Calls, Ask(d) PROVE Keeps
      <3> SUFFICES ASSUME NEW c \in Calls, slot = c, slot' \notin {c, NoCall}, Live(c)
                   PROVE  runtime[slot'] # runtime[c]
        OBVIOUS
      <3>1. c # NoCall
        BY DEF Calls, NoCall
      <3>2. kind[c] = "approval" /\ Holding(c)
        BY <3>1 DEF LockInv, SlotWaits, Live, Holding
      <3>3. slot' = d /\ Holding(d)
        BY <2>2 DEF Ask, Insert, Holding
      <3> QED BY <3>2, <3>3 DEF LockInv, ExclusiveAlone
    <2> QED
      BY <2>1, <2>2
      DEF Next, Turn, StartRequest, Connect, ResponseCompleted, StreamClosed, BreakStream,
          StreamFails, StreamCall, StreamCallWithoutId, SeeCancelled, DrainNext, DrainEnds,
          AttemptFailed, BackoffEnds, Tool, Acquire, AskUnregistered, ToolReturns, Return,
          ToolCancelled, ToolDropped, Answer, TakeTurn, CancelToken, AbortTurn, vars,
          approvalVars
  <1> QED BY <1>1, LockAlways, PTL DEF Spec, AttemptSharesNoSlot

----------------------------------------------------------------------------
(* What is in flight.                                                      *)

FlightInv == Settled /\ Owned /\ Told

\* handle_output_item_done: the new call is in flight, beside those that were.
LEMMA CallGoesInFlight ==
    ASSUME TypeOK, NEW c \in Calls, inFlight' = Append(inFlight, c), NEW d
    PROVE  InFlight(d)' <=> InFlight(d) \/ d = c
  <1>1. inFlight \in Seq(Calls)
    BY DEF TypeOK
  <1>2. DOMAIN inFlight' = 1 .. Len(inFlight) + 1 /\ inFlight'[Len(inFlight) + 1] = c
    BY <1>1
  <1>3. \A i \in DOMAIN inFlight : i \in DOMAIN inFlight' /\ inFlight'[i] = inFlight[i]
    BY <1>1, <1>2
  <1>4. \A i \in DOMAIN inFlight' : i \in DOMAIN inFlight \/ i = Len(inFlight) + 1
    BY <1>1, <1>2
  <1>5. Len(inFlight) + 1 \in DOMAIN inFlight'
    BY <1>1, <1>2
  <1> QED BY <1>2, <1>3, <1>4, <1>5 DEF InFlight

\* drain_in_flight takes the oldest call out, and no other.
LEMMA DrainTakesHead ==
    ASSUME TypeOK, inFlight # <<>>, inFlight' = Tail(inFlight), NEW d
    PROVE  /\ InFlight(d)' => InFlight(d)
           /\ InFlight(d) => InFlight(d)' \/ d = Head(inFlight)
           /\ InFlight(Head(inFlight))
  <1>1. inFlight \in Seq(Calls) /\ Len(inFlight) \in Nat \ {0}
    BY DEF TypeOK
  <1>2. DOMAIN inFlight' = 1 .. Len(inFlight) - 1
    BY <1>1
  <1>3. \A i \in DOMAIN inFlight' :
            i + 1 \in DOMAIN inFlight /\ inFlight'[i] = inFlight[i + 1]
    BY <1>1, <1>2
  <1>4. ASSUME NEW i \in DOMAIN inFlight, i # 1
        PROVE  i - 1 \in DOMAIN inFlight' /\ inFlight'[i - 1] = inFlight[i]
    BY <1>1, <1>2, <1>4
  <1>5. 1 \in DOMAIN inFlight /\ inFlight[1] = Head(inFlight)
    BY <1>1
  <1>6. InFlight(d)' => InFlight(d)
    BY <1>3 DEF InFlight
  <1>7. InFlight(d) => InFlight(d)' \/ d = Head(inFlight)
    BY <1>4, <1>5 DEF InFlight
  <1> QED BY <1>5, <1>6, <1>7 DEF InFlight

\* Nothing leaves an attempt in flight, and what is drained was never called aborted.
LEMMA FlightStep == TypeOK /\ LockInv /\ FlightInv /\ [Next]_vars => FlightInv'
  <1> SUFFICES ASSUME TypeOK, LockInv, FlightInv, [Next]_vars PROVE FlightInv'
    OBVIOUS
  <1>1. ASSUME UNCHANGED <<turn, told, history, inFlight>>, dropped \subseteq dropped',
               \A c \in Calls : Live(c)' => Live(c)
        PROVE  FlightInv'
    BY <1>1 DEF FlightInv, Settled, Owned, Told, InFlight, Recorded
  <1>2. ASSUME UNCHANGED <<told, history, inFlight, tool, dropped>>,
               turn' \in {"stream", "drain"} \/ inFlight = <<>>
        PROVE  FlightInv'
    BY <1>2 DEF FlightInv, Settled, Owned, Told, InFlight, Recorded, Live
  <1>3. ASSUME DropInFlight, UNCHANGED <<told, history, tool>> PROVE FlightInv'
    <2>1. inFlight' = <<>> /\ \A c : ~InFlight(c)'
      BY <1>3 DEF DropInFlight, InFlight
    <2>2. \A c : c \in dropped \/ InFlight(c) => c \in dropped'
      BY <1>3 DEF DropInFlight, InFlight
    <2> QED
      BY <1>3, <2>1, <2>2 DEF FlightInv, Settled, Owned, Told, Recorded, Live
  <1>4. CASE StartRequest
    <2>1. inFlight = <<>> /\ \A c : ~InFlight(c)
      BY <1>4 DEF StartRequest, FlightInv, Settled, InFlight
    <2>2. Told'
      BY <1>4, <2>1 DEF StartRequest, ForPrompt, Told, InFlight, Recorded, recordVars
    <2> QED
      BY <1>4, <2>1, <2>2
      DEF StartRequest, FlightInv, Settled, Owned, InFlight, Live, recordVars, toolVars
  <1>5. ASSUME NEW c \in Calls, NEW k \in Kinds, StreamCall(k, c) PROVE FlightInv'
    <2> DEFINE s == <<[item |-> "call", call |-> c]>>
    <2>1. s \in Seq(Items) /\ Record(s)
      BY <1>5 DEF StreamCall, Items
    <2>2. \A x \in {"call", "output"}, d \in Calls :
             /\ Recorded(x, d) => Recorded(x, d)'
             /\ Recorded("output", d)' => Recorded("output", d)
      <3>1. \A j \in DOMAIN s, d \in Calls : s[j] # [item |-> "output", call |-> d]
        OBVIOUS
      <3>2. \A x, d : Recorded(x, d)' <=>
               Recorded(x, d) \/ \E j \in DOMAIN s : s[j] = [item |-> x, call |-> d]
        BY <2>1, RecordedGrows
      <3> QED BY <3>1, <3>2
    <2>3. \A d \in Calls : InFlight(d)' <=> InFlight(d) \/ d = c
      BY <1>5, CallGoesInFlight DEF StreamCall
    <2>4. told[c] # "aborted"
      BY <1>5 DEF StreamCall, IsNext, FlightInv, Told
    <2>5. Told'
      BY <1>5, <2>2, <2>3, <2>4 DEF StreamCall, FlightInv, Told
    <2>6. Owned'
      BY <1>5, <2>3 DEF StreamCall, FlightInv, Owned, Live, TypeOK
    <2> QED BY <1>5, <2>5, <2>6 DEF StreamCall, FlightInv, Settled
  <1>6. ASSUME NEW c \in Calls, StreamCallWithoutId(c) PROVE FlightInv'
    <2> DEFINE s == <<[item |-> "call", call |-> c], [item |-> "error", call |-> c]>>
    <2>1. s \in Seq(Items) /\ Record(s)
      BY <1>6 DEF StreamCallWithoutId, Items
    <2>2. \A x \in {"call", "output"}, d \in Calls :
             /\ Recorded(x, d) => Recorded(x, d)'
             /\ Recorded("output", d)' => Recorded("output", d)
      <3>1. \A j \in DOMAIN s, d \in Calls : s[j] # [item |-> "output", call |-> d]
        OBVIOUS
      <3>2. \A x, d : Recorded(x, d)' <=>
               Recorded(x, d) \/ \E j \in DOMAIN s : s[j] = [item |-> x, call |-> d]
        BY <2>1, RecordedGrows
      <3> QED BY <3>1, <3>2
    <2>3. Told'
      BY <1>6, <2>2 DEF StreamCallWithoutId, FlightInv, Told, InFlight
    <2> QED
      BY <1>6, <2>3 DEF StreamCallWithoutId, FlightInv, Settled, Owned, Live, InFlight
  <1>7. CASE DrainNext
    <2> DEFINE h == Head(inFlight)
               s == OutputOf(h)
    <2>1. InFlight(h) /\ h \in Calls /\ tool[h] = "done"
      BY <1>7, DrainTakesHead DEF DrainNext, TypeOK
    <2>2. s \in Seq(Items) /\ Record(s)
      <3>1. [item |-> "output", call |-> h] \in Items
        BY <2>1 DEF Items
      <3> QED BY <1>7, <3>1 DEF DrainNext, OutputOf
    <2>3. told[h] # "aborted"
      BY <2>1 DEF FlightInv, Told
    <2>4. \A d \in Calls :
             /\ Recorded("call", d) => Recorded("call", d)'
             /\ Recorded("output", d)' => Recorded("output", d) \/ d = h
      <3>1. \A j \in DOMAIN s : s[j] = [item |-> "output", call |-> h]
        BY DEF OutputOf
      <3> QED BY <2>2, <3>1, RecordedGrows
    <2>5. \A d \in Calls : /\ InFlight(d)' => InFlight(d)
                           /\ InFlight(d) => InFlight(d)' \/ d = h
      BY <1>7, DrainTakesHead DEF DrainNext
    <2>6. Told'
      BY <1>7, <2>3, <2>4, <2>5 DEF DrainNext, FlightInv, Told, turnVars
    <2>7. Owned'
      BY <1>7, <2>1, <2>5 DEF DrainNext, FlightInv, Owned, Live, toolVars
    <2> QED BY <1>7, <2>6, <2>7 DEF DrainNext, FlightInv, Settled, turnVars
  <1>8. ASSUME NEW c \in Calls, Tool(c) PROVE FlightInv'
    <2>1. UNCHANGED <<turn, told, history, inFlight, dropped>>
      BY <1>8
      DEF Tool, Acquire, Ask, AskUnregistered, ToolReturns, ToolCancelled, Return, ToolDropped,
          turnVars, recordVars
    <2>2. \A d \in Calls : Live(d)' => Live(d)
      BY <1>8
      DEF Tool, Acquire, Ask, Insert, AskUnregistered, ToolReturns, ToolCancelled, Return,
          ToolDropped, Move, Live, TypeOK
    <2> QED BY <1>1, <2>1, <2>2
  <1>9. ASSUME NEW p \in Calls, Answer(p) PROVE FlightInv'
    <2>1. \A d \in Calls : Live(d)' => Live(d)
      BY <1>9 DEF Answer, SlotAwaited, Move, Live, TypeOK
    <2> QED BY <1>1, <1>9, <2>1 DEF Answer, turnVars, recordVars
  <1>10. CASE TakeTurn
    <2>1. \A d \in Calls : Live(d)' => Live(d)
      BY <1>10 DEF TakeTurn, Live, TypeOK
    <2> QED BY <1>1, <1>10, <2>1 DEF TakeTurn, turnVars, recordVars
  <1>11. CASE Connect \/ DrainEnds \/ AttemptFailed \/ BackoffEnds \/ SeeCancelled
    BY <1>2, <1>11
    DEF Connect, DrainEnds, AttemptFailed, BackoffEnds, SeeCancelled, BreakStream, FlightInv,
        Settled, recordVars, toolVars
  <1>12. ASSUME NEW o \in {"ok", "retryable"}, BreakStream(o) PROVE FlightInv'
    BY <1>2, <1>12 DEF BreakStream, recordVars, toolVars
  <1>13. ASSUME NEW o \in {"retryable", "error"}, StreamFails(o) PROVE FlightInv'
    BY <1>3, <1>13 DEF StreamFails
  <1>14. CASE AbortTurn
    BY <1>3, <1>14 DEF AbortTurn
  <1>15. CASE CancelToken \/ UNCHANGED vars
    BY <1>1, <1>15 DEF CancelToken, Live, vars, turnVars, recordVars, toolVars
  <1> QED
    BY <1>4, <1>5, <1>6, <1>7, <1>8, <1>9, <1>10, <1>11, <1>12, <1>13, <1>14, <1>15
    DEF Next, Turn, ResponseCompleted, StreamClosed

\* The same of the parts that follow the calls in flight.
LEMMA FlightAlways == Spec => []FlightInv
  <1>1. Init => FlightInv
    BY DEF Init, FlightInv, Settled, Owned, Told, Live
  <1> QED BY <1>1, FlightStep, LockAlways, PTL DEF Spec

\* try_run_sampling_request leaves no task behind but those its handles aborted.
THEOREM ToolNoLeak == Spec => []NothingLeaks
  <1>1. FlightInv => NothingLeaks
    BY DEF FlightInv, Settled, Owned, InFlight, NothingLeaks
  <1> QED BY <1>1, FlightAlways, PTL

\* A call the prompt calls aborted never has an output.
THEOREM ToolAbortedIsFinal == Spec => []AbortedIsFinal
  <1>1. FlightInv => AbortedIsFinal
    BY DEF FlightInv, Told, AbortedIsFinal
  <1> QED BY <1>1, FlightAlways, PTL

----------------------------------------------------------------------------
(* The retry budget.                                                       *)

\* Each attempt is paid for by a retry, or by the one switch of the transport.
LEMMA BudgetStep == TypeOK /\ Budget /\ [Next]_vars => Budget'
  <1> SUFFICES ASSUME TypeOK, Budget, [Next]_vars PROVE Budget'
    OBVIOUS
  <1> USE MaxRetriesAssumption DEF Budget, TypeOK
  <1>1. ASSUME UNCHANGED <<retries, tries, websockets>>,
               turn' \in {"connect", "backoff"} => turn \in {"connect", "backoff"}
        PROVE  Budget'
    BY <1>1
  <1>2. CASE StartRequest
    BY <1>2 DEF StartRequest
  <1>3. CASE Connect
    BY <1>3 DEF Connect
  <1>4. ASSUME NEW o \in {"retryable", "error"}, StreamFails(o) PROVE Budget'
    BY <1>4 DEF StreamFails
  <1>5. CASE AttemptFailed
    <2>1. CASE SwitchTransport
      BY <1>5, <2>1 DEF AttemptFailed, SwitchTransport
    <2>2. CASE WaitAndRetry
      BY <1>5, <2>2 DEF AttemptFailed, WaitAndRetry
    <2>3. CASE GiveUp
      BY <1>1, <1>5, <2>3 DEF AttemptFailed, GiveUp
    <2> QED BY <1>5, <2>1, <2>2, <2>3 DEF AttemptFailed
  <1>6. CASE UNCHANGED turnVars
    BY <1>1, <1>6 DEF turnVars
  <1>7. CASE DrainEnds \/ BackoffEnds \/ SeeCancelled \/ AbortTurn
    BY <1>1, <1>7 DEF DrainEnds, BackoffEnds, SeeCancelled, BreakStream, AbortTurn
  <1>8. ASSUME NEW o \in {"ok", "retryable"}, BreakStream(o) PROVE Budget'
    BY <1>1, <1>8 DEF BreakStream
  <1>9. ASSUME NEW c \in Calls, StreamCallWithoutId(c) \/ \E k \in Kinds : StreamCall(k, c)
        PROVE  Budget'
    BY <1>1, <1>9 DEF StreamCall, StreamCallWithoutId
  <1>10. ASSUME NEW c \in Calls, Tool(c) \/ Answer(c) PROVE Budget'
    BY <1>6, <1>10
    DEF Tool, Acquire, Ask, AskUnregistered, ToolReturns, Return, ToolCancelled, ToolDropped,
        Answer
  <1>11. CASE DrainNext \/ TakeTurn \/ CancelToken \/ UNCHANGED vars
    BY <1>6, <1>11 DEF DrainNext, TakeTurn, CancelToken, vars
  <1> QED
    BY <1>2, <1>3, <1>4, <1>5, <1>7, <1>8, <1>9, <1>10, <1>11
    DEF Next, Turn, ResponseCompleted, StreamClosed

\* run_sampling_request makes no more attempts than twice the provider's budget.
THEOREM ToolRetryBudget == Spec => []RetryBudget
  <1>1. Init => Budget
    BY MaxRetriesAssumption DEF Init, Budget
  <1>2. TypeOK /\ Budget => RetryBudget
    BY MaxRetriesAssumption DEF TypeOK, Budget, RetryBudget
  <1> QED BY <1>1, <1>2, BudgetStep, ToolTypeOK, PTL DEF Spec

----------------------------------------------------------------------------
(* The order of the history.                                               *)

\* Whatever is recorded of a call, or drained for it, the call itself comes with.
CallsRecorded ==
    \A c \in Calls :
        Recorded("output", c) \/ Recorded("error", c) \/ InFlight(c) => Recorded("call", c)

\* The calls recorded are the first ones the model made.
Closed == \A c, d \in Calls : d < c /\ Recorded("call", c) => Recorded("call", d)

FlightIncreases ==
    \A i, j \in DOMAIN inFlight : i < j => inFlight[i] < inFlight[j]

\* What is recorded was called before what is in flight.
DrainedFirst == \A c, d \in Calls : Recorded("output", c) /\ InFlight(d) => c < d

OrderInv == CallsRecorded /\ Closed /\ FlightIncreases /\ DrainedFirst /\ OutputsInOrder

\* The next call comes after all those recorded.
LEMMA NextIsLast ==
    ASSUME OrderInv, NEW c \in Calls, IsNext(c), NEW d \in Calls, Recorded("call", d)
    PROVE  d < c
  <1>1. ~(c < d) /\ c # d
    BY DEF OrderInv, Closed, IsNext
  <1> QED BY <1>1 DEF Calls

\* Recording items none of which is an output keeps the outputs as they were.
LEMMA CallsKeepOrder ==
    ASSUME TypeOK, OrderInv, NEW s \in Seq(Items), Record(s),
           \A j \in DOMAIN s : s[j].item # "output",
           \A i, j \in DOMAIN s : s[i] = s[j] => i = j,
           \A i \in DOMAIN history, j \in DOMAIN s : history[i] # s[j]
    PROVE  OutputsInOrder'
  <1>1. \A i, j \in DOMAIN history' : history'[i] = history'[j] => i = j
    <2> SUFFICES ASSUME NEW i \in DOMAIN history', NEW j \in DOMAIN history',
                        history'[i] = history'[j]
                 PROVE  i = j
      OBVIOUS
    <2>1. CASE i \in DOMAIN history /\ j \in DOMAIN history
      BY <2>1, RecordAppends DEF OrderInv, OutputsInOrder, OnceEach
    <2>2. CASE i \in DOMAIN history /\ j \notin DOMAIN history
      BY <2>2, RecordAppends
    <2>3. CASE i \notin DOMAIN history /\ j \in DOMAIN history
      BY <2>3, RecordAppends
    <2>4. CASE i \notin DOMAIN history /\ j \notin DOMAIN history
      <3>1. i - Len(history) = j - Len(history)
        BY <2>4, RecordAppends
      <3>2. i \in Int /\ j \in Int /\ Len(history) \in Int
        BY DEF TypeOK, Record
      <3> QED BY <3>1, <3>2
    <2> QED BY <2>1, <2>2, <2>3, <2>4
  <1>2. \A i \in DOMAIN history' : history'[i].item = "output" => i \in DOMAIN history
    BY RecordAppends
  <1>3. CallFirst'
    BY <1>2, RecordAppends DEF OrderInv, OutputsInOrder, CallFirst
  <1>4. OutputsIncrease'
    BY <1>2, RecordAppends DEF OrderInv, OutputsInOrder, OutputsIncrease
  <1> QED BY <1>1, <1>3, <1>4 DEF OutputsInOrder, OnceEach

\* An output recorded last, of a call after those that have one, is in its place.
LEMMA OutputKeepsOrder ==
    ASSUME TypeOK, OrderInv, NEW h \in Calls, InFlight(h),
           Record(<<[item |-> "output", call |-> h]>>)
    PROVE  OutputsInOrder'
  <1> DEFINE o == [item |-> "output", call |-> h]
             n == Len(history) + 1
  <1>1. <<o>> \in Seq(Items) /\ DOMAIN <<o>> = {1} /\ <<o>>[1] = o
    <2>1. o \in Items
      BY DEF Items
    <2> QED BY <2>1
  <1>2. Len(history) \in Nat /\ DOMAIN history = 1 .. Len(history)
    BY DEF TypeOK
  <1>3. /\ \A i \in DOMAIN history : i \in DOMAIN history' /\ history'[i] = history[i] /\ i < n
        /\ n \in DOMAIN history' /\ history'[n] = o
        /\ \A i \in DOMAIN history' : i \in DOMAIN history \/ i = n
    <2> HIDE DEF o
    <2>1. Record(<<o>>)
      BY DEF o
    <2>2. \A i \in DOMAIN history' : i \notin DOMAIN history => i = n
      <3>1. \A i \in DOMAIN history' : i \notin DOMAIN history =>
               i \in Int /\ i - Len(history) = 1
        BY <1>1, <2>1, RecordAppends
      <3> QED BY <1>2, <3>1
    <2>3. n \in DOMAIN history' /\ history'[n] = o
      <3>1. \A j \in DOMAIN <<o>> : /\ Len(history) + j \in DOMAIN history'
                                   /\ history'[Len(history) + j] = <<o>>[j]
        BY <1>1, <2>1, RecordAppends
      <3>2. 1 \in DOMAIN <<o>>
        BY <1>1
      <3> QED BY ONLY <1>1, <3>1, <3>2
    <2>4. \A i \in DOMAIN history : i \in DOMAIN history' /\ history'[i] = history[i]
      BY <1>1, <2>1, RecordAppends
    <2>5. \A i \in DOMAIN history : i < n
      BY ONLY <1>2
    <2> QED BY ONLY <2>2, <2>3, <2>4, <2>5
  <1>4. \A i \in DOMAIN history : history[i].item = "output" => history[i].call < h
    <2> SUFFICES ASSUME NEW i \in DOMAIN history, history[i].item = "output"
                 PROVE  history[i].call < h
      OBVIOUS
    <2>1. history[i] = [item |-> "output", call |-> history[i].call]
      <3>1. history[i] \in Items
        BY DEF TypeOK
      <3>2. PICK x \in {"call", "output", "error"}, d \in Calls :
               history[i] = [item |-> x, call |-> d]
        BY <3>1 DEF Items
      <3> QED BY <3>2
    <2>2. history[i].call \in Calls /\ Recorded("output", history[i].call)
      BY <2>1 DEF Items, Recorded, TypeOK
    <2> QED BY <2>2 DEF OrderInv, DrainedFirst
  <1>5. \A i \in DOMAIN history : history[i] # o
    BY <1>4 DEF Calls
  <1>6. OnceEach'
    BY <1>3, <1>5 DEF OrderInv, OutputsInOrder, OnceEach
  <1>7. CallFirst'
    <2>1. PICK k \in DOMAIN history : history[k] = [item |-> "call", call |-> h]
      BY DEF OrderInv, CallsRecorded, Recorded
    <2>2. \A i \in DOMAIN history' : history'[i].item = "output" =>
             \/ i \in DOMAIN history /\ history[i].item = "output"
             \/ i = n
      BY <1>3
    <2> QED BY <1>3, <2>1, <2>2 DEF OrderInv, OutputsInOrder, CallFirst
  <1>8. OutputsIncrease'
    <2> SUFFICES ASSUME NEW i \in DOMAIN history', NEW j \in DOMAIN history', i < j,
                        history'[i].item = "output", history'[j].item = "output"
                 PROVE  history'[i].call < history'[j].call
      BY DEF OutputsIncrease
    <2>1. i \in DOMAIN history
      BY <1>2, <1>3
    <2>2. CASE j = n
      BY <1>3, <1>4, <2>1, <2>2
    <2>3. CASE j \in DOMAIN history
      BY <1>3, <2>1, <2>3 DEF OrderInv, OutputsInOrder, OutputsIncrease
    <2> QED BY <1>3, <2>2, <2>3
  <1> QED BY <1>6, <1>7, <1>8 DEF OutputsInOrder

\* Streaming, draining and dropping keep the history in order.
LEMMA OrderStep == TypeOK /\ OrderInv /\ [Next]_vars => OrderInv'
  <1> SUFFICES ASSUME TypeOK, OrderInv, [Next]_vars PROVE OrderInv'
    OBVIOUS
  <1>1. CASE UNCHANGED recordVars
    BY <1>1
    DEF recordVars, OrderInv, CallsRecorded, Closed, FlightIncreases, DrainedFirst, InFlight,
        OutputsInOrder, OnceEach, CallFirst, OutputsIncrease, Recorded
  <1>2. ASSUME DropInFlight, UNCHANGED history PROVE OrderInv'
    <2>1. inFlight' = <<>> /\ \A c : ~InFlight(c)'
      BY <1>2 DEF DropInFlight, InFlight
    <2> QED
      BY <1>2, <2>1
      DEF OrderInv, CallsRecorded, Closed, FlightIncreases, DrainedFirst, OutputsInOrder,
          OnceEach, CallFirst, OutputsIncrease, Recorded
  <1>3. ASSUME NEW c \in Calls, NEW k \in Kinds, StreamCall(k, c) PROVE OrderInv'
    <2> DEFINE s == <<[item |-> "call", call |-> c]>>
    <2>1. s \in Seq(Items) /\ Record(s) /\ DOMAIN s = {1} /\ s[1] = [item |-> "call", call |-> c]
      BY <1>3 DEF StreamCall, Items
    <2>2. IsNext(c) /\ ~Recorded("call", c)
      BY <1>3 DEF StreamCall, IsNext
    <2> HIDE DEF s
    <2>3. \A x \in {"call", "output", "error"}, d \in Calls :
             Recorded(x, d)' <=> Recorded(x, d) \/ (x = "call" /\ d = c)
      BY <2>1, RecordedGrows
    <2>4. \A d \in Calls : InFlight(d)' <=> InFlight(d) \/ d = c
      BY <1>3, CallGoesInFlight DEF StreamCall
    <2>5. CallsRecorded'
      BY <2>3, <2>4 DEF OrderInv, CallsRecorded
    <2>6. Closed'
      BY <2>2, <2>3 DEF OrderInv, Closed, IsNext
    <2>7. \A d \in Calls : InFlight(d) \/ Recorded("output", d) => d < c
      BY <2>2, NextIsLast DEF OrderInv, CallsRecorded
    <2>8. FlightIncreases'
      <3>1. inFlight \in Seq(Calls) /\ inFlight' = Append(inFlight, c)
        BY <1>3 DEF StreamCall, TypeOK
      <3>2. \A i \in DOMAIN inFlight : inFlight[i] \in Calls /\ inFlight[i] < c
        BY <2>7, <3>1 DEF InFlight
      <3> QED BY <3>1, <3>2 DEF OrderInv, FlightIncreases
    <2>9. DrainedFirst'
      BY <2>3, <2>4, <2>7 DEF OrderInv, DrainedFirst
    <2>10. OutputsInOrder'
      <3>1. \A i \in DOMAIN history : history[i] # s[1]
        BY <2>1, <2>2 DEF Recorded
      <3> QED BY <2>1, <3>1, CallsKeepOrder
    <2> QED BY <2>5, <2>6, <2>8, <2>9, <2>10 DEF OrderInv
  <1>4. ASSUME NEW c \in Calls, StreamCallWithoutId(c) PROVE OrderInv'
    <2> DEFINE s == <<[item |-> "call", call |-> c], [item |-> "error", call |-> c]>>
    <2>1. /\ s \in Seq(Items) /\ Record(s) /\ DOMAIN s = {1, 2}
          /\ s[1] = [item |-> "call", call |-> c] /\ s[2] = [item |-> "error", call |-> c]
      BY <1>4 DEF StreamCallWithoutId, Items
    <2>2. IsNext(c) /\ ~Recorded("call", c) /\ ~Recorded("error", c)
      BY <1>4 DEF StreamCallWithoutId, IsNext, OrderInv, CallsRecorded
    <2> HIDE DEF s
    <2>3. \A x \in {"call", "output", "error"}, d \in Calls :
             Recorded(x, d)' <=> Recorded(x, d) \/ (x \in {"call", "error"} /\ d = c)
      BY <2>1, RecordedGrows
    <2>4. inFlight' = inFlight /\ \A d : InFlight(d)' <=> InFlight(d)
      BY <1>4 DEF StreamCallWithoutId, InFlight
    <2>5. CallsRecorded'
      BY <2>3, <2>4 DEF OrderInv, CallsRecorded
    <2>6. Closed'
      BY <2>2, <2>3 DEF OrderInv, Closed, IsNext
    <2>7. FlightIncreases' /\ DrainedFirst'
      BY <2>3, <2>4 DEF OrderInv, FlightIncreases, DrainedFirst
    <2>8. OutputsInOrder'
      <3>1. \A i \in DOMAIN history : history[i] # s[1] /\ history[i] # s[2]
        BY <2>1, <2>2 DEF Recorded
      <3> QED BY <2>1, <3>1, CallsKeepOrder
    <2> QED BY <2>5, <2>6, <2>7, <2>8 DEF OrderInv
  <1>5. CASE DrainNext
    <2> DEFINE h == Head(inFlight)
    <2>1. InFlight(h) /\ h \in Calls
      BY <1>5, DrainTakesHead DEF DrainNext, TypeOK
    <2>2. \A d \in Calls : InFlight(d)' => InFlight(d)
      BY <1>5, DrainTakesHead DEF DrainNext
    <2>3. FlightIncreases' /\ \A d \in Calls : InFlight(d)' => h < d
      <3>1. inFlight \in Seq(Calls) /\ inFlight # <<>> /\ inFlight' = Tail(inFlight)
        BY <1>5 DEF DrainNext, TypeOK
      <3>2. \A i \in DOMAIN inFlight' :
               i \in Nat /\ i > 0 /\ i + 1 \in DOMAIN inFlight /\ inFlight'[i] = inFlight[i + 1]
        BY <3>1
      <3>3. 1 \in DOMAIN inFlight /\ h = inFlight[1]
        BY <3>1
      <3>4. FlightIncreases'
        BY <3>2 DEF OrderInv, FlightIncreases
      <3> QED BY <3>2, <3>3, <3>4 DEF OrderInv, FlightIncreases, InFlight
    <2>4. CASE result[h] # "output"
      <3>1. history' = history
        BY <1>5, <2>4 DEF DrainNext, Record, OutputOf, TypeOK
      <3> QED
        BY <2>2, <2>3, <3>1
        DEF OrderInv, CallsRecorded, Closed, DrainedFirst, OutputsInOrder, OnceEach,
            CallFirst, OutputsIncrease, Recorded
    <2>5. CASE result[h] = "output"
      <3> DEFINE s == <<[item |-> "output", call |-> h]>>
      <3>1. s \in Seq(Items) /\ DOMAIN s = {1} /\ s[1] = [item |-> "output", call |-> h]
        <4>1. [item |-> "output", call |-> h] \in Items
          BY <2>1 DEF Items
        <4> QED BY <4>1
      <3>2. Record(s)
        BY <1>5, <2>5 DEF DrainNext, OutputOf
      <3>3. OutputsInOrder'
        BY <2>1, <3>2, OutputKeepsOrder
      <3> HIDE DEF s
      <3>4. \A x \in {"call", "output", "error"}, d \in Calls :
               Recorded(x, d)' <=> Recorded(x, d) \/ (x = "output" /\ d = h)
        BY <3>1, <3>2, RecordedGrows
      <3>5. CallsRecorded' /\ Closed'
        BY <2>1, <2>2, <3>4 DEF OrderInv, CallsRecorded, Closed
      <3>6. DrainedFirst'
        BY <2>2, <2>3, <3>4 DEF OrderInv, DrainedFirst
      <3> QED BY <2>3, <3>3, <3>5, <3>6 DEF OrderInv
    <2> QED BY <2>4, <2>5
  <1>6. ASSUME NEW o \in {"retryable", "error"}, StreamFails(o) PROVE OrderInv'
    BY <1>2, <1>6 DEF StreamFails
  <1>7. CASE AbortTurn
    BY <1>2, <1>7 DEF AbortTurn
  <1> QED
    BY <1>1, <1>3, <1>4, <1>5, <1>6, <1>7
    DEF Next, Turn, StartRequest, Connect, ResponseCompleted, StreamClosed, BreakStream,
        SeeCancelled, DrainEnds, AttemptFailed, BackoffEnds, Tool, Acquire, Ask,
        AskUnregistered, ToolReturns, Return, ToolCancelled, ToolDropped, Answer, TakeTurn,
        CancelToken, vars

\* Calls, outputs and errors enter the history once, outputs after and in the order of
\* their calls.
THEOREM ToolOrder == Spec => []OutputsInOrder
  <1>1. Init => OrderInv
    BY DEF Init, OrderInv, CallsRecorded, Closed, FlightIncreases, DrainedFirst, InFlight,
      OutputsInOrder, OnceEach, CallFirst, OutputsIncrease, Recorded
  <1>2. OrderInv => OutputsInOrder
    BY DEF OrderInv
  <1> QED BY <1>1, <1>2, OrderStep, ToolTypeOK, PTL DEF Spec
=============================================================================
