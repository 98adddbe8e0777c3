------------------------ MODULE ReadinessFlagProofs -------------------------
(***************************************************************************)
(* Proofs, for any number of snapshots and tool calls, that the readiness  *)
(* flag holds the calls back and implements the gate.                      *)
(*                                                                         *)
(* The flag, the tokens and the channel are read one at a time, so the     *)
(* invariant relates what an actor has read to what is there when it acts: *)
(* the mutex excludes (Exclusion), a subscriber that holds the gate still  *)
(* has its token or another one opened the gate (TokenKept), the           *)
(* tokens are used up once the flag is ready (UsedUp), and whoever was     *)
(* told that the flag is ready was told the truth (Truth).                 *)
(***************************************************************************)
EXTENDS ReadinessFlag, TLAPS

Exclusion ==
    /\ \A s \in Subscribers : sub[s] \in {"inserting", "removing", "clearing"} => holder = s
    /\ \A w \in Waiters : wait[w] = "swapping" => holder = w /\ tokens = {}

TokenKept == \A s \in Subscribers : Holds(s) => s \in tokens \/ \E u \in Subscribers : HasMarked(u)

UsedUp == ready => tokens = {} \/ \E u \in Subscribers : sub[u] = "clearing"

Truth ==
    /\ value => ready
    /\ \A w \in Waiters : wait[w] \in {"sending", "passed"} => ready
    /\ \A s \in Subscribers : HasMarked(s) => ready

Inv == TypeOK /\ Exclusion /\ TokenKept /\ UsedUp /\ Truth /\ OpenedByOne

----------------------------------------------------------------------------
(* A new flag has no subscriber, so the invariant holds of it. *)

\* The invariant holds of a new flag.
LEMMA InitInv == Init => Inv
  BY DEF Init, Inv, TypeOK, Exclusion, TokenKept, UsedUp, Truth, OpenedByOne, Holds, HasMarked,
      SubPCs, WaitPCs

\* Steps of a subscriber keep the invariant.
LEMMA SubscriberInv ==
  ASSUME Inv, NEW s \in Subscribers, Subscribe(s) \/ Progress(s)
  PROVE  Inv'
  <1> USE NoOneAssumption, DisjointAssumption
      DEF Inv, TypeOK, Exclusion, TokenKept, UsedUp, Truth, OpenedByOne, Holds, HasMarked,
          SubPCs, WaitPCs, SubGo, Lock, flagVars
  <1>1. CASE Subscribe(s)
    BY <1>1 DEF Subscribe
  <1>2. CASE EnterTokens(s)
    BY <1>2 DEF EnterTokens
  <1>3. CASE InsertToken(s)
    BY <1>3 DEF InsertToken
  <1>4. CASE LockFails(s)
    BY <1>4 DEF LockFails
  <1>5. CASE SnapshotEnds(s)
    BY <1>5 DEF SnapshotEnds
  <1>6. CASE EnterToMark(s)
    BY <1>6 DEF EnterToMark
  <1>7. CASE RemoveToken(s)
    <2>1. CASE s \notin tokens
      BY <1>7, <2>1 DEF RemoveToken
    <2>2. CASE s \in tokens
      <3>1. \A u \in Subscribers : ~HasMarked(u)
        BY <1>7, <2>2 DEF RemoveToken
      <3>2. sub' = [sub EXCEPT ![s] = "clearing"] /\ ready' = TRUE /\ tokens' = tokens \ {s}
        BY <1>7, <2>2 DEF RemoveToken
      <3>3. UNCHANGED <<holder, value, wait>> /\ holder = s
        BY <1>7, <2>2 DEF RemoveToken
      <3>4. TypeOK' /\ Exclusion'
        BY <3>2, <3>3
      <3>5. TokenKept' /\ UsedUp' /\ OpenedByOne'
        BY <3>1, <3>2, <3>3
      <3>6. Truth'
        BY <3>2, <3>3
      <3>7. QED
        BY <3>4, <3>5, <3>6
    <2>3. QED
      BY <2>1, <2>2
  <1>8. CASE ClearTokens(s)
    BY <1>8 DEF ClearTokens
  <1>9. CASE Broadcast(s)
    BY <1>9 DEF Broadcast, SendTrue, Receivers
  <1>10. QED
    BY <1>1, <1>2, <1>3, <1>4, <1>5, <1>6, <1>7, <1>8, <1>9 DEF Progress

\* Steps of a waiter keep the invariant.
LEMMA WaiterInv ==
  ASSUME Inv, NEW w \in Waiters, CallWait(w) \/ Advance(w) \/ DropWait(w)
  PROVE  Inv'
  <1> USE NoOneAssumption, DisjointAssumption
      DEF Inv, TypeOK, Exclusion, TokenKept, UsedUp, Truth, OpenedByOne, Holds, HasMarked,
          SubPCs, WaitPCs, WaitGo, Lock, flagVars
  <1>1. CASE CallWait(w)
    BY <1>1 DEF CallWait
  <1>2. CASE LoadReady(w)
    BY <1>2 DEF LoadReady
  <1>3. CASE TryLock(w)
    BY <1>3 DEF TryLock
  <1>4. CASE SwapReady(w)
    BY <1>4 DEF SwapReady
  <1>5. CASE SendAndPass(w)
    BY <1>5 DEF SendAndPass, SendTrue, Receivers
  <1>6. CASE ReloadReady(w)
    BY <1>6 DEF ReloadReady
  <1>7. CASE Attach(w)
    BY <1>7 DEF Attach
  <1>8. CASE Look(w)
    BY <1>8 DEF Look
  <1>9. CASE DropWait(w)
    BY <1>9 DEF DropWait
  <1>10. QED
    BY <1>1, <1>2, <1>3, <1>4, <1>5, <1>6, <1>7, <1>8, <1>9 DEF Advance

\* The invariant is inductive.
LEMMA NextInv == Inv /\ [Next]_vars => Inv'
  <1> SUFFICES ASSUME Inv, [Next]_vars PROVE Inv'
    OBVIOUS
  <1>1. CASE Next
    BY <1>1, SubscriberInv, WaiterInv DEF Next
  <1>2. CASE UNCHANGED vars
    BY <1>2 DEF vars, flagVars, Inv, TypeOK, Exclusion, TokenKept, UsedUp, Truth, OpenedByOne,
        Holds, HasMarked
  <1>3. QED
    BY <1>1, <1>2

LEMMA SpecInv == Spec => []Inv
  BY InitInv, NextInv, PTL DEF Spec

----------------------------------------------------------------------------
(* The properties.                                                         *)

\* Every variable keeps its type, for any sets of subscribers and waiters.
THEOREM FlagTypes == Spec => []TypeOK
  <1>1. Inv => TypeOK
    BY DEF Inv
  <1>2. QED
    BY <1>1, SpecInv, PTL

\* No call passes the gate while a snapshot holds it closed.
THEOREM FlagHoldsBack == Spec => []GateHoldsCallsBack
  <1>1. Inv => GateHoldsCallsBack
    BY DEF Inv, GateHoldsCallsBack, TokenKept, UsedUp, Truth, HasMarked
  <1>2. QED
    BY <1>1, SpecInv, PTL

\* mark_ready returns true to one subscriber at most.
THEOREM FlagOpenedByOne == Spec => []OpenedByOne
  <1>1. Inv => OpenedByOne
    BY DEF Inv
  <1>2. QED
    BY <1>1, SpecInv, PTL

\* A flag that is ready has no subscriber left.
THEOREM FlagTokensUsedUp == Spec => []NoTokenOnceReady
  <1>1. Inv => NoTokenOnceReady
    BY NoOneAssumption DEF Inv, NoTokenOnceReady, UsedUp, Exclusion
  <1>2. QED
    BY <1>1, SpecInv, PTL

\* A new flag is a closed gate.
LEMMA GateInit == Init => Gate!Init
  BY DEF Init, Gate!Init

\* A subscriber's step opens the gate or is no step of it.
LEMMA SubscriberIsGate ==
  ASSUME Inv, NEW s \in Subscribers, Subscribe(s) \/ Progress(s)
  PROVE  Gate!Open \/ UNCHANGED <<ready, {w \in Waiters : wait[w] = "passed"}>>
  BY DEF Progress, Subscribe, EnterTokens, InsertToken, LockFails, SnapshotEnds, EnterToMark,
      RemoveToken, ClearTokens, Broadcast, flagVars, Gate!Open, Inv, TypeOK

\* A call that arrives at "passed" goes through an open gate; no other step of a waiter
\* but the shortcut of is_ready concerns the gate, and it opens it.
LEMMA WaiterIsGate ==
  ASSUME Inv, NEW w \in Waiters, CallWait(w) \/ Advance(w) \/ DropWait(w)
  PROVE  \/ Gate!Open
         \/ Gate!GoThrough(w)
         \/ UNCHANGED <<ready, {v \in Waiters : wait[v] = "passed"}>>
  <1> DEFINE P == {v \in Waiters : wait[v] = "passed"}
  <1>1. ASSUME NEW pc \in WaitPCs, WaitGo(w, pc), wait[w] # "passed"
        PROVE  P' = IF pc = "passed" THEN P \cup {w} ELSE P
    BY <1>1 DEF WaitGo, Inv, TypeOK
  <1>2. CASE CallWait(w)
    BY <1>1, <1>2 DEF CallWait, flagVars, WaitPCs
  <1>3. CASE LoadReady(w)
    BY <1>1, <1>3 DEF LoadReady, flagVars, WaitPCs, Gate!GoThrough
  <1>4. CASE TryLock(w)
    BY <1>1, <1>4 DEF TryLock, flagVars, WaitPCs
  <1>5. CASE SwapReady(w)
    BY <1>1, <1>5 DEF SwapReady, flagVars, WaitPCs, Gate!GoThrough, Gate!Open
  <1>6. CASE SendAndPass(w)
    BY <1>1, <1>6 DEF SendAndPass, flagVars, WaitPCs, Gate!GoThrough, Inv, Truth
  <1>7. CASE ReloadReady(w)
    BY <1>1, <1>7 DEF ReloadReady, flagVars, WaitPCs, Gate!GoThrough
  <1>8. CASE Attach(w)
    BY <1>1, <1>8 DEF Attach, flagVars, WaitPCs
  <1>9. CASE Look(w)
    BY <1>1, <1>9 DEF Look, flagVars, WaitPCs, Gate!GoThrough, Inv, Truth
  <1>10. CASE DropWait(w)
    BY <1>1, <1>10 DEF DropWait, flagVars, WaitPCs
  <1>11. QED
    BY <1>2, <1>3, <1>4, <1>5, <1>6, <1>7, <1>8, <1>9, <1>10 DEF Advance

\* Every step of the flag is a step of the gate or leaves it alone.
LEMMA GateNext ==
  Inv /\ [Next]_vars => [Gate!Next]_<<ready, {w \in Waiters : wait[w] = "passed"}>>
  <1> SUFFICES ASSUME Inv, [Next]_vars
               PROVE  [Gate!Next]_<<ready, {w \in Waiters : wait[w] = "passed"}>>
    OBVIOUS
  <1>1. CASE Next
    BY <1>1, SubscriberIsGate, WaiterIsGate DEF Next, Gate!Next
  <1>2. CASE UNCHANGED vars
    BY <1>2 DEF vars, flagVars
  <1>3. QED
    BY <1>1, <1>2

\* The readiness flag implements the gate.
THEOREM FlagIsGate == Spec => GateSpec
  BY GateInit, GateNext, SpecInv, PTL DEF Spec, GateSpec, Gate!Spec
=============================================================================
