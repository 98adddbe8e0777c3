----------------------- MODULE AppServerTurnsProofs ------------------------
(***************************************************************************)
(* Proofs, for any number of requests of any kind, that the app server     *)
(* answers each request once and gives each rollback its own answer.       *)
(*                                                                         *)
(* Answers are given by two tasks that know the requests by what is        *)
(* pending.  So the invariant says which requests may be pending (Pending) *)
(* and where the message processor has come to with the latest (InHand),   *)
(* that a submission passes from the processor over the queue and the loop *)
(* to the events without ever being in two places (InTransit), and that    *)
(* only input and reviews become turns (TurnKinds, LoopKinds), so no event *)
(* of a turn bears the id of a rollback.                                   *)
(***************************************************************************)
EXTENDS AppServerTurns, FiniteSetTheorems, TLAPS

Received == {r \in Requests : kind[r] # "none"}

\* Requests are received one after the other.
InOrder == Current \in 0..MaxRequests /\ Received = 1..Current

\* What is pending was asked for.
Pending ==
    /\ \A r \in interrupts : kind[r] = "interrupt"
    /\ rollback # 0 => kind[rollback] = "rollback"

\* The latest request has no answer, except by an end of a turn that an interrupt did not
\* wait for; and it is pending when it is submitted, if it has to be.
InHand ==
    /\ handler # "idle" => Current \in Requests
    /\ handler = "pend" => kind[Current] \in {"interrupt", "rollback"}
    /\ handler = "wait" => kind[Current] = "archive"
    /\ handler = "submit" => (kind[Current] = "rollback" <=> rollback = Current)
    /\ handler = "pend" => Current \notin interrupts \cup {rollback}
    /\ handler = "pend" \/ (handler # "idle" /\ kind[Current] # "interrupt") =>
           answers[Current] = 0
    /\ handler = "submit" /\ kind[Current] = "interrupt" =>
           Current \in interrupts \/ answers[Current] = 1

\* A request in the queue was submitted, and once.
Queued ==
    /\ \A i \in DOMAIN queue :
           /\ queue[i] \in Received
           /\ queue[i] = Current => handler \notin {"pend", "submit"}
    /\ \A i, j \in DOMAIN queue : queue[i] = queue[j] => i = j

IsRollback(r) == kind[r] = "rollback"

\* An event bears the id of a turn, or of a rollback that is not in the queue any more.
Reported ==
    /\ \A i \in DOMAIN events :
           IF events[i].what \in {"rolledBack", "rollbackFailed"}
           THEN /\ IsRollback(events[i].id)
                /\ events[i].id = Current => handler \notin {"pend", "submit"}
           ELSE kind[events[i].id] \in {"input", "review"}
    /\ \A i, j \in DOMAIN events :
           IsRollback(events[i].id) /\ events[i].id = events[j].id => i = j
    /\ \A i \in DOMAIN events, j \in DOMAIN queue :
           IsRollback(events[i].id) => events[i].id # queue[j]

InTransit == Queued /\ Reported

TurnKinds ==
    \A t \in Requests :
        /\ phase[t] # "fresh" => kind[t] \in {"input", "review"}
        /\ t \in evicted => phase[t] # "fresh"

\* A submission that waits for an abort starts a turn afterwards only if it is a review.
LoopKinds ==
    /\ aborted \subseteq evicted
    /\ loop # 0 =>
           /\ kind[loop] \in {"review", "interrupt", "archive"}
           /\ kind[loop] # "review" => ~(evicted \subseteq aborted)

\* RollbackMatches, element by element.
Matches ==
    /\ \A i \in DOMAIN queue : IsRollback(queue[i]) => queue[i] = rollback
    /\ \A i \in DOMAIN events : IsRollback(events[i].id) => events[i].id = rollback
    /\ rollback # 0 =>
           \/ handler = "submit" /\ Current = rollback
           \/ \E i \in DOMAIN queue : queue[i] = rollback
           \/ \E i \in DOMAIN events : events[i].id = rollback

Inv ==
    /\ TypeOK /\ InOrder /\ Pending /\ InHand /\ InTransit /\ TurnKinds /\ LoopKinds
    /\ AnsweredOrPending /\ Matches

----------------------------------------------------------------------------
(* Sequences. *)

LEMMA TailFacts ==
    ASSUME NEW S, NEW s \in Seq(S), s # <<>>
    PROVE  /\ Tail(s) \in Seq(S) /\ Head(s) \in S
           /\ 1 \in DOMAIN s /\ Head(s) = s[1]
           /\ \A i \in DOMAIN Tail(s) : i + 1 \in DOMAIN s /\ Tail(s)[i] = s[i + 1] /\ i # 0
           /\ \A i \in DOMAIN s : i # 1 =>
                 i - 1 \in DOMAIN Tail(s) /\ Tail(s)[i - 1] = s[i]
  OBVIOUS

LEMMA AppendFacts ==
    ASSUME NEW S, NEW s \in Seq(S), NEW e \in S
    PROVE  /\ Append(s, e) \in Seq(S)
           /\ \A i \in DOMAIN s : i \in DOMAIN Append(s, e) /\ Append(s, e)[i] = s[i]
           /\ Len(s) + 1 \in DOMAIN Append(s, e) /\ Append(s, e)[Len(s) + 1] = e
           /\ \A i \in DOMAIN Append(s, e) : i \in DOMAIN s \/ i = Len(s) + 1
           /\ Len(s) + 1 \notin DOMAIN s
  OBVIOUS

Events == [what : {"complete", "aborted", "rolledBack", "rollbackFailed"}, id : Requests]

LEMMA EventTypes ==
    ASSUME TypeOK
    PROVE  /\ events \in Seq(Events)
           /\ \A i \in DOMAIN events : events[i].id \in Requests
  <1>1. events \in Seq(Events)
    BY DEF TypeOK, Events
  <1>2. \A i \in DOMAIN events : events[i] \in Events
    BY <1>1
  <1> QED BY <1>1, <1>2 DEF Events

\* What is under way, told by elements or by sets.
LEMMA MatchesMeans == TypeOK /\ Pending /\ Matches => RollbackMatches
  <1> SUFFICES ASSUME TypeOK, Pending, Matches PROVE RollbackMatches
    OBVIOUS
  <1> DEFINE asked == {r \in Requests : kind[r] = "rollback"}
             ids == {e.id : e \in {x \in Range(events) : x.id \in asked}}
             under_way == (Range(queue) \cap asked) \cup ids
  <1>1. \A r : r \in Range(queue) \cap asked <=>
                  \E i \in DOMAIN queue : queue[i] = r /\ IsRollback(r)
    BY DEF TypeOK, Range, IsRollback
  <1>2. \A i \in DOMAIN events : events[i].id \in Requests
    BY EventTypes
  <1>3. \A r : r \in ids <=> \E i \in DOMAIN events : events[i].id = r /\ IsRollback(r)
    BY <1>2 DEF Range, IsRollback
  <1>4. under_way \subseteq {rollback}
    BY <1>1, <1>3 DEF Matches
  <1>5. rollback # 0 => IsRollback(rollback)
    BY DEF Pending, IsRollback
  <1>6. rollback # 0 => rollback \in under_way \/ (handler = "submit" /\ Current = rollback)
    <2> HIDE DEF ids
    <2> QED BY <1>1, <1>3, <1>5 DEF Matches
  <1> QED BY <1>4, <1>6 DEF RollbackMatches

----------------------------------------------------------------------------
(* The message processor. *)

\* A step that receives no request leaves the order of the requests alone.
LEMMA SameKind ==
    ASSUME InOrder, UNCHANGED kind
    PROVE  InOrder' /\ Current' = Current /\ Received' = Received
  BY DEF InOrder, Current, Received

\* The requests received are those up to the latest one.
LEMMA ReceivedMeans ==
    ASSUME InOrder, RequestsAssumption
    PROVE  /\ Current \in Nat /\ Current <= MaxRequests
           /\ \A r \in Requests : kind[r] # "none" <=> r <= Current
  BY DEF InOrder, Received, Requests, RequestsAssumption

LEMMA InitInv == Init => Inv
  <1> SUFFICES ASSUME Init PROVE Inv
    OBVIOUS
  <1>1. Received = {} /\ Current = 0
    BY FS_EmptySet DEF Init, Received, Current
  <1>2. InOrder
    BY <1>1, RequestsAssumption DEF InOrder
  <1>3. TypeOK
    <2>1. phase \in [Requests -> {"fresh", "running", "completing", "over"}]
      BY DEF Init, Turns!Init
    <2>2. evicted = {} /\ completed = {} /\ aborted = {}
      BY DEF Init, Turns!Init
    <2>3. /\ kind \in [Requests -> AllKinds \cup {"none"}]
          /\ answers \in [Requests -> Nat]
      BY DEF Init
    <2>4. /\ queue \in Seq(Requests)
          /\ events \in Seq([what : {"complete", "aborted", "rolledBack", "rollbackFailed"},
                             id : Requests])
      BY DEF Init
    <2>5. /\ handler = "idle" /\ removed = FALSE /\ ended = FALSE
          /\ interrupts = {} /\ hits = {} /\ rollback = 0 /\ loop = 0
      BY DEF Init
    <2> QED BY <2>1, <2>2, <2>3, <2>4, <2>5 DEF TypeOK
  <1>4. Pending /\ InHand /\ InTransit /\ Matches
    BY <1>1 DEF Init, Pending, InHand, InTransit, Queued, Reported, Matches, Requests
  <1>5. TurnKinds /\ LoopKinds
    BY DEF Init, Turns!Init, TurnKinds, LoopKinds
  <1>6. AnsweredOrPending
    BY DEF Init, AnsweredOrPending
  <1> QED BY <1>2, <1>3, <1>4, <1>5, <1>6 DEF Inv

LEMMA ReceiveInv ==
    ASSUME Inv, NEW k \in Kinds, Receive(k)
    PROVE  Inv'
  <1> DEFINE r == Current + 1
  <1>1. r \in Requests /\ r \in Nat \ {0} /\ kind[r] = "none" /\ Current # r
    BY ReceivedMeans, RequestsAssumption DEF Inv, Receive, Requests
  <1>2. /\ answers[r] = 0 /\ r \notin interrupts \cup {rollback} /\ loop # r
        /\ phase[r] = "fresh" /\ r \notin evicted
    <2>1. answers[r] = 0
      BY <1>1 DEF Inv, AnsweredOrPending
    <2>2. r \notin interrupts /\ r # rollback
      BY <1>1 DEF Inv, Pending
    <2>3. loop # r /\ phase[r] = "fresh" /\ r \notin evicted
      BY <1>1 DEF Inv, LoopKinds, TurnKinds
    <2> QED BY <2>1, <2>2, <2>3
  <1>3. /\ \A i \in DOMAIN queue : queue[i] # r /\ queue[i] \in Requests
        /\ \A i \in DOMAIN events : events[i].id # r /\ events[i].id \in Requests
    <2>1. \A i \in DOMAIN queue : queue[i] # r
      BY <1>1 DEF Inv, InTransit, Queued, Received
    <2>2. \A i \in DOMAIN events : events[i].id # r
      BY <1>1 DEF Inv, InTransit, Reported, IsRollback
    <2>3. \A i \in DOMAIN queue : queue[i] \in Requests
      BY DEF Inv, TypeOK
    <2> QED BY <2>1, <2>2, <2>3, EventTypes DEF Inv
  <1>4. k # "none" /\ k \in AllKinds /\ kind' = [kind EXCEPT ![r] = k]
    BY RequestsAssumption DEF Receive, AllKinds
  <1>5. /\ kind'[r] = k
        /\ \A q \in Requests : q # r => kind'[q] = kind[q]
    BY <1>1, <1>4 DEF Inv, TypeOK
  <1>6. Received' = 1..r /\ Current' = r
    <2>1. Received' = Received \cup {r}
      BY <1>1, <1>4, <1>5 DEF Received
    <2>2. Received' = 1..r
      BY <2>1, ReceivedMeans, RequestsAssumption DEF Inv, InOrder
    <2>3. Cardinality(1..r) = r
      BY <1>1, FS_Interval
    <2> QED BY <2>2, <2>3 DEF Received, Current
  <1>7. /\ handler = "idle"
        /\ UNCHANGED <<interrupts, rollback, queue, loop, ended, hits, events>>
        /\ UNCHANGED <<phase, evicted, completed, aborted>>
    BY DEF Receive, sessionVars, slotVars
  <1>8. /\ handler' \in {"idle", "pend", "submit"}
        /\ handler' = "pend" <=> handler' # "idle" /\ k \in {"interrupt", "rollback"}
        /\ answers' \in [Requests -> Nat]
        /\ \A q \in Requests : q # r => answers'[q] = answers[q]
        /\ answers'[r] = IF handler' = "idle" THEN 1 ELSE 0
        /\ removed' \in BOOLEAN
    <2>1. answers \in [Requests -> Nat] /\ removed \in BOOLEAN /\ handler = "idle"
      BY <1>7 DEF Inv, TypeOK
    <2>2. CASE removed
      <3>1. Answer({r}) /\ UNCHANGED <<handler, removed>>
        BY <2>2 DEF Receive
      <3> QED BY <1>1, <1>2, <2>1, <3>1 DEF Answer
    <2>3. CASE ~removed
      <3>1. /\ handler' = IF k \in {"interrupt", "rollback"} THEN "pend" ELSE "submit"
            /\ removed' = (k = "archive")
            /\ answers' = answers
        BY <2>3 DEF Receive
      <3> QED BY <1>1, <1>2, <2>1, <3>1
    <2> QED BY <2>2, <2>3
  <1>9. InOrder'
    BY <1>1, <1>6, RequestsAssumption DEF InOrder, Requests
  <1>10. TypeOK'
    BY <1>1, <1>4, <1>7, <1>8 DEF Inv, TypeOK
  <1>11. Pending' /\ TurnKinds' /\ LoopKinds'
    <2>1. interrupts \subseteq Requests /\ rollback \in Requests \cup {0} /\ loop \in Requests \cup {0}
      BY DEF Inv, TypeOK
    <2>2. Pending'
      BY <1>2, <1>5, <1>7, <2>1 DEF Inv, Pending
    <2>3. TurnKinds' /\ LoopKinds'
      BY <1>2, <1>5, <1>7, <2>1 DEF Inv, TurnKinds, LoopKinds
    <2> QED BY <2>2, <2>3
  <1>12. InHand'
    BY <1>1, <1>2, <1>5, <1>6, <1>7, <1>8 DEF InHand
  <1>13. InTransit'
    <2>1. Queued'
      BY <1>1, <1>3, <1>4, <1>5, <1>6, <1>7 DEF Inv, InTransit, Queued, Received
    <2>2. Reported'
      BY <1>1, <1>3, <1>5, <1>6, <1>7 DEF Inv, InTransit, Reported, IsRollback
    <2> QED BY <2>1, <2>2 DEF InTransit
  <1>14. AnsweredOrPending'
    <2> SUFFICES ASSUME NEW q \in Requests
                 PROVE  IF kind'[q] = "none" \/ q \in interrupts \cup {rollback}
                        THEN answers'[q] = 0
                        ELSE IF q = r /\ handler' # "idle" THEN answers'[q] <= 1
                        ELSE answers'[q] = 1
      BY <1>6, <1>7 DEF AnsweredOrPending
    <2>1. CASE q = r
      BY <1>2, <1>4, <1>5, <1>8, <2>1
    <2>2. CASE q # r
      BY <1>5, <1>7, <1>8, <2>2 DEF Inv, AnsweredOrPending
    <2> QED BY <2>1, <2>2
  <1>15. Matches'
    BY <1>1, <1>2, <1>3, <1>5, <1>6, <1>7, <1>8 DEF Inv, Matches, IsRollback
  <1> QED BY <1>9, <1>10, <1>11, <1>12, <1>13, <1>14, <1>15 DEF Inv

\* A step that neither the session nor a turn takes.
LEMMA SameTurns ==
    ASSUME TurnKinds, LoopKinds, UNCHANGED <<kind, loop, phase, evicted, aborted>>
    PROVE  TurnKinds' /\ LoopKinds'
  BY DEF TurnKinds, LoopKinds

\* The request in hand is one that was received.
LEMMA HandMeans ==
    ASSUME Inv, handler # "idle"
    PROVE  Current \in Requests /\ Current # 0 /\ kind[Current] # "none"
  BY ReceivedMeans, RequestsAssumption DEF Inv, InHand, Requests

\* What a request's answer does.
LEMMA AnswerMeans ==
    ASSUME answers \in [Requests -> Nat], NEW R, Answer(R)
    PROVE  /\ answers' \in [Requests -> Nat]
           /\ \A r \in Requests : answers'[r] = IF r \in R THEN answers[r] + 1 ELSE answers[r]
  BY DEF Answer

LEMMA PendInterruptInv == Inv /\ PendInterrupt => Inv'
  <1> SUFFICES ASSUME Inv, PendInterrupt PROVE Inv'
    OBVIOUS
  <1>1. /\ handler = "pend" /\ handler' = "submit" /\ kind[Current] = "interrupt"
        /\ interrupts' = interrupts \cup {Current}
        /\ UNCHANGED <<kind, removed, rollback, answers, queue, loop, ended, hits, events>>
        /\ UNCHANGED <<phase, evicted, completed, aborted>>
    BY DEF PendInterrupt, sessionVars, slotVars
  <1>2. InOrder' /\ Current' = Current /\ Received' = Received
    BY <1>1, SameKind DEF Inv
  <1>3. /\ Current \in Requests /\ Current # 0
        /\ answers[Current] = 0 /\ Current # rollback
    BY <1>1, HandMeans DEF Inv, InHand
  <1>4. TypeOK'
    BY <1>1, <1>3 DEF Inv, TypeOK
  <1>5. TurnKinds' /\ LoopKinds'
    BY <1>1, SameTurns DEF Inv
  <1>6. Pending' /\ InHand'
    BY <1>1, <1>2, <1>3 DEF Inv, Pending, InHand
  <1>7. InTransit'
    BY <1>1, <1>2 DEF Inv, InTransit, Queued, Reported, IsRollback
  <1>8. AnsweredOrPending'
    BY <1>1, <1>2, <1>3 DEF Inv, AnsweredOrPending
  <1>9. Matches'
    BY <1>1, <1>2, <1>3 DEF Inv, Matches, IsRollback
  <1> QED BY <1>2, <1>4, <1>5, <1>6, <1>7, <1>8, <1>9 DEF Inv

LEMMA PendRollbackInv == Inv /\ PendRollback => Inv'
  <1> SUFFICES ASSUME Inv, PendRollback PROVE Inv'
    OBVIOUS
  <1>1. /\ handler = "pend" /\ kind[Current] = "rollback"
        /\ UNCHANGED <<kind, removed, interrupts, queue, loop, ended, hits, events>>
        /\ UNCHANGED <<phase, evicted, completed, aborted>>
    BY DEF PendRollback, sessionVars, slotVars
  <1>2. InOrder' /\ Current' = Current /\ Received' = Received
    BY <1>1, SameKind DEF Inv
  <1>3. /\ Current \in Requests /\ Current # 0
        /\ answers[Current] = 0 /\ Current # rollback /\ Current \notin interrupts
    BY <1>1, HandMeans DEF Inv, InHand
  <1>4. TurnKinds' /\ LoopKinds'
    BY <1>1, SameTurns DEF Inv
  <1>5. InTransit'
    <2>1. handler' \in {"idle", "submit"}
      BY DEF PendRollback
    <2> QED BY <1>1, <1>2, <2>1 DEF Inv, InTransit, Queued, Reported, IsRollback
  <1>6. CASE rollback # 0
    <2>1. Answer({Current}) /\ handler' = "idle" /\ UNCHANGED rollback
      BY <1>6 DEF PendRollback
    <2>2. /\ answers' \in [Requests -> Nat]
          /\ \A r \in Requests : answers'[r] = IF r = Current THEN 1 ELSE answers[r]
      BY <1>3, <2>1, AnswerMeans DEF Inv, TypeOK
    <2>3. TypeOK'
      BY <1>1, <2>1, <2>2 DEF Inv, TypeOK
    <2>4. Pending' /\ InHand' /\ Matches'
      BY <1>1, <1>2, <2>1 DEF Inv, Pending, InHand, Matches, IsRollback
    <2>5. AnsweredOrPending'
      BY <1>1, <1>2, <1>3, <2>1, <2>2 DEF Inv, AnsweredOrPending
    <2> QED BY <1>2, <1>4, <1>5, <2>3, <2>4, <2>5 DEF Inv
  <1>7. CASE rollback = 0
    <2>1. rollback' = Current /\ handler' = "submit" /\ UNCHANGED answers
      BY <1>7 DEF PendRollback
    <2>2. TypeOK'
      BY <1>1, <1>3, <2>1 DEF Inv, TypeOK
    <2>3. Pending' /\ InHand'
      BY <1>1, <1>2, <1>3, <2>1 DEF Inv, Pending, InHand
    <2>4. AnsweredOrPending'
      <3>1. 0 \notin Requests
        BY DEF Requests
      <3> QED BY <1>1, <1>2, <1>3, <1>7, <2>1, <3>1 DEF Inv, AnsweredOrPending
    <2>5. Matches'
      <3>1. \A i \in DOMAIN queue : queue[i] \in Requests /\ queue[i] # 0
        BY RequestsAssumption DEF Inv, TypeOK, Requests
      <3>2. \A i \in DOMAIN events : events[i].id \in Requests /\ events[i].id # 0
        BY EventTypes, RequestsAssumption DEF Inv, Requests
      <3> QED BY <1>1, <1>2, <1>7, <2>1, <3>1, <3>2 DEF Inv, Matches, IsRollback
    <2> QED BY <1>2, <1>4, <1>5, <2>2, <2>3, <2>4, <2>5 DEF Inv
  <1> QED BY <1>6, <1>7

LEMMA SubmitInv == Inv /\ Submit => Inv'
  <1> SUFFICES ASSUME Inv, Submit PROVE Inv'
    OBVIOUS
  <1> DEFINE here == {Current} \cap {r \in Requests : kind[r] \in {"input", "review"}}
  <1>1. /\ handler = "submit" /\ queue' = Append(queue, Current)
        /\ handler' = IF kind[Current] = "archive" THEN "wait" ELSE "idle"
        /\ UNCHANGED <<kind, removed, interrupts, rollback, loop, ended, hits, events>>
        /\ UNCHANGED <<phase, evicted, completed, aborted>>
    BY DEF Submit, slotVars
  <1>2. InOrder' /\ Current' = Current /\ Received' = Received
    BY <1>1, SameKind DEF Inv
  <1>3. Current \in Requests /\ Current # 0 /\ Current \in Received
    BY <1>1, HandMeans DEF Received
  <1>4. /\ answers' \in [Requests -> Nat]
        /\ \A r \in Requests : answers'[r] = IF r \in here THEN answers[r] + 1 ELSE answers[r]
    BY AnswerMeans DEF Submit, Inv, TypeOK
  <1>5. queue \in Seq(Requests)
    BY DEF Inv, TypeOK
  <1>6. TypeOK'
    <2>1. queue' \in Seq(Requests)
      BY <1>1, <1>3, <1>5, AppendFacts
    <2> QED BY <1>1, <1>4, <2>1 DEF Inv, TypeOK
  <1>7. TurnKinds' /\ LoopKinds'
    BY <1>1, SameTurns DEF Inv
  <1>8. Pending' /\ InHand'
    <2>1. kind[Current] = "archive" => answers'[Current] = 0
      BY <1>1, <1>3, <1>4 DEF Inv, InHand
    <2> QED BY <1>1, <1>2, <1>3, <2>1 DEF Inv, Pending, InHand
  <1>9. InTransit'
    <2>1. \A i \in DOMAIN queue : queue[i] # Current
      BY <1>1 DEF Inv, InTransit, Queued
    <2>2. \A i \in DOMAIN queue' : \/ i \in DOMAIN queue /\ queue'[i] = queue[i]
                                   \/ i = Len(queue) + 1 /\ queue'[i] = Current
      BY <1>1, <1>3, <1>5, AppendFacts
    <2>3. Queued'
      BY <1>1, <1>2, <1>3, <2>1, <2>2 DEF Inv, InTransit, Queued
    <2>4. \A i \in DOMAIN events : IsRollback(events[i].id) => events[i].id # Current
      BY <1>1 DEF Inv, InTransit, Reported, IsRollback
    <2>5. Reported'
      BY <1>1, <1>2, <2>2, <2>4 DEF Inv, InTransit, Reported, IsRollback
    <2> QED BY <2>3, <2>5 DEF InTransit
  <1>10. AnsweredOrPending'
    <2> SUFFICES ASSUME NEW q \in Requests
                 PROVE  IF kind[q] = "none" \/ q \in interrupts \cup {rollback}
                        THEN answers'[q] = 0
                        ELSE IF q = Current /\ handler' # "idle" THEN answers'[q] <= 1
                        ELSE answers'[q] = 1
      BY <1>1, <1>2 DEF AnsweredOrPending
    <2>1. CASE q # Current
      BY <1>1, <1>4, <2>1 DEF Inv, AnsweredOrPending
    <2>2. CASE q = Current
      <3>1. kind[q] \in AllKinds /\ answers[q] \in Nat
        BY <1>3, <2>2 DEF Inv, TypeOK, Received
      <3>2. CASE kind[q] \in {"input", "review"}
        BY <1>1, <1>3, <1>4, <2>2, <3>2 DEF Inv, InHand, Pending
      <3>3. CASE kind[q] = "archive"
        BY <1>1, <1>3, <1>4, <2>2, <3>3 DEF Inv, InHand, Pending
      <3>4. CASE kind[q] = "interrupt"
        BY <1>1, <1>3, <1>4, <2>2, <3>4 DEF Inv, InHand, Pending, AnsweredOrPending
      <3>5. CASE kind[q] = "rollback"
        BY <1>1, <1>3, <1>4, <2>2, <3>5 DEF Inv, InHand, Pending
      <3> QED BY <3>1, <3>2, <3>3, <3>4, <3>5 DEF AllKinds
    <2> QED BY <2>1, <2>2
  <1>11. Matches'
    <2>1. /\ \A i \in DOMAIN queue : i \in DOMAIN queue' /\ queue'[i] = queue[i]
          /\ Len(queue) + 1 \in DOMAIN queue' /\ queue'[Len(queue) + 1] = Current
          /\ \A i \in DOMAIN queue' : i \in DOMAIN queue \/ i = Len(queue) + 1
      BY <1>1, <1>3, <1>5, AppendFacts
    <2>2. kind[Current] = "rollback" <=> rollback = Current
      BY <1>1 DEF Inv, InHand
    <2> QED BY <1>1, <1>2, <2>1, <2>2 DEF Inv, Matches, IsRollback
  <1> QED BY <1>2, <1>6, <1>7, <1>8, <1>9, <1>10, <1>11 DEF Inv

LEMMA AnswerArchiveInv == Inv /\ AnswerArchive => Inv'
  <1> SUFFICES ASSUME Inv, AnswerArchive PROVE Inv'
    OBVIOUS
  <1>1. /\ handler = "wait" /\ handler' = "idle"
        /\ UNCHANGED <<kind, removed, interrupts, rollback, queue, loop, ended, hits, events>>
        /\ UNCHANGED <<phase, evicted, completed, aborted>>
    BY DEF AnswerArchive, sessionVars, slotVars
  <1>2. InOrder' /\ Current' = Current /\ Received' = Received
    BY <1>1, SameKind DEF Inv
  <1>3. Current \in Requests /\ kind[Current] = "archive" /\ answers[Current] = 0
    BY <1>1, HandMeans DEF Inv, InHand
  <1>4. /\ answers' \in [Requests -> Nat]
        /\ \A r \in Requests : answers'[r] = IF r = Current THEN 1 ELSE answers[r]
    BY <1>3, AnswerMeans DEF AnswerArchive, Inv, TypeOK
  <1>5. TypeOK'
    BY <1>1, <1>4 DEF Inv, TypeOK
  <1>6. TurnKinds' /\ LoopKinds'
    BY <1>1, SameTurns DEF Inv
  <1>7. Pending' /\ InHand' /\ Matches'
    BY <1>1, <1>2 DEF Inv, Pending, InHand, Matches, IsRollback
  <1>8. InTransit'
    BY <1>1, <1>2 DEF Inv, InTransit, Queued, Reported, IsRollback
  <1>9. AnsweredOrPending'
    <2> SUFFICES ASSUME NEW q \in Requests
                 PROVE  answers'[q] = IF \/ kind[q] = "none"
                                         \/ q \in interrupts \cup {rollback} THEN 0 ELSE 1
      BY <1>1, <1>2 DEF AnsweredOrPending
    <2>1. CASE q = Current
      BY <1>3, <1>4, <2>1 DEF Inv, Pending, Requests
    <2>2. CASE q # Current
      BY <1>4, <2>2 DEF Inv, AnsweredOrPending
    <2> QED BY <2>1, <2>2
  <1> QED BY <1>2, <1>5, <1>6, <1>7, <1>8, <1>9 DEF Inv

\* No step of the message processor breaks the invariant.
LEMMA HandleInv == Inv /\ Handle => Inv'
  BY PendInterruptInv, PendRollbackInv, SubmitInv, AnswerArchiveInv DEF Handle

----------------------------------------------------------------------------
(* The session's loop and the turns. *)

\* A step that neither the processor nor the listener takes.
LEMMA SameServer ==
    ASSUME Inv, UNCHANGED <<serverVars, pendingVars>>
    PROVE  /\ InOrder' /\ Pending' /\ InHand' /\ AnsweredOrPending'
           /\ Current' = Current /\ Received' = Received
           /\ UNCHANGED <<kind, handler, removed, interrupts, rollback, answers>>
  <1>1. UNCHANGED <<kind, handler, removed, interrupts, rollback, answers>>
    BY DEF serverVars, pendingVars
  <1>2. InOrder' /\ Current' = Current /\ Received' = Received
    BY <1>1, SameKind DEF Inv
  <1> QED BY <1>1, <1>2 DEF Inv, Pending, InHand, AnsweredOrPending

\* The loop takes the submission at the head of the queue.
LEMMA TakingMeans ==
    ASSUME Inv, NEW k, Taking(k), queue' = Tail(queue)
    PROVE  /\ Head(queue) \in Requests /\ Head(queue) # 0 /\ kind[Head(queue)] = k
           /\ 1 \in DOMAIN queue /\ Head(queue) = queue[1]
           /\ queue' \in Seq(Requests)
           /\ \A i \in DOMAIN queue' : i + 1 \in DOMAIN queue /\ queue'[i] = queue[i + 1] /\ i # 0
           /\ \A i \in DOMAIN queue : i # 1 => i - 1 \in DOMAIN queue' /\ queue'[i - 1] = queue[i]
  <1>1. queue \in Seq(Requests) /\ queue # <<>>
    BY DEF Inv, TypeOK, Taking
  <1>2. /\ queue' \in Seq(Requests) /\ Head(queue) \in Requests
        /\ 1 \in DOMAIN queue /\ Head(queue) = queue[1]
        /\ \A i \in DOMAIN queue' : i + 1 \in DOMAIN queue /\ queue'[i] = queue[i + 1] /\ i # 0
        /\ \A i \in DOMAIN queue : i # 1 => i - 1 \in DOMAIN queue' /\ queue'[i - 1] = queue[i]
    BY <1>1, TailFacts
  <1>3. kind[Head(queue)] = k
    BY DEF Taking
  <1> QED BY <1>2, <1>3 DEF Requests

\* What is not a rollback leaves the queue without a trace in the events.
LEMMA TakeOther ==
    ASSUME Inv, NEW k \in AllKinds \ {"rollback"}, Taking(k), queue' = Tail(queue),
           UNCHANGED <<serverVars, pendingVars, events>>
    PROVE  InTransit' /\ Matches'
  <1>1. /\ UNCHANGED <<kind, handler, rollback, events>>
        /\ Current' = Current /\ Received' = Received
    BY SameServer
  <1>2. InTransit'
    <2>1. \A i, j \in DOMAIN queue' : queue'[i] = queue'[j] => i = j
      <3> SUFFICES ASSUME NEW i \in DOMAIN queue', NEW j \in DOMAIN queue',
                          queue'[i] = queue'[j]
                   PROVE  i = j
        OBVIOUS
      <3>1. i \in Int /\ j \in Int
        BY TakingMeans
      <3>2. i + 1 = j + 1
        BY TakingMeans DEF Inv, InTransit, Queued
      <3> QED BY <3>1, <3>2
    <2>2. Queued'
      BY <1>1, <2>1, TakingMeans DEF Inv, InTransit, Queued
    <2>3. Reported'
      BY <1>1, TakingMeans DEF Inv, InTransit, Reported, IsRollback
    <2> QED BY <2>2, <2>3 DEF InTransit
  <1>3. Matches'
    <2>1. \A i \in DOMAIN queue' : IsRollback(queue'[i]) => queue'[i] = rollback
      BY TakingMeans DEF Inv, Matches, IsRollback
    <2>2. ASSUME rollback # 0, NEW i \in DOMAIN queue, queue[i] = rollback
          PROVE  \E j \in DOMAIN queue' : queue'[j] = rollback
      <3>1. i # 1
        BY <2>2, TakingMeans DEF Inv, Pending
      <3> QED BY <2>2, <3>1, TakingMeans
    <2> QED BY <1>1, <2>1, <2>2 DEF Inv, Matches, IsRollback
  <1> QED BY <1>2, <1>3

\* What the steps of a turn mean, as the invariant sees them.
LEMMA StartMeans ==
    ASSUME Inv, NEW t \in Requests, kind[t] \in {"input", "review"}, Turns!Start(t),
           UNCHANGED kind
    PROVE  /\ phase' \in [Requests -> {"fresh", "running", "completing", "over"}]
           /\ UNCHANGED <<evicted, completed, aborted>>
           /\ TurnKinds'
  BY DEF Turns!Start, Turns!Enter, Inv, TypeOK, TurnKinds

LEMMA EvictMeans ==
    ASSUME Inv, \E t \in InForce : Turns!Evict(t), UNCHANGED kind
    PROVE  /\ evicted' \subseteq Requests /\ aborted \subseteq evicted'
           /\ ~(evicted' \subseteq aborted)
           /\ UNCHANGED <<phase, completed, aborted>>
           /\ TurnKinds'
  BY DEF InForce, Turns!Evict, Inv, TypeOK, TurnKinds, LoopKinds

LEMMA TakeInputInv == Inv /\ TakeInput => Inv'
  <1> SUFFICES ASSUME Inv, TakeInput PROVE Inv'
    OBVIOUS
  <1>1. /\ Taking("input") /\ queue' = Tail(queue)
        /\ UNCHANGED <<serverVars, pendingVars, loop, ended, hits, events>>
    BY DEF TakeInput
  <1>2. UNCHANGED <<kind, handler, removed, interrupts, rollback, answers>>
    BY <1>1, SameServer
  <1>3. InTransit' /\ Matches'
    BY <1>1, TakeOther DEF AllKinds
  <1>4. /\ phase' \in [Requests -> {"fresh", "running", "completing", "over"}]
        /\ UNCHANGED <<evicted, completed, aborted>>
        /\ TurnKinds'
    <2>1. CASE UNCHANGED slotVars
      BY <1>2, <2>1, SameTurns DEF slotVars, Inv, TypeOK, TurnKinds
    <2>2. CASE Turns!Start(Head(queue))
      BY <1>1, <1>2, <2>2, TakingMeans, StartMeans
    <2> QED BY <2>1, <2>2 DEF TakeInput
  <1>5. TypeOK' /\ LoopKinds'
    BY <1>1, <1>2, <1>4, TakingMeans DEF Inv, TypeOK, LoopKinds
  <1> QED BY <1>1, <1>3, <1>4, <1>5, SameServer DEF Inv

LEMMA TakeReviewInv == Inv /\ TakeReview => Inv'
  <1> SUFFICES ASSUME Inv, TakeReview PROVE Inv'
    OBVIOUS
  <1>1. /\ Taking("review") /\ queue' = Tail(queue)
        /\ UNCHANGED <<serverVars, pendingVars, ended, hits, events>>
    BY DEF TakeReview
  <1>2. UNCHANGED <<kind, handler, removed, interrupts, rollback, answers>>
    BY <1>1, SameServer
  <1>3. InTransit' /\ Matches'
    BY <1>1, TakeOther DEF AllKinds
  <1>4. Head(queue) \in Requests /\ kind[Head(queue)] = "review"
    BY <1>1, TakingMeans
  <1>5. /\ phase' \in [Requests -> {"fresh", "running", "completing", "over"}]
        /\ evicted' \subseteq Requests /\ aborted' \subseteq evicted'
        /\ UNCHANGED <<completed, aborted>>
        /\ loop' \in {0, Head(queue)}
        /\ TurnKinds'
    <2>1. loop = 0
      BY <1>1 DEF Taking
    <2>2. CASE UNCHANGED <<slotVars, loop>>
      BY <1>2, <2>1, <2>2, SameTurns DEF slotVars, Inv, TypeOK, TurnKinds, LoopKinds
    <2>3. CASE Turns!Start(Head(queue)) /\ UNCHANGED loop
      BY <1>2, <1>4, <2>1, <2>3, StartMeans DEF Inv, TypeOK, LoopKinds
    <2>4. CASE (\E t \in InForce : Turns!Evict(t)) /\ loop' = Head(queue)
      BY <1>2, <2>4, EvictMeans DEF Inv, TypeOK
    <2> QED BY <2>2, <2>3, <2>4 DEF TakeReview
  <1>6. TypeOK'
    BY <1>1, <1>2, <1>4, <1>5, TakingMeans DEF Inv, TypeOK
  <1>7. LoopKinds'
    BY <1>2, <1>4, <1>5 DEF LoopKinds
  <1> QED BY <1>1, <1>3, <1>5, <1>6, <1>7, SameServer DEF Inv

LEMMA TakeInterruptInv == Inv /\ TakeInterrupt => Inv'
  <1> SUFFICES ASSUME Inv, TakeInterrupt PROVE Inv'
    OBVIOUS
  <1>1. /\ Taking("interrupt") /\ queue' = Tail(queue)
        /\ UNCHANGED <<serverVars, pendingVars, ended, events>>
    BY DEF TakeInterrupt
  <1>2. UNCHANGED <<kind, handler, removed, interrupts, rollback, answers>>
    BY <1>1, SameServer
  <1>3. InTransit' /\ Matches'
    BY <1>1, TakeOther DEF AllKinds
  <1>4. Head(queue) \in Requests /\ kind[Head(queue)] = "interrupt"
    BY <1>1, TakingMeans
  <1>5. CASE UNCHANGED <<slotVars, loop, hits>>
    <2>1. UNCHANGED <<phase, evicted, completed, aborted, loop, hits>>
      BY <1>5 DEF slotVars
    <2>2. TypeOK'
      BY <1>1, <1>2, <2>1, TakingMeans DEF Inv, TypeOK
    <2>3. TurnKinds' /\ LoopKinds'
      BY <1>2, <2>1, SameTurns DEF Inv
    <2> QED BY <1>1, <1>3, <2>2, <2>3, SameServer DEF Inv
  <1>6. CASE /\ \E t \in InForce : Turns!Evict(t)
             /\ loop' = Head(queue)
             /\ hits' = hits \cup {Head(queue)}
    <2>1. TypeOK'
      BY <1>1, <1>2, <1>4, <1>6, TakingMeans, EvictMeans DEF Inv, TypeOK
    <2>2. TurnKinds' /\ LoopKinds'
      BY <1>2, <1>4, <1>6, EvictMeans DEF LoopKinds
    <2> QED BY <1>1, <1>3, <2>1, <2>2, SameServer DEF Inv
  <1> QED BY <1>5, <1>6 DEF TakeInterrupt

LEMMA TakeShutdownInv == Inv /\ TakeShutdown => Inv'
  <1> SUFFICES ASSUME Inv, TakeShutdown PROVE Inv'
    OBVIOUS
  <1>1. /\ Taking("archive") /\ queue' = Tail(queue)
        /\ UNCHANGED <<serverVars, pendingVars, hits, events>>
    BY DEF TakeShutdown
  <1>2. UNCHANGED <<kind, handler, removed, interrupts, rollback, answers>>
    BY <1>1, SameServer
  <1>3. InTransit' /\ Matches'
    BY <1>1, TakeOther DEF AllKinds
  <1>4. Head(queue) \in Requests /\ kind[Head(queue)] = "archive"
    BY <1>1, TakingMeans
  <1>5. CASE ended' = TRUE /\ UNCHANGED <<slotVars, loop>>
    <2>1. UNCHANGED <<phase, evicted, completed, aborted, loop>>
      BY <1>5 DEF slotVars
    <2>2. TypeOK'
      BY <1>1, <1>2, <1>5, <2>1, TakingMeans DEF Inv, TypeOK
    <2>3. TurnKinds' /\ LoopKinds'
      BY <1>2, <2>1, SameTurns DEF Inv
    <2> QED BY <1>1, <1>3, <2>2, <2>3, SameServer DEF Inv
  <1>6. CASE /\ \E t \in InForce : Turns!Evict(t)
             /\ loop' = Head(queue)
             /\ UNCHANGED ended
    <2>1. TypeOK'
      BY <1>1, <1>2, <1>4, <1>6, TakingMeans, EvictMeans DEF Inv, TypeOK
    <2>2. TurnKinds' /\ LoopKinds'
      BY <1>2, <1>4, <1>6, EvictMeans DEF LoopKinds
    <2> QED BY <1>1, <1>3, <2>1, <2>2, SameServer DEF Inv
  <1> QED BY <1>5, <1>6 DEF TakeShutdown

\* An event is added after the others.
LEMMA EmitMeans ==
    ASSUME TypeOK, NEW r \in Requests,
           NEW what \in {"complete", "aborted", "rolledBack", "rollbackFailed"},
           Emit(what, r)
    PROVE  /\ events' \in Seq(Events)
           /\ \A i \in DOMAIN events : i \in DOMAIN events' /\ events'[i] = events[i]
           /\ Len(events) + 1 \in DOMAIN events'
           /\ events'[Len(events) + 1].what = what /\ events'[Len(events) + 1].id = r
           /\ \A i \in DOMAIN events' : i \in DOMAIN events \/ i = Len(events) + 1
           /\ Len(events) + 1 \notin DOMAIN events
  <1> DEFINE e == Event(what, r)
  <1>1. e \in Events /\ e.what = what /\ e.id = r
    BY DEF Event, Events
  <1>2. events \in Seq(Events) /\ events' = Append(events, e)
    BY EventTypes DEF Emit
  <1> HIDE DEF e
  <1> QED BY <1>1, <1>2, AppendFacts

\* The loop decides about a rollback and tells.
LEMMA TakeRollbackInv == Inv /\ TakeRollback => Inv'
  <1> SUFFICES ASSUME Inv, TakeRollback PROVE Inv'
    OBVIOUS
  <1> DEFINE what == IF InForce = {} THEN "rolledBack" ELSE "rollbackFailed"
             h == Head(queue)
             n == Len(events) + 1
  <1>1. /\ Taking("rollback") /\ queue' = Tail(queue) /\ Emit(what, h)
        /\ UNCHANGED <<serverVars, pendingVars, loop, ended, hits>>
        /\ UNCHANGED <<phase, evicted, completed, aborted>>
    BY DEF TakeRollback, slotVars
  <1>2. /\ UNCHANGED <<kind, handler, removed, interrupts, rollback, answers>>
        /\ Current' = Current /\ Received' = Received
    BY <1>1, SameServer
  <1>3. h \in Requests /\ kind[h] = "rollback" /\ 1 \in DOMAIN queue /\ h = queue[1]
    BY <1>1, TakingMeans
  <1>4. what \in {"rolledBack", "rollbackFailed"}
    OBVIOUS
  <1>5. /\ events' \in Seq(Events)
        /\ \A i \in DOMAIN events : i \in DOMAIN events' /\ events'[i] = events[i]
        /\ n \in DOMAIN events' /\ events'[n].what = what /\ events'[n].id = h
        /\ \A i \in DOMAIN events' : i \in DOMAIN events \/ i = n
        /\ n \notin DOMAIN events
    <2> HIDE DEF what, h
    <2> QED BY <1>1, <1>3, <1>4, EmitMeans DEF Inv
  <1> HIDE DEF what, h, n
  <1>6. /\ queue' \in Seq(Requests)
        /\ \A i \in DOMAIN queue' : i + 1 \in DOMAIN queue /\ queue'[i] = queue[i + 1] /\ i # 0
        /\ \A i \in DOMAIN queue : i # 1 => i - 1 \in DOMAIN queue' /\ queue'[i - 1] = queue[i]
    BY <1>1, TakingMeans
  <1>7. TypeOK'
    BY <1>1, <1>2, <1>5, <1>6 DEF Inv, TypeOK, Events
  <1>8. TurnKinds' /\ LoopKinds'
    BY <1>1, <1>2, SameTurns DEF Inv
  <1>9. \A i, j \in DOMAIN queue' : i \in Int /\ (queue'[i] = queue'[j] => i = j)
    <2> SUFFICES ASSUME NEW i \in DOMAIN queue', NEW j \in DOMAIN queue'
                 PROVE  i \in Int /\ (queue'[i] = queue'[j] => i = j)
      OBVIOUS
    <2>1. i \in Int /\ j \in Int
      BY <1>6
    <2>2. queue'[i] = queue'[j] => i + 1 = j + 1
      BY <1>6 DEF Inv, InTransit, Queued
    <2> QED BY <2>1, <2>2
  <1>10. \A i \in DOMAIN queue' : queue'[i] # h
    BY <1>3, <1>6, <1>9 DEF Inv, InTransit, Queued
  <1>11. Queued'
    BY <1>2, <1>6, <1>9 DEF Inv, InTransit, Queued
  <1>12. \A i \in DOMAIN events : events[i].id # h
    BY <1>3 DEF Inv, InTransit, Reported, IsRollback
  <1>13. Reported'
    <2>1. h = Current => handler \notin {"pend", "submit"}
      BY <1>3 DEF Inv, InTransit, Queued
    <2>2. \A i \in DOMAIN events' :
             IF events'[i].what \in {"rolledBack", "rollbackFailed"}
             THEN /\ IsRollback(events'[i].id)
                  /\ events'[i].id = Current => handler \notin {"pend", "submit"}
             ELSE kind[events'[i].id] \in {"input", "review"}
      BY <1>3, <1>4, <1>5, <2>1 DEF Inv, InTransit, Reported, IsRollback
    <2>3. \A i, j \in DOMAIN events' :
             IsRollback(events'[i].id) /\ events'[i].id = events'[j].id => i = j
      BY <1>5, <1>12 DEF Inv, InTransit, Reported
    <2>4. \A i \in DOMAIN events', j \in DOMAIN queue' :
             IsRollback(events'[i].id) => events'[i].id # queue'[j]
      <3> SUFFICES ASSUME NEW i \in DOMAIN events', NEW j \in DOMAIN queue',
                          IsRollback(events'[i].id)
                   PROVE  events'[i].id # queue'[j]
        OBVIOUS
      <3>1. CASE i = n
        BY <1>5, <1>10, <3>1
      <3>2. CASE i \in DOMAIN events
        <4>1. j + 1 \in DOMAIN queue /\ queue'[j] = queue[j + 1] /\ events'[i] = events[i]
          BY <1>5, <1>6, <3>2
        <4> QED BY <3>2, <4>1 DEF Inv, InTransit, Reported
      <3> QED BY <1>5, <3>1, <3>2
    <2> QED BY <1>2, <2>2, <2>3, <2>4 DEF Reported, IsRollback
  <1>14. Matches'
    <2>1. h = rollback
      BY <1>3 DEF Inv, Matches, IsRollback
    <2>2. \A i \in DOMAIN queue' : IsRollback(queue'[i]) => queue'[i] = rollback
      BY <1>6 DEF Inv, Matches
    <2>3. \A i \in DOMAIN events' : IsRollback(events'[i].id) => events'[i].id = rollback
      BY <1>5, <2>1 DEF Inv, Matches
    <2> QED BY <1>2, <1>5, <2>1, <2>2, <2>3 DEF Matches, IsRollback
  <1> QED BY <1>1, <1>7, <1>8, <1>11, <1>13, <1>14, SameServer DEF Inv, InTransit

\* The end of a turn passes for no rollback's answer.
LEMMA EmitEnd ==
    ASSUME Inv, NEW t \in Requests, kind[t] \in {"input", "review"},
           NEW what \in {"complete", "aborted"}, Emit(what, t),
           UNCHANGED <<serverVars, pendingVars, queue>>
    PROVE  events' \in Seq(Events) /\ InTransit' /\ Matches'
  <1> DEFINE n == Len(events) + 1
  <1>1. /\ UNCHANGED <<kind, handler, rollback>>
        /\ Current' = Current /\ Received' = Received
    BY SameServer
  <1>2. /\ events' \in Seq(Events)
        /\ \A i \in DOMAIN events : i \in DOMAIN events' /\ events'[i] = events[i]
        /\ n \in DOMAIN events' /\ events'[n].what = what /\ events'[n].id = t
        /\ \A i \in DOMAIN events' : i \in DOMAIN events \/ i = n
    BY EmitMeans DEF Inv
  <1> HIDE DEF n
  <1>3. Queued'
    BY <1>1 DEF Inv, InTransit, Queued
  <1>4. ~IsRollback(t)
    BY DEF IsRollback
  <1>5. Reported'
    <2>1. \A i \in DOMAIN events' :
             IF events'[i].what \in {"rolledBack", "rollbackFailed"}
             THEN /\ IsRollback(events'[i].id)
                  /\ events'[i].id = Current => handler \notin {"pend", "submit"}
             ELSE kind[events'[i].id] \in {"input", "review"}
      BY <1>2 DEF Inv, InTransit, Reported
    <2>2. \A i, j \in DOMAIN events' :
             IsRollback(events'[i].id) /\ events'[i].id = events'[j].id => i = j
      BY <1>2, <1>4 DEF Inv, InTransit, Reported
    <2>3. \A i \in DOMAIN events', j \in DOMAIN queue :
             IsRollback(events'[i].id) => events'[i].id # queue[j]
      BY <1>2, <1>4 DEF Inv, InTransit, Reported
    <2> QED BY <1>1, <2>1, <2>2, <2>3 DEF Reported, IsRollback
  <1>6. Matches'
    <2>1. \A i \in DOMAIN events' : IsRollback(events'[i].id) => events'[i].id = rollback
      BY <1>2, <1>4 DEF Inv, Matches
    <2>2. \A i \in DOMAIN events : events[i].id = rollback => events'[i].id = rollback
      BY <1>2
    <2> QED BY <1>1, <1>2, <2>1, <2>2 DEF Inv, Matches, IsRollback
  <1> QED BY <1>2, <1>3, <1>5, <1>6 DEF InTransit

LEMMA AbortInv == Inv /\ Abort => Inv'
  <1> SUFFICES ASSUME Inv, Abort PROVE Inv'
    OBVIOUS
  <1>1. PICK t \in evicted \ aborted : Turns!ReportAborted(t) /\ Emit("aborted", t)
    BY DEF Abort
  <1>2. /\ UNCHANGED <<serverVars, pendingVars, queue, hits>>
        /\ loop' = (IF kind[loop] = "review" THEN loop ELSE 0) /\ ended' \in {ended, TRUE, FALSE}
    BY DEF Abort
  <1>3. UNCHANGED <<kind, handler, removed, interrupts, rollback, answers>>
    BY <1>2, SameServer
  <1>4. t \in Requests /\ kind[t] \in {"input", "review"}
    BY DEF Inv, TypeOK, TurnKinds
  <1>5. events' \in Seq(Events) /\ InTransit' /\ Matches'
    BY <1>1, <1>2, <1>4, EmitEnd
  <1>6. aborted' = aborted \cup {t} /\ UNCHANGED <<phase, evicted, completed>>
    BY <1>1 DEF Turns!ReportAborted
  <1>7. TypeOK'
    BY <1>2, <1>3, <1>4, <1>5, <1>6 DEF Inv, TypeOK, Events
  <1>8. TurnKinds' /\ LoopKinds'
    BY <1>2, <1>3, <1>6 DEF Inv, TurnKinds, LoopKinds
  <1> QED BY <1>2, <1>5, <1>7, <1>8, SameServer DEF Inv

\* Nothing is submitted and nothing told.
LEMMA SameTransit ==
    ASSUME Inv, UNCHANGED <<serverVars, pendingVars, queue, events>>
    PROVE  InTransit' /\ Matches'
  <1>1. /\ UNCHANGED <<kind, handler, rollback>>
        /\ Current' = Current /\ Received' = Received
    BY SameServer
  <1> QED BY <1>1 DEF Inv, InTransit, Queued, Reported, Matches, IsRollback

LEMMA StartReviewInv == Inv /\ StartReview => Inv'
  <1> SUFFICES ASSUME Inv, StartReview PROVE Inv'
    OBVIOUS
  <1>1. /\ loop # 0 /\ evicted \subseteq aborted /\ Turns!Start(loop) /\ loop' = 0
        /\ UNCHANGED <<serverVars, pendingVars, queue, ended, hits, events>>
    BY DEF StartReview
  <1>2. UNCHANGED <<kind, handler, removed, interrupts, rollback, answers>>
    BY <1>1, SameServer
  <1>3. loop \in Requests /\ kind[loop] = "review"
    BY <1>1 DEF Inv, TypeOK, LoopKinds
  <1>4. /\ phase' \in [Requests -> {"fresh", "running", "completing", "over"}]
        /\ UNCHANGED <<evicted, completed, aborted>>
        /\ TurnKinds'
    BY <1>1, <1>2, <1>3, StartMeans
  <1>5. TypeOK' /\ LoopKinds'
    BY <1>1, <1>2, <1>4 DEF Inv, TypeOK, LoopKinds
  <1> QED BY <1>1, <1>4, <1>5, SameServer, SameTransit DEF Inv

LEMMA TurnStepInv == ASSUME Inv, NEW t \in Requests, TurnStep(t) PROVE Inv'
  <1>1. UNCHANGED <<serverVars, pendingVars, queue, loop, ended, hits>>
    BY DEF TurnStep, sessionVars
  <1>2. UNCHANGED <<kind, handler, removed, interrupts, rollback, answers>>
    BY <1>1, SameServer
  <1>3. /\ phase' \in [Requests -> {"fresh", "running", "completing", "over"}]
        /\ \A u \in Requests : phase'[u] # "fresh" <=> phase[u] # "fresh"
        /\ completed' \subseteq Requests /\ UNCHANGED <<evicted, aborted>>
        /\ phase[t] # "fresh"
    BY DEF TurnStep, Turns!Finish, Turns!Stop, Turns!ReportComplete, Turns!Enter, Inv, TypeOK
  <1>4. events' \in Seq(Events) /\ InTransit' /\ Matches'
    <2>1. CASE UNCHANGED events
      BY <1>1, <2>1, SameTransit, EventTypes DEF Inv
    <2>2. CASE Emit("complete", t)
      BY <1>1, <1>3, <2>2, EmitEnd DEF Inv, TurnKinds
    <2> QED BY <2>1, <2>2 DEF TurnStep
  <1>5. TypeOK'
    BY <1>1, <1>2, <1>3, <1>4 DEF Inv, TypeOK, Events
  <1>6. TurnKinds' /\ LoopKinds'
    BY <1>1, <1>2, <1>3 DEF Inv, TurnKinds, LoopKinds
  <1> QED BY <1>1, <1>4, <1>5, <1>6, SameServer DEF Inv

----------------------------------------------------------------------------
(* The listener. *)

\* The listener takes the event at the head.
LEMMA ReadingMeans ==
    ASSUME Inv, NEW whats, Reading(whats)
    PROVE  /\ Head(events) = events[1] /\ 1 \in DOMAIN events /\ events[1].what \in whats
           /\ events' \in Seq(Events)
           /\ \A i \in DOMAIN events' : i + 1 \in DOMAIN events /\ events'[i] = events[i + 1] /\ i # 0
           /\ \A i \in DOMAIN events : i # 1 => i - 1 \in DOMAIN events' /\ events'[i - 1] = events[i]
  <1>1. events \in Seq(Events) /\ events # <<>> /\ events' = Tail(events)
    BY EventTypes DEF Inv, Reading
  <1>2. /\ Head(events) = events[1] /\ 1 \in DOMAIN events /\ events' \in Seq(Events)
        /\ \A i \in DOMAIN events' : i + 1 \in DOMAIN events /\ events'[i] = events[i + 1] /\ i # 0
        /\ \A i \in DOMAIN events : i # 1 => i - 1 \in DOMAIN events' /\ events'[i - 1] = events[i]
    BY <1>1, TailFacts
  <1> QED BY <1>2 DEF Reading

\* Whatever is read, what is left was and is in its place.
LEMMA ReadTransit ==
    ASSUME Inv, NEW whats, Reading(whats), UNCHANGED <<serverVars, queue>>
    PROVE  InTransit'
  <1>1. UNCHANGED <<kind, handler>> /\ Current' = Current /\ Received' = Received
    BY SameKind DEF serverVars, Inv
  <1>2. Queued'
    BY <1>1 DEF Inv, InTransit, Queued
  <1>3. \A i, j \in DOMAIN events' :
             IsRollback(events'[i].id) /\ events'[i].id = events'[j].id => i = j
    <2> SUFFICES ASSUME NEW i \in DOMAIN events', NEW j \in DOMAIN events',
                        IsRollback(events'[i].id), events'[i].id = events'[j].id
                 PROVE  i = j
      OBVIOUS
    <2>1. i \in Int /\ j \in Int
      BY ReadingMeans
    <2>2. i + 1 = j + 1
      BY ReadingMeans DEF Inv, InTransit, Reported
    <2> QED BY <2>1, <2>2
  <1>4. Reported'
    BY <1>1, <1>3, ReadingMeans DEF Inv, InTransit, Reported, IsRollback
  <1> QED BY <1>2, <1>4 DEF InTransit

\* The end of a turn is not what a rollback waits for.
LEMMA ReadEnd ==
    ASSUME Inv, NEW whats, whats \subseteq {"complete", "aborted"}, Reading(whats),
           UNCHANGED <<serverVars, rollback, queue>>
    PROVE  Matches'
  <1>1. UNCHANGED <<kind, handler>> /\ Current' = Current
    BY SameKind DEF serverVars, Inv
  <1>2. ~IsRollback(events[1].id)
    BY ReadingMeans DEF Inv, InTransit, Reported, IsRollback
  <1>3. \A i \in DOMAIN events' : IsRollback(events'[i].id) => events'[i].id = rollback
    BY ReadingMeans DEF Inv, Matches
  <1>4. ASSUME rollback # 0, NEW i \in DOMAIN events, events[i].id = rollback
        PROVE  \E j \in DOMAIN events' : events'[j].id = rollback
    <2>1. i # 1
      BY <1>2, <1>4 DEF Inv, Pending, IsRollback
    <2> QED BY <1>4, <2>1, ReadingMeans
  <1> QED BY <1>1, <1>3, <1>4 DEF Inv, Matches, IsRollback

LEMMA ReadCompleteInv == Inv /\ ReadComplete => Inv'
  <1> SUFFICES ASSUME Inv, ReadComplete PROVE Inv'
    OBVIOUS
  <1>1. /\ Reading({"complete"})
        /\ UNCHANGED <<serverVars, pendingVars, rollback, queue, loop, ended, hits>>
        /\ UNCHANGED <<phase, evicted, completed, aborted>>
    BY DEF ReadComplete, sessionVars, slotVars, pendingVars
  <1>2. UNCHANGED <<kind, handler, removed, interrupts, rollback, answers>>
    BY <1>1, SameServer
  <1>3. TypeOK'
    BY <1>1, <1>2, ReadingMeans DEF Inv, TypeOK, Events
  <1>4. InTransit' /\ Matches'
    BY <1>1, ReadTransit, ReadEnd
  <1>5. TurnKinds' /\ LoopKinds'
    BY <1>1, <1>2, SameTurns DEF Inv
  <1> QED BY <1>1, <1>3, <1>4, <1>5, SameServer DEF Inv

LEMMA ReadAbortedInv == Inv /\ ReadAborted => Inv'
  <1> SUFFICES ASSUME Inv, ReadAborted PROVE Inv'
    OBVIOUS
  <1>1. /\ Reading({"aborted"}) /\ Answer(interrupts) /\ interrupts' = {}
        /\ UNCHANGED <<serverVars, rollback, queue, loop, ended, hits>>
        /\ UNCHANGED <<phase, evicted, completed, aborted>>
    BY DEF ReadAborted, sessionVars, slotVars
  <1>2. /\ UNCHANGED <<kind, handler, removed>>
        /\ InOrder' /\ Current' = Current /\ Received' = Received
    BY <1>1, SameKind DEF serverVars, Inv
  <1>3. /\ answers' \in [Requests -> Nat]
        /\ \A r \in Requests :
              answers'[r] = IF r \in interrupts THEN answers[r] + 1 ELSE answers[r]
    BY <1>1, AnswerMeans DEF Inv, TypeOK
  <1>4. TypeOK'
    BY <1>1, <1>2, <1>3, ReadingMeans DEF Inv, TypeOK, Events
  <1>5. InTransit' /\ Matches'
    BY <1>1, ReadTransit, ReadEnd
  <1>6. TurnKinds' /\ LoopKinds'
    BY <1>1, <1>2, SameTurns DEF Inv
  <1>7. interrupts \subseteq Requests /\ \A r \in interrupts : answers[r] = 0 /\ answers'[r] = 1
    BY <1>3 DEF Inv, TypeOK, AnsweredOrPending, Pending
  <1>8. Pending' /\ InHand'
    <2>1. handler # "idle" => Current \in Requests
      BY HandMeans
    <2> QED BY <1>1, <1>2, <1>3, <1>7, <2>1 DEF Inv, Pending, InHand
  <1>9. AnsweredOrPending'
    <2> SUFFICES ASSUME NEW q \in Requests
                 PROVE  IF kind[q] = "none" \/ q = rollback THEN answers'[q] = 0
                        ELSE IF q = Current /\ handler # "idle" THEN answers'[q] <= 1
                        ELSE answers'[q] = 1
      BY <1>1, <1>2 DEF AnsweredOrPending
    <2>1. CASE q \in interrupts
      <3>1. kind[q] = "interrupt" /\ q # rollback
        BY <2>1 DEF Inv, Pending, Requests
      <3> QED BY <1>7, <2>1, <3>1
    <2>2. CASE q \notin interrupts
      BY <1>3, <2>2 DEF Inv, AnsweredOrPending
    <2> QED BY <2>1, <2>2
  <1> QED BY <1>2, <1>4, <1>5, <1>6, <1>8, <1>9 DEF Inv

LEMMA ReadRollbackInv == Inv /\ ReadRollback => Inv'
  <1> SUFFICES ASSUME Inv, ReadRollback PROVE Inv'
    OBVIOUS
  <1>1. /\ Reading({"rolledBack", "rollbackFailed"}) /\ Answer({rollback} \ {0})
        /\ rollback' = 0
        /\ UNCHANGED <<serverVars, interrupts, queue, loop, ended, hits>>
        /\ UNCHANGED <<phase, evicted, completed, aborted>>
    BY DEF ReadRollback, sessionVars, slotVars
  <1>2. /\ UNCHANGED <<kind, handler, removed>>
        /\ InOrder' /\ Current' = Current /\ Received' = Received
    BY <1>1, SameKind DEF serverVars, Inv
  <1>3. /\ answers' \in [Requests -> Nat]
        /\ \A r \in Requests : answers'[r] = IF r \in {rollback} \ {0} THEN answers[r] + 1 ELSE answers[r]
    BY <1>1, AnswerMeans DEF Inv, TypeOK
  <1>4. /\ IsRollback(events[1].id) /\ events[1].id = rollback /\ 1 \in DOMAIN events
        /\ events[1].id = Current => handler \notin {"pend", "submit"}
    BY <1>1, ReadingMeans DEF Inv, InTransit, Reported, Matches
  <1>5. rollback \in Requests /\ kind[rollback] = "rollback" /\ rollback \notin interrupts
    BY <1>4, EventTypes DEF IsRollback, Inv, Pending
  <1>6. TypeOK'
    BY <1>1, <1>2, <1>3, ReadingMeans DEF Inv, TypeOK, Events
  <1>7. InTransit'
    BY <1>1, ReadTransit
  <1>8. TurnKinds' /\ LoopKinds'
    BY <1>1, <1>2, SameTurns DEF Inv
  <1>9. handler \in {"pend", "submit"} => rollback # Current
    BY <1>4
  <1>10. Pending' /\ InHand'
    <2>1. handler # "idle" => Current \in Requests /\ Current # 0
      BY HandMeans
    <2>2. handler # "idle" /\ Current = rollback => FALSE
      BY <1>5, <1>9 DEF Inv, InHand, TypeOK
    <2> QED BY <1>1, <1>2, <1>3, <2>1, <2>2 DEF Inv, Pending, InHand
  <1>11. AnsweredOrPending'
    <2> SUFFICES ASSUME NEW q \in Requests
                 PROVE  IF kind[q] = "none" \/ q \in interrupts THEN answers'[q] = 0
                        ELSE IF q = Current /\ handler # "idle" THEN answers'[q] <= 1
                        ELSE answers'[q] = 1
      <3>1. 0 \notin Requests
        BY DEF Requests
      <3> QED BY <1>1, <1>2, <3>1 DEF AnsweredOrPending
    <2>1. CASE q = rollback
      BY <1>3, <1>5, <2>1 DEF Inv, AnsweredOrPending, Requests
    <2>2. CASE q # rollback
      BY <1>3, <2>2 DEF Inv, AnsweredOrPending
    <2> QED BY <2>1, <2>2
  <1>12. Matches'
    <2>1. \A i \in DOMAIN queue : ~IsRollback(queue[i])
      BY <1>4 DEF Inv, InTransit, Reported, Matches
    <2>2. ASSUME NEW i \in DOMAIN events', IsRollback(events'[i].id)
          PROVE  FALSE
      <3>1. i + 1 \in DOMAIN events /\ events'[i] = events[i + 1] /\ i # 0
        BY <1>1, ReadingMeans
      <3>2. events[i + 1].id = rollback
        BY <2>2, <3>1 DEF Inv, Matches
      <3>3. i + 1 = 1
        BY <1>4, <3>1, <3>2 DEF Inv, InTransit, Reported
      <3>4. i \in Int
        BY <1>1, ReadingMeans
      <3> QED BY <3>1, <3>3, <3>4
    <2> QED BY <1>1, <1>2, <2>1, <2>2 DEF Matches, IsRollback
  <1> QED BY <1>2, <1>6, <1>7, <1>8, <1>10, <1>11, <1>12 DEF Inv

----------------------------------------------------------------------------
(* The theorems. *)

\* The invariant is inductive.
LEMMA NextInv == Inv /\ [Next]_vars => Inv'
  <1> SUFFICES ASSUME Inv, [Next]_vars PROVE Inv'
    OBVIOUS
  <1>1. CASE UNCHANGED vars
    <2>1. UNCHANGED <<serverVars, pendingVars, queue, loop, ended, hits, events>>
      BY <1>1 DEF vars, sessionVars
    <2>2. UNCHANGED <<phase, evicted, completed, aborted>>
      BY <1>1 DEF vars, slotVars
    <2>3. TypeOK' /\ TurnKinds' /\ LoopKinds'
      BY <2>1, <2>2, SameServer, SameTurns DEF Inv, TypeOK
    <2> QED BY <2>1, <2>3, SameServer, SameTransit DEF Inv
  <1>2. CASE \E k \in Kinds : Receive(k)
    BY <1>2, ReceiveInv
  <1>3. CASE Handle
    BY <1>3, HandleInv
  <1>4. CASE Loop
    BY <1>4, TakeInputInv, TakeReviewInv, TakeInterruptInv, TakeShutdownInv, TakeRollbackInv,
       AbortInv, StartReviewInv
    DEF Loop
  <1>5. CASE Listen
    BY <1>5, ReadCompleteInv, ReadAbortedInv, ReadRollbackInv DEF Listen
  <1>6. CASE \E t \in Requests : TurnStep(t)
    BY <1>6, TurnStepInv
  <1> QED BY <1>1, <1>2, <1>3, <1>4, <1>5, <1>6 DEF Next

LEMMA ServerInv == Spec => []Inv
  BY InitInv, NextInv, PTL DEF Spec

\* The app server's pending requests, the session's queue and its events have their types.
THEOREM ServerTypeOK == Spec => []TypeOK
  <1>1. Inv => TypeOK
    BY DEF Inv
  <1> QED BY <1>1, ServerInv, PTL

\* Every request is answered once, or is pending where the listener finds it, or is in the
\* message processor's hands (trill_message_processor.rs, bespoke_event_handling.rs).
THEOREM ServerAnswersOnce == Spec => []AnsweredOrPending
  <1>1. Inv => AnsweredOrPending
    BY DEF Inv
  <1> QED BY <1>1, ServerInv, PTL

\* From its submission to its event, a rollback is the one that is pending: the answer
\* goes to the request that asked (pending_rollbacks knows no submission id).
THEOREM ServerRollbackMatches == Spec => []RollbackMatches
  <1>1. Inv => RollbackMatches
    BY MatchesMeans DEF Inv
  <1> QED BY <1>1, ServerInv, PTL
=============================================================================
