--------------------------- MODULE AppServerTurns ---------------------------
(***************************************************************************)
(* The app server between a client and one thread                          *)
(* (trill-rs/app-server/src). The message processor handles the client's   *)
(* requests one after the other; it passes them to the session and answers *)
(* some at once, and leaves others pending: interrupts until a turn is     *)
(* aborted, a rollback until the session tells how it went. A listener     *)
(* reads the session's events and gives those answers.                     *)
(*                                                                         *)
(* The session is what it promises to be, TurnSlot, with the loop that     *)
(* takes the submissions in their order.                                   *)
(***************************************************************************)
EXTENDS Integers, Sequences, FiniteSets, SequencesExt

CONSTANTS
    MaxRequests,    \* Bound: requests of the client.
    Kinds           \* What it may ask for.

AllKinds == {"input", "review", "interrupt", "rollback", "archive"}

ASSUME RequestsAssumption == MaxRequests \in Nat /\ Kinds \subseteq AllKinds

Requests == 1..MaxRequests

VARIABLES
    kind,       \* Of each request; "none" before it is received.
    handler,    \* Where the message processor is.
    removed,    \* The thread was taken out of the thread manager.
    interrupts, \* pending_interrupts of the thread.
    rollback,   \* pending_rollbacks of the thread: a request, or 0.
    answers,    \* How many each request was given.
    queue,      \* Submissions the session has yet to take.
    loop,       \* The submission whose abort is under way, or 0.
    ended,      \* The session's loop has ended.
    hits,       \* The interrupts that found a turn in force.
    events,     \* What the session sent and the listener has yet to read.
    phase, evicted, completed, aborted      \* The turns: see TurnSlot.

slotVars == <<phase, evicted, completed, aborted>>
serverVars == <<kind, handler, removed>>
pendingVars == <<interrupts, rollback, answers>>
sessionVars == <<queue, loop, ended, hits>>

vars == <<serverVars, pendingVars, sessionVars, events, slotVars>>

\* A turn bears the id of the submission that started it.
Turns == INSTANCE TurnSlot WITH Turns <- Requests

Event(what, r) == [what |-> what, id |-> r]
Emit_Anonymous(what, r) == events' = Append(events, Event(what, 0))

Emit(what, r) == events' = Append(events, Event(what, r))

Answer(R) == answers' = [r \in Requests |-> IF r \in R THEN answers[r] + 1 ELSE answers[r]]

\* The request that the message processor handles: the latest one.
Current == Cardinality({r \in Requests : kind[r] # "none"})

TypeOK ==
    /\ kind \in [Requests -> AllKinds \cup {"none"}]
    /\ handler \in {"idle", "pend", "submit", "wait"}
    /\ removed \in BOOLEAN
    /\ interrupts \subseteq Requests
    /\ rollback \in Requests \cup {0}
    /\ answers \in [Requests -> Nat]
    /\ queue \in Seq(Requests)
    /\ loop \in Requests \cup {0}
    /\ ended \in BOOLEAN
    /\ hits \subseteq Requests
    /\ events \in Seq([what : {"complete", "aborted", "rolledBack", "rollbackFailed"},
                       id : Requests])
    /\ phase \in [Requests -> {"fresh", "running", "completing", "over"}]
    /\ evicted \subseteq Requests /\ completed \subseteq Requests /\ aborted \subseteq Requests

Init ==
    /\ kind = [r \in Requests |-> "none"]
    /\ handler = "idle"
    /\ removed = FALSE
    /\ interrupts = {}
    /\ rollback = 0
    /\ answers = [r \in Requests |-> 0]
    /\ queue = <<>>
    /\ loop = 0
    /\ ended = FALSE
    /\ hits = {}
    /\ events = <<>>
    /\ Turns!Init

-----------------------------------------------------------------------------
(* The message processor. *)

\* A thread that was archived is not found any more.
Receive(k) ==
    /\ handler = "idle"
    /\ Current < MaxRequests
    /\ kind' = [kind EXCEPT ![Current + 1] = k]
    /\ IF removed
       THEN Answer({Current + 1}) /\ UNCHANGED <<handler, removed>>
       ELSE /\ handler' = IF k \in {"interrupt", "rollback"} THEN "pend" ELSE "submit"
            /\ removed' = (k = "archive")
            /\ UNCHANGED answers
    /\ UNCHANGED <<interrupts, rollback, sessionVars, events, slotVars>>

PendInterrupt_Late ==
    /\ handler \in {"pend", "pending"}
    /\ kind[Current] = "interrupt"
    /\ \/ /\ handler = "pend"
          /\ queue' = Append(queue, Current)
          /\ handler' = "pending"
          /\ UNCHANGED interrupts
       \/ /\ handler = "pending"
          /\ interrupts' = interrupts \cup {Current}
          /\ handler' = "idle"
          /\ UNCHANGED queue
    /\ UNCHANGED <<kind, removed, rollback, answers, loop, ended, hits, events,
                   slotVars>>

PendInterrupt ==
    /\ handler = "pend"
    /\ kind[Current] = "interrupt"
    /\ interrupts' = interrupts \cup {Current}
    /\ handler' = "submit"
    /\ UNCHANGED <<kind, removed, rollback, answers, sessionVars, events, slotVars>>

PendRollback_Unchecked ==
    /\ handler = "pend"
    /\ kind[Current] = "rollback"
    /\ rollback' = Current /\ handler' = "submit" /\ UNCHANGED answers
    /\ UNCHANGED <<kind, removed, interrupts, sessionVars, events, slotVars>>

\* One rollback at a time.
PendRollback ==
    /\ handler = "pend"
    /\ kind[Current] = "rollback"
    /\ IF rollback # 0
       THEN Answer({Current}) /\ handler' = "idle" /\ UNCHANGED rollback
       ELSE rollback' = Current /\ handler' = "submit" /\ UNCHANGED answers
    /\ UNCHANGED <<kind, removed, interrupts, sessionVars, events, slotVars>>

\* The answer to the start of a turn follows at once.
Submit ==
    /\ handler = "submit"
    /\ queue' = Append(queue, Current)
    /\ handler' = IF kind[Current] = "archive" THEN "wait" ELSE "idle"
    /\ Answer({Current} \cap {r \in Requests : kind[r] \in {"input", "review"}})
    /\ UNCHANGED <<kind, removed, interrupts, rollback, loop, ended, hits, events,
                   slotVars>>

\* The thread was shut down, or ten seconds are over.
AnswerArchive ==
    /\ handler = "wait"
    /\ Answer({Current})
    /\ handler' = "idle"
    /\ UNCHANGED <<kind, removed, interrupts, rollback, sessionVars, events, slotVars>>

-----------------------------------------------------------------------------
(* The session's loop. *)

Taking(k) == loop = 0 /\ ~ended /\ queue # <<>> /\ kind[Head(queue)] = k

InForce == {t \in Requests : Turns!InForce(t)}

\* Input is given to the turn in force, if there is one.
TakeInput ==
    /\ Taking("input")
    /\ IF InForce = {} THEN Turns!Start(Head(queue)) ELSE UNCHANGED slotVars
    /\ queue' = Tail(queue)
    /\ UNCHANGED <<serverVars, pendingVars, loop, ended, hits, events>>

\* A review replaces the turn in force, unless what to review is not found.
TakeReview ==
    /\ Taking("review")
    /\ \/ IF InForce = {}
          THEN Turns!Start(Head(queue)) /\ UNCHANGED loop
          ELSE /\ \E t \in InForce : Turns!Evict(t)
               /\ loop' = Head(queue)
       \/ UNCHANGED <<slotVars, loop>>
    /\ queue' = Tail(queue)
    /\ UNCHANGED <<serverVars, pendingVars, ended, hits, events>>

TakeInterrupt ==
    /\ Taking("interrupt")
    /\ IF InForce = {}
       THEN UNCHANGED <<slotVars, loop, hits>>
       ELSE /\ \E t \in InForce : Turns!Evict(t)
            /\ loop' = Head(queue)
            /\ hits' = hits \cup {Head(queue)}
    /\ queue' = Tail(queue)
    /\ UNCHANGED <<serverVars, pendingVars, ended, events>>

TakeShutdown ==
    /\ Taking("archive")
    /\ IF InForce = {}
       THEN ended' = TRUE /\ UNCHANGED <<slotVars, loop>>
       ELSE /\ \E t \in InForce : Turns!Evict(t)
            /\ loop' = Head(queue)
            /\ UNCHANGED ended
    /\ queue' = Tail(queue)
    /\ UNCHANGED <<serverVars, pendingVars, hits, events>>

TakeRollback_Silent ==
    /\ Taking("rollback")
    /\ IF InForce = {} THEN Emit("rolledBack", Head(queue)) ELSE UNCHANGED events
    /\ queue' = Tail(queue)
    /\ UNCHANGED <<serverVars, pendingVars, loop, ended, hits, slotVars>>

\* The history is rolled back between turns only.
TakeRollback ==
    /\ Taking("rollback")
    /\ Emit(IF InForce = {} THEN "rolledBack" ELSE "rollbackFailed", Head(queue))
    /\ queue' = Tail(queue)
    /\ UNCHANGED <<serverVars, pendingVars, loop, ended, hits, slotVars>>

\* The evicted turn is reported aborted, and the submission goes on.
Abort ==
    /\ loop # 0
    /\ \E t \in evicted \ aborted : Turns!ReportAborted(t) /\ Emit("aborted", t)
    /\ IF kind[loop] = "review"
       THEN UNCHANGED <<loop, ended>>
       ELSE loop' = 0 /\ ended' = (kind[loop] = "archive")
    /\ UNCHANGED <<serverVars, pendingVars, queue, hits>>

StartReview ==
    /\ loop # 0
    /\ evicted \subseteq aborted
    /\ Turns!Start(loop)
    /\ loop' = 0
    /\ UNCHANGED <<serverVars, pendingVars, queue, ended, hits, events>>

\* What a turn does by itself.
TurnStep(t) ==
    /\ \/ Turns!Finish(t) /\ UNCHANGED events
       \/ Turns!Stop(t) /\ UNCHANGED events
       \/ Turns!ReportComplete(t) /\ Emit("complete", t)
    /\ UNCHANGED <<serverVars, pendingVars, sessionVars>>

-----------------------------------------------------------------------------
(* The listener. *)

Reading(whats) == events # <<>> /\ Head(events).what \in whats /\ events' = Tail(events)

\* turn/completed needs no pending state.
ReadComplete ==
    /\ Reading({"complete"})
    /\ UNCHANGED <<serverVars, pendingVars, sessionVars, slotVars>>

ReadAborted_Keeps ==
    /\ Reading({"aborted"})
    /\ Answer(interrupts)
    /\ interrupts' = interrupts
    /\ UNCHANGED <<serverVars, rollback, sessionVars, slotVars>>

\* Every pending interrupt is answered, whichever turn was aborted and why.
ReadAborted ==
    /\ Reading({"aborted"})
    /\ Answer(interrupts)
    /\ interrupts' = {}
    /\ UNCHANGED <<serverVars, rollback, sessionVars, slotVars>>

ReadRollback ==
    /\ Reading({"rolledBack", "rollbackFailed"})
    /\ Answer({rollback} \ {0})
    /\ rollback' = 0
    /\ UNCHANGED <<serverVars, interrupts, sessionVars, slotVars>>

-----------------------------------------------------------------------------
Handle == PendInterrupt \/ PendRollback \/ Submit \/ AnswerArchive

Loop ==
    \/ TakeInput \/ TakeReview \/ TakeInterrupt \/ TakeShutdown \/ TakeRollback
    \/ Abort \/ StartReview

Listen == ReadComplete \/ ReadAborted \/ ReadRollback

Next ==
    \/ \E k \in Kinds : Receive(k)
    \/ Handle \/ Loop \/ Listen
    \/ \E t \in Requests : TurnStep(t)

Spec == Init /\ [][Next]_vars

\* The tasks of the message processor, the session's loop and the listener run
\* on; neither the client nor a turn has to.
FairSpec == Spec /\ WF_vars(Handle) /\ WF_vars(Loop) /\ WF_vars(Listen)

-----------------------------------------------------------------------------
(* Properties. *)

\* Every request is answered once, or is pending where the listener finds it, or
\* is still in the processor's hands; an interrupt may be answered there already,
\* by the end of an earlier turn (send_response and send_error consume nothing
\* that would keep them from answering one request_id twice).
AnsweredOrPending ==
    \A r \in Requests :
        IF kind[r] = "none" \/ r \in interrupts \cup {rollback} THEN answers[r] = 0
        ELSE IF r = Current /\ handler # "idle" THEN answers[r] <= 1
        ELSE answers[r] = 1

\* What the session makes of a rollback answers the request that asked for it:
\* from its submission to its event the request is the pending one, and nothing
\* else is (pending_rollbacks has room for one and knows no submission id).
RollbackMatches ==
    LET asked == {r \in Requests : kind[r] = "rollback"}
        under_way == (Range(queue) \cap asked)
                        \cup {e.id : e \in {x \in Range(events) : x.id \in asked}}
    IN /\ under_way \subseteq {rollback}
       /\ rollback # 0 => rollback \in under_way \/ (handler = "submit" /\ Current = rollback)

\* A rollback that is pending is answered, so that the next may come, also when
\* the thread is archived meanwhile (thread_rollback; the comment there counts on
\* an event for every rollback submitted).
RollbackAnswered == (rollback # 0) ~> (rollback = 0)

\* An interrupt that finds a turn in force is answered (turn_interrupt, which
\* leaves it to TurnAborted: the request has to be pending when that is read).
InterruptAnswered ==
    (\E r \in hits : answers[r] = 0) ~> (\A r \in hits : answers[r] > 0)
=============================================================================
