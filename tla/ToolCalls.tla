------------------------------ MODULE ToolCalls ------------------------------
(***************************************************************************)
(* The sampling requests of one turn and the tool calls the model makes in *)
(* them (run_turn, run_sampling_request, try_run_sampling_request,         *)
(* ToolCallRuntime, and the approval a call asks the client for).          *)
(*                                                                         *)
(* The turn streams a response.  Each call in it is recorded at once and   *)
(* runs as a tokio task of its own; when the stream ends the turn waits    *)
(* for the calls in order and records their outputs.  The submission loop  *)
(* may meanwhile take the turn out of active_turn, cancel its token and    *)
(* drop its task, and the client answers approval requests when it likes.  *)
(*                                                                         *)
(* A step is the code between two awaits.  Calls are numbered in the order *)
(* the model makes them.  X_Y is X with the fault Y put in.                *)
(***************************************************************************)
EXTENDS Integers, Sequences

CONSTANTS
    MaxCalls,   \* Bound: calls the model makes in the turn.
    MaxRetries, \* stream_max_retries of the provider.
    Kinds       \* The kinds of call the model makes.

\* "parallel" runs beside other calls, "exclusive" alone, "approval" is an
\* exclusive call that may ask the client, "noId" a LocalShellCall without an id.
AllKinds == {"parallel", "exclusive", "approval", "noId"}

ASSUME MaxCallsAssumption == MaxCalls \in Nat
ASSUME MaxRetriesAssumption == MaxRetries \in Nat
ASSUME KindsAssumption == Kinds \subseteq AllKinds

Calls == 1 .. MaxCalls
NoCall == 0

VARIABLES
    turn,        \* Where the turn's task is.
    outcome,     \* outcome of try_run_sampling_request, then of the turn.
    followUp,    \* needs_follow_up of this attempt.
    retries,     \* retries of run_sampling_request.
    tries,       \* Attempts made at this request.
    attempt,     \* Attempts made in the turn: names the runtime of this one.
    websockets,  \* Would activate_http_fallback still switch the transport?
    told,        \* What the prompt says of each call.
    history,     \* The items recorded for the calls, in order.
    inFlight,    \* in_flight: the calls whose outputs are awaited, in order.
    kind,        \* The kind of each call.
    tool,        \* Where the task of each call is.
    result,      \* What the task of each call returned.
    runtime,     \* The attempt whose ToolCallRuntime, and lock, a call uses.
    dropped,     \* The calls whose handle is dropped: their task is aborted.
    slot,        \* pending_approvals[sub_id]: the call whose sender is there.
    answeredBy,  \* The call whose request the client answered to resume a call.
    requests,    \* The approval requests the client has not answered.
    registered,  \* Is the turn in active_turn?
    cancelled    \* Is the turn's token cancelled?

turnVars == <<turn, outcome, followUp, retries, tries, attempt, websockets, told>>
recordVars == <<history, inFlight>>
toolVars == <<kind, tool, result, runtime, dropped>>
approvalVars == <<slot, answeredBy, requests>>
abortVars == <<registered, cancelled>>
vars == <<turnVars, recordVars, toolVars, approvalVars, abortVars>>

TurnPCs == {"prompt", "connect", "stream", "drain", "failed", "backoff", "over", "aborted"}
ToolPCs == {"none", "waiting", "running", "asking", "resumed", "done", "gone"}
Items == [item : {"call", "output", "error"}, call : Calls]

TypeOK ==
    /\ turn \in TurnPCs
    /\ outcome \in {"none", "ok", "retryable", "error", "cancelled"}
    /\ followUp \in BOOLEAN
    /\ retries \in 0 .. MaxRetries
    /\ tries \in Nat
    /\ attempt \in Nat
    /\ websockets \in BOOLEAN
    /\ told \in [Calls -> {"absent", "bare", "aborted", "output"}]
    /\ history \in Seq(Items)
    /\ inFlight \in Seq(Calls)
    /\ kind \in [Calls -> AllKinds]
    /\ tool \in [Calls -> ToolPCs]
    /\ result \in [Calls -> {"none", "output", "fatal"}]
    /\ runtime \in [Calls -> Nat]
    /\ dropped \in SUBSET Calls
    /\ slot \in Calls \cup {NoCall}
    /\ answeredBy \in [Calls -> Calls \cup {NoCall}]
    /\ requests \in SUBSET Calls
    /\ registered \in BOOLEAN
    /\ cancelled \in BOOLEAN

Init ==
    /\ turn = "prompt"
    /\ outcome = "none"
    /\ followUp = FALSE
    /\ retries = 0
    /\ tries = 0
    /\ attempt = 0
    /\ websockets \in BOOLEAN
    /\ told = [c \in Calls |-> "absent"]
    /\ history = <<>>
    /\ inFlight = <<>>
    /\ kind = [c \in Calls |-> "parallel"]
    /\ tool = [c \in Calls |-> "none"]
    /\ result = [c \in Calls |-> "none"]
    /\ runtime = [c \in Calls |-> 0]
    /\ dropped = {}
    /\ slot = NoCall
    /\ answeredBy = [c \in Calls |-> NoCall]
    /\ requests = {}
    /\ registered = TRUE
    /\ cancelled = FALSE

----------------------------------------------------------------------------
(* The history and the prompt made of it.                                  *)

Recorded(item, c) == \E i \in DOMAIN history : history[i] = [item |-> item, call |-> c]

Record(items) == history' = history \o items

\* for_prompt: a call without an output is given the output "aborted", unless it
\* has no id; an output that answers no call id is left out.
ForPrompt ==
    [c \in Calls |->
        IF ~Recorded("call", c) THEN "absent"
        ELSE IF Recorded("output", c) THEN "output"
        ELSE IF Recorded("error", c) THEN "bare" ELSE "aborted"]

----------------------------------------------------------------------------
(* The turn: its requests, their attempts and their streams.               *)

\* The call the model makes next.
IsNext(c) ==
    /\ ~Recorded("call", c)
    /\ \A d \in Calls : d < c => Recorded("call", d)

\* run_turn builds the prompt of the next request.
StartRequest ==
    /\ turn = "prompt"
    /\ told' = ForPrompt
    /\ retries' = 0
    /\ tries' = 0
    /\ turn' = "connect"
    /\ UNCHANGED <<outcome, followUp, attempt, websockets>>
    /\ UNCHANGED <<recordVars, toolVars, approvalVars, abortVars>>

\* client_session.stream answers: a new attempt, with a ToolCallRuntime of its own.
Connect ==
    /\ turn = "connect"
    /\ attempt' = attempt + 1
    /\ tries' = tries + 1
    /\ followUp' = FALSE
    /\ turn' = "stream"
    /\ UNCHANGED <<outcome, retries, websockets, told>>
    /\ UNCHANGED <<recordVars, toolVars, approvalVars, abortVars>>

\* The model makes a call: it is recorded and its task spawned.
StreamCall(k, c) ==
    /\ turn = "stream"
    /\ k # "noId"
    /\ IsNext(c)
    /\ Record(<<[item |-> "call", call |-> c]>>)
    /\ inFlight' = Append(inFlight, c)
    /\ kind' = [kind EXCEPT ![c] = k]
    /\ tool' = [tool EXCEPT ![c] = "waiting"]
    /\ runtime' = [runtime EXCEPT ![c] = attempt]
    /\ followUp' = TRUE
    /\ UNCHANGED <<turn, outcome, retries, tries, attempt, websockets, told>>
    /\ UNCHANGED <<result, dropped, approvalVars, abortVars>>

\* The model makes a LocalShellCall without an id: an error is recorded instead.
StreamCallWithoutId(c) ==
    /\ turn = "stream"
    /\ "noId" \in Kinds
    /\ IsNext(c)
    /\ Record(<<[item |-> "call", call |-> c], [item |-> "error", call |-> c]>>)
    /\ kind' = [kind EXCEPT ![c] = "noId"]
    /\ followUp' = TRUE
    /\ UNCHANGED <<turn, outcome, retries, tries, attempt, websockets, told>>
    /\ UNCHANGED <<inFlight, tool, result, runtime, dropped, approvalVars, abortVars>>

\* A fault: a completed response does not wait for its calls.
BreakStream_NoDrain(o) ==
    /\ turn = "stream"
    /\ outcome' = o
    /\ turn' = IF o = "ok" /\ followUp THEN "prompt" ELSE "drain"
    /\ UNCHANGED <<followUp, retries, tries, attempt, websockets, told>>
    /\ UNCHANGED <<recordVars, toolVars, approvalVars, abortVars>>

\* The loop over the stream breaks with this outcome; the turn drains in_flight.
BreakStream(o) ==
    /\ turn = "stream"
    /\ outcome' = o
    /\ turn' = "drain"
    /\ UNCHANGED <<followUp, retries, tries, attempt, websockets, told>>
    /\ UNCHANGED <<recordVars, toolVars, approvalVars, abortVars>>

ResponseCompleted == BreakStream("ok")
StreamClosed == BreakStream("retryable")

\* A fault: the handles are detached, as a bare JoinHandle is, and nothing is aborted.
DropInFlight_Detached ==
    /\ inFlight' = <<>>
    /\ UNCHANGED dropped

\* The attempt returns early: in_flight goes out of scope and aborts its tasks.
DropInFlight ==
    /\ dropped' = dropped \cup {inFlight[i] : i \in DOMAIN inFlight}
    /\ inFlight' = <<>>

\* The stream, or the connection, fails: `?` leaves at once, without a drain.
StreamFails(o) ==
    /\ turn \in {"connect", "stream"}
    /\ DropInFlight
    /\ outcome' = o
    /\ turn' = IF o = "retryable" THEN "failed" ELSE "over"
    /\ tries' = IF turn = "connect" THEN tries + 1 ELSE tries
    /\ UNCHANGED <<followUp, retries, attempt, websockets, told>>
    /\ UNCHANGED <<history, kind, tool, result, runtime, approvalVars, abortVars>>

\* or_cancel: while the tools are listed, while connecting, and while streaming.
SeeCancelled ==
    /\ cancelled
    /\ \/ turn = "stream" /\ BreakStream("cancelled")
       \/ /\ turn \in {"prompt", "connect"}
          /\ outcome' = "cancelled"
          /\ turn' = "over"
          /\ UNCHANGED <<followUp, retries, tries, attempt, websockets, told>>
          /\ UNCHANGED <<recordVars, toolVars, approvalVars, abortVars>>

\* What drain_in_flight records of a call that returned: an output, not an error.
OutputOf(c) ==
    IF result[c] = "output" THEN <<[item |-> "output", call |-> c]>> ELSE <<>>

\* A fault: outputs are recorded as they come, as from a FuturesUnordered.
DrainNext_Unordered ==
    /\ turn = "drain"
    /\ \E i \in DOMAIN inFlight :
          /\ tool[inFlight[i]] = "done"
          /\ Record(OutputOf(inFlight[i]))
          /\ inFlight' = SubSeq(inFlight, 1, i - 1) \o SubSeq(inFlight, i + 1, Len(inFlight))
    /\ UNCHANGED <<turnVars, toolVars, approvalVars, abortVars>>

\* drain_in_flight waits for the oldest call, and so on.
DrainNext ==
    /\ turn = "drain"
    /\ inFlight # <<>>
    /\ tool[Head(inFlight)] = "done"
    /\ Record(OutputOf(Head(inFlight)))
    /\ inFlight' = Tail(inFlight)
    /\ UNCHANGED <<turnVars, toolVars, approvalVars, abortVars>>

\* Nothing is in flight: the outcome of the attempt decides what follows.
DrainEnds ==
    /\ turn = "drain"
    /\ inFlight = <<>>
    /\ \/ outcome = "ok" /\ followUp /\ turn' = "prompt"
       \/ outcome = "ok" /\ ~followUp /\ turn' = "over"
       \/ outcome = "retryable" /\ turn' = "failed"
       \/ outcome = "cancelled" /\ turn' = "over"
    /\ UNCHANGED <<outcome, followUp, retries, tries, attempt, websockets, told>>
    /\ UNCHANGED <<recordVars, toolVars, approvalVars, abortVars>>

\* A fault: the flag that makes the switch happen once is not set.
SwitchTransport_Again ==
    /\ retries = MaxRetries
    /\ websockets
    /\ retries' = 0
    /\ turn' = "connect"
    /\ UNCHANGED <<outcome, websockets>>

\* run_sampling_request: another transport once, else wait and retry, else give up.
SwitchTransport ==
    /\ retries = MaxRetries
    /\ websockets
    /\ websockets' = FALSE
    /\ retries' = 0
    /\ turn' = "connect"
    /\ UNCHANGED outcome

WaitAndRetry ==
    /\ retries < MaxRetries
    /\ retries' = retries + 1
    /\ turn' = "backoff"
    /\ UNCHANGED <<outcome, websockets>>

GiveUp ==
    /\ retries = MaxRetries
    /\ ~websockets
    /\ outcome' = "error"
    /\ turn' = "over"
    /\ UNCHANGED <<retries, websockets>>

\* A fault: the budget is compared one too late.
AttemptFailed ==
    /\ turn = "failed"
    /\ SwitchTransport \/ WaitAndRetry \/ GiveUp
    /\ UNCHANGED <<followUp, tries, attempt, told>>
    /\ UNCHANGED <<recordVars, toolVars, approvalVars, abortVars>>

\* The sleep ends, which nothing shortens: the same prompt is sent again.
BackoffEnds ==
    /\ turn = "backoff"
    /\ turn' = "connect"
    /\ UNCHANGED <<outcome, followUp, retries, tries, attempt, websockets, told>>
    /\ UNCHANGED <<recordVars, toolVars, approvalVars, abortVars>>

----------------------------------------------------------------------------
(* The task of a call.                                                     *)

\* A fault: every call takes the lock for reading.
Shares_All(c) == TRUE

Live(c) == tool[c] \in {"waiting", "running", "asking", "resumed"}
Holding(c) == tool[c] \in {"running", "asking", "resumed"}
Shares(c) == kind[c] = "parallel"

Move(c, pc) == tool' = [tool EXCEPT ![c] = pc]

\* The RwLock of the call's runtime: read by parallel calls, written by the others.
Acquire(c) ==
    /\ tool[c] = "waiting"
    /\ \A d \in Calls :
          d # c /\ Holding(d) /\ runtime[d] = runtime[c] => Shares(c) /\ Shares(d)
    /\ Move(c, "running")
    /\ UNCHANGED <<turnVars, recordVars, kind, result, runtime, dropped>>
    /\ UNCHANGED <<approvalVars, abortVars>>

\* A fault: a sender that is there already is kept, and the new one is lost.
Insert_KeepsOld(c) ==
    /\ slot' = IF slot = NoCall THEN c ELSE slot
    /\ Move(c, "asking")

\* insert_pending_approval: the sender the slot held is dropped, and the call that
\* waits on it resumes with the default decision, Denied.
Insert(c) ==
    /\ slot' = c
    /\ tool' = [d \in Calls |->
                   IF d = c THEN "asking"
                   ELSE IF d = slot /\ tool[d] = "asking" THEN "resumed" ELSE tool[d]]

\* request_command_approval, or request_patch_approval.
Ask(c) ==
    /\ kind[c] = "approval"
    /\ tool[c] = "running"
    /\ registered
    /\ Insert(c)
    /\ requests' = requests \cup {c}
    /\ UNCHANGED <<turnVars, recordVars, kind, result, runtime, dropped>>
    /\ UNCHANGED <<answeredBy, abortVars>>

\* The turn is out of active_turn: the sender has nowhere to go.  A command waits on
\* it all the same; a patch loses it on return, and is denied.
AskUnregistered(c) ==
    /\ kind[c] = "approval"
    /\ tool[c] = "running"
    /\ ~registered
    /\ Move(c, "asking") \/ Move(c, "resumed")
    /\ requests' = requests \cup {c}
    /\ UNCHANGED <<turnVars, recordVars, kind, result, runtime, dropped>>
    /\ UNCHANGED <<slot, answeredBy, abortVars>>

Return(c, r) ==
    /\ Move(c, "done")
    /\ result' = [result EXCEPT ![c] = r]
    /\ UNCHANGED <<turnVars, recordVars, kind, runtime, dropped, approvalVars, abortVars>>

ToolReturns(c, r) == tool[c] \in {"running", "resumed"} /\ Return(c, r)

\* A fault: a call that waits for the client does not look at the token.
ToolCancelled_NotAsking(c) ==
    cancelled /\ Live(c) /\ tool[c] # "asking" /\ Return(c, "output")

\* The select! sees the token: the call returns an output that says so.
ToolCancelled(c) == cancelled /\ Live(c) /\ Return(c, "output")

\* The runtime drops an aborted task at an await.
ToolDropped(c) ==
    /\ c \in dropped
    /\ Live(c)
    /\ Move(c, "gone")
    /\ UNCHANGED <<turnVars, recordVars, kind, result, runtime, dropped>>
    /\ UNCHANGED <<approvalVars, abortVars>>

----------------------------------------------------------------------------
(* The client and the submission loop.                                     *)

\* A call waits on the receiver of the sender in the slot.
SlotAwaited == slot # NoCall /\ tool[slot] = "asking"

\* notify_approval: the decision on request p goes to whoever is in the slot.
Answer(p) ==
    /\ p \in requests
    /\ requests' = requests \ {p}
    /\ slot' = NoCall
    /\ \/ /\ SlotAwaited
          /\ Move(slot, "resumed")
          /\ answeredBy' = [answeredBy EXCEPT ![slot] = p]
       \/ /\ ~SlotAwaited
          /\ UNCHANGED <<tool, answeredBy>>
    /\ UNCHANGED <<turnVars, recordVars, kind, result, runtime, dropped, abortVars>>

\* take_all_running_tasks and clear_pending: the pending sender is dropped.
TakeTurn ==
    /\ registered
    /\ turn \notin {"over", "aborted"}
    /\ registered' = FALSE
    /\ slot' = NoCall
    /\ tool' = [c \in Calls |->
                   IF c = slot /\ tool[c] = "asking" THEN "resumed" ELSE tool[c]]
    /\ UNCHANGED <<turnVars, recordVars, kind, result, runtime, dropped>>
    /\ UNCHANGED <<answeredBy, requests, cancelled>>

CancelToken ==
    /\ ~registered
    /\ ~cancelled
    /\ cancelled' = TRUE
    /\ UNCHANGED <<turnVars, recordVars, toolVars, approvalVars, registered>>

\* handle.abort() after the grace period: the task goes, and in_flight with it.
AbortTurn ==
    /\ cancelled
    /\ turn \notin {"over", "aborted"}
    /\ DropInFlight
    /\ turn' = "aborted"
    /\ UNCHANGED <<outcome, followUp, retries, tries, attempt, websockets, told>>
    /\ UNCHANGED <<history, kind, tool, result, runtime, approvalVars, abortVars>>

Turn ==
    \/ StartRequest \/ Connect \/ ResponseCompleted \/ StreamClosed \/ SeeCancelled
    \/ \E c \in Calls : StreamCallWithoutId(c) \/ \E k \in Kinds : StreamCall(k, c)
    \/ \E o \in {"retryable", "error"} : StreamFails(o)
    \/ DrainNext \/ DrainEnds \/ AttemptFailed \/ BackoffEnds

Tool(c) ==
    \/ Acquire(c) \/ Ask(c) \/ AskUnregistered(c)
    \/ \E r \in {"output", "fatal"} : ToolReturns(c, r)
    \/ ToolCancelled(c) \/ ToolDropped(c)

Next ==
    \/ Turn
    \/ \E c \in Calls : Tool(c)
    \/ \E p \in Calls : Answer(p)
    \/ TakeTurn \/ CancelToken \/ AbortTurn

Spec == Init /\ [][Next]_vars

\* What tokio and the code justify: the turn's task is polled when it can proceed
\* without the model, a task whose token is cancelled or whose handle is dropped
\* reaches its select! or its drop, and the loop, having taken a turn, cancels it.
\* Nothing makes the model, a tool or the client proceed.
CancelFairness ==
    /\ WF_vars(CancelToken)
    /\ WF_vars(StartRequest) /\ WF_vars(SeeCancelled)
    /\ WF_vars(DrainNext) /\ WF_vars(DrainEnds)
    /\ WF_vars(AttemptFailed) /\ WF_vars(BackoffEnds)
    /\ \A c \in Calls : WF_vars(ToolCancelled(c))

CancelSpec == Spec /\ CancelFairness

\* A client that answers each request it is shown, beside a runtime that drops tasks.
ClientAnswers == \A c \in Calls : WF_vars(ToolDropped(c)) /\ WF_vars(Answer(c))

----------------------------------------------------------------------------
(* Safety.                                                                 *)

\* A call that may not run beside another (everything but the read-only tools)
\* holds its attempt's lock alone, however calls are streamed, dropped or cancelled.
ExclusiveAlone ==
    \A c, d \in Calls :
        (c # d /\ Holding(c) /\ Holding(d) /\ runtime[c] = runtime[d]) =>
            kind[c] = "parallel" /\ kind[d] = "parallel"

\* The history the next prompts are made of has every output after its call, once,
\* and in the order of the calls: in_flight is drained in order, and never again.
OnceEach == \A i, j \in DOMAIN history : history[i] = history[j] => i = j

CallFirst ==
    \A j \in DOMAIN history : history[j].item = "output" =>
        \E i \in DOMAIN history :
            i < j /\ history[i] = [item |-> "call", call |-> history[j].call]

OutputsIncrease ==
    \A i, j \in DOMAIN history :
        (i < j /\ history[i].item = "output" /\ history[j].item = "output") =>
            history[i].call < history[j].call

OutputsInOrder == OnceEach /\ CallFirst /\ OutputsIncrease

\* The model is told one story: once a prompt said that a call was aborted, no
\* output of that call is recorded, so no later prompt says that it succeeded.
AbortedIsFinal ==
    \A c \in Calls : told[c] = "aborted" => ~Recorded("output", c)

\* When the turn moves on to its next request, or is over, no call of it runs on
\* unowned: every live task is one whose handle was dropped, and will be aborted.
NothingLeaks ==
    turn \in {"prompt", "over", "aborted"} =>
        \A c \in Calls : Live(c) => c \in dropped

\* A request is attempted at most once and MaxRetries times more on each transport:
\* falling back to HTTP starts the count again, and happens once.
RetryBudget == tries <= 2 * (MaxRetries + 1)

\* The calls of one attempt never compete for the slot, which is keyed by the turn
\* alone: a request displaces that of a live call only across attempts (the warning
\* "Overwriting existing pending approval"), because calls that ask run alone.
AttemptSharesNoSlot ==
    [][\A c \in Calls :
          (slot = c /\ slot' \notin {c, NoCall} /\ Live(c)) => runtime[slot'] # runtime[c]]_vars

----------------------------------------------------------------------------
(* Liveness.                                                               *)

\* Cancelling a turn ends it without its being dropped: whatever the model, the
\* tools and the client do, every await of the turn and of its calls gives way.
CancelEnds == cancelled ~> turn \in {"over", "aborted"}

\* A call that waits for an approval is resumed, cancelled or dropped, even when
\* requests of several attempts share the turn's one slot.
ApprovalSettles ==
    ClientAnswers => \A c \in Calls : (tool[c] = "asking") ~> (tool[c] # "asking")

----------------------------------------------------------------------------
(* What comments say and the code does not do.                             *)

\* trill.rs:3305: "If the model requests a function call, we execute it and send the
\* output back to the model in the next sampling request": a turn that completes has
\* sent the model every output it recorded.
OutputReachesModel ==
    (turn = "over" /\ outcome = "ok") =>
        \A c \in Calls : Recorded("output", c) => told[c] = "output"
=============================================================================
