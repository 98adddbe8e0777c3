--------------------------- MODULE ReadinessFlag ----------------------------
(***************************************************************************)
(* The readiness flag (trill-rs/utils/readiness) as a turn uses it for its *)
(* tool_call_gate: the ghost snapshot of the repository subscribes to the  *)
(* flag and marks it ready when it is over, and every tool call that may   *)
(* change files waits for it.                                              *)
(*                                                                         *)
(* The flag is an atomic, a set of tokens behind a mutex, and a watch      *)
(* channel.  They are not read together, and each access is a step here:   *)
(* the actors run on different threads.                                    *)
(*                                                                         *)
(* An operator named X_Y is X with the fault Y put in.                     *)
(***************************************************************************)
CONSTANTS
    Subscribers,  \* Those who may hold the gate closed; a token is named by its owner.
    Waiters,      \* The tool calls that wait for it.
    NoOne         \* The mutex is free.

ASSUME NoOneAssumption == NoOne \notin Subscribers \cup Waiters
ASSUME DisjointAssumption == Subscribers \cap Waiters = {}

VARIABLES
    ready,      \* The atomic `ready`.
    tokens,     \* The tokens subscribed and not yet used.
    holder,     \* Who holds the mutex of `tokens`.
    value,      \* The value in the watch channel.
    sub,        \* Where each subscriber is.
    wait        \* Where each waiter is.

flagVars == <<ready, tokens, holder>>
vars == <<flagVars, value, sub, wait>>

SubPCs == {"idle", "entering", "inserting", "held", "marking", "removing", "clearing",
           "sending", "marked", "refused", "failed"}
WaitPCs == {"idle", "load", "tryLock", "swapping", "sending", "reload", "attach", "look",
            "await", "passed", "dropped"}

TypeOK ==
    /\ ready \in BOOLEAN
    /\ tokens \in SUBSET Subscribers
    /\ holder \in Subscribers \cup Waiters \cup {NoOne}
    /\ value \in BOOLEAN
    /\ sub \in [Subscribers -> SubPCs]
    /\ wait \in [Waiters -> WaitPCs]

Init ==
    /\ ready = FALSE
    /\ tokens = {}
    /\ holder = NoOne
    /\ value = FALSE
    /\ sub = [s \in Subscribers |-> "idle"]
    /\ wait = [w \in Waiters |-> "idle"]

SubGo(s, pc) == sub' = [sub EXCEPT ![s] = pc]
WaitGo(w, pc) == wait' = [wait EXCEPT ![w] = pc]

Lock(a) ==
    /\ holder = NoOne
    /\ holder' = a

\* The receivers of the watch channel belong to the calls that wait in it.
Receivers == {w \in Waiters : wait[w] \in {"look", "await"}}

\* tokio's watch::Sender::send: without a receiver it fails, and the value stays.
SendTrue == value' = (value \/ Receivers # {})

----------------------------------------------------------------------------
(* subscribe.                                                              *)

Subscribe(s) ==
    /\ sub[s] = "idle"
    /\ SubGo(s, IF ready THEN "refused" ELSE "entering")
    /\ UNCHANGED <<flagVars, value, wait>>

EnterTokens(s) ==
    /\ sub[s] = "entering"
    /\ Lock(s)
    /\ SubGo(s, "inserting")
    /\ UNCHANGED <<ready, tokens, value, wait>>

\* The flag is read again under the lock.
InsertToken_Unchecked(s) ==
    /\ sub[s] = "inserting"
    /\ tokens' = tokens \cup {s}
    /\ SubGo(s, "held")
    /\ holder' = NoOne
    /\ UNCHANGED <<ready, value, wait>>

InsertToken(s) ==
    /\ sub[s] = "inserting"
    /\ \/ /\ ~ready
          /\ tokens' = tokens \cup {s}
          /\ SubGo(s, "held")
       \/ /\ ready
          /\ SubGo(s, "refused")
          /\ UNCHANGED tokens
    /\ holder' = NoOne
    /\ UNCHANGED <<ready, value, wait>>

\* with_tokens gives up after LOCK_TIMEOUT, if the thread that holds the mutex is that
\* slow.
LockFails(s) ==
    /\ sub[s] \in {"entering", "marking"}
    /\ holder # NoOne
    /\ SubGo(s, "failed")
    /\ UNCHANGED <<flagVars, value, wait>>

----------------------------------------------------------------------------
(* mark_ready, called when the snapshot is taken, has failed or is         *)
(* cancelled.                                                              *)

SnapshotEnds(s) ==
    /\ sub[s] = "held"
    /\ SubGo(s, IF ready THEN "refused" ELSE "marking")
    /\ UNCHANGED <<flagVars, value, wait>>

EnterToMark(s) ==
    /\ sub[s] = "marking"
    /\ Lock(s)
    /\ SubGo(s, "removing")
    /\ UNCHANGED <<ready, tokens, value, wait>>

RemoveToken(s) ==
    /\ sub[s] = "removing"
    /\ \/ /\ s \in tokens
          /\ tokens' = tokens \ {s}
          /\ ready' = TRUE
          /\ SubGo(s, "clearing")
          /\ UNCHANGED holder
       \/ /\ s \notin tokens
          /\ holder' = NoOne
          /\ SubGo(s, "refused")
          /\ UNCHANGED <<ready, tokens>>
    /\ UNCHANGED <<value, wait>>

ClearTokens(s) ==
    /\ sub[s] = "clearing"
    /\ tokens' = {}
    /\ holder' = NoOne
    /\ SubGo(s, "sending")
    /\ UNCHANGED <<ready, value, wait>>

Broadcast_Missing(s) ==
    /\ sub[s] = "sending"
    /\ SubGo(s, "marked")
    /\ UNCHANGED <<flagVars, value, wait>>

Broadcast(s) ==
    /\ sub[s] = "sending"
    /\ SendTrue
    /\ SubGo(s, "marked")
    /\ UNCHANGED <<flagVars, wait>>

Progress(s) ==
    \/ EnterTokens(s) \/ InsertToken(s) \/ LockFails(s) \/ SnapshotEnds(s)
    \/ EnterToMark(s) \/ RemoveToken(s) \/ ClearTokens(s) \/ Broadcast(s)

----------------------------------------------------------------------------
(* wait_ready and is_ready, called by a tool call that mutates.            *)

CallWait(w) ==
    /\ wait[w] = "idle"
    /\ WaitGo(w, "load")
    /\ UNCHANGED <<flagVars, value, sub>>

LoadReady(w) ==
    /\ wait[w] = "load"
    /\ WaitGo(w, IF ready THEN "passed" ELSE "tryLock")
    /\ UNCHANGED <<flagVars, value, sub>>

\* Nobody holds a token: the flag is ready by default.
TryLock_AnyTokens(w) ==
    /\ wait[w] = "tryLock"
    /\ Lock(w)
    /\ WaitGo(w, "swapping")
    /\ UNCHANGED <<ready, tokens, value, sub>>

TryLock(w) ==
    /\ wait[w] = "tryLock"
    /\ \/ /\ tokens = {}
          /\ Lock(w)
          /\ WaitGo(w, "swapping")
       \/ /\ holder # NoOne \/ tokens # {}
          /\ WaitGo(w, "reload")
          /\ UNCHANGED holder
    /\ UNCHANGED <<ready, tokens, value, sub>>

SwapReady(w) ==
    /\ wait[w] = "swapping"
    /\ ready' = TRUE
    /\ holder' = NoOne
    /\ WaitGo(w, IF ready THEN "passed" ELSE "sending")
    /\ UNCHANGED <<tokens, value, sub>>

SendAndPass(w) ==
    /\ wait[w] = "sending"
    /\ SendTrue
    /\ WaitGo(w, "passed")
    /\ UNCHANGED <<flagVars, sub>>

ReloadReady(w) ==
    /\ wait[w] = "reload"
    /\ WaitGo(w, IF ready THEN "passed" ELSE "attach")
    /\ UNCHANGED <<flagVars, value, sub>>

\* A new receiver has seen the current value.
Attach(w) ==
    /\ wait[w] = "attach"
    /\ WaitGo(w, "look")
    /\ UNCHANGED <<flagVars, value, sub>>

\* The value is looked at before the first await, and after each change.
Look_Spurious(w) ==
    /\ wait[w] \in {"look", "await"}
    /\ WaitGo(w, "passed")
    /\ UNCHANGED <<flagVars, value, sub>>

Look(w) ==
    /\ wait[w] = "look" \/ (wait[w] = "await" /\ value)
    /\ WaitGo(w, IF value THEN "passed" ELSE "await")
    /\ UNCHANGED <<flagVars, value, sub>>

\* The call is aborted while it waits.
DropWait(w) ==
    /\ wait[w] = "await"
    /\ WaitGo(w, "dropped")
    /\ UNCHANGED <<flagVars, value, sub>>

Advance(w) ==
    \/ LoadReady(w) \/ TryLock(w) \/ SwapReady(w) \/ SendAndPass(w) \/ ReloadReady(w)
    \/ Attach(w) \/ Look(w)

Next ==
    \/ \E s \in Subscribers : Subscribe(s) \/ Progress(s)
    \/ \E w \in Waiters : CallWait(w) \/ Advance(w) \/ DropWait(w)

Spec == Init /\ [][Next]_vars

\* A snapshot ends, and no thread stands still for ever.
FairSpec ==
    /\ Spec
    /\ \A s \in Subscribers : WF_vars(Progress(s))
    /\ \A w \in Waiters : WF_vars(Advance(w))

----------------------------------------------------------------------------
(* Properties.                                                             *)

Holds(s) == sub[s] \in {"held", "marking"}

HasMarked(s) == sub[s] \in {"clearing", "sending", "marked"}

\* While a snapshot is being taken no tool call passes the gate, unless another
\* subscriber opened it: subscribing, marking and the shortcut for a flag without
\* subscribers never see the flag and the tokens at one instant.
GateHoldsCallsBack ==
    \A s \in Subscribers, w \in Waiters :
        Holds(s) /\ wait[w] = "passed" => \E u \in Subscribers : HasMarked(u)

\* However many snapshots race to open the gate, mark_ready tells one at most that it
\* did.
OpenedByOne == \A s, u \in Subscribers : HasMarked(s) /\ HasMarked(u) => s = u

\* Nobody is left subscribed to a flag that is ready: a token inserted while the flag
\* turned would keep its owner believing that it holds the gate.
NoTokenOnceReady == ready /\ holder = NoOne => tokens = {}

\* The flag implements the gate: no order of its accesses lets a call through early, or
\* closes the gate again.
Gate == INSTANCE ToolGate WITH open <- ready, through <- {w \in Waiters : wait[w] = "passed"}
GateSpec == Gate!Spec

\* A call that waits in the channel before the flag turns is let through, unless it is
\* dropped or a subscriber could not get the lock to mark the flag.
AttachedCallsPass ==
    \A w \in Waiters :
        (w \in Receivers /\ ~ready)
            ~> (wait[w] \in {"passed", "dropped"} \/ \E s \in Subscribers : sub[s] = "failed")
=============================================================================
