--------------------------- MODULE SessionHistory ---------------------------
(***************************************************************************)
(* The conversation history of a session and the rollout that a later      *)
(* process rebuilds it from (trill-rs/core/src/context_manager, compact,   *)
(* compact_remote, tasks/undo, tasks/ghost_snapshot, rollout/truncation).  *)
(*                                                                         *)
(* The turn, the submission loop and the snapshots that turns leave behind *)
(* change the history in memory and then, in a second step, add to the     *)
(* rollout what they did.  Compaction, rollback and undo read the history, *)
(* work on the copy, and put the copy in its place.  A turn that is        *)
(* aborted may run on beside the loop for a while.                         *)
(*                                                                         *)
(* An item is a pair of its kind and a number.  An operator named X_Y is X *)
(* with the fault Y put in.                                                *)
(***************************************************************************)
EXTENDS Naturals, Sequences, SequencesExt

CONSTANTS
    MaxNumber,    \* Bound: so many items carry a number, or rollbacks are made.
    MaxTurns,     \* Bound: so many turns are started by all processes.
    MaxRollback,  \* Bound: so many turns are dropped at most by one rollback.
    MaxProcesses, \* Bound: so many processes work on the thread.
    MaxTokens     \* COMPACT_USER_MESSAGE_MAX_TOKENS.

ASSUME BoundAssumption ==
    MaxNumber \in Nat /\ MaxTurns \in Nat /\ MaxRollback \in Nat /\ MaxProcesses \in Nat \ {0}

ASSUME TokensAssumption == MaxTokens \in Nat

VARIABLES
    history,   \* The items in memory.
    log,       \* The rollout, as far as the recorder took it.
    seeded,    \* initial_context_seeded.
    loop,      \* Where the submission loop is.
    turn,      \* Where the turn is.
    after,     \* Where it goes on after a compaction.
    doomed,    \* The turn was aborted and its task is still polled.
    owed,      \* What the turn and the loop changed in memory and have not logged.
    copy,      \* The history as the turn and the loop read it.
    drop,      \* The turns a rollback drops.
    shooting,  \* The snapshots being taken.
    shot,      \* Those in memory and not yet logged.
    number,    \* The next number.
    turns,     \* The turns started.
    processes, \* The processes started.
    drained,   \* Auxiliary: a compaction put a reply in memory only.
    cut        \* Auxiliary: a turn was aborted between memory and log, or ran on.

data == <<history, log>>
tasks == <<loop, turn, after, doomed, copy, drop, shooting, turns>>
vars == <<data, tasks, seeded, owed, shot, number, processes, drained, cut>>

Context == <<"context", 0>>
Marker == <<"marker", turns>>
Kinds == {"context", "user", "clipped", "reply", "marker", "summary", "packed", "ghost"}
Items == Kinds \X Nat

\* What the rollout holds for the history.
ItemLine(i) == [kind |-> "item", item |-> i]
CompactedLine(summary) == [kind |-> "compacted", item |-> summary]
ReplacedLine(items) == [kind |-> "replaced", items |-> items]
RolledBackLine(n) == [kind |-> "rolledBack", turns |-> n]
LogLines ==
    [kind : {"item", "compacted"}, item : Items]
        \cup [kind : {"replaced"}, items : Seq(Items)]
        \cup [kind : {"rolledBack"}, turns : 1..MaxRollback]

TurnKinds == {"regular", "compact", "undo"}
LoopPCs == {"idle", "marker", "rollback"} \cup TurnKinds
TurnPCs == {"off", "prompt", "snapshot", "work", "compact", "local", "rebuild", "remote",
            "undo", "restore", "ending"}
Owners == {"loop", "turn"}

TypeOK ==
    /\ history \in Seq(Items)
    /\ log \in Seq(LogLines)
    /\ seeded \in BOOLEAN /\ doomed \in BOOLEAN /\ drained \in BOOLEAN /\ cut \in BOOLEAN
    /\ loop \in LoopPCs
    /\ turn \in TurnPCs
    /\ after \in TurnPCs
    /\ owed \in [Owners -> Seq(LogLines)]
    /\ copy \in [Owners -> Seq(Items)]
    /\ drop \in 0..MaxRollback
    /\ shooting \in 0..MaxTurns
    /\ shot \in Seq(Items)
    /\ number \in 1..(MaxNumber + 1)
    /\ turns \in 0..MaxTurns
    /\ processes \in 1..MaxProcesses

----------------------------------------------------------------------------
(* The algorithms on histories.                                            *)

OfKind(h, kinds) ==
    LET chosen[k \in 0..Len(h)] ==
            IF k = 0 THEN <<>>
            ELSE IF h[k][1] \in kinds THEN Append(chosen[k - 1], h[k]) ELSE chosen[k - 1]
    IN  chosen[Len(h)]

Ghosts(h) == OfKind(h, {"ghost"})

\* is_user_turn_boundary: the summary is a message of the user.
Boundaries == {"user", "clipped", "summary"}
BeginsTurn(i) == i[1] \in Boundaries
TurnsIn(h) == Len(OfKind(h, Boundaries))

\* The cut is before the first of the last n turns; what precedes all turns is kept.  A
\* rollback of no turns is refused (thread_rollback), and never written.
DropLastUserTurns(h, n) ==
    LET kept == IF n >= TurnsIn(h) THEN 0 ELSE TurnsIn(h) - n
        first == CHOOSE k \in DOMAIN h :
                     BeginsTurn(h[k]) /\ TurnsIn(SubSeq(h, 1, k - 1)) = kept
    IN  IF TurnsIn(h) = 0 THEN h ELSE SubSeq(h, 1, first - 1)

\* collect_user_messages takes the markers of aborted turns with it.
CollectUserMessages_NoMarkers(h) == OfKind(h, {"user", "clipped"})
CollectUserMessages(h) == OfKind(h, {"user", "clipped", "marker"})

\* A marker and what is left of a message are shorter than a message.
Size(i) == IF i[1] = "user" THEN 2 ELSE 1

\* The tokens of the m newest messages.
Tokens(messages) ==
    LET tokens[m \in 0..Len(messages)] ==
            IF m = 0 THEN 0 ELSE tokens[m - 1] + Size(messages[Len(messages) + 1 - m])
    IN  tokens

\* As many of the newest messages as fit, and what there is room for of the one before them.
Whole(messages) == Max({m \in 0..Len(messages) : Tokens(messages)[m] <= MaxTokens})
Clip(i) == <<"clipped", i[2]>>
Limited(messages) ==
    LET older == Len(messages) - Whole(messages)
        newest == SubSeq(messages, older + 1, Len(messages))
    IN  IF older = 0 \/ Tokens(messages)[Whole(messages)] = MaxTokens
        THEN newest ELSE <<Clip(messages[older])>> \o newest

BuildCompactedHistory(h, summary) ==
    <<Context>> \o Limited(CollectUserMessages(h)) \o <<summary>>

\* reconstruct_history_from_rollout.
ReplayLine_NoRollback(h, l) ==
    CASE l.kind = "item" -> Append(h, l.item)
      [] l.kind = "replaced" -> l.items
      [] l.kind = "compacted" -> BuildCompactedHistory(h, l.item)
      [] l.kind = "rolledBack" -> h

ReplayLine(h, l) ==
    CASE l.kind = "item" -> Append(h, l.item)
      [] l.kind = "replaced" -> l.items
      [] l.kind = "compacted" -> BuildCompactedHistory(h, l.item)
      [] l.kind = "rolledBack" -> DropLastUserTurns(h, l.turns)

Replay(lines) ==
    LET rebuilt[k \in 0..Len(lines)] ==
            IF k = 0 THEN <<>> ELSE ReplayLine(rebuilt[k - 1], lines[k])
    IN  rebuilt[Len(lines)]

\* user_message_positions_in_rollout.
CountPosition_Raw(lines, positions, k) ==
    CASE lines[k].kind = "item" /\ BeginsTurn(lines[k].item) -> Append(positions, k)
      [] OTHER -> positions

CountPosition(lines, positions, k) ==
    CASE lines[k].kind = "item" /\ BeginsTurn(lines[k].item) -> Append(positions, k)
      [] lines[k].kind = "rolledBack" ->
             SubSeq(positions, 1, Len(positions) - lines[k].turns)
      [] OTHER -> positions

UserPositions(lines) ==
    LET counted[k \in 0..Len(lines)] ==
            IF k = 0 THEN <<>> ELSE CountPosition(lines, counted[k - 1], k)
    IN  counted[Len(lines)]

\* truncate_rollout_before_nth_user_message_from_start.
TruncateBefore(lines, n) ==
    LET positions == UserPositions(lines)
    IN  IF Len(positions) <= n THEN <<>> ELSE SubSeq(lines, 1, positions[n + 1] - 1)

----------------------------------------------------------------------------
Init ==
    /\ history = <<Context>>
    /\ log = <<ItemLine(Context)>>
    /\ seeded = TRUE
    /\ loop = "idle"
    /\ turn = "off"
    /\ after = "off"
    /\ doomed = FALSE
    /\ owed = [o \in Owners |-> <<>>]
    /\ copy = [o \in Owners |-> <<>>]
    /\ drop = 0
    /\ shooting = 0
    /\ shot = <<>>
    /\ number = 1
    /\ turns = 0
    /\ processes = 1
    /\ drained = FALSE
    /\ cut = FALSE

Free(o) == owed[o] = <<>>

Fresh(kind) == <<kind, number>>
TakeNumber == number <= MaxNumber /\ number' = number + 1

\* record_conversation_items: the history first, and then the log.
Remember(o, i) ==
    /\ Free(o)
    /\ history' = Append(history, i)
    /\ owed' = [owed EXCEPT ![o] = <<ItemLine(i)>>]

Replace(o, h, line) ==
    /\ Free(o)
    /\ history' = h
    /\ owed' = [owed EXCEPT ![o] = <<line>>]

Persist(o) ==
    /\ ~Free(o)
    /\ log' = log \o owed[o]
    /\ owed' = [owed EXCEPT ![o] = <<>>]
    /\ UNCHANGED <<history, tasks, seeded, shot, number, processes, drained, cut>>

----------------------------------------------------------------------------
(* The submission loop.                                                    *)

\* For the loop an aborted turn is over.
NoTurn == turn = "off" \/ doomed

\* A turn is submitted while none runs; the context is seeded first.
BeginTurn(kind) ==
    /\ loop = "idle" /\ Free("loop")
    /\ NoTurn
    /\ turns < MaxTurns
    /\ loop' = kind
    /\ turns' = turns + 1
    /\ seeded' = TRUE
    /\ \/ seeded /\ UNCHANGED <<history, owed>>
       \/ ~seeded /\ Remember("loop", Context)
    /\ UNCHANGED <<log, turn, after, doomed, copy, drop, shooting, shot, number,
                   processes, drained, cut>>

\* Bound: the task of the turn comes up when that of the turn before is gone.
Launch ==
    /\ loop \in TurnKinds /\ Free("loop")
    /\ turn = "off"
    /\ loop' = "idle"
    /\ turn' = IF loop = "regular" THEN "prompt" ELSE loop
    /\ UNCHANGED <<data, after, doomed, copy, drop, shooting, turns, seeded, owed, shot,
                   number, processes, drained, cut>>

\* The turn is interrupted.  After the grace period its task is dropped at the await it
\* has come to, or it is being polled and goes on to the next await that waits; its
\* snapshot is cancelled, others go on.
Interrupt ==
    /\ loop = "idle" /\ Free("loop")
    /\ turn # "off" /\ ~doomed
    /\ loop' = "marker"
    /\ \/ /\ turn' = "off"
          /\ owed' = [owed EXCEPT !["turn"] = <<>>]
          /\ after' = "off" /\ copy' = [copy EXCEPT !["turn"] = <<>>]
          /\ cut' = (cut \/ ~Free("turn"))
          /\ UNCHANGED doomed
       \/ /\ doomed' = TRUE
          /\ cut' = TRUE
          /\ UNCHANGED <<turn, owed, after, copy>>
    /\ shooting' \in {shooting, IF shooting > 0 THEN shooting - 1 ELSE 0}
    /\ shot' \in {shot, <<>>}
    /\ UNCHANGED <<data, drop, turns, seeded, number, processes, drained>>

MarkAborted ==
    /\ loop = "marker"
    /\ Remember("loop", Marker)
    /\ loop' = "idle"
    /\ UNCHANGED <<log, turn, after, doomed, copy, drop, shooting, turns, seeded, shot,
                   number, processes, drained, cut>>

ReadForRollback(n) ==
    /\ loop = "idle" /\ Free("loop")
    /\ NoTurn
    /\ TakeNumber  \* To bound the rollbacks.
    /\ loop' = "rollback"
    /\ drop' = n
    /\ copy' = [copy EXCEPT !["loop"] = history]
    /\ UNCHANGED <<data, turn, after, doomed, shooting, turns, seeded, owed, shot,
                   processes, drained, cut>>

RollBack ==
    /\ loop = "rollback"
    /\ Replace("loop", DropLastUserTurns(copy["loop"], drop), RolledBackLine(drop))
    /\ loop' = "idle"
    /\ drop' = 0
    /\ copy' = [copy EXCEPT !["loop"] = <<>>]
    /\ UNCHANGED <<log, turn, after, doomed, shooting, turns, seeded, shot, number,
                   processes, drained, cut>>

----------------------------------------------------------------------------
(* The turn.                                                               *)

TakePrompt ==
    /\ turn = "prompt"
    /\ TakeNumber
    /\ Remember("turn", Fresh("user"))
    /\ turn' = "snapshot"
    /\ UNCHANGED <<log, loop, after, doomed, copy, drop, shooting, turns, seeded, shot,
                   processes, drained, cut>>

\* With the feature on, a snapshot is taken while the turn goes on.
StartSnapshot ==
    /\ turn = "snapshot" /\ Free("turn")
    /\ turn' = "work"
    /\ shooting' \in {shooting, shooting + 1}
    /\ UNCHANGED <<data, loop, after, doomed, copy, drop, turns, seeded, owed, shot,
                   number, processes, drained, cut>>

\* A reply of the model, a tool call, or the output of one.
RecordReply ==
    /\ turn = "work"
    /\ TakeNumber
    /\ Remember("turn", Fresh("reply"))
    /\ UNCHANGED <<log, tasks, seeded, shot, processes, drained, cut>>

EndTurn ==
    /\ turn \in {"work", "compact", "ending"} /\ Free("turn")
    /\ turn' = "off"
    /\ doomed' = FALSE
    /\ UNCHANGED <<data, loop, after, copy, drop, shooting, turns, seeded, owed, shot,
                   number, processes, drained, cut>>

\* The aborted task comes to an await that waits.
DropTask ==
    /\ doomed
    /\ turn' = "off"
    /\ doomed' = FALSE
    /\ after' = "off" /\ copy' = [copy EXCEPT !["turn"] = <<>>]
    /\ owed' = [owed EXCEPT !["turn"] = <<>>]
    /\ UNCHANGED <<data, loop, drop, shooting, turns, seeded, shot, number, processes,
                   drained, cut>>

\* A compaction is a task of its own, or part of a turn, before or after the prompt.  An
\* aborted task does not come past the call of the model that it begins with.
BeginCompaction(way) ==
    /\ turn \in {"prompt", "work", "compact"} /\ Free("turn")
    /\ ~doomed
    /\ after' = IF turn = "compact" THEN "ending" ELSE turn
    /\ turn' = way
    /\ copy' = [copy EXCEPT !["turn"] = IF way = "remote" THEN history ELSE @]
    /\ UNCHANGED <<data, loop, doomed, drop, shooting, turns, seeded, owed, shot, number,
                   processes, drained, cut>>

\* The model's answer to the compaction prompt goes to the history, not to the log.
DrainReply ==
    /\ turn = "local"
    /\ TakeNumber
    /\ history' = Append(history, Fresh("reply"))
    /\ drained' = TRUE
    /\ UNCHANGED <<log, tasks, seeded, owed, shot, processes, cut>>

\* The stream fails for good, or the server refuses: the history stays as it is.
CompactionFails ==
    /\ turn \in {"local", "remote"}
    /\ turn' = after /\ after' = "off"
    /\ copy' = [copy EXCEPT !["turn"] = <<>>]
    /\ UNCHANGED <<data, loop, doomed, drop, shooting, turns, seeded, owed, shot, number,
                   processes, drained, cut>>

ReadForSummary ==
    /\ turn = "local"
    /\ turn' = "rebuild"
    /\ copy' = [copy EXCEPT !["turn"] = history]
    /\ UNCHANGED <<data, loop, after, doomed, drop, shooting, turns, seeded, owed, shot,
                   number, processes, drained, cut>>

EndCompaction ==
    /\ turn' = after /\ after' = "off"
    /\ copy' = [copy EXCEPT !["turn"] = <<>>]
    /\ drained' = FALSE
    /\ UNCHANGED <<log, loop, doomed, drop, shooting, turns, seeded, shot, processes,
                   cut>>

Summarise ==
    /\ turn = "rebuild"
    /\ TakeNumber
    /\ LET summary == Fresh("summary")
           read == copy["turn"]
       IN  Replace("turn", BuildCompactedHistory(read, summary) \o Ghosts(read),
                   CompactedLine(summary))
    /\ EndCompaction

\* The server answers with a history of its own; the snapshots are put back.
TakeRemote ==
    /\ turn = "remote"
    /\ TakeNumber
    /\ LET read == copy["turn"]
           new == OfKind(read, {"user", "clipped"}) \o <<Fresh("packed")>> \o Ghosts(read)
       IN  Replace("turn", new, ReplacedLine(new))
    /\ EndCompaction

ReadForUndo ==
    /\ turn = "undo"
    /\ turn' = IF Ghosts(history) = <<>> THEN "ending" ELSE "restore"
    /\ copy' = [copy EXCEPT !["turn"] = IF Ghosts(history) = <<>> THEN <<>> ELSE history]
    /\ UNCHANGED <<data, loop, after, doomed, drop, shooting, turns, seeded, owed, shot,
                   number, processes, drained, cut>>

\* The snapshot is restored, or that fails; the rollout is not told.
Undo ==
    /\ turn = "restore"
    /\ turn' = "ending"
    /\ LET read == copy["turn"]
           IsGhost(i) == i[1] = "ghost"
       IN  \/ history' = RemoveAt(read, SelectLastInSeq(read, IsGhost))
           \/ UNCHANGED history
    /\ copy' = [copy EXCEPT !["turn"] = <<>>]
    /\ UNCHANGED <<log, loop, after, doomed, drop, shooting, turns, seeded, owed, shot,
                   number, processes, drained, cut>>

----------------------------------------------------------------------------
(* The snapshots.                                                          *)

Shoot_Anyway ==
    /\ TakeNumber
    /\ shooting' = shooting - 1
    /\ history' = Append(history, Fresh("ghost"))
    /\ shot' = Append(shot, Fresh("ghost"))
    /\ UNCHANGED <<log, loop, turn, after, doomed, copy, drop, turns, seeded, owed,
                   processes, drained, cut>>

Shoot ==
    /\ shooting > 0
    /\ shooting' = shooting - 1
    /\ \/ /\ TakeNumber
          /\ history' = Append(history, Fresh("ghost"))
          /\ shot' = Append(shot, Fresh("ghost"))
       \/ UNCHANGED <<history, shot, number>>  \* There is no repository, or git fails.
    /\ UNCHANGED <<log, loop, turn, after, doomed, copy, drop, turns, seeded, owed,
                   processes, drained, cut>>

PersistShot ==
    /\ \E k \in DOMAIN shot :
          /\ log' = Append(log, ItemLine(shot[k]))
          /\ shot' = RemoveAt(shot, k)
    /\ UNCHANGED <<history, tasks, seeded, owed, number, processes, drained, cut>>

----------------------------------------------------------------------------
(* The end of the process.  The next one finds a prefix of the log, as     *)
(* RolloutLog has it, and rebuilds the history from it.                    *)

Resume ==
    /\ processes < MaxProcesses
    /\ processes' = processes + 1
    /\ \E k \in 1..Len(log) :
          /\ log' = SubSeq(log, 1, k)
          /\ history' = Replay(log')
    /\ seeded' = FALSE
    /\ loop' = "idle" /\ turn' = "off" /\ after' = "off" /\ doomed' = FALSE
    /\ owed' = [o \in Owners |-> <<>>]
    /\ copy' = [o \in Owners |-> <<>>]
    /\ drop' = 0
    /\ shooting' = 0
    /\ shot' = <<>>
    /\ drained' = FALSE /\ cut' = FALSE
    /\ UNCHANGED <<number, turns>>

----------------------------------------------------------------------------
LoopStep ==
    \/ \E kind \in TurnKinds : BeginTurn(kind)
    \/ Launch
    \/ Interrupt \/ MarkAborted
    \/ \E n \in 1..MaxRollback : ReadForRollback(n)
    \/ RollBack
    \/ Persist("loop")

TurnStep ==
    \/ TakePrompt \/ StartSnapshot \/ RecordReply \/ EndTurn \/ DropTask
    \/ \E way \in {"local", "remote"} : BeginCompaction(way)
    \/ DrainReply \/ CompactionFails \/ ReadForSummary \/ Summarise \/ TakeRemote
    \/ ReadForUndo \/ Undo
    \/ Persist("turn")

SnapshotStep == Shoot \/ PersistShot

Next == LoopStep \/ TurnStep \/ SnapshotStep \/ Resume

Spec == Init /\ [][Next]_vars

----------------------------------------------------------------------------
(* Properties.                                                             *)

Talk(h) == OfKind(h, Kinds \ {"ghost"})
Settled == \A o \in Owners : Free(o)

\* ReplayIsHistory: between two records, the history that a resumed session would rebuild
\* is the one in memory, through prompts, compactions of both kinds and rollbacks; except
\* for snapshots, for what a compaction in progress or failed has put in memory only, and
\* when a turn was aborted between memory and log or ran on beside the marker
\* (reconstruct_history_from_rollout).
ReplayIsHistory == Settled /\ ~cut /\ ~drained => Talk(Replay(log)) = Talk(history)

RollsBack == loop = "rollback" /\ loop' = "idle"
ServerReplaces == turn = "remote" /\ turn' # "remote"
PutsCopyBack == turn \in {"rebuild", "restore"} /\ turn' # turn

\* UserWordsKept: what the user said, and that a turn was interrupted, stays in the history
\* until a rollback, the answer of a server that compacts or a new process replaces it; but
\* a local compaction takes out what is older than the limit keeps of the history at that
\* moment (build_compacted_history): the copies that compaction and undo put in place are
\* not stale in this.  Those of an aborted turn that runs on are: they take out what was
\* recorded since they were made, and nothing else.
Words(h) == OfKind(h, {"user", "clipped", "marker"})
UserWordsKept ==
    [][\/ RollsBack \/ ServerReplaces \/ processes' # processes
       \/ LET known == IF doomed /\ PutsCopyBack THEN copy["turn"] ELSE history
              words == Words(known)
          IN  \A k \in DOMAIN words :
                  words[k] \in Range(history) \ Range(history') =>
                      /\ turn = "rebuild"
                      /\ Tokens(words)[Len(words) + 1 - k] > MaxTokens]_vars

\* ForkKeepsTurnsBefore: a fork before the n-th message of the user has the n messages
\* before it and no other, also after rollbacks and resumes (fork_thread); as long as no
\* rollback follows a compaction, no compaction had to leave messages out, and the server
\* has not replaced the history by another.
Fits(messages) == Limited(messages) = messages
LinesCount ==
    /\ \A k \in DOMAIN log : log[k].kind # "replaced"
    /\ \A k, m \in DOMAIN log :
           k < m /\ log[k].kind = "compacted" => log[m].kind # "rolledBack"
    /\ \A k \in DOMAIN log :
           log[k].kind = "compacted" =>
               Fits(CollectUserMessages(Replay(SubSeq(log, 1, k - 1))))

ForkKeepsTurnsBefore ==
    LET users == OfKind(Replay(log), {"user"}) IN
    LinesCount =>
        /\ Len(UserPositions(log)) = Len(users)
        /\ \A n \in 0..(Len(users) - 1) :
               OfKind(Replay(TruncateBefore(log, n)), {"user"}) = SubSeq(users, 1, n)
=============================================================================
