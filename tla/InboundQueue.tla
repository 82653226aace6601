---------------------------- MODULE InboundQueue ----------------------------
(***************************************************************************)
(* One session's inbound queue, from the row a host module writes to       *)
(* messages_in until its status is final: the container's poll loop        *)
(* (container/agent-runner/src/poll-loop.ts) over processing_ack, and the  *)
(* host sweep (src/host-sweep.ts) that wakes, kills, retries and syncs.    *)
(*                                                                         *)
(* The two processes share nothing but the two SQLite files: the host      *)
(* writes messages_in and reads processing_ack, the container the other    *)
(* way round.  A step is what one of them does between two awaits.  Either *)
(* may stop between any two steps.                                         *)
(*                                                                         *)
(* A message is abstracted to its kind:                                    *)
(*   "chat"     wakes the agent and is answered by a turn                  *)
(*   "context"  a trigger=0 row: rides along, wakes nobody                 *)
(*   "clear"    /clear or /upload-trace, which the runner answers itself   *)
(*   "slash"    a command the agent runs, but only first in a fresh query  *)
(*   "task"     a scheduled task whose script may gate it                  *)
(*   "system"   the answer an MCP tool is polling for                      *)
(***************************************************************************)
EXTENDS Naturals, FiniteSets

CONSTANTS
  Messages,      \* the rows that may be written
  Kind,          \* Kind[m], as above
  Containers,    \* container names; one that is down may be started anew
  Cap,           \* maxMessagesPerPrompt
  MaxTries,      \* MAX_TRIES
  MaxFaults,     \* bound: container deaths, host crashes and failed wakes
  RuntimeFaults, \* bound: TRUE if docker may fail to stop, to list or to find
  NoContainer    \* what `tracked` holds while activeContainers has no entry

Kinds == {"chat", "context", "clear", "slash", "task", "system"}

ASSUME QueueAssumption ==
  /\ IsFiniteSet(Messages) /\ Kind \in [Messages -> Kinds]
  /\ Cap \in Nat \ {0}
  /\ MaxTries \in Nat
  /\ MaxFaults \in Nat
  /\ RuntimeFaults \in BOOLEAN
  /\ NoContainer \notin Containers

VARIABLES
  \* inbound.db, host-written
  status,     \* messages_in.status; "absent" before the row is written
  rank,       \* messages_in.seq, as a rank among the rows written
  tries,      \* messages_in.tries
  held,       \* rows whose process_after lies in the future
  \* outbound.db, container-written
  ack,        \* processing_ack: "none", "processing", "completed", "error"
  \* the heartbeat file
  beat,       \* claims older than the last heartbeat
  \* the containers
  phase,      \* "down", "booting", "polling", "scripts" or "query"
  frozen,     \* live containers that make no more progress
  batch,      \* rows of the turn in progress: ids, then processingIds
  answered,   \* the open query has produced a result
  aborted,    \* endedForCommand: the query is being aborted for a command
  follow,     \* rows the follow-up poller claimed and runs scripts for
  late,       \* the same, of a query that ended meanwhile
  pushed,     \* rows pushed into the open query and not yet answered
  \* the host's memory
  tracked,    \* the container of activeContainers, or NoContainer
  waking,     \* a wakeContainer is in flight
  sweep,      \* "idle", or "waking": sweepSession awaits its wakeContainer
  \* bounds and history
  faults,
  served,     \* rows an agent, the runner or a script gate has acted on
  owed,       \* rows whose turn died before it produced a result
  takes,      \* how often a container claimed the row
  misled      \* docker has refused a stop, or could not list at adoption

inbound   == <<status, rank, tries, held>>
turn      == <<batch, answered, aborted, follow, late, pushed>>
container == <<phase, frozen, turn>>
host      == <<tracked, waking, sweep>>
history   == <<faults, served, owed, takes, misled>>
vars      == <<inbound, ack, beat, container, host, history>>

Phases == {"down", "booting", "polling", "scripts", "query"}

TypeOK ==
  /\ status \in [Messages -> {"absent", "pending", "completed", "failed"}]
  /\ rank \in [Messages -> Nat]
  /\ tries \in [Messages -> 0 .. MaxTries]
  /\ held \in SUBSET Messages
  /\ ack \in [Messages -> {"none", "processing", "completed", "error"}]
  /\ beat \in SUBSET Messages
  /\ phase \in [Containers -> Phases]
  /\ frozen \in SUBSET Containers
  /\ answered \in SUBSET Containers
  /\ aborted \in SUBSET Containers
  /\ batch \in [Containers -> SUBSET Messages]
  /\ follow \in [Containers -> SUBSET Messages]
  /\ late \in [Containers -> SUBSET Messages]
  /\ pushed \in [Containers -> SUBSET Messages]
  /\ tracked \in Containers \cup {NoContainer}
  /\ waking \in BOOLEAN
  /\ sweep \in {"idle", "waking"}
  /\ faults \in 0 .. MaxFaults
  /\ served \in SUBSET Messages
  /\ owed \in SUBSET Messages
  /\ takes \in [Messages -> Nat]
  /\ misled \in BOOLEAN

Init ==
  /\ status = [m \in Messages |-> "absent"]
  /\ rank = [m \in Messages |-> 0]
  /\ tries = [m \in Messages |-> 0]
  /\ held = {}
  /\ ack = [m \in Messages |-> "none"]
  /\ beat = {}
  /\ phase = [c \in Containers |-> "down"]
  /\ frozen = {}
  /\ answered = {}
  /\ aborted = {}
  /\ batch = [c \in Containers |-> {}]
  /\ follow = [c \in Containers |-> {}]
  /\ late = [c \in Containers |-> {}]
  /\ pushed = [c \in Containers |-> {}]
  /\ tracked = NoContainer
  /\ waking = FALSE
  /\ sweep = "idle"
  /\ faults = 0
  /\ served = {}
  /\ owed = {}
  /\ takes = [m \in Messages |-> 0]
  /\ misled = FALSE

-----------------------------------------------------------------------------
(* What both sides read.                                                   *)

Trigger(m) == Kind[m] # "context"
Command(m) == Kind[m] \in {"clear", "slash"}
Live(c)    == phase[c] # "down"
Runs(c)    == Live(c) /\ c \notin frozen
Tasks(S)   == {m \in S : Kind[m] = "task"}
Claims     == {m \in Messages : ack[m] = "processing"}

\* ack with the rows of S set to v: INSERT OR REPLACE INTO processing_ack.
Acked(S, v) == [m \in Messages |-> IF m \in S THEN v ELSE ack[m]]

\* History: one more claim of each row of S.
Counted(S) == [m \in Messages |-> takes[m] + (IF m \in S THEN 1 ELSE 0)]

\* The first n rows of S, by seq, and the last n.
Oldest(S, n) == {m \in S : Cardinality({q \in S : rank[q] < rank[m]}) < n}
Newest(S, n) == {m \in S : Cardinality({q \in S : rank[q] > rank[m]}) < n}

\* getPendingMessages: due rows without an ack; wake-eligible rows first, the
\* newest context rows in the slots that are left.  The cap comes last.
UnclaimedBug ==                      \* mutant: only running claims are left out
  {m \in Messages : status[m] = "pending" /\ m \notin held /\ ack[m] # "processing"}
Unclaimed == {m \in Messages : status[m] = "pending" /\ m \notin held /\ ack[m] = "none"}
WindowBug(S) == Newest(S, Cap)       \* mutant: the newest rows, context or not
Window(S) ==
  LET wake == Oldest({m \in S : Trigger(m)}, Cap)
  IN  wake \cup Newest({m \in S : ~Trigger(m)}, Cap - Cardinality(wake))
Pending == Window(Unclaimed)

\* What either poller may take: system rows belong to the MCP tools.
Takeable == {m \in Pending : Kind[m] # "system"}

\* The accumulate gate: context alone engages nobody.
EngagesBug(S) == S # {}              \* mutant: the gate is dropped
Engages(S)    == \E m \in S : Trigger(m)

\* The rows of c whose turn has produced nothing: they are owed a retry.
Unfinished(c) ==
  IF phase[c] = "scripts" \/ (phase[c] = "query" /\ c \notin answered)
  THEN batch[c] ELSE {}

\* What a death of c leaves: its two files, and nothing of the process.
Dies(c) ==
  /\ phase' = [phase EXCEPT ![c] = "down"]
  /\ frozen' = frozen \ {c}
  /\ batch' = [batch EXCEPT ![c] = {}]
  /\ answered' = answered \ {c}
  /\ aborted' = aborted \ {c}
  /\ follow' = [follow EXCEPT ![c] = {}]
  /\ late' = [late EXCEPT ![c] = {}]
  /\ pushed' = [pushed EXCEPT ![c] = {}]
  /\ owed' = owed \cup {m \in Unfinished(c) : ack[m] = "processing"}

-----------------------------------------------------------------------------
(* Writers of messages_in, and the wake they ask for.                      *)

\* writeSessionMessage, and wakeContainer for a row that triggers.  A task is
\* written for a later time, and wakes nobody.
Arrive(m) ==
  /\ status[m] = "absent"
  /\ status' = [status EXCEPT ![m] = "pending"]
  /\ rank' = [rank EXCEPT ![m] = 1 + Cardinality({q \in Messages : status[q] # "absent"})]
  /\ IF Kind[m] = "task"
     THEN held' = held \cup {m} /\ UNCHANGED waking
     ELSE waking' = (waking \/ (Trigger(m) /\ tracked = NoContainer)) /\ UNCHANGED held
  /\ UNCHANGED <<tries, ack, beat, container, tracked, sweep, history>>

\* process_after of a row comes due.
Due(m) ==
  /\ m \in held
  /\ held' = held \ {m}
  /\ UNCHANGED <<status, rank, tries, ack, beat, container, host, history>>

\* prepare: the container's name is derived from the session's key, so one that
\* still lives is found by its name and becomes the session's again.
StartableBug == {c \in Containers : ~Live(c)}  \* mutant: a fresh name each time
Startable ==
  IF \E c \in Containers : Live(c) THEN {c \in Containers : Live(c)} ELSE Containers

\* A wake in flight spawns the container, or attaches to the one it finds: the
\* heartbeat is removed, whoever wrote it.
Spawn(c) ==
  /\ waking
  /\ tracked = NoContainer
  /\ c \in Startable
  /\ phase' = [phase EXCEPT ![c] = IF Live(c) THEN @ ELSE "booting"]
  /\ tracked' = c
  /\ waking' = FALSE
  /\ beat' = {}
  /\ UNCHANGED <<inbound, ack, frozen, turn, sweep, history>>

\* The spawn fails (wakeContainer returns false).  If what failed was the look
\* for the name, `docker create` is refused for it and its cleanup removes the
\* container that bears it.
WakeFails ==
  /\ waking
  /\ faults < MaxFaults
  /\ waking' = FALSE
  /\ faults' = faults + 1
  /\ \/ UNCHANGED <<container, owed>>
     \/ RuntimeFaults /\ \E c \in Containers : Live(c) /\ Dies(c)
  /\ UNCHANGED <<inbound, ack, beat, tracked, sweep, served, takes, misled>>

-----------------------------------------------------------------------------
(* The container's poll loop.                                              *)

\* runPollLoop starts: clearStaleProcessingAcks.
Boot(c) ==
  /\ phase[c] = "booting"
  /\ c \notin frozen
  /\ ack' = Acked(Claims, "none")
  /\ phase' = [phase EXCEPT ![c] = "polling"]
  /\ UNCHANGED <<inbound, beat, frozen, turn, host, history>>

\* One round of the outer loop that claims a batch: the runner's own commands
\* are answered and acked at once; the rest goes on to the script gates, or
\* nothing is left of it.
Poll(c) ==
  /\ phase[c] = "polling"
  /\ c \notin frozen
  /\ Engages(Takeable)
  /\ LET own == {m \in Takeable : Kind[m] = "clear"}
         ids == Takeable \ own
     IN  /\ ack' = [m \in Messages |-> IF m \in own THEN "completed"
                                       ELSE IF m \in ids THEN "processing" ELSE ack[m]]
         /\ beat' = beat \ Takeable
         /\ served' = served \cup own
         /\ IF ids = {}
            THEN UNCHANGED <<phase, batch>>
            ELSE /\ phase' = [phase EXCEPT ![c] = "scripts"]
                 /\ batch' = [batch EXCEPT ![c] = ids]
         /\ owed' = owed \ Takeable
         /\ takes' = Counted(ids)
  /\ UNCHANGED <<inbound, frozen, answered, aborted, follow, late, pushed, host, faults, misled>>

\* applyPreTaskScripts returned: some tasks are gated, in order or by an error.
\* The rows kept open the query; with none kept the loop starts over.
Gate(c) ==
  /\ phase[c] = "scripts"
  /\ c \notin frozen
  /\ \E gated \in SUBSET Tasks(batch[c]) : \E broken \in SUBSET (Tasks(batch[c]) \ gated) :
       /\ LET keep == batch[c] \ (gated \cup broken)
          IN  /\ ack' = [m \in Messages |-> IF m \in gated THEN "completed"
                                            ELSE IF m \in broken THEN "error" ELSE ack[m]]
              /\ served' = served \cup batch[c]
              /\ batch' = [batch EXCEPT ![c] = keep]
              /\ phase' = [phase EXCEPT ![c] = IF keep = {} THEN "polling" ELSE "query"]
  /\ UNCHANGED <<inbound, beat, frozen, answered, aborted, follow, late, pushed,
                 host, faults, owed, takes, misled>>

\* A stream event, or a script run: touchHeartbeat.
Heartbeat(c) ==
  /\ phase[c] \in {"scripts", "query"}
  /\ c \notin frozen
  /\ beat # Claims
  /\ beat' = Claims
  /\ UNCHANGED <<inbound, ack, container, host, history>>

\* A result event: the turn is over, the query stays open for follow-ups.
Result(c) ==
  /\ phase[c] = "query"
  /\ c \notin frozen
  /\ c \notin answered \/ pushed[c] # {}
  /\ answered' = answered \cup {c}
  /\ ack' = Acked(batch[c], "completed")
  /\ beat' = Claims
  /\ pushed' = [pushed EXCEPT ![c] = {}]
  /\ UNCHANGED <<inbound, phase, frozen, batch, aborted, follow, late, host, history>>

\* The stream ends: closed, aborted, or with an error that is reported to the
\* user.  Either way the batch is acked, "no redelivery".
EndQuery(c) ==
  /\ phase[c] = "query"
  /\ c \notin frozen
  /\ ack' = Acked(batch[c], "completed")
  /\ phase' = [phase EXCEPT ![c] = "polling"]
  /\ batch' = [batch EXCEPT ![c] = {}]
  /\ answered' = answered \ {c}
  /\ aborted' = aborted \ {c}
  /\ late' = [late EXCEPT ![c] = @ \cup follow[c]]
  /\ follow' = [follow EXCEPT ![c] = {}]
  /\ pushed' = [pushed EXCEPT ![c] = {}]
  /\ UNCHANGED <<inbound, beat, frozen, host, history>>

\* The 500 ms follow-up poller of an open query finds a slash command: it
\* leaves the rows pending and aborts the stream.
AbortForCommand(c) ==
  /\ phase[c] = "query"
  /\ c \notin frozen \cup aborted
  /\ follow[c] = {}
  /\ \E m \in Pending : Command(m)
  /\ aborted' = aborted \cup {c}
  /\ UNCHANGED <<inbound, ack, beat, phase, frozen, batch, answered, follow, late,
                 pushed, host, history>>

\* It finds follow-ups: it claims them, then awaits their script gates.
FollowUp(c) ==
  /\ phase[c] = "query"
  /\ c \notin frozen \cup aborted
  /\ follow[c] = {}
  /\ ~ \E m \in Pending : Command(m)
  /\ Engages(Takeable)
  /\ ack' = Acked(Takeable, "processing")
  /\ beat' = beat \ Takeable
  /\ follow' = [follow EXCEPT ![c] = Takeable]
  /\ owed' = owed \ Takeable
  /\ takes' = Counted(Takeable)
  /\ UNCHANGED <<inbound, phase, frozen, batch, answered, aborted, late, pushed,
                 host, faults, served, misled>>

\* The gates returned while the query is open: what is kept is pushed into it
\* and acked completed.
Push(c) ==
  /\ c \notin frozen
  /\ follow[c] # {}
  /\ \E gated \in SUBSET Tasks(follow[c]) : \E broken \in SUBSET (Tasks(follow[c]) \ gated) :
       /\ ack' = [m \in Messages |-> IF m \in broken THEN "error"
                                     ELSE IF m \in follow[c] THEN "completed" ELSE ack[m]]
       /\ pushed' = [pushed EXCEPT ![c] = @ \cup (follow[c] \ (gated \cup broken))]
  /\ served' = served \cup follow[c]
  /\ follow' = [follow EXCEPT ![c] = {}]
  /\ UNCHANGED <<inbound, beat, phase, frozen, batch, answered, aborted, late,
                 host, faults, owed, takes, misled>>

\* They returned after the query was done: what is kept stays claimed.
Strand(c) ==
  /\ Runs(c)
  /\ late[c] # {}
  /\ \E gated \in SUBSET Tasks(late[c]) : \E broken \in SUBSET (Tasks(late[c]) \ gated) :
       /\ ack' = [m \in Messages |-> IF m \in gated THEN "completed"
                                     ELSE IF m \in broken THEN "error" ELSE ack[m]]
       /\ served' = served \cup gated \cup broken
  /\ late' = [late EXCEPT ![c] = {}]
  /\ UNCHANGED <<inbound, beat, phase, frozen, batch, answered, aborted, follow,
                 pushed, host, faults, owed, takes, misled>>

\* An MCP tool call in the open query takes the answer it polls for.
TakeAnswer(c, m) ==
  /\ phase[c] = "query"
  /\ c \notin frozen
  /\ Kind[m] = "system"
  /\ status[m] = "pending" /\ ack[m] = "none"
  /\ ack' = [ack EXCEPT ![m] = "completed"]
  /\ served' = served \cup {m}
  /\ UNCHANGED <<inbound, beat, container, host, faults, owed, takes, misled>>

-----------------------------------------------------------------------------
(* Deaths.                                                                 *)

\* The container exits by itself: a crash, OOM, the corruption exit.
Crash(c) ==
  /\ Live(c)
  /\ faults < MaxFaults
  /\ faults' = faults + 1
  /\ Dies(c)
  /\ UNCHANGED <<inbound, ack, beat, host, served, takes, misled>>

\* The agent hangs: the process lives, and nothing of it moves any more.
Freeze(c) ==
  /\ Runs(c)
  /\ faults < MaxFaults
  /\ faults' = faults + 1
  /\ frozen' = frozen \cup {c}
  /\ UNCHANGED <<inbound, ack, beat, phase, turn, host, served, owed, takes, misled>>

\* The terminal event reaches the host: finishAndResolve drops the entry.
Finish ==
  /\ tracked # NoContainer
  /\ ~Live(tracked)
  /\ tracked' = NoContainer
  /\ UNCHANGED <<inbound, ack, beat, container, waking, sweep, history>>

\* adoptRunningSessions: a live container is found again, if docker can list.
AdoptedBug(listed) == {NoContainer}  \* mutant: the host starts with no registry
Adopted(listed) ==
  IF listed /\ \E c \in Containers : Live(c)
  THEN {c \in Containers : Live(c)} ELSE {NoContainer}

\* The host dies and restarts; the containers go on meanwhile.
HostRestart ==
  /\ faults < MaxFaults
  /\ faults' = faults + 1
  /\ waking' = FALSE
  /\ sweep' = "idle"
  /\ \E listed \in BOOLEAN :
       /\ listed \/ RuntimeFaults
       /\ tracked' \in Adopted(listed)
       /\ misled' = (misled \/ ~listed)
  /\ UNCHANGED <<inbound, ack, beat, container, served, owed, takes>>

-----------------------------------------------------------------------------
(* The host sweep, for this session.                                       *)

\* syncProcessingAcks: a final ack ends a row that is not final yet.
SyncedBug ==                          \* mutant: any ack ends the row
  [m \in Messages |-> IF status[m] = "pending" /\ ack[m] # "none"
                      THEN "completed" ELSE status[m]]
Synced ==
  [m \in Messages |->
     IF status[m] # "pending" THEN status[m]
     ELSE IF ack[m] = "completed" THEN "completed"
     ELSE IF ack[m] = "error" THEN "failed" ELSE status[m]]

\* countDueMessages, after the sync: every kind counts.
DueWorkBug ==                         \* mutant: only rows without a process_after
  {m \in Messages : Synced[m] = "pending" /\ Trigger(m) /\ tries[m] = 0 /\ m \notin held}
DueWork == {m \in Messages : Synced[m] = "pending" /\ Trigger(m) /\ m \notin held}

\* resetStuckProcessingRows, on statuses `now`: each claim on a pending row
\* that is not waiting for an earlier retry is rescheduled, or failed at the
\* limit.  Then every claim is dropped.
ExhaustedEarly(m) == tries[m] + 1 >= MaxTries  \* mutant: one retry too few
ExhaustedLate(m)  == tries[m] > MaxTries       \* mutant: one retry too many
Exhausted(m)      == tries[m] >= MaxTries
AfterResetBug == ack                           \* mutant: the claims stay
AfterReset    == Acked(Claims, "none")

ResetStuck(now) ==
  LET stuck == {m \in Claims : now[m] = "pending" /\ m \notin held}
      spent == {m \in stuck : Exhausted(m)}
  IN  /\ status' = [m \in Messages |-> IF m \in spent THEN "failed" ELSE now[m]]
      /\ tries' = [m \in Messages |-> IF m \in stuck \ spent THEN tries[m] + 1 ELSE tries[m]]
      /\ held' = held \cup (stuck \ spent)
      /\ ack' = AfterReset
      /\ UNCHANGED rank

\* Due work and no container: the sweep wakes one and awaits it.
SweepWakes ==
  /\ sweep = "idle"
  /\ tracked = NoContainer
  /\ DueWork # {}
  /\ status' = Synced
  /\ waking' = TRUE
  /\ sweep' = "waking"
  /\ UNCHANGED <<rank, tries, held, ack, beat, container, tracked, history>>

\* The wake settled.  A container it started is left alone; a failed wake
\* leaves the crashed container's claims to the reset.
SweepWoke ==
  /\ sweep = "waking"
  /\ ~waking
  /\ sweep' = "idle"
  /\ IF tracked = NoContainer
     THEN ResetStuck(status)
     ELSE UNCHANGED <<inbound, ack>>
  /\ UNCHANGED <<beat, container, tracked, waking, history>>

\* Nothing is due and no container runs: the crashed container's cleanup.
SweepCleans ==
  /\ sweep = "idle"
  /\ tracked = NoContainer
  /\ DueWork = {}
  /\ ResetStuck(Synced)
  /\ UNCHANGED <<beat, container, host, history>>

\* A container runs and the SLA holds: the sweep only syncs.
SweepSyncs ==
  /\ sweep = "idle"
  /\ tracked # NoContainer
  /\ status' = Synced
  /\ UNCHANGED <<rank, tries, held, ack, beat, container, host, history>>

\* No event, and so no heartbeat, will come from c as things are.
Idle(c) ==
  /\ late[c] = {} /\ follow[c] = {} /\ pushed[c] = {}
  /\ phase[c] = "polling" \/ (phase[c] = "query" /\ c \in answered \ aborted)
  /\ ~Engages(Takeable)
  /\ phase[c] = "query" => ~ \E m \in Pending : Command(m)
Silent(c) == c \in frozen \/ Idle(c)

\* enforceRunningContainerSla: decideStuckAction finds a claim that outlived
\* its tolerance without a heartbeat, or no heartbeat for the ceiling's 30
\* minutes.  That time passes in any phase; only where c is not silent anyway
\* does the model count it as a fault.  `docker stop` runs to its end inside
\* killContainer, then the claims are reset.
SweepKills ==
  /\ sweep = "idle"
  /\ tracked # NoContainer
  /\ IF Silent(tracked) THEN UNCHANGED faults
                        ELSE faults < MaxFaults /\ faults' = faults + 1
  /\ IF Live(tracked) THEN Dies(tracked) ELSE UNCHANGED <<container, owed>>
  /\ ResetStuck(Synced)
  /\ UNCHANGED <<beat, host, served, takes, misled>>

\* The same with a docker that refuses the stop: the handle's stop() swallows
\* the error, the registry entry goes, the container does not.
SweepKillRefused ==
  /\ RuntimeFaults
  /\ sweep = "idle"
  /\ tracked # NoContainer
  /\ Live(tracked)
  /\ faults < MaxFaults
  /\ faults' = faults + 1
  /\ tracked' = NoContainer
  /\ misled' = TRUE
  /\ ResetStuck(Synced)
  /\ UNCHANGED <<beat, container, waking, sweep, served, owed, takes>>

-----------------------------------------------------------------------------
Turn(c) ==
  \/ Boot(c) \/ Poll(c) \/ Gate(c) \/ Result(c)
  \/ AbortForCommand(c) \/ FollowUp(c) \/ Push(c) \/ Strand(c)

Sweep == SweepWakes \/ SweepWoke \/ SweepCleans \/ SweepSyncs

Next ==
  \/ \E m \in Messages : Arrive(m) \/ Due(m)
  \/ \E c \in Containers :
       \/ Spawn(c) \/ Turn(c) \/ Heartbeat(c) \/ EndQuery(c) \/ Crash(c) \/ Freeze(c)
       \/ \E m \in Messages : TakeAnswer(c, m)
  \/ WakeFails \/ Finish \/ HostRestart
  \/ Sweep \/ SweepKills \/ SweepKillRefused

Spec == Init /\ [][Next]_vars

\* A container that is not frozen goes on with its turn, and an aborted stream
\* ends; a stream nobody aborted may stay open for ever.  The sweep comes
\* round, the heartbeat of a silent container grows old, spawns and terminal
\* events are not lost, and time passes.
FairQueue ==
  /\ \A c \in Containers : WF_vars(Turn(c)) /\ WF_vars(c \in aborted /\ EndQuery(c))
  /\ \A m \in Messages : WF_vars(Due(m))
  /\ WF_vars(\E c \in Containers : Spawn(c))
  /\ WF_vars(Finish)
  /\ WF_vars(Sweep)
  /\ WF_vars(tracked # NoContainer /\ Silent(tracked) /\ SweepKills)

FairSpec == Spec /\ FairQueue

-----------------------------------------------------------------------------
(* Safety.                                                                 *)

Final == {"completed", "error"}

\* A row is closed as completed only after an agent took it in, the runner
\* answered it or a script gated it, whatever died in between.
CompletedWasServed ==
  \A m \in Messages : "completed" \in {status[m], ack[m]} => m \in served

\* A row whose turn died before it produced a result is not closed as done by
\* any of the parties that clean up: it is claimed again, or fails.
OwedIsRetried ==
  \A m \in owed : status[m] # "completed" /\ ack[m] # "completed"

\* Nothing is closed behind the back of the one who sent it: what is completed
\* was served, and what a dead turn left is claimed again or fails.
Served == CompletedWasServed /\ OwedIsRetried

\* The session has one live container at a time, whatever docker refuses, fails
\* to list or fails to find, and however wakes, kills and restarts interleave.
SingleWorker ==
  \A c, d \in Containers : Live(c) /\ Live(d) => c = d

\* What a container has in hand stays claimed until the container itself
\* settles it: neither the sweep's reset nor a booting container takes a
\* claim away from one that lives, unless docker misled the host.
WorkersHoldTheirClaims ==
  ~misled =>
    \A c \in Containers :
      /\ Unfinished(c) \subseteq Claims
      /\ follow[c] \cup late[c] \subseteq Claims

\* One container works at a time, and what it holds stays its own.
ClaimsHeld == SingleWorker /\ WorkersHoldTheirClaims

\* A row pays at most one try per claim, however many sweeps, failed wakes and
\* host restarts look at what a dead container left; so one that no container
\* settled is given up only after it was taken up more than MaxTries times.
TriesPaidByClaims ==
  \A m \in Messages :
    /\ tries[m] <= takes[m]
    /\ status[m] = "failed" /\ ack[m] \notin Final => takes[m] > MaxTries

\* A settled row is never taken up again, although its status stays pending
\* until the next sweep and every cleanup runs over the same table.  What it
\* was settled as changes only after a refused stop: the row is claimed again
\* by the query that still has it, and settled once for each claim.
AckedNeverReplayed ==
  [][\A m \in Messages :
       ack[m] \in Final => ack'[m] \in Final /\ (~misled => ack'[m] = ack[m])]_vars

\* A row never overtakes an older one that wakes the agent too and is due: a
\* batch takes the older one along, whatever the cap cuts off.
NoOvertake ==
  [][\A m, q \in Messages :
       /\ ~misled
       /\ ack[m] = "none" /\ ack'[m] # "none" /\ Kind[m] # "system" /\ Trigger(m)
       /\ q \in Unclaimed /\ Kind[q] # "system" /\ Trigger(q) /\ rank[q] < rank[m]
       => ack'[q] # "none"]_vars

\* Context rows wake nobody and are taken up only beside a row that does, by
\* either poller and whatever the cap cuts off.
ContextRidesAlong ==
  [][\A q \in Messages :
       ~misled /\ Kind[q] = "context" /\ ack[q] = "none" /\ ack'[q] # "none"
       => \E m \in Takeable : Trigger(m) /\ ack'[m] # "none"]_vars

-----------------------------------------------------------------------------
(* What comments say and the code does not do.                             *)

\* host-sweep.ts: 'processing' rows a dead container left are reset "with
\* backoff + tries++".  So the next claim of such a row has a try on it.
CrashesCountTries ==
  [][\A m \in owed : m \notin owed' => tries[m] > 0]_vars

\* poll-loop.ts: messages claimed by a poller that finds the query done "get
\* released by the host's processing-claim sweep".  So no heartbeat may vouch
\* for a claim that no container has in hand.
StrandedClaimsAreStuck ==
  \A m \in Claims \cap beat :
    (\E c \in Containers : Live(c)) =>
      \E c \in Containers :
        \/ phase[c] = "booting"
        \/ m \in batch[c] \cup follow[c] \cup late[c]

-----------------------------------------------------------------------------
(* Liveness.                                                               *)

\* Every row that wakes the agent is settled in the end: served, or failed
\* after its retries.  (Answers are excepted: nobody may be waiting for one.)
Wanted(m) == Trigger(m) /\ Kind[m] # "system" /\ status[m] = "pending"
Settled(m) == status[m] \in {"completed", "failed"}
Settles == \A m \in Messages : Wanted(m) ~> Settled(m)
=============================================================================
