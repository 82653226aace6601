------------------------- MODULE ContainerRegistry -------------------------
(***************************************************************************)
(* Who runs a session's container: the host's registry of runtimes         *)
(* (src/container-runner.ts) over the session events hub                   *)
(* (src/drivers/session-events.ts) and the docker driver                   *)
(* (src/drivers/docker-driver.ts), with restarts that leave an on_wake row *)
(* (src/container-restart.ts), the sweep's kills and the adoption at       *)
(* startup.  One session; the sessions share nothing but the event stream. *)
(*                                                                         *)
(* Docker is a world of its own: containers exit, streams drop and         *)
(* commands fail without the host.  A step of the host is what it does     *)
(* between two awaits; a docker command it runs is synchronous.            *)
(***************************************************************************)
EXTENDS Naturals

CONSTANTS
  Runtimes,    \* identities of ActiveSessionRuntime objects, used again
  NoRuntime,   \* what `entry` holds while activeContainers has no entry
  MaxFaults    \* bound: deaths, refusals, failed reads and writes, full batches,
               \* host crashes

ASSUME RegistryAssumption ==
  /\ NoRuntime \notin Runtimes
  /\ MaxFaults \in Nat

VARIABLES
  \* docker
  box,        \* the container of the session's name: "none", "created",
              \* "running" or "exited", which --rm is about to remove
  polled,     \* the running container has made its first poll
  attach,     \* `start --attach` of the latest handle: "none" for a handle
              \* without a spec, "pending", "starting", "attached", "exited"
  stream,     \* `docker events`: "off", "connecting", "up" or "down"
  hint,       \* a terminal event for the key is on its way to the hub
  \* the hub
  hub,        \* KeyState of the session's key
  stale,      \* a KeyState that was replaced awaits a status() that found the
              \* end ("gone") or that it will repeat ("recheck")
  \* the registry
  entry,      \* activeContainers
  phase,      \* of a runtime: "free", "active", "finishing" (it awaits
              \* markContainerStopped), "finished" or "dropped" by a failed start
  onExit,     \* runtimes with an exit callback that wakes the session
  stopping,   \* runtimes whose handle.stop() has not been answered
  wake,       \* wakePromises, by the runtime its spawnContainer will register
  respawn,    \* an exit callback is reading the session it will wake
  restart,    \* "written": a restart has written its row and kills next
  host,       \* "up", or the step of adoptRunningSessions
  \* the databases
  status,     \* sessions.container_status
  row,        \* the on_wake row: "none", "pending" or "taken"
  \* history
  faults,
  misled      \* the host lost a container that runs, or never started one

docker   == <<box, polled, attach, stream>>
events   == <<hub, stale>>
registry == <<entry, phase, onExit, stopping, wake, respawn>>
history  == <<faults, misled>>
vars     == <<docker, hint, events, registry, restart, host, status, row, history>>

NoKey   == [known |-> FALSE, armed |-> FALSE, intent |-> FALSE, fired |-> FALSE,
            pending |-> FALSE, read |-> "no", recheck |-> FALSE]
FreshKey == [NoKey EXCEPT !.known = TRUE]     \* trackPrepared

KeyStates == [known : BOOLEAN, armed : BOOLEAN, intent : BOOLEAN, fired : BOOLEAN,
              pending : BOOLEAN, read : {"no", "alive", "gone"}, recheck : BOOLEAN]

TypeOK ==
  /\ box \in {"none", "created", "running", "exited"}
  /\ polled \in BOOLEAN
  /\ attach \in {"none", "pending", "starting", "attached", "exited"}
  /\ stream \in {"off", "connecting", "up", "down"}
  /\ hint \in BOOLEAN
  /\ hub \in KeyStates
  /\ stale \in {"no", "recheck", "gone"}
  /\ entry \in Runtimes \cup {NoRuntime}
  /\ phase \in [Runtimes -> {"free", "active", "finishing", "finished", "dropped"}]
  /\ onExit \in SUBSET Runtimes
  /\ stopping \in SUBSET Runtimes
  /\ wake \in [Runtimes -> {"idle", "preparing", "prepared", "marking", "failed"}]
  /\ respawn \in BOOLEAN
  /\ restart \in {"idle", "written"}
  /\ host \in {"listing", "adopting", "marking", "resync", "up"}
  /\ status \in {"running", "stopped"}
  /\ row \in {"none", "pending", "taken"}
  /\ faults \in 0 .. MaxFaults
  /\ misled \in BOOLEAN

Init ==
  /\ box = "none" /\ polled = FALSE /\ attach = "none" /\ stream = "off"
  /\ hint = FALSE
  /\ hub = NoKey /\ stale = "no"
  /\ entry = NoRuntime
  /\ phase = [r \in Runtimes |-> "free"]
  /\ onExit = {} /\ stopping = {}
  /\ wake = [r \in Runtimes |-> "idle"]
  /\ respawn = FALSE
  /\ restart = "idle"
  /\ host = "up"
  /\ status = "stopped"
  /\ row = "none"
  /\ faults = 0 /\ misled = FALSE

Tracked == entry # NoRuntime
Closed  == ~hub.known \/ hub.fired \/ hub.intent  \* the hub fires no more
Fault   == faults < MaxFaults /\ faults' = faults + 1

\* The container is replaced by b ("exited" or "none"): what it had in hand is
\* to be taken up again, and docker announces the end if anyone listens.
Ends(b) ==
  /\ box' = b
  /\ polled' = FALSE
  /\ row' = IF row = "taken" THEN "pending" ELSE row
  /\ hint' = (hint \/ (box # "none" /\ stream = "up"))

-----------------------------------------------------------------------------
(* Docker.                                                                 *)

\* `docker start` starts a created container, or attaches to a running one.
BoxStarts ==
  /\ attach = "starting"
  /\ box \in {"created", "running"}
  /\ box' = "running"
  /\ attach' = "attached"
  /\ UNCHANGED <<polled, stream, hint, events, registry, restart, host, status, row, history>>

\* It is refused: for want of a container, because the container is about to
\* be removed, or by an error that removes a created one or leaves it.
StartRefused ==
  /\ attach = "starting"
  /\ \/ box \in {"none", "exited"} /\ UNCHANGED <<box, history>>
     \/ /\ box = "created"
        /\ Fault
        /\ box' \in {"none", "created"}
        /\ misled' = (misled \/ box' = "created")
  /\ attach' = "exited"
  /\ hint' = TRUE
  /\ UNCHANGED <<polled, stream, events, registry, restart, host, status, row>>

\* The container exits by itself, and --rm removes it some time later.
BoxExits ==
  /\ box = "running"
  /\ Fault
  /\ Ends("exited")
  /\ UNCHANGED <<attach, stream, events, registry, restart, host, status, misled>>

BoxRemoved ==
  /\ box = "exited"
  /\ Ends("none")
  /\ UNCHANGED <<attach, stream, events, registry, restart, host, status, history>>

\* The attach process exits after the container, and says so itself.
AttachExits ==
  /\ attach = "attached"
  /\ box # "running"
  /\ attach' = "exited"
  /\ hint' = TRUE
  /\ UNCHANGED <<box, polled, stream, events, registry, restart, host, status, row, history>>

\* The stream repeats itself, or an older handle's attach process exits late.
Replay ==
  /\ stream # "off"
  /\ ~hint
  /\ hint' = TRUE
  /\ UNCHANGED <<docker, events, registry, restart, host, status, row, history>>

\* The subscription takes effect some time after its process is started.
Subscribed ==
  /\ stream = "connecting"
  /\ stream' = "up"
  /\ UNCHANGED <<box, polled, attach, hint, events, registry, restart, host, status, row, history>>

StreamDrops ==
  /\ stream \in {"connecting", "up"}
  /\ Fault
  /\ stream' = "down"
  /\ UNCHANGED <<box, polled, attach, hint, events, registry, restart, host, status, row, misled>>

\* connectWatch again, and reconcileWatchGap: a container the list no longer
\* shows alive is hinted, if there is a list.
Reconnect ==
  /\ stream = "down"
  /\ stream' = "connecting"
  /\ \/ hint' = (hint \/ box \in {"none", "exited"}) /\ UNCHANGED faults
     \/ Fault /\ UNCHANGED hint
  /\ UNCHANGED <<box, polled, attach, events, registry, restart, host, status, row, misled>>

\* Another session arms its handle: the stream is the install's.
OtherArms ==
  /\ stream = "off"
  /\ stream' = "connecting"
  /\ UNCHANGED <<box, polled, attach, hint, events, registry, restart, host, status, row, history>>

-----------------------------------------------------------------------------
(* The container: its first poll takes the on_wake row, and later none.    *)

FirstPoll ==
  /\ box = "running" /\ ~polled
  /\ polled' = TRUE
  /\ \/ /\ row' = IF row = "pending" THEN "taken" ELSE row
        /\ UNCHANGED faults
     \/ row = "pending" /\ Fault /\ UNCHANGED row     \* older rows fill the batch
  /\ UNCHANGED <<box, attach, stream, hint, events, registry, restart, host, status, misled>>

RowDone ==
  /\ row = "taken"
  /\ row' = "none"
  /\ UNCHANGED <<docker, hint, events, registry, restart, host, status, history>>

-----------------------------------------------------------------------------
(* The registry.                                                           *)

\* finishAndResolve: the session's runtime, if it is not finished yet, starts
\* to finish.  It is looked up by session id.
FinishAndResolveBug ==    \* mutant: the entry goes before the status is written
  /\ phase' = [r \in Runtimes |-> IF r = entry /\ phase[r] = "active" THEN "finishing" ELSE phase[r]]
  /\ entry' = NoRuntime
FinishAndResolve ==
  /\ phase' = [r \in Runtimes |-> IF r = entry /\ phase[r] = "active" THEN "finishing" ELSE phase[r]]
  /\ entry' = entry

\* finish: markContainerStopped, which may fail.
FinishWrites(r) ==
  /\ phase[r] = "finishing"
  /\ phase' = [phase EXCEPT ![r] = "finished"]
  /\ \/ status' = "stopped" /\ UNCHANGED faults
     \/ Fault /\ UNCHANGED status
  /\ UNCHANGED <<docker, hint, events, entry, onExit, stopping, wake, respawn,
                 restart, host, row, misled>>

\* finish, after it: the entry goes, then the callbacks run.
FinishDrops(r) ==
  /\ phase[r] = "finished"
  /\ phase' = [phase EXCEPT ![r] = "free"]
  /\ entry' = IF entry = r THEN NoRuntime ELSE entry
  /\ respawn' = (respawn \/ r \in onExit)
  /\ onExit' = onExit \ {r}
  /\ UNCHANGED <<docker, hint, events, stopping, wake, restart, host, status, row, history>>

\* killContainer.  `docker stop` has run to its end when it returns; if it is
\* refused the handle kills the attach process and reports nothing.
KillContainer(calls, refused) ==
  /\ Tracked
  /\ onExit' = IF calls THEN onExit \cup {entry} ELSE onExit
  /\ hub' = [hub EXCEPT !.intent = TRUE]
  /\ stopping' = stopping \cup {entry}
  /\ IF refused
     THEN /\ box # "none"
          /\ misled' = (misled \/ box = "running")
          /\ attach' = IF attach \in {"starting", "attached"} THEN "exited" ELSE attach
          /\ hint' = (hint \/ attach' # attach)
          /\ UNCHANGED <<box, polled, row>>
     ELSE Ends("none") /\ UNCHANGED <<attach, misled>>
  /\ UNCHANGED <<stream, stale, entry, phase, wake, respawn, host, status>>

\* stop() is answered, and the runtime finished unless it has been.
KillSettles(r) ==
  /\ r \in stopping
  /\ stopping' = stopping \ {r}
  /\ \/ phase[r] = "active" /\ FinishAndResolve
     \/ /\ phase[r] = "dropped"
        /\ phase' = [q \in Runtimes |->
                       IF q = r THEN "free"
                       ELSE IF q = entry /\ phase[q] = "active" THEN "finishing" ELSE phase[q]]
        /\ UNCHANGED entry
     \/ phase[r] \in {"free", "finishing", "finished"} /\ UNCHANGED <<entry, phase>>
  /\ UNCHANGED <<docker, hint, events, onExit, wake, respawn, restart, host, status, row, history>>

\* wakeContainer, where it spawns: nothing runs and no wake is in flight.
NoWakeBug == TRUE                       \* mutant: wakes are not deduplicated
NoWake    == \A q \in Runtimes : wake[q] = "idle"
Free(r)   == phase[r] = "free" /\ wake[r] = "idle" /\ r \notin stopping

CanSpawn(r) == ~Tracked /\ NoWake /\ Free(r)

WakeContainer(r) ==
  /\ host = "up"
  /\ CanSpawn(r)
  /\ wake' = [wake EXCEPT ![r] = "preparing"]
  /\ UNCHANGED <<docker, hint, events, entry, phase, onExit, stopping, respawn,
                 restart, host, status, row, history>>

\* spawnContainer up to prepare, which may create a container or find the one
\* there is; the hub starts a new KeyState, and the old one, if it awaits a
\* status(), keeps its callback.
Prepare(r) ==
  /\ wake[r] = "preparing"
  /\ wake' = [wake EXCEPT ![r] = "prepared"]
  /\ box' = IF box = "none" THEN "created" ELSE box
  /\ attach' = IF box = "none" THEN "pending" ELSE "none"
  /\ hub' = FreshKey
  /\ stale' = IF Closed \/ ~hub.armed THEN stale
              ELSE IF hub.read = "gone" THEN "gone"
              ELSE IF hub.recheck /\ stale = "no" THEN "recheck" ELSE stale
  /\ UNCHANGED <<polled, stream, hint, entry, phase, onExit, stopping, respawn,
                 restart, host, status, row, history>>

\* It fails: before docker is asked, in docker, or because the look for the
\* name failed, `docker create` was refused for it and its cleanup removed the
\* container that bears it.
WakeFails(r) ==
  /\ wake[r] = "preparing"
  /\ Fault
  /\ wake' = [wake EXCEPT ![r] = "idle"]
  /\ \/ UNCHANGED <<box, polled, row, hint>>
     \/ Ends("none")
  /\ UNCHANGED <<attach, stream, events, entry, phase, onExit, stopping, respawn,
                 restart, host, status, misled>>

\* registerRuntime, onTerminal and start, without an await between them.  A
\* terminal the hub has kept is delivered in the next microtask.
Start(r) ==
  /\ wake[r] = "prepared"
  /\ wake' = [wake EXCEPT ![r] = "marking"]
  /\ entry' = r
  /\ phase' = [phase EXCEPT ![r] = IF hub.pending THEN "finishing" ELSE "active"]
  /\ hub' = [hub EXCEPT !.armed = TRUE, !.pending = FALSE]
  /\ stream' = IF stream = "off" THEN "connecting" ELSE stream
  /\ attach' = "starting"
  /\ UNCHANGED <<box, polled, hint, stale, onExit, stopping, respawn,
                 restart, host, status, row, history>>

\* afterStart: markContainerRunning, and the wake is over.
Marked(r) ==
  /\ wake[r] = "marking"
  /\ wake' = [wake EXCEPT ![r] = "idle"]
  /\ status' = "running"
  /\ UNCHANGED <<docker, hint, events, entry, phase, onExit, stopping, respawn,
                 restart, host, row, history>>

\* markContainerRunning fails: the entry goes although the container runs,
\* unless the runtime is finishing, whose end the wake then awaits.
MarkFails(r) ==
  /\ wake[r] = "marking"
  /\ Fault
  /\ IF entry = r /\ phase[r] = "active"
     THEN /\ entry' = NoRuntime
          /\ phase' = [phase EXCEPT ![r] = IF r \in stopping THEN "dropped" ELSE "free"]
          /\ onExit' = onExit \ {r}
          /\ wake' = [wake EXCEPT ![r] = "idle"]
          /\ misled' = TRUE
     ELSE /\ wake' = [wake EXCEPT ![r] = "failed"]
          /\ UNCHANGED <<entry, phase, onExit, misled>>
  /\ UNCHANGED <<docker, hint, events, stopping, respawn, restart, host, status, row>>

\* finishedPromise resolves, and the failed wake is over.
FailedEnds(r) ==
  /\ wake[r] = "failed"
  /\ phase[r] = "free"
  /\ wake' = [wake EXCEPT ![r] = "idle"]
  /\ UNCHANGED <<docker, hint, events, entry, phase, onExit, stopping, respawn,
                 restart, host, status, row, history>>

\* An exit callback has the session and wakes it; if it finds an entry, or a
\* wake in flight, it leaves it at that.
Respawn ==
  /\ respawn
  /\ respawn' = FALSE
  /\ wake' \in IF \E r \in Runtimes : CanSpawn(r)
               THEN {[wake EXCEPT ![r] = "preparing"] : r \in {q \in Runtimes : CanSpawn(q)}}
               ELSE {wake}
  /\ UNCHANGED <<docker, hint, events, entry, phase, onExit, stopping,
                 restart, host, status, row, history>>

-----------------------------------------------------------------------------
(* The hub.                                                                *)

\* status(): inspect, if it `finds` the container, or what the handle knows.
\* While an attach process has not exited the handle does not call it an end.
TruthBug(finds) == "gone"               \* mutant: the event is taken at its word
Truth(finds) ==
  IF finds THEN IF box = "exited" THEN "gone" ELSE "alive"
  ELSE IF attach \in {"pending", "starting", "attached"} THEN "alive" ELSE "gone"

\* A truth read, which sees the container as it is when it starts.
ReadStatus ==
  \/ /\ hub' = [hub EXCEPT !.read = Truth(box # "none"), !.recheck = FALSE]
     /\ UNCHANGED history
  \/ /\ box # "none"
     /\ Fault
     /\ hub' = [hub EXCEPT !.read = Truth(FALSE), !.recheck = FALSE]
     /\ misled' = (misled \/ (box # "exited" /\ Truth(FALSE) = "gone"))

\* onEvent and verify: a hint that finds a read in flight queues one more.
QueuedBug == hub                        \* mutant: it is dropped
Queued    == [hub EXCEPT !.recheck = TRUE]

Hinted ==
  /\ hint
  /\ hint' = FALSE
  /\ IF Closed THEN UNCHANGED <<hub, history>>
     ELSE IF hub.read # "no" THEN hub' = Queued /\ UNCHANGED history
     ELSE ReadStatus
  /\ UNCHANGED <<docker, stale, registry, restart, host, status, row>>

\* verify, after its read: deliver an end, once and unless the host asked for
\* it; keep it for a callback that is not there yet.
Verified ==
  /\ hub.read = "gone"
  /\ hub' = [hub EXCEPT !.read = "no", !.recheck = FALSE,
                        !.fired = hub.fired \/ ~hub.intent,
                        !.pending = hub.pending \/ ~(Closed \/ hub.armed)]
  /\ IF ~Closed /\ hub.armed THEN FinishAndResolve ELSE UNCHANGED <<entry, phase>>
  /\ UNCHANGED <<docker, hint, stale, onExit, stopping, wake, respawn,
                 restart, host, status, row, history>>

StillAlive ==
  /\ hub.read = "alive"
  /\ IF hub.recheck /\ ~Closed
     THEN ReadStatus
     ELSE hub' = [hub EXCEPT !.read = "no"] /\ UNCHANGED history
  /\ UNCHANGED <<docker, hint, stale, registry, restart, host, status, row>>

\* The status() of a KeyState that was replaced returns, or is repeated on the
\* old handle, and an end is delivered to the old callback.
StaleReturns ==
  /\ stale # "no"
  /\ stale' = "no"
  /\ \/ /\ stale = "gone" \/ box \in {"none", "exited"}
        /\ FinishAndResolve
     \/ stale = "recheck" /\ UNCHANGED <<entry, phase>>
  /\ UNCHANGED <<docker, hint, hub, onExit, stopping, wake, respawn,
                 restart, host, status, row, history>>

-----------------------------------------------------------------------------
(* Restarts and the sweep.                                                 *)

\* A restart writes its on_wake row ...
RestartWrites ==
  /\ host = "up"
  /\ restart = "idle"
  /\ row = "none"
  /\ restart' = "written"
  /\ row' = "pending"
  /\ UNCHANGED <<docker, hint, events, registry, host, status, history>>

\* ... and kills, with a callback that wakes.  The container may be gone.
RestartKills ==
  /\ restart = "written"
  /\ restart' = "idle"
  /\ \/ ~Tracked /\ UNCHANGED <<docker, hint, events, registry, status, row, history>>
     \/ KillContainer(TRUE, FALSE) /\ UNCHANGED faults
     \/ KillContainer(TRUE, TRUE) /\ Fault
  /\ UNCHANGED host

\* The sweep finds the row due and nothing running.
SweepWakesBug == FALSE                  \* mutant: on_wake rows are not counted as due
SweepWakes == row = "pending" /\ \E r \in Runtimes : WakeContainer(r)

\* Nothing beats: no container runs, or it is idle.
SilentBug == box = "running" /\ polled /\ row # "taken"  \* mutant: no file, no ceiling
Silent == attach # "starting" /\ (box # "running" \/ (polled /\ row # "taken"))

\* The ceiling.  It may fall at any time; the model counts it as a fault where
\* the container is not silent.
SweepKills ==
  /\ host = "up"
  /\ \/ KillContainer(FALSE, FALSE) /\ IF Silent THEN UNCHANGED faults ELSE Fault
     \/ KillContainer(FALSE, TRUE) /\ Fault
  /\ UNCHANGED restart

-----------------------------------------------------------------------------
(* The host's death, and adoptRunningSessions.                             *)

HostRestart ==
  /\ Fault
  /\ attach' = "none" /\ stream' = "off" /\ hint' = FALSE
  /\ hub' = NoKey /\ stale' = "no"
  /\ entry' = NoRuntime
  /\ phase' = [r \in Runtimes |-> "free"]
  /\ onExit' = {} /\ stopping' = {}
  /\ wake' = [r \in Runtimes |-> "idle"]
  /\ respawn' = FALSE
  /\ restart' = "idle"
  /\ host' = "listing"
  /\ UNCHANGED <<box, polled, status, row, misled>>

\* The list: what runs is tracked by the hub and adopted next, what does not
\* is stopped.  Without a list nobody is adopted.
AdoptLists ==
  /\ host = "listing"
  /\ \/ /\ box = "running"
        /\ hub' = FreshKey
        /\ host' = "adopting"
        /\ UNCHANGED <<box, polled, row, hint, history>>
     \/ /\ box # "running"
        /\ Ends("none")
        /\ hub' = NoKey
        /\ host' = "up"
        /\ UNCHANGED history
     \/ /\ Fault
        /\ IF box = "running" THEN UNCHANGED <<box, polled, row, hint>> ELSE Ends("none")
        /\ misled' = (misled \/ box = "running")
        /\ host' = "up"
        /\ UNCHANGED hub
  /\ UNCHANGED <<attach, stream, stale, registry, restart, status>>

\* registerRuntime and onTerminal, once the session's row has been read.
Adopt(r) ==
  /\ host = "adopting"
  /\ host' = "marking"
  /\ entry' = r
  /\ phase' = [phase EXCEPT ![r] = IF hub.pending THEN "finishing" ELSE "active"]
  /\ hub' = [hub EXCEPT !.armed = TRUE, !.pending = FALSE]
  /\ stream' = IF stream = "off" THEN "connecting" ELSE stream
  /\ UNCHANGED <<box, polled, attach, hint, stale, onExit, stopping, wake, respawn,
                 restart, status, row, history>>

\* markContainerRunning.
AdoptMarks ==
  /\ host = "marking"
  /\ host' = "resync"
  /\ status' = "running"
  /\ UNCHANGED <<docker, hint, events, registry, restart, row, history>>

\* reapResidue and the hub's resync: an end that nobody was told of is read
\* like a hinted one, if there is a list.
Resync ==
  /\ host = "resync"
  /\ host' = "up"
  /\ box' = IF box = "exited" THEN "none" ELSE box
  /\ \/ hint' = (hint \/ box # "running") /\ UNCHANGED faults
     \/ Fault /\ UNCHANGED hint
  /\ UNCHANGED <<polled, attach, stream, events, registry, restart, status, row, misled>>

-----------------------------------------------------------------------------
Spawning(r) == Prepare(r) \/ Start(r) \/ Marked(r) \/ FailedEnds(r)
Ending(r)   == FinishWrites(r) \/ FinishDrops(r)
Hub         == Hinted \/ Verified \/ StillAlive \/ StaleReturns
Adoption    == AdoptLists \/ (\E r \in Runtimes : Adopt(r)) \/ AdoptMarks \/ Resync

Next ==
  \/ BoxStarts \/ StartRefused \/ BoxExits \/ BoxRemoved \/ AttachExits
  \/ Replay \/ Subscribed \/ StreamDrops \/ Reconnect \/ OtherArms
  \/ FirstPoll \/ RowDone
  \/ \E r \in Runtimes :
       WakeContainer(r) \/ WakeFails(r) \/ Spawning(r) \/ MarkFails(r) \/ Ending(r) \/ KillSettles(r)
  \/ Respawn \/ Hub \/ RestartWrites \/ RestartKills \/ SweepKills
  \/ HostRestart \/ Adoption

Spec == Init /\ [][Next]_vars

\* What the host has begun goes on, a stop and a start are answered, --rm
\* removes, a container that boots polls and deals with its row, and the sweep
\* comes round.  Nothing is assumed of the event stream.
FairSpec ==
  /\ Spec
  /\ \A r \in Runtimes : WF_vars(Spawning(r)) /\ WF_vars(Ending(r)) /\ WF_vars(KillSettles(r))
  /\ WF_vars(BoxStarts \/ StartRefused) /\ WF_vars(BoxRemoved)
  /\ WF_vars(FirstPoll) /\ WF_vars(RowDone)
  /\ WF_vars(Respawn) /\ WF_vars(RestartKills) /\ WF_vars(Adoption)
  /\ WF_vars(Verified \/ StillAlive \/ StaleReturns)
  /\ WF_vars(SweepWakes)
  /\ WF_vars(Silent /\ SweepKills)

-----------------------------------------------------------------------------
(* Safety.                                                                 *)

\* registerRuntime never replaces an entry: a runtime that were replaced would
\* never be finished, nor its exit callbacks run.
NeverReplaced ==
  [][entry' # entry /\ entry' # NoRuntime => entry = NoRuntime]_vars

\* A container that runs is the registry's, or about to be, whatever the event
\* stream repeats, drops or delays, unless docker or the database failed the
\* host in a way that leaves a container behind.
LiveIsTracked ==
  box = "running" /\ host = "up" /\ ~misled => Tracked

\* A session whose container is up is among those the active delivery poll
\* lists by container_status, whatever finished late before it.
ListedForDelivery ==
  Tracked /\ phase[entry] = "active" /\ host = "up" /\ NoWake => status = "running"

\* A runtime this host started learns of its container's end: while the
\* registry holds it as active and the container is gone, the attach process
\* has still to exit, or its hint, a read that will see the end or the answer
\* to a stop is on the way.  No event of the stream is needed for it.
EndIsOnItsWay ==
  Tracked /\ phase[entry] = "active" /\ attach # "none" /\ box \in {"none", "exited"} =>
    \/ attach \in {"starting", "attached"}
    \/ hint \/ hub.read = "gone" \/ hub.recheck
    \/ entry \in stopping

-----------------------------------------------------------------------------
(* The inductive invariant behind them.                                    *)

Gone == box \in {"none", "exited"}

\* One wake at a time, and what it has found: no entry until it makes one.
OneWake ==
  \A r, q \in Runtimes : wake[r] # "idle" /\ wake[q] # "idle" => r = q

WakesKnow ==
  \A r \in Runtimes :
    /\ wake[r] \in {"preparing", "prepared"} =>
         ~Tracked /\ phase[r] = "free" /\ r \notin stopping
    /\ wake[r] \in {"marking", "failed"} => entry \in {r, NoRuntime}
    /\ wake[r] = "prepared" => hub.known /\ ~hub.armed /\ ~hub.intent

\* A runtime is on its way to its end, or the entry.
EntryIsLive ==
  \A r \in Runtimes :
    /\ entry = r <=> phase[r] \in {"active", "finishing", "finished"}
    /\ phase[r] = "dropped" => r \in stopping

\* While the host starts up nothing is woken, killed or restarted.
StartsAlone ==
  host # "up" =>
    /\ NoWake /\ stopping = {} /\ restart = "idle"
    /\ ~respawn /\ onExit = {}
    /\ attach = "none"
    /\ host \in {"listing", "adopting"} => ~Tracked
    /\ host = "adopting" => hub.known /\ ~hub.armed /\ ~hub.intent

\* The hub fires for the entry, once; an end it keeps is one it has fired.
KeyIsTheEntrys ==
  /\ hub.known \/ hub = NoKey
  /\ Tracked => hub.known /\ hub.armed /\ attach # "pending"
  /\ Tracked /\ phase[entry] = "active" =>
       ~hub.fired /\ (hub.intent => entry \in stopping)
  /\ ~hub.armed /\ hub.fired => hub.pending
  /\ hub.pending => hub.fired /\ ~hub.armed
  /\ Tracked /\ phase[entry] = "active" /\ attach = "exited" =>
       box # "running" \/ entry \in stopping

\* What the host holds for the end of a container is one, unless misled.
EndsAreTrue ==
  ~misled =>
    /\ stale = "no" /\ (\A r \in Runtimes : phase[r] # "dropped")
    /\ hub.fired \/ hub.read = "gone" => Gone
    /\ hub.armed /\ ~Closed => Tracked
    /\ Tracked /\ (phase[entry] # "active" \/ entry \in stopping) =>
         Closed /\ box # "running" /\ ~(box = "created" /\ attach = "starting")
    /\ box = "running" \/ (box = "created" /\ attach = "starting") =>
         Tracked \/ host \in {"listing", "adopting"}

RunningIsWritten ==
  Tracked /\ phase[entry] = "active" /\ host \in {"resync", "up"} /\ NoWake =>
    status = "running"

RInv ==
  /\ TypeOK
  /\ OneWake /\ WakesKnow /\ EntryIsLive /\ StartsAlone /\ KeyIsTheEntrys
  /\ EndsAreTrue /\ RunningIsWritten /\ EndIsOnItsWay

-----------------------------------------------------------------------------
(* Liveness.                                                               *)

\* The registry does not keep a dead container, however it was adopted and
\* whatever the stream lost: the sweep's ceiling is the last resort.
DeadIsDropped ==
  Tracked /\ box \in {"none", "exited"} ~> ~Tracked \/ box = "running"

\* The row a restart leaves is taken up and done, by a container that was
\* started for it or by a later one.
RestartIsHeard == row = "pending" ~> row = "none"
=============================================================================
