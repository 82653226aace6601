--------------------------- MODULE UpdateTransaction ---------------------------
(***************************************************************************)
(* One update of the installation (scripts/update/transaction.ts).         *)
(*                                                                         *)
(* The new version is merged and validated in a worktree; the cutover      *)
(* stops the service, copies the mutable files aside, resets the checkout  *)
(* and builds; a rollback undoes it.  What survives the tool is state.json,*)
(* rewritten at a few points only, so a crash leaves the checkout, the     *)
(* build, the files and the service between two of them, and the operator  *)
(* runs the next command on what state.json says.  The service itself may  *)
(* be started at any time; the upgrade marker (src/upgrade-state.ts)       *)
(* decides whether it runs.                                                *)
(***************************************************************************)
EXTENDS Naturals

CONSTANTS
  Migrations,   \* requirements of the new version
  MaxUpCrashes  \* bound: deaths of the tool

ASSUME UpdateConstants == MaxUpCrashes \in Nat

VARIABLES
  \* state.json
  upPhase,   \* phase; "none" before the file, "pruned" after it
  target,    \* targetHead: "none", "old" (the original commit) or "new"
  unmet,     \* requirements not succeeded
  captured,  \* service.active, or "unset"
  hasSnap,   \* snapshot is recorded
  \* the disk
  stage,     \* HEAD of the worktree: "none", "old", "new", "dirty"
  refs,      \* the backup branch and tag
  copy,      \* what the snapshot directory holds: "none", "partial", or files as they were
  head,      \* HEAD of the live checkout
  dist,      \* what is built there: "old", "new", "broken"
  files,     \* the mutable files: "old", "torn", or "new" once it ran on them
  marker,    \* upgrade-state.json: "old", "new", or "none" while torn
  \* the processes
  service,   \* "up" or "down"
  tool,      \* where the update command is; "idle"
  was,       \* service.active in the tool's memory
  \* bounds and history
  botched,   \* the tool died, or a step of an undoing failed
  relapsed,  \* a cutover was accepted over a recorded snapshot, or a finish half-way through a rollback
  upCrashes

stateFile == <<upPhase, target, unmet, captured, hasSnap>>
worktree == <<stage, refs>>
live == <<head, dist, files, marker>>
updateVars == <<stateFile, worktree, copy, live, service, tool, was, botched, relapsed, upCrashes>>

InitUpdate ==
  /\ upPhase = "none" /\ target = "none" /\ unmet = {} /\ captured = "unset" /\ hasSnap = FALSE
  /\ stage = "none" /\ refs = FALSE /\ copy = "none"
  /\ head = "old" /\ dist = "old" /\ files = "old" /\ marker = "old"
  /\ service \in {"up", "down"}
  /\ tool = "idle" /\ was = "down"
  /\ botched = FALSE /\ relapsed = FALSE /\ upCrashes = 0

\* isUpgradeCurrent, the tripwire of the service: the marker names the commit
\* of the checkout.
UpgradeCurrent == marker = head
\* A service that is started needs a build and goes through the tripwire.
Runnable == UpgradeCurrent /\ dist # "broken"

At(pc) == tool = pc
Goes(pc) == tool' = pc

-----------------------------------------------------------------------------
(* In the worktree. *)

\* prepareUpdate up to the first saveState: the state says prepared before
\* anything is merged.
Prepare ==
  /\ At("idle") /\ upPhase = "none"
  /\ stage' = "old" /\ refs' = TRUE
  /\ upPhase' = "prepared"
  /\ Goes("merge")
  /\ UNCHANGED <<target, unmet, captured, hasSnap, copy, live, service, was, botched, relapsed, upCrashes>>

\* refreshPreparedState, from a clean worktree.
RefreshPrepared ==
  /\ target' = stage'
  /\ unmet' = IF stage' = "new" THEN Migrations ELSE {}

MergeUpstream ==
  /\ At("merge")
  /\ \/ stage' = "new" /\ RefreshPrepared /\ UNCHANGED upPhase
     \/ stage' = "dirty" /\ upPhase' = "conflict" /\ UNCHANGED <<target, unmet>>
  /\ Goes("idle")
  /\ UNCHANGED <<captured, hasSnap, refs, copy, live, service, was, botched, relapsed, upCrashes>>

\* The operator resolves the conflict, or gives the merge up, or commits or
\* drops what a failed refresh left.
ResolveConflict ==
  /\ stage = "dirty"
  /\ stage' \in {"old", "new"}
  /\ UNCHANGED <<stateFile, refs, copy, live, service, tool, was, botched, relapsed, upCrashes>>

CleanStageBug == TRUE  \* mutant: the worktree is not looked at
CleanStage == stage \in {"old", "new"}

ResumePrepared ==
  /\ At("idle") /\ upPhase \in {"conflict", "prepared"} /\ CleanStage
  /\ upPhase' = "prepared"
  /\ UNCHANGED stage /\ RefreshPrepared
  /\ UNCHANGED <<captured, hasSnap, refs, copy, live, service, tool, was, botched, relapsed, upCrashes>>

\* Skills are refreshed and committed, the state is prepared again, and the
\* checks pass or not; a refresh that fails leaves what it wrote.
Validate ==
  /\ At("idle") /\ upPhase \in {"prepared", "validated"} /\ CleanStage
  /\ \/ upPhase' \in {"prepared", "validated"} /\ UNCHANGED stage /\ RefreshPrepared
     \/ stage' = "dirty" /\ UNCHANGED <<upPhase, target, unmet>>
  /\ UNCHANGED <<captured, hasSnap, refs, copy, live, service, tool, was, botched, relapsed, upCrashes>>

-----------------------------------------------------------------------------
(* The cutover. *)

\* detectService and stopService; a stop that fails ends the command.
StopForCutover ==
  /\ At("idle") /\ upPhase = "validated" /\ target # "none" /\ head = "old"
  /\ was' = service
  /\ relapsed' = (relapsed \/ hasSnap)
  /\ \/ service' = "down" /\ Goes("drain")
     \/ UNCHANGED <<service, tool>>
  /\ UNCHANGED <<stateFile, worktree, copy, live, botched, upCrashes>>

\* A failure before the snapshot is recorded: the service is started again, if
\* it can be; a snapshot of an earlier cutover is rolled back to.
CutoverFails == Goes(IF hasSnap THEN "undo" ELSE "restart") /\ captured' = was

\* The last containers end, and there is room for the snapshot.
DrainContainers ==
  /\ At("drain")
  /\ (Goes("copy") /\ UNCHANGED captured) \/ CutoverFails
  /\ UNCHANGED <<upPhase, target, unmet, hasSnap, worktree, copy, live, service, was, botched, relapsed, upCrashes>>

CopyBegins ==
  /\ At("copy")
  /\ copy' = "partial"
  /\ Goes("copying")
  /\ UNCHANGED <<stateFile, worktree, live, service, was, botched, relapsed, upCrashes>>

CopyEnds ==
  /\ At("copying")
  /\ \/ copy' = files /\ hasSnap' = TRUE /\ captured' = was /\ Goes("reset")
     \/ CutoverFails /\ UNCHANGED <<copy, hasSnap>>
  /\ UNCHANGED <<upPhase, target, unmet, worktree, live, service, was, botched, relapsed, upCrashes>>

RestartService ==
  /\ At("restart")
  /\ \/ service' = (IF was = "up" /\ Runnable THEN "up" ELSE service) /\ UNCHANGED botched
     \/ UNCHANGED service /\ botched' = TRUE
  /\ Goes("idle")
  /\ UNCHANGED <<stateFile, worktree, copy, live, was, relapsed, upCrashes>>

ResetToTarget ==
  /\ At("reset")
  /\ \/ head' = target /\ Goes("build")
     \/ UNCHANGED head /\ Goes("undo")
  /\ UNCHANGED <<stateFile, worktree, copy, dist, files, marker, service, was, botched, relapsed, upCrashes>>

\* installAndBuild leaves a build of its own in any case.
BuildTarget ==
  /\ At("build")
  /\ dist' = "broken"
  /\ Goes("building")
  /\ UNCHANGED <<stateFile, worktree, copy, head, files, marker, service, was, botched, relapsed, upCrashes>>

TargetBuilt ==
  /\ At("building")
  /\ \/ dist' = head /\ upPhase' = "cutover" /\ Goes("idle")
     \/ Goes("undo") /\ UNCHANGED <<dist, upPhase>>
  /\ UNCHANGED <<target, unmet, captured, hasSnap, worktree, copy, head, files, marker, service, was, botched, relapsed, upCrashes>>

-----------------------------------------------------------------------------
(* The rollback: of a failed cutover, of a failed finish, or ordered. *)

RollbackCommand ==
  /\ At("idle") /\ hasSnap
  /\ was' = captured
  /\ Goes("undo")
  /\ UNCHANGED <<stateFile, worktree, copy, live, service, botched, relapsed, upCrashes>>

\* stopService acts on the handle of the cutover: what was not active then is
\* not stopped now, and what has stopped already makes launchd and nohup fail.
StoppedBug == service  \* mutant: nothing is stopped
Stopped == IF was = "up" THEN "down" ELSE service
StopForRollback ==
  /\ At("undo")
  /\ \/ service' = Stopped /\ Goes("unreset") /\ UNCHANGED botched
     \/ was = "up" /\ Goes("idle") /\ botched' = TRUE /\ UNCHANGED service
  /\ UNCHANGED <<stateFile, worktree, copy, live, was, relapsed, upCrashes>>

ResetToOriginalBug ==  \* mutant: the files are not restored
  /\ At("unreset")
  /\ head' = "old"
  /\ Goes("rebuild")
  /\ UNCHANGED <<stateFile, worktree, copy, dist, files, marker, service, was, botched, relapsed, upCrashes>>
ResetToOriginal ==
  /\ At("unreset")
  /\ head' = "old"
  /\ Goes("restore")
  /\ UNCHANGED <<stateFile, worktree, copy, dist, files, marker, service, was, botched, relapsed, upCrashes>>

\* Each path is removed, then copied back.
RestoreBegins ==
  /\ At("restore")
  /\ files' = "torn" /\ marker' = "none"
  /\ Goes("restoring")
  /\ UNCHANGED <<stateFile, worktree, copy, head, dist, service, was, botched, relapsed, upCrashes>>

RestoreEnds ==
  /\ At("restoring")
  /\ files' = IF copy = "partial" THEN "torn" ELSE copy
  /\ marker' = IF files' = "torn" THEN "none" ELSE "old"
  /\ Goes("rebuild")
  /\ UNCHANGED <<stateFile, worktree, copy, head, dist, service, was, botched, relapsed, upCrashes>>

Rebuild ==
  /\ At("rebuild")
  /\ \/ dist' = head /\ Goes("resume") /\ UNCHANGED botched
     \/ dist' = "broken" /\ Goes("idle") /\ botched' = TRUE
  /\ UNCHANGED <<stateFile, worktree, copy, head, files, marker, service, was, relapsed, upCrashes>>

\* Started and found healthy, or the state stays what it was.
ResumeService ==
  /\ At("resume")
  /\ service' = IF was = "up" /\ Runnable THEN "up" ELSE service
  /\ \/ (was = "up" => Runnable) /\ upPhase' = "rolledback" /\ UNCHANGED botched
     \/ was = "up" /\ botched' = TRUE /\ UNCHANGED upPhase
  /\ Goes("idle")
  /\ UNCHANGED <<target, unmet, captured, hasSnap, worktree, copy, live, was, relapsed, upCrashes>>

-----------------------------------------------------------------------------
(* After the cutover. *)

Acknowledge(r) ==
  /\ At("idle") /\ upPhase = "cutover"
  /\ unmet' \in {unmet \ {r}, unmet \cup {r}}
  /\ UNCHANGED <<upPhase, target, captured, hasSnap, worktree, copy, live, service, tool, was, botched, relapsed, upCrashes>>

\* finishUpdate: the marker first, then the service.
StampMarker ==
  /\ At("idle") /\ upPhase = "cutover" /\ unmet = {}
  /\ was' = captured /\ target' = head
  /\ \/ marker' = head /\ Goes("start")
     \/ UNCHANGED marker /\ Goes("undo")
  /\ relapsed' = (relapsed \/ head # target \/ dist # head \/ files = "torn")
  /\ UNCHANGED <<upPhase, unmet, captured, hasSnap, worktree, copy, head, dist, files, service, botched, upCrashes>>

\* Healthy or not; a service that was not running is not started.
StartUpdated ==
  /\ At("start")
  /\ IF was = "up" /\ Runnable
     THEN service' = "up" /\ files' = IF dist = "new" THEN "new" ELSE files
     ELSE UNCHANGED <<service, files>>
  /\ \/ (was = "up" => Runnable) /\ upPhase' = "complete" /\ Goes("idle")
     \/ was = "up" /\ UNCHANGED upPhase /\ Goes("undo")
  /\ UNCHANGED <<target, unmet, captured, hasSnap, worktree, copy, head, dist, marker, was, botched, relapsed, upCrashes>>

Cleanup ==
  /\ At("idle") /\ upPhase \in {"complete", "rolledback"}
  /\ stage' = "none"
  /\ UNCHANGED <<stateFile, refs, copy, live, service, tool, was, botched, relapsed, upCrashes>>

Abandon ==
  /\ At("idle") /\ upPhase \in {"conflict", "prepared", "validated"}
  /\ stage' = "none" /\ refs' = FALSE
  /\ upPhase' = "abandoned"
  /\ UNCHANGED <<target, unmet, captured, hasSnap, copy, live, service, tool, was, botched, relapsed, upCrashes>>

\* pruneTransactions on behalf of a later update.
Terminal == {"complete", "rolledback", "abandoned"}
Prune ==
  /\ At("idle") /\ upPhase \in Terminal
  /\ upPhase' = "pruned" /\ hasSnap' = FALSE
  /\ stage' = "none" /\ refs' = FALSE /\ copy' = "none"
  /\ UNCHANGED <<target, unmet, captured, live, service, tool, was, botched, relapsed, upCrashes>>

-----------------------------------------------------------------------------
(* The service and the operator. *)

\* The service is started by hand or by a reboot, while no command runs.  Its version migrates the files.
ServiceStarts ==
  /\ At("idle") /\ service = "down"
  /\ Runnable
  /\ service' = "up"
  /\ files' = IF dist = "new" THEN "new" ELSE files
  /\ UNCHANGED <<stateFile, worktree, copy, head, dist, marker, tool, was, botched, relapsed, upCrashes>>

ToolDies ==
  /\ upCrashes < MaxUpCrashes
  /\ ~At("idle")
  /\ upCrashes' = upCrashes + 1
  /\ Goes("idle")
  /\ botched' = TRUE
  /\ UNCHANGED <<stateFile, worktree, copy, live, service, was, relapsed>>

ToolStep ==
  \/ MergeUpstream
  \/ DrainContainers \/ CopyBegins \/ CopyEnds \/ RestartService
  \/ ResetToTarget \/ BuildTarget \/ TargetBuilt
  \/ StopForRollback \/ ResetToOriginal \/ RestoreBegins \/ RestoreEnds \/ Rebuild \/ ResumeService
  \/ StartUpdated
NextUpdate ==
  \/ ToolStep
  \/ Prepare \/ ResolveConflict \/ ResumePrepared \/ Validate \/ StopForCutover
  \/ RollbackCommand \/ (\E r \in Migrations : Acknowledge(r)) \/ StampMarker
  \/ Cleanup \/ Abandon \/ Prune
  \/ ServiceStarts \/ ToolDies

\* A command that was started goes on; the operator need not start any.
FairUpdate == WF_updateVars(ToolStep)
UpdateSpec == InitUpdate /\ [][NextUpdate]_updateVars /\ FairUpdate

-----------------------------------------------------------------------------
(* Properties. *)

\* The values of every variable.
UpTypeOK ==
  /\ upPhase \in {"none", "conflict", "prepared", "validated", "cutover", "complete", "rolledback", "abandoned", "pruned"}
  /\ target \in {"none", "old", "new"} /\ unmet \subseteq Migrations
  /\ captured \in {"unset", "up", "down"} /\ hasSnap \in BOOLEAN
  /\ stage \in {"none", "old", "new", "dirty"} /\ refs \in BOOLEAN /\ copy \in {"none", "partial", "old", "torn", "new"}
  /\ head \in {"old", "new"} /\ dist \in {"old", "new", "broken"}
  /\ files \in {"old", "torn", "new"} /\ marker \in {"old", "new", "none"}
  /\ service \in {"up", "down"} /\ was \in {"up", "down"} /\ botched \in BOOLEAN /\ upCrashes \in 0 .. MaxUpCrashes

\* The old version never runs on files the new one has migrated: the marker is
\* among the files, so every half-way point of a rollback stops the service at
\* the tripwire (transaction.ts:412-428, upgrade-state.ts:91-101).
OldNeverOnNew == service = "up" /\ dist = "old" => files # "new"

\* No files are replaced under a running service, unless the service was not
\* running at the cutover: then the rollback does not stop what the operator
\* has started since (service.ts:131-132).  A finish that is accepted although
\* a rollback died half-way stamps the torn files and starts on them.
RestoredAtRest == files = "torn" => service = "down" \/ captured = "down" \/ relapsed

\* Whenever the live checkout or its files are not the original ones, a
\* rollback has what it needs.  It may not when a cutover was started again
\* over a recorded snapshot, or an update was abandoned after a cutover died.
Undoable ==
  (head = "new" \/ files # "old") /\ upPhase \notin {"abandoned", "pruned"} =>
    (hasSnap /\ copy = "old") \/ relapsed

UpdateSafety == OldNeverOnNew /\ RestoredAtRest /\ Undoable

\* A rollback that is reported has restored checkout, build, files and service.
RolledBackWhole ==
  [][upPhase' = "rolledback" /\ upPhase # "rolledback" =>
       /\ head = "old" /\ dist = "old"
       /\ files = "old" \/ relapsed
       /\ captured = "up" => service' = "up"]_updateVars

\* A cutover whose undoing works ends cut over, or with the old version as it
\* was: no failure of a step leaves the installation in between.
CutoverSettled ==
  \/ botched
  \/ tool = "idle" /\ upPhase = "cutover"
  \/ tool = "idle" /\ head = "old" /\ dist = "old" /\ (was = "up" => service = "up")
CutoverEnds == tool = "drain" ~> CutoverSettled

\* docs/skills-model.md:120-123, "Snapshot first, restore on failure": a
\* rollback that is reported has restored the mutable files.
RollbackRestores == [][upPhase' = "rolledback" /\ upPhase # "rolledback" => files = "old"]_updateVars
=============================================================================
