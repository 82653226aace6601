------------------------------ MODULE MigrateV2 ------------------------------
(* The move from version 1 (migrate-v2.sh, setup/migrate-v2,                  *)
(* migrate-v2-reset.sh): a script that goes through its steps whatever        *)
(* becomes of one of them, may be stopped and run again, and at the end may   *)
(* change over from one service to the other.  People use what it made        *)
(* between its runs and while it runs.  One key, file, skill and sign-in of   *)
(* the old installation, one chat and one task of it.  The services, the      *)
(* platform's API and the installers are external.                            *)
EXTENDS Naturals, Sequences

CONSTANTS MaxMgRuns, MaxMgEdits, MaxMgFaults   \* bounds

ASSUME MigrateAssumption == {MaxMgRuns, MaxMgEdits, MaxMgFaults} \subseteq Nat

VARIABLES
  at,        \* the step that is next, 0 when no run is under way
  chosen,    \* SELECTED_CHANNELS is not empty
  outcome,   \* STEP_STATUSES of the run, "" for none
  handoff,   \* overall_status of handoff.json
  copy,      \* what stands at the place of each thing that is copied
  policy,    \* unknown_sender_policy of the chat's group, "none" without a row
  wired,     \* the group is wired to its agent
  task,      \* the row of the task
  resumed,   \* the agents resume their conversations
  have,      \* what is installed
  old, new,  \* the services run
  mine,      \* history: things people changed and nobody removed since
  ported, dropped, \* history: how often the task was inserted, and removed
  served,    \* history: a service ran when the run began
  clung,     \* history: a stop was refused
  left,      \* history: a start was refused in this run, or its changeover cut short
  mgRuns, mgEdits, mgFaults

mgVars == <<at, chosen, outcome, handoff, copy, policy, wired, task, resumed, have, old,
            new, mine, ported, dropped, served, clung, left, mgRuns, mgEdits, mgFaults>>
dataVars == <<copy, policy, wired, task, resumed>>
serviceVars == <<old, new, served, clung, left>>
pastVars == <<mine, ported, dropped, mgRuns, mgEdits>>

Script == <<"env", "db", "groups", "sessions", "tasks", "auth", "install", "docker", "gateway",
           "credential", "skills", "image", "offer", "stop", "start", "keep", "back", "summary">>
Steps == {Script[i] : i \in DOMAIN Script}
At(s) == at > 0 /\ Script[at] = s
IndexOf(s) == CHOOSE i \in DOMAIN Script : Script[i] = s

MgTypeOK ==
  /\ at \in 0 .. Len(Script) /\ {chosen, wired, resumed, old, new, served, clung, left} \subseteq BOOLEAN
  /\ outcome \in [Steps -> {"", "success", "skipped", "failed"}]
  /\ handoff \in {"none", "success", "partial"}
  /\ copy \in [{"key", "file", "skill", "login"} -> {"none", "torn", "v1", "mine"}]
  /\ policy \in {"none", "asks", "public", "mine"} /\ task \in {"none", "there"}
  /\ have \subseteq {"adapter", "docker", "gateway", "credential", "image"}
  /\ mine \subseteq {"key", "file", "policy"} /\ ported \in 0 .. MaxMgRuns
  /\ dropped \in 0 .. MaxMgEdits
  /\ mgRuns \in 0 .. MaxMgRuns /\ mgEdits \in 0 .. MaxMgEdits /\ mgFaults \in 0 .. MaxMgFaults

NothingCopied == [x \in {"key", "file", "skill", "login"} |-> "none"]
NoOutcome == [s \in Steps |-> ""]

InitMigrate ==
  /\ at = 0 /\ chosen = FALSE /\ outcome = NoOutcome /\ handoff = "none"
  /\ copy = NothingCopied /\ policy = "none" /\ wired = FALSE /\ task = "none" /\ resumed = FALSE
  /\ have \in {{}, {"docker"}} /\ old \in BOOLEAN /\ new = FALSE
  /\ mine = {} /\ ported = 0 /\ dropped = 0 /\ served = FALSE /\ clung = FALSE /\ left = FALSE
  /\ mgRuns = MaxMgRuns /\ mgEdits = MaxMgEdits /\ mgFaults = MaxMgFaults

Faulty == mgFaults > 0 /\ mgFaults' = mgFaults - 1
FaultFree == UNCHANGED mgFaults

\* The next step, with what record_step notes of this one.
Goes(s, status) ==
  at' = at + 1 /\ outcome' = [outcome EXCEPT ![s] = status] /\ UNCHANGED handoff
Passes == at' = at + 1 /\ UNCHANGED <<outcome, handoff>>
Jumps(s) == at' = IndexOf(s) /\ UNCHANGED <<outcome, handoff>>

-----------------------------------------------------------------------------
(* Runs                                                                      *)

\* The prerequisites and the old installation are found.
Begin ==
  /\ at = 0 /\ mgRuns > 0 /\ mgRuns' = mgRuns - 1 /\ at' = 1
  /\ outcome' = NoOutcome /\ chosen' \in BOOLEAN
  /\ served' = (old \/ new) /\ left' = FALSE
  /\ UNCHANGED <<handoff, dataVars, have, old, new, clung, mine, ported, dropped, mgEdits, mgFaults>>

\* write_handoff, at every exit: a run that was stopped counts for what it did.
Overall == IF \E s \in Steps : outcome[s] = "failed" THEN "partial" ELSE "success"
Exits == at' = 0 /\ handoff' = Overall /\ UNCHANGED outcome
Summary ==
  /\ At("summary") /\ Exits
  /\ UNCHANGED <<chosen, dataVars, have, serviceVars, pastVars, mgFaults>>

\* A person stops the script; a file or a folder may be half written.
Stopped ==
  /\ at > 0 /\ Faulty /\ Exits
  /\ copy' \in {copy} \cup
       {[copy EXCEPT ![x] = "torn"] :
          x \in {y \in {"file", "skill"} : copy[y] = "none" /\ At(IF y = "file" THEN "groups" ELSE "skills")}}
  /\ left' = (left \/ At("start") \/ At("back"))
  /\ UNCHANGED <<chosen, policy, wired, task, resumed, have, old, new, served, clung, pastVars>>

-----------------------------------------------------------------------------
(* What is carried over                                                      *)

\* Only what is not there: env.ts, groups.ts, channel-auth.ts and the skills.
IfAbsent(x) == copy' = [copy EXCEPT ![x] = IF @ = "none" THEN "v1" ELSE @]

CopyEnv ==
  /\ At("env") /\ IfAbsent("key") /\ Goes("env", "success")
  /\ UNCHANGED <<chosen, policy, wired, task, resumed, have, serviceVars, pastVars, mgFaults>>

\* A group nobody has wired yet was made by the router: it is opened.
OpenPolicy == IF wired THEN policy ELSE "public"
SeedDb ==
  /\ At("db")
  /\ \/ /\ policy' = OpenPolicy /\ wired' = TRUE
        /\ Goes("db", "success") /\ FaultFree
     \/ /\ Faulty /\ Goes("db", "failed")       \* the platform did not say which chat it is
        /\ UNCHANGED <<policy, wired>>
     \/ /\ Faulty /\ Goes("db", "failed")   \* the wiring failed
        /\ policy' = OpenPolicy /\ UNCHANGED wired
  /\ UNCHANGED <<chosen, copy, task, resumed, have, serviceVars, pastVars>>

CopyGroups ==
  /\ At("groups") /\ IfAbsent("file") /\ Goes("groups", "success")
  /\ UNCHANGED <<chosen, policy, wired, task, resumed, have, serviceVars, pastVars, mgFaults>>

\* sessions.ts awaits in a main() that is not async: it does not compile.
CopySessions ==
  /\ At("sessions") /\ Goes("sessions", "failed")
  /\ UNCHANGED <<chosen, dataVars, have, serviceVars, pastVars, mgFaults>>

\* A task whose chat is not there is passed over, and so is one whose row is.
PortTasks ==
  /\ At("tasks") /\ Goes("tasks", "success")
  /\ IF policy # "none" /\ task = "none" THEN task' = "there" /\ ported' = ported + 1
     ELSE UNCHANGED <<task, ported>>
  /\ UNCHANGED <<chosen, copy, policy, wired, resumed, have, serviceVars, mine, dropped, mgRuns,
                 mgEdits, mgFaults>>

CopyAuth ==
  /\ At("auth")
  /\ IF chosen THEN IfAbsent("login") /\ Goes("auth", "success") ELSE UNCHANGED copy /\ Passes
  /\ UNCHANGED <<chosen, policy, wired, task, resumed, have, serviceVars, pastVars, mgFaults>>

CopySkills ==
  /\ At("skills") /\ IfAbsent("skill") /\ Passes
  /\ UNCHANGED <<chosen, policy, wired, task, resumed, have, serviceVars, pastVars, mgFaults>>

-----------------------------------------------------------------------------
(* What is installed                                                         *)

Installs(s, x) ==
  \/ have' = have \cup {x} /\ Goes(s, "success") /\ FaultFree
  \/ have' = have /\ Goes(s, "failed") /\ Faulty
Refused(s) == Goes(s, "failed") /\ FaultFree /\ UNCHANGED have
NotNeeded == Passes /\ FaultFree /\ UNCHANGED have

InstallAdapter ==
  /\ At("install")
  /\ IF ~chosen THEN NotNeeded
     ELSE IF "adapter" \in have THEN Goes("install", "skipped") /\ FaultFree /\ UNCHANGED have
     ELSE Installs("install", "adapter")
  /\ UNCHANGED <<chosen, dataVars, serviceVars, pastVars>>
InstallDocker ==
  /\ At("docker") /\ (IF "docker" \in have THEN NotNeeded ELSE Installs("docker", "docker"))
  /\ UNCHANGED <<chosen, dataVars, serviceVars, pastVars>>
InstallGateway ==
  /\ At("gateway")
  /\ IF "gateway" \in have THEN NotNeeded
     ELSE IF "docker" \in have THEN Installs("gateway", "gateway") ELSE Refused("gateway")
  /\ UNCHANGED <<chosen, dataVars, serviceVars, pastVars>>
AskCredential ==
  /\ At("credential")
  /\ IF "credential" \in have \/ "gateway" \notin have THEN NotNeeded
     ELSE Installs("credential", "credential")
  /\ UNCHANGED <<chosen, dataVars, serviceVars, pastVars>>
AcquireImage ==
  /\ At("image") /\ (IF "docker" \in have THEN Installs("image", "image") ELSE Refused("image"))
  /\ UNCHANGED <<chosen, dataVars, serviceVars, pastVars>>

-----------------------------------------------------------------------------
(* The changeover                                                            *)

\* A stop or a start, which may be refused; only a message says so.
StopsOld == \/ old' = FALSE /\ clung' = clung /\ FaultFree
            \/ old /\ old' = TRUE /\ clung' = TRUE /\ Faulty

\* disable_v1_service, when the old service does not run, and to keep the new.
Offer ==
  /\ At("offer") /\ UNCHANGED <<old, clung, mgFaults>>
  /\ Jumps("summary") \/ (old /\ Jumps("stop"))
  /\ UNCHANGED <<chosen, dataVars, have, new, served, left, pastVars>>
StopOld ==
  /\ At("stop") /\ StopsOld /\ Passes
  /\ UNCHANGED <<chosen, dataVars, have, new, served, left, pastVars>>
StartNew ==
  /\ At("start") /\ Passes
  /\ \/ new' = TRUE /\ FaultFree /\ UNCHANGED left
     \/ new' \in {new, TRUE} /\ left' = TRUE /\ Faulty
  /\ UNCHANGED <<chosen, dataVars, have, old, served, clung, pastVars>>
KeepNew ==
  /\ At("keep") /\ StopsOld /\ Jumps("summary")
  /\ UNCHANGED <<chosen, dataVars, have, new, served, left, pastVars>>
StopNew ==
  /\ At("keep") /\ Passes
  /\ \/ new' = FALSE /\ UNCHANGED clung /\ FaultFree
     \/ new /\ new' = TRUE /\ clung' = TRUE /\ Faulty
  /\ UNCHANGED <<chosen, dataVars, have, old, served, left, pastVars>>
StartOld ==
  /\ At("back") /\ Passes
  /\ \/ old' = TRUE /\ UNCHANGED left /\ FaultFree
     \/ old' = old /\ left' = TRUE /\ Faulty
  /\ UNCHANGED <<chosen, dataVars, have, new, served, clung, pastVars>>

-----------------------------------------------------------------------------
(* People, and the reset                                                     *)

Edits == mgEdits > 0 /\ mgEdits' = mgEdits - 1
Still == UNCHANGED <<at, chosen, outcome, handoff, resumed, have, serviceVars, ported, mgRuns, mgFaults>>
EditCopy(x) ==
  /\ Edits /\ copy[x] \in {"v1", "torn"} /\ copy' = [copy EXCEPT ![x] = "mine"]
  /\ mine' = mine \cup {x} /\ Still /\ UNCHANGED <<policy, wired, task, dropped>>
Tighten ==
  /\ Edits /\ wired /\ policy = "public" /\ policy' = "mine" /\ mine' = mine \cup {"policy"}
  /\ Still /\ UNCHANGED <<copy, wired, task, dropped>>
Unwire ==
  /\ Edits /\ wired /\ wired' = FALSE /\ mine' = mine \ {"policy"}
  /\ Still /\ UNCHANGED <<copy, policy, task, dropped>>
DropTask ==
  /\ Edits /\ task = "there" /\ task' = "none" /\ dropped' = dropped + 1
  /\ Still /\ UNCHANGED <<copy, policy, wired, mine>>
\* The router of the new host hears from the chat first.
RouterCreates ==
  /\ new /\ policy = "none" /\ policy' = "asks"
  /\ Still /\ UNCHANGED <<copy, wired, task, mine, dropped, mgEdits>>

Reset ==
  /\ at = 0 /\ Edits /\ copy' = NothingCopied /\ policy' = "none" /\ wired' = FALSE
  /\ task' = "none" /\ resumed' = FALSE /\ have' = have \ {"adapter", "credential"}
  /\ mine' = {} /\ dropped' = dropped + (IF task = "there" THEN 1 ELSE 0) /\ handoff' = "none"
  /\ UNCHANGED <<at, chosen, outcome, serviceVars, ported, mgRuns, mgFaults>>

NextMigrate ==
  \/ Begin \/ Stopped \/ Summary
  \/ CopyEnv \/ SeedDb \/ CopyGroups \/ CopySessions \/ PortTasks \/ CopyAuth \/ CopySkills
  \/ InstallAdapter \/ InstallDocker \/ InstallGateway \/ AskCredential \/ AcquireImage
  \/ Offer \/ StopOld \/ StartNew \/ KeepNew \/ StopNew \/ StartOld
  \/ EditCopy("key") \/ EditCopy("file") \/ Tighten \/ Unwire \/ DropTask \/ RouterCreates \/ Reset
MigrateSpec == InitMigrate /\ [][NextMigrate]_mgVars

-----------------------------------------------------------------------------
(* What a person can rely on                                                 *)

\* A run leaves alone what people changed since an earlier one; a policy, as
\* long as the chat stays wired.
EditsStand ==
  /\ \A x \in mine \ {"policy"} : copy[x] = "mine"
  /\ "policy" \in mine => policy = "mine"

\* A task of the old installation comes once, and again only after its removal.
PortedOnce == ported <= 1 + dropped

\* Of the two hosts, which share their bots, one serves at the end of a
\* changeover: both only if a stop was refused, none only if a start was or
\* the changeover was cut short.
OneServes == at = 0 => (old /\ new => clung) /\ (served => old \/ new \/ left)

MigrateSafety == EditsStand /\ PortedOnce /\ OneServes
=============================================================================
