------------------------------ MODULE Uninstall ------------------------------
(* Taking one copy of NanoClaw off a machine that has another: the inventory,  *)
(* the answers, the plan and its execution (setup/uninstall), with the host    *)
(* that lives on while the person is asked, and the clean-up of dead and       *)
(* crash-looping peers that goes before every installation of a service        *)
(* (setup/peer-cleanup.ts).  The uninstaller is run in the copy "here".        *)
EXTENDS Naturals, Sequences, FiniteSets

CONSTANTS MaxUnCommands, MaxUnFaults   \* bounds: what people start, and what fails

ASSUME UninstallAssumption == {MaxUnCommands, MaxUnFaults} \subseteq Nat

VARIABLES
  flavor,    \* how the service of a copy is kept: "user" or "system" unit, or "nohup"
  unitOf,    \* its unit: "none", "on", or "off" when it is disabled
  hostOf,    \* its host: "up", "stopping", "down"
  boxes,     \* "here" has containers
  boxImage,  \* and an image
  nclLink,   \* the copy ~/.local/bin/ncl points to, or "none"
  parts,     \* of each copy what is on the disk
  rows,      \* the agents in its database
  keysOf,    \* which keys are in the .env of "here", 0 when there is none
  keysMade,  \* how many sets of keys people put there
  saved,     \* the keys in backups
  vaultHas,  \* the agents in the vault
  un,        \* the uninstaller: its step, inventory, answers and plan
  unNotes,   \* what it says it left
  silent,    \* history: commands that failed, which the uninstaller does not look at
  asRoot,    \* it runs as root
  consented, \* history: the orphans were given away by a person
  moved,     \* history: the link changed hands, or something was made anew, since the scan
  unCommands, unFaults

unVars == <<flavor, unitOf, hostOf, boxes, boxImage, nclLink, parts, rows, keysOf, keysMade, saved,
            vaultHas, un, unNotes, silent, asRoot, consented, moved, unCommands, unFaults>>
machine == <<unitOf, hostOf, boxes, boxImage, nclLink>>
disks == <<parts, rows, keysOf, keysMade, saved, vaultHas>>
unState == <<un, unNotes, silent, asRoot, consented>>

Copies == {"here", "there"}
DataParts == {"data", "env", "pid"}
RuntimeParts == {"dist", "node_modules"}
UserParts == {"groups"}
InstalledParts == {"data", "env", "groups"} \cup RuntimeParts
UnitMade(c) == IF flavor[c] = "nohup" THEN "none" ELSE "on"
VaultAgents == {"a1", "a2", "b1"}       \* two of this copy, one of the other

\* buildRemovalPlan: what is removed, in its order.
RemovalOrder ==
  <<"unload", "kill-pid", "pkill-host", "rm-containers", "rmi", "ncl", "a1", "a2", "b1", "env",
    "data", "pid", "groups", "dist", "node_modules">>
RemovalSteps == {RemovalOrder[i] : i \in 1 .. Len(RemovalOrder)}

NothingFound == [unit |-> FALSE, boxes |-> FALSE, image |-> FALSE, ncl |-> FALSE,
                 kept |-> {}, mine |-> {}, orphans |-> {}]
UnQuiet(s) == [step |-> s, yes |-> FALSE, inv |-> NothingFound, plan |-> {}, service |-> FALSE]

UnTypeOK ==
  /\ flavor \in [Copies -> {"user", "system", "nohup"}]
  /\ unitOf \in [Copies -> {"none", "on", "off"}] /\ hostOf \in [Copies -> {"up", "stopping", "down"}]
  /\ {boxes, boxImage} \subseteq BOOLEAN /\ nclLink \in Copies \cup {"none"}
  /\ \A c \in Copies : parts[c] \subseteq DataParts \cup RuntimeParts \cup UserParts
  /\ rows \subseteq {"a1", "a2"} /\ vaultHas \subseteq VaultAgents
  /\ saved \subseteq 1 .. keysMade /\ keysOf \in 0 .. keysMade
  /\ un.step \in {"idle", "asking", "acting", "done"} /\ UNION {unNotes, silent, moved} \subseteq RemovalSteps
  /\ {asRoot, consented} \subseteq BOOLEAN
  /\ unCommands \in 0 .. MaxUnCommands /\ unFaults \in 0 .. MaxUnFaults

InitUninstall ==
  /\ flavor \in {[c \in Copies |-> IF c = "here" THEN f ELSE "user"] : f \in {"user", "system", "nohup"}}
  /\ unitOf = [c \in Copies |-> UnitMade(c)]
  /\ hostOf = [c \in Copies |-> "up"] /\ boxes = FALSE /\ boxImage = TRUE /\ nclLink = "here"
  /\ parts = [c \in Copies |-> InstalledParts \cup IF flavor[c] = "nohup" THEN {"pid"} ELSE {}]
  /\ rows = {"a1"} /\ vaultHas = {"a1", "b1"}
  /\ keysOf = 2 /\ keysMade = 2 /\ saved = {1}      \* it was removed once and set up again
  /\ un = UnQuiet("idle") /\ unNotes = {} /\ silent = {} /\ asRoot = FALSE /\ consented = FALSE /\ moved = {}
  /\ unCommands = MaxUnCommands /\ unFaults = MaxUnFaults

-----------------------------------------------------------------------------
(* The copies                                                                *)

UnFault == unFaults > 0 /\ unFaults' = unFaults - 1
UnCommand == unCommands > 0 /\ unCommands' = unCommands - 1
UnBusy == un.step \in {"asking", "acting"}
CanRun(c) == RuntimeParts \subseteq parts[c]

\* A message wakes an agent: its folders are made, and the vault knows the agent.
HostSpawns ==
  /\ hostOf["here"] # "down" /\ ~boxes /\ boxImage /\ boxes' = TRUE
  /\ parts' = [parts EXCEPT !["here"] = @ \cup {"data", "groups"}] /\ vaultHas' = vaultHas \cup {"a1"} \cup rows
  /\ moved' = moved \cup ({"data", "groups"} \ parts["here"]) \cup (vaultHas' \ vaultHas)
  /\ UNCHANGED <<flavor, unitOf, hostOf, boxImage, nclLink, rows, keysOf, keysMade, saved, unState,
                 unCommands, unFaults>>

\* An agent makes another, which the vault is told of before its first container.
HostMakesAgent ==
  /\ UnCommand /\ hostOf["here"] = "up" /\ boxes /\ "a1" \in rows /\ "a2" \notin rows
  /\ rows' = rows \cup {"a2"} /\ vaultHas' = vaultHas \cup {"a2"}
  /\ UNCHANGED <<flavor, machine, parts, keysOf, keysMade, saved, unState, moved, unFaults>>

BoxEnds ==
  /\ boxes /\ boxes' = FALSE
  /\ UNCHANGED <<flavor, unitOf, hostOf, boxImage, nclLink, disks, unState, moved, unCommands, unFaults>>

\* A signal is answered when the host is through with its shutdown.
HostEnds ==
  /\ hostOf["here"] = "stopping" /\ hostOf' = [hostOf EXCEPT !["here"] = "down"]
  /\ UNCHANGED <<flavor, unitOf, boxes, boxImage, nclLink, disks, unState, moved, unCommands, unFaults>>
UnitRestarts ==
  /\ unitOf["here"] = "on" /\ hostOf["here"] = "down" /\ CanRun("here")
  /\ hostOf' = [hostOf EXCEPT !["here"] = "up"]
  /\ UNCHANGED <<flavor, unitOf, boxes, boxImage, nclLink, disks, unState, moved, unCommands, unFaults>>

\* cleanupUnhealthyPeers: of the other copies with a user unit, one whose
\* program is gone is unregistered, and one that fails at every start is
\* disabled when it has failed often enough by now.
Peers(c) == {p \in Copies \ {c} : flavor[p] = "user" /\ unitOf[p] # "none"}
Dead(p) == "dist" \notin parts[p]
Unhealthy(p) == ~Dead(p) /\ hostOf[p] = "down" /\ ~CanRun(p)
CleanUpPeers(c, reaped, disabled) ==
  /\ reaped = {p \in Peers(c) : Dead(p)}
  /\ disabled \subseteq {p \in Peers(c) : Unhealthy(p)}
  /\ unitOf' = [p \in Copies |->
       IF p \in reaped THEN "none" ELSE IF p \in disabled THEN "off"
       ELSE IF p # c THEN unitOf[p] ELSE UnitMade(c)]
  /\ hostOf' = [p \in Copies |-> IF p = c /\ flavor[c] # "nohup" THEN "up"
                                 ELSE IF p \in reaped \cup disabled THEN "down" ELSE hostOf[p]]

\* Setup, as far as the uninstaller can see: what is missing is made, the keys
\* too, the service is registered and started, and ncl points to this copy, or
\* to nothing when the link is removed and cannot be made.  Where there is no
\* systemd a start script is written and left to the person.
SetUpCopy(c) ==
  /\ UnCommand /\ (c = "here" => ~UnBusy)
  /\ parts' = [parts EXCEPT ![c] = @ \cup InstalledParts]
  /\ rows' = IF c = "here" /\ rows = {} THEN {"a1"} ELSE rows
  /\ keysOf' = IF c = "here" /\ keysOf = 0 THEN keysMade + 1 ELSE keysOf
  /\ keysMade' = IF c = "here" /\ keysOf = 0 THEN keysMade + 1 ELSE keysMade
  /\ \E reaped, disabled \in SUBSET Copies : CleanUpPeers(c, reaped, disabled)
  /\ \/ nclLink' = c /\ UNCHANGED unFaults
     \/ nclLink' \in {nclLink, "none"} /\ UnFault
  /\ boxImage' = (boxImage \/ c = "here")
  /\ un' = IF c = "here" THEN UnQuiet("idle") ELSE un
  /\ unNotes' = (IF c = "here" THEN {} ELSE unNotes) /\ moved' = moved \cup {"ncl"}
  /\ UNCHANGED <<flavor, boxes, saved, vaultHas, silent, asRoot, consented>>
StartByHand ==
  /\ UnCommand /\ flavor["here"] = "nohup" /\ CanRun("here") /\ un.step # "acting"
  /\ hostOf' = [hostOf EXCEPT !["here"] = "up"] /\ parts' = [parts EXCEPT !["here"] = @ \cup {"pid"}]
  /\ moved' = moved \cup {"pid"}
  /\ UNCHANGED <<flavor, unitOf, boxes, boxImage, nclLink, rows, keysOf, keysMade, saved, vaultHas,
                 unState, unFaults>>

\* A checkout that is deleted or broken by hand leaves its unit, which starts
\* in vain.
DeleteFolder ==
  /\ UnCommand
  /\ \E gone \in {parts["there"], {"node_modules"}} : parts' = [parts EXCEPT !["there"] = @ \ gone]
  /\ hostOf' = [hostOf EXCEPT !["there"] = "down"]
  /\ UNCHANGED <<flavor, unitOf, boxes, boxImage, nclLink, rows, keysOf, keysMade, saved, vaultHas,
                 unState, moved, unFaults>>

-----------------------------------------------------------------------------
(* The uninstaller                                                           *)

\* scanInstall.  Docker or the vault may not answer, which is noted or shows
\* nothing; without the rows every agent of the vault is an orphan.
Inventory(docker, listed, known) ==
  [unit |-> unitOf["here"] # "none", boxes |-> docker /\ boxes, image |-> docker /\ boxImage,
   ncl |-> nclLink = "here", kept |-> parts["here"], mine |-> listed \cap known, orphans |-> listed \ known]
ReadAgentGroupIds(readable) == IF readable /\ "data" \in parts["here"] THEN rows ELSE {}
ListVaultAgents(answers) == IF answers THEN vaultHas ELSE {}
ScanInstall(yes, root) ==
  /\ UnCommand /\ ~UnBusy /\ "node_modules" \in parts["here"]
  /\ \E broken \in {"nothing", "docker", "vault", "rows"} :
       LET listed == ListVaultAgents(broken # "vault")
           known == ReadAgentGroupIds(broken # "rows") IN
         /\ IF broken = "nothing" THEN UNCHANGED unFaults ELSE UnFault
         /\ un' = [step |-> "asking", yes |-> yes, plan |-> {}, service |-> FALSE,
                   inv |-> Inventory(broken # "docker", listed, known)]
         /\ unNotes' = IF broken = "docker" THEN {"rm-containers", "rmi"} ELSE {}
  /\ asRoot' = root /\ moved' = {} /\ silent' = {}
  /\ UNCHANGED <<flavor, machine, disks, consented>>

\* buildRemovalPlan, of the groups that were chosen and the agents that were given away.
RemovalsOf(inv, service, data, user, given) ==
  (IF service THEN {"pkill-host", "rm-containers"}
                     \cup (IF inv.unit THEN {"unload"} ELSE {})
                     \cup (IF "pid" \in inv.kept THEN {"kill-pid"} ELSE {})
                     \cup (IF inv.image THEN {"rmi"} ELSE {}) \cup (IF inv.ncl THEN {"ncl"} ELSE {})
   ELSE {})
  \cup (IF data THEN inv.kept \cap (DataParts \cup RuntimeParts) ELSE {})
  \cup (IF user THEN inv.kept \cap UserParts ELSE {}) \cup given

\* A group is asked about that has something in it; --yes takes every such
\* group and the agents that are known to be this copy's.
ServiceRows(inv) == inv.unit \/ "pid" \in inv.kept \/ inv.boxes \/ inv.image \/ inv.ncl
OnecliDeletions(inv, yes, ours, orphans) ==
  (IF yes \/ ours THEN inv.mine ELSE {}) \cup (IF ~yes /\ orphans THEN inv.orphans ELSE {})
DecideRemoval ==
  /\ un.step = "asking"
  /\ \E service, data, user, ours, orphans \in BOOLEAN :
       LET given == OnecliDeletions(un.inv, un.yes, ours, orphans)
           plan == RemovalsOf(un.inv, service, data, user, given) IN
         /\ service => ServiceRows(un.inv)
         /\ un.yes => (service = ServiceRows(un.inv)) /\ data /\ user
         /\ un' = [un EXCEPT !.step = IF plan = {} THEN "done" ELSE "acting", !.plan = plan,
                             !.service = service]
         /\ consented' = (consented \/ given \cap un.inv.orphans # {})
  /\ UNCHANGED <<flavor, machine, disks, unNotes, silent, asRoot, moved, unCommands, unFaults>>

\* Ctrl-C at a question, and a kill in the middle of the plan.
CancelUninstall ==
  /\ un.step = "asking" /\ un' = UnQuiet("idle")
  /\ UNCHANGED <<flavor, machine, disks, unNotes, silent, asRoot, consented, moved, unCommands, unFaults>>
UninstallerDies ==
  /\ un.step = "acting" /\ UnFault /\ un' = UnQuiet("idle")
  /\ UNCHANGED <<flavor, machine, disks, unNotes, silent, asRoot, consented, moved, unCommands>>

\* The plan is listed, and carried out, in the order of RemovalOrder.
Place == [x \in RemovalSteps |-> CHOOSE i \in 1 .. Len(RemovalOrder) : RemovalOrder[i] = x]
IsNext(x) == \A y \in un.plan : Place[x] <= Place[y]
NextRemoval == CHOOSE x \in un.plan : IsNext(x)
Advances(x) == un' = [un EXCEPT !.plan = un.plan \ {x},
                             !.step = IF un.plan = {x} THEN "done" ELSE un.step]
Noted(x) == unNotes' = unNotes \cup {x}

\* The unit is stopped, which systemd waits for, and its file removed; a system
\* unit takes root.
Unload(x) ==
  /\ x = "unload" /\ UNCHANGED <<disks, boxes, boxImage, nclLink>>
  /\ IF flavor["here"] = "system" /\ ~asRoot THEN Noted("unload") /\ UNCHANGED <<unitOf, hostOf>>
     ELSE /\ unitOf' = [unitOf EXCEPT !["here"] = "none"]
          /\ hostOf' = [hostOf EXCEPT !["here"] = "down"] /\ UNCHANGED unNotes

\* The process by its pid or by its command line: a signal, and no wait.
SignalHost(x) ==
  /\ x \in {"kill-pid", "pkill-host"}
  /\ hostOf' = [hostOf EXCEPT !["here"] = IF @ = "up" THEN "stopping" ELSE @]
  /\ UNCHANGED <<disks, unitOf, boxes, boxImage, nclLink, unNotes>>

\* The containers are listed anew.
RemoveContainers(x) ==
  /\ x = "rm-containers" /\ boxes' = FALSE
  /\ UNCHANGED <<disks, unitOf, hostOf, boxImage, nclLink, unNotes>>
RemoveImage(x) ==
  /\ x = "rmi" /\ UNCHANGED <<disks, unitOf, hostOf, boxes, nclLink>>
  /\ IF boxes THEN Noted("rmi") /\ UNCHANGED boxImage
     ELSE boxImage' = FALSE /\ UNCHANGED unNotes
RemoveLink(x) ==
  /\ x = "ncl" /\ nclLink' = "none" /\ UNCHANGED <<disks, unitOf, hostOf, boxes, boxImage, unNotes>>
DeleteVaultAgent(x) ==
  /\ x \in VaultAgents /\ vaultHas' = vaultHas \ {x}
  /\ UNCHANGED <<machine, parts, rows, keysOf, keysMade, saved, unNotes>>

\* The keys are copied to a name that is free, and only then removed.
BackedUpBug == {keysOf}   \* mutant: always the same name
BackedUp == saved \cup {keysOf}
BackupEnv(x) ==
  /\ x = "env" /\ saved' = BackedUp /\ keysOf' = 0
  /\ parts' = [parts EXCEPT !["here"] = @ \ {"env"}]
  /\ UNCHANGED <<machine, rows, keysMade, vaultHas, unNotes>>
DeletePath(x) ==
  /\ x \in (DataParts \cup RuntimeParts \cup UserParts) \ {"env"}
  /\ parts' = [parts EXCEPT !["here"] = @ \ {x}]
  /\ rows' = IF x = "data" THEN {} ELSE rows
  /\ UNCHANGED <<machine, keysOf, keysMade, saved, vaultHas, unNotes>>

\* executePlan: one action after the other.
RunAction ==
  /\ un.step = "acting"
  /\ LET x == NextRemoval IN
       /\ Advances(x)
       /\ \/ Unload(x) \/ SignalHost(x) \/ RemoveContainers(x) \/ RemoveImage(x) \/ RemoveLink(x)
          \/ DeleteVaultAgent(x) \/ BackupEnv(x) \/ DeletePath(x)
  /\ UNCHANGED <<flavor, silent, asRoot, consented, moved, unCommands, unFaults>>

\* What throws, or has a status that is looked at, is noted; the unit may be
\* stopped by then, and the keys copied.
ActionFails ==
  /\ un.step = "acting" /\ UnFault /\ Noted(NextRemoval) /\ Advances(NextRemoval)
  /\ hostOf' \in {hostOf} \cup IF NextRemoval = "unload" THEN {[hostOf EXCEPT !["here"] = "down"]} ELSE {}
  /\ saved' \in {saved} \cup IF NextRemoval = "env" THEN {BackedUp} ELSE {}
  /\ UNCHANGED <<flavor, unitOf, boxes, boxImage, nclLink, parts, rows, keysOf, keysMade, vaultHas,
                 silent, asRoot, consented, moved, unCommands>>

\* Nobody looks at the status of these; the file of the unit goes all the same.
CommandFails ==
  /\ un.step = "acting" /\ UnFault /\ Advances(NextRemoval)
  /\ NextRemoval \in {"unload", "kill-pid", "pkill-host", "rm-containers"} \cup VaultAgents
  /\ silent' = silent \cup {NextRemoval}
  /\ unitOf' = IF NextRemoval = "unload" /\ (flavor["here"] = "user" \/ asRoot)
                 THEN [unitOf EXCEPT !["here"] = "none"] ELSE unitOf
  /\ UNCHANGED <<flavor, hostOf, boxes, boxImage, nclLink, disks, unNotes, asRoot, consented, moved,
                 unCommands>>

NextUninstall ==
  \/ HostSpawns \/ HostMakesAgent \/ BoxEnds \/ HostEnds \/ UnitRestarts
  \/ StartByHand \/ \E c \in Copies : SetUpCopy(c)
  \/ DeleteFolder
  \/ \E yes, root \in BOOLEAN : (root => flavor["here"] = "system") /\ ScanInstall(yes, root)
  \/ DecideRemoval \/ CancelUninstall \/ UninstallerDies \/ RunAction \/ ActionFails \/ CommandFails
UninstallSpec == InitUninstall /\ [][NextUninstall]_unVars

-----------------------------------------------------------------------------
(* What the person may count on                                              *)

\* The keys of an install are never lost, not those of an earlier one either.
KeysKept == \A k \in 1 .. keysMade : k = keysOf \/ k \in saved

\* The agents of another copy stay in the vault unless a person gave the
\* orphans away, and its service stays registered while it can run.  (Its ncl
\* does not: the link is removed on the word of the inventory.)
OthersKept ==
  /\ "b1" \in vaultHas \/ consented
  /\ CanRun("there") => unitOf["there"] = "on"

\* With the service gone, nothing noted and no command that failed unseen, no
\* host or container is left behind, where the service manager keeps the host.
NothingRuns ==
  un.step = "done" /\ un.service /\ un.inv.unit /\ unNotes \cup silent = {} /\ unitOf["here"] = "none" =>
    hostOf["here"] = "down" /\ ~boxes

\* What --yes found is gone, but for what is noted, what failed unseen and what
\* a living host made anew.
WhatIsFoundIsGone ==
  un.step = "done" /\ un.yes =>
    (parts["here"] \cap un.inv.kept) \cup (un.inv.mine \cap vaultHas) \subseteq unNotes \cup silent \cup moved

UninstallSafety == KeysKept /\ OthersKept /\ NothingRuns /\ WhatIsFoundIsGone
=============================================================================
