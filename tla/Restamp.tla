-------------------------------- MODULE Restamp --------------------------------
(* A plugin stamped into an agent group and later updated in place.  The plan  *)
(* of an update compares three things, surface by surface: what the new        *)
(* version ships, what the group has now, and what the copy of the plugin      *)
(* still lying in the group shipped.  Its operations then run one by one, the  *)
(* copy first, and the first that throws ends it.  The agent edits its files,  *)
(* people edit tasks and servers, and requests for servers wait for their      *)
(* approval meanwhile.  A text, a prompt or a server's entry is the number of  *)
(* the version that shipped it, 0 if there is none.                            *)
EXTENDS Naturals, SequencesExt

CONSTANTS
  Plugin,          \* Plugin[v][x]: what version v ships as surface x
  Texts, Skills,     \* files in the workspace, and skills in the overlay
  Servers, Tasks,
  Order,             \* texts and skills as the plan lists them
  Mine,              \* what somebody else wrote, or made of what was shipped
  MaxRsCommands,     \* bound: commands of the operator
  MaxRsEdits,        \* bound: edits by others
  MaxRsFaults        \* bound: operations that throw, and crashes

Files == Texts \cup Skills
Surfaces == Files \cup Servers \cup Tasks
Versions == DOMAIN Plugin

ASSUME RestampAssumption ==
  /\ \A v \in Versions : Plugin[v] \in [Surfaces -> 0 .. Mine - 1]
  /\ ToSet(Order) = Files
  /\ Mine \in Nat /\ MaxRsCommands \in Nat /\ MaxRsEdits \in Nat /\ MaxRsFaults \in Nat

VARIABLES
  carries,           \* plugins/<name> has its manifest
  base,              \* what that copy ships
  has,               \* what the group has
  from,              \* who put it there; of a server, whom its marker names
  between,           \* tasks whose series waits to be armed again
  askedFor,          \* servers an approval card asks for
  work,              \* the command under way
  agents,            \* history: groups stamped from this plugin
  yours,             \* history: servers a person added, and did not remove
  crossed,           \* history: servers edited between a plan and its write
  displaced,         \* history: servers of the plugin another hand changed
  stranded,          \* history: what a failed command left and the copy does not name
  failedTo,          \* history: the version of an update that failed, 0 if none did
  rsCommands, rsEdits, rsFaults

group     == <<has, from, between>>
oldPlugin == <<carries, base>>
notes     == <<agents, yours, crossed, displaced, stranded, failedTo>>
rsVars    == <<oldPlugin, group, askedFor, work, notes, rsCommands, rsEdits, rsFaults>>

Bare == [x \in Surfaces |-> 0]
NoWork  == [on |-> "nothing", version |-> 1, ops |-> <<>>, puts |-> {}, drops |-> {},
            flagged |-> {}, saw |-> Bare, row |-> [x \in Servers |-> "nobody"], late |-> {}]

RsTypeOK ==
  /\ carries \in BOOLEAN /\ base \in [Surfaces -> 0 .. Mine]
  /\ has \in [Surfaces -> 0 .. Mine] /\ from \in [Surfaces -> {"nobody", "plugin", "user"}]
  /\ between \subseteq Tasks /\ askedFor \subseteq Servers
  /\ work.on \in {"nothing", "stamp", "restamp"} /\ work.version \in Versions
  /\ yours \subseteq Servers /\ crossed \subseteq Servers
  /\ displaced \subseteq Servers /\ stranded \subseteq Surfaces /\ failedTo \in {0} \cup Versions
  /\ rsCommands \in 0 .. MaxRsCommands /\ rsEdits \in 0 .. MaxRsEdits
  /\ rsFaults \in 0 .. MaxRsFaults

InitRestamp ==
  /\ carries = FALSE /\ base = Bare /\ has = Bare /\ between = {}
  /\ from = [x \in Surfaces |-> "nobody"]
  /\ askedFor = {} /\ work = NoWork /\ agents = 0
  /\ yours = {} /\ crossed = {} /\ displaced = {} /\ stranded = {} /\ failedTo = 0
  /\ rsCommands = MaxRsCommands /\ rsEdits = MaxRsEdits /\ rsFaults = MaxRsFaults

-----------------------------------------------------------------------------
(* The plan                                                                  *)

\* The surfaces version v puts in place: not a server somebody else has under
\* its name, nor a task between two runs.
Puts(v) ==
  {x \in Surfaces :
     /\ Plugin[v][x] \notin {0, has[x]}
     /\ ~(x \in Servers /\ from[x] = "user")
     /\ x \notin between}

\* The surfaces it takes away: the plugin's servers by their marker, and of
\* the rest what the copy of the plugin says it shipped.
Shipped(x) == IF x \in Servers THEN from[x] = "plugin" ELSE base[x] # 0
Drops(v) == {x \in Surfaces : Plugin[v][x] = 0 /\ has[x] # 0 /\ Shipped(x)}

\* What a plan marks as customized: a put over something else than the copy
\* ships, or where a skill or a task was taken away, and a drop of such a file.
BaselineBug(v, x) == Plugin[v][x]     \* mutant: against the new version
Baseline(v, x) == base[x]
Flagged(v) ==
  {x \in Puts(v) \cup (Drops(v) \cap Files) :
     has[x] # Baseline(v, x) /\ (x \in Texts \cup Servers => has[x] # 0)}

\* What the command does with the group: the files and the tasks each in one
\* operation, the servers all in one, the copy of the plugin before the rest
\* or, in a new group, after the texts.
OpsFor(S) ==
  SelectSeq(Order, LAMBDA x : x \in S \cap Files) \o
  (IF S \cap Servers # {} THEN <<"servers">> ELSE <<>>) \o
  SetToSeq(S \cap Tasks)
CopyFirst(v, ops) == IF base = Plugin[v] THEN ops ELSE <<"plugin">> \o ops

Begun == work.on = "nothing" /\ rsCommands > 0 /\ rsCommands' = rsCommands - 1
         /\ UNCHANGED <<oldPlugin, group, askedFor, yours, crossed, displaced, stranded, failedTo, rsEdits,
                        rsFaults>>

\* createAgentFromTemplate.  A second group is only counted.
StampAgent(v) ==
  /\ Begun /\ ~carries /\ agents' = agents + 1
  /\ LET ships == {x \in Surfaces : Plugin[v][x] # 0} IN
       work' = IF agents > 0 THEN NoWork ELSE
         [NoWork EXCEPT !.on = "stamp", !.version = v, !.puts = ships,
            !.ops = OpsFor(ships \cap Texts) \o <<"plugin", "servers">> \o OpsFor(ships \cap Skills)
                      \o OpsFor(ships \cap Tasks)]

\* restampAgentFromTemplate with --yes.
RestampAgent(v) ==
  /\ Begun /\ carries /\ UNCHANGED agents
  /\ work' = [on |-> "restamp", version |-> v, puts |-> Puts(v), drops |-> Drops(v),
              ops |-> CopyFirst(v, OpsFor(Puts(v) \cup Drops(v))), flagged |-> Flagged(v),
              saw |-> has, row |-> [x \in Servers |-> from[x]], late |-> {}]

-----------------------------------------------------------------------------
(* Its operations                                                            *)

Op == Head(work.ops)
Puttable(x) == x \in work.puts

\* The whole column is written from the row the plan had read.
ServersWritten(x) ==
  IF Puttable(x) THEN <<Plugin[work.version][x], "plugin">>
  ELSE IF x \in work.drops THEN <<0, "nobody">> ELSE <<work.saw[x], work.row[x]>>

\* An update of a task finds no row to change once the task is gone or between
\* two runs.
Misses(x) == x \in Tasks /\ Puttable(x) /\ work.saw[x] # 0 /\ (has[x] = 0 \/ x \in between)

Written(x) ==
  IF x \in Servers
  THEN IF Op = "servers" THEN ServersWritten(x) ELSE <<has[x], from[x]>>
  ELSE IF x # Op \/ Misses(x) THEN <<has[x], from[x]>>
  ELSE IF Puttable(x) THEN <<Plugin[work.version][x], "plugin">> ELSE <<0, "nobody">>

Apply ==
  /\ work.on # "nothing" /\ work.ops # <<>>
  /\ work' = [work EXCEPT !.ops = Tail(@)]
  /\ IF Op = "plugin" THEN carries' = TRUE /\ base' = Plugin[work.version]
     ELSE UNCHANGED oldPlugin
  /\ has' = [x \in Surfaces |-> Written(x)[1]]
  /\ from' = [x \in Surfaces |-> Written(x)[2]]
  /\ between' = IF Op \in Tasks /\ Misses(Op) THEN between ELSE between \ {Op}
  /\ UNCHANGED <<askedFor, notes, rsCommands, rsEdits, rsFaults>>

\* An operation throws, or the host dies: a tree is replaced by deleting it
\* first and copying file by file.
FailsMidway ==
  /\ work.on # "nothing" /\ work.ops # <<>> /\ rsFaults > 0 /\ rsFaults' = rsFaults - 1
  /\ work' = NoWork /\ failedTo' = IF work.on = "restamp" THEN work.version ELSE 0
  /\ \/ UNCHANGED <<oldPlugin, group>>
     \/ /\ Op = "plugin" /\ UNCHANGED group
        /\ carries' \in BOOLEAN
        /\ \E S \in SUBSET Surfaces :
             base' = [x \in Surfaces |-> IF x \in S THEN Plugin[work.version][x] ELSE 0]
     \/ /\ Op \in Files /\ UNCHANGED <<oldPlugin, between>>
        /\ \E torn \in {0} \cup {Mine : x \in {Op} \cap Skills} :
             /\ has' = [has EXCEPT ![Op] = torn]
             /\ from' = [from EXCEPT ![Op] = IF torn = 0 THEN "nobody" ELSE "plugin"]
  /\ stranded' = stranded \cup {x \in Files \cup Tasks : from'[x] = "plugin" /\ base'[x] = 0}
  /\ UNCHANGED <<askedFor, agents, yours, crossed, displaced, rsCommands, rsEdits>>

Done ==
  /\ work.on # "nothing" /\ work.ops = <<>> /\ work' = NoWork
  /\ UNCHANGED <<oldPlugin, group, askedFor, notes, rsCommands, rsEdits, rsFaults>>

-----------------------------------------------------------------------------
(* Other hands                                                               *)

Touched(x) == work' = [work EXCEPT !.late = IF work.on = "nothing" THEN {} ELSE @ \cup {x}]
Edited(x) ==
  /\ agents > 0 /\ rsEdits > 0 /\ rsEdits' = rsEdits - 1 /\ Touched(x)
  /\ UNCHANGED <<oldPlugin, agents, stranded, failedTo, rsCommands, rsFaults>>

Becomes(x, w, who) == has' = [has EXCEPT ![x] = w] /\ from' = [from EXCEPT ![x] = who]
Owner(x) == IF has[x] = 0 THEN "user" ELSE from[x]

\* The agent writes or deletes a file; a person makes, changes or cancels a task.
EditFile(x) ==
  /\ Edited(x) /\ UNCHANGED <<askedFor, yours, crossed, displaced, between>>
  /\ Becomes(x, Mine, Owner(x)) \/ (has[x] # 0 /\ Becomes(x, 0, "nobody"))
EditTask(x) ==
  /\ Edited(x) /\ UNCHANGED <<askedFor, yours, crossed, displaced>> /\ between' = between \ {x}
  /\ (x \notin between /\ Becomes(x, Mine, Owner(x))) \/ (has[x] # 0 /\ Becomes(x, 0, "nobody"))

\* An occurrence completes, and the sweep arms the next one.
TaskRuns(x) ==
  /\ has[x] # 0 /\ between' = IF x \in between THEN between \ {x} ELSE between \cup {x}
  /\ Touched(x) /\ UNCHANGED <<oldPlugin, has, from, askedFor, notes, rsCommands, rsEdits, rsFaults>>

\* A write of the column of servers that the command under way will write over.
Crosses(x) == IF "servers" \in ToSet(work.ops) THEN {x} ELSE {}

\* `groups config add-mcp-server`, and what an approved request does: the
\* plugin's servers are not theirs to change, whatever held when it was asked.
OwnerStops(x) == from[x] = "plugin"
PutServer(x) ==
  /\ Becomes(x, Mine, "user") /\ yours' = yours \cup {x}
  /\ crossed' = crossed \cup Crosses(x)
  /\ displaced' = displaced \cup {y \in {x} : from[y] = "plugin"}
AddServer(x) == Edited(x) /\ ~OwnerStops(x) /\ PutServer(x) /\ UNCHANGED <<askedFor, between>>
RemoveServer(x) ==
  /\ Edited(x) /\ has[x] # 0 /\ ~OwnerStops(x) /\ Becomes(x, 0, "nobody")
  /\ yours' = yours \ {x} /\ crossed' = crossed \cup Crosses(x)
  /\ UNCHANGED <<askedFor, between, displaced>>

\* The agent's add_mcp_server is checked when it asks, and again when the card
\* is approved.
AskServer(x) ==
  /\ Edited(x) /\ ~OwnerStops(x) /\ askedFor' = askedFor \cup {x}
  /\ UNCHANGED <<group, yours, crossed, displaced>>
Approved(x) == ~OwnerStops(x)
ApproveServer(x) ==
  /\ x \in askedFor /\ askedFor' = askedFor \ {x} /\ Touched(x)
  /\ IF Approved(x) THEN PutServer(x)
     ELSE UNCHANGED <<has, from, yours, crossed, displaced>>
  /\ UNCHANGED <<oldPlugin, between, agents, stranded, failedTo, rsCommands, rsEdits, rsFaults>>

NextRestamp ==
  \/ \E v \in Versions : StampAgent(v) \/ RestampAgent(v)
  \/ Apply \/ FailsMidway \/ Done
  \/ \E x \in Files : EditFile(x)
  \/ \E x \in Tasks : EditTask(x) \/ TaskRuns(x)
  \/ \E x \in Servers : AddServer(x) \/ RemoveServer(x) \/ AskServer(x) \/ ApproveServer(x)

RestampSpec == InitRestamp /\ [][NextRestamp]_rsVars

-----------------------------------------------------------------------------
(* Properties                                                                *)

Applied == work.on # "nothing" /\ work.ops = <<>>
Unshipped == {x \in Surfaces : Plugin[work.version][x] = 0 /\ from[x] = "plugin"} \ work.late

\* An update that reports itself applied has put every surface in place, but
\* those changed under its hands, a name that is taken, and a task between two
\* runs ...
AppliedIsWhole ==
  Applied => \A x \in Surfaces \ work.late :
    LET ships == Plugin[work.version][x] IN
      /\ ships \notin {0, has[x]} => from[x] = "user" \/ (x \in Tasks /\ x \notin work.puts)
      /\ x \in work.drops => has[x] = 0

\* ... and has left nothing of an earlier version, but files and tasks that an
\* update which failed before had still to remove, or whose names it lost with
\* the copy.
LeftoversExplained == Applied => Unshipped \subseteq stranded

\* A plan marks a file as customized if it would destroy somebody's work, and
\* for no other reason unless an update has failed.
PlanSeesEdits ==
  work.on = "restamp" => \A x \in Files \cap (work.puts \cup work.drops) :
    /\ work.saw[x] = Mine => x \in work.flagged
    /\ x \in work.flagged /\ rsFaults = MaxRsFaults => work.saw[x] \in {0, Mine}

\* A server a person added stays, unless its row was written over by an update
\* that had read it before.
YoursStays == \A x \in yours : from[x] = "user" \/ x \in crossed

\* Nobody but an update changes a server of the plugin.
PluginServersOwned == displaced = {}

\* One plugin, one agent, as long as no stamp or update has failed.
OneAgent == agents > 1 => rsFaults < MaxRsFaults

RestampSafety ==
  /\ AppliedIsWhole /\ LeftoversExplained /\ PlanSeesEdits
  /\ YoursStays /\ PluginServersOwned /\ OneAgent

\* docs/templates.md: if an apply fails partway, fix the cause and re-run it;
\* the remaining changes converge.
RestampConverges == Applied /\ work.version = failedTo => Unshipped = {}
=============================================================================
