------------------------------- MODULE Wirings -------------------------------
(* Who may speak where: the tables of agents, chats, wirings and destinations *)
(* of the central database, and those who write them.  init-first-agent.ts    *)
(* and setup/register.ts are processes of their own and look before they      *)
(* insert, a statement at a time; a handler of the host runs to its end        *)
(* before another begins, but statements of the scripts come in between.  One *)
(* chat of one platform; "ops" is there from the start and has a container.   *)
EXTENDS Naturals, FiniteSets

CONSTANTS MaxWiCommands, MaxWiFaults   \* bounds: scripts and commands; deaths

ASSUME WiringAssumption == {MaxWiCommands, MaxWiFaults} \subseteq Nat

VARIABLES
  config,    \* of each group its provider, "bare" without a config row, "none" without a group
  chats,     \* the messaging group, by its number; at most one is there
  wirings,   \* messaging_group_agents, pairs of a group and a chat
  dests,     \* agent_destinations, triples of a group, a name and a target
  rooted,    \* pairs of a group and a chat with a session
  members,   \* the groups the user is a member of
  seen,      \* of each group the destinations in the inbound.db of its session
  running,   \* the groups whose session has a container
  stepOf, aim,   \* of each script the step that is next, and the group it is about
  label,     \* of each script the number behind the name it tries
  found,     \* of each script the chat it goes on with
  lost,      \* the scripts whose group is deleted under them
  hostTask,      \* what the host is doing, and for which group
  bare,      \* history: the wirings whose writer died before the destination
  byHand,    \* history: the groups whose destinations a person edited
  unsent,    \* history: the groups with destinations written past their sessions
  removals,  \* history: a wiring or a group was deleted while the script ran
  wiCommands, wiFaults

wiringVars == <<config, chats, wirings, dests, rooted, members, seen, running,
                stepOf, aim, label, found, lost,
                hostTask, bare, byHand, unsent, removals, wiCommands, wiFaults>>
tables == <<config, chats, wirings, dests, rooted, members>>
sessions == <<seen, running>>
scripts == <<stepOf, aim, label, found, lost>>
pastOf == <<bare, byHand, unsent, removals>>

Children == {"kid", "kid-2"}
AgentGroups == {"dm", "ops"} \cup Children
Chats == {"chat", "chat-2"}
LocalNames == {"home", "home-2", "home-3", "kid", "parent"}
Targets == Chats \cup AgentGroups
Scripts == {"first", "register"}

WiTypeOK ==
  /\ config \in [AgentGroups -> {"none", "bare", "default", "picked"}]
  /\ chats \subseteq Chats /\ Cardinality(chats) <= 1
  /\ wirings \subseteq AgentGroups \X Chats /\ members \subseteq AgentGroups
  /\ \A d \in dests : d[1] \in AgentGroups /\ d[2] \in LocalNames
  /\ DOMAIN seen = AgentGroups /\ running \subseteq AgentGroups
  /\ stepOf \in [Scripts -> {"idle", "group", "insert group", "config", "member", "chat",
                             "insert chat", "wiring", "insert wiring", "name", "insert name",
                             "greet", "ok", "failed"}]
  /\ aim \in [Scripts -> AgentGroups] /\ label \in [Scripts -> 1 .. 3]
  /\ found \in [Scripts -> Chats \cup {"none"}] /\ lost \subseteq Scripts
  /\ hostTask.step \in {"idle", "project", "name", "config", "down", "up"}
  /\ hostTask.of \in AgentGroups
  /\ bare \subseteq wirings /\ rooted \subseteq AgentGroups \X (Chats \cup {"elsewhere"})
  /\ wiCommands \in 0 .. MaxWiCommands /\ wiFaults \in 0 .. MaxWiFaults

Idle == [step |-> "idle", of |-> "ops"]
InitWirings ==
  /\ config = [g \in AgentGroups |-> IF g = "ops" THEN "picked" ELSE "none"]
  /\ chats = {} /\ wirings = {} /\ dests = {} /\ members = {}
  /\ seen = [g \in AgentGroups |-> {}] /\ running = {"ops"}
  /\ stepOf = [p \in Scripts |-> "idle"] /\ aim = [p \in Scripts |-> "dm"]
  /\ label = [p \in Scripts |-> 1]
  /\ found = [p \in Scripts |-> "none"] /\ lost = {}
  /\ hostTask = Idle /\ bare = {} /\ byHand = {} /\ unsent = {} /\ removals = {}
  /\ rooted = {<<"ops", "elsewhere">>}
  /\ wiCommands = MaxWiCommands /\ wiFaults = MaxWiFaults

Exists(g) == config[g] # "none"
Ends(g) == {<<d[2], d[3]>> : d \in {e \in dests : e[1] = g}}          \* getDestinations
TakenBy(g) == {e[1] : e \in Ends(g)}
NamedBy(g) == {e[2] : e \in Ends(g)}
TheChat == CHOOSE c \in chats : TRUE
Called(k) == IF k = 1 THEN "home" ELSE IF k = 2 THEN "home-2" ELSE "home-3"
Number(g) == CHOOSE k \in 1 .. 3 : /\ Called(k) \notin TakenBy(g)
                                   /\ \A j \in 1 .. k - 1 : Called(j) \in TakenBy(g)

-----------------------------------------------------------------------------
(* The scripts                                                               *)

Now(p, s) == stepOf[p] = s
Then(p, s) == stepOf' = [stepOf EXCEPT ![p] = s]
\* A statement fails on a constraint, and the script ends with an error.
Throws(p) == Then(p, "failed") /\ UNCHANGED <<tables, label, found>>
\* The group the script found is the one that is there.
Stands(p) == Exists(aim[p]) /\ p \notin lost
\* A fresh id: none that a row names or a script holds.
Unnamed == {c \in Chats : (\A d \in dests : d[3] # c) /\ \A p \in Scripts : found[p] # c}

StartScript(p) ==
  /\ stepOf[p] \in {"idle", "ok", "failed"} /\ wiCommands > 0 /\ wiCommands' = wiCommands - 1
  /\ \E g \in {"dm", "ops"} : (p = "first" => g = "dm") /\ aim' = [aim EXCEPT ![p] = g]
  /\ Then(p, "group") /\ label' = [label EXCEPT ![p] = 1] /\ found' = [found EXCEPT ![p] = "none"]
  /\ lost' = lost \ {p} /\ removals' = removals \ {p}
  /\ UNCHANGED <<tables, sessions, hostTask, bare, byHand, unsent, wiFaults>>

\* The group by its folder, and its insert, which a UNIQUE guards.
FindGroup(p) ==
  /\ Now(p, "group") /\ Then(p, IF Exists(aim[p]) THEN "config" ELSE "insert group")
  /\ UNCHANGED <<tables, label, found>>
InsertGroup(p) ==
  /\ Now(p, "insert group")
  /\ IF Exists(aim[p]) THEN Throws(p)
     ELSE /\ config' = [config EXCEPT ![aim[p]] = "bare"] /\ Then(p, "config")
          /\ UNCHANGED <<chats, wirings, dests, rooted, members, label, found>>

\* ensureContainerConfig: the pick of the setup, or the default, on a fresh row.
EnsureConfig(p) ==
  /\ Now(p, "config")
  /\ IF ~Stands(p) THEN Throws(p)
     ELSE /\ Then(p, IF p = "first" THEN "member" ELSE "chat")
          /\ config' = [config EXCEPT ![aim[p]] = IF @ # "bare" THEN @
                                                  ELSE IF p = "first" THEN "picked" ELSE "default"]
          /\ UNCHANGED <<chats, wirings, dests, rooted, members, label, found>>

\* The role, the scope of ncl that goes with it, and the membership.
Admit(p) ==
  /\ Now(p, "member")
  /\ IF ~Stands(p) THEN Throws(p)
     ELSE /\ members' = members \cup {aim[p]} /\ Then(p, "chat")
          /\ UNCHANGED <<config, chats, wirings, dests, rooted, label, found>>

\* The chat by its address, and its insert under an id that nothing names yet.
FindChat(p) ==
  /\ Now(p, "chat") /\ UNCHANGED <<tables, label>>
  /\ IF chats = {} THEN Then(p, "insert chat") /\ UNCHANGED found
     ELSE Then(p, "wiring") /\ \E c \in chats : found' = [found EXCEPT ![p] = c]
InsertChat(p) ==
  /\ Now(p, "insert chat")
  /\ IF chats # {} THEN Throws(p)
     ELSE /\ \E c \in Unnamed : chats' = {c} /\ found' = [found EXCEPT ![p] = c]
          /\ Then(p, "wiring") /\ UNCHANGED <<config, wirings, dests, rooted, members, label>>

\* wireIfMissing: what is wired is taken for done, its destination too.
FindWiring(p) ==
  /\ Now(p, "wiring") /\ UNCHANGED <<tables, label, found>>
  /\ Then(p, IF <<aim[p], found[p]>> \notin wirings THEN "insert wiring"
             ELSE IF p = "first" THEN "greet" ELSE "ok")
InsertWiring(p) ==
  /\ Now(p, "insert wiring")
  /\ IF found[p] \notin chats \/ ~Stands(p) \/ <<aim[p], found[p]>> \in wirings THEN Throws(p)
     ELSE /\ wirings' = wirings \cup {<<aim[p], found[p]>>} /\ Then(p, "name")
          /\ UNCHANGED <<config, chats, dests, rooted, members, label, found>>

\* ensureAgentDestinationForWiring: it looks again before every name it tries.
FindName(p) ==
  /\ Now(p, "name") /\ UNCHANGED <<tables, label, found>>
  /\ LET done == found[p] \in NamedBy(aim[p]) \/ (label[p] = 1 /\ found[p] \notin chats) IN
       Then(p, IF done THEN "greet" ELSE "insert name")
InsertName(p) ==
  /\ Now(p, "insert name") /\ UNCHANGED <<config, chats, wirings, rooted, members, found>>
  /\ IF ~Stands(p) THEN Then(p, "failed") /\ UNCHANGED <<dests, label>>
     ELSE IF Called(label[p]) \in TakenBy(aim[p]) THEN
       /\ Then(p, "name") /\ label' = [label EXCEPT ![p] = @ + 1] /\ UNCHANGED dests
     ELSE /\ dests' = dests \cup {<<aim[p], Called(label[p]), found[p]>>} /\ Then(p, "greet")
          /\ UNCHANGED label

\* The welcome is handed to the socket of the host, which may not be there, and
\* no answer is waited for; the first message of a fresh wiring is written by
\* the script itself.  Both make a session.
Greet(p) ==
  /\ Now(p, "greet") /\ UNCHANGED <<config, chats, wirings, dests, members, label, found>>
  /\ \/ /\ p = "first" => <<aim[p], found[p]>> \in wirings
        /\ Stands(p) /\ found[p] \in chats /\ Then(p, "ok")
        /\ rooted' = rooted \cup {<<aim[p], found[p]>>}
     \/ /\ p = "first" /\ <<aim[p], found[p]>> \notin wirings
        /\ Then(p, "ok") /\ UNCHANGED rooted
     \/ /\ p = "first" \/ ~Stands(p) \/ found[p] \notin chats
        /\ Then(p, "failed") /\ UNCHANGED rooted

ScriptStep(p) ==
  /\ \/ FindGroup(p) \/ InsertGroup(p) \/ EnsureConfig(p) \/ Admit(p) \/ FindChat(p)
     \/ InsertChat(p) \/ FindWiring(p) \/ InsertWiring(p)
     \/ FindName(p) \/ InsertName(p) \/ Greet(p)
  /\ unsent' = IF dests' = dests THEN unsent ELSE unsent \cup {aim[p]}
  /\ UNCHANGED <<sessions, aim, lost, hostTask, bare, byHand, removals, wiCommands, wiFaults>>

Cut(p) == {w \in wirings : stepOf[p] \in {"name", "insert name"} /\ w = <<aim[p], found[p]>>}
ScriptDies(p) ==
  /\ stepOf[p] \notin {"idle", "ok", "failed"} /\ wiFaults > 0 /\ wiFaults' = wiFaults - 1
  /\ Then(p, "failed") /\ bare' = bare \cup Cut(p)
  /\ UNCHANGED <<tables, sessions, aim, label, found, lost, hostTask, byHand, unsent, removals,
                 wiCommands>>

-----------------------------------------------------------------------------
(* The host                                                                  *)

Free == hostTask = Idle
Begins(s, g) == hostTask' = [step |-> s, of |-> g]
Removed == removals' = removals \cup {p \in Scripts : stepOf[p] # "idle"}

\* routeInbound: the first message of a chat makes its row, if none is there.
RouterMakesChat ==
  /\ Free /\ chats = {} /\ (\E c \in Unnamed : chats' = {c})
  /\ UNCHANGED <<rooted, config, wirings, dests, members, sessions, scripts, hostTask, pastOf,
                 wiCommands, wiFaults>>

HostEdits == Free /\ wiCommands > 0 /\ wiCommands' = wiCommands - 1

\* ncl wirings create: wiring and destination in one transaction, then the
\* sessions are told.
WireByCommand(g) ==
  /\ HostEdits /\ Exists(g) /\ chats # {} /\ <<g, TheChat>> \notin wirings
  /\ wirings' = wirings \cup {<<g, TheChat>>}
  /\ dests' = IF TheChat \in NamedBy(g) THEN dests
              ELSE dests \cup {<<g, Called(Number(g)), TheChat>>}
  /\ Begins("project", g) /\ unsent' = unsent \cup {g}
  /\ UNCHANGED <<rooted, config, chats, members, sessions, scripts, bare, byHand, removals,
                 wiFaults>>

\* projectDestinationsToSessions: what it can resolve of the rows that stand.
Resolved(g) == {e \in Ends(g) : e[2] \in chats \/ (e[2] \in AgentGroups /\ Exists(e[2]))}
Project ==
  /\ hostTask.step = "project" /\ hostTask' = Idle
  /\ seen' = [seen EXCEPT ![hostTask.of] = Resolved(hostTask.of)]
  /\ unsent' = unsent \ {hostTask.of}
  /\ UNCHANGED <<tables, running, scripts, bare, byHand, removals, wiCommands, wiFaults>>

\* The card of a new channel is answered: the statements stand alone, and only
\* a container that is yet to be woken will read the destination.
ApproveWires(g) ==
  /\ HostEdits /\ Exists(g) /\ chats # {} /\ <<g, TheChat>> \notin wirings
  /\ wirings' = wirings \cup {<<g, TheChat>>} /\ Begins("name", g)
  /\ UNCHANGED <<rooted, config, chats, dests, members, sessions, scripts, pastOf, wiFaults>>
ApproveNames ==
  /\ hostTask.step = "name" /\ hostTask' = Idle
  /\ dests' = IF chats = {} \/ ~Exists(hostTask.of) \/ TheChat \in NamedBy(hostTask.of) THEN dests
              ELSE dests \cup {<<hostTask.of, Called(Number(hostTask.of)), TheChat>>}
  /\ members' = IF Exists(hostTask.of) THEN members \cup {hostTask.of} ELSE members
  /\ unsent' = IF dests' = dests THEN unsent ELSE unsent \cup {hostTask.of}
  /\ UNCHANGED <<rooted, config, chats, wirings, sessions, scripts, bare, byHand, removals,
                 wiCommands, wiFaults>>

\* ncl wirings delete: the destination stays.
DeleteWiring(g) ==
  /\ HostEdits /\ chats # {} /\ <<g, TheChat>> \in wirings
  /\ wirings' = wirings \ {<<g, TheChat>>} /\ bare' = bare \ {<<g, TheChat>>} /\ Removed
  /\ UNCHANGED <<rooted, config, chats, dests, members, sessions, scripts, hostTask, byHand,
                 unsent, wiFaults>>

\* ncl destinations remove, and add under another name.
RemoveDestination(g) ==
  /\ HostEdits /\ \E e \in Ends(g) : dests' = dests \ {<<g, e[1], e[2]>>}
  /\ byHand' = byHand \cup {g} /\ unsent' = unsent \cup {g} /\ Begins("project", g)
  /\ UNCHANGED <<rooted, config, chats, wirings, members, sessions, scripts, bare, removals,
                 wiFaults>>
AddDestination(g) ==
  /\ HostEdits /\ Exists(g) /\ chats # {} /\ "home" \notin TakenBy(g)
  /\ dests' = dests \cup {<<g, "home", TheChat>>}
  /\ byHand' = byHand \cup {g} /\ unsent' = unsent \cup {g} /\ Begins("project", g)
  /\ UNCHANGED <<rooted, config, chats, wirings, members, sessions, scripts, bare, removals,
                 wiFaults>>

\* ncl messaging-groups delete, which what refers to the row forbids.
DeleteChat ==
  /\ HostEdits /\ chats # {} /\ wirings = {} /\ (\A r \in rooted : r[2] \notin chats)
  /\ chats' = {}
  /\ unsent' = unsent \cup {g \in AgentGroups : NamedBy(g) \cap chats # {}} /\ Removed
  /\ UNCHANGED <<rooted, config, wirings, dests, members, sessions, scripts, hostTask, bare,
                 byHand, wiFaults>>

\* ncl groups delete: all that refers to the group, its sessions too, in one
\* transaction.  What the sessions of others were told stays.
DeleteGroup(g) ==
  /\ HostEdits /\ Exists(g) /\ config' = [config EXCEPT ![g] = "none"]
  /\ wirings' = {w \in wirings : w[1] # g} /\ dests' = {d \in dests : d[1] # g /\ d[3] # g}
  /\ rooted' = {r \in rooted : r[1] # g} /\ members' = members \ {g}
  /\ bare' = {w \in bare : w[1] # g} /\ Removed
  /\ unsent' = unsent \cup {g} \cup {h \in AgentGroups : g \in NamedBy(h)}
  /\ running' = running \ {g}
  /\ lost' = lost \cup {p \in Scripts : aim[p] = g /\ ~Now(p, "idle") /\ ~Now(p, "group")
                                      /\ ~Now(p, "insert group")}
  /\ UNCHANGED <<chats, seen, stepOf, aim, label, found, hostTask, byHand, wiFaults>>

\* createAgent for "ops": the group, its config, the destination down and the
\* one up, and the creator's session is told.  A name that is taken refuses it.
CreateAgent ==
  /\ HostEdits /\ "ops" \in running /\ "kid" \notin TakenBy("ops")
  /\ \E k \in Children : ~Exists(k)
  /\ LET k == IF Exists("kid") THEN "kid-2" ELSE "kid" IN
       config' = [config EXCEPT ![k] = "bare"] /\ Begins("config", k)
  /\ UNCHANGED <<rooted, chats, wirings, dests, members, sessions, scripts, pastOf, wiFaults>>
CreateConfig ==
  /\ hostTask.step = "config" /\ Begins("down", hostTask.of)
  /\ config' = [config EXCEPT ![hostTask.of] = IF @ = "bare" THEN config["ops"] ELSE @]
  /\ UNCHANGED <<rooted, chats, wirings, dests, members, sessions, scripts, pastOf, wiCommands,
                 wiFaults>>
CreateDown ==
  /\ hostTask.step = "down" /\ Begins("up", hostTask.of)
  /\ dests' = dests \cup {<<"ops", "kid", hostTask.of>>} /\ unsent' = unsent \cup {"ops"}
  /\ UNCHANGED <<rooted, config, chats, wirings, members, sessions, scripts, bare, byHand,
                 removals, wiCommands, wiFaults>>
CreateUp ==
  /\ hostTask.step = "up" /\ Begins("project", "ops")
  /\ dests' = dests \cup {<<hostTask.of, "parent", "ops">>} /\ unsent' = unsent \cup {hostTask.of}
  /\ UNCHANGED <<rooted, config, chats, wirings, members, sessions, scripts, bare, byHand,
                 removals, wiCommands, wiFaults>>

\* A wake writes the destinations before the container starts.
Wake(g) ==
  /\ Free /\ g \notin running /\ config[g] \notin {"none", "bare"} /\ running' = running \cup {g}
  /\ (\E r \in rooted : r[1] = g) \/ (\E d \in dests : d[3] = g)     \* it has a session
  /\ seen' = [seen EXCEPT ![g] = Resolved(g)] /\ unsent' = unsent \ {g}
  /\ UNCHANGED <<tables, scripts, hostTask, bare, byHand, removals, wiCommands, wiFaults>>
Rests(g) ==
  /\ g \in running /\ running' = running \ {g} /\ wiFaults > 0 /\ wiFaults' = wiFaults - 1
  /\ UNCHANGED <<tables, seen, scripts, hostTask, pastOf, wiCommands>>

\* The host dies, its containers with it; at its start every group without a
\* config is given one.
HostDies ==
  /\ wiFaults > 0 /\ wiFaults' = wiFaults - 1 /\ hostTask' = Idle /\ running' = {}
  /\ config' = [g \in AgentGroups |-> IF config[g] = "bare" THEN "default" ELSE config[g]]
  /\ bare' = IF hostTask.step = "name" THEN bare \cup {w \in wirings : w[1] = hostTask.of}
             ELSE bare
  /\ UNCHANGED <<rooted, chats, wirings, dests, members, seen, scripts, byHand, unsent,
                 removals, wiCommands>>

NextWirings ==
  \/ \E p \in Scripts : StartScript(p) \/ ScriptStep(p) \/ ScriptDies(p)
  \/ \E g \in {"dm", "ops"} : \/ WireByCommand(g) \/ ApproveWires(g) \/ DeleteWiring(g)
                              \/ RemoveDestination(g) \/ AddDestination(g)
  \/ \E g \in AgentGroups : DeleteGroup(g) \/ Wake(g) \/ Rests(g)
  \/ RouterMakesChat \/ Project \/ ApproveNames \/ DeleteChat \/ HostDies
  \/ CreateAgent \/ CreateConfig \/ CreateDown \/ CreateUp
WiringSpec == InitWirings /\ [][NextWirings]_wiringVars

-----------------------------------------------------------------------------
(* What holds of the tables                                                  *)

\* A writer of w is about to name it.
Naming(w) ==
  \/ \E p \in Scripts : aim[p] = w[1] /\ stepOf[p] \in {"name", "insert name"}
  \/ hostTask.step = "name" /\ hostTask.of = w[1]

\* An agent has a name for every chat it is wired to, unless a person took it
\* away or the writer died between its two statements.
WiredIsNamed ==
  \A w \in wirings : w[2] \in NamedBy(w[1]) \/ Naming(w) \/ w \in bare \/ w[1] \in byHand

\* Of several writers at once none gives a chat a second name.
NamedOnce ==
  \A g \in AgentGroups \ byHand : \A e, f \in Ends(g) : e[2] = f[2] => e = f

\* A script that ends well has set up what it was started for, and its user is
\* let in from the moment the chat is wired.
SetUp ==
  \A p \in Scripts : (stepOf[p] = "ok" /\ p \notin removals) =>
    /\ config[aim[p]] \in {"default", "picked"} /\ <<aim[p], found[p]>> \in wirings
    /\ p = "first" => aim[p] \in members

\* An agent that its creator can call runs on its creator's provider, and a
\* session knows the destinations that stand unless they were written past it.
ChildRunsAsCreator ==
  \A d \in dests : d[1] = "ops" /\ d[3] \in Children => config[d[3]] = config["ops"]
SessionsAreTold ==
  \A g \in running \ unsent : seen[g] = Resolved(g)

WiringSafety == WiredIsNamed /\ NamedOnce /\ SetUp /\ ChildRunsAsCreator /\ SessionsAreTold
=============================================================================
