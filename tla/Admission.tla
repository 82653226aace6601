------------------------------ MODULE Admission ------------------------------
(***************************************************************************)
(* Who may talk to which agent (src/router.ts, src/modules/permissions).   *)
(*                                                                         *)
(* One messaging group.  A message of a channel that no agent is wired to  *)
(* is held in pending_channel_approvals while an owner is asked; one of a  *)
(* sender who is no member of a wired agent is held in                     *)
(* pending_sender_approvals while an admin is asked.  A click decides and  *)
(* sends the held message through the router again.                        *)
(*                                                                         *)
(* Nothing compares and sets here: every handler reads a row and then acts *)
(* on what it read, at every await another may act too, and the requests   *)
(* run beside the router that started them.  What keeps a message from     *)
(* being lost or given twice are keys (of the rows, of the wirings, of the *)
(* message in the session) and the order of the writes.                    *)
(***************************************************************************)
EXTENDS Naturals, FiniteSets

CONSTANTS
  Mail,          \* inbound messages, all of them addressed to the bot
  Author,        \* the sender of each
  Existing,      \* agent groups that exist from the start
  NewAgent,      \* the agent group that a name reply creates
  Presses,       \* clicks on the cards
  Wirings,       \* the sets of agents the channel may be wired to at first
  NoMail,        \* no message
  MaxAdCrashes,  \* bound: crashes of the host
  MaxFlips       \* bound: changes of the channel's policy

ASSUME AdmissionConstants ==
  /\ NoMail \notin Mail
  /\ NewAgent \notin Existing
  /\ "channel" \notin Existing \cup {NewAgent}
  /\ \A W \in Wirings : W \subseteq Existing
  /\ MaxAdCrashes \in Nat /\ MaxFlips \in Nat

Agents == Existing \cup {NewAgent}
Senders == {Author[m] : m \in Mail}
AdWorkers == Mail \cup Presses \cup {"name"}
Policies == {"request_approval", "decline_notify"}
NoRow == [kind |-> "none"]
Stamp == [kind |-> "stamp"]
HeldFor(m, a) == [kind |-> "card", mail |-> m, agent |-> a]

VARIABLES
  policy,    \* unknown_sender_policy of the messaging group
  denied,    \* denied_at is set
  wired,     \* messaging_group_agents
  members,   \* agent_group_members
  channel,   \* the message held in pending_channel_approvals, or NoMail
  senderHold,\* per sender: the row of pending_sender_approvals
  carded,    \* requests whose card was shown
  naming,    \* awaitingNameInput of the approver
  inbox,     \* rows of the sessions: a message and its agent
  task,      \* what each message, click and name reply is doing
  ask,       \* what each request that the router started is doing
  kept,      \* requests whose message was held in a row
  ended,     \* messages whose holding a decision ended
  adCrashes, \* crashes to come
  adDied,    \* history: there was one
  flips      \* changes of policy to come

desk == <<channel, senderHold, carded>>
bounds == <<adCrashes, adDied, flips>>
access == <<denied, wired, members>>
admissionVars == <<policy, access, desk, naming, inbox, task, ask, kept, ended, bounds>>

FreeWorker == [pc |-> "idle", mail |-> NoMail, agent |-> NewAgent, todo |-> {}]
SpentWorker == [FreeWorker EXCEPT !.pc = "done"]
\* An instance may leave messages, clicks and bounds unused.
InitAdmission ==
  /\ policy = "request_approval"
  /\ denied = FALSE
  /\ wired \in Wirings
  /\ members = {}
  /\ channel = NoMail
  /\ senderHold = [s \in Senders |-> NoRow]
  /\ carded = {}
  /\ naming = FALSE
  /\ inbox = {}
  /\ task \in [AdWorkers -> {FreeWorker, SpentWorker}]
  /\ ask = [r \in Mail \X (Agents \cup {"channel"}) |-> "idle"]
  /\ kept = {}
  /\ ended = {}
  /\ adCrashes \in 0 .. MaxAdCrashes /\ adDied = FALSE
  /\ flips \in 0 .. MaxFlips

AdGoto(t, pc) == task' = [task EXCEPT ![t].pc = pc]
AdDone(t) == task' = [task EXCEPT ![t] = SpentWorker]
\* Every task is run once.
Begins(t, m, pc) == task[t].pc = "idle" /\ task' = [task EXCEPT ![t].pc = pc, ![t].mail = m]

-----------------------------------------------------------------------------
(* The router. *)

Receive(m) ==
  /\ Begins(m, m, "route")
  /\ UNCHANGED <<policy, access, desk, naming, inbox, ask, kept, ended, bounds>>

\* routeInbound up to the fan-out: without an agent the channel's owner is
\* asked, unless the channel was denied.  The request is not awaited.
RouteInbound(t) ==
  LET m == task[t].mail IN
  /\ task[t].pc = "route"
  /\ IF wired # {}
     THEN task' = [task EXCEPT ![t].pc = "fan", ![t].todo = wired] /\ UNCHANGED ask
     ELSE /\ AdDone(t)
          /\ ask' = IF denied THEN ask ELSE [ask EXCEPT ![<<m, "channel">>] = "start"]
  /\ UNCHANGED <<policy, access, desk, naming, inbox, kept, ended, bounds>>

Admitted(m, a) == <<Author[m], a>> \in members
\* One agent of the fan-out: the access gate, or the request it starts.
AccessGate(t, a) ==
  LET m == task[t].mail IN
  /\ task[t].pc = "fan" /\ a \in task[t].todo
  /\ IF Admitted(m, a)
     THEN task' = [task EXCEPT ![t].pc = "deliver", ![t].agent = a] /\ UNCHANGED ask
     ELSE /\ task' = [task EXCEPT ![t].todo = @ \ {a}]
          /\ ask' = [ask EXCEPT ![<<m, a>>] = IF policy = "request_approval" THEN "start" ELSE "decline"]
  /\ UNCHANGED <<policy, access, desk, naming, inbox, kept, ended, bounds>>

\* deliverToAgent: the row's key is the message's id with the agent, so a
\* message the session has already throws, and the fan-out ends there.
DeliverToAgent(t) ==
  LET x == <<task[t].mail, task[t].agent>> IN
  /\ task[t].pc = "deliver"
  /\ IF x \in inbox
     THEN AdDone(t) /\ UNCHANGED inbox
     ELSE /\ inbox' = inbox \cup {x}
          /\ task' = [task EXCEPT ![t].pc = "fan", ![t].todo = @ \ {task[t].agent}]
  /\ UNCHANGED <<policy, access, desk, naming, ask, kept, ended, bounds>>

FanOver(t) ==
  /\ task[t].pc = "fan" /\ task[t].todo = {}
  /\ AdDone(t)
  /\ UNCHANGED <<policy, access, desk, naming, inbox, ask, kept, ended, bounds>>

-----------------------------------------------------------------------------
(* The requests. *)

AskAt(r, pc) == ask' = [ask EXCEPT ![r] = pc]

\* requestChannelApproval up to the insert: dropped while another is in
\* flight, or when there is nobody to ask.
ChannelInFlight == channel # NoMail
RequestChannel(m) ==
  LET r == <<m, "channel">> IN
  /\ ask[r] = "start"
  /\ IF ChannelInFlight THEN AskAt(r, "done") ELSE AskAt(r, "insert") \/ AskAt(r, "done")
  /\ UNCHANGED <<policy, access, desk, naming, inbox, task, kept, ended, bounds>>

\* The insert throws when another request was faster.
InsertChannel(m) ==
  LET r == <<m, "channel">> IN
  /\ ask[r] = "insert"
  /\ IF channel # NoMail
     THEN AskAt(r, "done") /\ UNCHANGED <<channel, kept>>
     ELSE AskAt(r, "card") /\ channel' = m /\ kept' = kept \cup {r}
  /\ UNCHANGED <<policy, access, senderHold, carded, naming, inbox, task, ended, bounds>>

\* The card, or none: the row stays either way.
SendCard(r) ==
  /\ ask[r] = "card"
  /\ AskAt(r, "done")
  /\ carded' \in {carded, carded \cup {r}}
  /\ UNCHANGED <<policy, access, channel, senderHold, naming, inbox, task, kept, ended, bounds>>

\* requestSenderApproval: an old stamp is cleared, then the same dance.
ClearStamp(r) ==
  /\ r[2] # "channel" /\ ask[r] = "start"
  /\ senderHold' = [senderHold EXCEPT ![Author[r[1]]] = IF @ = Stamp THEN NoRow ELSE @]
  /\ AskAt(r, "check")
  /\ UNCHANGED <<policy, access, channel, carded, naming, inbox, task, kept, ended, bounds>>

RequestSender(r) ==
  /\ ask[r] = "check"
  /\ IF senderHold[Author[r[1]]] # NoRow THEN AskAt(r, "done") ELSE AskAt(r, "insert") \/ AskAt(r, "done")
  /\ UNCHANGED <<policy, access, desk, naming, inbox, task, kept, ended, bounds>>

SenderFreeBug(s) == TRUE  \* mutant: the insert does not look
SenderFree(s) == senderHold[s] = NoRow
InsertSender(r) ==
  LET s == Author[r[1]] IN
  /\ r[2] # "channel" /\ ask[r] = "insert"
  /\ IF SenderFree(s)
     THEN /\ AskAt(r, "card")
          /\ senderHold' = [senderHold EXCEPT ![s] = HeldFor(r[1], r[2])]
          /\ kept' = kept \cup {r}
     ELSE AskAt(r, "done") /\ UNCHANGED <<senderHold, kept>>
  /\ UNCHANGED <<policy, access, channel, carded, naming, inbox, task, ended, bounds>>

\* declineAndNotify: the stamp takes the place of a card that is pending.
Decline(r) ==
  LET s == Author[r[1]] IN
  /\ ask[r] = "decline"
  /\ AskAt(r, "done")
  /\ senderHold' = [senderHold EXCEPT ![s] = Stamp]
  /\ ended' = ended \cup (IF senderHold[s].kind = "card" THEN {senderHold[s].mail} ELSE {})
  /\ UNCHANGED <<policy, access, channel, carded, naming, inbox, task, kept, bounds>>

-----------------------------------------------------------------------------
(* Clicks on the card of a sender. *)

\* The handler reads the row by its id: no row, or no right to decide, and
\* nothing happens.
PressSender(k) ==
  \E r \in carded, v \in {"admit", "deny"} :
    /\ k \in Presses /\ task[k].pc = "idle" /\ r[2] # "channel"
    /\ IF senderHold[Author[r[1]]] = HeldFor(r[1], r[2])
       THEN task' = [task EXCEPT ![k] = [pc |-> v, mail |-> r[1], agent |-> r[2], todo |-> {}]]
       ELSE AdDone(k)
    /\ UNCHANGED <<policy, access, desk, naming, inbox, ask, kept, ended, bounds>>

NoMembership(m, a) == {}  \* mutant
Membership(m, a) == {<<Author[m], a>>}
\* Approve: the sender becomes a member, then the row goes, then the message
\* is routed again.  A channel's decision goes the same way.
AddMember(t) ==
  /\ task[t].pc \in {"admit", "member"}
  /\ members' = members \cup Membership(task[t].mail, task[t].agent)
  /\ AdGoto(t, IF task[t].pc = "admit" THEN "drop" ELSE "unhold")
  /\ UNCHANGED <<policy, denied, wired, desk, naming, inbox, ask, kept, ended, bounds>>

DropSender(t) ==
  LET s == Author[task[t].mail] IN
  /\ task[t].pc \in {"drop", "deny"}
  /\ senderHold' = [senderHold EXCEPT ![s] = IF @ = HeldFor(task[t].mail, task[t].agent) THEN NoRow ELSE @]
  /\ IF task[t].pc = "deny"
     THEN AdDone(t) /\ ended' = ended \cup {task[t].mail}
     ELSE AdGoto(t, "route") /\ UNCHANGED ended
  /\ UNCHANGED <<policy, access, channel, carded, naming, inbox, ask, kept, bounds>>

-----------------------------------------------------------------------------
(* Clicks on the card of a channel, and the name of a new agent. *)

\* The card names the channel, so a click acts on the row there is now.
PressChannel(k) ==
  /\ k \in Presses /\ task[k].pc = "idle"
  /\ \E r \in carded : r[2] = "channel"
  /\ \/ channel = NoMail /\ AdDone(k)
     \/ /\ channel # NoMail
        /\ \/ task' = [task EXCEPT ![k].pc = "reject", ![k].mail = channel]
           \/ task' = [task EXCEPT ![k].pc = "prompt", ![k].mail = channel]
           \/ \E a \in Existing : task' = [task EXCEPT ![k].pc = "wire", ![k].mail = channel, ![k].agent = a]
           \/ task' = [task EXCEPT ![k].pc = "abandon", ![k].mail = channel]
  /\ UNCHANGED <<policy, access, desk, naming, inbox, ask, kept, ended, bounds>>

\* Reject: the channel is denied, then the row goes.
DenyChannel(k) ==
  /\ task[k].pc = "reject"
  /\ denied' = TRUE
  /\ AdGoto(k, "abandon")
  /\ UNCHANGED <<policy, wired, members, desk, naming, inbox, ask, kept, ended, bounds>>

\* The row goes and its message with it: after a reject, when the target is
\* gone, or when the channel's defaults cannot be resolved.
DropChannel(t) ==
  /\ task[t].pc = "abandon"
  /\ channel' = NoMail
  /\ ended' = ended \cup ({task[t].mail, channel} \ {NoMail})
  /\ AdDone(t)
  /\ UNCHANGED <<policy, access, senderHold, carded, naming, inbox, ask, kept, bounds>>

\* New agent: the reply is awaited before the prompt goes out, and no longer
\* if the prompt fails.
ArmNaming(k) ==
  /\ task[k].pc = "prompt"
  /\ naming' = TRUE
  /\ AdGoto(k, "prompting")
  /\ UNCHANGED <<policy, access, desk, inbox, ask, kept, ended, bounds>>

PromptSettles(k) ==
  /\ task[k].pc = "prompting"
  /\ naming' \in {naming, FALSE}
  /\ AdDone(k)
  /\ UNCHANGED <<policy, access, desk, inbox, ask, kept, ended, bounds>>

\* The interceptor: disarmed first; an empty reply or a row that is gone ends it.
NameReply ==
  /\ naming /\ task["name"].pc = "idle"
  /\ naming' = FALSE
  /\ \/ /\ channel # NoMail
        /\ task' = [task EXCEPT !["name"] = [pc |-> "wire", mail |-> channel, agent |-> NewAgent, todo |-> {}]]
     \/ AdDone("name")
  /\ UNCHANGED <<policy, access, desk, inbox, ask, kept, ended, bounds>>

\* wireApprovedChannel: a second wiring of the same agent throws and leaves
\* the row to whoever made the first.
WireChannel(t) ==
  LET a == task[t].agent IN
  /\ task[t].pc = "wire"
  /\ IF a \in wired
     THEN AdDone(t) /\ UNCHANGED wired
     ELSE wired' = wired \cup {a} /\ AdGoto(t, "member")
  /\ UNCHANGED <<policy, denied, members, desk, naming, inbox, ask, kept, ended, bounds>>

\* The row is deleted by the channel's key: one that a later message put there
\* goes with it.
Unhold(t) ==
  /\ task[t].pc = "unhold"
  /\ channel' = NoMail
  /\ ended' = ended \cup ({channel} \ {NoMail, task[t].mail})
  /\ AdGoto(t, "route")
  /\ UNCHANGED <<policy, access, senderHold, carded, naming, inbox, ask, kept, bounds>>

-----------------------------------------------------------------------------
(* What happens to the host. *)

FlipPolicy ==
  /\ flips > 0
  /\ flips' = flips - 1
  /\ policy' \in Policies \ {policy}
  /\ UNCHANGED <<access, desk, naming, inbox, task, ask, kept, ended, adCrashes, adDied>>

AdHostCrash ==
  /\ adCrashes > 0
  /\ adCrashes' = adCrashes - 1
  /\ adDied' = TRUE
  /\ naming' = FALSE
  /\ task' = [t \in AdWorkers |-> IF task[t].pc = "idle" THEN FreeWorker ELSE SpentWorker]
  /\ ask' = [r \in DOMAIN ask |-> IF ask[r] = "idle" THEN "idle" ELSE "done"]
  /\ UNCHANGED <<policy, access, desk, inbox, kept, ended, flips>>

RouterStep(t) == RouteInbound(t) \/ (\E a \in Agents : AccessGate(t, a)) \/ DeliverToAgent(t) \/ FanOver(t)
ClickStep(t) ==
  \/ AddMember(t) \/ DropSender(t) \/ DenyChannel(t) \/ DropChannel(t)
  \/ ArmNaming(t) \/ PromptSettles(t) \/ WireChannel(t) \/ Unhold(t)
AskStep(r) ==
  \/ SendCard(r) \/ ClearStamp(r) \/ RequestSender(r) \/ InsertSender(r) \/ Decline(r)
ChannelStep(m) == RequestChannel(m) \/ InsertChannel(m)

NextAdmission ==
  \/ \E m \in Mail : Receive(m) \/ ChannelStep(m)
  \/ \E t \in AdWorkers : RouterStep(t) \/ ClickStep(t)
  \/ \E r \in DOMAIN ask : AskStep(r)
  \/ \E k \in Presses : PressSender(k) \/ PressChannel(k)
  \/ NameReply \/ FlipPolicy \/ AdHostCrash

\* What was started goes on.
AdmissionProgress ==
  \/ \E t \in AdWorkers : RouterStep(t) \/ ClickStep(t)
  \/ \E r \in DOMAIN ask : AskStep(r)
  \/ \E m \in Mail : ChannelStep(m)
FairAdmission == WF_admissionVars(AdmissionProgress)

AdmissionSpec == InitAdmission /\ [][NextAdmission]_admissionVars /\ FairAdmission

-----------------------------------------------------------------------------
(* Properties. *)

\* The values of every variable.
AdTypeOK ==
  /\ policy \in Policies /\ denied \in BOOLEAN
  /\ wired \subseteq Agents /\ members \subseteq Senders \X Agents
  /\ channel \in Mail \cup {NoMail}
  /\ \A s \in Senders : senderHold[s] \in {NoRow, Stamp} \cup {HeldFor(m, a) : m \in Mail, a \in Agents}
  /\ carded \subseteq DOMAIN ask
  /\ naming \in BOOLEAN /\ inbox \subseteq Mail \X Agents
  /\ \A t \in AdWorkers : task[t].mail \in Mail \cup {NoMail} /\ task[t].agent \in Agents
  /\ \A r \in DOMAIN ask : ask[r] \in {"idle", "start", "check", "insert", "card", "decline", "done"}
  /\ kept \subseteq DOMAIN ask /\ ended \subseteq Mail
  /\ adCrashes \in 0 .. MaxAdCrashes /\ adDied \in BOOLEAN /\ flips \in 0 .. MaxFlips

Handled(m) == (\E t \in AdWorkers : task[t].mail = m) \/ \E a \in Agents \cup {"channel"} : ask[<<m, a>>] \notin {"idle", "done"}
Held(m) == channel = m \/ \E s \in Senders : senderHold[s].kind = "card" /\ senderHold[s].mail = m

\* A message that was held is held still, is being worked on, reached an
\* agent, or a human let it go: no order of clicks, requests and replays drops
\* it (index.ts:310-319, 426-435).
HeldIsNotLost ==
  \A r \in kept :
    LET m == r[1] IN
    Held(m) \/ Handled(m) \/ m \in ended \/ (\E a \in Agents : <<m, a>> \in inbox) \/ adDied

\* Connecting a channel admits the sender before the message is routed again,
\* so the decision about the channel does not lead to a second card about the
\* sender (channel-approval.ts, On connect; index.ts:416-426).
NoSecondCard ==
  \A m \in Mail, a \in wired :
    <<m, "channel">> \in kept /\ wired = {a} => senderHold[Author[m]] # HeldFor(m, a)

AdmissionSafety == HeldIsNotLost /\ NoSecondCard

\* An approved message reaches its agent, or the replay stopped at an agent
\* that has it: such a message throws there, and the agents after it are not
\* served (index.ts:260-268, router.ts:374-442, session-db.ts:125).
Approved(m) == \E k \in Presses : task[k].pc = "admit" /\ task[k].mail = m
Heard(m) == (\E a \in Agents : <<m, a>> \in inbox) \/ adDied
ApprovedIsHeard == \A m \in Mail : Approved(m) ~> Heard(m)
=============================================================================
