----------------------------- MODULE MCHostParts -----------------------------
(* Small parts of the system, one behaviour of one part at a time.  The      *)
(* parts share no variable, so each moves as it would alone.                 *)
EXTENDS InboundQueue, Approvals, Admission, TaskSeries,
        AgentTurn, Conversations, AgentMail, TLC

CONSTANTS
  c1, m1, m2,                      \* a task session's container and rows
  hold, cred, click1, click2,      \* an action, a credential request and two clicks
  a1, a2, an, mail1, mail2, user,  \* agents, messages and their author
  order1,
  x1, x2, y1, post1,               \* messages of two threads and a post
  g1, gt, h1, w1,                  \* sessions of three groups, gt of a task
  ask_1, ask_2, reply                 \* letters between them

VARIABLE part

TaskChat == (m1 :> "task") @@ (m2 :> "chat")
QueueRows == {m1, m2}
QueueContainers == {c1}
OneAuthor == (mail1 :> user) @@ (mail2 :> user)
Channels == {{}, {a1}, {a1, a2}}
TwoThreads == (x1 :> "a") @@ (x2 :> "a") @@ (y1 :> "b")

Home == (g1 :> "G") @@ (gt :> "G") @@ (h1 :> "H") @@ (w1 :> "W")
Born == (g1 :> 1) @@ (gt :> 3) @@ (h1 :> 2) @@ (w1 :> 4)
Writers == (ask_1 :> {gt}) @@ (ask_2 :> {g1, h1}) @@ (reply :> {w1})
Readers == (ask_1 :> {"W"}) @@ (ask_2 :> {"W"}) @@ (reply :> {"G", "H"})

partVars == <<vars, approvalVars, admissionVars, seriesVars, turnVars,
              conversationVars, mailVars>>

\* One message and a crash, or two messages and a change of policy where one
\* agent is wired.
OneMail == task[mail1] = FreeWorker /\ task[mail2] = SpentWorker
AdmissionScenario ==
  /\ \A k \in Presses \cup {"name"} : task[k] = FreeWorker
  /\ IF wired = {a1}
     THEN (\A m \in Mail : task[m] = FreeWorker) /\ flips = MaxFlips /\ adCrashes = 0
     ELSE OneMail /\ flips = 0 /\ adCrashes = MaxAdCrashes
NoAdmission ==
  wired = {} /\ (\A t \in AdWorkers : task[t] = FreeWorker) /\ adCrashes = 0 /\ flips = 0

ApprovalScenario == \E i \in ApIds : asking[i] = "idle" /\ \A j \in ApIds \ {i} : asking[j] = "never"
NoApproval == apCrashes = 0 /\ \A i \in ApIds : asking[i] = "idle"

\* A crash or a fourth occurrence.
SeriesScenario ==
  \/ occ[MaxOccs] = "none" /\ tsCrashes = MaxTsCrashes
  \/ occ[MaxOccs] # "none" /\ occ[MaxOccs - 1] = "none" /\ tsCrashes = 0
NoSeries == occ[MaxOccs] = "none" /\ tsCrashes = 0

\* The text of a turn in pieces; both doors with a tool call; conversations with
\* a /clear and a crash; repeated results of every kind of provider and run; pushes.
NoPlan == [midturn |-> TRUE, task |-> FALSE, says |-> {}, texts |-> 0, words |-> 0, prompts |-> 0,
           tools |-> 0, repeats |-> 0, denials |-> 0, clears |-> 0, crashes |-> 0]
Block == <<"M", "x", "C">>
Talk == [NoPlan EXCEPT !.says = {Block, <<"y">>}, !.texts = 1, !.words = 5, !.prompts = 2]
Talks == {
  NoPlan,
  [NoPlan EXCEPT !.says = {<<t>> : t \in {"P", "Q", "C", "I", "J"}}, !.texts = 6, !.words = 5, !.prompts = 1],
  [NoPlan EXCEPT !.says = {Block, <<"U", "x">>, <<"M", "x">>, <<"C">>}, !.texts = 2, !.words = 5,
                 !.prompts = 1, !.tools = 1],
  [Talk EXCEPT !.says = {<<"y">>}, !.clears = 1, !.crashes = 1],
  [Talk EXCEPT !.tools = 1],
  [Talk EXCEPT !.says = {<<"y">>}, !.denials = 1]}
  \cup {[Talk EXCEPT !.repeats = 1, !.midturn = mt, !.task = tk] : mt, tk \in BOOLEAN}

\* Two messages of one thread and one of another; or one of each, a post and a fault.
ConversationScenario ==
  /\ routing[x1] = "new" /\ routing[y1] = "new"
  /\ IF routing[x2] = "new"
     THEN /\ posted[post1] = "never" /\ (x2 \in mentions => x1 \in mentions) /\ mentions # {}
          /\ (mentions = Texts => ignoring = "drop" /\ mode = "plain")
          /\ cvFaults = MaxCvFaults \/ mentions = Texts
     ELSE posted[post1] = "unsaid" /\ mode = "sticky"
NoConversation ==
  /\ \A x \in Texts : routing[x] = "never"
  /\ \A p \in Posts : posted[p] = "never"
  /\ mentions = {} /\ mode = "plain" /\ ignoring = "drop" /\ cvFaults = 0

\* One letter with two edits and a fault; or two questions and an answer.
MailScenario ==
  /\ row[ask_1] = "unsent" /\ row[reply] = row[ask_2]
  /\ IF row[ask_2] = "never"
     THEN mailFaults = 0 /\ edits = 0 /\ opened = Sessions /\ gates \in {{}, {<<"G", "W">>}}
     ELSE /\ mailFaults = MaxMailFaults /\ edits = MaxEdits
          /\ opened \in {Sessions, Sessions \ {w1}} /\ gates = {}
NoMailing ==
  gates = {} /\ opened = {} /\ mailFaults = 0 /\ edits = 0 /\ \A l \in Letters : row[l] = "never"

InitParts ==
  /\ part \in {"queue", "approvals", "admission", "series", "turn", "conversations", "mail"}
  /\ Init
  /\ InitApprovals
  /\ IF part = "approvals" THEN apCrashes = 0 /\ ApprovalScenario ELSE NoApproval
  /\ InitAdmission /\ (IF part = "admission" THEN AdmissionScenario ELSE NoAdmission)
  /\ InitSeries /\ (IF part = "series" THEN SeriesScenario ELSE NoSeries)
  /\ InitTurn /\ (plan = NoPlan) = (part # "turn")
  /\ InitConversations
  /\ IF part = "conversations" THEN ConversationScenario ELSE NoConversation
  /\ InitMail
  /\ IF part = "mail" THEN MailScenario ELSE NoMailing

NextParts ==
  /\ UNCHANGED part
  /\ \/ /\ part = "queue" /\ Next
        /\ UNCHANGED <<approvalVars, admissionVars, seriesVars,
                       turnVars, conversationVars, mailVars>>
     \/ /\ part = "approvals" /\ NextApprovals
        /\ UNCHANGED <<vars, admissionVars, seriesVars,
                       turnVars, conversationVars, mailVars>>
     \/ /\ part = "admission" /\ NextAdmission
        /\ UNCHANGED <<vars, approvalVars, seriesVars,
                       turnVars, conversationVars, mailVars>>
     \/ /\ part = "series" /\ NextSeries
        /\ UNCHANGED <<vars, approvalVars, admissionVars,
                       turnVars, conversationVars, mailVars>>
     \/ /\ part = "turn" /\ NextTurn
        /\ UNCHANGED <<vars, approvalVars, admissionVars, seriesVars,
                       conversationVars, mailVars>>
     \/ /\ part = "conversations" /\ NextConversations
        /\ UNCHANGED <<vars, approvalVars, admissionVars, seriesVars,
                       turnVars, mailVars>>
     \/ /\ part = "mail" /\ NextMail
        /\ UNCHANGED <<vars, approvalVars, admissionVars, seriesVars,
                       turnVars, conversationVars>>

\* The fairness of each part: FairQueue, FairApprovals, FairAdmission
\* and FairSeries for the part that moves; a routing once begun goes on.
PartsSpec ==
  /\ InitParts /\ [][NextParts]_<<part, partVars>>
  /\ \A c \in Containers :
       WF_vars(part = "queue" /\ Turn(c)) /\ WF_vars(part = "queue" /\ c \in aborted /\ EndQuery(c))
  /\ \A m \in Messages : WF_vars(part = "queue" /\ Due(m))
  /\ WF_vars(part = "queue" /\ \E c \in Containers : Spawn(c))
  /\ WF_vars(part = "queue" /\ Finish)
  /\ WF_vars(part = "queue" /\ Sweep)
  /\ WF_vars(part = "queue" /\ tracked # NoContainer /\ Silent(tracked) /\ SweepKills)
  /\ WF_approvalVars(part = "approvals" /\ ApprovalProgress)
  /\ WF_admissionVars(part = "admission" /\ AdmissionProgress)
  /\ WF_seriesVars(part = "series" /\ SeriesSweep)
  /\ WF_conversationVars(part = "conversations" /\ \E x \in Texts : Route(x))
  /\ WF_mailVars(part = "mail" /\ \E l \in Letters : Carry(l))

\* Of the parts that stand still nothing has to be looked at.
PartsTypeOK ==
  CASE part = "queue" -> TypeOK [] part = "approvals" -> ApTypeOK [] part = "admission" -> AdTypeOK
    [] part = "series" -> TsTypeOK [] part = "turn" -> TurnTypeOK
    [] part = "conversations" -> CvTypeOK [] part = "mail" -> AmTypeOK

\* What each part promises to come to: Settles, ReasonSettles,
\* GatewayIsAnswered, ApprovedIsHeard, CreationIsFree, RunsAreFollowed (the last occurrence has
\* no room for a successor), one promise of every part at a time.
Owes ==
  CASE part = "queue" -> <<Wanted(m1), Wanted(m2), FALSE>>
    [] part = "approvals" -> <<ReasonOwed(hold), asking[cred] = "card", FALSE>>
    [] part = "admission" -> <<Approved(mail1), Approved(mail2), FALSE>>
    [] part = "series" -> <<RunOver(1), RunOver(2), RunOver(3)>>
    [] part = "turn" -> <<FALSE, FALSE, FALSE>>
    [] part = "conversations" -> <<Locking(x1), Locking(x2), Locking(y1)>>
    [] part = "mail" -> <<Waits(ask_1), Waits(ask_2), Waits(reply)>>
Pays ==
  CASE part = "queue" -> <<Settled(m1), Settled(m2), FALSE>>
    [] part = "approvals" -> <<ReasonPaid(hold), decision[cred] # "none", FALSE>>
    [] part = "admission" -> <<Heard(mail1), Heard(mail2), FALSE>>
    [] part = "series" -> <<Followed(1), Followed(2), Followed(3)>>
    [] part = "turn" -> <<FALSE, FALSE, FALSE>>
    [] part = "conversations" -> <<Routed(x1), Routed(x2), Routed(y1)>>
    [] part = "mail" -> <<CarriedOut(ask_1), CarriedOut(ask_2), CarriedOut(reply)>>
PartsLive == \A i \in 1 .. 3 : Owes[i] ~> Pays[i]
=============================================================================
