----------------------------- MODULE MCOuterParts -----------------------------
(* More small parts, one behaviour of one part at a time: the numbers of a   *)
(* session's messages, an update, a question with buttons, a reply on its    *)
(* way to a platform, a command an agent gives, a message on its way in from *)
(* a platform, and a container that may be stuck.                            *)
EXTENDS SeqNumbers, UpdateTransaction, Questions, ChatReplies, SplitForLimit, NclCommands,
        ChatInbound, ToolWatch, TLC

CONSTANTS
  m1, m2, run1, tool1, ncl1, deny1,  \* two inbound rows, and one of every other author
  migration,
  q1, k1, k2,                        \* a question and two taps
  call1,                             \* a command
  botP, botN, adP1, adP2, adN,       \* two bots and their adapters
  msgX, msgY,                        \* two messages
  bash, other                        \* a Bash call and another tool

VARIABLE part

TwoIn == {m1, m2}
AllOut == {run1, tool1, ncl1, deny1}
AllAuthors == (run1 :> "runner") @@ (tool1 :> "tools") @@ (ncl1 :> "ncl") @@ (deny1 :> "gate")

\* botN has an instance of its own; botP is started twice.
BotOfEach == (adP1 :> botP) @@ (adP2 :> botP) @@ (adN :> botN)
SeenByEach == (msgX :> {botP, botN}) @@ (msgY :> {botP})
LongBash == (bash :> 3) @@ (other :> 0)

\* All texts of up to five characters; some of them on their way with failures,
\* with a file or not, the others with neither.
ShortTexts == UNION {[1 .. n -> {"w", "s", "n"}] : n \in 0 .. 5}
ShortChunks == Chunked(ShortTexts, Limit)
Troubled == {<<>>, <<"w">>, <<"w", "w", "w", "w">>, <<"n", "w", "w", "w">>}
ReplyScenario == IF text \in Troubled THEN crFaults = 0 ELSE crFaults = MaxCrFaults /\ ~withFile
NoReplies == text = <<>> /\ crFaults = MaxCrFaults

partVars == <<vars, updateVars, questionVars, replyVars, ncVars, chVars, twVars>>

InitOuter ==
  /\ part \in {"numbers", "update", "questions", "replies", "ncl", "chat", "watch"}
  /\ Init
  /\ InitUpdate /\ (part # "update" => service = "up")
  /\ InitQuestions
  /\ InitReplies /\ (IF part = "replies" THEN ReplyScenario ELSE NoReplies)
  /\ InitNcl
  /\ part # "ncl" => does = [c \in Calls |-> "read"] /\ aim = [c \in Calls |-> "own"] /\ scope = "group"
  /\ InitChat /\ (part # "chat" => viaGateway)
  /\ InitWatch

NextOuter ==
  /\ UNCHANGED part
  /\ \/ /\ part = "numbers" /\ Next
        /\ UNCHANGED <<updateVars, questionVars, replyVars, ncVars, chVars, twVars>>
     \/ /\ part = "update" /\ NextUpdate
        /\ UNCHANGED <<vars, questionVars, replyVars, ncVars, chVars, twVars>>
     \/ /\ part = "questions" /\ NextQuestions
        /\ UNCHANGED <<vars, updateVars, replyVars, ncVars, chVars, twVars>>
     \/ /\ part = "replies" /\ NextReplies
        /\ UNCHANGED <<vars, updateVars, questionVars, ncVars, chVars, twVars>>
     \/ /\ part = "ncl" /\ NextNcl
        /\ UNCHANGED <<vars, updateVars, questionVars, replyVars, chVars, twVars>>
     \/ /\ part = "chat" /\ NextChat
        /\ UNCHANGED <<vars, updateVars, questionVars, replyVars, ncVars, twVars>>
     \/ /\ part = "watch" /\ NextWatch
        /\ UNCHANGED <<vars, updateVars, questionVars, replyVars, ncVars, chVars>>

\* FairUpdate, FairQuestions, FairReplies, FairNcl, FairChat and FairWatch, for the part that moves.
OuterSpec ==
  /\ InitOuter /\ [][NextOuter]_<<part, partVars>>
  /\ WF_updateVars(part = "update" /\ ToolStep)
  /\ \A k \in Taps : WF_questionVars(part = "questions" /\ TapStep(k))
  /\ WF_replyVars(part = "replies" /\ PassStep)
  /\ WF_ncVars(part = "ncl" /\ DrainStep)
  /\ \A a \in Adapters : WF_chVars(part = "chat" /\ StartGateway(a))
  /\ WF_twVars(part = "watch" /\ SweepKills) /\ WF_twVars(part = "watch" /\ Tick)

\* Of the parts that stand still nothing has to be looked at.
OuterTypeOK ==
  CASE part = "update" -> UpTypeOK [] part = "questions" -> QuTypeOK
    [] part = "replies" -> CrTypeOK [] part = "ncl" -> NcTypeOK
    [] part = "chat" -> ChTypeOK [] part = "watch" -> TwTypeOK [] OTHER -> TRUE

\* A cutover that fails leaves what it found or says that it did not.  What a
\* person sees in a chat and what the agent was told agree: the card of a
\* question with the answer, the posts of a reply with its text.  What an agent
\* does with ncl was allowed, and is told to it as it was.  A message comes in
\* once for every bot that sees it, and a container that showed life is spared.
OuterSafety ==
  CASE part = "update" -> UpdateSafety [] part = "questions" -> QuestionSafety
    [] part = "replies" -> ReplySafety [] part = "ncl" -> NclSafety
    [] part = "chat" -> ChatInSafety [] part = "watch" -> WatchSafety [] OTHER -> TRUE

\* What a part promises to come to: CutoverEnds, TapsLand (of one of two taps
\* that are alike), ReplyEnds, CommandSettles, GatewayReturns (of one of two
\* adapters that are alike) and SilenceEnds.
OuterOwes ==
  CASE part = "update" -> tool = "drain" [] part = "questions" -> Tapped(k1)
    [] part = "replies" -> replyRow = "due" [] part = "ncl" -> request[call1] = "due"
    [] part = "chat" -> listener[adP1] = "waiting" [] part = "watch" -> Overdue
    [] OTHER -> FALSE
OuterPays ==
  CASE part = "update" -> CutoverSettled [] part = "questions" -> TapLanded(k1)
    [] part = "replies" -> replyRow \in {"sent", "failed"}
    [] part = "ncl" -> request[call1] \in {"delivered", "failed"}
    [] part = "chat" -> listener[adP1] # "waiting" [] part = "watch" -> ~Overdue
    [] OTHER -> FALSE
OuterLive == OuterOwes ~> OuterPays
=============================================================================
