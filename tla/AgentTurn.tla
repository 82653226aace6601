------------------------------ MODULE AgentTurn ------------------------------
(***************************************************************************)
(* What becomes of an agent's words (container/agent-runner:               *)
(* src/poll-loop.ts, src/providers/claude.ts, src/current-batch.ts,        *)
(* src/db/session-state.ts).                                               *)
(*                                                                         *)
(* The loop opens a query with a prompt; the query stays open for further  *)
(* prompts.  Each prompt is one turn: segments of text, tool calls, and a  *)
(* result that repeats the last segment.  Blocks are sent through one of   *)
(* two doors: while the text streams, for a provider that streams all of   *)
(* it, or from the result.  A turn that sent nothing is asked once to say  *)
(* it again.  Follow-ups are pushed by a timer, at any point of a turn;    *)
(* the send_message tool runs in a process of its own; the CLI may repeat  *)
(* a result.                                                               *)
(***************************************************************************)
EXTENDS MidTurnText

CONSTANTS
  TurnPlans,  \* what an instance may do: see Plans
  NoTurn,     \* no prompt is being answered
  NoText      \* no text

\* midturn, task: the provider's capability and the kind of the run; says: the
\* segments an agent may utter; texts, words: bounds on the segments and the
\* tokens of a turn; the rest counts what may still happen.
Plans == [midturn : BOOLEAN, task : BOOLEAN, says : SUBSET (Seq(STRING) \ {NoText}),
          texts : Nat, words : Nat, prompts : Nat, tools : Nat, repeats : Nat,
          denials : Nat, clears : Nat, crashes : Nat]
ASSUME TurnAssumption ==
  /\ TurnPlans \subseteq Plans
  /\ NoTurn \notin [of : Nat, retry : BOOLEAN]
  /\ NoTurn \notin [text : Seq(STRING) \cup {NoText}, failed : BOOLEAN]

VARIABLES
  plan,
  loop,      \* "idle", "query", or "down" between two containers
  cont,      \* the loop's continuation, 0 for none
  saved,     \* the continuation row of session_state
  conv,      \* conversation of the open query, 0 before its init event
  resumed,   \* continuation the open query was given
  convs,     \* history: conversations begun
  cleared,   \* history: the newest conversation when the last /clear was done
  asked,     \* prompts given so far
  inputs,    \* MessageStream: prompts and nudges not begun
  prompts,   \* archivePrompts
  first,     \* initialPrompt
  answering, \* what the agent answers: [of: prompt, retry: it is a nudge]
  said,      \* the turn's text so far
  segment,   \* its last segment
  at,        \* events of the turn so far
  turns,     \* history: counts the turns
  tail,      \* midTurnTail
  found,     \* history: what the scans of the turn found to send
  out,       \* chat rows of messages_out
  mark,      \* turnStartSeq
  sent,      \* midTurnSent
  nudged, taskNudged,  \* unwrappedNudged, taskBlockNudged
  flag,      \* sentUserMsgThisTurn
  calling,   \* body of a send_message under way
  seen,      \* resultDedup
  last,      \* the result that the CLI may repeat
  fresh,     \* history: something was pushed since that result
  mixed,     \* history: an exchange was recorded for a prompt it did not answer
  lost,      \* history: a turn's words went nowhere and nobody was told
  oddities   \* history: what happened that the doors cannot see

convVars == <<cont, saved, conv, resumed, convs, cleared>>
textVars == <<said, segment, at, turns, tail, found>>
nudgeVars == <<nudged, taskNudged, flag>>
queueVars == <<inputs, prompts, first, answering>>
doneVars == <<seen, last, fresh>>
auditVars == <<mixed, lost, oddities>>
turnVars == <<plan, loop, convVars, asked, queueVars, textVars, out, mark, sent,
              nudgeVars, calling, doneVars, auditVars>>

NoQuery ==
  /\ inputs = <<>> /\ prompts = <<>> /\ first = 0 /\ answering = NoTurn
  /\ said = <<>> /\ segment = NoText /\ at = 0 /\ tail = <<>> /\ found = <<>>
  /\ sent = 0 /\ nudged = FALSE /\ taskNudged = FALSE /\ flag = FALSE
  /\ calling = NoText /\ seen = {} /\ last = NoTurn /\ fresh = FALSE
  /\ conv = 0 /\ resumed = 0

InitTurn ==
  /\ plan \in TurnPlans
  /\ loop = "down"
  /\ cont = 0 /\ saved = 0 /\ convs = 0 /\ cleared = 0 /\ asked = 0 /\ turns = 0
  /\ out = <<>> /\ mark = 0
  /\ NoQuery
  /\ mixed = FALSE /\ lost = FALSE /\ oddities = {}

Spend(k) == plan[k] > 0 /\ plan' = [plan EXCEPT ![k] = @ - 1]

-----------------------------------------------------------------------------
(* The container and its conversation. *)

\* maybeRotateContinuation: a transcript that grew too large or too old is put
\* aside, and its conversation with it.
RotateContinuation == {saved, 0}

\* A container starts with the saved conversation, if it is still of use.
BootTurns ==
  /\ loop = "down"
  /\ loop' = "idle"
  /\ cont' \in RotateContinuation
  /\ saved' = cont'
  /\ UNCHANGED <<plan, conv, resumed, convs, cleared, asked, queueVars, textVars, out, mark, sent,
                 nudgeVars, calling, doneVars, auditVars>>

\* The locals of a query, when it is over.
DropQuery ==
  /\ inputs' = <<>> /\ prompts' = <<>> /\ first' = 0 /\ answering' = NoTurn
  /\ said' = <<>> /\ segment' = NoText /\ at' = 0 /\ tail' = <<>> /\ found' = <<>>
  /\ sent' = 0 /\ nudged' = FALSE /\ taskNudged' = FALSE /\ flag' = FALSE
  /\ calling' = NoText /\ seen' = {} /\ last' = NoTurn /\ fresh' = FALSE
  /\ conv' = 0 /\ resumed' = 0

TurnsCrash ==
  /\ loop # "down"
  /\ Spend("crashes")
  /\ loop' = "down"
  /\ cont' = 0
  /\ DropQuery
  /\ UNCHANGED <<saved, convs, cleared, asked, turns, out, mark, auditVars>>

Chat(body, by) == [body |-> body, by |-> by, of |-> turns, at |-> at]

\* clearContinuation, and the loop's own copy
Forget == cont' = 0 /\ saved' = 0

\* /clear, which the outer loop handles between two queries.
ClearTurns ==
  /\ loop = "idle"
  /\ Spend("clears")
  /\ Forget
  /\ cleared' = convs
  /\ out' = Append(out, Chat(<<"cleared">>, "loop"))
  /\ UNCHANGED <<loop, conv, resumed, convs, asked, queueVars, textVars, mark, sent,
                 nudgeVars, calling, doneVars, auditVars>>

\* A batch of messages is a first prompt; each query starts with clean locals.
OpenQuery ==
  /\ loop = "idle"
  /\ Spend("prompts")
  /\ loop' = "query"
  /\ asked' = asked + 1
  /\ inputs' = <<[of |-> asked + 1, retry |-> FALSE]>>
  /\ prompts' = <<asked + 1>>
  /\ first' = asked + 1
  /\ resumed' = cont
  /\ mark' = Len(out)
  /\ flag' = FALSE
  /\ turns' = turns + 1
  /\ UNCHANGED <<cont, saved, conv, convs, cleared, answering, said, segment, at, tail, found, out,
                 sent, nudged, taskNudged, calling, doneVars, auditVars>>

\* The SDK is given a conversation to resume, or begins one.
NamedConversation == IF resumed # 0 THEN resumed ELSE convs + 1

\* The init event names the conversation.
QueryInit ==
  /\ loop = "query"
  /\ conv = 0
  /\ conv' = NamedConversation
  /\ convs' = IF resumed # 0 THEN convs ELSE convs + 1
  /\ saved' = conv'
  /\ UNCHANGED <<plan, loop, cont, resumed, cleared, asked, queueVars, textVars, out, mark, sent,
                 nudgeVars, calling, doneVars, auditVars>>

\* The stream ends: a command waits and the query was aborted.
QueryEnds ==
  /\ loop = "query"
  /\ loop' = "idle"
  /\ cont' = IF conv # 0 THEN conv ELSE cont
  /\ saved' = IF conv # 0 /\ conv # cont THEN conv ELSE saved
  /\ DropQuery
  /\ UNCHANGED <<plan, convs, cleared, asked, turns, out, mark, auditVars>>

OldestPrompt == IF prompts = <<>> THEN first ELSE Head(prompts)
Mismatch(p) == answering # NoTurn /\ answering.of # p

\* The query throws: the error goes to the chat, and a continuation the
\* provider no longer knows is dropped.
QueryFails(invalid) ==
  /\ loop = "query"
  /\ Spend("crashes")
  /\ loop' = "idle"
  /\ cont' = IF invalid THEN 0 ELSE cont
  /\ saved' = IF invalid /\ cont # 0 THEN 0 ELSE saved
  /\ out' = Append(out, Chat(<<"error">>, "error"))
  /\ mixed' = (mixed \/ Mismatch(OldestPrompt))
  /\ DropQuery
  /\ UNCHANGED <<convs, cleared, asked, turns, mark, lost, oddities>>

-----------------------------------------------------------------------------
(* A turn. *)

\* The agent takes the next input of the stream.
TurnBegins ==
  /\ loop = "query"
  /\ conv # 0
  /\ answering = NoTurn
  /\ inputs # <<>>
  /\ answering' = Head(inputs)
  /\ inputs' = Tail(inputs)
  /\ last' = NoTurn
  /\ fresh' = FALSE
  /\ UNCHANGED <<plan, loop, convVars, asked, prompts, first, textVars, out, mark, sent,
                 nudgeVars, calling, seen, auditVars>>

\* wasWrittenInSeqWindow: the bodies that went out in this turn before this segment.
Echoes == {out[i].body : i \in mark + 1 .. Len(out)}

\* deliverMidTurnBlocks on the settled part of carry + text.
NotEchoed(blocks) == Without(blocks, Echoes)
RowsOf(blocks, by) == [i \in 1 .. Len(blocks) |-> Chat(blocks[i].body, by)]

TurnText(text) ==
  /\ answering # NoTurn
  /\ calling = NoText
  /\ at < plan.texts
  /\ Len(said) + Len(text) <= plan.words
  /\ segment' = text
  /\ said' = Join(said, text)
  /\ at' = at + 1
  /\ IF plan.midturn /\ ~plan.task
     THEN LET input == Join(tail, text)
              blocks == Sendable(Resolved(input))
              news == NotEchoed(blocks)
          IN /\ out' = out \o RowsOf(news, "door")
             /\ sent' = sent + Len(news)
             /\ tail' = Unresolved(input)
             /\ found' = found \o blocks
     ELSE UNCHANGED <<out, sent, tail, found>>
  /\ UNCHANGED <<plan, loop, convVars, asked, queueVars, turns, mark, nudgeVars, calling,
                 doneVars, auditVars>>

\* send_message: the hook of the claude provider sees the call ...
ToolBegins(body) ==
  /\ answering # NoTurn
  /\ calling = NoText
  /\ Spend("tools")
  /\ calling' = body
  /\ flag' = TRUE
  /\ UNCHANGED <<loop, convVars, asked, queueVars, textVars, out, mark, sent, nudged, taskNudged,
                 doneVars, auditVars>>

\* ... and the tool's own process writes the row, or refuses the destination.
ToolEnds(ok) ==
  /\ calling # NoText
  /\ out' = IF ok THEN Append(out, Chat(calling, "tool")) ELSE out
  /\ oddities' = IF ok THEN oddities ELSE oddities \cup {"refused"}
  /\ calling' = NoText
  /\ at' = at + 1
  /\ UNCHANGED <<plan, loop, convVars, asked, queueVars, said, segment, turns, tail, found, mark,
                 sent, nudgeVars, doneVars, mixed, lost>>

\* The host writes a denial beside the turn.
HostDenies ==
  /\ loop = "query"
  /\ Spend("denials")
  /\ out' = Append(out, Chat(<<"denied">>, "host"))
  /\ oddities' = oddities \cup {"denial"}
  /\ UNCHANGED <<loop, convVars, asked, queueVars, textVars, mark, sent, nudgeVars, calling,
                 doneVars, mixed, lost>>

\* The follow-up poller pushes a prompt, in a turn or between two.
PushFollowUp ==
  /\ loop = "query"
  /\ Spend("prompts")
  /\ asked' = asked + 1
  /\ inputs' = Append(inputs, [of |-> asked + 1, retry |-> FALSE])
  /\ prompts' = Append(prompts, asked + 1)
  /\ nudged' = FALSE
  /\ taskNudged' = FALSE
  /\ flag' = FALSE
  /\ seen' = {}
  /\ fresh' = TRUE
  /\ oddities' = IF answering # NoTurn \/ inputs # <<>> THEN oddities \cup {"overlap"} ELSE oddities
  /\ UNCHANGED <<loop, convVars, first, answering, textVars, out, mark, sent, calling, last, mixed, lost>>

-----------------------------------------------------------------------------
(* The result of a turn. *)

\* chatRowWrittenSince, and the count of the streaming door.
TurnDelivered == sent > 0 \/ Len(out) > mark

\* dispatchResultText: what the result sends, and whether words are left over.
ResultRows(text) == IF plan.midturn \/ plan.task THEN <<>> ELSE Sendable(text)
Leftover(text) ==
  LET read == Parse(Visible(text))
      unsent(b) == plan.task \/ ~b.known \/ b.body = <<>> \/ (plan.midturn /\ ~TurnDelivered)
  IN read.loose \/ \E i \in 1 .. Len(read.blocks) : unsent(read.blocks[i])
HasUnwrapped(text) ==
  /\ ~plan.task
  /\ ~(IF plan.midturn THEN TurnDelivered ELSE ResultRows(text) # <<>>)
  /\ Leftover(text)
BlockCount(text) == Len(Parse(Visible(text)).blocks)

\* willRetryWrapping and shouldNudgeTaskBlocks: each nudge once per prompt.
Rewrap(text) == HasUnwrapped(text) /\ ~nudged /\ ~flag
NudgeTask(text) == plan.task /\ BlockCount(text) > 0 /\ ~taskNudged

\* One dispatch of a result with a text; of: the turn it answers.
Dispatch(text, failed, of) ==
  LET retry == [of |-> of, retry |-> TRUE]
      notice == failed /\ BlockCount(text) = 0 /\ ~plan.task
      rewrap == ~notice /\ Rewrap(text)
      again == ~notice /\ NudgeTask(text)
      nudges == (IF rewrap THEN <<retry>> ELSE <<>>) \o (IF again THEN <<retry>> ELSE <<>>)
  IN /\ out' = out \o RowsOf(ResultRows(text), "result")
                   \o (IF notice THEN <<Chat(text, "error")>> ELSE <<>>)
     /\ inputs' = inputs \o nudges
     /\ nudged' = (nudged \/ rewrap)
     /\ taskNudged' = (taskNudged \/ again)
     /\ seen' = IF rewrap THEN {} ELSE seen \cup {text}
     /\ prompts' = IF nudges = <<>> /\ prompts # <<>> THEN Tail(prompts) ELSE prompts
     /\ mixed' = (mixed \/ of # OldestPrompt)

\* A result without text only takes the oldest prompt off.
DispatchEmpty ==
  /\ prompts' = IF prompts = <<>> THEN <<>> ELSE Tail(prompts)
  /\ UNCHANGED <<out, inputs, nudged, taskNudged, seen, mixed>>

\* PerTurnResultDedup: one copy of a text until the next push.
Taken(r, of) ==
  IF r.text = NoText THEN DispatchEmpty
  ELSE IF r.text \in seen THEN UNCHANGED <<out, inputs, nudged, taskNudged, seen, prompts, mixed>>
  ELSE Dispatch(r.text, r.failed, of)

\* The turn boundary.
Boundary ==
  /\ sent' = 0
  /\ mark' = Len(out')
  /\ tail' = <<>>

\* What the agent said last is the result; a failure carries a text of its own.
Results == {[text |-> segment, failed |-> FALSE], [text |-> <<"notice">>, failed |-> TRUE]}

TurnResult(r) ==
  /\ answering # NoTurn
  /\ calling = NoText
  /\ r \in Results
  /\ Taken(r, answering.of)
  /\ Boundary
  /\ lost' = (lost \/ (/\ r.text # NoText
                       /\ Visible(r.text) # <<>>
                       /\ ~plan.task /\ ~answering.retry
                       /\ ~\E i \in 1 .. Len(out') : out'[i].of = turns /\ out'[i].by # "host"
                       /\ inputs' = inputs))
  /\ turns' = turns + 1
  /\ said' = <<>> /\ segment' = NoText /\ at' = 0 /\ found' = <<>>
  /\ last' = r
  /\ fresh' = (r.text # NoText /\ seen' = {})
  /\ answering' = NoTurn
  /\ oddities' = IF r.text \in seen THEN oddities \cup {"swallowed"} ELSE oddities
  /\ UNCHANGED <<plan, loop, convVars, asked, first, flag, calling>>

\* The CLI writes the same result once more.
ResultRepeated ==
  /\ loop = "query"
  /\ answering = NoTurn
  /\ last # NoTurn
  /\ Spend("repeats")
  /\ Taken(last, 0)
  /\ Boundary
  /\ turns' = turns + 1
  /\ oddities' = IF fresh \/ last.text = NoText THEN oddities \cup {"repeat"} ELSE oddities
  /\ last' = NoTurn
  /\ fresh' = FALSE
  /\ UNCHANGED <<loop, convVars, asked, first, answering, said, segment, at, found, flag, calling, lost>>

NextTurn ==
  \/ BootTurns \/ TurnsCrash \/ ClearTurns \/ OpenQuery \/ QueryInit \/ QueryEnds
  \/ \E invalid \in BOOLEAN : QueryFails(invalid)
  \/ TurnBegins \/ HostDenies \/ PushFollowUp \/ ResultRepeated
  \/ \E text \in plan.says : TurnText(text) \/ ToolBegins(text)
  \/ \E ok \in BOOLEAN : ToolEnds(ok)
  \/ \E r \in Results : TurnResult(r)

TurnSpec == InitTurn /\ [][NextTurn]_turnVars

-----------------------------------------------------------------------------
(* Properties. *)

TurnTypeOK ==
  /\ plan \in Plans /\ loop \in {"down", "idle", "query"}
  /\ {cont, saved, conv, resumed} \subseteq 0 .. convs
  /\ answering = NoTurn \/ answering.of \in 0 .. asked
  /\ mark <= Len(out)
  /\ loop # "query" => answering = NoTurn /\ inputs = <<>> /\ sent = 0 /\ tail = <<>>

\* A draft was begun inside of a block.
DraftInBlock(s) ==
  \E i, j \in 1 .. Len(s) :
    i < j /\ s[i] \in Opens /\ s[j] = "I" /\ \A k \in i .. j : s[k] # "C"

\* A body between the tags of a block to a known destination.
StandsIn(body, s) ==
  \E a, b \in 1 .. Len(s) :
    a < b /\ s[a] = "M" /\ s[b] = "C" /\ body = SubSeq(s, a + 1, b - 1)
\* However the text of a turn is cut into segments, the streaming door has found
\* the blocks of the whole text up to what is still open, in order, and carries the
\* rest (poll-loop.ts:871 "as if run over the concatenation").  A draft that opens
\* inside of a block is the exception: a block can be missed, or cut elsewhere than
\* in the whole text.  Even then whatever was found stands between two tags outside
\* of every draft, closed or not: nothing of a draft is sent.
ScanIsWhole ==
  answering # NoTurn /\ plan.midturn /\ ~plan.task =>
    /\ ~DraftInBlock(said) => found = Sendable(Resolved(said)) /\ tail = Unresolved(said)
    /\ \A i \in 1 .. Len(found) : StandsIn(found[i].body, Spans(said).kept)

\* Everything the door found has gone out in its turn, and it never sends again
\* what the turn had sent before, by the door or by the tool.
SentOnceATurn ==
  /\ \A i \in 1 .. Len(found) : \E j \in 1 .. Len(out) : out[j].of = turns /\ out[j].body = found[i].body
  /\ \A i, j \in 1 .. Len(out) :
       i < j /\ out[j].by = "door" /\ out[i].of = out[j].of /\ out[i].at < out[j].at
         => out[i].body # out[j].body

\* A turn that ends in words of which nothing was sent is asked to say them again,
\* once.  It is not when a follow-up was pushed while it ran, when its tool
\* call was refused, when the host wrote a denial, or when the CLI repeated a result
\* after a push.
NoWordsLost == lost => oddities # {}

\* Each exchange is recorded for the prompt it answers, and a retry for the prompt
\* that needed it, unless a follow-up overtook the nudge, a result was repeated, or
\* the answer to a nudge was taken for a repetition because it says the same.
ExchangesMatch == mixed => oddities \cap {"overlap", "repeat", "swallowed"} # {}

\* No query resumes a conversation that a /clear ended, whatever crashes in between.
ClearedIsForgotten == \A c \in {resumed, cont, saved} : c # 0 => c > cleared

TurnSafety == ScanIsWhole /\ SentOnceATurn /\ NoWordsLost /\ ExchangesMatch /\ ClearedIsForgotten
=============================================================================
