------------------------------- MODULE Questions -------------------------------
(***************************************************************************)
(* A question with buttons.  The tool ask_user_question writes the card and *)
(* waits (mcp-tools/interactive.ts); the delivery keeps a row for the       *)
(* question and posts the card (src/delivery.ts); a tap is shown on the     *)
(* card, then handed to the module that owns the row                        *)
(* (channels/chat-sdk-bridge.ts, modules/interactive); the tool reads the   *)
(* answer from the inbound database.  A button carries the index of its     *)
(* option, which only the row can turn back into the option.                *)
(***************************************************************************)
EXTENDS Naturals, Sequences, FiniteSets

CONSTANTS
  Asked,       \* questions of one session
  Options,     \* what one may choose
  Taps,        \* taps on a button
  NoTap,
  MaxAttempts, \* MAX_DELIVERY_ATTEMPTS
  MaxQuFaults  \* bound: failed calls, crashes of the host and deletions of the group

ASSUME QuestionConstants == MaxAttempts \in Nat \ {0} /\ MaxQuFaults \in Nat

VARIABLES
  asker,    \* the tool call: "idle", "waits", "told", "late" (timed out) or "dead"
  told,     \* what it returned
  card,     \* the outbound row: "none", "due", "sent" or "failed"
  attempts, \* deliveryAttempts, in the memory of the host
  posting,  \* the delivery: "no", "row" (recorded, about to post) or "up" (on the screen)
  qRow,     \* pending_questions
  faces,    \* for each copy of the card on the screen, what it shows
  tap,      \* [Taps -> NoTap or a record of its way]
  replies,  \* answers in messages_in
  acked,    \* answers in processing_ack
  sessionGone,
  quFaults

delivery == <<card, attempts, posting>>
agentSide == <<asker, told, acked>>
questionVars == <<asker, told, card, attempts, posting, qRow, faces, tap, replies, acked,
                  sessionGone, quFaults>>

\* An option by its value, or the index on the button, which stands for it.
Value(o) == [option |-> o, raw |-> FALSE]
Index(o) == [option |-> o, raw |-> TRUE]
Buttons == [option |-> "buttons", raw |-> FALSE]
Nothing == [option |-> "nothing", raw |-> FALSE]
QuFault == quFaults < MaxQuFaults /\ quFaults' = quFaults + 1

InitQuestions ==
  /\ asker = [q \in Asked |-> "idle"] /\ told = [q \in Asked |-> Nothing]
  /\ card = [q \in Asked |-> "none"] /\ attempts = [q \in Asked |-> 0]
  /\ posting = [q \in Asked |-> "no"] /\ qRow = [q \in Asked |-> FALSE]
  /\ faces = [q \in Asked |-> <<>>] /\ tap = [k \in Taps |-> NoTap]
  /\ replies = [q \in Asked |-> <<>>] /\ acked = {}
  /\ sessionGone = FALSE /\ quFaults = 0

-----------------------------------------------------------------------------
(* The tool. *)

Ask(q) ==
  /\ asker[q] = "idle"
  /\ asker' = [asker EXCEPT ![q] = "waits"] /\ card' = [card EXCEPT ![q] = "due"]
  /\ UNCHANGED <<told, attempts, posting, qRow, faces, tap, replies, acked, sessionGone, quFaults>>

\* findQuestionResponse: the first answer of the question, unless it is acked.
AnswerThere(q) == replies[q] # <<>> /\ <<q, 1>> \notin acked

TakeAnswer(q) ==
  /\ asker[q] = "waits" /\ AnswerThere(q)
  /\ asker' = [asker EXCEPT ![q] = "told"]
  /\ told' = [told EXCEPT ![q] = Head(replies[q])]
  /\ acked' = acked \cup {<<q, 1>>}
  /\ UNCHANGED <<delivery, qRow, faces, tap, replies, sessionGone, quFaults>>

\* The deadline passes, or the container is gone.
GivesUp(q) ==
  /\ asker[q] = "waits"
  /\ \E e \in {"late", "dead"} : asker' = [asker EXCEPT ![q] = e]
  /\ UNCHANGED <<told, delivery, qRow, faces, tap, replies, acked, sessionGone, quFaults>>

-----------------------------------------------------------------------------
(* The delivery of the card. *)

\* createPendingQuestion: nothing happens where the row is there; the row refers
\* to the session.
Record(q) ==
  /\ card[q] = "due" /\ posting[q] = "no" /\ ~sessionGone
  /\ posting' = [posting EXCEPT ![q] = "row"]
  /\ qRow' = [qRow EXCEPT ![q] = TRUE]
  /\ UNCHANGED <<agentSide, card, attempts, faces, tap, replies, sessionGone, quFaults>>

Post(q) ==
  /\ posting[q] = "row"
  /\ posting' = [posting EXCEPT ![q] = "up"]
  /\ faces' = [faces EXCEPT ![q] = Append(@, Buttons)]
  /\ UNCHANGED <<agentSide, card, attempts, qRow, tap, replies, sessionGone, quFaults>>

Sent(q) ==
  /\ posting[q] = "up"
  /\ posting' = [posting EXCEPT ![q] = "no"]
  /\ card' = [card EXCEPT ![q] = "sent"] /\ attempts' = [attempts EXCEPT ![q] = 0]
  /\ UNCHANGED <<agentSide, qRow, faces, tap, replies, sessionGone, quFaults>>

\* The call fails, before or after the platform has put the card up.
PostFails(q) ==
  /\ posting[q] \in {"row", "up"} /\ QuFault
  /\ posting' = [posting EXCEPT ![q] = "no"]
  /\ IF attempts[q] + 1 >= MaxAttempts
     THEN card' = [card EXCEPT ![q] = "failed"] /\ attempts' = [attempts EXCEPT ![q] = 0]
     ELSE attempts' = [attempts EXCEPT ![q] = @ + 1] /\ UNCHANGED card
  /\ UNCHANGED <<agentSide, qRow, faces, tap, replies, sessionGone>>

-----------------------------------------------------------------------------
(* A tap. *)

Press(k, q, c, o) ==
  /\ tap[k] = NoTap /\ c \in DOMAIN faces[q] /\ faces[q][c] = Buttons
  /\ tap' = [tap EXCEPT ![k] = [q |-> q, c |-> c, o |-> o, known |-> FALSE, at |-> "pressed"]]
  /\ UNCHANGED <<agentSide, delivery, qRow, faces, replies, sessionGone, quFaults>>

TapAt(k, s) == tap[k] # NoTap /\ tap[k].at = s
TapGoes(k, s) == tap' = [tap EXCEPT ![k].at = s]
\* resolveSelectedOption.
Chosen(k) == IF tap[k].known THEN Value(tap[k].o) ELSE Index(tap[k].o)

\* The render data is read before the answer is handed on, which deletes the row.
Resolve(k) ==
  /\ TapAt(k, "pressed")
  /\ tap' = [tap EXCEPT ![k].known = qRow[tap[k].q], ![k].at = "read"]
  /\ UNCHANGED <<agentSide, delivery, qRow, faces, replies, sessionGone, quFaults>>

\* The edit that replaces the buttons by the choice; a failure is logged.
ShowChoice(k) ==
  /\ TapAt(k, "read") /\ TapGoes(k, "shown")
  /\ \/ faces' = [faces EXCEPT ![tap[k].q][tap[k].c] = Chosen(k)] /\ UNCHANGED quFaults
     \/ UNCHANGED faces /\ QuFault
  /\ UNCHANGED <<agentSide, delivery, qRow, replies, sessionGone>>

ClaimBug(k) ==  \* mutant: the row is dropped before the answer is written
  /\ TapAt(k, "shown")
  /\ TapGoes(k, IF qRow[tap[k].q] THEN "claimed" ELSE "done")
  /\ qRow' = [qRow EXCEPT ![tap[k].q] = FALSE]
  /\ UNCHANGED <<agentSide, delivery, faces, replies, sessionGone, quFaults>>
\* onAction, dispatchResponse, handleInteractiveResponse: no row, no owner.
Claim(k) ==
  /\ TapAt(k, "shown")
  /\ TapGoes(k, IF qRow[tap[k].q] THEN "claimed" ELSE "done")
  /\ UNCHANGED <<agentSide, delivery, qRow, faces, replies, sessionGone, quFaults>>

\* The answer's id is made of the question and the millisecond: the second of
\* two in one millisecond is refused and the handler throws.
WriteAnswer(k) ==
  /\ TapAt(k, "claimed")
  /\ LET q == tap[k].q IN
     \/ /\ sessionGone /\ TapGoes(k, "done")
        /\ qRow' = [qRow EXCEPT ![q] = FALSE] /\ UNCHANGED replies
     \/ /\ ~sessionGone /\ TapGoes(k, "wrote")
        /\ replies' = [replies EXCEPT ![q] = Append(@, Chosen(k))] /\ UNCHANGED qRow
     \/ /\ replies[q] # <<>> /\ TapGoes(k, "done") /\ UNCHANGED <<qRow, replies>>
  /\ UNCHANGED <<agentSide, delivery, faces, sessionGone, quFaults>>

DropRow(k) ==
  /\ TapAt(k, "wrote") /\ TapGoes(k, "done")
  /\ qRow' = [qRow EXCEPT ![tap[k].q] = FALSE]
  /\ UNCHANGED <<agentSide, delivery, faces, replies, sessionGone, quFaults>>

-----------------------------------------------------------------------------
(* The surroundings. *)

HostCrashes ==
  /\ QuFault
  /\ attempts' = [q \in Asked |-> 0] /\ posting' = [q \in Asked |-> "no"]
  /\ tap' = [k \in Taps |-> IF tap[k] = NoTap \/ TapAt(k, "done") THEN tap[k]
                             ELSE [tap[k] EXCEPT !.at = "lost"]]
  /\ UNCHANGED <<agentSide, card, qRow, faces, replies, sessionGone>>

\* ncl groups delete: the questions with the sessions, in one transaction; the
\* container runs on.
DeleteGroup ==
  /\ ~sessionGone /\ QuFault
  /\ sessionGone' = TRUE /\ qRow' = [q \in Asked |-> FALSE]
  /\ UNCHANGED <<agentSide, delivery, faces, tap, replies>>

TapStep(k) == Resolve(k) \/ ShowChoice(k) \/ Claim(k) \/ WriteAnswer(k) \/ DropRow(k)
NextQuestions ==
  \/ \E q \in Asked : \/ Ask(q) \/ TakeAnswer(q) \/ GivesUp(q)
                      \/ Record(q) \/ Post(q) \/ Sent(q) \/ PostFails(q)
  \/ \E k \in Taps, q \in Asked, o \in Options : \E c \in DOMAIN faces[q] : Press(k, q, c, o)
  \/ \E k \in Taps : TapStep(k)
  \/ HostCrashes \/ DeleteGroup
\* The handlers of a tap are awaited one after the other.
FairQuestions == \A k \in Taps : WF_questionVars(TapStep(k))
QuestionSpec == InitQuestions /\ [][NextQuestions]_questionVars /\ FairQuestions

-----------------------------------------------------------------------------
(* Properties. *)

Picked == {Value(o) : o \in Options} \cup {Index(o) : o \in Options}

\* The values of every variable.
QuTypeOK ==
  /\ asker \in [Asked -> {"idle", "waits", "told", "late", "dead"}]
  /\ told \in [Asked -> Picked \cup {Nothing}]
  /\ card \in [Asked -> {"none", "due", "sent", "failed"}]
  /\ attempts \in [Asked -> 0 .. MaxAttempts - 1] /\ posting \in [Asked -> {"no", "row", "up"}]
  /\ qRow \in [Asked -> BOOLEAN]
  /\ \A q \in Asked : \A c \in DOMAIN faces[q] : faces[q][c] \in Picked \cup {Buttons}
  /\ \A k \in Taps : tap[k] = NoTap \/ tap[k].at \in {"pressed", "read", "shown", "claimed",
                                                      "wrote", "done", "lost"}
  /\ \A q \in Asked : \A i \in DOMAIN replies[q] : replies[q][i] \in Picked
  /\ acked \subseteq Asked \X {1}
  /\ sessionGone \in BOOLEAN /\ quFaults \in 0 .. MaxQuFaults

\* As long as buttons are on the screen, a tap on them has somewhere to go, or
\* the question is answered, or its group is gone: the row is recorded before the
\* card is posted and outlives failures and crashes (delivery.ts:420-445).
ButtonsAnswerable ==
  \A q \in Asked :
    (\E c \in DOMAIN faces[q] : faces[q][c] = Buttons) =>
      qRow[q] \/ replies[q] # <<>> \/ sessionGone

\* The tool returns one of the options it offered, never the index of a button:
\* not even when a card posted twice is tapped again after its row was deleted
\* and recorded anew (chat-sdk-bridge.ts:363-378, 727).
ToldIsOption == \A q \in Asked : asker[q] = "told" => ~told[q].raw

\* A choice of a tap that found its question comes to the agent, or that of a
\* tap beside it, unless the host crashed or the group was deleted.
ChoiceIsPassedOn ==
  \A k \in Taps : TapAt(k, "done") /\ tap[k].known /\ ~sessionGone => replies[tap[k].q] # <<>>

\* An answer that nobody will ever take, which stays due and wakes containers,
\* is one for a tool that gave up, or beside another answer.
StrayAnswers ==
  \A q \in Asked : \A i \in DOMAIN replies[q] :
    <<q, i>> \notin acked => asker[q] \in {"waits", "late", "dead"} \/ i > 1

\* A tap that found its question recorded brings the agent's tool an answer, its
\* own or that of a tap beside it, or is lost with the host or the group
\* (chat-sdk-bridge.ts:719-754, modules/interactive/index.ts:23-56).
Tapped(k) == TapAt(k, "read") /\ tap[k].known
TapLanded(k) == TapAt(k, "lost") \/ sessionGone \/ (TapAt(k, "done") /\ replies[tap[k].q] # <<>>)
TapsLand == \A k \in Taps : Tapped(k) ~> TapLanded(k)

QuestionSafety == ButtonsAnswerable /\ ToldIsOption /\ ChoiceIsPassedOn /\ StrayAnswers
=============================================================================
