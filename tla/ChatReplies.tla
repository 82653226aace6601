------------------------------ MODULE ChatReplies ------------------------------
(***************************************************************************)
(* A reply on its way to a chat platform: the tool puts a file into the     *)
(* outbox and writes the row (mcp-tools/core.ts); the delivery reads both   *)
(* (src/delivery.ts) and the bridge posts the text in chunks, each as       *)
(* markdown, as plain text where the platform refuses the markup, or as a   *)
(* stub (channels/chat-sdk-bridge.ts); a pass that fails is repeated from   *)
(* the first chunk.  Later the agent may edit the reply by the id that the  *)
(* delivery recorded.                                                       *)
(***************************************************************************)
EXTENDS Naturals, Sequences, SequencesExt, FiniteSets

CONSTANTS
  ReplyTexts,   \* texts, as sequences of "w" (a letter), "s" (a space) and "n" (a newline)
  Limit,        \* maxTextLength
  ChunksOf,     \* the posts of a text: see SplitForLimit
  MaxPasses,    \* MAX_DELIVERY_ATTEMPTS
  MaxCrFaults   \* bound: failing posts and crashes of the host

Characters == {"w", "s", "n"}
IsLetter(c) == c = "w"
\* No chunk is longer than the platform takes, the letters are all there and in
\* their order, and no chunk is empty but the first of a text that begins with
\* white space (chat-sdk-bridge.ts:405-419).
IsCut(t, cs) ==
  /\ cs \in Seq(Seq(Characters)) /\ cs # <<>>
  /\ \A c \in DOMAIN cs : Len(cs[c]) <= Limit
  /\ SelectSeq(FlattenSeq(cs), IsLetter) = SelectSeq(t, IsLetter)
  /\ \A c \in DOMAIN cs : cs[c] = <<>> => c = 1 /\ (t = <<>> \/ t[1] # "w")

ASSUME ReplyConstants ==
  /\ ReplyTexts \subseteq Seq(Characters) /\ Limit \in Nat \ {0}
  /\ \A t \in ReplyTexts : IsCut(t, ChunksOf[t])
  /\ MaxPasses \in Nat \ {0} /\ MaxCrFaults \in Nat

VARIABLES
  text, withFile,  \* what the agent sends
  chunks,    \* the text as splitForLimit cuts it, the same in every pass
  outbox,    \* the copy of the file: "none", "here" or "cleared"
  replyRow,  \* "none", "due", "sent" or "failed"
  passes,    \* deliveryAttempts, in the memory of the host
  chunk,     \* the chunk being posted; 0 between passes
  form,      \* how: "markdown", "plain" or "stub"
  carry,     \* the pass has read the file
  screen,    \* the posts the platform shows, [chunk, form, file, edited]
  headId,    \* firstId of this pass: a post on the screen, or 0
  storedId,  \* platform_message_id: a post, or 0
  edit,      \* [at: "none", "due", "done" or "failed"; target: a post, or 0 for a row's own id]
  crFaults

message == <<text, withFile, chunks>>
replyVars == <<message, outbox, replyRow, passes, chunk, form, carry, screen, headId,
               storedId, edit, crFaults>>
CrFault == crFaults < MaxCrFaults /\ crFaults' = crFaults + 1

-----------------------------------------------------------------------------
InitReplies ==
  /\ text \in ReplyTexts /\ withFile \in BOOLEAN /\ (text = <<>> => withFile)
  /\ chunks = ChunksOf[text]
  /\ outbox = "none" /\ replyRow = "none" /\ passes = 0
  /\ chunk = 0 /\ form = "markdown" /\ carry = FALSE
  /\ screen = <<>> /\ headId = 0 /\ storedId = 0
  /\ edit = [at |-> "none", target |-> 0] /\ crFaults \in 0 .. MaxCrFaults

\* send_file copies before the row is written.
PutFile ==
  /\ withFile /\ outbox = "none" /\ replyRow = "none"
  /\ outbox' = "here"
  /\ UNCHANGED <<message, replyRow, passes, chunk, form, carry, screen, headId, storedId,
                 edit, crFaults>>

WriteReply ==
  /\ replyRow = "none" /\ (withFile => outbox = "here")
  /\ replyRow' = "due"
  /\ UNCHANGED <<message, outbox, passes, chunk, form, carry, screen, headId, storedId,
                 edit, crFaults>>

\* deliverMessage reads the file, deliver splits the text.
BeginPass ==
  /\ replyRow = "due" /\ chunk = 0
  /\ chunk' = 1 /\ form' = "markdown" /\ carry' = (outbox = "here") /\ headId' = 0
  /\ UNCHANGED <<message, outbox, replyRow, passes, screen, storedId, edit, crFaults>>

Posting == chunk \in 1 .. Len(chunks) /\ (text # <<>> \/ carry)
\* No platform takes an empty text without a file.
Empty == chunks[chunk] = <<>> /\ form # "stub" /\ ~(chunk = 1 /\ carry)
Shown == [chunk |-> chunk, form |-> form,
          file |-> chunk = 1 /\ carry /\ form # "stub", edited |-> FALSE]

\* The id of the reply is that of its first chunk.
NewHeadBug == Len(screen) + 1  \* mutant: the id of the last chunk
NewHead == IF chunk = 1 THEN Len(screen) + 1 ELSE headId
Accepted ==
  /\ Posting /\ ~Empty
  /\ screen' = Append(screen, Shown)
  /\ headId' = NewHead
  /\ chunk' = chunk + 1 /\ form' = "markdown"
  /\ UNCHANGED <<message, outbox, replyRow, passes, carry, storedId, edit, crFaults>>

\* Neither a text nor, any more, its file: deliver returns.
NothingToPost ==
  /\ chunk = 1 /\ text = <<>> /\ ~carry
  /\ chunk' = 2
  /\ UNCHANGED <<message, outbox, replyRow, passes, form, carry, screen, headId, storedId, edit,
                 crFaults>>

\* isFormatError: the platform refuses the markup; a post of a file alone has no
\* second form.
Refused ==
  /\ Posting /\ ~Empty /\ form = "markdown" /\ text # <<>>
  /\ form' = "plain"
  /\ UNCHANGED <<message, outbox, replyRow, passes, chunk, carry, screen, headId, storedId,
                 edit, crFaults>>

\* Whatever the plain text meets leads to the stub: a refusal, or a failure
\* although the post may be up.
PlainFails ==
  /\ Posting /\ form = "plain"
  /\ form' = "stub"
  /\ \/ UNCHANGED <<screen, crFaults>>
     \/ screen' = Append(screen, Shown) /\ CrFault
  /\ UNCHANGED <<message, outbox, replyRow, passes, chunk, carry, headId, storedId, edit>>

GiveBackBug(n) == chunk' = 0 /\ replyRow' = replyRow /\ passes' = 0  \* mutant: not counted
GiveBack(n) ==
  /\ chunk' = 0
  /\ IF n >= MaxPasses THEN replyRow' = "failed" /\ passes' = 0
     ELSE replyRow' = replyRow /\ passes' = n

\* Any other failure ends the pass, although the post may be up.
PassFails ==
  /\ Posting /\ form # "plain"
  /\ \/ Empty /\ UNCHANGED <<screen, crFaults>>
     \/ CrFault /\ (UNCHANGED screen \/ (~Empty /\ screen' = Append(screen, Shown)))
  /\ GiveBack(passes + 1)
  /\ UNCHANGED <<message, outbox, form, carry, headId, storedId, edit>>

\* clearOutbox, after all is posted, which may fail; then markDelivered.
ClearOutbox ==
  /\ replyRow = "due" /\ chunk = Len(chunks) + 1
  /\ outbox' \in {outbox, IF outbox = "here" THEN "cleared" ELSE outbox}
  /\ chunk' = chunk + 1
  /\ UNCHANGED <<message, replyRow, passes, form, carry, screen, headId, storedId, edit,
                 crFaults>>

MarkSent ==
  /\ replyRow = "due" /\ chunk = Len(chunks) + 2
  /\ replyRow' = "sent" /\ storedId' = headId /\ chunk' = 0 /\ passes' = 0
  /\ UNCHANGED <<message, outbox, form, carry, screen, headId, edit, crFaults>>

ReplyHostCrashes ==
  /\ chunk # 0 /\ CrFault
  /\ chunk' = 0 /\ passes' = 0
  /\ UNCHANGED <<message, outbox, replyRow, form, carry, screen, headId, storedId, edit>>

\* edit_message: getMessageIdBySeq gives the platform's id once it is recorded.
RequestEdit ==
  /\ replyRow # "none" /\ edit.at = "none"
  /\ edit' = [at |-> "due", target |-> storedId]
  /\ UNCHANGED <<message, outbox, replyRow, passes, chunk, form, carry, screen, headId,
                 storedId, crFaults>>

\* The edit is a row of its own, delivered between passes; the platform knows no
\* id of a row.
CarryEdit ==
  /\ edit.at = "due" /\ chunk = 0
  /\ IF edit.target = 0
     THEN edit' = [edit EXCEPT !.at = "failed"] /\ UNCHANGED screen
     ELSE edit' = [edit EXCEPT !.at = "done"] /\ screen' = [screen EXCEPT ![edit.target].edited = TRUE]
  /\ UNCHANGED <<message, outbox, replyRow, passes, chunk, form, carry, headId, storedId,
                 crFaults>>

PassStep ==
  \/ BeginPass \/ NothingToPost \/ Accepted \/ Refused \/ PlainFails \/ PassFails \/ ClearOutbox \/ MarkSent
NextReplies ==
  \/ PutFile \/ WriteReply \/ PassStep \/ ReplyHostCrashes \/ RequestEdit \/ CarryEdit
\* The poll timers of the host go on; a crashed host is started again.
FairReplies == WF_replyVars(PassStep) /\ WF_replyVars(CarryEdit)
ReplySpec == InitReplies /\ [][NextReplies]_replyVars /\ FairReplies

-----------------------------------------------------------------------------
(* Properties. *)

\* The values of every variable.
CrTypeOK ==
  /\ text \in ReplyTexts /\ withFile \in BOOLEAN /\ outbox \in {"none", "here", "cleared"}
  /\ replyRow \in {"none", "due", "sent", "failed"} /\ passes \in 0 .. MaxPasses - 1
  /\ chunk \in 0 .. Len(chunks) + 2 /\ form \in {"markdown", "plain", "stub"} /\ carry \in BOOLEAN
  /\ \A i \in DOMAIN screen : screen[i].chunk \in DOMAIN chunks
  /\ headId \in 0 .. Len(screen) /\ storedId \in 0 .. Len(screen)
  /\ edit.at \in {"none", "due", "done", "failed"} /\ edit.target \in 0 .. Len(screen)
  /\ crFaults \in 0 .. MaxCrFaults

\* The text is cut as the platform needs it, and nothing of it is lost.
SplitIsFaithful == IsCut(text, chunks)

\* From post i on the screen shows the chunks in their order, repetitions left out.
WholeFrom(i) ==
  \E p \in [DOMAIN chunks -> i .. Len(screen)] :
    /\ \A c \in DOMAIN chunks : screen[p[c]].chunk = c
    /\ \A c, d \in DOMAIN chunks : c < d => p[c] < p[d]

\* A reply that counts as sent is on the screen from its first chunk to its last,
\* in some form: no refusal of its markup drops a part of it.
SentIsWhole == replyRow = "sent" => WholeFrom(1)

\* Its file is there as well, also when the host crashed between clearing the
\* outbox and the mark and sent the text again without it, unless the stub took
\* the place of the first chunk (delivery.ts:455-483).
FileArrives ==
  replyRow = "sent" /\ withFile =>
    \E i \in DOMAIN screen : screen[i].chunk = 1 /\ (screen[i].file \/ screen[i].form = "stub")

\* What the user sees twice was paid for by a failure or a crash.
CopiesArePaid ==
  \A c \in DOMAIN chunks :
    Cardinality({i \in DOMAIN screen : screen[i].chunk = c}) <= 1 + crFaults

\* An edit that goes through changes the head of the reply, in its last complete
\* copy (chat-sdk-bridge.ts:348-350).
EditHitsHead ==
  \A i \in DOMAIN screen : screen[i].edited =>
    screen[i].chunk = 1 /\ WholeFrom(i)

\* Every reply comes to an end, sent or given up, whatever the platform says.
ReplyEnds == replyRow = "due" ~> replyRow \in {"sent", "failed"}

ReplySafety == SplitIsFaithful /\ SentIsWhole /\ FileArrives /\ CopiesArePaid /\ EditHitsHead
=============================================================================
