------------------------------ MODULE Approvals ------------------------------
(***************************************************************************)
(* Decisions a human takes for an agent (src/modules/approvals).           *)
(*                                                                         *)
(* A hold is one row of pending_approvals with a card in an admin's DM:    *)
(* an action of an agent (a package install, an MCP server, a new agent, a *)
(* message to another agent, an ncl command) waits for the click.  A       *)
(* credential request of the OneCLI gateway uses the same table, but its   *)
(* answer is a promise in the host's memory that a timer also resolves.    *)
(*                                                                         *)
(* The host is one process of many handlers, and every await of a handler  *)
(* is a point where another runs: two clicks, the reply that carries a     *)
(* reason, the sweep that ends an unanswered hold, the timer, and the      *)
(* request that is still delivering its card.  The row's status, changed   *)
(* by compare-and-set, is all that keeps them apart.                       *)
(***************************************************************************)
EXTENDS Integers

CONSTANTS
  Holds,        \* approval ids of agents' actions
  Creds,        \* approval ids of credential requests
  Clicks,       \* clicks on cards: each is one dispatched response
  NoHold,       \* no hold
  MaxApCrashes  \* bound: crashes of the host

ASSUME ApprovalIds ==
  /\ Holds \cap Creds = {}
  /\ NoHold \notin Holds \cup Creds
  /\ MaxApCrashes \in Nat

ApIds == Holds \cup Creds
ApWorkers == Clicks \cup {"reply", "sweep"}
ClickValues == {"approve", "reject", "reject_with_reason"}

VARIABLES
  approval,   \* status of the row of pending_approvals
  dmCard,     \* what the admin's DM shows
  asking,     \* where the request that creates the row is
  window,     \* the reason window of the hold has elapsed
  job,        \* what each click, the reply and the sweep are doing
  armed,      \* awaitingReason of the admin's DM: a hold, or NoHold
  applied,    \* how often the held action took effect
  rejected,   \* how often the agent was told of a rejection
  informed,   \* the agent was told of a failure or a refusal
  gone,       \* the requesting session was deleted
  resolver,   \* the credential request is in the map of pending promises
  expiry,     \* where expireApproval of the request is
  decision,   \* what the gateway was answered
  leftover,   \* rows of an earlier process that the start-up sweep read
  apCrashes

inMemory == <<job, armed, resolver, expiry>>
outcomes == <<applied, rejected, informed, gone>>
approvalVars == <<approval, dmCard, asking, window, inMemory, outcomes, decision, leftover, apCrashes>>

IdleJob == [pc |-> "idle", id |-> NoHold, val |-> "reject", who |-> "admin", snap |-> "pending"]
LiveRow(i) == approval[i] \notin {"none", "deleted"}

\* An instance may leave ids and crashes unused.
InitApprovals ==
  /\ approval = [i \in ApIds |-> "none"]
  /\ dmCard = [i \in ApIds |-> "none"]
  /\ asking \in [ApIds -> {"idle", "never"}]
  /\ window = [h \in Holds |-> FALSE]
  /\ job = [w \in ApWorkers |-> IdleJob]
  /\ armed = NoHold
  /\ applied = [h \in Holds |-> 0]
  /\ rejected = [h \in Holds |-> 0]
  /\ informed = [h \in Holds |-> FALSE]
  /\ gone = FALSE
  /\ resolver = [c \in Creds |-> FALSE]
  /\ expiry = [c \in Creds |-> "none"]
  /\ decision = [c \in Creds |-> "none"]
  /\ leftover = {}
  /\ apCrashes \in 0 .. MaxApCrashes

GotoJob(w, pc) == job' = [job EXCEPT ![w].pc = pc]
\* A click is handled once; the reply and the sweep can run again.
EndJob(w) == job' = [job EXCEPT ![w] = IF w \in Clicks THEN [IdleJob EXCEPT !.pc = "done"] ELSE IdleJob]

-----------------------------------------------------------------------------
(* The request. *)

\* requestApproval up to the row: no approver, or none with a reachable DM,
\* and the agent is told at once.
RequestApproval(h) ==
  /\ asking[h] = "idle"
  /\ ~gone
  /\ \/ /\ asking' = [asking EXCEPT ![h] = "failed"]
        /\ informed' = [informed EXCEPT ![h] = TRUE]
        /\ UNCHANGED approval
     \/ /\ asking' = [asking EXCEPT ![h] = "card"]
        /\ approval' = [approval EXCEPT ![h] = "pending"]
        /\ UNCHANGED informed
  /\ UNCHANGED <<dmCard, window, inMemory, applied, rejected, gone, decision, leftover, apCrashes>>

\* The platform shows the card; the call that sent it has not returned.
CardShown(i) ==
  /\ asking[i] = "card"
  /\ dmCard[i] = "none"
  /\ dmCard' = [dmCard EXCEPT ![i] = "shown"]
  /\ UNCHANGED <<approval, asking, window, inMemory, outcomes, decision, leftover, apCrashes>>

\* The call returns, or there is no adapter to call.
CardSent(h) ==
  /\ h \in Holds
  /\ asking[h] = "card"
  /\ asking' = [asking EXCEPT ![h] = "done"]
  /\ UNCHANGED <<approval, dmCard, window, inMemory, outcomes, decision, leftover, apCrashes>>

\* The call throws, whether or not the card is out: the row is deleted.
CardThrew(h) ==
  /\ h \in Holds
  /\ asking[h] = "card"
  /\ asking' = [asking EXCEPT ![h] = "unsent"]
  /\ approval' = [approval EXCEPT ![h] = "deleted"]
  /\ UNCHANGED <<dmCard, window, inMemory, outcomes, decision, leftover, apCrashes>>

\* ... and the agent is told.
TellUnsent(h) ==
  /\ asking[h] = "unsent"
  /\ asking' = [asking EXCEPT ![h] = "failed"]
  /\ informed' = [informed EXCEPT ![h] = TRUE]
  /\ UNCHANGED <<approval, dmCard, window, inMemory, applied, rejected, gone, decision, leftover, apCrashes>>

-----------------------------------------------------------------------------
(* A click. *)

ClickCard(k) ==
  /\ k \in Clicks
  /\ job[k].pc = "idle"
  /\ \E i \in ApIds, v \in ClickValues, who \in {"admin", "other"} :
       /\ dmCard[i] = "shown"
       /\ i \in Creds => v # "reject_with_reason"
       /\ job' = [job EXCEPT ![k] = [pc |-> "read", id |-> i, val |-> v, who |-> who, snap |-> "pending"]]
  /\ UNCHANGED <<approval, dmCard, asking, window, armed, resolver, expiry, outcomes, decision, leftover, apCrashes>>

\* Where handleApprovalsResponse sends the click, given the row it read.
ClickDoor(j) ==
  IF ~LiveRow(j.id) \/ j.who = "other" THEN "done"
  ELSE IF j.id \in Creds THEN "resolver"
  ELSE [approve |-> "approve", reject |-> "finalize", reject_with_reason |-> "arm"][j.val]

\* The status a rejection expects, from the row as the handler read it.
ExpectedStatus(i) == IF approval[i] = "awaiting_reason" THEN "awaiting_reason" ELSE "pending"

HandleResponse(k) ==
  /\ job[k].pc = "read"
  /\ LET j == job[k] IN
     IF ClickDoor(j) = "done"
     THEN EndJob(k)
     ELSE job' = [job EXCEPT ![k].pc = ClickDoor(j), ![k].snap = ExpectedStatus(j.id)]
  /\ UNCHANGED <<approval, dmCard, asking, window, armed, resolver, expiry, outcomes, decision, leftover, apCrashes>>

CanTransitionBug(i, from) == LiveRow(i)  \* mutant: an update without its WHERE status
CanTransition(i, from) == approval[i] = from
\* One compare-and-set of the status; the loser stops.
TransitionRow(w, from, to, next) ==
  LET i == job[w].id IN
  IF CanTransition(i, from)
  THEN approval' = [approval EXCEPT ![i] = to] /\ GotoJob(w, next)
  ELSE UNCHANGED approval /\ EndJob(w)

Approve(k) ==
  /\ job[k].pc = "approve"
  /\ TransitionRow(k, "pending", "approved", "replay")
  /\ UNCHANGED <<dmCard, asking, window, armed, resolver, expiry, outcomes, decision, leftover, apCrashes>>

\* The handler re-enters the guarded action with the row as its grant: the
\* row must still be there and nothing may deny the action now.  A refusal
\* is told to the agent.
ReplayHeld(k) ==
  LET h == job[k].id IN
  /\ job[k].pc = "replay"
  /\ \/ LiveRow(h) /\ GotoJob(k, "apply") /\ UNCHANGED informed
     \/ GotoJob(k, "settle") /\ informed' = [informed EXCEPT ![h] = TRUE]
  /\ UNCHANGED <<approval, dmCard, asking, window, armed, resolver, expiry, applied, rejected, gone, decision, leftover, apCrashes>>

\* The action itself, or its failure, which the response handler tells.
ApplyHeld(k) ==
  LET h == job[k].id IN
  /\ job[k].pc = "apply"
  /\ \/ applied' = [applied EXCEPT ![h] = @ + 1] /\ UNCHANGED informed
     \/ informed' = [informed EXCEPT ![h] = TRUE] /\ UNCHANGED applied
  /\ GotoJob(k, "settle")
  /\ UNCHANGED <<approval, dmCard, asking, window, armed, resolver, expiry, rejected, gone, decision, leftover, apCrashes>>

\* The row goes, the callbacks run and the container is woken.
DropRow(w) ==
  /\ job[w].pc = "settle"
  /\ approval' = [approval EXCEPT ![job[w].id] = "deleted"]
  /\ EndJob(w)
  /\ UNCHANGED <<dmCard, asking, window, armed, resolver, expiry, outcomes, decision, leftover, apCrashes>>

\* finalizeReject: the compare-and-set, then the note, then the row goes.
FinalizeReject(w) ==
  /\ job[w].pc = "finalize"
  /\ TransitionRow(w, job[w].snap, "rejected", "note")
  /\ UNCHANGED <<dmCard, asking, window, armed, resolver, expiry, outcomes, decision, leftover, apCrashes>>

WriteRejection(w) ==
  /\ job[w].pc = "note"
  /\ rejected' = [rejected EXCEPT ![job[w].id] = @ + 1]
  /\ GotoJob(w, "settle")
  /\ UNCHANGED <<approval, dmCard, asking, window, armed, resolver, expiry, applied, informed, gone, decision, leftover, apCrashes>>

-----------------------------------------------------------------------------
(* Reject with a reason. *)

MarkAwaitingReason(k) ==
  /\ job[k].pc = "arm"
  /\ TransitionRow(k, "pending", "awaiting_reason", "prompt")
  /\ UNCHANGED <<dmCard, asking, window, armed, resolver, expiry, outcomes, decision, leftover, apCrashes>>

\* The prompt went out and the DM is armed: an earlier arming of the DM is
\* overwritten.  Without a DM, an adapter or a delivery it is a plain reject.
ArmReasonCapture(k) ==
  /\ job[k].pc = "prompt"
  /\ \/ armed' = job[k].id /\ EndJob(k)
     \/ job' = [job EXCEPT ![k].pc = "finalize", ![k].snap = "awaiting_reason"] /\ UNCHANGED armed
  /\ UNCHANGED <<approval, dmCard, asking, window, resolver, expiry, outcomes, decision, leftover, apCrashes>>

\* The next message of the DM is taken for the reason.
ReasonReply ==
  /\ armed # NoHold
  /\ job["reply"].pc = "idle"
  /\ job' = [job EXCEPT !["reply"] = [IdleJob EXCEPT !.pc = "check", !.id = armed]]
  /\ armed' = NoHold
  /\ UNCHANGED <<approval, dmCard, asking, window, resolver, expiry, outcomes, decision, leftover, apCrashes>>

\* captureReasonReply after its read: a hold that is no longer awaiting lets
\* the message through to the router.
CaptureReasonReply ==
  /\ job["reply"].pc = "check"
  /\ IF approval[job["reply"].id] # "awaiting_reason"
     THEN EndJob("reply")
     ELSE job' = [job EXCEPT !["reply"].pc = "finalize", !["reply"].snap = "awaiting_reason"]
  /\ UNCHANGED <<approval, dmCard, asking, window, armed, resolver, expiry, outcomes, decision, leftover, apCrashes>>

\* Five minutes after the click, whatever the prompt does.
WindowElapses(h) ==
  /\ approval[h] = "awaiting_reason"
  /\ ~window[h]
  /\ window' = [window EXCEPT ![h] = TRUE]
  /\ UNCHANGED <<approval, dmCard, asking, inMemory, outcomes, decision, leftover, apCrashes>>

\* One row of sweepAwaitingReasonRejects.
SweepAwaitingReason(h) ==
  /\ job["sweep"].pc = "idle"
  /\ approval[h] = "awaiting_reason" /\ window[h]
  /\ job' = [job EXCEPT !["sweep"] =
       [IdleJob EXCEPT !.pc = "finalize", !.id = h, !.snap = "awaiting_reason"]]
  /\ UNCHANGED <<approval, dmCard, asking, window, armed, resolver, expiry, outcomes, decision, leftover, apCrashes>>

-----------------------------------------------------------------------------
(* Credential requests. *)

\* handleRequest: nobody to ask, or a card that cannot be sent, is a denial.
CredRequest(c) ==
  /\ asking[c] = "idle"
  /\ asking' = [asking EXCEPT ![c] = "card"]
  /\ UNCHANGED <<approval, dmCard, window, inMemory, outcomes, decision, leftover, apCrashes>>

CredDenied(c) ==
  /\ asking[c] = "card"
  /\ asking' = [asking EXCEPT ![c] = "failed"]
  /\ decision' = [decision EXCEPT ![c] = "deny"]
  /\ UNCHANGED <<approval, dmCard, window, inMemory, outcomes, leftover, apCrashes>>

\* The row is written after the card is out.
CredCreateRow(c) ==
  /\ asking[c] = "card"
  /\ ~gone
  /\ dmCard[c] = "shown"
  /\ asking' = [asking EXCEPT ![c] = "row"]
  /\ approval' = [approval EXCEPT ![c] = "pending"]
  /\ UNCHANGED <<dmCard, window, inMemory, outcomes, decision, leftover, apCrashes>>

\* ... and the promise with its timer after the row.
CredArm(c) ==
  /\ asking[c] = "row"
  /\ asking' = [asking EXCEPT ![c] = "done"]
  /\ resolver' = [resolver EXCEPT ![c] = TRUE]
  /\ UNCHANGED <<approval, dmCard, window, job, armed, expiry, outcomes, decision, leftover, apCrashes>>

\* The first resolution of a promise is the one that counts.
AnswerGateway(c, d) == decision' = [decision EXCEPT ![c] = IF @ = "none" THEN d ELSE @]

\* resolveOneCLIApproval finds the promise, or the click only drops the row.
FindResolver(k) ==
  /\ job[k].pc = "resolver"
  /\ GotoJob(k, IF resolver[job[k].id] THEN "claim" ELSE "settle")
  /\ UNCHANGED <<approval, dmCard, asking, window, armed, resolver, expiry, outcomes, decision, leftover, apCrashes>>

ClaimCred(k) ==
  LET c == job[k].id IN
  /\ job[k].pc = "claim"
  /\ IF CanTransition(c, "pending")
     THEN /\ approval' = [approval EXCEPT ![c] = IF job[k].val = "approve" THEN "approved" ELSE "rejected"]
          /\ GotoJob(k, "clear")
     ELSE UNCHANGED approval /\ GotoJob(k, "settle")
  /\ UNCHANGED <<dmCard, asking, window, armed, resolver, expiry, outcomes, decision, leftover, apCrashes>>

\* The promise and its timer are dropped, the row deleted.
ClearCred(k) ==
  LET c == job[k].id IN
  /\ job[k].pc = "clear"
  /\ resolver' = [resolver EXCEPT ![c] = FALSE]
  /\ approval' = [approval EXCEPT ![c] = "deleted"]
  /\ GotoJob(k, "resolve")
  /\ UNCHANGED <<dmCard, asking, window, armed, expiry, outcomes, decision, leftover, apCrashes>>

ResolveCred(k) ==
  /\ job[k].pc = "resolve"
  /\ AnswerGateway(job[k].id, IF job[k].val = "approve" THEN "approve" ELSE "deny")
  /\ EndJob(k)
  /\ UNCHANGED <<approval, dmCard, asking, window, armed, resolver, expiry, outcomes, leftover, apCrashes>>

\* The timer fires just before the gateway's own.
CredTimer(c) ==
  /\ resolver[c]
  /\ resolver' = [resolver EXCEPT ![c] = FALSE]
  /\ expiry' = [expiry EXCEPT ![c] = "claim"]
  /\ AnswerGateway(c, "deny")
  /\ UNCHANGED <<approval, dmCard, asking, window, job, armed, outcomes, leftover, apCrashes>>

ExpireApproval(c) ==
  /\ expiry[c] = "claim"
  /\ IF CanTransition(c, "pending")
     THEN approval' = [approval EXCEPT ![c] = "expired"] /\ expiry' = [expiry EXCEPT ![c] = "edit"]
     ELSE UNCHANGED approval /\ expiry' = [expiry EXCEPT ![c] = "done"]
  /\ UNCHANGED <<dmCard, asking, window, job, armed, resolver, outcomes, decision, leftover, apCrashes>>

\* The card says that it timed out, if the edit works, and the row goes.
EditCardExpired(c) ==
  /\ expiry[c] = "edit"
  /\ dmCard' \in {dmCard, [dmCard EXCEPT ![c] = "expired"]}
  /\ approval' = [approval EXCEPT ![c] = "deleted"]
  /\ expiry' = [expiry EXCEPT ![c] = "done"]
  /\ UNCHANGED <<asking, window, job, armed, resolver, outcomes, decision, leftover, apCrashes>>

\* One row of sweepStaleApprovals at the start of the next process.
SweepStale(c) ==
  /\ c \in leftover
  /\ dmCard' \in {dmCard, [dmCard EXCEPT ![c] = "expired"]}
  /\ approval' = [approval EXCEPT ![c] = "deleted"]
  /\ leftover' = leftover \ {c}
  /\ UNCHANGED <<asking, window, inMemory, outcomes, decision, apCrashes>>

-----------------------------------------------------------------------------
(* What happens to the host. *)

\* The agent's group is deleted, and its sessions and approvals in the same
\* transaction.  (A handler therefore never finds a row without its session.)
DeleteGroup ==
  /\ ~gone
  /\ gone' = TRUE
  /\ approval' = [i \in ApIds |-> IF LiveRow(i) THEN "deleted" ELSE approval[i]]
  /\ UNCHANGED <<dmCard, asking, window, inMemory, applied, rejected, informed, decision, leftover, apCrashes>>

\* The process ends, in order or not: its memory is lost, the rows stay, and
\* the gateway's open requests get no answer from it.
ApHostCrash ==
  /\ apCrashes < MaxApCrashes
  /\ apCrashes' = apCrashes + 1
  /\ job' = [w \in ApWorkers |-> IF w \in Clicks /\ job[w].pc # "idle" THEN [IdleJob EXCEPT !.pc = "done"] ELSE IdleJob]
  /\ armed' = NoHold
  /\ asking' = [i \in ApIds |-> IF asking[i] \in {"card", "unsent", "row"} THEN "lost" ELSE asking[i]]
  /\ decision' = [c \in Creds |-> IF asking[c] \notin {"never", "idle"} /\ decision[c] = "none" THEN "lost" ELSE decision[c]]
  /\ resolver' = [c \in Creds |-> FALSE]
  /\ expiry' = [c \in Creds |-> "none"]
  /\ leftover' = {c \in Creds : LiveRow(c)}
  /\ UNCHANGED <<approval, dmCard, window, outcomes>>

RequestStep(h) == RequestApproval(h) \/ CardShown(h) \/ CardSent(h) \/ CardThrew(h) \/ TellUnsent(h)
WorkerStep(w) ==
  \/ HandleResponse(w) \/ Approve(w) \/ ReplayHeld(w) \/ ApplyHeld(w) \/ DropRow(w)
  \/ FinalizeReject(w) \/ WriteRejection(w) \/ MarkAwaitingReason(w) \/ ArmReasonCapture(w)
  \/ FindResolver(w) \/ ClaimCred(w) \/ ClearCred(w) \/ ResolveCred(w)
CredStep(c) ==
  \/ CredRequest(c) \/ CardShown(c) \/ CredDenied(c) \/ CredCreateRow(c) \/ CredArm(c)
  \/ CredTimer(c) \/ ExpireApproval(c) \/ EditCardExpired(c) \/ SweepStale(c)

NextApprovals ==
  \/ \E h \in Holds : RequestStep(h) \/ WindowElapses(h) \/ SweepAwaitingReason(h)
  \/ \E c \in Creds : CredStep(c)
  \/ \E k \in Clicks : ClickCard(k)
  \/ \E w \in ApWorkers : WorkerStep(w)
  \/ ReasonReply \/ CaptureReasonReply \/ DeleteGroup \/ ApHostCrash

\* What goes on by itself: handlers that were started, time, the sweep and the
\* timer.  No human has to click or to reply.
ApprovalProgress ==
  \/ \E w \in ApWorkers : WorkerStep(w)
  \/ \E h \in Holds : CardSent(h) \/ TellUnsent(h) \/ WindowElapses(h) \/ SweepAwaitingReason(h)
  \/ \E c \in Creds : CredDenied(c) \/ CredCreateRow(c) \/ CredArm(c) \/ CredTimer(c)
  \/ CaptureReasonReply
FairApprovals == WF_approvalVars(ApprovalProgress)

ApprovalSpec == InitApprovals /\ [][NextApprovals]_approvalVars /\ FairApprovals

-----------------------------------------------------------------------------
(* Properties. *)

\* The values of every variable.
ApTypeOK ==
  /\ approval \in [ApIds -> {"none", "pending", "awaiting_reason", "approved", "rejected", "expired", "deleted"}]
  /\ dmCard \in [ApIds -> {"none", "shown", "expired"}]
  /\ asking \in [ApIds -> {"never", "idle", "card", "row", "unsent", "done", "failed", "lost"}]
  /\ window \in [Holds -> BOOLEAN]
  /\ DOMAIN job = ApWorkers
  /\ \A w \in ApWorkers : job[w].id \in ApIds \cup {NoHold} /\ job[w].val \in ClickValues
  /\ armed \in Holds \cup {NoHold}
  /\ applied \in [Holds -> Nat] /\ rejected \in [Holds -> Nat] /\ informed \in [Holds -> BOOLEAN]
  /\ gone \in BOOLEAN
  /\ resolver \in [Creds -> BOOLEAN] /\ expiry \in [Creds -> {"none", "claim", "edit", "done"}]
  /\ decision \in [Creds -> {"none", "approve", "deny", "lost"}]
  /\ leftover \in SUBSET Creds /\ apCrashes \in 0 .. MaxApCrashes

WorkedOn(i) == \E w \in ApWorkers : job[w].id = i

\* One decision: whatever two clicks, a reply, the sweep, a late throw of the
\* card's delivery and a crash do, a held action takes effect or is refused to
\* the agent once, and never both (response-handler.ts:92, finalize.ts:36).
DecidedOnce == \A h \in Holds : applied[h] + rejected[h] <= 1

\* Nothing asked vanishes: a hold whose row is gone and that no handler is
\* still at has been answered, unless its session is gone or the host died
\* while it was asking (primitive.ts:277-284, response-handler.ts:131).
AskIsAnswered ==
  \A h \in Holds :
    approval[h] = "deleted" /\ ~WorkedOn(h) =>
      gone \/ informed[h] \/ applied[h] + rejected[h] = 1 \/ asking[h] \in {"unsent", "lost"}

\* A row between its compare-and-set and its deletion has a handler at it,
\* until a crash: no legal order of events strands it (finalize.ts:36-59).
ClaimedHasAHandler ==
  \A h \in Holds : approval[h] \in {"approved", "rejected"} => WorkedOn(h) \/ apCrashes > 0

\* What the admin sees is what the gateway was told: a card that says it timed
\* out was not an approval, and an approval was the claim of a click on a row
\* that nobody else ended (onecli-approvals.ts:70-90, 206-234).
ExpiredNeverApproved == \A c \in Creds : dmCard[c] = "expired" => decision[c] # "approve"

\* A promise nobody can resolve is never left: it is in the map, or a click
\* is about to resolve it (onecli-approvals.ts:83-88).
OpenIsResolvable ==
  \A c \in Creds : asking[c] = "done" /\ decision[c] = "none" =>
    resolver[c] \/ \E k \in Clicks : job[k].id = c /\ job[k].pc = "resolve"

ApprovalSafety ==
  DecidedOnce /\ AskIsAnswered /\ ClaimedHasAHandler /\ ExpiredNeverApproved /\ OpenIsResolvable

\* A reject with reason ends without the reason too: the agent is told, unless
\* its session goes, the request itself failed, or the host dies between the
\* compare-and-set and the note (reason-capture.ts:157-175).
ReasonOwed(h) == approval[h] = "awaiting_reason"
ReasonPaid(h) ==
  rejected[h] = 1 \/ gone \/ informed[h] \/ asking[h] = "lost" \/ (approval[h] = "rejected" /\ apCrashes > 0)
ReasonSettles == \A h \in Holds : ReasonOwed(h) ~> ReasonPaid(h)

\* The gateway's request is decided, by a click, by the timer, or by the end
\* of the process (onecli-approvals.ts:206-222).
GatewayIsAnswered == \A c \in Creds : asking[c] = "card" ~> decision[c] # "none"
=============================================================================
