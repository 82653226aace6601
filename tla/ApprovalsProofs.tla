--------------------------- MODULE ApprovalsProofs ---------------------------
(***************************************************************************)
(* Proofs about Approvals, for any set of holds, of credential requests    *)
(* and of clicks, and any number of crashes: the types, the inductive      *)
(* invariant ApInv, and ApprovalSafety, which follows from it.             *)
(***************************************************************************)
EXTENDS Approvals, TLAPS

-----------------------------------------------------------------------------
(* The inductive invariant.                                                *)

HoldSteps == {"arm", "finalize", "approve", "replay", "apply", "note", "prompt", "check"}
CredSteps == {"resolver", "claim", "clear", "resolve"}
JobSteps == HoldSteps \cup CredSteps \cup {"idle", "done", "read", "settle"}
ApJobs == [pc : JobSteps, id : ApIds \cup {NoHold}, val : ClickValues, who : {"admin", "other"},
           snap : {"pending", "awaiting_reason"}]

\* Who is at what: a handler of a hold is not at a credential's step, and the
\* gateway is answered by clicks alone.
JobsOK ==
  /\ job \in [ApWorkers -> ApJobs]
  /\ \A w \in ApWorkers :
       /\ job[w].pc \in {"idle", "done"} => job[w].id = NoHold
       /\ job[w].pc \in HoldSteps => job[w].id \in Holds
       /\ job[w].pc \in CredSteps => job[w].id \in Creds /\ w \in Clicks
       /\ job[w].pc = "read" => job[w].id \in ApIds /\ w \in Clicks
       /\ job[w].pc = "settle" => job[w].id \in ApIds

\* The worker that won the row of a hold.
Won(w, h) == job[w].id = h /\ job[w].pc \in {"replay", "apply", "note", "settle"}
Open(h) == approval[h] \in {"none", "pending", "awaiting_reason"}

NoRowBeforeAsking == \A i \in ApIds : asking[i] \in {"never", "idle"} => approval[i] = "none"
\* Whoever is at a hold or a request is at one that was asked.
AskedFirst ==
  /\ \A w \in ApWorkers : job[w].pc \notin {"idle", "done", "read"} => asking[job[w].id] \notin {"never", "idle"}
  /\ armed # NoHold => asking[armed] \notin {"never", "idle"}
WonIsClosed == \A w \in ApWorkers, h \in Holds : Won(w, h) => ~Open(h)
OneWinner == \A v, w \in ApWorkers, h \in Holds : Won(v, h) /\ Won(w, h) => v = w
OpenIsUndecided == \A h \in Holds : Open(h) => applied[h] = 0 /\ rejected[h] = 0
UndecidedUntilTheEnd ==
  \A w \in ApWorkers, h \in Holds :
    job[w].id = h /\ job[w].pc \in {"replay", "apply", "note"} => applied[h] = 0 /\ rejected[h] = 0
SettledIsAnswered ==
  \A w \in ApWorkers, h \in Holds :
    job[w].id = h /\ job[w].pc = "settle" => informed[h] \/ applied[h] + rejected[h] = 1
DroppedIsAnswered ==
  \A h \in Holds : approval[h] = "deleted" =>
    gone \/ informed[h] \/ applied[h] + rejected[h] = 1 \/ asking[h] \in {"unsent", "lost"}
ClaimedIsWon ==
  \A h \in Holds : approval[h] \in {"approved", "rejected"} =>
    apCrashes > 0 \/ \E w \in ApWorkers : Won(w, h)

\* A credential request before its promise is in the map.
UnarmedIsUndecided ==
  \A c \in Creds : asking[c] \in {"never", "idle", "card", "row"} =>
    decision[c] = "none" /\ ~resolver[c] /\ expiry[c] = "none"
ClaimedAfterArming ==
  \A w \in ApWorkers, c \in Creds :
    job[w].id = c /\ job[w].pc \in {"claim", "clear", "resolve"} => asking[c] = "done"
ArmedIsUndecided == \A c \in Creds : resolver[c] => decision[c] = "none" /\ asking[c] = "done"
ResolvingIsDropped ==
  \A w \in ApWorkers, c \in Creds :
    job[w].id = c /\ job[w].pc = "resolve" => approval[c] = "deleted" /\ ~resolver[c]
ApprovedIsDropped == \A c \in Creds : decision[c] = "approve" => approval[c] = "deleted"
ExpiringIsDenied == \A c \in Creds : expiry[c] \in {"claim", "edit"} => decision[c] \in {"deny", "lost"}
LeftoverIsDenied == \A c \in Creds : c \in leftover => decision[c] \in {"deny", "lost"}
ExpiredIsDenied == \A c \in Creds : dmCard[c] = "expired" => decision[c] \in {"deny", "lost"}

HoldInv ==
  /\ WonIsClosed /\ OneWinner /\ OpenIsUndecided /\ UndecidedUntilTheEnd
  /\ SettledIsAnswered /\ DroppedIsAnswered /\ ClaimedIsWon /\ DecidedOnce
CredInv ==
  /\ UnarmedIsUndecided /\ ClaimedAfterArming /\ ArmedIsUndecided /\ ResolvingIsDropped
  /\ ApprovedIsDropped /\ ExpiringIsDenied /\ LeftoverIsDenied /\ ExpiredIsDenied
  /\ OpenIsResolvable
ApInv == ApTypeOK /\ JobsOK /\ NoRowBeforeAsking /\ AskedFirst /\ HoldInv /\ CredInv

-----------------------------------------------------------------------------
(* Types and handlers.                                                     *)

\* Where a click goes, by the row it is for.
LEMMA ClickGoes ==
  ASSUME NEW j, j.id \in ApIds, j.val \in ClickValues, ClickDoor(j) # "done"
  PROVE  \/ ClickDoor(j) = "resolver" /\ j.id \in Creds
         \/ ClickDoor(j) \in {"arm", "finalize", "approve"} /\ j.id \in Holds
  BY DEF ClickDoor, ApIds, ClickValues


\* What a dispatched click does to its handler.
LEMMA HandleResponseDoes ==
  ASSUME JobsOK, NEW w \in ApWorkers, HandleResponse(w)
  PROVE  /\ job[w].pc = "read" /\ job[w].id \in ApIds /\ w \in Clicks
         /\ job' \in [ApWorkers -> ApJobs] /\ \A v \in ApWorkers \ {w} : job'[v] = job[v]
         /\ \/ job'[w].pc \in {"idle", "done"} /\ job'[w].id = NoHold
            \/ /\ LiveRow(job[w].id) /\ job'[w].id = job[w].id
               /\ \/ job'[w].pc = "resolver" /\ job[w].id \in Creds
                  \/ job'[w].pc \in {"arm", "finalize", "approve"} /\ job[w].id \in Holds
<1> DEFINE d == ClickDoor(job[w])
<1>1. /\ job[w].pc = "read" /\ job[w].id \in ApIds /\ job[w].val \in ClickValues /\ w \in Clicks
      /\ job \in [ApWorkers -> ApJobs]
  BY DEF JobsOK, ApJobs, HandleResponse
<1>2. CASE d = "done"
  BY <1>1, <1>2 DEF HandleResponse, EndJob, IdleJob, ApJobs, JobSteps, ClickValues
<1>3. CASE d # "done"
  <2>1. job' = [job EXCEPT ![w].pc = d, ![w].snap = ExpectedStatus(job[w].id)]
    BY <1>3 DEF HandleResponse
  <2>2. ExpectedStatus(job[w].id) \in {"pending", "awaiting_reason"}
    BY DEF ExpectedStatus
  <2>3. /\ \/ d = "resolver" /\ job[w].id \in Creds
           \/ d \in {"arm", "finalize", "approve"} /\ job[w].id \in Holds
        /\ LiveRow(job[w].id)
    BY <1>1, <1>3, ClickGoes DEF ClickDoor
  <2> HIDE DEF d
  <2>4. d \in JobSteps
    BY <2>3 DEF JobSteps, HoldSteps, CredSteps
  <2>5. [job[w] EXCEPT !.pc = d, !.snap = ExpectedStatus(job[w].id)] \in ApJobs
    BY <1>1, <2>2, <2>4 DEF ApJobs
  <2>6. job' = [job EXCEPT ![w] = [job[w] EXCEPT !.pc = d, !.snap = ExpectedStatus(job[w].id)]]
    BY <1>1, <2>1
  <2>7. job' \in [ApWorkers -> ApJobs] /\ \A v \in ApWorkers \ {w} : job'[v] = job[v]
    BY <1>1, <2>5, <2>6
  <2>8. job'[w].pc = d /\ job'[w].id = job[w].id
    BY <1>1, <2>6 DEF ApJobs
  <2> QED
    BY <1>1, <2>3, <2>7, <2>8
<1> QED
  BY <1>2, <1>3


\* Every step keeps the types.
LEMMA ApTypeStep == ApInv /\ [NextApprovals]_approvalVars => ApTypeOK'
<1> SUFFICES ASSUME ApInv, [NextApprovals]_approvalVars PROVE ApTypeOK'
  OBVIOUS
<1> USE ApprovalIds DEF ApInv, inMemory, outcomes, GotoJob, EndJob, IdleJob, LiveRow, ApIds,
   ApWorkers, ClickValues, TransitionRow, CanTransition, AnswerGateway
<1>1. ASSUME NEW h \in Holds, RequestApproval(h) PROVE ApTypeOK'
  <2>1. /\ asking' \in [ApIds -> {"never", "idle", "card", "row", "unsent", "done", "failed", "lost"}]
        /\ informed' \in {informed, [informed EXCEPT ![h] = TRUE]}
    BY <1>1 DEF ApTypeOK, RequestApproval
  <2>2. approval' \in [ApIds -> {"none", "pending", "awaiting_reason", "approved", "rejected", "expired", "deleted"}]
    BY <1>1 DEF ApTypeOK, RequestApproval
  <2>3. informed' \in [Holds -> BOOLEAN]
    BY <2>1 DEF ApTypeOK
  <2> QED
    BY <1>1, <2>1, <2>2, <2>3 DEF ApTypeOK, RequestApproval
<1>2. ASSUME NEW i \in ApIds, CardShown(i) PROVE ApTypeOK'
  BY <1>2 DEF ApTypeOK, JobsOK, ApJobs, HoldSteps, CredSteps, JobSteps, CardShown
<1>3. ASSUME NEW h \in Holds, CardSent(h) PROVE ApTypeOK'
  BY <1>3 DEF ApTypeOK, JobsOK, ApJobs, HoldSteps, CredSteps, JobSteps, CardSent
<1>4. ASSUME NEW h \in Holds, CardThrew(h) PROVE ApTypeOK'
  BY <1>4 DEF ApTypeOK, JobsOK, ApJobs, HoldSteps, CredSteps, JobSteps, CardThrew
<1>5. ASSUME NEW h \in Holds, TellUnsent(h) PROVE ApTypeOK'
  BY <1>5 DEF ApTypeOK, JobsOK, ApJobs, HoldSteps, CredSteps, JobSteps, TellUnsent
<1>6. ASSUME NEW h \in Holds, WindowElapses(h) PROVE ApTypeOK'
  BY <1>6 DEF ApTypeOK, JobsOK, ApJobs, HoldSteps, CredSteps, JobSteps, WindowElapses
<1>7. ASSUME NEW h \in Holds, SweepAwaitingReason(h) PROVE ApTypeOK'
  BY <1>7 DEF ApTypeOK, JobsOK, ApJobs, HoldSteps, CredSteps, JobSteps, SweepAwaitingReason
<1>8. ASSUME NEW c \in Creds, CredRequest(c) PROVE ApTypeOK'
  BY <1>8 DEF ApTypeOK, JobsOK, ApJobs, HoldSteps, CredSteps, JobSteps, CredRequest
<1>9. ASSUME NEW c \in Creds, CredDenied(c) PROVE ApTypeOK'
  BY <1>9 DEF ApTypeOK, JobsOK, ApJobs, HoldSteps, CredSteps, JobSteps, CredDenied
<1>10. ASSUME NEW c \in Creds, CredCreateRow(c) PROVE ApTypeOK'
  BY <1>10 DEF ApTypeOK, JobsOK, ApJobs, HoldSteps, CredSteps, JobSteps, CredCreateRow
<1>11. ASSUME NEW c \in Creds, CredArm(c) PROVE ApTypeOK'
  BY <1>11 DEF ApTypeOK, JobsOK, ApJobs, HoldSteps, CredSteps, JobSteps, CredArm
<1>12. ASSUME NEW c \in Creds, CredTimer(c) PROVE ApTypeOK'
  BY <1>12 DEF ApTypeOK, JobsOK, ApJobs, HoldSteps, CredSteps, JobSteps, CredTimer
<1>13. ASSUME NEW c \in Creds, ExpireApproval(c) PROVE ApTypeOK'
  BY <1>13 DEF ApTypeOK, JobsOK, ApJobs, HoldSteps, CredSteps, JobSteps, ExpireApproval
<1>14. ASSUME NEW c \in Creds, EditCardExpired(c) PROVE ApTypeOK'
  BY <1>14 DEF ApTypeOK, JobsOK, ApJobs, HoldSteps, CredSteps, JobSteps, EditCardExpired
<1>15. ASSUME NEW c \in Creds, SweepStale(c) PROVE ApTypeOK'
  BY <1>15 DEF ApTypeOK, JobsOK, ApJobs, HoldSteps, CredSteps, JobSteps, SweepStale
<1>16. ASSUME NEW k \in Clicks, ClickCard(k) PROVE ApTypeOK'
  BY <1>16 DEF ApTypeOK, JobsOK, ApJobs, HoldSteps, CredSteps, JobSteps, ClickCard
<1>17. ASSUME NEW w \in ApWorkers, HandleResponse(w) PROVE ApTypeOK'
  BY <1>17 DEF ApTypeOK, JobsOK, ApJobs, HoldSteps, CredSteps, JobSteps, HandleResponse
<1>18. ASSUME NEW w \in ApWorkers, Approve(w) PROVE ApTypeOK'
  BY <1>18 DEF ApTypeOK, JobsOK, ApJobs, HoldSteps, CredSteps, JobSteps, Approve
<1>19. ASSUME NEW w \in ApWorkers, ReplayHeld(w) PROVE ApTypeOK'
  <2>1. job' \in [ApWorkers -> ApJobs]
    BY <1>19 DEF JobsOK, ApJobs, JobSteps, HoldSteps, ReplayHeld
  <2>2. informed' \in {informed, [informed EXCEPT ![job[w].id] = TRUE]}
    BY <1>19 DEF ReplayHeld
  <2>3. informed' \in [Holds -> BOOLEAN]
    BY <2>2 DEF ApTypeOK
  <2> QED
    BY <1>19, <2>1, <2>3 DEF ApTypeOK, ApJobs, ReplayHeld
<1>20. ASSUME NEW w \in ApWorkers, ApplyHeld(w) PROVE ApTypeOK'
  <2>1. job' \in [ApWorkers -> ApJobs]
    BY <1>20 DEF JobsOK, ApJobs, JobSteps, ApplyHeld
  <2>2. applied' \in [Holds -> Nat]
    BY <1>20 DEF ApTypeOK, JobsOK, HoldSteps, ApplyHeld
  <2>3. informed' \in {informed, [informed EXCEPT ![job[w].id] = TRUE]}
    BY <1>20 DEF ApplyHeld
  <2>4. informed' \in [Holds -> BOOLEAN]
    BY <2>3 DEF ApTypeOK
  <2> QED
    BY <1>20, <2>1, <2>2, <2>4 DEF ApTypeOK, ApJobs, ApplyHeld
<1>21. ASSUME NEW w \in ApWorkers, DropRow(w) PROVE ApTypeOK'
  BY <1>21 DEF ApTypeOK, JobsOK, ApJobs, HoldSteps, CredSteps, JobSteps, DropRow
<1>22. ASSUME NEW w \in ApWorkers, FinalizeReject(w) PROVE ApTypeOK'
  BY <1>22 DEF ApTypeOK, JobsOK, ApJobs, HoldSteps, CredSteps, JobSteps, FinalizeReject
<1>23. ASSUME NEW w \in ApWorkers, WriteRejection(w) PROVE ApTypeOK'
  BY <1>23 DEF ApTypeOK, JobsOK, ApJobs, HoldSteps, CredSteps, JobSteps, WriteRejection
<1>24. ASSUME NEW w \in ApWorkers, MarkAwaitingReason(w) PROVE ApTypeOK'
  BY <1>24 DEF ApTypeOK, JobsOK, ApJobs, HoldSteps, CredSteps, JobSteps, MarkAwaitingReason
<1>25. ASSUME NEW w \in ApWorkers, ArmReasonCapture(w) PROVE ApTypeOK'
  BY <1>25 DEF ApTypeOK, JobsOK, ApJobs, HoldSteps, CredSteps, JobSteps, ArmReasonCapture
<1>26. ASSUME NEW w \in ApWorkers, FindResolver(w) PROVE ApTypeOK'
  BY <1>26 DEF ApTypeOK, JobsOK, ApJobs, HoldSteps, CredSteps, JobSteps, FindResolver
<1>27. ASSUME NEW w \in ApWorkers, ClaimCred(w) PROVE ApTypeOK'
  BY <1>27 DEF ApTypeOK, JobsOK, ApJobs, HoldSteps, CredSteps, JobSteps, ClaimCred
<1>28. ASSUME NEW w \in ApWorkers, ClearCred(w) PROVE ApTypeOK'
  BY <1>28 DEF ApTypeOK, JobsOK, ApJobs, HoldSteps, CredSteps, JobSteps, ClearCred
<1>29. ASSUME NEW w \in ApWorkers, ResolveCred(w) PROVE ApTypeOK'
  BY <1>29 DEF ApTypeOK, JobsOK, ApJobs, HoldSteps, CredSteps, JobSteps, ResolveCred
<1>30. CASE ReasonReply
  BY <1>30 DEF ApTypeOK, JobsOK, ApJobs, HoldSteps, CredSteps, JobSteps, ReasonReply
<1>31. CASE CaptureReasonReply
  BY <1>31 DEF ApTypeOK, JobsOK, ApJobs, HoldSteps, CredSteps, JobSteps, CaptureReasonReply
<1>32. CASE DeleteGroup
  BY <1>32 DEF ApTypeOK, JobsOK, ApJobs, HoldSteps, CredSteps, JobSteps, DeleteGroup
<1>33. CASE ApHostCrash
  BY <1>33 DEF ApTypeOK, JobsOK, ApJobs, HoldSteps, CredSteps, JobSteps, ApHostCrash
<1>34. CASE UNCHANGED approvalVars
  BY <1>34 DEF ApTypeOK, JobsOK, ApJobs, HoldSteps, CredSteps, JobSteps, approvalVars
<1> QED
  BY <1>1, <1>2, <1>3, <1>4, <1>5, <1>6, <1>7, <1>8, <1>9, <1>10, <1>11, <1>12, <1>13, <1>14,
     <1>15, <1>16, <1>17, <1>18, <1>19, <1>20, <1>21, <1>22, <1>23, <1>24, <1>25, <1>26, <1>27,
     <1>28, <1>29, <1>30, <1>31, <1>32, <1>33, <1>34 DEF NextApprovals, RequestStep, CredStep,
     WorkerStep

\* Every step leaves each handler at a step of what it handles.
LEMMA JobsStep == ApInv /\ [NextApprovals]_approvalVars => JobsOK'
<1> SUFFICES ASSUME ApInv, [NextApprovals]_approvalVars PROVE JobsOK'
  OBVIOUS
<1> USE ApprovalIds DEF ApInv, inMemory, outcomes, GotoJob, EndJob, IdleJob, LiveRow, ApIds,
   ApWorkers, ClickValues, TransitionRow, CanTransition, AnswerGateway
<1>1. ASSUME NEW h \in Holds, RequestApproval(h) PROVE JobsOK'
  BY <1>1 DEF ApTypeOK, JobsOK, ApJobs, HoldSteps, CredSteps, JobSteps, RequestApproval
<1>2. ASSUME NEW i \in ApIds, CardShown(i) PROVE JobsOK'
  BY <1>2 DEF ApTypeOK, JobsOK, ApJobs, HoldSteps, CredSteps, JobSteps, CardShown
<1>3. ASSUME NEW h \in Holds, CardSent(h) PROVE JobsOK'
  BY <1>3 DEF ApTypeOK, JobsOK, ApJobs, HoldSteps, CredSteps, JobSteps, CardSent
<1>4. ASSUME NEW h \in Holds, CardThrew(h) PROVE JobsOK'
  BY <1>4 DEF ApTypeOK, JobsOK, ApJobs, HoldSteps, CredSteps, JobSteps, CardThrew
<1>5. ASSUME NEW h \in Holds, TellUnsent(h) PROVE JobsOK'
  BY <1>5 DEF ApTypeOK, JobsOK, ApJobs, HoldSteps, CredSteps, JobSteps, TellUnsent
<1>6. ASSUME NEW h \in Holds, WindowElapses(h) PROVE JobsOK'
  BY <1>6 DEF ApTypeOK, JobsOK, ApJobs, HoldSteps, CredSteps, JobSteps, WindowElapses
<1>7. ASSUME NEW h \in Holds, SweepAwaitingReason(h) PROVE JobsOK'
  <2>1. /\ job'["sweep"].pc = "finalize" /\ job'["sweep"].id = h /\ job'["sweep"] \in ApJobs
        /\ DOMAIN job' = ApWorkers /\ \A v \in ApWorkers \ {"sweep"} : job'[v] = job[v]
    BY <1>7 DEF SweepAwaitingReason, JobsOK, ApJobs, JobSteps, HoldSteps
  <2>2. job' \in [ApWorkers -> ApJobs]
    BY <1>7, <2>1 DEF SweepAwaitingReason, JobsOK
  <2> QED
    BY <2>1, <2>2 DEF ApTypeOK, JobsOK, ApJobs, HoldSteps, CredSteps, JobSteps
<1>8. ASSUME NEW c \in Creds, CredRequest(c) PROVE JobsOK'
  BY <1>8 DEF ApTypeOK, JobsOK, ApJobs, HoldSteps, CredSteps, JobSteps, CredRequest
<1>9. ASSUME NEW c \in Creds, CredDenied(c) PROVE JobsOK'
  BY <1>9 DEF ApTypeOK, JobsOK, ApJobs, HoldSteps, CredSteps, JobSteps, CredDenied
<1>10. ASSUME NEW c \in Creds, CredCreateRow(c) PROVE JobsOK'
  BY <1>10 DEF ApTypeOK, JobsOK, ApJobs, HoldSteps, CredSteps, JobSteps, CredCreateRow
<1>11. ASSUME NEW c \in Creds, CredArm(c) PROVE JobsOK'
  BY <1>11 DEF ApTypeOK, JobsOK, ApJobs, HoldSteps, CredSteps, JobSteps, CredArm
<1>12. ASSUME NEW c \in Creds, CredTimer(c) PROVE JobsOK'
  BY <1>12 DEF ApTypeOK, JobsOK, ApJobs, HoldSteps, CredSteps, JobSteps, CredTimer
<1>13. ASSUME NEW c \in Creds, ExpireApproval(c) PROVE JobsOK'
  BY <1>13 DEF ApTypeOK, JobsOK, ApJobs, HoldSteps, CredSteps, JobSteps, ExpireApproval
<1>14. ASSUME NEW c \in Creds, EditCardExpired(c) PROVE JobsOK'
  BY <1>14 DEF ApTypeOK, JobsOK, ApJobs, HoldSteps, CredSteps, JobSteps, EditCardExpired
<1>15. ASSUME NEW c \in Creds, SweepStale(c) PROVE JobsOK'
  BY <1>15 DEF ApTypeOK, JobsOK, ApJobs, HoldSteps, CredSteps, JobSteps, SweepStale
<1>16. ASSUME NEW k \in Clicks, ClickCard(k) PROVE JobsOK'
  BY <1>16 DEF ApTypeOK, JobsOK, ApJobs, HoldSteps, CredSteps, JobSteps, ClickCard
<1>17. ASSUME NEW w \in ApWorkers, HandleResponse(w) PROVE JobsOK'
  BY <1>17, HandleResponseDoes DEF JobsOK, HoldSteps, CredSteps
<1>18. ASSUME NEW w \in ApWorkers, Approve(w) PROVE JobsOK'
  BY <1>18 DEF ApTypeOK, JobsOK, ApJobs, HoldSteps, CredSteps, JobSteps, Approve
<1>19. ASSUME NEW w \in ApWorkers, ReplayHeld(w) PROVE JobsOK'
  BY <1>19 DEF ApTypeOK, JobsOK, ApJobs, HoldSteps, CredSteps, JobSteps, ReplayHeld
<1>20. ASSUME NEW w \in ApWorkers, ApplyHeld(w) PROVE JobsOK'
  BY <1>20 DEF ApTypeOK, JobsOK, ApJobs, HoldSteps, CredSteps, JobSteps, ApplyHeld
<1>21. ASSUME NEW w \in ApWorkers, DropRow(w) PROVE JobsOK'
  BY <1>21 DEF ApTypeOK, JobsOK, ApJobs, HoldSteps, CredSteps, JobSteps, DropRow
<1>22. ASSUME NEW w \in ApWorkers, FinalizeReject(w) PROVE JobsOK'
  BY <1>22 DEF ApTypeOK, JobsOK, ApJobs, HoldSteps, CredSteps, JobSteps, FinalizeReject
<1>23. ASSUME NEW w \in ApWorkers, WriteRejection(w) PROVE JobsOK'
  BY <1>23 DEF ApTypeOK, JobsOK, ApJobs, HoldSteps, CredSteps, JobSteps, WriteRejection
<1>24. ASSUME NEW w \in ApWorkers, MarkAwaitingReason(w) PROVE JobsOK'
  BY <1>24 DEF ApTypeOK, JobsOK, ApJobs, HoldSteps, CredSteps, JobSteps, MarkAwaitingReason
<1>25. ASSUME NEW w \in ApWorkers, ArmReasonCapture(w) PROVE JobsOK'
  BY <1>25 DEF ApTypeOK, JobsOK, ApJobs, HoldSteps, CredSteps, JobSteps, ArmReasonCapture
<1>26. ASSUME NEW w \in ApWorkers, FindResolver(w) PROVE JobsOK'
  BY <1>26 DEF ApTypeOK, JobsOK, ApJobs, HoldSteps, CredSteps, JobSteps, FindResolver
<1>27. ASSUME NEW w \in ApWorkers, ClaimCred(w) PROVE JobsOK'
  BY <1>27 DEF ApTypeOK, JobsOK, ApJobs, HoldSteps, CredSteps, JobSteps, ClaimCred
<1>28. ASSUME NEW w \in ApWorkers, ClearCred(w) PROVE JobsOK'
  BY <1>28 DEF ApTypeOK, JobsOK, ApJobs, HoldSteps, CredSteps, JobSteps, ClearCred
<1>29. ASSUME NEW w \in ApWorkers, ResolveCred(w) PROVE JobsOK'
  BY <1>29 DEF ApTypeOK, JobsOK, ApJobs, HoldSteps, CredSteps, JobSteps, ResolveCred
<1>30. CASE ReasonReply
  <2>1. armed \in Holds
    BY <1>30 DEF ReasonReply, ApTypeOK
  <2>2. /\ job'["reply"].pc = "check" /\ job'["reply"].id = armed /\ job'["reply"] \in ApJobs
        /\ \A v \in ApWorkers \ {"reply"} : job'[v] = job[v]
    BY <1>30, <2>1 DEF ReasonReply, JobsOK, ApJobs, JobSteps, HoldSteps
  <2>3. job' \in [ApWorkers -> ApJobs]
    BY <1>30, <2>2 DEF ReasonReply, JobsOK
  <2> QED
    BY <2>1, <2>2, <2>3 DEF JobsOK, HoldSteps, CredSteps
<1>31. CASE CaptureReasonReply
  BY <1>31 DEF ApTypeOK, JobsOK, ApJobs, HoldSteps, CredSteps, JobSteps, CaptureReasonReply
<1>32. CASE DeleteGroup
  BY <1>32 DEF ApTypeOK, JobsOK, ApJobs, HoldSteps, CredSteps, JobSteps, DeleteGroup
<1>33. CASE ApHostCrash
  BY <1>33 DEF ApTypeOK, JobsOK, ApJobs, HoldSteps, CredSteps, JobSteps, ApHostCrash
<1>34. CASE UNCHANGED approvalVars
  BY <1>34 DEF ApTypeOK, JobsOK, ApJobs, HoldSteps, CredSteps, JobSteps, approvalVars
<1> QED
  BY <1>1, <1>2, <1>3, <1>4, <1>5, <1>6, <1>7, <1>8, <1>9, <1>10, <1>11, <1>12, <1>13, <1>14,
     <1>15, <1>16, <1>17, <1>18, <1>19, <1>20, <1>21, <1>22, <1>23, <1>24, <1>25, <1>26, <1>27,
     <1>28, <1>29, <1>30, <1>31, <1>32, <1>33, <1>34 DEF NextApprovals, RequestStep, CredStep,
     WorkerStep

-----------------------------------------------------------------------------
(* What is at work was asked for.                                          *)

\* A request starts without a row.
LEMMA NoRowStep == ApInv /\ [NextApprovals]_approvalVars => NoRowBeforeAsking'
<1> SUFFICES ASSUME ApInv, [NextApprovals]_approvalVars PROVE NoRowBeforeAsking'
  OBVIOUS
<1> USE ApprovalIds DEF ApInv, inMemory, outcomes, GotoJob, EndJob, IdleJob, LiveRow, ApIds,
   ApWorkers, ClickValues, TransitionRow, CanTransition, AnswerGateway, ApTypeOK, JobsOK, ApJobs,
   HoldSteps, CredSteps, JobSteps, AskedFirst, NoRowBeforeAsking, CredInv, UnarmedIsUndecided,
   LeftoverIsDenied, ExpiringIsDenied
<1>1. ASSUME NEW h \in Holds, RequestApproval(h) PROVE NoRowBeforeAsking'
  BY <1>1 DEF RequestApproval
<1>2. ASSUME NEW i \in ApIds, CardShown(i) PROVE NoRowBeforeAsking'
  BY <1>2 DEF CardShown
<1>3. ASSUME NEW h \in Holds, CardSent(h) PROVE NoRowBeforeAsking'
  BY <1>3 DEF CardSent
<1>4. ASSUME NEW h \in Holds, CardThrew(h) PROVE NoRowBeforeAsking'
  BY <1>4 DEF CardThrew
<1>5. ASSUME NEW h \in Holds, TellUnsent(h) PROVE NoRowBeforeAsking'
  BY <1>5 DEF TellUnsent
<1>6. ASSUME NEW h \in Holds, WindowElapses(h) PROVE NoRowBeforeAsking'
  BY <1>6 DEF WindowElapses
<1>7. ASSUME NEW h \in Holds, SweepAwaitingReason(h) PROVE NoRowBeforeAsking'
  BY <1>7 DEF SweepAwaitingReason
<1>8. ASSUME NEW c \in Creds, CredRequest(c) PROVE NoRowBeforeAsking'
  BY <1>8 DEF CredRequest
<1>9. ASSUME NEW c \in Creds, CredDenied(c) PROVE NoRowBeforeAsking'
  BY <1>9 DEF CredDenied
<1>10. ASSUME NEW c \in Creds, CredCreateRow(c) PROVE NoRowBeforeAsking'
  BY <1>10 DEF CredCreateRow
<1>11. ASSUME NEW c \in Creds, CredArm(c) PROVE NoRowBeforeAsking'
  BY <1>11 DEF CredArm
<1>12. ASSUME NEW c \in Creds, CredTimer(c) PROVE NoRowBeforeAsking'
  BY <1>12 DEF CredTimer
<1>13. ASSUME NEW c \in Creds, ExpireApproval(c) PROVE NoRowBeforeAsking'
  BY <1>13 DEF ExpireApproval
<1>14. ASSUME NEW c \in Creds, EditCardExpired(c) PROVE NoRowBeforeAsking'
  BY <1>14 DEF EditCardExpired
<1>15. ASSUME NEW c \in Creds, SweepStale(c) PROVE NoRowBeforeAsking'
  BY <1>15 DEF SweepStale
<1>16. ASSUME NEW k \in Clicks, ClickCard(k) PROVE NoRowBeforeAsking'
  BY <1>16 DEF ClickCard
<1>17. ASSUME NEW w \in ApWorkers, HandleResponse(w) PROVE NoRowBeforeAsking'
  BY <1>17 DEF HandleResponse
<1>18. ASSUME NEW w \in ApWorkers, Approve(w) PROVE NoRowBeforeAsking'
  BY <1>18 DEF Approve
<1>19. ASSUME NEW w \in ApWorkers, ReplayHeld(w) PROVE NoRowBeforeAsking'
  BY <1>19 DEF ReplayHeld
<1>20. ASSUME NEW w \in ApWorkers, ApplyHeld(w) PROVE NoRowBeforeAsking'
  BY <1>20 DEF ApplyHeld
<1>21. ASSUME NEW w \in ApWorkers, DropRow(w) PROVE NoRowBeforeAsking'
  BY <1>21 DEF DropRow
<1>22. ASSUME NEW w \in ApWorkers, FinalizeReject(w) PROVE NoRowBeforeAsking'
  BY <1>22 DEF FinalizeReject
<1>23. ASSUME NEW w \in ApWorkers, WriteRejection(w) PROVE NoRowBeforeAsking'
  BY <1>23 DEF WriteRejection
<1>24. ASSUME NEW w \in ApWorkers, MarkAwaitingReason(w) PROVE NoRowBeforeAsking'
  BY <1>24 DEF MarkAwaitingReason
<1>25. ASSUME NEW w \in ApWorkers, ArmReasonCapture(w) PROVE NoRowBeforeAsking'
  BY <1>25 DEF ArmReasonCapture
<1>26. ASSUME NEW w \in ApWorkers, FindResolver(w) PROVE NoRowBeforeAsking'
  BY <1>26 DEF FindResolver
<1>27. ASSUME NEW w \in ApWorkers, ClaimCred(w) PROVE NoRowBeforeAsking'
  BY <1>27 DEF ClaimCred
<1>28. ASSUME NEW w \in ApWorkers, ClearCred(w) PROVE NoRowBeforeAsking'
  BY <1>28 DEF ClearCred
<1>29. ASSUME NEW w \in ApWorkers, ResolveCred(w) PROVE NoRowBeforeAsking'
  BY <1>29 DEF ResolveCred
<1>30. CASE ReasonReply
  BY <1>30 DEF ReasonReply
<1>31. CASE CaptureReasonReply
  BY <1>31 DEF CaptureReasonReply
<1>32. CASE DeleteGroup
  BY <1>32 DEF DeleteGroup
<1>33. CASE ApHostCrash
  BY <1>33 DEF ApHostCrash
<1>34. CASE UNCHANGED approvalVars
  BY <1>34 DEF approvalVars
<1> QED
  BY <1>1, <1>2, <1>3, <1>4, <1>5, <1>6, <1>7, <1>8, <1>9, <1>10, <1>11, <1>12, <1>13, <1>14,
     <1>15, <1>16, <1>17, <1>18, <1>19, <1>20, <1>21, <1>22, <1>23, <1>24, <1>25, <1>26, <1>27,
     <1>28, <1>29, <1>30, <1>31, <1>32, <1>33, <1>34 DEF NextApprovals, RequestStep, CredStep,
     WorkerStep

\* Only what was asked is worked on.
LEMMA AskedStep == ApInv /\ [NextApprovals]_approvalVars => AskedFirst'
<1> SUFFICES ASSUME ApInv, [NextApprovals]_approvalVars PROVE AskedFirst'
  OBVIOUS
<1> USE ApprovalIds DEF ApInv, inMemory, outcomes, GotoJob, EndJob, IdleJob, LiveRow, ApIds,
   ApWorkers, ClickValues, TransitionRow, CanTransition, AnswerGateway
<1>1. ASSUME NEW h \in Holds, RequestApproval(h) PROVE AskedFirst'
  BY <1>1 DEF ApTypeOK, JobsOK, ApJobs, HoldSteps, CredSteps, JobSteps, AskedFirst,
     NoRowBeforeAsking, RequestApproval
<1>2. ASSUME NEW i \in ApIds, CardShown(i) PROVE AskedFirst'
  BY <1>2 DEF ApTypeOK, JobsOK, ApJobs, HoldSteps, CredSteps, JobSteps, AskedFirst,
     NoRowBeforeAsking, CardShown
<1>3. ASSUME NEW h \in Holds, CardSent(h) PROVE AskedFirst'
  BY <1>3 DEF ApTypeOK, JobsOK, ApJobs, HoldSteps, CredSteps, JobSteps, AskedFirst,
     NoRowBeforeAsking, CardSent
<1>4. ASSUME NEW h \in Holds, CardThrew(h) PROVE AskedFirst'
  BY <1>4 DEF ApTypeOK, JobsOK, ApJobs, HoldSteps, CredSteps, JobSteps, AskedFirst,
     NoRowBeforeAsking, CardThrew
<1>5. ASSUME NEW h \in Holds, TellUnsent(h) PROVE AskedFirst'
  BY <1>5 DEF ApTypeOK, JobsOK, ApJobs, HoldSteps, CredSteps, JobSteps, AskedFirst,
     NoRowBeforeAsking, TellUnsent
<1>6. ASSUME NEW h \in Holds, WindowElapses(h) PROVE AskedFirst'
  BY <1>6 DEF ApTypeOK, JobsOK, ApJobs, HoldSteps, CredSteps, JobSteps, AskedFirst,
     NoRowBeforeAsking, WindowElapses
<1>7. ASSUME NEW h \in Holds, SweepAwaitingReason(h) PROVE AskedFirst'
  BY <1>7 DEF ApTypeOK, JobsOK, ApJobs, HoldSteps, CredSteps, JobSteps, AskedFirst,
     NoRowBeforeAsking, SweepAwaitingReason
<1>8. ASSUME NEW c \in Creds, CredRequest(c) PROVE AskedFirst'
  BY <1>8 DEF ApTypeOK, JobsOK, ApJobs, HoldSteps, CredSteps, JobSteps, AskedFirst,
     NoRowBeforeAsking, CredRequest
<1>9. ASSUME NEW c \in Creds, CredDenied(c) PROVE AskedFirst'
  BY <1>9 DEF ApTypeOK, JobsOK, ApJobs, HoldSteps, CredSteps, JobSteps, AskedFirst,
     NoRowBeforeAsking, CredDenied
<1>10. ASSUME NEW c \in Creds, CredCreateRow(c) PROVE AskedFirst'
  BY <1>10 DEF ApTypeOK, JobsOK, ApJobs, HoldSteps, CredSteps, JobSteps, AskedFirst,
     NoRowBeforeAsking, CredCreateRow
<1>11. ASSUME NEW c \in Creds, CredArm(c) PROVE AskedFirst'
  BY <1>11 DEF ApTypeOK, JobsOK, ApJobs, HoldSteps, CredSteps, JobSteps, AskedFirst,
     NoRowBeforeAsking, CredArm
<1>12. ASSUME NEW c \in Creds, CredTimer(c) PROVE AskedFirst'
  BY <1>12 DEF ApTypeOK, JobsOK, ApJobs, HoldSteps, CredSteps, JobSteps, AskedFirst,
     NoRowBeforeAsking, CredTimer
<1>13. ASSUME NEW c \in Creds, ExpireApproval(c) PROVE AskedFirst'
  BY <1>13 DEF ApTypeOK, JobsOK, ApJobs, HoldSteps, CredSteps, JobSteps, AskedFirst,
     NoRowBeforeAsking, ExpireApproval
<1>14. ASSUME NEW c \in Creds, EditCardExpired(c) PROVE AskedFirst'
  BY <1>14 DEF ApTypeOK, JobsOK, ApJobs, HoldSteps, CredSteps, JobSteps, AskedFirst,
     NoRowBeforeAsking, EditCardExpired
<1>15. ASSUME NEW c \in Creds, SweepStale(c) PROVE AskedFirst'
  BY <1>15 DEF ApTypeOK, JobsOK, ApJobs, HoldSteps, CredSteps, JobSteps, AskedFirst,
     NoRowBeforeAsking, SweepStale
<1>16. ASSUME NEW k \in Clicks, ClickCard(k) PROVE AskedFirst'
  BY <1>16 DEF ApTypeOK, JobsOK, ApJobs, HoldSteps, CredSteps, JobSteps, AskedFirst,
     NoRowBeforeAsking, ClickCard
<1>17. ASSUME NEW w \in ApWorkers, HandleResponse(w) PROVE AskedFirst'
  <2>1. UNCHANGED <<approval, asking, armed>>
    BY <1>17 DEF HandleResponse
  <2>2. LiveRow(job[w].id) => asking[job[w].id] \notin {"never", "idle"}
    BY <1>17, HandleResponseDoes DEF NoRowBeforeAsking
  <2>3. \A v \in ApWorkers : job'[v].pc \notin {"idle", "done", "read"} => asking[job'[v].id] \notin {"never", "idle"}
    BY <1>17, <2>2, HandleResponseDoes DEF AskedFirst
  <2> QED
    BY <2>1, <2>3 DEF AskedFirst
<1>18. ASSUME NEW w \in ApWorkers, Approve(w) PROVE AskedFirst'
  BY <1>18 DEF ApTypeOK, JobsOK, ApJobs, HoldSteps, CredSteps, JobSteps, AskedFirst,
     NoRowBeforeAsking, Approve
<1>19. ASSUME NEW w \in ApWorkers, ReplayHeld(w) PROVE AskedFirst'
  BY <1>19 DEF ApTypeOK, JobsOK, ApJobs, HoldSteps, CredSteps, JobSteps, AskedFirst,
     NoRowBeforeAsking, ReplayHeld
<1>20. ASSUME NEW w \in ApWorkers, ApplyHeld(w) PROVE AskedFirst'
  BY <1>20 DEF ApTypeOK, JobsOK, ApJobs, HoldSteps, CredSteps, JobSteps, AskedFirst,
     NoRowBeforeAsking, ApplyHeld
<1>21. ASSUME NEW w \in ApWorkers, DropRow(w) PROVE AskedFirst'
  BY <1>21 DEF ApTypeOK, JobsOK, ApJobs, HoldSteps, CredSteps, JobSteps, AskedFirst,
     NoRowBeforeAsking, DropRow
<1>22. ASSUME NEW w \in ApWorkers, FinalizeReject(w) PROVE AskedFirst'
  BY <1>22 DEF ApTypeOK, JobsOK, ApJobs, HoldSteps, CredSteps, JobSteps, AskedFirst,
     NoRowBeforeAsking, FinalizeReject
<1>23. ASSUME NEW w \in ApWorkers, WriteRejection(w) PROVE AskedFirst'
  BY <1>23 DEF ApTypeOK, JobsOK, ApJobs, HoldSteps, CredSteps, JobSteps, AskedFirst,
     NoRowBeforeAsking, WriteRejection
<1>24. ASSUME NEW w \in ApWorkers, MarkAwaitingReason(w) PROVE AskedFirst'
  BY <1>24 DEF ApTypeOK, JobsOK, ApJobs, HoldSteps, CredSteps, JobSteps, AskedFirst,
     NoRowBeforeAsking, MarkAwaitingReason
<1>25. ASSUME NEW w \in ApWorkers, ArmReasonCapture(w) PROVE AskedFirst'
  BY <1>25 DEF ApTypeOK, JobsOK, ApJobs, HoldSteps, CredSteps, JobSteps, AskedFirst,
     NoRowBeforeAsking, ArmReasonCapture
<1>26. ASSUME NEW w \in ApWorkers, FindResolver(w) PROVE AskedFirst'
  BY <1>26 DEF ApTypeOK, JobsOK, ApJobs, HoldSteps, CredSteps, JobSteps, AskedFirst,
     NoRowBeforeAsking, FindResolver
<1>27. ASSUME NEW w \in ApWorkers, ClaimCred(w) PROVE AskedFirst'
  BY <1>27 DEF ApTypeOK, JobsOK, ApJobs, HoldSteps, CredSteps, JobSteps, AskedFirst,
     NoRowBeforeAsking, ClaimCred
<1>28. ASSUME NEW w \in ApWorkers, ClearCred(w) PROVE AskedFirst'
  BY <1>28 DEF ApTypeOK, JobsOK, ApJobs, HoldSteps, CredSteps, JobSteps, AskedFirst,
     NoRowBeforeAsking, ClearCred
<1>29. ASSUME NEW w \in ApWorkers, ResolveCred(w) PROVE AskedFirst'
  BY <1>29 DEF ApTypeOK, JobsOK, ApJobs, HoldSteps, CredSteps, JobSteps, AskedFirst,
     NoRowBeforeAsking, ResolveCred
<1>30. CASE ReasonReply
  BY <1>30 DEF ApTypeOK, JobsOK, ApJobs, HoldSteps, CredSteps, JobSteps, AskedFirst,
     NoRowBeforeAsking, ReasonReply
<1>31. CASE CaptureReasonReply
  BY <1>31 DEF ApTypeOK, JobsOK, ApJobs, HoldSteps, CredSteps, JobSteps, AskedFirst,
     NoRowBeforeAsking, CaptureReasonReply
<1>32. CASE DeleteGroup
  BY <1>32 DEF ApTypeOK, JobsOK, ApJobs, HoldSteps, CredSteps, JobSteps, AskedFirst,
     NoRowBeforeAsking, DeleteGroup
<1>33. CASE ApHostCrash
  BY <1>33 DEF ApTypeOK, JobsOK, ApJobs, HoldSteps, CredSteps, JobSteps, AskedFirst,
     NoRowBeforeAsking, ApHostCrash
<1>34. CASE UNCHANGED approvalVars
  BY <1>34 DEF ApTypeOK, JobsOK, ApJobs, HoldSteps, CredSteps, JobSteps, AskedFirst,
     NoRowBeforeAsking, approvalVars
<1> QED
  BY <1>1, <1>2, <1>3, <1>4, <1>5, <1>6, <1>7, <1>8, <1>9, <1>10, <1>11, <1>12, <1>13, <1>14,
     <1>15, <1>16, <1>17, <1>18, <1>19, <1>20, <1>21, <1>22, <1>23, <1>24, <1>25, <1>26, <1>27,
     <1>28, <1>29, <1>30, <1>31, <1>32, <1>33, <1>34 DEF NextApprovals, RequestStep, CredStep,
     WorkerStep

-----------------------------------------------------------------------------
(* Steps of the handlers, as the holds see them.                           *)

\* What the invariant says of a hold depends on who won its row and where the
\* winner is: a step in which other handlers move keeps it.
LEMMA OthersMove ==
  ASSUME HoldInv, UNCHANGED <<outcomes, asking, apCrashes>>,
         \A h \in Holds : approval'[h] # approval[h] => Open(h) /\ Open(h)',
         \A v \in ApWorkers, h \in Holds :
           (Won(v, h) <=> Won(v, h)') /\ (Won(v, h) => job'[v].pc = job[v].pc)
  PROVE  HoldInv'
<1> USE DEF HoldInv, outcomes
<1>1. WonIsClosed' /\ OneWinner' /\ OpenIsUndecided' /\ DecidedOnce'
  BY DEF WonIsClosed, OneWinner, OpenIsUndecided, DecidedOnce, Open
<1>2. UndecidedUntilTheEnd' /\ SettledIsAnswered'
  BY DEF UndecidedUntilTheEnd, SettledIsAnswered, Won
<1>3. DroppedIsAnswered' /\ ClaimedIsWon'
  BY DEF DroppedIsAnswered, ClaimedIsWon, Open
<1> QED
  BY <1>1, <1>2, <1>3

\* A handler that ends without the row, or goes on to something else than a win.
LEMMA MovesOn ==
  ASSUME JobsOK, HoldInv, UNCHANGED <<outcomes, asking, apCrashes>>, NEW w \in ApWorkers,
         \A h \in Holds : approval'[h] # approval[h] => Open(h) /\ Open(h)',
         \A v \in ApWorkers \ {w} : job'[v] = job[v],
         \A h \in Holds : ~Won(w, h) /\ ~Won(w, h)'
  PROVE  HoldInv'
  BY OthersMove DEF Won

\* The compare-and-set that wins the row of an open hold.
LEMMA WinsTheRow ==
  ASSUME JobsOK, HoldInv, UNCHANGED <<outcomes, asking, apCrashes>>,
         NEW w \in ApWorkers, NEW i \in Holds, Open(i), approval'[i] \in {"approved", "rejected"},
         \A h \in Holds \ {i} : approval'[h] = approval[h],
         \A v \in ApWorkers \ {w} : job'[v] = job[v],
         job[w].id = i, \A h \in Holds : ~Won(w, h),
         job'[w].id = i, job'[w].pc \in {"replay", "note"}
  PROVE  HoldInv'
<1> USE DEF HoldInv, outcomes
<1>1. \A h \in Holds : Won(w, h)' <=> h = i
  BY DEF Won
<1>2. \A v \in ApWorkers, h \in Holds : v # w => (Won(v, h) <=> Won(v, h)')
  BY DEF Won
<1>3. WonIsClosed' /\ OneWinner'
  BY <1>1, <1>2 DEF WonIsClosed, OneWinner, Open
<1>4. OpenIsUndecided' /\ DecidedOnce' /\ DroppedIsAnswered'
  BY DEF OpenIsUndecided, DecidedOnce, DroppedIsAnswered, Open
<1>5. UndecidedUntilTheEnd'
  BY DEF UndecidedUntilTheEnd, OpenIsUndecided
<1>6. SettledIsAnswered'
  BY DEF SettledIsAnswered
<1>7. ClaimedIsWon'
  BY <1>1, <1>2 DEF ClaimedIsWon, Won
<1> QED
  BY <1>3, <1>4, <1>5, <1>6, <1>7

\* What TransitionRow does to the worker and to the row.
LEMMA TransitionRowDoes ==
  ASSUME JobsOK, ApTypeOK, NEW w \in ApWorkers, job[w].id \in ApIds, NEW from, NEW to, NEW next,
         TransitionRow(w, from, to, next)
  PROVE  /\ \A v \in ApWorkers \ {w} : job'[v] = job[v]
         /\ \/ /\ approval[job[w].id] = from
               /\ approval' = [approval EXCEPT ![job[w].id] = to]
               /\ job'[w].pc = next /\ job'[w].id = job[w].id
            \/ approval' = approval /\ job'[w].pc \in {"idle", "done"} /\ job'[w].id = NoHold
  BY DEF JobsOK, ApJobs, ApTypeOK, TransitionRow, CanTransition, GotoJob, EndJob, IdleJob

\* What a handler that takes its row to an end keeps.
LEMMA HandlersKeepHolds ==
  ASSUME ApInv, ApTypeOK', JobsOK', NEW w \in ApWorkers, WorkerStep(w) PROVE HoldInv'
<1> USE ApprovalIds DEF ApInv
<1>0. \A h \in Holds : h # NoHold
  OBVIOUS
<1>1. CASE HandleResponse(w)
  <2>1. /\ \A v \in ApWorkers \ {w} : job'[v] = job[v]
        /\ job[w].pc = "read" /\ job'[w].pc \in {"done", "idle", "resolver", "arm", "finalize", "approve"}
    BY <1>1, HandleResponseDoes
  <2>2. \A h \in Holds : ~Won(w, h) /\ ~Won(w, h)'
    BY <2>1 DEF Won
  <2> QED
    BY <1>1, <2>1, <2>2, MovesOn DEF HandleResponse
<1>2. CASE Approve(w)
  <2>1. job[w].pc = "approve" /\ job[w].id \in Holds /\ UNCHANGED <<outcomes, asking, apCrashes>>
    BY <1>2 DEF Approve, JobsOK, HoldSteps
  <2>2. TransitionRow(w, "pending", "approved", "replay")
    BY <1>2 DEF Approve
  <2>3. \A h \in Holds : ~Won(w, h)
    BY <2>1 DEF Won
  <2>4. \A v \in ApWorkers \ {w} : job'[v] = job[v]
    BY <2>1, <2>2, TransitionRowDoes DEF ApIds
  <2>5. CASE approval' = approval /\ job'[w].pc \in {"idle", "done"} /\ job'[w].id = NoHold
    BY <1>0, <2>1, <2>3, <2>4, <2>5, MovesOn DEF Won
  <2>6. CASE /\ approval[job[w].id] = "pending" /\ approval' = [approval EXCEPT ![job[w].id] = "approved"]
             /\ job'[w].pc = "replay" /\ job'[w].id = job[w].id
    BY <2>1, <2>3, <2>4, <2>6, WinsTheRow DEF Open, ApTypeOK, ApIds
  <2> QED
    BY <2>1, <2>2, <2>5, <2>6, TransitionRowDoes DEF ApIds
<1>3. CASE FinalizeReject(w)
  <2>1. job[w].pc = "finalize" /\ job[w].id \in Holds /\ UNCHANGED <<outcomes, asking, apCrashes>>
    BY <1>3 DEF FinalizeReject, JobsOK, HoldSteps
  <2>2. TransitionRow(w, job[w].snap, "rejected", "note") /\ job[w].snap \in {"pending", "awaiting_reason"}
    BY <1>3 DEF FinalizeReject, JobsOK, ApJobs
  <2>3. \A h \in Holds : ~Won(w, h)
    BY <2>1 DEF Won
  <2>4. \A v \in ApWorkers \ {w} : job'[v] = job[v]
    BY <2>1, <2>2, TransitionRowDoes DEF ApIds
  <2>5. CASE approval' = approval /\ job'[w].pc \in {"idle", "done"} /\ job'[w].id = NoHold
    BY <1>0, <2>1, <2>3, <2>4, <2>5, MovesOn DEF Won
  <2>6. CASE /\ approval[job[w].id] = job[w].snap /\ approval' = [approval EXCEPT ![job[w].id] = "rejected"]
             /\ job'[w].pc = "note" /\ job'[w].id = job[w].id
    BY <2>1, <2>2, <2>3, <2>4, <2>6, WinsTheRow DEF Open, ApTypeOK, ApIds
  <2> QED
    BY <2>1, <2>2, <2>5, <2>6, TransitionRowDoes DEF ApIds
<1>4. CASE MarkAwaitingReason(w)
  <2>1. job[w].pc = "arm" /\ job[w].id \in Holds /\ UNCHANGED <<outcomes, asking, apCrashes>>
    BY <1>4 DEF MarkAwaitingReason, JobsOK, HoldSteps
  <2>2. TransitionRow(w, "pending", "awaiting_reason", "prompt")
    BY <1>4 DEF MarkAwaitingReason
  <2>3. \A v \in ApWorkers \ {w} : job'[v] = job[v]
    BY <2>1, <2>2, TransitionRowDoes DEF ApIds
  <2>4. job'[w].pc \in {"idle", "done", "prompt"} /\ \A h \in Holds : approval'[h] # approval[h] => Open(h) /\ Open(h)'
    BY <2>1, <2>2, TransitionRowDoes DEF ApIds, Open, ApTypeOK
  <2>5. \A h \in Holds : ~Won(w, h) /\ ~Won(w, h)'
    BY <2>1, <2>4 DEF Won
  <2> QED
    BY <2>1, <2>3, <2>4, <2>5, MovesOn
<1>5. CASE ArmReasonCapture(w)
  <2>1. /\ \A v \in ApWorkers \ {w} : job'[v] = job[v]
        /\ job[w].pc = "prompt" /\ job'[w].pc \in {"idle", "done", "finalize"}
        /\ UNCHANGED <<approval, outcomes, asking, apCrashes>>
    BY <1>5 DEF ArmReasonCapture, EndJob, IdleJob, JobsOK, ApJobs
  <2>2. \A h \in Holds : ~Won(w, h) /\ ~Won(w, h)'
    BY <2>1 DEF Won
  <2> QED
    BY <2>1, <2>2, MovesOn
<1>6. CASE FindResolver(w) \/ ClaimCred(w) \/ ClearCred(w) \/ ResolveCred(w)
  <2>1. job[w].pc \in CredSteps /\ job[w].id \in Creds
    BY <1>6 DEF FindResolver, ClaimCred, ClearCred, ResolveCred, JobsOK, CredSteps
  <2>2. /\ \A v \in ApWorkers \ {w} : job'[v] = job[v]
        /\ job'[w].id \in {job[w].id, NoHold} /\ UNCHANGED <<outcomes, asking, apCrashes>>
    BY <1>6 DEF FindResolver, ClaimCred, ClearCred, ResolveCred, GotoJob, EndJob, IdleJob, JobsOK,
       ApJobs
  <2>3. \A h \in Holds : approval'[h] = approval[h]
    BY <1>6, <2>1 DEF FindResolver, ClaimCred, ClearCred, ResolveCred, ApTypeOK, ApIds
  <2>4. \A h \in Holds : ~Won(w, h) /\ ~Won(w, h)'
    BY <1>0, <2>1, <2>2 DEF Won
  <2> QED
    BY <2>2, <2>3, <2>4, MovesOn
<1>7. CASE ReplayHeld(w)
  <2> DEFINE i == job[w].id
  <2>1. /\ i \in Holds /\ job[w].pc = "replay"
        /\ UNCHANGED <<approval, asking, applied, rejected, gone, apCrashes>>
    BY <1>7 DEF ReplayHeld, JobsOK, HoldSteps
  <2>2. /\ \A v \in ApWorkers \ {w} : job'[v] = job[v]
        /\ job'[w].id = i
        /\ job'[w].pc = "apply" \/ (job'[w].pc = "settle" /\ informed'[i])
        /\ \A h \in Holds : informed[h] => informed'[h]
    BY <1>7, <2>1 DEF ReplayHeld, GotoJob, JobsOK, ApJobs, ApTypeOK
  <2>3. \A v \in ApWorkers, h \in Holds : Won(v, h)' <=> Won(v, h)
    BY <2>1, <2>2 DEF Won
  <2>4. WonIsClosed' /\ OneWinner' /\ OpenIsUndecided' /\ DecidedOnce' /\ ClaimedIsWon'
    BY <2>1, <2>3 DEF HoldInv, WonIsClosed, OneWinner, OpenIsUndecided, DecidedOnce, ClaimedIsWon,
       Open
  <2>5. UndecidedUntilTheEnd'
    BY <2>1, <2>2 DEF HoldInv, UndecidedUntilTheEnd
  <2>6. SettledIsAnswered' /\ DroppedIsAnswered'
    BY <2>1, <2>2 DEF HoldInv, SettledIsAnswered, DroppedIsAnswered
  <2> QED
    BY <2>4, <2>5, <2>6 DEF HoldInv
<1>8. CASE ApplyHeld(w) \/ WriteRejection(w)
  <2> DEFINE i == job[w].id
  <2>1. /\ i \in Holds /\ job[w].pc \in {"apply", "note"}
        /\ UNCHANGED <<approval, asking, gone, apCrashes>>
    BY <1>8 DEF ApplyHeld, WriteRejection, JobsOK, HoldSteps
  <2>2. /\ \A v \in ApWorkers \ {w} : job'[v] = job[v]
        /\ job'[w].id = i /\ job'[w].pc = "settle"
    BY <1>8, <2>1 DEF ApplyHeld, WriteRejection, GotoJob, JobsOK, ApJobs
  <2>3. \A h \in Holds \ {i} : applied'[h] = applied[h] /\ rejected'[h] = rejected[h] /\ informed'[h] = informed[h]
    BY <1>8, <2>1 DEF ApplyHeld, WriteRejection, ApTypeOK
  <2>4. applied[i] = 0 /\ rejected[i] = 0 /\ ~Open(i)
    BY <2>1 DEF HoldInv, UndecidedUntilTheEnd, WonIsClosed, Won
  <2>5. \/ applied'[i] = 1 /\ rejected'[i] = 0 /\ informed'[i] = informed[i]
        \/ applied'[i] = 0 /\ rejected'[i] = 1 /\ informed'[i] = informed[i]
        \/ applied'[i] = 0 /\ rejected'[i] = 0 /\ informed'[i]
    BY <1>8, <2>1, <2>4 DEF ApplyHeld, WriteRejection, ApTypeOK
  <2>6. \A v \in ApWorkers, h \in Holds : Won(v, h)' <=> Won(v, h)
    BY <2>1, <2>2 DEF Won
  <2>7. WonIsClosed' /\ OneWinner' /\ ClaimedIsWon'
    BY <2>1, <2>6 DEF HoldInv, WonIsClosed, OneWinner, ClaimedIsWon, Open
  <2>8. OpenIsUndecided'
    BY <2>1, <2>3, <2>4 DEF HoldInv, OpenIsUndecided, Open
  <2>9. DecidedOnce'
    BY <2>1, <2>3, <2>5 DEF HoldInv, DecidedOnce
  <2>10. UndecidedUntilTheEnd'
    <3> SUFFICES ASSUME NEW v \in ApWorkers, NEW h \in Holds,
                        job'[v].id = h, job'[v].pc \in {"replay", "apply", "note"}
                 PROVE  applied'[h] = 0 /\ rejected'[h] = 0
      BY DEF UndecidedUntilTheEnd
    <3>1. v # w /\ Won(v, h)
      BY <2>2 DEF Won
    <3>2. Won(w, i)
      BY <2>1 DEF Won
    <3>3. h # i
      BY <2>1, <3>1, <3>2 DEF HoldInv, OneWinner
    <3> QED
      BY <2>2, <2>3, <3>1, <3>3 DEF HoldInv, UndecidedUntilTheEnd
  <2>11. SettledIsAnswered'
    <3> SUFFICES ASSUME NEW v \in ApWorkers, NEW h \in Holds, job'[v].id = h, job'[v].pc = "settle"
                 PROVE  informed'[h] \/ applied'[h] + rejected'[h] = 1
      BY DEF SettledIsAnswered
    <3>1. CASE h = i
      BY <2>5, <3>1
    <3>2. CASE h # i
      BY <2>2, <2>3, <3>2 DEF HoldInv, SettledIsAnswered
    <3> QED
      BY <3>1, <3>2
  <2>12. DroppedIsAnswered'
    <3> SUFFICES ASSUME NEW h \in Holds, approval[h] = "deleted"
                 PROVE  gone \/ informed'[h] \/ applied'[h] + rejected'[h] = 1 \/ asking[h] \in {"unsent", "lost"}
      BY <2>1 DEF DroppedIsAnswered
    <3>1. CASE h = i
      BY <2>5, <3>1
    <3>2. CASE h # i
      BY <2>3, <3>2 DEF HoldInv, DroppedIsAnswered
    <3> QED
      BY <3>1, <3>2
  <2> QED
    BY <2>7, <2>8, <2>9, <2>10, <2>11, <2>12 DEF HoldInv
<1>9. CASE DropRow(w)
  <2> DEFINE i == job[w].id
  <2>1. /\ i \in ApIds /\ job[w].pc = "settle" /\ approval' = [approval EXCEPT ![i] = "deleted"]
        /\ UNCHANGED <<outcomes, asking, apCrashes>>
    BY <1>9 DEF DropRow, JobsOK
  <2>2. (\A v \in ApWorkers \ {w} : job'[v] = job[v]) /\ job'[w].pc \in {"idle", "done"} /\ job'[w].id = NoHold
    BY <1>9 DEF DropRow, EndJob, IdleJob, JobsOK
  <2>3. CASE i \notin Holds
    <3>1. \A h \in Holds : approval'[h] = approval[h] /\ ~Won(w, h) /\ ~Won(w, h)'
      BY <1>0, <2>1, <2>2, <2>3 DEF ApTypeOK, ApIds, Won
    <3> QED
      BY <2>1, <2>2, <3>1, MovesOn
  <2>4. CASE i \in Holds
    <3>1. \A v \in ApWorkers, h \in Holds : Won(v, h)' <=> (Won(v, h) /\ v # w)
      BY <2>1, <2>2 DEF Won
    <3>2. \A v \in ApWorkers, h \in Holds : Won(v, h)' => job'[v].pc = job[v].pc
      BY <2>1, <2>2 DEF Won
    <3>3. Won(w, i)
      BY <2>1 DEF Won
    <3>4. approval'[i] = "deleted" /\ \A h \in Holds \ {i} : approval'[h] = approval[h]
      BY <2>1 DEF ApTypeOK
    <3>5. WonIsClosed' /\ OneWinner' /\ OpenIsUndecided' /\ DecidedOnce'
      BY <2>1, <3>1, <3>4
      DEF HoldInv, WonIsClosed, OneWinner, OpenIsUndecided, DecidedOnce, Open, outcomes
    <3>6. UndecidedUntilTheEnd' /\ SettledIsAnswered'
      BY <2>1, <2>2 DEF HoldInv, UndecidedUntilTheEnd, SettledIsAnswered, outcomes
    <3>7. DroppedIsAnswered'
      BY <2>1, <2>4, <3>4 DEF HoldInv, DroppedIsAnswered, SettledIsAnswered, outcomes
    <3>8. \A h \in Holds \ {i} : ~Won(w, h)
      BY DEF Won
    <3>9. ClaimedIsWon'
      BY <2>1, <3>1, <3>4, <3>8 DEF HoldInv, ClaimedIsWon
    <3> QED
      BY <3>5, <3>6, <3>7, <3>9 DEF HoldInv
  <2> QED
    BY <2>3, <2>4
<1> QED
  BY <1>1, <1>2, <1>3, <1>4, <1>5, <1>6, <1>7, <1>8, <1>9 DEF WorkerStep

\* Every step keeps what the holds rely on.
LEMMA HoldStep == ApInv /\ [NextApprovals]_approvalVars => HoldInv'
<1> SUFFICES ASSUME ApInv, [NextApprovals]_approvalVars PROVE HoldInv'
  OBVIOUS
<1> USE ApprovalIds DEF ApInv, inMemory, outcomes, GotoJob, EndJob, IdleJob, LiveRow, ApIds,
   ApWorkers, ClickValues, TransitionRow, CanTransition, AnswerGateway
<1>1. ASSUME NEW h \in Holds, RequestApproval(h) PROVE HoldInv'
  <2>1. asking[h] = "idle" /\ approval[h] = "none" /\ UNCHANGED <<job, applied, rejected, gone, apCrashes>>
    BY <1>1 DEF RequestApproval, NoRowBeforeAsking
  <2>2. /\ \A g \in Holds \ {h} : approval'[g] = approval[g] /\ asking'[g] = asking[g]
        /\ \A g \in Holds : informed[g] => informed'[g]
        /\ approval'[h] \in {"none", "pending"}
    BY <1>1, <2>1 DEF RequestApproval, ApTypeOK
  <2>3. WonIsClosed' /\ OneWinner' /\ OpenIsUndecided' /\ DecidedOnce' /\ UndecidedUntilTheEnd'
    BY <2>1, <2>2
    DEF HoldInv, Won, Open, WonIsClosed, OneWinner, OpenIsUndecided, DecidedOnce, UndecidedUntilTheEnd
  <2>4. SettledIsAnswered' /\ DroppedIsAnswered' /\ ClaimedIsWon'
    BY <2>1, <2>2 DEF HoldInv, Won, SettledIsAnswered, DroppedIsAnswered, ClaimedIsWon
  <2> QED
    BY <2>3, <2>4 DEF HoldInv
<1>2. ASSUME NEW i \in ApIds, CardShown(i) PROVE HoldInv'
  BY <1>2 DEF ApTypeOK, HoldInv, Open, Won, WonIsClosed, OneWinner, OpenIsUndecided,
     UndecidedUntilTheEnd, SettledIsAnswered, DroppedIsAnswered, ClaimedIsWon, DecidedOnce,
     CardShown
<1>3. ASSUME NEW h \in Holds, CardSent(h) PROVE HoldInv'
  BY <1>3 DEF ApTypeOK, HoldInv, Open, Won, WonIsClosed, OneWinner, OpenIsUndecided,
     UndecidedUntilTheEnd, SettledIsAnswered, DroppedIsAnswered, ClaimedIsWon, DecidedOnce, CardSent
<1>4. ASSUME NEW h \in Holds, CardThrew(h) PROVE HoldInv'
  BY <1>4 DEF ApTypeOK, HoldInv, Open, Won, WonIsClosed, OneWinner, OpenIsUndecided,
     UndecidedUntilTheEnd, SettledIsAnswered, DroppedIsAnswered, ClaimedIsWon, DecidedOnce,
     CardThrew
<1>5. ASSUME NEW h \in Holds, TellUnsent(h) PROVE HoldInv'
  BY <1>5 DEF ApTypeOK, HoldInv, Open, Won, WonIsClosed, OneWinner, OpenIsUndecided,
     UndecidedUntilTheEnd, SettledIsAnswered, DroppedIsAnswered, ClaimedIsWon, DecidedOnce,
     TellUnsent
<1>6. ASSUME NEW h \in Holds, WindowElapses(h) PROVE HoldInv'
  BY <1>6 DEF ApTypeOK, HoldInv, Open, Won, WonIsClosed, OneWinner, OpenIsUndecided,
     UndecidedUntilTheEnd, SettledIsAnswered, DroppedIsAnswered, ClaimedIsWon, DecidedOnce,
     WindowElapses
<1>7. ASSUME NEW h \in Holds, SweepAwaitingReason(h) PROVE HoldInv'
  <2>1. /\ UNCHANGED <<approval, outcomes, asking, apCrashes>>
        /\ job["sweep"].pc = "idle" /\ job'["sweep"].pc \in {"idle", "done", "finalize"}
        /\ \A v \in ApWorkers \ {"sweep"} : job'[v] = job[v]
    BY <1>7 DEF SweepAwaitingReason, JobsOK, ApJobs
  <2>2. \A g \in Holds : ~Won("sweep", g) /\ ~Won("sweep", g)'
    BY <2>1 DEF Won
  <2> QED
    BY <2>1, <2>2, MovesOn
<1>8. ASSUME NEW c \in Creds, CredRequest(c) PROVE HoldInv'
  BY <1>8 DEF ApTypeOK, HoldInv, Open, Won, WonIsClosed, OneWinner, OpenIsUndecided,
     UndecidedUntilTheEnd, SettledIsAnswered, DroppedIsAnswered, ClaimedIsWon, DecidedOnce,
     CredRequest
<1>9. ASSUME NEW c \in Creds, CredDenied(c) PROVE HoldInv'
  BY <1>9 DEF ApTypeOK, HoldInv, Open, Won, WonIsClosed, OneWinner, OpenIsUndecided,
     UndecidedUntilTheEnd, SettledIsAnswered, DroppedIsAnswered, ClaimedIsWon, DecidedOnce,
     CredDenied
<1>10. ASSUME NEW c \in Creds, CredCreateRow(c) PROVE HoldInv'
  BY <1>10 DEF ApTypeOK, HoldInv, Open, Won, WonIsClosed, OneWinner, OpenIsUndecided,
     UndecidedUntilTheEnd, SettledIsAnswered, DroppedIsAnswered, ClaimedIsWon, DecidedOnce,
     CredCreateRow
<1>11. ASSUME NEW c \in Creds, CredArm(c) PROVE HoldInv'
  BY <1>11 DEF ApTypeOK, HoldInv, Open, Won, WonIsClosed, OneWinner, OpenIsUndecided,
     UndecidedUntilTheEnd, SettledIsAnswered, DroppedIsAnswered, ClaimedIsWon, DecidedOnce, CredArm
<1>12. ASSUME NEW c \in Creds, CredTimer(c) PROVE HoldInv'
  BY <1>12 DEF ApTypeOK, HoldInv, Open, Won, WonIsClosed, OneWinner, OpenIsUndecided,
     UndecidedUntilTheEnd, SettledIsAnswered, DroppedIsAnswered, ClaimedIsWon, DecidedOnce,
     CredTimer
<1>13. ASSUME NEW c \in Creds, ExpireApproval(c) PROVE HoldInv'
  BY <1>13 DEF ApTypeOK, HoldInv, Open, Won, WonIsClosed, OneWinner, OpenIsUndecided,
     UndecidedUntilTheEnd, SettledIsAnswered, DroppedIsAnswered, ClaimedIsWon, DecidedOnce,
     ExpireApproval
<1>14. ASSUME NEW c \in Creds, EditCardExpired(c) PROVE HoldInv'
  BY <1>14 DEF ApTypeOK, HoldInv, Open, Won, WonIsClosed, OneWinner, OpenIsUndecided,
     UndecidedUntilTheEnd, SettledIsAnswered, DroppedIsAnswered, ClaimedIsWon, DecidedOnce,
     EditCardExpired
<1>15. ASSUME NEW c \in Creds, SweepStale(c) PROVE HoldInv'
  BY <1>15 DEF ApTypeOK, HoldInv, Open, Won, WonIsClosed, OneWinner, OpenIsUndecided,
     UndecidedUntilTheEnd, SettledIsAnswered, DroppedIsAnswered, ClaimedIsWon, DecidedOnce,
     SweepStale
<1>16. ASSUME NEW k \in Clicks, ClickCard(k) PROVE HoldInv'
  <2>1. /\ UNCHANGED <<approval, outcomes, asking, apCrashes>>
        /\ job[k].pc = "idle" /\ job'[k].pc \in {"idle", "done", "read"}
        /\ \A v \in ApWorkers \ {k} : job'[v] = job[v]
    BY <1>16 DEF ClickCard, JobsOK, ApJobs
  <2>2. \A h \in Holds : ~Won(k, h) /\ ~Won(k, h)'
    BY <2>1 DEF Won
  <2> QED
    BY <2>1, <2>2, MovesOn
<1>17. ASSUME NEW w \in ApWorkers, WorkerStep(w) PROVE HoldInv'
  BY <1>17, ApTypeStep, JobsStep, HandlersKeepHolds DEF NextApprovals
<1>18. CASE ReasonReply
  <2>1. /\ UNCHANGED <<approval, outcomes, asking, apCrashes>>
        /\ job["reply"].pc = "idle" /\ job'["reply"].pc \in {"idle", "done", "check"}
        /\ \A v \in ApWorkers \ {"reply"} : job'[v] = job[v]
    BY <1>18 DEF ReasonReply, JobsOK, ApJobs
  <2>2. \A h \in Holds : ~Won("reply", h) /\ ~Won("reply", h)'
    BY <2>1 DEF Won
  <2> QED
    BY <2>1, <2>2, MovesOn
<1>19. CASE CaptureReasonReply
  <2>1. /\ UNCHANGED <<approval, outcomes, asking, apCrashes>>
        /\ job["reply"].pc = "check" /\ job'["reply"].pc \in {"idle", "done", "finalize"}
        /\ \A v \in ApWorkers \ {"reply"} : job'[v] = job[v]
    BY <1>19 DEF CaptureReasonReply, JobsOK, ApJobs
  <2>2. \A h \in Holds : ~Won("reply", h) /\ ~Won("reply", h)'
    BY <2>1 DEF Won
  <2> QED
    BY <2>1, <2>2, MovesOn
<1>20. CASE DeleteGroup
  BY <1>20 DEF ApTypeOK, HoldInv, Open, Won, WonIsClosed, OneWinner, OpenIsUndecided,
     UndecidedUntilTheEnd, SettledIsAnswered, DroppedIsAnswered, ClaimedIsWon, DecidedOnce,
     DeleteGroup
<1>21. CASE ApHostCrash
  BY <1>21 DEF ApTypeOK, HoldInv, Open, Won, WonIsClosed, OneWinner, OpenIsUndecided,
     UndecidedUntilTheEnd, SettledIsAnswered, DroppedIsAnswered, ClaimedIsWon, DecidedOnce,
     ApHostCrash
<1>22. CASE UNCHANGED approvalVars
  BY <1>22 DEF ApTypeOK, HoldInv, Open, Won, WonIsClosed, OneWinner, OpenIsUndecided,
     UndecidedUntilTheEnd, SettledIsAnswered, DroppedIsAnswered, ClaimedIsWon, DecidedOnce,
     approvalVars
<1> QED
  BY <1>1, <1>2, <1>3, <1>4, <1>5, <1>6, <1>7, <1>8, <1>9, <1>10, <1>11, <1>12, <1>13, <1>14,
     <1>15, <1>16, <1>17, <1>18, <1>19, <1>20, <1>21, <1>22 DEF NextApprovals, RequestStep, CredStep

-----------------------------------------------------------------------------
(* Credential requests.                                                    *)

\* Every step keeps what the gateway's answers rely on.
LEMMA CredStepKeeps == ApInv /\ [NextApprovals]_approvalVars => CredInv'
<1> SUFFICES ASSUME ApInv, [NextApprovals]_approvalVars PROVE CredInv'
  OBVIOUS
<1> USE ApprovalIds DEF ApInv, inMemory, outcomes, GotoJob, EndJob, IdleJob, LiveRow, ApIds,
   ApWorkers, ClickValues, TransitionRow, CanTransition, AnswerGateway
<1>1. ASSUME NEW h \in Holds, RequestApproval(h) PROVE CredInv'
  BY <1>1 DEF ApTypeOK, JobsOK, ApJobs, HoldSteps, CredSteps, JobSteps, NoRowBeforeAsking, CredInv,
     UnarmedIsUndecided, ClaimedAfterArming, ArmedIsUndecided, ResolvingIsDropped,
     ApprovedIsDropped, ExpiringIsDenied, LeftoverIsDenied, ExpiredIsDenied, OpenIsResolvable,
     RequestApproval
<1>2. ASSUME NEW i \in ApIds, CardShown(i) PROVE CredInv'
  BY <1>2 DEF ApTypeOK, JobsOK, ApJobs, HoldSteps, CredSteps, JobSteps, NoRowBeforeAsking, CredInv,
     UnarmedIsUndecided, ClaimedAfterArming, ArmedIsUndecided, ResolvingIsDropped,
     ApprovedIsDropped, ExpiringIsDenied, LeftoverIsDenied, ExpiredIsDenied, OpenIsResolvable,
     CardShown
<1>3. ASSUME NEW h \in Holds, CardSent(h) PROVE CredInv'
  BY <1>3 DEF ApTypeOK, JobsOK, ApJobs, HoldSteps, CredSteps, JobSteps, NoRowBeforeAsking, CredInv,
     UnarmedIsUndecided, ClaimedAfterArming, ArmedIsUndecided, ResolvingIsDropped,
     ApprovedIsDropped, ExpiringIsDenied, LeftoverIsDenied, ExpiredIsDenied, OpenIsResolvable,
     CardSent
<1>4. ASSUME NEW h \in Holds, CardThrew(h) PROVE CredInv'
  BY <1>4 DEF ApTypeOK, JobsOK, ApJobs, HoldSteps, CredSteps, JobSteps, NoRowBeforeAsking, CredInv,
     UnarmedIsUndecided, ClaimedAfterArming, ArmedIsUndecided, ResolvingIsDropped,
     ApprovedIsDropped, ExpiringIsDenied, LeftoverIsDenied, ExpiredIsDenied, OpenIsResolvable,
     CardThrew
<1>5. ASSUME NEW h \in Holds, TellUnsent(h) PROVE CredInv'
  BY <1>5 DEF ApTypeOK, JobsOK, ApJobs, HoldSteps, CredSteps, JobSteps, NoRowBeforeAsking, CredInv,
     UnarmedIsUndecided, ClaimedAfterArming, ArmedIsUndecided, ResolvingIsDropped,
     ApprovedIsDropped, ExpiringIsDenied, LeftoverIsDenied, ExpiredIsDenied, OpenIsResolvable,
     TellUnsent
<1>6. ASSUME NEW h \in Holds, WindowElapses(h) PROVE CredInv'
  BY <1>6 DEF ApTypeOK, JobsOK, ApJobs, HoldSteps, CredSteps, JobSteps, NoRowBeforeAsking, CredInv,
     UnarmedIsUndecided, ClaimedAfterArming, ArmedIsUndecided, ResolvingIsDropped,
     ApprovedIsDropped, ExpiringIsDenied, LeftoverIsDenied, ExpiredIsDenied, OpenIsResolvable,
     WindowElapses
<1>7. ASSUME NEW h \in Holds, SweepAwaitingReason(h) PROVE CredInv'
  BY <1>7 DEF ApTypeOK, JobsOK, ApJobs, HoldSteps, CredSteps, JobSteps, NoRowBeforeAsking, CredInv,
     UnarmedIsUndecided, ClaimedAfterArming, ArmedIsUndecided, ResolvingIsDropped,
     ApprovedIsDropped, ExpiringIsDenied, LeftoverIsDenied, ExpiredIsDenied, OpenIsResolvable,
     SweepAwaitingReason
<1>8. ASSUME NEW c \in Creds, CredRequest(c) PROVE CredInv'
  BY <1>8 DEF ApTypeOK, JobsOK, ApJobs, HoldSteps, CredSteps, JobSteps, NoRowBeforeAsking, CredInv,
     UnarmedIsUndecided, ClaimedAfterArming, ArmedIsUndecided, ResolvingIsDropped,
     ApprovedIsDropped, ExpiringIsDenied, LeftoverIsDenied, ExpiredIsDenied, OpenIsResolvable,
     CredRequest
<1>9. ASSUME NEW c \in Creds, CredDenied(c) PROVE CredInv'
  BY <1>9 DEF ApTypeOK, JobsOK, ApJobs, HoldSteps, CredSteps, JobSteps, NoRowBeforeAsking, CredInv,
     UnarmedIsUndecided, ClaimedAfterArming, ArmedIsUndecided, ResolvingIsDropped,
     ApprovedIsDropped, ExpiringIsDenied, LeftoverIsDenied, ExpiredIsDenied, OpenIsResolvable,
     CredDenied
<1>10. ASSUME NEW c \in Creds, CredCreateRow(c) PROVE CredInv'
  BY <1>10 DEF ApTypeOK, JobsOK, ApJobs, HoldSteps, CredSteps, JobSteps, NoRowBeforeAsking,
     CredInv, UnarmedIsUndecided, ClaimedAfterArming, ArmedIsUndecided, ResolvingIsDropped,
     ApprovedIsDropped, ExpiringIsDenied, LeftoverIsDenied, ExpiredIsDenied, OpenIsResolvable,
     CredCreateRow
<1>11. ASSUME NEW c \in Creds, CredArm(c) PROVE CredInv'
  BY <1>11 DEF ApTypeOK, JobsOK, ApJobs, HoldSteps, CredSteps, JobSteps, NoRowBeforeAsking,
     CredInv, UnarmedIsUndecided, ClaimedAfterArming, ArmedIsUndecided, ResolvingIsDropped,
     ApprovedIsDropped, ExpiringIsDenied, LeftoverIsDenied, ExpiredIsDenied, OpenIsResolvable,
     CredArm
<1>12. ASSUME NEW c \in Creds, CredTimer(c) PROVE CredInv'
  BY <1>12 DEF ApTypeOK, JobsOK, ApJobs, HoldSteps, CredSteps, JobSteps, NoRowBeforeAsking,
     CredInv, UnarmedIsUndecided, ClaimedAfterArming, ArmedIsUndecided, ResolvingIsDropped,
     ApprovedIsDropped, ExpiringIsDenied, LeftoverIsDenied, ExpiredIsDenied, OpenIsResolvable,
     CredTimer
<1>13. ASSUME NEW c \in Creds, ExpireApproval(c) PROVE CredInv'
  BY <1>13 DEF ApTypeOK, JobsOK, ApJobs, HoldSteps, CredSteps, JobSteps, NoRowBeforeAsking,
     CredInv, UnarmedIsUndecided, ClaimedAfterArming, ArmedIsUndecided, ResolvingIsDropped,
     ApprovedIsDropped, ExpiringIsDenied, LeftoverIsDenied, ExpiredIsDenied, OpenIsResolvable,
     ExpireApproval
<1>14. ASSUME NEW c \in Creds, EditCardExpired(c) PROVE CredInv'
  BY <1>14 DEF ApTypeOK, JobsOK, ApJobs, HoldSteps, CredSteps, JobSteps, NoRowBeforeAsking,
     CredInv, UnarmedIsUndecided, ClaimedAfterArming, ArmedIsUndecided, ResolvingIsDropped,
     ApprovedIsDropped, ExpiringIsDenied, LeftoverIsDenied, ExpiredIsDenied, OpenIsResolvable,
     EditCardExpired
<1>15. ASSUME NEW c \in Creds, SweepStale(c) PROVE CredInv'
  BY <1>15 DEF ApTypeOK, JobsOK, ApJobs, HoldSteps, CredSteps, JobSteps, NoRowBeforeAsking,
     CredInv, UnarmedIsUndecided, ClaimedAfterArming, ArmedIsUndecided, ResolvingIsDropped,
     ApprovedIsDropped, ExpiringIsDenied, LeftoverIsDenied, ExpiredIsDenied, OpenIsResolvable,
     SweepStale
<1>16. ASSUME NEW k \in Clicks, ClickCard(k) PROVE CredInv'
  BY <1>16 DEF ApTypeOK, JobsOK, ApJobs, HoldSteps, CredSteps, JobSteps, NoRowBeforeAsking,
     CredInv, UnarmedIsUndecided, ClaimedAfterArming, ArmedIsUndecided, ResolvingIsDropped,
     ApprovedIsDropped, ExpiringIsDenied, LeftoverIsDenied, ExpiredIsDenied, OpenIsResolvable,
     ClickCard
<1>17. ASSUME NEW w \in ApWorkers, HandleResponse(w) PROVE CredInv'
  <2>1. UNCHANGED <<approval, dmCard, asking, resolver, expiry, decision, leftover>>
    BY <1>17 DEF HandleResponse
  <2>2. \A v \in ApWorkers : job'[v].pc \in {"claim", "clear", "resolve"} => job'[v] = job[v]
    BY <1>17, HandleResponseDoes
  <2>3. \A v \in ApWorkers : job[v].pc \in {"claim", "clear", "resolve"} => job'[v] = job[v]
    BY <1>17, HandleResponseDoes
  <2>4. ClaimedAfterArming' /\ ResolvingIsDropped' /\ OpenIsResolvable'
    BY <2>1, <2>2, <2>3 DEF CredInv, ClaimedAfterArming, ResolvingIsDropped, OpenIsResolvable
  <2> QED
    BY <2>1, <2>4 DEF CredInv, UnarmedIsUndecided, ArmedIsUndecided, ApprovedIsDropped,
       ExpiringIsDenied,
       LeftoverIsDenied, ExpiredIsDenied
<1>18. ASSUME NEW w \in ApWorkers, Approve(w) PROVE CredInv'
  BY SMTT(60), <1>18 DEF ApTypeOK, JobsOK, ApJobs, HoldSteps, CredSteps, JobSteps, NoRowBeforeAsking,
     CredInv, UnarmedIsUndecided, ClaimedAfterArming, ArmedIsUndecided, ResolvingIsDropped,
     ApprovedIsDropped, ExpiringIsDenied, LeftoverIsDenied, ExpiredIsDenied, OpenIsResolvable,
     Approve
<1>19. ASSUME NEW w \in ApWorkers, ReplayHeld(w) PROVE CredInv'
  BY <1>19 DEF ApTypeOK, JobsOK, ApJobs, HoldSteps, CredSteps, JobSteps, NoRowBeforeAsking,
     CredInv, UnarmedIsUndecided, ClaimedAfterArming, ArmedIsUndecided, ResolvingIsDropped,
     ApprovedIsDropped, ExpiringIsDenied, LeftoverIsDenied, ExpiredIsDenied, OpenIsResolvable,
     ReplayHeld
<1>20. ASSUME NEW w \in ApWorkers, ApplyHeld(w) PROVE CredInv'
  BY <1>20 DEF ApTypeOK, JobsOK, ApJobs, HoldSteps, CredSteps, JobSteps, NoRowBeforeAsking,
     CredInv, UnarmedIsUndecided, ClaimedAfterArming, ArmedIsUndecided, ResolvingIsDropped,
     ApprovedIsDropped, ExpiringIsDenied, LeftoverIsDenied, ExpiredIsDenied, OpenIsResolvable,
     ApplyHeld
<1>21. ASSUME NEW w \in ApWorkers, DropRow(w) PROVE CredInv'
  BY <1>21 DEF ApTypeOK, JobsOK, ApJobs, HoldSteps, CredSteps, JobSteps, NoRowBeforeAsking,
     CredInv, UnarmedIsUndecided, ClaimedAfterArming, ArmedIsUndecided, ResolvingIsDropped,
     ApprovedIsDropped, ExpiringIsDenied, LeftoverIsDenied, ExpiredIsDenied, OpenIsResolvable,
     DropRow
<1>22. ASSUME NEW w \in ApWorkers, FinalizeReject(w) PROVE CredInv'
  BY SMTT(60), <1>22 DEF ApTypeOK, JobsOK, ApJobs, HoldSteps, CredSteps, JobSteps, NoRowBeforeAsking,
     CredInv, UnarmedIsUndecided, ClaimedAfterArming, ArmedIsUndecided, ResolvingIsDropped,
     ApprovedIsDropped, ExpiringIsDenied, LeftoverIsDenied, ExpiredIsDenied, OpenIsResolvable,
     FinalizeReject
<1>23. ASSUME NEW w \in ApWorkers, WriteRejection(w) PROVE CredInv'
  BY <1>23 DEF ApTypeOK, JobsOK, ApJobs, HoldSteps, CredSteps, JobSteps, NoRowBeforeAsking,
     CredInv, UnarmedIsUndecided, ClaimedAfterArming, ArmedIsUndecided, ResolvingIsDropped,
     ApprovedIsDropped, ExpiringIsDenied, LeftoverIsDenied, ExpiredIsDenied, OpenIsResolvable,
     WriteRejection
<1>24. ASSUME NEW w \in ApWorkers, MarkAwaitingReason(w) PROVE CredInv'
  BY SMTT(60), <1>24 DEF ApTypeOK, JobsOK, ApJobs, HoldSteps, CredSteps, JobSteps, NoRowBeforeAsking,
     CredInv, UnarmedIsUndecided, ClaimedAfterArming, ArmedIsUndecided, ResolvingIsDropped,
     ApprovedIsDropped, ExpiringIsDenied, LeftoverIsDenied, ExpiredIsDenied, OpenIsResolvable,
     MarkAwaitingReason
<1>25. ASSUME NEW w \in ApWorkers, ArmReasonCapture(w) PROVE CredInv'
  BY <1>25 DEF ApTypeOK, JobsOK, ApJobs, HoldSteps, CredSteps, JobSteps, NoRowBeforeAsking,
     CredInv, UnarmedIsUndecided, ClaimedAfterArming, ArmedIsUndecided, ResolvingIsDropped,
     ApprovedIsDropped, ExpiringIsDenied, LeftoverIsDenied, ExpiredIsDenied, OpenIsResolvable,
     ArmReasonCapture
<1>26. ASSUME NEW w \in ApWorkers, FindResolver(w) PROVE CredInv'
  BY <1>26 DEF ApTypeOK, JobsOK, ApJobs, HoldSteps, CredSteps, JobSteps, NoRowBeforeAsking,
     CredInv, UnarmedIsUndecided, ClaimedAfterArming, ArmedIsUndecided, ResolvingIsDropped,
     ApprovedIsDropped, ExpiringIsDenied, LeftoverIsDenied, ExpiredIsDenied, OpenIsResolvable,
     FindResolver
<1>27. ASSUME NEW w \in ApWorkers, ClaimCred(w) PROVE CredInv'
  BY <1>27 DEF ApTypeOK, JobsOK, ApJobs, HoldSteps, CredSteps, JobSteps, NoRowBeforeAsking,
     CredInv, UnarmedIsUndecided, ClaimedAfterArming, ArmedIsUndecided, ResolvingIsDropped,
     ApprovedIsDropped, ExpiringIsDenied, LeftoverIsDenied, ExpiredIsDenied, OpenIsResolvable,
     ClaimCred
<1>28. ASSUME NEW w \in ApWorkers, ClearCred(w) PROVE CredInv'
  BY <1>28 DEF ApTypeOK, JobsOK, ApJobs, HoldSteps, CredSteps, JobSteps, NoRowBeforeAsking,
     CredInv, UnarmedIsUndecided, ClaimedAfterArming, ArmedIsUndecided, ResolvingIsDropped,
     ApprovedIsDropped, ExpiringIsDenied, LeftoverIsDenied, ExpiredIsDenied, OpenIsResolvable,
     ClearCred
<1>29. ASSUME NEW w \in ApWorkers, ResolveCred(w) PROVE CredInv'
  BY <1>29 DEF ApTypeOK, JobsOK, ApJobs, HoldSteps, CredSteps, JobSteps, NoRowBeforeAsking,
     CredInv, UnarmedIsUndecided, ClaimedAfterArming, ArmedIsUndecided, ResolvingIsDropped,
     ApprovedIsDropped, ExpiringIsDenied, LeftoverIsDenied, ExpiredIsDenied, OpenIsResolvable,
     ResolveCred
<1>30. CASE ReasonReply
  BY <1>30 DEF ApTypeOK, JobsOK, ApJobs, HoldSteps, CredSteps, JobSteps, NoRowBeforeAsking,
     CredInv, UnarmedIsUndecided, ClaimedAfterArming, ArmedIsUndecided, ResolvingIsDropped,
     ApprovedIsDropped, ExpiringIsDenied, LeftoverIsDenied, ExpiredIsDenied, OpenIsResolvable,
     ReasonReply
<1>31. CASE CaptureReasonReply
  BY <1>31 DEF ApTypeOK, JobsOK, ApJobs, HoldSteps, CredSteps, JobSteps, NoRowBeforeAsking,
     CredInv, UnarmedIsUndecided, ClaimedAfterArming, ArmedIsUndecided, ResolvingIsDropped,
     ApprovedIsDropped, ExpiringIsDenied, LeftoverIsDenied, ExpiredIsDenied, OpenIsResolvable,
     CaptureReasonReply
<1>32. CASE DeleteGroup
  BY <1>32 DEF ApTypeOK, JobsOK, ApJobs, HoldSteps, CredSteps, JobSteps, NoRowBeforeAsking,
     CredInv, UnarmedIsUndecided, ClaimedAfterArming, ArmedIsUndecided, ResolvingIsDropped,
     ApprovedIsDropped, ExpiringIsDenied, LeftoverIsDenied, ExpiredIsDenied, OpenIsResolvable,
     DeleteGroup
<1>33. CASE ApHostCrash
  BY <1>33 DEF ApTypeOK, JobsOK, ApJobs, HoldSteps, CredSteps, JobSteps, NoRowBeforeAsking,
     CredInv, UnarmedIsUndecided, ClaimedAfterArming, ArmedIsUndecided, ResolvingIsDropped,
     ApprovedIsDropped, ExpiringIsDenied, LeftoverIsDenied, ExpiredIsDenied, OpenIsResolvable,
     ApHostCrash
<1>34. CASE UNCHANGED approvalVars
  BY <1>34 DEF ApTypeOK, JobsOK, ApJobs, HoldSteps, CredSteps, JobSteps, NoRowBeforeAsking,
     CredInv, UnarmedIsUndecided, ClaimedAfterArming, ArmedIsUndecided, ResolvingIsDropped,
     ApprovedIsDropped, ExpiringIsDenied, LeftoverIsDenied, ExpiredIsDenied, OpenIsResolvable,
     approvalVars
<1> QED
  BY <1>1, <1>2, <1>3, <1>4, <1>5, <1>6, <1>7, <1>8, <1>9, <1>10, <1>11, <1>12, <1>13, <1>14,
     <1>15, <1>16, <1>17, <1>18, <1>19, <1>20, <1>21, <1>22, <1>23, <1>24, <1>25, <1>26, <1>27,
     <1>28, <1>29, <1>30, <1>31, <1>32, <1>33, <1>34 DEF NextApprovals, RequestStep, CredStep,
     WorkerStep

-----------------------------------------------------------------------------
(* The theorems.                                                           *)

\* The initial states satisfy the invariant.
LEMMA ApInit == InitApprovals => ApInv
<1> SUFFICES ASSUME InitApprovals PROVE ApInv
  OBVIOUS
<1> USE ApprovalIds DEF InitApprovals, IdleJob, ApIds, ApWorkers, ClickValues
<1>1. ApTypeOK
  BY DEF ApTypeOK
<1>2. JobsOK /\ NoRowBeforeAsking /\ AskedFirst
  BY DEF JobsOK, ApJobs, JobSteps, HoldSteps, CredSteps, NoRowBeforeAsking, AskedFirst
<1>3. HoldInv
  BY DEF HoldInv, Open, Won, WonIsClosed, OneWinner, OpenIsUndecided, UndecidedUntilTheEnd,
     SettledIsAnswered, DroppedIsAnswered, ClaimedIsWon, DecidedOnce
<1>4. CredInv
  BY DEF CredInv, UnarmedIsUndecided, ClaimedAfterArming, ArmedIsUndecided, ResolvingIsDropped,
     ApprovedIsDropped, ExpiringIsDenied, LeftoverIsDenied, ExpiredIsDenied, OpenIsResolvable
<1> QED
  BY <1>1, <1>2, <1>3, <1>4 DEF ApInv

\* The invariant is inductive.
LEMMA ApStep == ApInv /\ [NextApprovals]_approvalVars => ApInv'
  BY ApTypeStep, JobsStep, NoRowStep, AskedStep, HoldStep, CredStepKeeps DEF ApInv

\* The invariant holds in every reachable state, under any interleaving of
\* requests, clicks, replies, timers, sweeps and crashes of the host.
THEOREM ApInvariant == ApprovalSpec => []ApInv
  BY ApInit, ApStep, PTL DEF ApprovalSpec

\* The variables keep their types (primitive.ts, onecli-approvals.ts).
THEOREM ApprovalTypes == ApprovalSpec => []ApTypeOK
  BY ApInvariant, PTL DEF ApInv

\* What the invariant says of decisions and promises.
LEMMA ApInvIsSafe == ApInv => ApprovalSafety
<1> SUFFICES ASSUME ApInv PROVE ApprovalSafety
  OBVIOUS
<1>1. DecidedOnce /\ OpenIsResolvable
  BY DEF ApInv, HoldInv, CredInv
<1>2. AskIsAnswered
  BY DEF ApInv, HoldInv, DroppedIsAnswered, AskIsAnswered
<1>3. ClaimedHasAHandler
  BY DEF ApInv, HoldInv, ClaimedIsWon, ClaimedHasAHandler, WorkedOn, Won
<1>4. ExpiredNeverApproved
  BY DEF ApInv, CredInv, ExpiredIsDenied, ExpiredNeverApproved
<1> QED
  BY <1>1, <1>2, <1>3, <1>4 DEF ApprovalSafety

\* For any number of holds, credential requests and clicks: a held action is
\* decided once, nothing asked vanishes unanswered, a claimed row has a handler
\* until a crash, an expired card was no approval, and a promise of the gateway
\* can always be resolved (response-handler.ts, finalize.ts, reason-capture.ts,
\* onecli-approvals.ts).
THEOREM ApprovalsAreSafe == ApprovalSpec => []ApprovalSafety
<1>1. ApInv => ApprovalSafety
  BY ApInvIsSafe
<1> QED
  BY ApInvariant, <1>1, PTL

\* Of the holds alone: whatever two clicks, a reply, the sweep, a card that
\* could not be sent and a crash do, a held action never both takes effect and
\* is refused, and neither of them twice (response-handler.ts:92, finalize.ts:36).
THEOREM HoldsAreDecidedOnce == ApprovalSpec => []DecidedOnce
  BY ApInvariant, PTL DEF ApInv, HoldInv
==============================================================================
