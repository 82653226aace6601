----------------------------- MODULE PartsProofs -----------------------------
(***************************************************************************)
(* Proofs about the composition MCHostParts, for all values of its         *)
(* constants: the seven parts keep their invariants side by side, whence   *)
(* the types and the safety that the run of the composition checks.        *)
(***************************************************************************)
EXTENDS MCHostParts, AgentRunnerProofs, ApprovalsProofs, HostPartsProofs

-----------------------------------------------------------------------------

PartNames == {"queue", "approvals", "admission", "series", "turn", "conversations", "mail"}

\* The invariants of all parts; a part that stands still is in an initial state.
PartsInv ==
  part \in PartNames /\ QInv /\ ApInv /\ AdInv /\ TsInv /\ TurnInv /\ CvInv /\ MailInv

\* A step of the composition is a step of one part and leaves the others alone.
LEMMA PartsMove ==
  ASSUME [NextParts]_<<part, partVars>>
  PROVE  /\ part' = part /\ [Next]_vars /\ [NextApprovals]_approvalVars /\ [NextAdmission]_admissionVars
         /\ [NextSeries]_seriesVars /\ [NextTurn]_turnVars
         /\ [NextConversations]_conversationVars /\ [NextMail]_mailVars
BY DEF NextParts, partVars

\* At first every part holds its invariant.
LEMMA InitPartsInv == InitParts => PartsInv
<1> SUFFICES ASSUME InitParts PROVE PartsInv
  OBVIOUS
<1>1. part \in PartNames /\ Init /\ InitApprovals /\ InitAdmission /\ InitSeries /\ InitTurn /\ InitConversations /\ InitMail
  BY DEF InitParts, PartNames
<1> QED
  BY <1>1, QueueInit, ApInit, AdInit, TsInit, TurnsStart, CvInit, MailStarts DEF PartsInv

\* And every step keeps them.
LEMMA PartsInvStep == PartsInv /\ [NextParts]_<<part, partVars>> => PartsInv'
BY PartsMove, QueueStep, ApStep, AdStep, TsStep, TurnInvStep, CvStep, MailStep DEF PartsInv

\* The invariants of the parts hold together in the composition that is
\* model-checked, whatever its constants.
THEOREM PartsInvariant == PartsSpec => []PartsInv
BY InitPartsInv, PartsInvStep, PTL DEF PartsSpec

\* The variables of the part that moves keep their values.
THEOREM PartsTypes == PartsSpec => []PartsTypeOK
<1>1. PartsInv => PartsTypeOK
  <2> SUFFICES ASSUME PartsInv PROVE PartsTypeOK
    OBVIOUS
  <2>1. part \in PartNames /\ TypeOK /\ ApTypeOK /\ AdTypeOK /\ TsTypeOK /\ TurnTypeOK /\ CvTypeOK /\ AmTypeOK
    BY ShapeIsType, TurnInvTypes DEF PartsInv, QInv, ApInv, AdInv, TsInv, CvInv, MailInv
  <2> QED
    BY <2>1 DEF PartsTypeOK, PartNames
<1> QED
  BY <1>1, PartsInvariant, PTL

\* In the composition every part is as safe as alone: what the run checks of the
\* approvals, the admission, a series, a turn, the conversations and the letters.
THEOREM PartsAreSafe ==
  PartsSpec => [](/\ ApprovalSafety /\ AdmissionSafety /\ SeriesSafety
                  /\ TurnSafety /\ ConversationSafety /\ MailSafety)
<1>1. PartsInv => /\ ApprovalSafety /\ AdmissionSafety /\ SeriesSafety
                  /\ TurnSafety /\ ConversationSafety /\ MailSafety
  BY ApInvIsSafe, HeldIsKept, OneCardOnly, TsInvIsSafe, TurnInvIsSafe, CvSafe, MailInvIsSafe
     DEF PartsInv, AdmissionSafety
<1> QED
  BY <1>1, PartsInvariant, PTL
=============================================================================
