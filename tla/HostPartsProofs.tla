--------------------------- MODULE HostPartsProofs ---------------------------
(***************************************************************************)
(* Proofs about four parts of the host.                                    *)
(*                                                                         *)
(* The letters between agents (AgentMail), for any set of letters,         *)
(* sessions, groups, edges and policies, any number of edits and of        *)
(* faults: the types, the inductive invariant MailInv, and MailSafety.     *)
(*                                                                         *)
(* The sessions of a conversation (Conversations), for any number of       *)
(* messages, threads, posts and faults: the types, the inductive invariant *)
(* CvInv, and ConversationSafety.                                          *)
(*                                                                         *)
(* Who may write to which agent (Admission), for any messages, senders,    *)
(* agents and clicks: the types, the inductive invariant AdInv, and        *)
(* AdmissionSafety.                                                        *)
(*                                                                         *)
(* A task series (TaskSeries), for any number of occurrences, commands and *)
(* crashes and any cap: the types, the inductive invariant TsInv, and      *)
(* SeriesSafety.                                                           *)
(***************************************************************************)
EXTENDS AgentMail, Conversations, Admission, TaskSeries, FiniteSetTheorems, TLAPS

-----------------------------------------------------------------------------
(* The letters between agents: the inductive invariant.                    *)

\* A row that was written has an author of a session that existed, and an aim.
WasWritten(l) == row[l] \notin {"never", "unsent"}
WrittenIsSigned ==
  \A l \in Letters :
    IF WasWritten(l) THEN from[l] \in opened /\ to[l] \in Groups
    ELSE from[l] = NoSession /\ ref[l] = NoLetter

\* A pass is of a row that was written, a drain's of one not yet settled; the
\* replay carries its grant and never holds.
PassIsOfALetter ==
  \A l \in Letters :
    /\ carry[Drain(l)] # "idle" => row[l] = "out"
    /\ carry[Replay(l)] # "idle" \/ holds[l] > 0 => WasWritten(l)
    /\ carry[Drain(l)] # "end" /\ carry[Replay(l)] \notin {"hold", "mark"}

\* A row that may be tried again has a trial left.
TrialsLeft == \A l \in Letters : row[l] \notin {"done", "failed"} => trials[l] < MaxTrials

\* What was copied was written, and an answer names a copy its author has.
CopiedWasWritten == \A s \in Sessions : \A i \in DOMAIN copies[s] : WasWritten(copies[s][i])
Has(s, k) == \E i \in DOMAIN copies[s] : copies[s][i] = k
AnswersWhatItHas == \A l \in Letters : ref[l] # NoLetter => Has(from[l], ref[l])

\* A pass sees an edge or the lack of a policy only if it was there meanwhile.
SeesEdge ==
  \A p \in Running :
    /\ Edge(p[1]) \in edges => p \in permitted
    /\ Edge(p[1]) \notin gates => p \in ungated
    /\ carry[p] \in {"policy", "hold"} => p \in permitted

\* The session a letter may go to: home if that is there, a task's only for an answer.
Asker(l) == from[ref[l]]
AskerWaits(l) == ref[l] # NoLetter /\ Asker(l) \in active /\ GroupOf[Asker(l)] = to[l]
Wrote(s, r) == \E i \in DOMAIN copies[s] : from[copies[s][i]] = r
Fits(l, s) ==
  /\ GroupOf[s] = to[l]
  /\ AskerWaits(l) => s = Asker(l)
  /\ s \in TaskSessions => Wrote(from[l], s)
PickFits ==
  \A p \in Passes :
    /\ carry[p] = "resolve" =>
         /\ ref[p[1]] # NoLetter => pick[p] = Asker(p[1])
         /\ pick[p] # NoSession => Wrote(from[p[1]], pick[p])
    /\ carry[p] = "write" => pick[p] \in opened /\ Fits(p[1], pick[p])
CopyFits == \A s \in Sessions : \A i \in DOMAIN copies[s] : Fits(copies[s][i], s)

\* Copies there are and copies that may still come without a further fault: of a
\* hold, of its replay, of a drain that has not got past the copy.
One(b) == IF b THEN 1 ELSE 0
StillDue(l) == ~WasWritten(l) \/ (row[l] = "out" /\ carry[Drain(l)] # "mark")
Replaying(l) == carry[Replay(l)] \notin {"idle", "end"}
Owed(l) == holds[l] + One(Replaying(l)) + One(StillDue(l))
CopyBudget == \A l \in Letters : Cardinality(CopiesOf(l)) + Owed(l) <= 1 + mailFaults

PassesAre ==
  /\ \A l \in Letters :
       /\ Drain(l) \in Passes /\ Drain(l)[1] = l /\ Drain(l)[2] = "drain"
       /\ Replay(l) \in Passes /\ Replay(l)[1] = l /\ Replay(l)[2] = "replay"
       /\ Drain(l) # Replay(l)
  /\ \A p \in Passes :
       /\ p[1] \in Letters /\ p[2] \in {"drain", "replay"}
       /\ p[2] = "drain" => p = Drain(p[1])
       /\ p[2] = "replay" => p = Replay(p[1])

MailInv ==
  /\ AmTypeOK /\ WrittenIsSigned /\ PassIsOfALetter /\ TrialsLeft /\ CopiedWasWritten /\ AnswersWhatItHas
  /\ SeesEdge /\ RevokedStaysOut /\ PolicyHolds /\ PickFits /\ CopyFits /\ CopyBudget

-----------------------------------------------------------------------------
(* What a step does, and what of the letters, their passes and the edges   *)
(* it keeps.                                                               *)

\* A pass is told by its letter and by whether it is the drain's or the replay's.
LEMMA PassFacts == PassesAre
BY DEF PassesAre, Passes, Drain, Replay

\* The copies of a letter are finitely many.
LEMMA CopiesAreFinite ==
  ASSUME NEW l \in Letters
  PROVE  IsFiniteSet(CopiesOf(l)) /\ Cardinality(CopiesOf(l)) \in Nat
<1> DEFINE n == Cardinality(Letters) * (1 + MaxMailFaults)
<1>1. n \in Nat
  BY AgentMailAssumption, FS_CardinalityType
<1>2. IsFiniteSet(1 .. n)
  BY <1>1, FS_Interval
<1>3. IsFiniteSet(Sessions \X (1 .. n))
  BY <1>2, AgentMailAssumption, FS_Product
<1>4. IsFiniteSet(CopiesOf(l))
  BY <1>3, FS_Subset DEF CopiesOf
<1> QED
  BY <1>4, FS_CardinalityType

\* A copy is added at the end of a session's.
LEMMA WriteCopyDoes ==
  ASSUME AmTypeOK, PickFits, NEW p \in Passes, WriteCopy(p)
  PROVE  /\ pick[p] \in Sessions
         /\ copies' \in [Sessions -> Seq(Letters)]
         /\ \A s \in Sessions : \A i \in DOMAIN copies[s] :
              i \in DOMAIN copies'[s] /\ copies'[s][i] = copies[s][i]
         /\ \A s \in Sessions : \A i \in DOMAIN copies'[s] :
              \/ i \in DOMAIN copies[s]
              \/ s = pick[p] /\ i = Len(copies[s]) + 1 /\ copies'[s][i] = p[1]
<1>1. pick[p] \in Sessions /\ p[1] \in Letters
  BY PassFacts DEF WriteCopy, PickFits, AmTypeOK, PassesAre
<1>2. copies' = [copies EXCEPT ![pick[p]] = Append(@, p[1])]
  BY DEF WriteCopy
<1>3. copies \in [Sessions -> Seq(Letters)]
  BY DEF AmTypeOK
<1> QED
  BY <1>1, <1>2, <1>3

\* A denial ends a replay, and costs a drain a trial, the last of which ends its row.
LEMMA ThrownDoes ==
  ASSUME AmTypeOK, TrialsLeft, PassIsOfALetter, NEW p \in Passes, carry[p] # "idle", Thrown(p)
  PROVE  /\ carry' = [carry EXCEPT ![p] = IF p[2] = "replay" THEN "end" ELSE "idle"]
         /\ trials' \in [Letters -> 0 .. MaxTrials]
         /\ row' \in [Letters -> {"never", "unsent", "out", "done", "failed"}]
         /\ \A k \in Letters : k # p[1] => row'[k] = row[k] /\ trials'[k] = trials[k]
         /\ row'[p[1]] \in {row[p[1]], "failed"}
         /\ row'[p[1]] \notin {"done", "failed"} => trials'[p[1]] < MaxTrials
         /\ \A k \in Letters : WasWritten(k)' = WasWritten(k)
         /\ p[2] = "replay" => row' = row /\ trials' = trials
<1>1. p[1] \in Letters /\ p[2] \in {"drain", "replay"}
  BY PassFacts DEF PassesAre
<1>2. CASE p[2] = "replay"
  BY <1>1, <1>2 DEF Thrown, Moved, AmTypeOK, TrialsLeft, WasWritten
<1>3. CASE p[2] = "drain"
  <2>1. row[p[1]] = "out" /\ p = Drain(p[1])
    BY <1>1, <1>3, PassFacts DEF PassesAre, PassIsOfALetter
  <2>2. trials[p[1]] < MaxTrials /\ trials[p[1]] \in Nat /\ MaxTrials \in Nat
    <3>1. MaxTrials \in Nat /\ trials[p[1]] \in 0 .. MaxTrials
      BY <1>1, AgentMailAssumption DEF AmTypeOK
    <3>2. row[p[1]] \notin {"done", "failed"}
      BY <2>1
    <3>3. trials[p[1]] < MaxTrials
      BY <1>1, <3>2 DEF TrialsLeft
    <3> QED
      BY <3>1, <3>3
  <2>3. /\ carry' = [carry EXCEPT ![p] = "idle"] /\ trials' = [trials EXCEPT ![p[1]] = @ + 1]
        /\ row' = IF trials[p[1]] + 1 < MaxTrials THEN row ELSE [row EXCEPT ![p[1]] = "failed"]
    BY <1>3 DEF Thrown, Moved
  <2>4. /\ row' \in [Letters -> {"never", "unsent", "out", "done", "failed"}]
        /\ \A k \in Letters : k # p[1] => row'[k] = row[k]
        /\ row'[p[1]] \in {row[p[1]], "failed"}
        /\ row'[p[1]] \notin {"done", "failed"} => trials[p[1]] + 1 < MaxTrials
    BY <1>1, <2>1, <2>3 DEF AmTypeOK
  <2>5. /\ trials' \in [Letters -> 0 .. MaxTrials] /\ trials'[p[1]] = trials[p[1]] + 1
        /\ \A k \in Letters : k # p[1] => trials'[k] = trials[k]
    BY <1>1, <2>2, <2>3 DEF AmTypeOK
  <2>6. \A k \in Letters : WasWritten(k)' = WasWritten(k)
    BY <2>1, <2>4 DEF WasWritten
  <2> QED
    BY <1>3, <2>3, <2>4, <2>5, <2>6
<1> QED
  BY <1>1, <1>2, <1>3

\* A letter that is written now was carried by nobody before.
LEMMA WriteLetterDoes ==
  ASSUME AmTypeOK, WrittenIsSigned, PassIsOfALetter, NEW l \in Letters, WriteLetter(l)
  PROVE  /\ row[l] = "unsent" /\ row' = [row EXCEPT ![l] = "out"]
         /\ from' \in [Letters -> Sessions \cup {NoSession}] /\ from'[l] \in active
         /\ to'[l] \in Aims[l] /\ from'[l] \in Voices[l]
         /\ ref' \in [Letters -> Letters \cup {NoLetter}]
         /\ ref'[l] = NoLetter \/ (ref'[l] \in Letters /\ Has(from'[l], ref'[l]))
         /\ \A k \in Letters : k # l => from'[k] = from[k] /\ to'[k] = to[k] /\ ref'[k] = ref[k]
         /\ \A p \in Running : p[1] # l /\ Edge(p[1])' = Edge(p[1])
         /\ Running' = Running
<1>1. /\ row[l] = "unsent" /\ row' = [row EXCEPT ![l] = "out"]
      /\ UNCHANGED <<carry, copies>>
  BY DEF WriteLetter
<1>2. PICK s \in Voices[l] \cap active, g \in Aims[l] :
        /\ from' = [from EXCEPT ![l] = s] /\ to' = [to EXCEPT ![l] = g]
        /\ \E r \in Range(copies[s]) \cup {NoLetter} : ref' = [ref EXCEPT ![l] = r]
  BY DEF WriteLetter
<1>3. PICK r \in Range(copies[s]) \cup {NoLetter} : ref' = [ref EXCEPT ![l] = r]
  BY <1>2
<1>4. s \in Sessions /\ s \in Voices[l]
  BY <1>2, AgentMailAssumption
<1>5. r = NoLetter \/ (r \in Letters /\ Has(s, r))
  BY <1>3, <1>4 DEF Has, Range, AmTypeOK
<1>6. /\ from' \in [Letters -> Sessions \cup {NoSession}] /\ from'[l] = s
      /\ ref' \in [Letters -> Letters \cup {NoLetter}] /\ ref'[l] = r
      /\ \A k \in Letters : k # l => from'[k] = from[k] /\ to'[k] = to[k] /\ ref'[k] = ref[k]
  BY <1>2, <1>3, <1>4, <1>5 DEF AmTypeOK
<1>7. to'[l] = g
  BY <1>2 DEF AmTypeOK
<1>8. \A p \in Running : p[1] # l /\ p[1] \in Letters
  BY <1>1, PassFacts DEF Running, PassesAre, PassIsOfALetter, WasWritten
<1> QED
  BY <1>1, <1>2, <1>4, <1>5, <1>6, <1>7, <1>8 DEF Edge, Running, Has


\* A denial keeps each pass at a row it may carry.
LEMMA ThrownKeepsPasses ==
  ASSUME AmTypeOK, TrialsLeft, PassIsOfALetter, NEW p \in Passes, carry[p] # "idle", Thrown(p),
         holds' = holds
  PROVE  PassIsOfALetter'
<1> USE PassFacts DEF PassesAre
<1>1. /\ p[1] \in Letters /\ carry' = [carry EXCEPT ![p] = IF p[2] = "replay" THEN "end" ELSE "idle"]
      /\ \A k \in Letters : k # p[1] => row'[k] = row[k]
      /\ \A k \in Letters : WasWritten(k)' = WasWritten(k)
      /\ p[2] = "replay" => row' = row
  BY ThrownDoes
<1>2. \A k \in Letters : /\ carry'[Drain(k)] \in {"idle", carry[Drain(k)]}
                         /\ k = p[1] => p = Replay(k) \/ carry'[Drain(k)] = "idle"
  BY <1>1 DEF AmTypeOK
<1>3. \A k \in Letters : carry'[Drain(k)] # "idle" => row'[k] = "out"
  BY <1>1, <1>2 DEF PassIsOfALetter
<1>4. \A k \in Letters :
        \/ carry'[Replay(k)] = carry[Replay(k)]
        \/ carry[Replay(k)] # "idle" /\ carry'[Replay(k)] = "end"
  BY <1>1 DEF AmTypeOK
<1>5. \A k \in Letters : carry'[Replay(k)] # "idle" \/ holds'[k] > 0 => WasWritten(k)'
  BY <1>1, <1>4 DEF PassIsOfALetter
<1>6. \A k \in Letters : carry'[Drain(k)] # "end" /\ carry'[Replay(k)] \notin {"hold", "mark"}
  BY <1>2, <1>4 DEF PassIsOfALetter
<1> QED
  BY <1>3, <1>5, <1>6 DEF PassIsOfALetter

\* Every step keeps a trial left.
LEMMA TrialsStep == MailInv /\ [NextMail]_mailVars => TrialsLeft'
<1> SUFFICES ASSUME MailInv, [NextMail]_mailVars PROVE TrialsLeft'
  OBVIOUS
<1> USE PassFacts, AgentMailAssumption DEF MailInv, PassesAre, Moved, WasWritten, Steps
<1>1. ASSUME NEW l \in Letters, WriteLetter(l) PROVE TrialsLeft'
  BY <1>1 DEF AmTypeOK, TrialsLeft, PassIsOfALetter, Begun, WriteLetter
<1>2. ASSUME NEW l \in Letters, TakeLetter(l) PROVE TrialsLeft'
  BY <1>2 DEF AmTypeOK, TrialsLeft, PassIsOfALetter, Begun, TakeLetter
<1>3. ASSUME NEW l \in Letters, MarkLetter(l) PROVE TrialsLeft'
  BY <1>3 DEF AmTypeOK, TrialsLeft, PassIsOfALetter, Begun, MarkLetter
<1>4. ASSUME NEW l \in Letters, MarkFails(l) PROVE TrialsLeft'
  <2>1. Drain(l) \in Passes /\ carry[Drain(l)] # "idle" /\ Drain(l)[1] = l /\ Thrown(Drain(l))
    BY <1>4 DEF MarkFails
  <2> QED
    BY <2>1, ThrownDoes DEF TrialsLeft
<1>5. ASSUME NEW l \in Letters, DecideHold(l) PROVE TrialsLeft'
  BY <1>5 DEF AmTypeOK, TrialsLeft, PassIsOfALetter, Begun, DecideHold
<1>6. ASSUME NEW l \in Letters, EndReplay(l) PROVE TrialsLeft'
  BY <1>6 DEF AmTypeOK, TrialsLeft, PassIsOfALetter, Begun, EndReplay
<1>7. ASSUME NEW p \in Passes, JudgeEdge(p) PROVE TrialsLeft'
  <2>1. CASE MayPass(p)
    BY <1>7, <2>1 DEF AmTypeOK, TrialsLeft, PassIsOfALetter, Begun, JudgeEdge
  <2>2. CASE ~MayPass(p)
    BY <1>7, <2>2, ThrownDoes DEF TrialsLeft, JudgeEdge
  <2> QED
    BY <2>1, <2>2
<1>8. ASSUME NEW p \in Passes, JudgePolicy(p) PROVE TrialsLeft'
  BY <1>8 DEF AmTypeOK, TrialsLeft, PassIsOfALetter, Begun, JudgePolicy
<1>9. ASSUME NEW p \in Passes, Hold(p) PROVE TrialsLeft'
  BY <1>9 DEF AmTypeOK, TrialsLeft, PassIsOfALetter, Begun, Hold
<1>10. ASSUME NEW p \in Passes, ReadOrigin(p) PROVE TrialsLeft'
  BY <1>10 DEF AmTypeOK, TrialsLeft, PassIsOfALetter, Begun, ReadOrigin
<1>11. ASSUME NEW p \in Passes, ResolveTarget(p) PROVE TrialsLeft'
  BY <1>11 DEF AmTypeOK, TrialsLeft, PassIsOfALetter, Begun, ResolveTarget
<1>12. ASSUME NEW p \in Passes, WriteCopy(p) PROVE TrialsLeft'
  BY <1>12 DEF AmTypeOK, TrialsLeft, PassIsOfALetter, Begun, WriteCopy
<1>13. ASSUME NEW l \in Sent, Edit(Edge(l)) PROVE TrialsLeft'
  BY <1>13 DEF AmTypeOK, TrialsLeft, PassIsOfALetter, Begun, Edit
<1>14. ASSUME NEW s \in TaskSessions, CloseTask(s) PROVE TrialsLeft'
  BY <1>14 DEF AmTypeOK, TrialsLeft, PassIsOfALetter, Begun, CloseTask
<1>15. CASE MailHostDies
  BY <1>15 DEF AmTypeOK, TrialsLeft, PassIsOfALetter, Begun, MailHostDies
<1>16. CASE UNCHANGED mailVars
  BY <1>16 DEF AmTypeOK, TrialsLeft, PassIsOfALetter, Begun, mailVars
<1> QED
  BY <1>1, <1>2, <1>3, <1>4, <1>5, <1>6, <1>7, <1>8, <1>9, <1>10, <1>11, <1>12, <1>13, <1>14,
     <1>15, <1>16 DEF NextMail, Carry, Grant, PassStep, PassesAre

\* Every step keeps the rows signed.
LEMMA SignedStep == MailInv /\ [NextMail]_mailVars => WrittenIsSigned'
<1> SUFFICES ASSUME MailInv, [NextMail]_mailVars PROVE WrittenIsSigned'
  OBVIOUS
<1> USE PassFacts, AgentMailAssumption DEF MailInv, PassesAre, Moved, WasWritten, Steps
<1>1. ASSUME NEW l \in Letters, WriteLetter(l) PROVE WrittenIsSigned'
  <2>1. from'[l] \in opened' /\ to'[l] \in Groups
    BY <1>1, WriteLetterDoes DEF AmTypeOK, WriteLetter, Groups
  <2>2. UNCHANGED opened /\ \A k \in Letters : k # l => (WasWritten(k)' <=> WasWritten(k))
    BY <1>1, WriteLetterDoes DEF WriteLetter, AmTypeOK
  <2>3. \A k \in Letters : k # l => from'[k] = from[k] /\ to'[k] = to[k] /\ ref'[k] = ref[k]
    BY <1>1, WriteLetterDoes
  <2>4. WasWritten(l)'
    BY <1>1, WriteLetterDoes DEF AmTypeOK
  <2> HIDE DEF WasWritten
  <2> QED
    BY <2>1, <2>2, <2>3, <2>4 DEF WrittenIsSigned, Groups
<1>2. ASSUME NEW l \in Letters, TakeLetter(l) PROVE WrittenIsSigned'
  BY <1>2 DEF AmTypeOK, WrittenIsSigned, PassIsOfALetter, Begun, Groups, TakeLetter
<1>3. ASSUME NEW l \in Letters, MarkLetter(l) PROVE WrittenIsSigned'
  BY <1>3 DEF AmTypeOK, WrittenIsSigned, PassIsOfALetter, Begun, Groups, MarkLetter
<1>4. ASSUME NEW l \in Letters, MarkFails(l) PROVE WrittenIsSigned'
  <2>1. Drain(l) \in Passes /\ carry[Drain(l)] # "idle" /\ Thrown(Drain(l))
    BY <1>4 DEF MarkFails
  <2>2. \A k \in Letters : WasWritten(k)' = WasWritten(k)
    BY <2>1, ThrownDoes
  <2>3. UNCHANGED <<from, to, ref, opened>>
    BY <1>4 DEF MarkFails
  <2> QED
    BY <2>2, <2>3 DEF WrittenIsSigned, Groups
<1>5. ASSUME NEW l \in Letters, DecideHold(l) PROVE WrittenIsSigned'
  BY <1>5 DEF AmTypeOK, WrittenIsSigned, PassIsOfALetter, Begun, Groups, DecideHold
<1>6. ASSUME NEW l \in Letters, EndReplay(l) PROVE WrittenIsSigned'
  BY <1>6 DEF AmTypeOK, WrittenIsSigned, PassIsOfALetter, Begun, Groups, EndReplay
<1>7. ASSUME NEW p \in Passes, JudgeEdge(p) PROVE WrittenIsSigned'
  <2>1. \A k \in Letters : WasWritten(k)' = WasWritten(k)
    BY <1>7, ThrownDoes DEF JudgeEdge
  <2>2. UNCHANGED <<from, to, ref, opened>>
    BY <1>7 DEF JudgeEdge
  <2> QED
    BY <2>1, <2>2 DEF WrittenIsSigned, Groups
<1>8. ASSUME NEW p \in Passes, JudgePolicy(p) PROVE WrittenIsSigned'
  BY <1>8 DEF AmTypeOK, WrittenIsSigned, PassIsOfALetter, Begun, Groups, JudgePolicy
<1>9. ASSUME NEW p \in Passes, Hold(p) PROVE WrittenIsSigned'
  BY <1>9 DEF AmTypeOK, WrittenIsSigned, PassIsOfALetter, Begun, Groups, Hold
<1>10. ASSUME NEW p \in Passes, ReadOrigin(p) PROVE WrittenIsSigned'
  BY <1>10 DEF AmTypeOK, WrittenIsSigned, PassIsOfALetter, Begun, Groups, ReadOrigin
<1>11. ASSUME NEW p \in Passes, ResolveTarget(p) PROVE WrittenIsSigned'
  BY <1>11 DEF AmTypeOK, WrittenIsSigned, PassIsOfALetter, Begun, Groups, ResolveTarget
<1>12. ASSUME NEW p \in Passes, WriteCopy(p) PROVE WrittenIsSigned'
  BY <1>12 DEF AmTypeOK, WrittenIsSigned, PassIsOfALetter, Begun, Groups, WriteCopy
<1>13. ASSUME NEW l \in Sent, Edit(Edge(l)) PROVE WrittenIsSigned'
  BY <1>13 DEF AmTypeOK, WrittenIsSigned, PassIsOfALetter, Begun, Groups, Edit
<1>14. ASSUME NEW s \in TaskSessions, CloseTask(s) PROVE WrittenIsSigned'
  BY <1>14 DEF AmTypeOK, WrittenIsSigned, PassIsOfALetter, Begun, Groups, CloseTask
<1>15. CASE MailHostDies
  BY <1>15 DEF AmTypeOK, WrittenIsSigned, PassIsOfALetter, Begun, Groups, MailHostDies
<1>16. CASE UNCHANGED mailVars
  BY <1>16 DEF AmTypeOK, WrittenIsSigned, PassIsOfALetter, Begun, Groups, mailVars
<1> QED
  BY <1>1, <1>2, <1>3, <1>4, <1>5, <1>6, <1>7, <1>8, <1>9, <1>10, <1>11, <1>12, <1>13, <1>14,
     <1>15, <1>16 DEF NextMail, Carry, Grant, PassStep, PassesAre

\* Every step keeps each pass at a row it may carry.
LEMMA PassStepKeeps == MailInv /\ [NextMail]_mailVars => PassIsOfALetter'
<1> SUFFICES ASSUME MailInv, [NextMail]_mailVars PROVE PassIsOfALetter'
  OBVIOUS
<1> USE PassFacts, AgentMailAssumption DEF MailInv, PassesAre, Moved, WasWritten, Steps
<1>1. ASSUME NEW l \in Letters, WriteLetter(l) PROVE PassIsOfALetter'
  BY <1>1 DEF AmTypeOK, PassIsOfALetter, Begun, WrittenIsSigned, MustHold, MayPass, WriteLetter
<1>2. ASSUME NEW l \in Letters, TakeLetter(l) PROVE PassIsOfALetter'
  BY <1>2 DEF AmTypeOK, PassIsOfALetter, Begun, WrittenIsSigned, MustHold, MayPass, TakeLetter
<1>3. ASSUME NEW l \in Letters, MarkLetter(l) PROVE PassIsOfALetter'
  BY <1>3 DEF AmTypeOK, PassIsOfALetter, Begun, WrittenIsSigned, MustHold, MayPass, MarkLetter
<1>4. ASSUME NEW l \in Letters, MarkFails(l) PROVE PassIsOfALetter'
  <2>1. Drain(l) \in Passes /\ carry[Drain(l)] # "idle" /\ Thrown(Drain(l)) /\ holds' = holds
    BY <1>4 DEF MarkFails
  <2> QED
    BY <2>1, ThrownKeepsPasses
<1>5. ASSUME NEW l \in Letters, DecideHold(l) PROVE PassIsOfALetter'
  BY <1>5 DEF AmTypeOK, PassIsOfALetter, Begun, WrittenIsSigned, MustHold, MayPass, DecideHold
<1>6. ASSUME NEW l \in Letters, EndReplay(l) PROVE PassIsOfALetter'
  BY <1>6 DEF AmTypeOK, PassIsOfALetter, Begun, WrittenIsSigned, MustHold, MayPass, EndReplay
<1>7. ASSUME NEW p \in Passes, JudgeEdge(p) PROVE PassIsOfALetter'
  <2>1. CASE MayPass(p)
    BY <1>7, <2>1 DEF AmTypeOK, PassIsOfALetter, Begun, WrittenIsSigned, MustHold, MayPass,
       JudgeEdge
  <2>2. CASE ~MayPass(p)
    <3>1. carry[p] # "idle" /\ Thrown(p) /\ holds' = holds
      BY <1>7, <2>2 DEF JudgeEdge
    <3> QED
      BY <3>1, ThrownKeepsPasses
  <2> QED
    BY <2>1, <2>2
<1>8. ASSUME NEW p \in Passes, JudgePolicy(p) PROVE PassIsOfALetter'
  <2>1. p[2] \in {"drain", "replay"} /\ p[1] \in Letters
    OBVIOUS
  <2>2. CASE p[2] = "drain"
    BY <1>8, <2>2 DEF AmTypeOK, PassIsOfALetter, Begun, WrittenIsSigned, MustHold, MayPass,
       JudgePolicy
  <2>3. CASE p[2] = "replay"
    BY <1>8, <2>3 DEF AmTypeOK, PassIsOfALetter, Begun, WrittenIsSigned, MustHold, MayPass,
       JudgePolicy
  <2> QED
    BY <2>1, <2>2, <2>3
<1>9. ASSUME NEW p \in Passes, Hold(p) PROVE PassIsOfALetter'
  <2>1. p[2] \in {"drain", "replay"} /\ p[1] \in Letters
    OBVIOUS
  <2>2. CASE p[2] = "drain"
    BY <1>9, <2>2 DEF AmTypeOK, PassIsOfALetter, Begun, WrittenIsSigned, MustHold, MayPass, Hold
  <2>3. CASE p[2] = "replay"
    BY <1>9, <2>3 DEF AmTypeOK, PassIsOfALetter, Begun, WrittenIsSigned, MustHold, MayPass, Hold
  <2> QED
    BY <2>1, <2>2, <2>3
<1>10. ASSUME NEW p \in Passes, ReadOrigin(p) PROVE PassIsOfALetter'
  BY <1>10 DEF AmTypeOK, PassIsOfALetter, Begun, WrittenIsSigned, MustHold, MayPass, ReadOrigin
<1>11. ASSUME NEW p \in Passes, ResolveTarget(p) PROVE PassIsOfALetter'
  BY <1>11 DEF AmTypeOK, PassIsOfALetter, Begun, WrittenIsSigned, MustHold, MayPass, ResolveTarget
<1>12. ASSUME NEW p \in Passes, WriteCopy(p) PROVE PassIsOfALetter'
  BY <1>12 DEF AmTypeOK, PassIsOfALetter, Begun, WrittenIsSigned, MustHold, MayPass, WriteCopy
<1>13. ASSUME NEW l \in Sent, Edit(Edge(l)) PROVE PassIsOfALetter'
  BY <1>13 DEF AmTypeOK, PassIsOfALetter, Begun, WrittenIsSigned, MustHold, MayPass, Edit
<1>14. ASSUME NEW s \in TaskSessions, CloseTask(s) PROVE PassIsOfALetter'
  BY <1>14 DEF AmTypeOK, PassIsOfALetter, Begun, WrittenIsSigned, MustHold, MayPass, CloseTask
<1>15. CASE MailHostDies
  BY <1>15 DEF AmTypeOK, PassIsOfALetter, Begun, WrittenIsSigned, MustHold, MayPass, MailHostDies
<1>16. CASE UNCHANGED mailVars
  BY <1>16 DEF AmTypeOK, PassIsOfALetter, Begun, WrittenIsSigned, MustHold, MayPass, mailVars
<1> QED
  BY <1>1, <1>2, <1>3, <1>4, <1>5, <1>6, <1>7, <1>8, <1>9, <1>10, <1>11, <1>12, <1>13, <1>14,
     <1>15, <1>16 DEF NextMail, Carry, Grant, PassStep, PassesAre

\* Every step leaves copies of written rows.
LEMMA CopiedStep == MailInv /\ [NextMail]_mailVars => CopiedWasWritten'
<1> SUFFICES ASSUME MailInv, [NextMail]_mailVars PROVE CopiedWasWritten'
  OBVIOUS
<1> USE PassFacts, AgentMailAssumption DEF MailInv, PassesAre, Moved, WasWritten, Steps
<1>1. ASSUME NEW l \in Letters, WriteLetter(l) PROVE CopiedWasWritten'
  BY <1>1 DEF AmTypeOK, CopiedWasWritten, PassIsOfALetter, Thrown, Begun, WriteLetter
<1>2. ASSUME NEW l \in Letters, TakeLetter(l) PROVE CopiedWasWritten'
  BY <1>2 DEF AmTypeOK, CopiedWasWritten, PassIsOfALetter, Thrown, Begun, TakeLetter
<1>3. ASSUME NEW l \in Letters, MarkLetter(l) PROVE CopiedWasWritten'
  BY <1>3 DEF AmTypeOK, CopiedWasWritten, PassIsOfALetter, Thrown, Begun, MarkLetter
<1>4. ASSUME NEW l \in Letters, MarkFails(l) PROVE CopiedWasWritten'
  <2>1. Drain(l) \in Passes /\ carry[Drain(l)] # "idle" /\ Thrown(Drain(l)) /\ copies' = copies
    BY <1>4 DEF MarkFails
  <2>2. \A k \in Letters : WasWritten(k)' = WasWritten(k)
    BY <2>1, ThrownDoes
  <2>3. \A s \in Sessions : \A i \in DOMAIN copies[s] : copies[s][i] \in Letters
    BY DEF AmTypeOK
  <2> QED
    BY <2>1, <2>2, <2>3 DEF CopiedWasWritten
<1>5. ASSUME NEW l \in Letters, DecideHold(l) PROVE CopiedWasWritten'
  BY <1>5 DEF AmTypeOK, CopiedWasWritten, PassIsOfALetter, Thrown, Begun, DecideHold
<1>6. ASSUME NEW l \in Letters, EndReplay(l) PROVE CopiedWasWritten'
  BY <1>6 DEF AmTypeOK, CopiedWasWritten, PassIsOfALetter, Thrown, Begun, EndReplay
<1>7. ASSUME NEW p \in Passes, JudgeEdge(p) PROVE CopiedWasWritten'
  BY SMTT(60), <1>7 DEF AmTypeOK, CopiedWasWritten, PassIsOfALetter, Thrown, Begun, JudgeEdge
<1>8. ASSUME NEW p \in Passes, JudgePolicy(p) PROVE CopiedWasWritten'
  BY <1>8 DEF AmTypeOK, CopiedWasWritten, PassIsOfALetter, Thrown, Begun, JudgePolicy
<1>9. ASSUME NEW p \in Passes, Hold(p) PROVE CopiedWasWritten'
  BY <1>9 DEF AmTypeOK, CopiedWasWritten, PassIsOfALetter, Thrown, Begun, Hold
<1>10. ASSUME NEW p \in Passes, ReadOrigin(p) PROVE CopiedWasWritten'
  BY <1>10 DEF AmTypeOK, CopiedWasWritten, PassIsOfALetter, Thrown, Begun, ReadOrigin
<1>11. ASSUME NEW p \in Passes, ResolveTarget(p) PROVE CopiedWasWritten'
  BY <1>11 DEF AmTypeOK, CopiedWasWritten, PassIsOfALetter, Thrown, Begun, ResolveTarget
<1>12. ASSUME NEW p \in Passes, WriteCopy(p) PROVE CopiedWasWritten'
  <2>1. WasWritten(p[1]) /\ row' = row
    BY <1>12 DEF PassIsOfALetter, WriteCopy
  <2> QED
    BY <1>12, <2>1, WriteCopyDoes DEF CopiedWasWritten
<1>13. ASSUME NEW l \in Sent, Edit(Edge(l)) PROVE CopiedWasWritten'
  BY <1>13 DEF AmTypeOK, CopiedWasWritten, PassIsOfALetter, Thrown, Begun, Edit
<1>14. ASSUME NEW s \in TaskSessions, CloseTask(s) PROVE CopiedWasWritten'
  BY <1>14 DEF AmTypeOK, CopiedWasWritten, PassIsOfALetter, Thrown, Begun, CloseTask
<1>15. CASE MailHostDies
  BY <1>15 DEF AmTypeOK, CopiedWasWritten, PassIsOfALetter, Thrown, Begun, MailHostDies
<1>16. CASE UNCHANGED mailVars
  BY <1>16 DEF AmTypeOK, CopiedWasWritten, PassIsOfALetter, Thrown, Begun, mailVars
<1> QED
  BY <1>1, <1>2, <1>3, <1>4, <1>5, <1>6, <1>7, <1>8, <1>9, <1>10, <1>11, <1>12, <1>13, <1>14,
     <1>15, <1>16 DEF NextMail, Carry, Grant, PassStep, PassesAre

\* Every step keeps what an answer names at its author.
LEMMA AnswersStep == MailInv /\ [NextMail]_mailVars => AnswersWhatItHas'
<1> SUFFICES ASSUME MailInv, [NextMail]_mailVars PROVE AnswersWhatItHas'
  OBVIOUS
<1> USE PassFacts, AgentMailAssumption DEF MailInv, PassesAre, Moved, WasWritten, Steps
<1>1. ASSUME NEW l \in Letters, WriteLetter(l) PROVE AnswersWhatItHas'
  <2>1. copies' = copies /\ \A k \in Letters : k # l => from'[k] = from[k] /\ ref'[k] = ref[k]
    BY <1>1, WriteLetterDoes DEF WriteLetter
  <2>2. ref'[l] = NoLetter \/ Has(from'[l], ref'[l])
    BY <1>1, WriteLetterDoes DEF Has
  <2>3. \A k \in Letters : ref[k] # NoLetter => Has(from[k], ref[k])
    BY DEF AnswersWhatItHas
  <2>4. \A k \in Letters : ref'[k] # NoLetter => \E i \in DOMAIN copies[from'[k]] : copies[from'[k]][i] = ref'[k]
    BY SMTT(60), <2>1, <2>2, <2>3 DEF Has
  <2> QED
    BY <2>1, <2>4 DEF AnswersWhatItHas, Has
<1>2. ASSUME NEW l \in Letters, TakeLetter(l) PROVE AnswersWhatItHas'
  BY <1>2 DEF AmTypeOK, AnswersWhatItHas, Has, WrittenIsSigned, Thrown, Begun, TakeLetter
<1>3. ASSUME NEW l \in Letters, MarkLetter(l) PROVE AnswersWhatItHas'
  BY <1>3 DEF AmTypeOK, AnswersWhatItHas, Has, WrittenIsSigned, Thrown, Begun, MarkLetter
<1>4. ASSUME NEW l \in Letters, MarkFails(l) PROVE AnswersWhatItHas'
  BY <1>4 DEF AmTypeOK, AnswersWhatItHas, Has, WrittenIsSigned, Thrown, Begun, MarkFails
<1>5. ASSUME NEW l \in Letters, DecideHold(l) PROVE AnswersWhatItHas'
  BY <1>5 DEF AmTypeOK, AnswersWhatItHas, Has, WrittenIsSigned, Thrown, Begun, DecideHold
<1>6. ASSUME NEW l \in Letters, EndReplay(l) PROVE AnswersWhatItHas'
  BY <1>6 DEF AmTypeOK, AnswersWhatItHas, Has, WrittenIsSigned, Thrown, Begun, EndReplay
<1>7. ASSUME NEW p \in Passes, JudgeEdge(p) PROVE AnswersWhatItHas'
  BY <1>7 DEF AmTypeOK, AnswersWhatItHas, Has, WrittenIsSigned, Thrown, Begun, JudgeEdge
<1>8. ASSUME NEW p \in Passes, JudgePolicy(p) PROVE AnswersWhatItHas'
  BY <1>8 DEF AmTypeOK, AnswersWhatItHas, Has, WrittenIsSigned, Thrown, Begun, JudgePolicy
<1>9. ASSUME NEW p \in Passes, Hold(p) PROVE AnswersWhatItHas'
  BY <1>9 DEF AmTypeOK, AnswersWhatItHas, Has, WrittenIsSigned, Thrown, Begun, Hold
<1>10. ASSUME NEW p \in Passes, ReadOrigin(p) PROVE AnswersWhatItHas'
  BY <1>10 DEF AmTypeOK, AnswersWhatItHas, Has, WrittenIsSigned, Thrown, Begun, ReadOrigin
<1>11. ASSUME NEW p \in Passes, ResolveTarget(p) PROVE AnswersWhatItHas'
  BY <1>11 DEF AmTypeOK, AnswersWhatItHas, Has, WrittenIsSigned, Thrown, Begun, ResolveTarget
<1>12. ASSUME NEW p \in Passes, WriteCopy(p) PROVE AnswersWhatItHas'
  <2>1. UNCHANGED <<from, ref>>
    BY <1>12 DEF WriteCopy
  <2>2. \A k \in Letters : ref[k] # NoLetter => from[k] \in Sessions
    BY DEF WrittenIsSigned, AmTypeOK
  <2> QED
    BY <1>12, <2>1, <2>2, WriteCopyDoes DEF AnswersWhatItHas, Has
<1>13. ASSUME NEW l \in Sent, Edit(Edge(l)) PROVE AnswersWhatItHas'
  BY <1>13 DEF AmTypeOK, AnswersWhatItHas, Has, WrittenIsSigned, Thrown, Begun, Edit
<1>14. ASSUME NEW s \in TaskSessions, CloseTask(s) PROVE AnswersWhatItHas'
  BY <1>14 DEF AmTypeOK, AnswersWhatItHas, Has, WrittenIsSigned, Thrown, Begun, CloseTask
<1>15. CASE MailHostDies
  BY <1>15 DEF AmTypeOK, AnswersWhatItHas, Has, WrittenIsSigned, Thrown, Begun, MailHostDies
<1>16. CASE UNCHANGED mailVars
  BY <1>16 DEF AmTypeOK, AnswersWhatItHas, Has, WrittenIsSigned, Thrown, Begun, mailVars
<1> QED
  BY <1>1, <1>2, <1>3, <1>4, <1>5, <1>6, <1>7, <1>8, <1>9, <1>10, <1>11, <1>12, <1>13, <1>14,
     <1>15, <1>16 DEF NextMail, Carry, Grant, PassStep, PassesAre

\* Every step keeps what a pass has seen.
LEMMA SeesStep == MailInv /\ [NextMail]_mailVars => SeesEdge'
<1> SUFFICES ASSUME MailInv, [NextMail]_mailVars PROVE SeesEdge'
  OBVIOUS
<1> USE PassFacts, AgentMailAssumption DEF MailInv, PassesAre, Moved, WasWritten, Steps
<1>1. ASSUME NEW l \in Letters, WriteLetter(l) PROVE SeesEdge'
  <2>1. UNCHANGED <<edges, gates, permitted, ungated, carry>>
    BY <1>1 DEF WriteLetter
  <2> QED
    BY <1>1, <2>1, WriteLetterDoes DEF SeesEdge
<1>2. ASSUME NEW l \in Letters, TakeLetter(l) PROVE SeesEdge'
  <2>1. /\ carry' = [carry EXCEPT ![Drain(l)] = "guard"] /\ UNCHANGED <<edges, gates, from, to>>
        /\ permitted' = IF Edge(Drain(l)[1]) \in edges THEN permitted \cup {Drain(l)} ELSE permitted \ {Drain(l)}
        /\ ungated' = IF Edge(Drain(l)[1]) \in gates THEN ungated \ {Drain(l)} ELSE ungated \cup {Drain(l)}
    BY <1>2 DEF TakeLetter, Begun
  <2>2. \A q \in Passes : Edge(q[1])' = Edge(q[1])
    BY <2>1 DEF Edge
  <2>3. \A q \in Running' : q = Drain(l) \/ q \in Running
    BY <2>1 DEF Running, AmTypeOK
  <2> QED
    BY <2>1, <2>2, <2>3 DEF SeesEdge, Running, AmTypeOK
<1>3. ASSUME NEW l \in Letters, MarkLetter(l) PROVE SeesEdge'
  BY <1>3 DEF AmTypeOK, SeesEdge, Running, On, Edge, MayPass, ToSelf, Thrown, Begun,
     PassIsOfALetter, MarkLetter
<1>4. ASSUME NEW l \in Letters, MarkFails(l) PROVE SeesEdge'
  BY <1>4 DEF AmTypeOK, SeesEdge, Running, On, Edge, MayPass, ToSelf, Thrown, Begun,
     PassIsOfALetter, MarkFails
<1>5. ASSUME NEW l \in Letters, DecideHold(l) PROVE SeesEdge'
  <2>1. CASE carry[Replay(l)] = "idle" /\ Begun(Replay(l))
    <3>1. /\ carry' = [carry EXCEPT ![Replay(l)] = "guard"] /\ UNCHANGED <<edges, gates, from, to>>
          /\ permitted' = IF Edge(Replay(l)[1]) \in edges THEN permitted \cup {Replay(l)} ELSE permitted \ {Replay(l)}
          /\ ungated' = IF Edge(Replay(l)[1]) \in gates THEN ungated \ {Replay(l)} ELSE ungated \cup {Replay(l)}
      BY <1>5, <2>1 DEF DecideHold, Begun
    <3>2. \A q \in Passes : Edge(q[1])' = Edge(q[1])
      BY <3>1 DEF Edge
    <3>3. \A q \in Running' : q = Replay(l) \/ q \in Running
      BY <3>1 DEF Running, AmTypeOK
    <3> QED
      BY <3>1, <3>2, <3>3 DEF SeesEdge, Running, AmTypeOK
  <2>2. CASE UNCHANGED <<carry, permitted, ungated>>
    BY <1>5, <2>2 DEF SeesEdge, Running, Edge, DecideHold
  <2> QED
    BY <1>5, <2>1, <2>2 DEF DecideHold
<1>6. ASSUME NEW l \in Letters, EndReplay(l) PROVE SeesEdge'
  BY <1>6 DEF AmTypeOK, SeesEdge, Running, On, Edge, MayPass, ToSelf, Thrown, Begun,
     PassIsOfALetter, EndReplay
<1>7. ASSUME NEW p \in Passes, JudgeEdge(p) PROVE SeesEdge'
  BY <1>7 DEF AmTypeOK, SeesEdge, Running, On, Edge, MayPass, ToSelf, Thrown, Begun,
     PassIsOfALetter, JudgeEdge
<1>8. ASSUME NEW p \in Passes, JudgePolicy(p) PROVE SeesEdge'
  BY <1>8 DEF AmTypeOK, SeesEdge, Running, On, Edge, MayPass, ToSelf, Thrown, Begun,
     PassIsOfALetter, JudgePolicy
<1>9. ASSUME NEW p \in Passes, Hold(p) PROVE SeesEdge'
  BY <1>9 DEF AmTypeOK, SeesEdge, Running, On, Edge, MayPass, ToSelf, Thrown, Begun,
     PassIsOfALetter, Hold
<1>10. ASSUME NEW p \in Passes, ReadOrigin(p) PROVE SeesEdge'
  BY <1>10 DEF AmTypeOK, SeesEdge, Running, On, Edge, MayPass, ToSelf, Thrown, Begun,
     PassIsOfALetter, ReadOrigin
<1>11. ASSUME NEW p \in Passes, ResolveTarget(p) PROVE SeesEdge'
  BY <1>11 DEF AmTypeOK, SeesEdge, Running, On, Edge, MayPass, ToSelf, Thrown, Begun,
     PassIsOfALetter, ResolveTarget
<1>12. ASSUME NEW p \in Passes, WriteCopy(p) PROVE SeesEdge'
  BY <1>12 DEF AmTypeOK, SeesEdge, Running, On, Edge, MayPass, ToSelf, Thrown, Begun,
     PassIsOfALetter, WriteCopy
<1>13. ASSUME NEW l \in Sent, Edit(Edge(l)) PROVE SeesEdge'
  <2> DEFINE e == Edge(l)
  <2>1. UNCHANGED <<carry, from, to>> /\ Running' = Running /\ \A p \in Passes : Edge(p[1])' = Edge(p[1])
    BY <1>13 DEF Edit, Running, Edge
  <2>2. /\ permitted \subseteq permitted' /\ ungated \subseteq ungated'
        /\ \A p \in Running : Edge(p[1]) \in edges' => Edge(p[1]) \in edges \/ p \in permitted'
        /\ \A p \in Running : Edge(p[1]) \notin gates' => Edge(p[1]) \notin gates \/ p \in ungated'
    BY <1>13 DEF Edit, On
  <2>3. \A p \in Running : (Edge(p[1]) \in edges => p \in permitted)
          /\ (Edge(p[1]) \notin gates => p \in ungated) /\ (carry[p] \in {"policy", "hold"} => p \in permitted)
    BY DEF SeesEdge
  <2>4. \A p \in Running : p \in Passes
    BY DEF Running
  <2> HIDE DEF e, Edge, Running
  <2> QED
    BY <2>1, <2>2, <2>3, <2>4 DEF SeesEdge
<1>14. ASSUME NEW s \in TaskSessions, CloseTask(s) PROVE SeesEdge'
  BY <1>14 DEF AmTypeOK, SeesEdge, Running, On, Edge, MayPass, ToSelf, Thrown, Begun,
     PassIsOfALetter, CloseTask
<1>15. CASE MailHostDies
  BY <1>15 DEF AmTypeOK, SeesEdge, Running, On, Edge, MayPass, ToSelf, Thrown, Begun,
     PassIsOfALetter, MailHostDies
<1>16. CASE UNCHANGED mailVars
  BY <1>16 DEF AmTypeOK, SeesEdge, Running, On, Edge, MayPass, ToSelf, Thrown, Begun,
     PassIsOfALetter, mailVars
<1> QED
  BY <1>1, <1>2, <1>3, <1>4, <1>5, <1>6, <1>7, <1>8, <1>9, <1>10, <1>11, <1>12, <1>13, <1>14,
     <1>15, <1>16 DEF NextMail, Carry, Grant, PassStep, PassesAre

\* Every step past the edge is of a pass that saw it.
LEMMA RevokedStep == MailInv /\ [NextMail]_mailVars => RevokedStaysOut'
<1> SUFFICES ASSUME MailInv, [NextMail]_mailVars PROVE RevokedStaysOut'
  OBVIOUS
<1> USE PassFacts, AgentMailAssumption DEF MailInv, PassesAre, Moved, WasWritten, Steps
<1>1. ASSUME NEW l \in Letters, WriteLetter(l) PROVE RevokedStaysOut'
  <2>1. UNCHANGED <<permitted, ungated, carry>>
    BY <1>1 DEF WriteLetter
  <2>2. \A p \in Running : p[1] # l /\ p[1] \in Letters /\ p \in Passes
    BY <1>1, WriteLetterDoes DEF Running
  <2>3. \A k \in Letters : k # l => from'[k] = from[k] /\ to'[k] = to[k]
    BY <1>1, WriteLetterDoes
  <2>4. Past' \subseteq Past
    BY <2>1, <2>2, <2>3 DEF Past, ToSelf, Running
  <2> QED
    BY <2>1, <2>4 DEF RevokedStaysOut
<1>2. ASSUME NEW l \in Letters, TakeLetter(l) PROVE RevokedStaysOut'
  BY <1>2 DEF AmTypeOK, SeesEdge, RevokedStaysOut, Past, Running, Edge, MustHold, MayPass, ToSelf,
     Thrown, Begun, On, TakeLetter
<1>3. ASSUME NEW l \in Letters, MarkLetter(l) PROVE RevokedStaysOut'
  BY <1>3 DEF AmTypeOK, SeesEdge, RevokedStaysOut, Past, Running, Edge, MustHold, MayPass, ToSelf,
     Thrown, Begun, On, MarkLetter
<1>4. ASSUME NEW l \in Letters, MarkFails(l) PROVE RevokedStaysOut'
  BY <1>4 DEF AmTypeOK, SeesEdge, RevokedStaysOut, Past, Running, Edge, MustHold, MayPass, ToSelf,
     Thrown, Begun, On, MarkFails
<1>5. ASSUME NEW l \in Letters, DecideHold(l) PROVE RevokedStaysOut'
  BY <1>5 DEF AmTypeOK, SeesEdge, RevokedStaysOut, Past, Running, Edge, MustHold, MayPass, ToSelf,
     Thrown, Begun, On, DecideHold
<1>6. ASSUME NEW l \in Letters, EndReplay(l) PROVE RevokedStaysOut'
  BY <1>6 DEF AmTypeOK, SeesEdge, RevokedStaysOut, Past, Running, Edge, MustHold, MayPass, ToSelf,
     Thrown, Begun, On, EndReplay
<1>7. ASSUME NEW p \in Passes, JudgeEdge(p) PROVE RevokedStaysOut'
  BY <1>7 DEF AmTypeOK, SeesEdge, RevokedStaysOut, Past, Running, Edge, MustHold, MayPass, ToSelf,
     Thrown, Begun, On, JudgeEdge
<1>8. ASSUME NEW p \in Passes, JudgePolicy(p) PROVE RevokedStaysOut'
  BY <1>8 DEF AmTypeOK, SeesEdge, RevokedStaysOut, Past, Running, Edge, MustHold, MayPass, ToSelf,
     Thrown, Begun, On, JudgePolicy
<1>9. ASSUME NEW p \in Passes, Hold(p) PROVE RevokedStaysOut'
  BY <1>9 DEF AmTypeOK, SeesEdge, RevokedStaysOut, Past, Running, Edge, MustHold, MayPass, ToSelf,
     Thrown, Begun, On, Hold
<1>10. ASSUME NEW p \in Passes, ReadOrigin(p) PROVE RevokedStaysOut'
  BY <1>10 DEF AmTypeOK, SeesEdge, RevokedStaysOut, Past, Running, Edge, MustHold, MayPass, ToSelf,
     Thrown, Begun, On, ReadOrigin
<1>11. ASSUME NEW p \in Passes, ResolveTarget(p) PROVE RevokedStaysOut'
  BY <1>11 DEF AmTypeOK, SeesEdge, RevokedStaysOut, Past, Running, Edge, MustHold, MayPass, ToSelf,
     Thrown, Begun, On, ResolveTarget
<1>12. ASSUME NEW p \in Passes, WriteCopy(p) PROVE RevokedStaysOut'
  BY <1>12 DEF AmTypeOK, SeesEdge, RevokedStaysOut, Past, Running, Edge, MustHold, MayPass, ToSelf,
     Thrown, Begun, On, WriteCopy
<1>13. ASSUME NEW l \in Sent, Edit(Edge(l)) PROVE RevokedStaysOut'
  BY <1>13 DEF AmTypeOK, SeesEdge, RevokedStaysOut, Past, Running, Edge, MustHold, MayPass, ToSelf,
     Thrown, Begun, On, Edit
<1>14. ASSUME NEW s \in TaskSessions, CloseTask(s) PROVE RevokedStaysOut'
  BY <1>14 DEF AmTypeOK, SeesEdge, RevokedStaysOut, Past, Running, Edge, MustHold, MayPass, ToSelf,
     Thrown, Begun, On, CloseTask
<1>15. CASE MailHostDies
  BY <1>15 DEF AmTypeOK, SeesEdge, RevokedStaysOut, Past, Running, Edge, MustHold, MayPass, ToSelf,
     Thrown, Begun, On, MailHostDies
<1>16. CASE UNCHANGED mailVars
  BY <1>16 DEF AmTypeOK, SeesEdge, RevokedStaysOut, Past, Running, Edge, MustHold, MayPass, ToSelf,
     Thrown, Begun, On, mailVars
<1> QED
  BY <1>1, <1>2, <1>3, <1>4, <1>5, <1>6, <1>7, <1>8, <1>9, <1>10, <1>11, <1>12, <1>13, <1>14,
     <1>15, <1>16 DEF NextMail, Carry, Grant, PassStep, PassesAre

\* Every drain past the policy saw none.
LEMMA PolicyStep == MailInv /\ [NextMail]_mailVars => PolicyHolds'
<1> SUFFICES ASSUME MailInv, [NextMail]_mailVars PROVE PolicyHolds'
  OBVIOUS
<1> USE PassFacts, AgentMailAssumption DEF MailInv, PassesAre, Moved, WasWritten, Steps
<1>1. ASSUME NEW l \in Letters, WriteLetter(l) PROVE PolicyHolds'
  <2>1. UNCHANGED <<permitted, ungated, carry>>
    BY <1>1 DEF WriteLetter
  <2>2. \A p \in Running : p[1] # l /\ p[1] \in Letters /\ p \in Passes
    BY <1>1, WriteLetterDoes DEF Running
  <2>3. \A k \in Letters : k # l => from'[k] = from[k] /\ to'[k] = to[k]
    BY <1>1, WriteLetterDoes
  <2>4. Past' \subseteq Past
    BY <2>1, <2>2, <2>3 DEF Past, ToSelf, Running
  <2> QED
    BY <2>1, <2>4 DEF PolicyHolds
<1>2. ASSUME NEW l \in Letters, TakeLetter(l) PROVE PolicyHolds'
  BY <1>2 DEF AmTypeOK, SeesEdge, PolicyHolds, Past, Running, Edge, MustHold, MayPass, ToSelf,
     Thrown, Begun, On, TakeLetter
<1>3. ASSUME NEW l \in Letters, MarkLetter(l) PROVE PolicyHolds'
  BY <1>3 DEF AmTypeOK, SeesEdge, PolicyHolds, Past, Running, Edge, MustHold, MayPass, ToSelf,
     Thrown, Begun, On, MarkLetter
<1>4. ASSUME NEW l \in Letters, MarkFails(l) PROVE PolicyHolds'
  BY <1>4 DEF AmTypeOK, SeesEdge, PolicyHolds, Past, Running, Edge, MustHold, MayPass, ToSelf,
     Thrown, Begun, On, MarkFails
<1>5. ASSUME NEW l \in Letters, DecideHold(l) PROVE PolicyHolds'
  BY <1>5 DEF AmTypeOK, SeesEdge, PolicyHolds, Past, Running, Edge, MustHold, MayPass, ToSelf,
     Thrown, Begun, On, DecideHold
<1>6. ASSUME NEW l \in Letters, EndReplay(l) PROVE PolicyHolds'
  BY <1>6 DEF AmTypeOK, SeesEdge, PolicyHolds, Past, Running, Edge, MustHold, MayPass, ToSelf,
     Thrown, Begun, On, EndReplay
<1>7. ASSUME NEW p \in Passes, JudgeEdge(p) PROVE PolicyHolds'
  <2>1. Past' \subseteq Past
    BY <1>7 DEF AmTypeOK, SeesEdge, PolicyHolds, Past, Running, Edge, MustHold, MayPass, ToSelf,
       Thrown, Begun, On, JudgeEdge
  <2> QED
    BY <1>7, <2>1 DEF PolicyHolds, JudgeEdge
<1>8. ASSUME NEW p \in Passes, JudgePolicy(p) PROVE PolicyHolds'
  BY <1>8 DEF AmTypeOK, SeesEdge, PolicyHolds, Past, Running, Edge, MustHold, MayPass, ToSelf,
     Thrown, Begun, On, JudgePolicy
<1>9. ASSUME NEW p \in Passes, Hold(p) PROVE PolicyHolds'
  BY <1>9 DEF AmTypeOK, SeesEdge, PolicyHolds, Past, Running, Edge, MustHold, MayPass, ToSelf,
     Thrown, Begun, On, Hold
<1>10. ASSUME NEW p \in Passes, ReadOrigin(p) PROVE PolicyHolds'
  BY <1>10 DEF AmTypeOK, SeesEdge, PolicyHolds, Past, Running, Edge, MustHold, MayPass, ToSelf,
     Thrown, Begun, On, ReadOrigin
<1>11. ASSUME NEW p \in Passes, ResolveTarget(p) PROVE PolicyHolds'
  BY <1>11 DEF AmTypeOK, SeesEdge, PolicyHolds, Past, Running, Edge, MustHold, MayPass, ToSelf,
     Thrown, Begun, On, ResolveTarget
<1>12. ASSUME NEW p \in Passes, WriteCopy(p) PROVE PolicyHolds'
  BY <1>12 DEF AmTypeOK, SeesEdge, PolicyHolds, Past, Running, Edge, MustHold, MayPass, ToSelf,
     Thrown, Begun, On, WriteCopy
<1>13. ASSUME NEW l \in Sent, Edit(Edge(l)) PROVE PolicyHolds'
  BY <1>13 DEF AmTypeOK, SeesEdge, PolicyHolds, Past, Running, Edge, MustHold, MayPass, ToSelf,
     Thrown, Begun, On, Edit
<1>14. ASSUME NEW s \in TaskSessions, CloseTask(s) PROVE PolicyHolds'
  BY <1>14 DEF AmTypeOK, SeesEdge, PolicyHolds, Past, Running, Edge, MustHold, MayPass, ToSelf,
     Thrown, Begun, On, CloseTask
<1>15. CASE MailHostDies
  BY <1>15 DEF AmTypeOK, SeesEdge, PolicyHolds, Past, Running, Edge, MustHold, MayPass, ToSelf,
     Thrown, Begun, On, MailHostDies
<1>16. CASE UNCHANGED mailVars
  BY <1>16 DEF AmTypeOK, SeesEdge, PolicyHolds, Past, Running, Edge, MustHold, MayPass, ToSelf,
     Thrown, Begun, On, mailVars
<1> QED
  BY <1>1, <1>2, <1>3, <1>4, <1>5, <1>6, <1>7, <1>8, <1>9, <1>10, <1>11, <1>12, <1>13, <1>14,
     <1>15, <1>16 DEF NextMail, Carry, Grant, PassStep, PassesAre

-----------------------------------------------------------------------------
(* Where copies go.                                                        *)

\* What a step leaves of the letters written, of the sessions closed, and of the copies.
Keeps ==
  /\ \A k \in Letters : WasWritten(k) => from'[k] = from[k] /\ to'[k] = to[k] /\ ref'[k] = ref[k]
  /\ \A s \in opened : s \in active' => s \in active
  /\ \A s \in Sessions : \A i \in DOMAIN copies[s] :
       i \in DOMAIN copies'[s] /\ copies'[s][i] = copies[s][i]

\* No step rewrites a letter, opens a session again or takes a copy away.
LEMMA KeepsStep == MailInv /\ [NextMail]_mailVars => Keeps
<1> SUFFICES ASSUME MailInv, [NextMail]_mailVars PROVE Keeps
  OBVIOUS
<1> USE PassFacts, AgentMailAssumption DEF MailInv, PassesAre, Moved, Steps
<1>1. ASSUME NEW l \in Letters, WriteLetter(l) PROVE Keeps
  <2>1. row[l] = "unsent" /\ UNCHANGED <<active, copies>>
    BY <1>1, WriteLetterDoes DEF WriteLetter
  <2>2. \A k \in Letters : k # l => from'[k] = from[k] /\ to'[k] = to[k] /\ ref'[k] = ref[k]
    BY <1>1, WriteLetterDoes
  <2> QED
    BY <2>1, <2>2 DEF Keeps, WasWritten
<1>2. ASSUME NEW l \in Letters, TakeLetter(l) PROVE Keeps
  BY <1>2 DEF AmTypeOK, WrittenIsSigned, Keeps, TakeLetter
<1>3. ASSUME NEW l \in Letters, MarkLetter(l) PROVE Keeps
  BY <1>3 DEF AmTypeOK, WrittenIsSigned, Keeps, MarkLetter
<1>4. ASSUME NEW l \in Letters, MarkFails(l) PROVE Keeps
  BY <1>4 DEF AmTypeOK, WrittenIsSigned, Keeps, MarkFails
<1>5. ASSUME NEW l \in Letters, DecideHold(l) PROVE Keeps
  BY <1>5 DEF AmTypeOK, WrittenIsSigned, Keeps, DecideHold
<1>6. ASSUME NEW l \in Letters, EndReplay(l) PROVE Keeps
  BY <1>6 DEF AmTypeOK, WrittenIsSigned, Keeps, EndReplay
<1>7. ASSUME NEW p \in Passes, JudgeEdge(p) PROVE Keeps
  BY <1>7 DEF AmTypeOK, WrittenIsSigned, Keeps, JudgeEdge
<1>8. ASSUME NEW p \in Passes, JudgePolicy(p) PROVE Keeps
  BY <1>8 DEF AmTypeOK, WrittenIsSigned, Keeps, JudgePolicy
<1>9. ASSUME NEW p \in Passes, Hold(p) PROVE Keeps
  BY <1>9 DEF AmTypeOK, WrittenIsSigned, Keeps, Hold
<1>10. ASSUME NEW p \in Passes, ReadOrigin(p) PROVE Keeps
  BY <1>10 DEF AmTypeOK, WrittenIsSigned, Keeps, ReadOrigin
<1>11. ASSUME NEW p \in Passes, ResolveTarget(p) PROVE Keeps
  <2>1. UNCHANGED <<from, to, ref, copies>>
    BY <1>11 DEF ResolveTarget
  <2>2. \A s \in opened : s \in active' => s \in active
    BY <1>11 DEF ResolveTarget, Latest, Shared, Unopened
  <2> QED
    BY <2>1, <2>2 DEF Keeps
<1>12. ASSUME NEW p \in Passes, WriteCopy(p) PROVE Keeps
  <2>1. UNCHANGED <<from, to, ref, active>>
    BY <1>12 DEF WriteCopy
  <2> QED
    BY <1>12, <2>1, WriteCopyDoes DEF Keeps
<1>13. ASSUME NEW l \in Sent, Edit(Edge(l)) PROVE Keeps
  BY <1>13 DEF AmTypeOK, WrittenIsSigned, Keeps, Edit
<1>14. ASSUME NEW s \in TaskSessions, CloseTask(s) PROVE Keeps
  BY <1>14 DEF AmTypeOK, WrittenIsSigned, Keeps, CloseTask
<1>15. CASE MailHostDies
  BY <1>15 DEF AmTypeOK, WrittenIsSigned, Keeps, MailHostDies
<1>16. CASE UNCHANGED mailVars
  BY <1>16 DEF AmTypeOK, WrittenIsSigned, Keeps, mailVars
<1> QED
  BY <1>1, <1>2, <1>3, <1>4, <1>5, <1>6, <1>7, <1>8, <1>9, <1>10, <1>11, <1>12, <1>13, <1>14,
     <1>15, <1>16 DEF NextMail, Carry, Grant, PassStep, PassesAre

\* Where a letter may go it may go on: what it answers and who asked stay the same.
LEMMA FitsStay ==
  ASSUME MailInv, Keeps, NEW k \in Letters, WasWritten(k)
  PROVE  /\ \A s \in Sessions : Wrote(from[k], s) => Wrote(from[k], s)'
         /\ \A s \in Sessions : Fits(k, s) => Fits(k, s)'
         /\ ref[k] # NoLetter => Asker(k)' = Asker(k) /\ Asker(k) \in opened
         /\ AskerWaits(k)' => AskerWaits(k)
<1>1. /\ from'[k] = from[k] /\ to'[k] = to[k] /\ ref'[k] = ref[k] /\ from[k] \in Sessions
      /\ ref[k] \in Letters \cup {NoLetter}
  BY DEF MailInv, Keeps, WrittenIsSigned, AmTypeOK
<1>2. \A s \in Sessions : \A i \in DOMAIN copies[s] : copies[s][i] \in Letters /\ WasWritten(copies[s][i])
  BY DEF MailInv, AmTypeOK, CopiedWasWritten
<1>3. \A s \in Sessions : Wrote(from[k], s) => Wrote(from[k], s)'
  BY <1>1, <1>2 DEF Wrote, Keeps
<1>4. ref[k] # NoLetter => ref[k] \in Letters /\ WasWritten(ref[k])
  BY <1>1, <1>2 DEF MailInv, AnswersWhatItHas, Has
<1>5. ref[k] # NoLetter => Asker(k)' = Asker(k) /\ Asker(k) \in opened
  BY <1>1, <1>4 DEF MailInv, Asker, Keeps, WrittenIsSigned
<1>6. AskerWaits(k)' => AskerWaits(k)
  BY <1>1, <1>5 DEF AskerWaits, Keeps
<1>7. \A s \in Sessions : Fits(k, s) => Fits(k, s)'
  BY <1>1, <1>3, <1>5, <1>6 DEF Fits, AskerWaits
<1> QED
  BY <1>3, <1>5, <1>6, <1>7

\* Where the code looks for the session that asked, it finds one that wrote a copy.
LEMMA OriginsFit ==
  ASSUME MailInv, NEW l \in Letters, WasWritten(l), NEW s \in Origins(l)
  PROVE  /\ s \in Sessions \cup {NoSession}
         /\ ref[l] # NoLetter => s = Asker(l)
         /\ s # NoSession => Wrote(from[l], s)
<1>1. /\ from[l] \in Sessions /\ ref[l] \in Letters \cup {NoLetter}
      /\ \A i \in DOMAIN copies[from[l]] : copies[from[l]][i] \in Letters
      /\ \A k \in Letters : from[k] \in Sessions \cup {NoSession}
  BY DEF MailInv, WrittenIsSigned, AmTypeOK
<1>2. CASE ref[l] # NoLetter
  BY <1>1, <1>2 DEF MailInv, Origins, Asker, AnswersWhatItHas, Has, Wrote
<1>3. CASE ref[l] = NoLetter /\ FromPeer(from[l], to[l]) = {}
  BY <1>3 DEF Origins
<1>4. CASE ref[l] = NoLetter /\ FromPeer(from[l], to[l]) # {}
  <2>1. PICK i \in LastFrom(from[l], to[l]) : s = from[copies[from[l]][i]]
    BY <1>4 DEF Origins
  <2>2. i \in DOMAIN copies[from[l]]
    BY <2>1 DEF LastFrom, FromPeer
  <2> QED
    BY <1>1, <1>4, <2>1, <2>2 DEF Wrote
<1> QED
  BY <1>2, <1>3, <1>4

\* What a pass has picked stays but where it looks for it.
PickStays(q) == carry'[q] \in {"resolve", "write"} => carry'[q] = carry[q] /\ pick'[q] = pick[q]
Picks(q) == PickStays(q) \/ ReadOrigin(q) \/ ResolveTarget(q)

\* Every step leaves a pass what it picked, or is its look for it.
LEMMA PicksStep == MailInv /\ [NextMail]_mailVars => (\A q \in Passes : Picks(q))
<1> SUFFICES ASSUME MailInv, [NextMail]_mailVars PROVE (\A q \in Passes : Picks(q))
  OBVIOUS
<1> USE PassFacts, AgentMailAssumption DEF MailInv, PassesAre, Moved, Steps
<1>1. ASSUME NEW l \in Letters, WriteLetter(l) PROVE (\A q \in Passes : Picks(q))
  BY <1>1 DEF AmTypeOK, Picks, PickStays, Begun, Thrown, WriteLetter
<1>2. ASSUME NEW l \in Letters, TakeLetter(l) PROVE (\A q \in Passes : Picks(q))
  BY <1>2 DEF AmTypeOK, Picks, PickStays, Begun, Thrown, TakeLetter
<1>3. ASSUME NEW l \in Letters, MarkLetter(l) PROVE (\A q \in Passes : Picks(q))
  BY <1>3 DEF AmTypeOK, Picks, PickStays, Begun, Thrown, MarkLetter
<1>4. ASSUME NEW l \in Letters, MarkFails(l) PROVE (\A q \in Passes : Picks(q))
  BY <1>4 DEF AmTypeOK, Picks, PickStays, Begun, Thrown, MarkFails
<1>5. ASSUME NEW l \in Letters, DecideHold(l) PROVE (\A q \in Passes : Picks(q))
  BY <1>5 DEF AmTypeOK, Picks, PickStays, Begun, Thrown, DecideHold
<1>6. ASSUME NEW l \in Letters, EndReplay(l) PROVE (\A q \in Passes : Picks(q))
  BY <1>6 DEF AmTypeOK, Picks, PickStays, Begun, Thrown, EndReplay
<1>7. ASSUME NEW p \in Passes, JudgeEdge(p) PROVE (\A q \in Passes : Picks(q))
  BY <1>7 DEF AmTypeOK, Picks, PickStays, Begun, Thrown, JudgeEdge
<1>8. ASSUME NEW p \in Passes, JudgePolicy(p) PROVE (\A q \in Passes : Picks(q))
  BY <1>8 DEF AmTypeOK, Picks, PickStays, Begun, Thrown, JudgePolicy
<1>9. ASSUME NEW p \in Passes, Hold(p) PROVE (\A q \in Passes : Picks(q))
  BY <1>9 DEF AmTypeOK, Picks, PickStays, Begun, Thrown, Hold
<1>10. ASSUME NEW p \in Passes, ReadOrigin(p) PROVE (\A q \in Passes : Picks(q))
  <2>1. \A q \in Passes : q # p => PickStays(q)
    BY <1>10 DEF AmTypeOK, PickStays, ReadOrigin
  <2> QED
    BY <1>10, <2>1 DEF Picks
<1>11. ASSUME NEW p \in Passes, ResolveTarget(p) PROVE (\A q \in Passes : Picks(q))
  <2>1. \A q \in Passes : q # p => PickStays(q)
    BY <1>11 DEF AmTypeOK, PickStays, ResolveTarget
  <2> QED
    BY <1>11, <2>1 DEF Picks
<1>12. ASSUME NEW p \in Passes, WriteCopy(p) PROVE (\A q \in Passes : Picks(q))
  BY <1>12 DEF AmTypeOK, Picks, PickStays, Begun, Thrown, WriteCopy
<1>13. ASSUME NEW l \in Sent, Edit(Edge(l)) PROVE (\A q \in Passes : Picks(q))
  BY <1>13 DEF AmTypeOK, Picks, PickStays, Begun, Thrown, Edit
<1>14. ASSUME NEW s \in TaskSessions, CloseTask(s) PROVE (\A q \in Passes : Picks(q))
  BY <1>14 DEF AmTypeOK, Picks, PickStays, Begun, Thrown, CloseTask
<1>15. CASE MailHostDies
  BY <1>15 DEF AmTypeOK, Picks, PickStays, Begun, Thrown, MailHostDies
<1>16. CASE UNCHANGED mailVars
  BY <1>16 DEF AmTypeOK, Picks, PickStays, Begun, Thrown, mailVars
<1> QED
  BY <1>1, <1>2, <1>3, <1>4, <1>5, <1>6, <1>7, <1>8, <1>9, <1>10, <1>11, <1>12, <1>13, <1>14,
     <1>15, <1>16 DEF NextMail, Carry, Grant, PassStep, PassesAre

\* Every step leaves what a pass has picked fit for its letter.
LEMMA PickStep == MailInv /\ [NextMail]_mailVars => PickFits'
<1> SUFFICES ASSUME MailInv, [NextMail]_mailVars, NEW q \in Passes
             PROVE  /\ carry'[q] = "resolve" =>
                         /\ ref'[q[1]] # NoLetter => pick'[q] = Asker(q[1])'
                         /\ pick'[q] # NoSession => Wrote(from[q[1]], pick[q])'
                    /\ carry'[q] = "write" => pick'[q] \in opened' /\ Fits(q[1], pick[q])'
  BY DEF PickFits
<1>1. Keeps /\ Picks(q)
  BY KeepsStep, PicksStep
<1>2. q[1] \in Letters /\ (carry[q] # "idle" => WasWritten(q[1]))
  BY PassFacts DEF PassesAre, MailInv, PassIsOfALetter, WasWritten
<1>3. pick[q] \in Sessions \cup {NoSession} /\ opened \subseteq Sessions /\ active \subseteq opened
  BY DEF MailInv, AmTypeOK
<1>4. opened \subseteq opened'
  BY DEF NextMail, mailVars, Carry, Grant, PassStep, WriteLetter, TakeLetter, MarkLetter,
     MarkFails, DecideHold, EndReplay, JudgeEdge, JudgePolicy, Hold, ReadOrigin, ResolveTarget,
     WriteCopy, Edit, CloseTask, MailHostDies
<1>5. CASE PickStays(q)
  <2>1. CASE carry'[q] = "resolve"
    <3>1. carry[q] = "resolve" /\ pick'[q] = pick[q] /\ WasWritten(q[1])
      BY <1>2, <1>5, <2>1 DEF PickStays
    <3>2. /\ ref[q[1]] # NoLetter => pick[q] = Asker(q[1])
          /\ pick[q] # NoSession => Wrote(from[q[1]], pick[q])
      BY <3>1 DEF MailInv, PickFits
    <3>3. ref'[q[1]] = ref[q[1]]
      BY <1>1, <1>2, <3>1 DEF Keeps
    <3>4. pick[q] # NoSession => Wrote(from[q[1]], pick[q])'
      <4>1. SUFFICES ASSUME pick[q] # NoSession PROVE Wrote(from[q[1]], pick[q])'
        OBVIOUS
      <4>2. DEFINE s == pick[q]
      <4>3. Wrote(from[q[1]], s)'
        BY <1>1, <1>2, <1>3, <3>1, <3>2, <4>1, FitsStay
      <4> QED
        BY <3>1, <4>3 DEF Wrote
    <3> QED
      BY <1>1, <1>2, <2>1, <3>1, <3>2, <3>3, <3>4, FitsStay
  <2>2. CASE carry'[q] = "write"
    <3>1. carry[q] = "write" /\ pick'[q] = pick[q] /\ WasWritten(q[1])
      BY <1>2, <1>5, <2>2 DEF PickStays
    <3>2. pick[q] \in opened /\ Fits(q[1], pick[q])
      BY <3>1 DEF MailInv, PickFits
    <3> DEFINE s == pick[q]
    <3>3. s \in Sessions /\ Fits(q[1], s)'
      BY <1>1, <1>2, <1>3, <3>1, <3>2, FitsStay
    <3>4. Fits(q[1], pick[q])'
      BY <3>1, <3>3 DEF Fits, Wrote
    <3> QED
      BY <1>4, <2>2, <3>1, <3>2, <3>4
  <2> QED
    BY <2>1, <2>2
<1>6. CASE ReadOrigin(q)
  <2>1. /\ carry'[q] = "resolve" /\ WasWritten(q[1]) /\ pick'[q] \in Origins(q[1])
        /\ UNCHANGED <<from, to, ref, copies>>
    BY <1>2, <1>6 DEF ReadOrigin, MailInv, AmTypeOK, Moved
  <2>2. /\ ref[q[1]] # NoLetter => pick'[q] = Asker(q[1])
        /\ pick'[q] # NoSession => Wrote(from[q[1]], pick'[q])
    BY <1>2, <2>1, OriginsFit
  <2> QED
    BY <2>1, <2>2 DEF Asker, Wrote
<1>7. CASE ResolveTarget(q)
  <2>1. /\ carry[q] = "resolve" /\ carry'[q] = "write" /\ WasWritten(q[1])
        /\ UNCHANGED <<from, to, ref, copies>>
    BY <1>2, <1>7 DEF ResolveTarget, MailInv, AmTypeOK, Moved
  <2>2. /\ ref[q[1]] # NoLetter => pick[q] = Asker(q[1])
        /\ pick[q] # NoSession => Wrote(from[q[1]], pick[q])
    BY <2>1 DEF MailInv, PickFits
  <2>3. pick'[q] \in opened' /\ GroupOf[pick'[q]] = to[q[1]]
    BY <1>3, <1>7 DEF ResolveTarget, Suits, Latest, Shared, Unopened, MailInv, AmTypeOK
  <2>4. AskerWaits(q[1]) => pick'[q] = Asker(q[1])
    BY <1>7, <2>2 DEF ResolveTarget, Suits, AskerWaits
  <2>5. pick'[q] \in TaskSessions => Wrote(from[q[1]], pick'[q])
    BY <1>3, <1>7, <2>2, AgentMailAssumption
    DEF ResolveTarget, Suits, Latest, Shared, Unopened, MailInv, AmTypeOK
  <2>6. AskerWaits(q[1])' => AskerWaits(q[1])
    BY <1>1, <1>2, <2>1, FitsStay
  <2> QED
    BY <2>1, <2>3, <2>4, <2>5, <2>6 DEF Fits, Asker, Wrote
<1> QED
  BY <1>1, <1>5, <1>6, <1>7 DEF Picks

\* Every step leaves every copy where its letter may go.
LEMMA CopyStep == MailInv /\ [NextMail]_mailVars => CopyFits'
<1> SUFFICES ASSUME MailInv, [NextMail]_mailVars PROVE CopyFits'
  OBVIOUS
<1>1. Keeps
  BY KeepsStep
<1>2. \A s \in Sessions : \A i \in DOMAIN copies[s] :
        copies[s][i] \in Letters /\ WasWritten(copies[s][i]) /\ Fits(copies[s][i], s)
  BY DEF MailInv, AmTypeOK, CopiedWasWritten, CopyFits
<1>3. \A k \in Letters, s \in Sessions : WasWritten(k) /\ Fits(k, s) => Fits(k, s)'
  BY <1>1, FitsStay
<1>4. ASSUME NEW p \in Passes, WriteCopy(p) PROVE CopyFits'
  <2>1. /\ carry[p] = "write" /\ p[1] \in Letters /\ WasWritten(p[1])
    BY <1>4, PassFacts DEF WriteCopy, PassesAre, MailInv, PassIsOfALetter, WasWritten
  <2>2. pick[p] \in Sessions /\ Fits(p[1], pick[p])
    BY <2>1 DEF MailInv, PickFits, AmTypeOK
  <2>3. ASSUME NEW s \in Sessions, NEW i \in DOMAIN copies'[s]
        PROVE  \E k \in Letters : k = copies'[s][i] /\ WasWritten(k) /\ Fits(k, s)
    BY <1>2, <1>4, <2>1, <2>2, <2>3, WriteCopyDoes DEF MailInv
  <2> QED
    BY <1>3, <2>3 DEF CopyFits
<1>5. CASE copies' = copies
  <2>1. ASSUME NEW s \in Sessions, NEW i \in DOMAIN copies[s] PROVE Fits(copies[s][i], s)'
    <3> DEFINE k == copies[s][i]
    <3>1. k \in Letters /\ WasWritten(k) /\ Fits(k, s)
      BY <1>2, <2>1
    <3>2. k' = k
      BY <1>5
    <3> HIDE DEF k
    <3>3. Fits(k, s)'
      BY <1>3, <3>1, <3>2
    <3> QED
      BY <3>3 DEF k
  <2> QED
    BY <1>5, <2>1 DEF CopyFits
<1>6. copies' = copies \/ \E p \in Passes : WriteCopy(p)
  BY PassFacts DEF NextMail, mailVars, Carry, Grant, PassStep, WriteLetter, TakeLetter, MarkLetter,
     MarkFails, DecideHold, EndReplay, JudgeEdge, JudgePolicy, Hold, ReadOrigin, ResolveTarget,
     Edit, CloseTask, MailHostDies, PassesAre
<1> QED
  BY <1>4, <1>5, <1>6

-----------------------------------------------------------------------------
(* The budget of copies.                                                   *)

\* What is owed is counted in the naturals.
LEMMA OwedIsNat ==
  ASSUME AmTypeOK, NEW l \in Letters
  PROVE  /\ holds[l] \in Nat /\ mailFaults \in Nat /\ Owed(l) \in Nat
         /\ One(Replaying(l)) \in 0 .. 1 /\ One(StillDue(l)) \in 0 .. 1
<1>1. holds[l] \in Nat /\ mailFaults \in Nat
  BY AgentMailAssumption DEF AmTypeOK
<1>2. One(Replaying(l)) \in 0 .. 1 /\ One(StillDue(l)) \in 0 .. 1
  BY DEF One
<1> QED
  BY <1>1, <1>2 DEF Owed

\* A letter about to be held has a copy to spare for its hold.
LEMMA HoldHasRoom ==
  ASSUME MailInv, NEW l \in Letters, carry[Drain(l)] = "hold"
  PROVE  holds[l] + 1 <= 1 + mailFaults /\ holds[l] + 1 \in 0 .. 1 + MaxMailFaults
<1>1. AmTypeOK /\ Cardinality(CopiesOf(l)) + Owed(l) <= 1 + mailFaults
  BY DEF MailInv, CopyBudget
<1>2. row[l] = "out"
  BY DEF MailInv, PassIsOfALetter
<1>3. One(StillDue(l)) = 1
  BY <1>2 DEF One, StillDue
<1>4. Cardinality(CopiesOf(l)) \in Nat /\ One(Replaying(l)) \in 0 .. 1 /\ holds[l] \in Nat /\ mailFaults \in 0 .. MaxMailFaults
  BY <1>1, CopiesAreFinite, OwedIsNat DEF AmTypeOK
<1>5. Owed(l) = holds[l] + One(Replaying(l)) + 1
  BY <1>3 DEF Owed
<1> HIDE DEF One
<1> QED
  BY <1>1, <1>4, <1>5, AgentMailAssumption

\* Every step keeps the types.
LEMMA MailTypesStep == MailInv /\ [NextMail]_mailVars => AmTypeOK'
<1> SUFFICES ASSUME MailInv, [NextMail]_mailVars PROVE AmTypeOK'
  OBVIOUS
<1> USE PassFacts, AgentMailAssumption DEF MailInv, PassesAre, Moved, Steps
<1>1. ASSUME NEW l \in Letters, WriteLetter(l) PROVE AmTypeOK'
  <2>1. /\ row' = [row EXCEPT ![l] = "out"] /\ from' \in [Letters -> Sessions \cup {NoSession}]
        /\ to'[l] \in Aims[l] /\ from'[l] \in Voices[l] /\ ref' \in [Letters -> Letters \cup {NoLetter}]
        /\ \A k \in Letters : k # l => from'[k] = from[k] /\ to'[k] = to[k]
    BY <1>1, WriteLetterDoes
  <2>2. to' \in [Letters -> Groups \cup {NoSession}]
    BY <1>1, <2>1 DEF WriteLetter, AmTypeOK, Groups
  <2>3. UNCHANGED <<edges, gates, opened, active, trials, holds, carry, pick, copies, permitted,
                    ungated, mailFaults, edits>>
    BY <1>1 DEF WriteLetter
  <2>4. /\ row' \in [Letters -> {"never", "unsent", "out", "done", "failed"}]
        /\ \A k \in Letters : k # l => row'[k] = row[k]
    BY <2>1 DEF AmTypeOK
  <2>5. \A k \in Letters : row'[k] \notin {"never", "unsent"} => to'[k] \in Aims[k] /\ from'[k] \in Voices[k]
    BY <2>1, <2>4 DEF AmTypeOK
  <2> QED
    BY <2>1, <2>2, <2>3, <2>4, <2>5 DEF AmTypeOK
<1>2. ASSUME NEW l \in Letters, TakeLetter(l) PROVE AmTypeOK'
  BY <1>2 DEF TakeLetter, Begun, AmTypeOK
<1>3. ASSUME NEW l \in Letters, MarkLetter(l) PROVE AmTypeOK'
  <2>1. row[l] = "out" /\ row' = [row EXCEPT ![l] = "done"] /\ carry' = [carry EXCEPT ![Drain(l)] = "idle"]
    BY <1>3 DEF MarkLetter, PassIsOfALetter
  <2>2. \A k \in Letters : row'[k] \notin {"never", "unsent"} => row[k] \notin {"never", "unsent"}
    BY <2>1 DEF AmTypeOK
  <2> QED
    BY <1>3, <2>1, <2>2 DEF MarkLetter, AmTypeOK
<1>4. ASSUME NEW l \in Letters, MarkFails(l) PROVE AmTypeOK'
  <2>1. /\ trials' \in [Letters -> 0 .. MaxTrials] /\ carry' \in [Passes -> Steps]
        /\ row' \in [Letters -> {"never", "unsent", "out", "done", "failed"}]
        /\ \A k \in Letters : row'[k] \notin {"never", "unsent"} => row[k] \notin {"never", "unsent"}
    <3>1. Drain(l) \in Passes /\ Drain(l)[2] = "drain" /\ carry[Drain(l)] # "idle" /\ Thrown(Drain(l))
      BY <1>4 DEF MarkFails
    <3>2. /\ carry' = [carry EXCEPT ![Drain(l)] = "idle"] /\ trials' \in [Letters -> 0 .. MaxTrials]
          /\ row' \in [Letters -> {"never", "unsent", "out", "done", "failed"}]
          /\ \A k \in Letters : WasWritten(k)' = WasWritten(k)
      BY <3>1, ThrownDoes
    <3> QED
      BY <3>2 DEF AmTypeOK, WasWritten
  <2> QED
    BY <1>4, <2>1, AgentMailAssumption DEF MarkFails, MailInv, AmTypeOK
<1>5. ASSUME NEW l \in Letters, DecideHold(l) PROVE AmTypeOK'
  <2>1. holds' \in [Letters -> 0 .. 1 + MaxMailFaults]
    BY <1>5 DEF DecideHold, AmTypeOK
  <2>2. carry' \in [Passes -> Steps] /\ permitted' \cup ungated' \subseteq Passes
    <3>1. CASE Begun(Replay(l))
      BY <3>1 DEF Begun, AmTypeOK
    <3>2. CASE UNCHANGED <<carry, permitted, ungated>>
      BY <3>2 DEF AmTypeOK
    <3> QED
      BY <1>5, <3>1, <3>2 DEF DecideHold
  <2> QED
    BY <1>5, <2>1, <2>2 DEF DecideHold, AmTypeOK
<1>6. ASSUME NEW l \in Letters, EndReplay(l) PROVE AmTypeOK'
  BY <1>6 DEF AmTypeOK, EndReplay
<1>7. ASSUME NEW p \in Passes, JudgeEdge(p) PROVE AmTypeOK'
  <2>1. CASE Thrown(p) /\ ~MayPass(p)
    <3>1. /\ trials' \in [Letters -> 0 .. MaxTrials] /\ carry' \in [Passes -> Steps]
          /\ row' \in [Letters -> {"never", "unsent", "out", "done", "failed"}]
          /\ \A k \in Letters : row'[k] \notin {"never", "unsent"} => row[k] \notin {"never", "unsent"}
      <4>1. /\ carry' = [carry EXCEPT ![p] = IF p[2] = "replay" THEN "end" ELSE "idle"]
            /\ trials' \in [Letters -> 0 .. MaxTrials]
            /\ row' \in [Letters -> {"never", "unsent", "out", "done", "failed"}]
            /\ \A k \in Letters : WasWritten(k)' = WasWritten(k)
        BY <1>7, <2>1, ThrownDoes DEF JudgeEdge
      <4> QED
        BY <4>1 DEF AmTypeOK, WasWritten
    <3> QED
      BY <1>7, <3>1 DEF JudgeEdge, MailInv, AmTypeOK
  <2>2. CASE MayPass(p)
    <3>1. carry' \in {[carry EXCEPT ![p] = "origin"], [carry EXCEPT ![p] = "policy"]} /\ UNCHANGED <<trials, row>>
      BY <1>7, <2>2 DEF JudgeEdge
    <3>2. carry' \in [Passes -> Steps]
      BY ZenonT(60), <3>1 DEF AmTypeOK
    <3> QED
      BY <1>7, <3>1, <3>2 DEF JudgeEdge, AmTypeOK
  <2> QED
    BY <1>7, <2>1, <2>2 DEF JudgeEdge
<1>8. ASSUME NEW p \in Passes, JudgePolicy(p) PROVE AmTypeOK'
  BY <1>8 DEF AmTypeOK, JudgePolicy
<1>9. ASSUME NEW p \in Passes, Hold(p) PROVE AmTypeOK'
  <2>1. p = Drain(p[1]) /\ p[1] \in Letters /\ carry[p] = "hold"
    BY <1>9 DEF Hold, PassIsOfALetter
  <2>2. holds[p[1]] + 1 \in 0 .. 1 + MaxMailFaults
    BY <2>1, HoldHasRoom
  <2>3. holds' \in [Letters -> 0 .. 1 + MaxMailFaults]
    <3>1. holds' \in {[holds EXCEPT ![p[1]] = holds[p[1]] + 1], holds}
      BY <1>9 DEF Hold
    <3>2. holds \in [Letters -> 0 .. 1 + MaxMailFaults]
      BY DEF AmTypeOK
    <3>3. [holds EXCEPT ![p[1]] = holds[p[1]] + 1] \in [Letters -> 0 .. 1 + MaxMailFaults]
      BY <2>2, <3>2
    <3> QED
      BY <3>1, <3>2, <3>3
  <2> QED
    BY <1>9, <2>3 DEF Hold, AmTypeOK
<1>10. ASSUME NEW p \in Passes, ReadOrigin(p) PROVE AmTypeOK'
  <2>1. WasWritten(p[1]) /\ p[1] \in Letters
    BY <1>10 DEF ReadOrigin, PassIsOfALetter, WasWritten
  <2>2. \A s \in Origins(p[1]) : s \in Sessions \cup {NoSession}
    BY <2>1, OriginsFit
  <2> QED
    BY <1>10, <2>2 DEF ReadOrigin, AmTypeOK
<1>11. ASSUME NEW p \in Passes, ResolveTarget(p) PROVE AmTypeOK'
  <2>1. active' \subseteq opened' /\ opened' \subseteq Sessions /\ pick' \in [Passes -> Sessions \cup {NoSession}]
    <3>1. CASE UNCHANGED <<pick, opened, active>>
      BY <3>1 DEF AmTypeOK
    <3>2. ASSUME NEW s \in Sessions, pick' = [pick EXCEPT ![p] = s], opened' = opened \cup {s}, active' = active \cup {s}
          PROVE  active' \subseteq opened' /\ opened' \subseteq Sessions /\ pick' \in [Passes -> Sessions \cup {NoSession}]
      BY <3>2 DEF AmTypeOK
    <3>3. Latest(Shared(to[p[1]])) \subseteq Sessions /\ Unopened(to[p[1]]) \subseteq Sessions
      BY DEF Latest, Shared, Unopened, AmTypeOK
    <3> QED
      BY <1>11, <3>1, <3>2, <3>3 DEF ResolveTarget
  <2> QED
    BY <1>11, <2>1 DEF ResolveTarget, AmTypeOK
<1>12. ASSUME NEW p \in Passes, WriteCopy(p) PROVE AmTypeOK'
  <2>1. copies' \in [Sessions -> Seq(Letters)]
    BY <1>12, WriteCopyDoes
  <2> QED
    BY <1>12, <2>1 DEF WriteCopy, AmTypeOK
<1>13. ASSUME NEW l \in Sent, Edit(Edge(l)) PROVE AmTypeOK'
  <2>1. Edge(l) \in Pairs
    BY <1>13 DEF Sent, Edge, Pairs, Groups, WrittenIsSigned, AmTypeOK
  <2>2. edges' \subseteq Pairs /\ gates' \subseteq Pairs /\ edits' \in 0 .. MaxEdits
    BY <1>13, <2>1 DEF Edit, AmTypeOK
  <2>3. permitted' \cup ungated' \subseteq Passes
    BY <1>13 DEF Edit, On, Running, AmTypeOK
  <2> QED
    BY <1>13, <2>2, <2>3 DEF Edit, AmTypeOK
<1>14. ASSUME NEW s \in TaskSessions, CloseTask(s) PROVE AmTypeOK'
  BY <1>14 DEF AmTypeOK, CloseTask
<1>15. CASE MailHostDies
  BY <1>15 DEF AmTypeOK, MailHostDies
<1>16. CASE UNCHANGED mailVars
  BY <1>16 DEF AmTypeOK, mailVars
<1> QED
  BY <1>1, <1>2, <1>3, <1>4, <1>5, <1>6, <1>7, <1>8, <1>9, <1>10, <1>11, <1>12, <1>13, <1>14,
     <1>15, <1>16 DEF NextMail, Carry, Grant, PassStep, PassesAre

\* A step that writes no copy owes a letter no more than before, but for a fault.
OwedStays == \A l \in Letters : Owed(l)' + mailFaults <= Owed(l) + mailFaults'

\* A drain and a replay of a letter move apart.
LEMMA DrainMoves ==
  ASSUME AmTypeOK, NEW l \in Letters, NEW s, carry' = [carry EXCEPT ![Drain(l)] = s]
  PROVE  /\ carry'[Drain(l)] = s
         /\ \A k \in Letters : /\ carry'[Replay(k)] = carry[Replay(k)]
                           /\ k # l => carry'[Drain(k)] = carry[Drain(k)]
<1>1. \A k \in Letters : /\ Drain(k) \in Passes /\ Replay(k) \in Passes /\ Replay(k) # Drain(l)
                         /\ (Drain(k) = Drain(l)) <=> (k = l)
  BY DEF Passes, Drain, Replay
<1>2. carry \in [Passes -> Steps]
  BY DEF AmTypeOK
<1> QED
  BY <1>1, <1>2

LEMMA ReplayMoves ==
  ASSUME AmTypeOK, NEW l \in Letters, NEW s, carry' = [carry EXCEPT ![Replay(l)] = s]
  PROVE  /\ carry'[Replay(l)] = s
         /\ \A k \in Letters : /\ carry'[Drain(k)] = carry[Drain(k)]
                           /\ k # l => carry'[Replay(k)] = carry[Replay(k)]
<1>1. \A k \in Letters : /\ Drain(k) \in Passes /\ Replay(k) \in Passes /\ Replay(l) # Drain(k)
                         /\ (Replay(k) = Replay(l)) <=> (k = l)
  BY DEF Passes, Drain, Replay
<1>2. carry \in [Passes -> Steps]
  BY DEF AmTypeOK
<1> QED
  BY <1>1, <1>2

\* What one step does to what is owed, for every step but the write of a copy.
LEMMA OwedStep ==
  ASSUME MailInv, [NextMail]_mailVars, \A p \in Passes : ~WriteCopy(p)
  PROVE  OwedStays
<1> USE PassFacts, AgentMailAssumption DEF MailInv, PassesAre, Moved, Steps
<1>1. ASSUME NEW l \in Letters, WriteLetter(l) PROVE OwedStays
  <2>1. UNCHANGED <<carry, holds, mailFaults>>
    BY <1>1 DEF WriteLetter
  <2>2. row[l] = "unsent" /\ row' = [row EXCEPT ![l] = "out"]
    BY <1>1, WriteLetterDoes
  <2>3. \A k \in Letters : (Replaying(k)' <=> Replaying(k)) /\ (StillDue(k)' => StillDue(k))
    BY <2>1, <2>2 DEF Replaying, StillDue, WasWritten, AmTypeOK
  <2> QED
    BY <2>1, <2>3, OwedIsNat DEF OwedStays, Owed, One
<1>2. ASSUME NEW l \in Letters, TakeLetter(l) PROVE OwedStays
  <2>1. /\ UNCHANGED <<row, holds, mailFaults>> /\ carry[Drain(l)] = "idle"
        /\ carry' = [carry EXCEPT ![Drain(l)] = "guard"]
    BY <1>2 DEF TakeLetter, Begun
  <2>2. carry'[Drain(l)] = "guard" /\ \A k \in Letters : /\ carry'[Replay(k)] = carry[Replay(k)]
                           /\ k # l => carry'[Drain(k)] = carry[Drain(k)]
    BY ZenonT(60), <2>1, DrainMoves
  <2>3. \A k \in Letters : (Replaying(k)' <=> Replaying(k)) /\ (StillDue(k)' <=> StillDue(k))
    BY <2>1, <2>2 DEF Replaying, StillDue, WasWritten
  <2> QED
    BY <2>1, <2>3, OwedIsNat DEF OwedStays, Owed, One
<1>3. ASSUME NEW l \in Letters, MarkLetter(l) PROVE OwedStays
  <2>1. UNCHANGED <<holds, mailFaults>> /\ row' = [row EXCEPT ![l] = "done"] /\ row[l] = "out"
        /\ carry[Drain(l)] = "mark" /\ carry' = [carry EXCEPT ![Drain(l)] = "idle"]
    BY <1>3 DEF MarkLetter, PassIsOfALetter
  <2>2. /\ \A k \in Letters : Replaying(k)' <=> Replaying(k)
        /\ \A k \in Letters : k # l => carry'[Drain(k)] = carry[Drain(k)]
    BY <2>1, DrainMoves DEF Replaying
  <2>3. row'[l] = "done" /\ \A k \in Letters : k # l => row'[k] = row[k]
    BY <2>1 DEF AmTypeOK
  <2>4. ~StillDue(l)' /\ \A k \in Letters : k # l => (StillDue(k)' <=> StillDue(k))
    BY <2>2, <2>3 DEF StillDue, WasWritten
  <2> QED
    BY <2>1, <2>2, <2>4, OwedIsNat DEF OwedStays, Owed, One
<1>4. ASSUME NEW l \in Letters, MarkFails(l) PROVE OwedStays
  <2>1. Drain(l) \in Passes /\ Drain(l)[1] = l /\ carry[Drain(l)] = "mark" /\ Thrown(Drain(l)) /\ holds' = holds
        /\ mailFaults' = mailFaults + 1
    BY <1>4 DEF MarkFails
  <2>2. carry' = [carry EXCEPT ![Drain(l)] = "idle"] /\ \A k \in Letters : k # l => row'[k] = row[k]
    BY <2>1, ThrownDoes
  <2>3. \A k \in Letters : WasWritten(k)' = WasWritten(k)
    BY <2>1, ThrownDoes
  <2>4. \A k \in Letters : Replaying(k)' <=> Replaying(k)
    BY <2>2 DEF Replaying, AmTypeOK
  <2>5. \A k \in Letters : k # l => (StillDue(k)' <=> StillDue(k))
    <3>1. \A k \in Letters : k # l => carry'[Drain(k)] = carry[Drain(k)] /\ row'[k] = row[k]
      BY <2>2 DEF AmTypeOK, Drain
    <3> QED
      BY <2>3, <3>1 DEF StillDue
  <2> QED
    BY <2>1, <2>4, <2>5, OwedIsNat DEF OwedStays, Owed, One
<1>5. ASSUME NEW l \in Letters, DecideHold(l) PROVE OwedStays
  <2>1. /\ UNCHANGED <<row, mailFaults>> /\ holds[l] > 0 /\ holds' = [holds EXCEPT ![l] = @ - 1]
        /\ carry' = carry \/ (carry[Replay(l)] = "idle" /\ carry' = [carry EXCEPT ![Replay(l)] = "guard"])
    BY <1>5 DEF DecideHold, Begun
  <2>2. /\ \A k \in Letters : StillDue(k)' <=> StillDue(k)
        /\ \A k \in Letters : k # l => (Replaying(k)' <=> Replaying(k))
    <3>1. CASE carry' = carry
      BY <2>1, <3>1 DEF Replaying, StillDue, WasWritten
    <3>2. CASE carry' = [carry EXCEPT ![Replay(l)] = "guard"]
      <4>1. \A k \in Letters : /\ carry'[Drain(k)] = carry[Drain(k)]
                               /\ k # l => carry'[Replay(k)] = carry[Replay(k)]
        BY <3>2, ReplayMoves
      <4> QED
        BY <2>1, <4>1 DEF Replaying, StillDue, WasWritten
    <3> QED
      BY <2>1, <3>1, <3>2
  <2>3. holds'[l] = holds[l] - 1 /\ \A k \in Letters : k # l => holds'[k] = holds[k]
    BY <2>1 DEF AmTypeOK
  <2> QED
    BY <2>1, <2>2, <2>3, OwedIsNat DEF OwedStays, Owed, One
<1>6. ASSUME NEW l \in Letters, EndReplay(l) PROVE OwedStays
  <2>1. UNCHANGED <<row, holds, mailFaults>> /\ carry[Replay(l)] = "end" /\ carry' = [carry EXCEPT ![Replay(l)] = "idle"]
    BY <1>6 DEF EndReplay, AmTypeOK
  <2>2. \A k \in Letters : (Replaying(k)' <=> Replaying(k)) /\ (StillDue(k)' <=> StillDue(k))
    BY <2>1 DEF Replaying, StillDue, WasWritten, AmTypeOK
  <2> QED
    BY <2>1, <2>2, OwedIsNat DEF OwedStays, Owed, One
<1>7. ASSUME NEW p \in Passes, JudgeEdge(p) PROVE OwedStays
  <2>1. CASE MayPass(p)
    <3>1. UNCHANGED <<row, holds, mailFaults>> /\ carry[p] = "guard" /\ carry' \in {[carry EXCEPT ![p] = "origin"], [carry EXCEPT ![p] = "policy"]}
      BY <1>7, <2>1 DEF JudgeEdge
    <3>2. \A k \in Letters : (Replaying(k)' <=> Replaying(k)) /\ (StillDue(k)' <=> StillDue(k))
      BY <3>1 DEF Replaying, StillDue, WasWritten, AmTypeOK
    <3> QED
      BY <3>1, <3>2, OwedIsNat DEF OwedStays, Owed, One, AmTypeOK
  <2>2. CASE ~MayPass(p)
    <3>1. carry' = [carry EXCEPT ![p] = IF p[2] = "replay" THEN "end" ELSE "idle"] /\ holds' = holds /\ carry[p] = "guard" /\ mailFaults' = mailFaults
      BY <1>7, <2>2, ThrownDoes DEF JudgeEdge
    <3>2. /\ \A k \in Letters : k # p[1] => row'[k] = row[k]
          /\ row'[p[1]] \in {row[p[1]], "failed"}
          /\ \A k \in Letters : WasWritten(k)' = WasWritten(k)
          /\ p[2] = "replay" => row' = row
      BY <1>7, <2>2, ThrownDoes DEF JudgeEdge
    <3>3. \A k \in Letters : Replaying(k)' => Replaying(k)
      BY <3>1 DEF Replaying, AmTypeOK
    <3>4. \A k \in Letters : StillDue(k)' => StillDue(k)
      BY <3>1, <3>2 DEF StillDue, AmTypeOK
    <3> QED
      BY <3>1, <3>3, <3>4, OwedIsNat DEF OwedStays, Owed, One, AmTypeOK
  <2> QED
    BY <2>1, <2>2
<1>8. ASSUME NEW p \in Passes, JudgePolicy(p) PROVE OwedStays
  <2>1. UNCHANGED <<row, holds, mailFaults>> /\ carry[p] = "policy"
        /\ carry' \in {[carry EXCEPT ![p] = "origin"], [carry EXCEPT ![p] = "hold"]}
    BY <1>8 DEF JudgePolicy
  <2>2. \A k \in Letters : (Replaying(k)' <=> Replaying(k)) /\ (StillDue(k)' <=> StillDue(k))
    BY <2>1 DEF Replaying, StillDue, WasWritten, AmTypeOK
  <2> QED
    BY <2>1, <2>2, OwedIsNat DEF OwedStays, Owed, One
<1>9. ASSUME NEW p \in Passes, Hold(p) PROVE OwedStays
  <2>1. p = Drain(p[1]) /\ p[1] \in Letters /\ carry[p] = "hold" /\ row[p[1]] = "out"
    BY <1>9 DEF Hold, PassIsOfALetter
  <2>2. /\ UNCHANGED <<row, mailFaults>> /\ carry' = [carry EXCEPT ![p] = "mark"]
        /\ holds' = [holds EXCEPT ![p[1]] = @ + 1] \/ UNCHANGED holds
    BY <1>9 DEF Hold
  <2>3. /\ \A k \in Letters : Replaying(k)' <=> Replaying(k)
        /\ \A k \in Letters : k # p[1] => (StillDue(k)' <=> StillDue(k))
        /\ StillDue(p[1]) /\ ~StillDue(p[1])'
    BY <2>1, <2>2 DEF Replaying, StillDue, WasWritten, AmTypeOK
  <2>4. \A k \in Letters : holds'[k] = holds[k] \/ (k = p[1] /\ holds'[k] = holds[k] + 1)
    BY <2>1, <2>2 DEF AmTypeOK
  <2> QED
    BY <2>2, <2>3, <2>4, OwedIsNat DEF OwedStays, Owed, One
<1>10. ASSUME NEW p \in Passes, ReadOrigin(p) PROVE OwedStays
  <2>1. UNCHANGED <<row, holds, mailFaults>> /\ carry[p] = "origin" /\ carry' = [carry EXCEPT ![p] = "resolve"]
    BY <1>10 DEF ReadOrigin, AmTypeOK
  <2>2. \A k \in Letters : (Replaying(k)' <=> Replaying(k)) /\ (StillDue(k)' <=> StillDue(k))
    BY <2>1 DEF Replaying, StillDue, WasWritten, AmTypeOK
  <2> QED
    BY <2>1, <2>2, OwedIsNat DEF OwedStays, Owed, One
<1>11. ASSUME NEW p \in Passes, ResolveTarget(p) PROVE OwedStays
  <2>1. UNCHANGED <<row, holds, mailFaults>> /\ carry[p] = "resolve" /\ carry' = [carry EXCEPT ![p] = "write"]
    BY <1>11 DEF ResolveTarget, AmTypeOK
  <2>2. \A k \in Letters : (Replaying(k)' <=> Replaying(k)) /\ (StillDue(k)' <=> StillDue(k))
    BY <2>1 DEF Replaying, StillDue, WasWritten, AmTypeOK
  <2> QED
    BY <2>1, <2>2, OwedIsNat DEF OwedStays, Owed, One
<1>12. ASSUME NEW l \in Sent, Edit(Edge(l)) PROVE OwedStays
  <2>1. UNCHANGED <<row, holds, carry, mailFaults>>
    BY <1>12 DEF Edit
  <2> QED
    BY <2>1, OwedIsNat DEF OwedStays, Owed, StillDue, Replaying, WasWritten
<1>13. ASSUME NEW s \in TaskSessions, CloseTask(s) PROVE OwedStays
  <2>1. UNCHANGED <<row, holds, carry, mailFaults>>
    BY <1>13 DEF CloseTask
  <2> QED
    BY <2>1, OwedIsNat DEF OwedStays, Owed, StillDue, Replaying, WasWritten
<1>14. CASE MailHostDies
  <2>1. UNCHANGED <<row, holds>> /\ mailFaults' = mailFaults + 1 /\ carry' = [p \in Passes |-> "idle"]
    BY <1>14 DEF MailHostDies
  <2>2. \A k \in Letters : ~Replaying(k)'
    BY <2>1 DEF Replaying
  <2> QED
    BY <2>1, <2>2, OwedIsNat DEF OwedStays, Owed, One
<1>15. CASE UNCHANGED mailVars
  BY <1>15, OwedIsNat DEF AmTypeOK, mailVars, OwedStays, Owed, StillDue, Replaying, WasWritten
<1> QED
  BY <1>1, <1>2, <1>3, <1>4, <1>5, <1>6, <1>7, <1>8, <1>9, <1>10, <1>11, <1>12, <1>13, <1>14,
     <1>15 DEF NextMail, Carry, Grant, PassStep, PassesAre

\* Every step keeps the budget.
LEMMA BudgetStep == MailInv /\ [NextMail]_mailVars => CopyBudget'
<1> SUFFICES ASSUME MailInv, [NextMail]_mailVars, NEW l \in Letters
             PROVE  Cardinality(CopiesOf(l)') + Owed(l)' <= 1 + mailFaults'
  BY DEF CopyBudget
<1>1. /\ Cardinality(CopiesOf(l)) \in Nat /\ mailFaults \in Nat /\ Owed(l) \in Nat
      /\ Cardinality(CopiesOf(l)) + Owed(l) <= 1 + mailFaults
  BY CopiesAreFinite, OwedIsNat DEF MailInv, CopyBudget
<1>2. AmTypeOK'
  BY MailTypesStep
<1>3. mailFaults' \in Nat /\ Owed(l)' \in Nat
  <2>1. \A k \in Letters : holds'[k] \in Nat
    BY <1>2, AgentMailAssumption DEF AmTypeOK
  <2> QED
    BY <1>2, <2>1, AgentMailAssumption DEF AmTypeOK, Owed, One
<1>4. CASE \A p \in Passes : ~WriteCopy(p)
  <2>1. copies' = copies
    BY <1>4, PassFacts DEF NextMail, mailVars, Carry, Grant, PassStep, WriteLetter, TakeLetter,
       MarkLetter, MarkFails, DecideHold, EndReplay, JudgeEdge, JudgePolicy, Hold, ReadOrigin,
       ResolveTarget, Edit, CloseTask, MailHostDies, PassesAre
  <2>2. CopiesOf(l)' = CopiesOf(l)
    BY <2>1 DEF CopiesOf
  <2>3. Owed(l)' + mailFaults <= Owed(l) + mailFaults'
    BY <1>4, OwedStep DEF OwedStays
  <2> QED
    BY <1>1, <1>3, <2>2, <2>3
<1>5. ASSUME NEW p \in Passes, WriteCopy(p) PROVE Cardinality(CopiesOf(l)') + Owed(l)' <= 1 + mailFaults'
  <2>1. /\ UNCHANGED <<row, holds, mailFaults>> /\ carry[p] = "write"
        /\ carry' = [carry EXCEPT ![p] = IF p[2] = "drain" THEN "mark" ELSE "end"]
    BY <1>5 DEF WriteCopy, Moved
  <2>2. /\ p[1] \in Letters /\ p[2] \in {"drain", "replay"}
        /\ p[2] = "drain" => p = Drain(p[1]) /\ row[p[1]] = "out"
        /\ p[2] = "replay" => p = Replay(p[1])
    BY <2>1, PassFacts DEF PassesAre, MailInv, PassIsOfALetter
  <2> DEFINE c == <<pick[p], Len(copies[pick[p]]) + 1>>
  <2>3. CopiesOf(l)' \subseteq CopiesOf(l) \cup {c}
    BY <1>5, WriteCopyDoes DEF MailInv, CopiesOf
  <2>4. CASE p[1] = l
    <3>1. Owed(l)' = Owed(l) - 1
      <4>1. CASE p[2] = "drain"
        <5>1. (Replaying(l)' <=> Replaying(l)) /\ StillDue(l) /\ ~StillDue(l)'
          BY <2>1, <2>2, <2>4, <4>1, PassFacts DEF Replaying, StillDue, WasWritten, PassesAre, MailInv,
             AmTypeOK
        <5> QED
          BY <2>1, <5>1, OwedIsNat DEF Owed, One, MailInv
      <4>2. CASE p[2] = "replay"
        <5>1. (StillDue(l)' <=> StillDue(l)) /\ Replaying(l) /\ ~Replaying(l)'
          BY <2>1, <2>2, <2>4, <4>2, PassFacts DEF Replaying, StillDue, WasWritten, PassesAre, MailInv,
             AmTypeOK
        <5> QED
          BY <2>1, <5>1, OwedIsNat DEF Owed, One, MailInv
      <4> QED
        BY <2>2, <4>1, <4>2
    <3>2. IsFiniteSet(CopiesOf(l) \cup {c}) /\ Cardinality(CopiesOf(l) \cup {c}) <= Cardinality(CopiesOf(l)) + 1
      <4> HIDE DEF c
      <4>1. IsFiniteSet(CopiesOf(l) \cup {c})
        BY CopiesAreFinite, FS_AddElement
      <4>2. Cardinality(CopiesOf(l) \cup {c}) = IF c \in CopiesOf(l) THEN Cardinality(CopiesOf(l)) ELSE Cardinality(CopiesOf(l)) + 1
        BY CopiesAreFinite, FS_AddElement
      <4> QED
        BY <1>1, <4>1, <4>2
    <3> HIDE DEF c
    <3>3. /\ Cardinality(CopiesOf(l)') <= Cardinality(CopiesOf(l) \cup {c})
          /\ Cardinality(CopiesOf(l)') \in Nat /\ Cardinality(CopiesOf(l) \cup {c}) \in Nat
      BY <2>3, <3>2, FS_Subset, FS_CardinalityType
    <3> QED
      BY <1>1, <1>3, <2>1, <3>1, <3>2, <3>3
  <2>5. CASE p[1] # l
    <3>1. CopiesOf(l)' = CopiesOf(l)
      BY <1>5, <2>5, WriteCopyDoes DEF MailInv, CopiesOf
    <3>2. (Replaying(l)' <=> Replaying(l)) /\ (StillDue(l)' <=> StillDue(l))
      BY <2>1, <2>2, <2>5, PassFacts DEF Replaying, StillDue, WasWritten, PassesAre, MailInv, AmTypeOK
    <3>3. Owed(l)' = Owed(l)
      BY <2>1, <3>2 DEF Owed, One
    <3> QED
      BY <1>1, <2>1, <3>1, <3>3
  <2> QED
    BY <2>4, <2>5
<1> QED
  BY <1>4, <1>5

-----------------------------------------------------------------------------
(* What follows for every behaviour.                                       *)

\* Before the first letter there is nothing to keep.
LEMMA MailStarts == InitMail => MailInv
<1> SUFFICES ASSUME InitMail PROVE MailInv
  OBVIOUS
<1>1. /\ edges = Pairs /\ gates \subseteq Pairs /\ opened \subseteq Sessions /\ active = opened
      /\ row \in [Letters -> {"never", "unsent"}]
      /\ from = [l \in Letters |-> NoSession] /\ to = [l \in Letters |-> NoSession]
      /\ ref = [l \in Letters |-> NoLetter]
      /\ trials = [l \in Letters |-> 0] /\ holds = [l \in Letters |-> 0]
      /\ carry = [p \in Passes |-> "idle"] /\ pick = [p \in Passes |-> NoSession]
      /\ copies = [s \in Sessions |-> <<>>] /\ permitted = {} /\ ungated = {}
      /\ mailFaults \in 0 .. MaxMailFaults /\ edits \in 0 .. MaxEdits
  BY DEF InitMail
<1>2. \A s \in Sessions : DOMAIN copies[s] = {}
  BY <1>1
<1>3. copies \in [Sessions -> Seq(Letters)]
  BY <1>1
<1>4. AmTypeOK
  BY <1>1, <1>3, AgentMailAssumption DEF AmTypeOK, Steps
<1>5. WrittenIsSigned /\ PassIsOfALetter /\ TrialsLeft
  BY <1>1, PassFacts, AgentMailAssumption DEF WrittenIsSigned, PassIsOfALetter, TrialsLeft,
     WasWritten, PassesAre
<1>6. CopiedWasWritten /\ AnswersWhatItHas /\ CopyFits
  BY <1>1, <1>2 DEF CopiedWasWritten, AnswersWhatItHas, CopyFits
<1>7. SeesEdge /\ RevokedStaysOut /\ PolicyHolds /\ PickFits
  BY <1>1 DEF SeesEdge, RevokedStaysOut, PolicyHolds, PickFits, Running, Past
<1>8. ASSUME NEW l \in Letters PROVE Cardinality(CopiesOf(l)) + Owed(l) <= 1 + mailFaults
  <2>1. CopiesOf(l) = {}
    BY <1>2 DEF CopiesOf
  <2>2. Cardinality(CopiesOf(l)) = 0
    BY <2>1, FS_EmptySet
  <2>3. Owed(l) = 1
    BY <1>1, PassFacts DEF Owed, One, StillDue, Replaying, WasWritten, PassesAre
  <2>4. mailFaults \in Nat
    BY <1>1, AgentMailAssumption
  <2> QED
    BY <2>2, <2>3, <2>4
<1> QED
  BY <1>4, <1>5, <1>6, <1>7, <1>8 DEF MailInv, CopyBudget

\* Every step keeps the invariant.
LEMMA MailStep == MailInv /\ [NextMail]_mailVars => MailInv'
BY MailTypesStep, SignedStep, PassStepKeeps, TrialsStep, CopiedStep, AnswersStep, SeesStep,
   RevokedStep, PolicyStep, PickStep, CopyStep, BudgetStep DEF MailInv

\* The copies of a letter are of it, each in a session.
LEMMA CopiesAre ==
  ASSUME NEW l \in Letters, NEW c \in CopiesOf(l)
  PROVE  c[1] \in Sessions /\ c[2] \in DOMAIN copies[c[1]] /\ copies[c[1]][c[2]] = l
BY DEF CopiesOf

\* The budget and the fit of every copy are what the run checks of them.
LEMMA MailInvIsSafe == MailInv => MailSafety
<1> SUFFICES ASSUME MailInv PROVE MailSafety
  OBVIOUS
<1>1. RevokedStaysOut /\ PolicyHolds /\ CopyFits /\ CopyBudget /\ AmTypeOK
  BY DEF MailInv
<1>2. CopiedOnce
  <2>1. SUFFICES ASSUME NEW l \in Letters PROVE Cardinality(CopiesOf(l)) <= 1 + mailFaults
    BY DEF CopiedOnce
  <2>2. /\ Cardinality(CopiesOf(l)) \in Nat /\ Owed(l) \in Nat /\ mailFaults \in Nat
        /\ Cardinality(CopiesOf(l)) + Owed(l) <= 1 + mailFaults
    BY <1>1, CopiesAreFinite, OwedIsNat DEF CopyBudget
  <2> QED
    BY <2>2
<1>3. ASSUME NEW l \in Letters, NEW c \in CopiesOf(l) PROVE c[1] \in Sessions /\ Fits(l, c[1])
  <2>1. c[1] \in Sessions /\ c[2] \in DOMAIN copies[c[1]] /\ copies[c[1]][c[2]] = l
    BY CopiesAre
  <2> QED
    BY <1>1, <2>1 DEF CopyFits
<1>4. RightGroup
  BY <1>3 DEF RightGroup, Fits
<1>5. AnswerComesHome
  <2>1. SUFFICES ASSUME NEW l \in Letters, NEW c \in CopiesOf(l)
                 PROVE  /\ ref[l] # NoLetter /\ from[ref[l]] \in active /\ GroupOf[from[ref[l]]] = to[l]
                             => c[1] = from[ref[l]]
                        /\ c[1] \in TaskSessions => \E k \in Range(copies[from[l]]) : from[k] = c[1]
    BY DEF AnswerComesHome
  <2>2. Fits(l, c[1])
    BY <1>3
  <2>3. Wrote(from[l], c[1]) => \E k \in Range(copies[from[l]]) : from[k] = c[1]
    BY DEF Wrote, Range
  <2> QED
    BY <2>2, <2>3 DEF Fits, AskerWaits, Asker
<1> QED
  BY <1>1, <1>2, <1>4, <1>5 DEF MailSafety

\* The invariant holds of every behaviour of the letters, whatever edges and policies
\* are edited and whenever the host dies.
THEOREM MailInvariant == MailSpec => []MailInv
<1>1. InitMail => MailInv
  BY MailStarts
<1>2. MailInv /\ [NextMail]_mailVars => MailInv'
  BY MailStep
<1> QED
  BY <1>1, <1>2, PTL DEF MailSpec

\* Everything of the letters keeps its type, the counter of a letter's attempts and
\* that of its holds within their limits (delivery.ts, agent-route.ts).
THEOREM MailTypes == MailSpec => []AmTypeOK
<1>1. MailInv => AmTypeOK
  BY DEF MailInv
<1> QED
  BY <1>1, MailInvariant, PTL

\* No letter crosses a revoked edge or an ungranted policy, none is copied more often
\* than its faults explain, and each copy is in the session that asked for it or in
\* one of the right group (guard.ts, agent-route.ts).
THEOREM MailIsSafe == MailSpec => []MailSafety
<1>1. MailInv => MailSafety
  BY MailInvIsSafe
<1> QED
  BY <1>1, MailInvariant, PTL

\* A letter that may still be tried has attempts left: none is tried for ever.
THEOREM TrialsAreBounded == MailSpec => []TrialsLeft
<1>1. MailInv => TrialsLeft
  BY DEF MailInv
<1> QED
  BY <1>1, MailInvariant, PTL

-----------------------------------------------------------------------------
(* The sessions of a conversation: the inductive invariant.                *)

\* Where a routing stands: before its turn at the lock, with a session found or made,
\* with its row written.
Early == {"never", "new", "engaged", "ambient"}
AtLock == {"queued", "creating"}
Housed == {"gated", "sibling", "collect", "seed", "row", "fan", "echo", "done"}
Rowed == {"fan", "echo", "done"}

\* The queue of a thread's lock holds whoever waits there, once; the one that
\* creates is its head.
LockHolds ==
  /\ \A t \in Threads : \A i \in DOMAIN chain[t] :
       /\ routing[chain[t][i]] \in AtLock /\ ThreadOf[chain[t][i]] = t
       /\ \A j \in DOMAIN chain[t] : chain[t][i] = chain[t][j] => i = j
  /\ \A x \in Texts : routing[x] \in AtLock =>
       \E i \in DOMAIN chain[ThreadOf[x]] : chain[ThreadOf[x]][i] = x
  /\ \A x \in Texts : routing[x] = "creating" => Head(chain[ThreadOf[x]]) = x

\* Who creates found no session in its thread, and none came since.
CreatesTheFirst == \A x \in Texts : routing[x] = "creating" => SessionsOf(x) = {}

\* A session is named by a message that has come to one; a message's is of its thread.
HomesAreBorn ==
  \A x \in Texts :
    /\ x \in born => home[x] = x /\ routing[x] \notin Early \cup AtLock
    /\ home[x] # Unborn => /\ home[x] \in born /\ ThreadOf[home[x]] = ThreadOf[x]
                           /\ routing[x] \notin Early \cup AtLock
    /\ routing[x] \in Housed => home[x] # Unborn
    /\ routing[x] \in {"sibling", "collect", "seed"} => Created(x) /\ x \in wakes
    /\ x \in wakes => routing[x] \notin Early
    /\ routing[x] \in {"fan", "echo"} => x \in wakes

\* A row is in its message's session, once, and was written before the message was
\* fanned.
HasRow(s, x) == \E i \in DOMAIN ownRows[s] : ownRows[s][i] = x
RowsAreHome ==
  /\ \A s \in Texts : \A i \in DOMAIN ownRows[s] :
       /\ home[ownRows[s][i]] = s /\ routing[ownRows[s][i]] \in Rowed \cup {"lost"}
       /\ \A j \in DOMAIN ownRows[s] : ownRows[s][i] = ownRows[s][j] => i = j
  /\ \A x \in Texts : routing[x] \in Rowed => HasRow(home[x], x)

\* A copy is never in the session of its own message, nor on its way there; who is not
\* at its list has none.
CopiesAreAbroad ==
  /\ \A t \in Texts : \A x \in (context[t] \cup gathered[t]) \cap Texts : home[x] # t /\ home[x] # Unborn
  /\ \A x \in Texts : home[x] \notin listed[x]
  /\ \A p \in Posts : poster[p] \notin listed[p]
  /\ \A x \in Texts : routing[x] \in {"collect", "echo"} \/ listed[x] = {}
  /\ \A p \in Posts : posted[p] = "echo" \/ listed[p] = {}

\* A post that was written has a session it was written in.
PostsAreBorn ==
  \A p \in Posts :
    IF posted[p] \in {"never", "unsaid"} THEN poster[p] = Unborn ELSE poster[p] \in born

\* Session t has not yet read its siblings, or never will.
Unread(t) == t \notin wakes \/ routing[t] \in {"gated", "sibling", "dropped", "lost"}

\* The way of a copy from session s to t: pulled by the backfill of t ...
Pulled(t, s, r) ==
  \/ routing[t] = "collect" /\ s \in listed[t]
  \/ routing[t] = "seed" /\ r \in gathered[t]

\* ... or pushed by the fan of the message or the post.
TextOnItsWay(x, t) == routing[x] \in {"fan", "lost"} \/ (routing[x] = "echo" /\ t \in listed[x])
PostOnItsWay(p, t) ==
  posted[p] \in {"written", "failed", "sent"} \/ (posted[p] = "echo" /\ t \in listed[p])

\* What a session does not have yet comes to it.
TextComes(t, s, x) == x \in context[t] \/ Unread(t) \/ Pulled(t, s, x) \/ TextOnItsWay(x, t)
PostComes(t, p) == p \in context[t] \/ Unread(t) \/ Pulled(t, poster[p], p) \/ PostOnItsWay(p, t)
OpenersCome == \A t \in born : \A s \in born \ {t} : \A x \in Opener(s) : TextComes(t, s, x)
PostsCome == \A t \in born : \A p \in Posts : poster[p] \in born \ {t} => PostComes(t, p)

ThreadInv == LockHolds /\ CreatesTheFirst /\ HomesAreBorn /\ OneSessionPerThread
CopyInv == RowsAreHome /\ CopiesAreAbroad /\ PostsAreBorn /\ OpenersCome /\ PostsCome
CvInv == CvTypeOK /\ ThreadInv /\ CopyInv

-----------------------------------------------------------------------------
\* Who holds the lock is the head of its queue; letting it go leaves the tail.
LEMMA UnlockedIs ==
  ASSUME CvTypeOK, LockHolds, NEW x \in Texts, MayResolve(x) \/ routing[x] = "creating",
         routing[x] \in AtLock, chain' = Unlocked(x)
  PROVE  /\ chain' \in [Threads -> Seq(Texts)] /\ ThreadOf[x] \in Threads
         /\ chain[ThreadOf[x]] # <<>> /\ chain[ThreadOf[x]][1] = x
         /\ \A t \in Threads : t # ThreadOf[x] => chain'[t] = chain[t]
         /\ \A i \in DOMAIN chain'[ThreadOf[x]] :
              i + 1 \in DOMAIN chain[ThreadOf[x]] /\ chain'[ThreadOf[x]][i] = chain[ThreadOf[x]][i + 1]
         /\ \A i \in DOMAIN chain[ThreadOf[x]] : chain[ThreadOf[x]][i] # x =>
              i - 1 \in DOMAIN chain'[ThreadOf[x]] /\ chain'[ThreadOf[x]][i - 1] = chain[ThreadOf[x]][i]
<1> DEFINE q == chain[ThreadOf[x]]
<1>1. ThreadOf[x] \in Threads /\ q \in Seq(Texts)
  BY DEF Threads, CvTypeOK
<1>2. q # <<>> /\ Head(q) = x
  BY DEF LockHolds, MayResolve, AtLock
<1>3. chain' = [chain EXCEPT ![ThreadOf[x]] = Tail(q)]
  BY DEF Unlocked
<1>4. chain'[ThreadOf[x]] = Tail(q) /\ \A t \in Threads : t # ThreadOf[x] => chain'[t] = chain[t]
  BY <1>1, <1>3 DEF CvTypeOK
<1>5. chain' \in [Threads -> Seq(Texts)]
  BY <1>1, <1>2, <1>3 DEF CvTypeOK
<1> HIDE DEF q
<1>6. /\ q[1] = x
      /\ \A i \in DOMAIN Tail(q) : i + 1 \in DOMAIN q /\ Tail(q)[i] = q[i + 1]
      /\ \A i \in DOMAIN q : q[i] # x => i - 1 \in DOMAIN Tail(q) /\ Tail(q)[i - 1] = q[i]
  BY <1>1, <1>2
<1> QED
  BY <1>1, <1>2, <1>4, <1>5, <1>6 DEF q

\* Every step keeps the types.
LEMMA CvTypeStep == CvInv /\ [NextConversations]_conversationVars => CvTypeOK'
<1> SUFFICES ASSUME CvInv, [NextConversations]_conversationVars PROVE CvTypeOK'
  OBVIOUS
<1> USE ConversationAssumption DEF CvInv, ThreadInv, CopyInv, Moves, Threads, Stages, Early,
   AtLock, Housed, Rowed
<1>1. ASSUME NEW x \in Texts, EvaluateEngage(x) PROVE CvTypeOK'
  BY ZenonT(60), <1>1 DEF CvTypeOK, EvaluateEngage
<1>2. ASSUME NEW x \in Texts, JoinCreation(x) PROVE CvTypeOK'
  BY <1>2 DEF CvTypeOK, JoinCreation
<1>3. ASSUME NEW x \in Texts, FindSession(x) PROVE CvTypeOK'
  <2>1. CASE SessionsOf(x) = {}
    BY ZenonT(60), <1>3, <2>1 DEF FindSession, CvTypeOK
  <2>2. CASE SessionsOf(x) # {}
    <3>1. chain' = Unlocked(x) /\ MayResolve(x) /\ routing[x] = "queued" /\ routing' = [routing EXCEPT ![x] = "gated"]
          /\ \E s \in SessionsOf(x) : home' = [home EXCEPT ![x] = s]
      BY <1>3, <2>2 DEF FindSession
    <3>2. chain' \in [Threads -> Seq(Texts)]
      BY <3>1, UnlockedIs DEF Threads
    <3>3. home' \in [Texts -> Texts \cup {Unborn}] /\ routing' \in [Texts -> Stages]
      BY <3>1 DEF SessionsOf, CvTypeOK
    <3> QED
      BY <1>3, <3>2, <3>3 DEF FindSession, CvTypeOK
  <2> QED
    BY <2>1, <2>2
<1>4. ASSUME NEW x \in Texts, CreateSession(x) PROVE CvTypeOK'
  <2>1. chain' \in [Threads -> Seq(Texts)]
    BY <1>4, UnlockedIs DEF CreateSession
  <2>2. listed' \in [Texts \cup Posts -> SUBSET born'] /\ born' \subseteq Texts
    BY <1>4 DEF CreateSession, CvTypeOK
  <2> QED
    BY <1>4, <2>1, <2>2 DEF CreateSession, CvTypeOK
<1>5. ASSUME NEW x \in Texts, PassGate(x) PROVE CvTypeOK'
  BY <1>5 DEF CvTypeOK, PassGate
<1>6. ASSUME NEW x \in Texts, ListSiblings(x) PROVE CvTypeOK'
  <2>1. listed' \in [Texts \cup Posts -> SUBSET born']
    BY <1>6 DEF ListSiblings, CvTypeOK, EchoTargets
  <2> QED
    BY <1>6, <2>1 DEF ListSiblings, CvTypeOK
<1>7. ASSUME NEW x \in Texts, CollectTopLevel(x) PROVE CvTypeOK'
  <2>1. UNION {Opener(s) \cup PostsOf(s) : s \in listed[x]} \subseteq Texts \cup Posts
    <3>1. ASSUME NEW s \in listed[x] PROVE Opener(s) \subseteq Texts /\ PostsOf(s) \subseteq Posts
      BY DEF CvTypeOK, Opener, Triggers, PostsOf
    <3> QED
      BY <3>1
  <2>2. gathered' \in [Texts -> SUBSET (Texts \cup Posts)]
    BY <1>7, <2>1 DEF CollectTopLevel, CvTypeOK
  <2>3. listed' \in [Texts \cup Posts -> SUBSET born]
    BY <1>7 DEF CollectTopLevel, CvTypeOK
  <2> QED
    BY <1>7, <2>2, <2>3 DEF CollectTopLevel, CvTypeOK
<1>8. ASSUME NEW x \in Texts, SeedSession(x) PROVE CvTypeOK'
  <2>1. CASE UNCHANGED <<context, gathered>> /\ Moves(x, "row")
    BY <1>8, <2>1 DEF SeedSession, CvTypeOK
  <2>2. ASSUME NEW r \in gathered[x], context' = [context EXCEPT ![x] = @ \cup {r}],
               gathered' = [gathered EXCEPT ![x] = @ \ {r}], routing' = routing
        PROVE  CvTypeOK'
    <3>1. r \in Texts \cup Posts
      BY DEF CvTypeOK
    <3>2. context' \in [Texts -> SUBSET (Texts \cup Posts)]
      BY <2>2, <3>1 DEF CvTypeOK
    <3>3. gathered' \in [Texts -> SUBSET (Texts \cup Posts)]
      BY <2>2 DEF CvTypeOK
    <3> QED
      BY <1>8, <2>2, <3>2, <3>3 DEF SeedSession, CvTypeOK
  <2> QED
    BY <1>8, <2>1, <2>2 DEF SeedSession
<1>9. ASSUME NEW x \in Texts, WriteOwnRow(x) PROVE CvTypeOK'
  <2>1. home[x] \in Texts
    BY <1>9 DEF WriteOwnRow, HomesAreBorn, CvTypeOK
  <2>2. ownRows' \in [Texts -> Seq(Texts)]
    BY <1>9, <2>1 DEF WriteOwnRow, CvTypeOK
  <2> QED
    BY <1>9, <2>2 DEF WriteOwnRow, CvTypeOK
<1>10. ASSUME NEW x \in Texts, ListTargets(x) PROVE CvTypeOK'
  <2>1. listed' \in [Texts \cup Posts -> SUBSET born']
    BY <1>10 DEF ListTargets, CvTypeOK, EchoTargets
  <2> QED
    BY <1>10, <2>1 DEF ListTargets, CvTypeOK
<1>11. ASSUME NEW x \in Texts, EchoText(x) PROVE CvTypeOK'
  <2>1. listed' \in [Texts \cup Posts -> SUBSET born] /\ context' \in [Texts -> SUBSET (Texts \cup Posts)]
    <3>1. CASE UNCHANGED <<context, listed>>
      BY <3>1 DEF CvTypeOK
    <3>2. ASSUME NEW s \in listed[x], context' = [context EXCEPT ![s] = @ \cup {x}],
                 listed' = [listed EXCEPT ![x] = @ \ {s}]
          PROVE  listed' \in [Texts \cup Posts -> SUBSET born] /\ context' \in [Texts -> SUBSET (Texts \cup Posts)]
      <4>1. s \in Texts /\ x \in Texts \cup Posts
        BY DEF CvTypeOK
      <4>2. context' \in [Texts -> SUBSET (Texts \cup Posts)]
        BY <3>2, <4>1 DEF CvTypeOK
      <4>3. listed' \in [Texts \cup Posts -> SUBSET born]
        BY <3>2, <4>1 DEF CvTypeOK
      <4> QED
        BY <4>2, <4>3
    <3> QED
      BY <1>11, <3>1, <3>2 DEF EchoText
  <2> QED
    BY <1>11, <2>1 DEF EchoText, CvTypeOK
<1>12. ASSUME NEW x \in Texts, CreationFails(x) PROVE CvTypeOK'
  <2>1. chain' \in [Threads -> Seq(Texts)]
    BY <1>12, UnlockedIs DEF CreationFails
  <2>2. routing' \in [Texts -> Stages] /\ cvFaults' \in 0 .. MaxCvFaults
    BY <1>12 DEF CreationFails, CvTypeOK
  <2> QED
    BY <1>12, <2>1, <2>2 DEF CreationFails, CvTypeOK
<1>13. ASSUME NEW p \in Posts, PostTop(p) PROVE CvTypeOK'
  BY <1>13 DEF CvTypeOK, PostTop
<1>14. ASSUME NEW p \in Posts, DeliverPost(p) PROVE CvTypeOK'
  BY <1>14 DEF CvTypeOK, DeliverPost
<1>15. ASSUME NEW p \in Posts, ListPostTargets(p) PROVE CvTypeOK'
  <2>1. listed' \in [Texts \cup Posts -> SUBSET born']
    BY <1>15 DEF ListPostTargets, CvTypeOK, EchoTargets
  <2> QED
    BY <1>15, <2>1 DEF ListPostTargets, CvTypeOK
<1>16. ASSUME NEW p \in Posts, EchoPost(p) PROVE CvTypeOK'
  <2>1. listed' \in [Texts \cup Posts -> SUBSET born] /\ context' \in [Texts -> SUBSET (Texts \cup Posts)]
    <3>1. CASE UNCHANGED <<context, listed>>
      BY <3>1 DEF CvTypeOK
    <3>2. ASSUME NEW s \in listed[p], context' = [context EXCEPT ![s] = @ \cup {p}],
                 listed' = [listed EXCEPT ![p] = @ \ {s}]
          PROVE  listed' \in [Texts \cup Posts -> SUBSET born] /\ context' \in [Texts -> SUBSET (Texts \cup Posts)]
      <4>1. s \in Texts /\ p \in Texts \cup Posts
        BY DEF CvTypeOK
      <4>2. context' \in [Texts -> SUBSET (Texts \cup Posts)]
        BY <3>2, <4>1 DEF CvTypeOK
      <4>3. listed' \in [Texts \cup Posts -> SUBSET born]
        BY <3>2, <4>1 DEF CvTypeOK
      <4> QED
        BY <4>2, <4>3
    <3> QED
      BY <1>16, <3>1, <3>2 DEF EchoPost
  <2>2. posted' \in [Posts -> {"never", "unsaid", "written", "failed", "sent", "echo", "over"}]
    BY <1>16 DEF EchoPost, CvTypeOK
  <2> QED
    BY <1>16, <2>1, <2>2 DEF EchoPost, CvTypeOK
<1>17. CASE ConversationHostDies
  BY <1>17 DEF CvTypeOK, ConversationHostDies
<1>18. CASE UNCHANGED conversationVars
  BY <1>18 DEF CvTypeOK, conversationVars
<1> QED
  BY <1>1, <1>2, <1>3, <1>4, <1>5, <1>6, <1>7, <1>8, <1>9, <1>10, <1>11, <1>12, <1>13, <1>14,
     <1>15, <1>16, <1>17, <1>18 DEF NextConversations, Route, Voice

\* Every step leaves a message with a session of its thread.
LEMMA HomesStep == CvInv /\ [NextConversations]_conversationVars => HomesAreBorn'
<1> SUFFICES ASSUME CvInv, [NextConversations]_conversationVars PROVE HomesAreBorn'
  OBVIOUS
<1> USE ConversationAssumption DEF CvInv, ThreadInv, CopyInv, Moves, Threads, Stages, Early,
   AtLock, Housed, Rowed, CvTypeOK, HomesAreBorn, SessionsOf, Created
<1>1. ASSUME NEW x \in Texts, EvaluateEngage(x) PROVE HomesAreBorn'
  BY <1>1 DEF EvaluateEngage
<1>2. ASSUME NEW x \in Texts, JoinCreation(x) PROVE HomesAreBorn'
  BY <1>2 DEF JoinCreation
<1>3. ASSUME NEW x \in Texts, FindSession(x) PROVE HomesAreBorn'
  BY <1>3 DEF FindSession
<1>4. ASSUME NEW x \in Texts, CreateSession(x) PROVE HomesAreBorn'
  BY <1>4 DEF CreateSession
<1>5. ASSUME NEW x \in Texts, PassGate(x) PROVE HomesAreBorn'
  BY <1>5 DEF PassGate
<1>6. ASSUME NEW x \in Texts, ListSiblings(x) PROVE HomesAreBorn'
  BY <1>6 DEF ListSiblings
<1>7. ASSUME NEW x \in Texts, CollectTopLevel(x) PROVE HomesAreBorn'
  BY <1>7 DEF CollectTopLevel
<1>8. ASSUME NEW x \in Texts, SeedSession(x) PROVE HomesAreBorn'
  BY <1>8 DEF SeedSession
<1>9. ASSUME NEW x \in Texts, WriteOwnRow(x) PROVE HomesAreBorn'
  BY <1>9 DEF WriteOwnRow
<1>10. ASSUME NEW x \in Texts, ListTargets(x) PROVE HomesAreBorn'
  BY <1>10 DEF ListTargets
<1>11. ASSUME NEW x \in Texts, EchoText(x) PROVE HomesAreBorn'
  BY <1>11 DEF EchoText
<1>12. ASSUME NEW x \in Texts, CreationFails(x) PROVE HomesAreBorn'
  BY <1>12 DEF CreationFails
<1>13. ASSUME NEW p \in Posts, PostTop(p) PROVE HomesAreBorn'
  BY <1>13 DEF PostTop
<1>14. ASSUME NEW p \in Posts, DeliverPost(p) PROVE HomesAreBorn'
  BY <1>14 DEF DeliverPost
<1>15. ASSUME NEW p \in Posts, ListPostTargets(p) PROVE HomesAreBorn'
  BY <1>15 DEF ListPostTargets
<1>16. ASSUME NEW p \in Posts, EchoPost(p) PROVE HomesAreBorn'
  BY <1>16 DEF EchoPost
<1>17. CASE ConversationHostDies
  BY <1>17 DEF ConversationHostDies
<1>18. CASE UNCHANGED conversationVars
  BY <1>18 DEF conversationVars
<1> QED
  BY <1>1, <1>2, <1>3, <1>4, <1>5, <1>6, <1>7, <1>8, <1>9, <1>10, <1>11, <1>12, <1>13, <1>14,
     <1>15, <1>16, <1>17, <1>18 DEF NextConversations, Route, Voice

\* How the queues of the lock change: they stay, one message joins at the end, the head
\* leaves, or the host dies.
Joins(x) ==
  /\ routing[x] \in Early /\ routing' = [routing EXCEPT ![x] = "queued"]
  /\ chain' = [chain EXCEPT ![ThreadOf[x]] = Append(@, x)]
Leaves(x) ==
  /\ routing[x] \in AtLock /\ (MayResolve(x) \/ routing[x] = "creating")
  /\ chain' = Unlocked(x) /\ routing'[x] \notin AtLock
  /\ \A y \in Texts : y # x => routing'[y] = routing[y]
Turns(x) ==
  /\ routing[x] = "queued" /\ MayResolve(x) /\ SessionsOf(x) = {}
  /\ routing' = [routing EXCEPT ![x] = "creating"] /\ UNCHANGED chain
LockStays == UNCHANGED chain /\ \A x \in Texts : routing'[x] # routing[x] => {routing[x], routing'[x]} \cap AtLock = {}
Clears == chain' = [t \in Threads |-> <<>>] /\ \A x \in Texts : routing'[x] \notin AtLock
LockMoves == LockStays \/ Clears \/ \E x \in Texts : Joins(x) \/ Leaves(x) \/ Turns(x)

\* They change in these ways only.
LEMMA LockMovesSo == CvInv /\ [NextConversations]_conversationVars => LockMoves
<1> SUFFICES ASSUME CvInv, [NextConversations]_conversationVars PROVE LockMoves
  OBVIOUS
<1> USE ConversationAssumption DEF CvInv, ThreadInv, CopyInv, Moves, Threads, Stages, Early,
   AtLock, Housed, Rowed
<1>1. ASSUME NEW x \in Texts, EvaluateEngage(x) PROVE LockMoves
  BY <1>1 DEF CvTypeOK, LockMoves, LockStays, Clears, Joins, Leaves, Turns, EvaluateEngage
<1>2. ASSUME NEW x \in Texts, JoinCreation(x) PROVE LockMoves
  <2>1. Joins(x)
    BY <1>2 DEF JoinCreation, Joins, CvTypeOK
  <2> QED
    BY <2>1 DEF LockMoves
<1>3. ASSUME NEW x \in Texts, FindSession(x) PROVE LockMoves
  <2>1. CASE SessionsOf(x) = {}
    BY <1>3, <2>1 DEF FindSession, LockMoves, Turns, CvTypeOK
  <2>2. CASE SessionsOf(x) # {}
    <3>1. Leaves(x)
      BY <1>3, <2>2 DEF FindSession, Leaves, CvTypeOK
    <3> QED
      BY <3>1 DEF LockMoves
  <2> QED
    BY <2>1, <2>2
<1>4. ASSUME NEW x \in Texts, CreateSession(x) PROVE LockMoves
  <2>1. Leaves(x)
    BY <1>4 DEF CreateSession, Leaves, CvTypeOK
  <2> QED
    BY <2>1 DEF LockMoves
<1>5. ASSUME NEW x \in Texts, PassGate(x) PROVE LockMoves
  BY <1>5 DEF CvTypeOK, LockMoves, LockStays, Clears, Joins, Leaves, Turns, PassGate
<1>6. ASSUME NEW x \in Texts, ListSiblings(x) PROVE LockMoves
  BY <1>6 DEF CvTypeOK, LockMoves, LockStays, Clears, Joins, Leaves, Turns, ListSiblings
<1>7. ASSUME NEW x \in Texts, CollectTopLevel(x) PROVE LockMoves
  BY <1>7 DEF CvTypeOK, LockMoves, LockStays, Clears, Joins, Leaves, Turns, CollectTopLevel
<1>8. ASSUME NEW x \in Texts, SeedSession(x) PROVE LockMoves
  BY <1>8 DEF CvTypeOK, LockMoves, LockStays, Clears, Joins, Leaves, Turns, SeedSession
<1>9. ASSUME NEW x \in Texts, WriteOwnRow(x) PROVE LockMoves
  BY <1>9 DEF CvTypeOK, LockMoves, LockStays, Clears, Joins, Leaves, Turns, WriteOwnRow
<1>10. ASSUME NEW x \in Texts, ListTargets(x) PROVE LockMoves
  BY <1>10 DEF CvTypeOK, LockMoves, LockStays, Clears, Joins, Leaves, Turns, ListTargets
<1>11. ASSUME NEW x \in Texts, EchoText(x) PROVE LockMoves
  BY <1>11 DEF CvTypeOK, LockMoves, LockStays, Clears, Joins, Leaves, Turns, EchoText
<1>12. ASSUME NEW x \in Texts, CreationFails(x) PROVE LockMoves
  <2>1. Leaves(x)
    BY <1>12 DEF CreationFails, Leaves, CvTypeOK
  <2> QED
    BY <2>1 DEF LockMoves
<1>13. ASSUME NEW p \in Posts, PostTop(p) PROVE LockMoves
  BY <1>13 DEF CvTypeOK, LockMoves, LockStays, Clears, Joins, Leaves, Turns, PostTop
<1>14. ASSUME NEW p \in Posts, DeliverPost(p) PROVE LockMoves
  BY <1>14 DEF CvTypeOK, LockMoves, LockStays, Clears, Joins, Leaves, Turns, DeliverPost
<1>15. ASSUME NEW p \in Posts, ListPostTargets(p) PROVE LockMoves
  BY <1>15 DEF CvTypeOK, LockMoves, LockStays, Clears, Joins, Leaves, Turns, ListPostTargets
<1>16. ASSUME NEW p \in Posts, EchoPost(p) PROVE LockMoves
  BY <1>16 DEF CvTypeOK, LockMoves, LockStays, Clears, Joins, Leaves, Turns, EchoPost
<1>17. CASE ConversationHostDies
  <2>1. Clears
    BY <1>17 DEF ConversationHostDies, Clears, CvTypeOK
  <2> QED
    BY <2>1 DEF LockMoves
<1>18. CASE UNCHANGED conversationVars
  BY <1>18 DEF CvTypeOK, LockMoves, LockStays, Clears, Joins, Leaves, Turns, conversationVars
<1> QED
  BY <1>1, <1>2, <1>3, <1>4, <1>5, <1>6, <1>7, <1>8, <1>9, <1>10, <1>11, <1>12, <1>13, <1>14,
     <1>15, <1>16, <1>17, <1>18 DEF NextConversations, Route, Voice

\* Every step leaves in the queues who waits there.
LEMMA LockStep == CvInv /\ [NextConversations]_conversationVars => LockHolds'
<1> SUFFICES ASSUME CvInv, [NextConversations]_conversationVars PROVE LockHolds'
  OBVIOUS
<1> USE DEF CvInv, ThreadInv, Early, AtLock
<1>1. chain \in [Threads -> Seq(Texts)] /\ routing \in [Texts -> Stages] /\ \A x \in Texts : ThreadOf[x] \in Threads
  BY DEF CvTypeOK, Threads
<1>2. CASE LockStays
  <2>1. \A t \in Threads : \A i \in DOMAIN chain[t] : chain[t][i] \in Texts
    BY <1>1
  <2>2. \A x \in Texts : (routing'[x] \in AtLock <=> routing[x] \in AtLock)
    BY <1>2 DEF LockStays
  <2>6. \A x \in Texts : routing'[x] = "creating" => routing[x] = "creating"
    BY <1>2 DEF LockStays
  <2>3. chain' = chain
    BY <1>2 DEF LockStays
  <2>4. ASSUME NEW t \in Threads, NEW i \in DOMAIN chain[t]
        PROVE  /\ routing'[chain[t][i]] \in AtLock /\ ThreadOf[chain[t][i]] = t
               /\ \A j \in DOMAIN chain[t] : chain[t][i] = chain[t][j] => i = j
    <3>1. chain[t][i] \in Texts /\ routing[chain[t][i]] \in AtLock
      BY <2>1, <2>4 DEF LockHolds
    <3>2. routing'[chain[t][i]] \in AtLock
      BY <2>2, <3>1
    <3>3. ThreadOf[chain[t][i]] = t /\ \A j \in DOMAIN chain[t] : chain[t][i] = chain[t][j] => i = j
      BY <2>4 DEF LockHolds
    <3> QED
      BY <3>2, <3>3
  <2>5. ASSUME NEW x \in Texts
        PROVE  /\ routing'[x] \in AtLock => \E i \in DOMAIN chain[ThreadOf[x]] : chain[ThreadOf[x]][i] = x
               /\ routing'[x] = "creating" => Head(chain[ThreadOf[x]]) = x
    <3>1. routing'[x] \in AtLock => \E i \in DOMAIN chain[ThreadOf[x]] : chain[ThreadOf[x]][i] = x
      <4>1. (routing'[x] \in AtLock) => (routing[x] \in AtLock)
        BY <2>2
      <4> QED
        BY <4>1 DEF LockHolds
    <3>2. routing'[x] = "creating" => Head(chain[ThreadOf[x]]) = x
      BY <2>6 DEF LockHolds
    <3> QED
      BY <3>1, <3>2
  <2> QED
    BY <2>3, <2>4, <2>5 DEF LockHolds
<1>3. CASE Clears
  <2>1. \A t \in Threads : DOMAIN chain'[t] = {}
    BY <1>3 DEF Clears
  <2> QED
    BY <1>3, <2>1 DEF Clears, LockHolds
<1>4. ASSUME NEW x \in Texts, Joins(x) PROVE LockHolds'
  <2> DEFINE t == ThreadOf[x]
  <2>1. /\ t \in Threads /\ chain' = [chain EXCEPT ![t] = Append(chain[t], x)] /\ routing[x] \in Early
        /\ routing'[x] = "queued" /\ \A y \in Texts : y # x => routing'[y] = routing[y]
    BY <1>1, <1>4 DEF Joins
  <2>2. \A u \in Threads : u # t => chain'[u] = chain[u]
    BY <1>1, <2>1
  <2>3. /\ \A i \in DOMAIN chain[t] : i \in DOMAIN chain'[t] /\ chain'[t][i] = chain[t][i]
        /\ \A i \in DOMAIN chain'[t] : i \in DOMAIN chain[t] \/ (i = Len(chain[t]) + 1 /\ chain'[t][i] = x)
        /\ Len(chain[t]) + 1 \in DOMAIN chain'[t] /\ chain'[t][Len(chain[t]) + 1] = x
    BY <1>1, <2>1
  <2>4. \A u \in Threads : \A i \in DOMAIN chain[u] : chain[u][i] \in Texts /\ chain[u][i] # x
    BY <1>1, <2>1 DEF LockHolds
  <2>5. \A u \in Threads : \A i \in DOMAIN chain'[u] :
          /\ routing'[chain'[u][i]] \in AtLock /\ ThreadOf[chain'[u][i]] = u
          /\ \A j \in DOMAIN chain'[u] : chain'[u][i] = chain'[u][j] => i = j
    <3>1. ASSUME NEW u \in Threads, u # t, NEW i \in DOMAIN chain'[u]
          PROVE  /\ routing'[chain'[u][i]] \in AtLock /\ ThreadOf[chain'[u][i]] = u
                 /\ \A j \in DOMAIN chain'[u] : chain'[u][i] = chain'[u][j] => i = j
      BY <2>1, <2>2, <2>4, <3>1 DEF LockHolds
    <3>2. ASSUME NEW i \in DOMAIN chain'[t]
          PROVE  /\ routing'[chain'[t][i]] \in AtLock /\ ThreadOf[chain'[t][i]] = t
                 /\ \A j \in DOMAIN chain'[t] : chain'[t][i] = chain'[t][j] => i = j
      BY <1>1, <2>1, <2>3, <2>4, <3>2 DEF LockHolds
    <3> QED
      BY <3>1, <3>2
  <2>6. \A y \in Texts : routing'[y] \in AtLock =>
          \E i \in DOMAIN chain'[ThreadOf[y]] : chain'[ThreadOf[y]][i] = y
    <3>1. SUFFICES ASSUME NEW y \in Texts, routing'[y] \in AtLock
                   PROVE  \E i \in DOMAIN chain'[ThreadOf[y]] : chain'[ThreadOf[y]][i] = y
      OBVIOUS
    <3>2. CASE y = x
      BY <2>3, <3>2
    <3>3. CASE y # x
      <4>1. PICK i \in DOMAIN chain[ThreadOf[y]] : chain[ThreadOf[y]][i] = y
        BY <2>1, <3>1, <3>3 DEF LockHolds
      <4>2. CASE ThreadOf[y] = t
        BY <2>3, <4>1, <4>2
      <4>3. CASE ThreadOf[y] # t
        BY <1>1, <2>2, <4>1, <4>3
      <4> QED
        BY <4>2, <4>3
    <3> QED
      BY <3>2, <3>3
  <2>7. \A y \in Texts : routing'[y] = "creating" => Head(chain'[ThreadOf[y]]) = y
    <3>1. SUFFICES ASSUME NEW y \in Texts, routing'[y] = "creating" PROVE Head(chain'[ThreadOf[y]]) = y
      OBVIOUS
    <3>2. y # x /\ routing[y] = "creating" /\ Head(chain[ThreadOf[y]]) = y
      BY <2>1, <3>1 DEF LockHolds
    <3>3. \E i \in DOMAIN chain[ThreadOf[y]] : chain[ThreadOf[y]][i] = y
      BY <3>2 DEF LockHolds
    <3>4. CASE ThreadOf[y] = t
      BY <1>1, <2>1, <3>2, <3>3, <3>4
    <3>5. CASE ThreadOf[y] # t
      BY <1>1, <2>2, <3>2, <3>5
    <3> QED
      BY <3>4, <3>5
  <2> QED
    BY <2>5, <2>6, <2>7 DEF LockHolds
<1>5. ASSUME NEW x \in Texts, Leaves(x) PROVE LockHolds'
  <2> DEFINE t == ThreadOf[x]
  <2>1. /\ chain' \in [Threads -> Seq(Texts)] /\ t \in Threads
        /\ chain[t] # <<>> /\ chain[t][1] = x
        /\ \A u \in Threads : u # t => chain'[u] = chain[u]
        /\ \A i \in DOMAIN chain'[t] : i + 1 \in DOMAIN chain[t] /\ chain'[t][i] = chain[t][i + 1]
        /\ \A i \in DOMAIN chain[t] : chain[t][i] # x =>
             i - 1 \in DOMAIN chain'[t] /\ chain'[t][i - 1] = chain[t][i]
    BY <1>5, UnlockedIs DEF Leaves
  <2>2. 1 \in DOMAIN chain[t] /\ Head(chain[t]) = x
    BY <1>1, <2>1
  <2>3. routing'[x] \notin AtLock /\ routing[x] \in AtLock /\ \A y \in Texts : y # x => routing'[y] = routing[y]
    BY <1>5 DEF Leaves
  <2>4. \A u \in Threads : \A i \in DOMAIN chain[u] : chain[u][i] \in Texts
    BY <1>1
  <2>5. \A u \in Threads : \A i \in DOMAIN chain'[u] :
          /\ routing'[chain'[u][i]] \in AtLock /\ ThreadOf[chain'[u][i]] = u
          /\ \A j \in DOMAIN chain'[u] : chain'[u][i] = chain'[u][j] => i = j
    <3>1. ASSUME NEW u \in Threads, u # t, NEW i \in DOMAIN chain'[u]
          PROVE  /\ routing'[chain'[u][i]] \in AtLock /\ ThreadOf[chain'[u][i]] = u
                 /\ \A j \in DOMAIN chain'[u] : chain'[u][i] = chain'[u][j] => i = j
      <4>1. chain[u][i] # x
        BY <2>1, <3>1 DEF LockHolds
      <4> QED
        BY <2>1, <2>3, <2>4, <3>1, <4>1 DEF LockHolds
    <3>2. ASSUME NEW i \in DOMAIN chain'[t]
          PROVE  /\ routing'[chain'[t][i]] \in AtLock /\ ThreadOf[chain'[t][i]] = t
                 /\ \A j \in DOMAIN chain'[t] : chain'[t][i] = chain'[t][j] => i = j
      <4>1. i \in Nat /\ i >= 1 /\ DOMAIN chain'[t] \subseteq Nat
        BY <2>1, <3>2
      <4>2. i + 1 \in DOMAIN chain[t] /\ chain'[t][i] = chain[t][i + 1] /\ i + 1 # 1
        BY <2>1, <3>2, <4>1
      <4>3. chain[t][i + 1] # x
        BY <2>1, <2>2, <4>2 DEF LockHolds
      <4>4. \A j \in DOMAIN chain'[t] : chain'[t][i] = chain'[t][j] => i + 1 = j + 1
        BY <2>1, <4>2 DEF LockHolds
      <4> DEFINE e == chain[t][i + 1]
      <4>5. e \in Texts /\ e # x /\ routing[e] \in AtLock /\ ThreadOf[e] = t
        BY <2>1, <2>4, <4>2, <4>3 DEF LockHolds
      <4>6. routing'[e] \in AtLock
        BY <2>3, <4>5
      <4> HIDE DEF e, t
      <4>7. \A j \in DOMAIN chain'[t] : chain'[t][i] = chain'[t][j] => i = j
        BY <4>1, <4>4
      <4> QED
        BY <4>2, <4>5, <4>6, <4>7 DEF e
    <3> QED
      BY <3>1, <3>2
  <2>6. \A y \in Texts : routing'[y] \in AtLock =>
          \E i \in DOMAIN chain'[ThreadOf[y]] : chain'[ThreadOf[y]][i] = y
    <3>1. SUFFICES ASSUME NEW y \in Texts, routing'[y] \in AtLock
                   PROVE  \E i \in DOMAIN chain'[ThreadOf[y]] : chain'[ThreadOf[y]][i] = y
      OBVIOUS
    <3>2. y # x
      BY <2>3, <3>1
    <3>3. PICK i \in DOMAIN chain[ThreadOf[y]] : chain[ThreadOf[y]][i] = y
      BY <2>3, <3>1, <3>2 DEF LockHolds
    <3>4. CASE ThreadOf[y] = t
      <4>1. i - 1 \in DOMAIN chain'[t] /\ chain'[t][i - 1] = chain[t][i]
        BY <2>1, <3>2, <3>3, <3>4
      <4> QED
        BY <3>3, <3>4, <4>1
    <3>5. CASE ThreadOf[y] # t
      BY <1>1, <2>1, <3>3, <3>5
    <3> QED
      BY <3>4, <3>5
  <2>7. \A y \in Texts : routing'[y] = "creating" => Head(chain'[ThreadOf[y]]) = y
    <3>1. SUFFICES ASSUME NEW y \in Texts, routing'[y] = "creating" PROVE Head(chain'[ThreadOf[y]]) = y
      OBVIOUS
    <3>2. y # x /\ routing[y] = "creating" /\ Head(chain[ThreadOf[y]]) = y
      BY <2>3, <3>1 DEF LockHolds
    <3>3. ThreadOf[y] # t
      BY <2>2, <3>2
    <3> QED
      BY <1>1, <2>1, <3>2, <3>3
  <2> QED
    BY <2>5, <2>6, <2>7 DEF LockHolds
<1>6. ASSUME NEW x \in Texts, Turns(x) PROVE LockHolds'
  <2>1. \A t \in Threads : \A i \in DOMAIN chain[t] : chain[t][i] \in Texts
    BY <1>1
  <2>2. chain' = chain /\ routing'[x] = "creating" /\ routing[x] \in AtLock /\ Head(chain[ThreadOf[x]]) = x
        /\ \A y \in Texts : y # x => routing'[y] = routing[y]
    BY <1>1, <1>6 DEF Turns, MayResolve
  <2> QED
    BY <2>1, <2>2 DEF LockHolds
<1> QED
  BY <1>2, <1>3, <1>4, <1>5, <1>6, LockMovesSo DEF LockMoves

\* Only the creator at the head of its queue adds a session.
Births == born' = born \/ \E x \in Texts : routing[x] = "creating" /\ routing'[x] # "creating" /\ born' = born \cup {x}

\* No other step does.
LEMMA BirthsStep == CvInv /\ [NextConversations]_conversationVars => Births
<1> SUFFICES ASSUME CvInv, [NextConversations]_conversationVars PROVE Births
  OBVIOUS
<1> USE ConversationAssumption DEF CvInv, ThreadInv, CopyInv, Moves, Threads, Stages, Early,
   AtLock, Housed, Rowed, Births, CvTypeOK
<1>1. ASSUME NEW x \in Texts, EvaluateEngage(x) PROVE Births
  BY <1>1 DEF EvaluateEngage
<1>2. ASSUME NEW x \in Texts, JoinCreation(x) PROVE Births
  BY <1>2 DEF JoinCreation
<1>3. ASSUME NEW x \in Texts, FindSession(x) PROVE Births
  BY <1>3 DEF FindSession
<1>4. ASSUME NEW x \in Texts, CreateSession(x) PROVE Births
  BY <1>4 DEF CreateSession
<1>5. ASSUME NEW x \in Texts, PassGate(x) PROVE Births
  BY <1>5 DEF PassGate
<1>6. ASSUME NEW x \in Texts, ListSiblings(x) PROVE Births
  BY <1>6 DEF ListSiblings
<1>7. ASSUME NEW x \in Texts, CollectTopLevel(x) PROVE Births
  BY <1>7 DEF CollectTopLevel
<1>8. ASSUME NEW x \in Texts, SeedSession(x) PROVE Births
  BY <1>8 DEF SeedSession
<1>9. ASSUME NEW x \in Texts, WriteOwnRow(x) PROVE Births
  BY <1>9 DEF WriteOwnRow
<1>10. ASSUME NEW x \in Texts, ListTargets(x) PROVE Births
  BY <1>10 DEF ListTargets
<1>11. ASSUME NEW x \in Texts, EchoText(x) PROVE Births
  BY <1>11 DEF EchoText
<1>12. ASSUME NEW x \in Texts, CreationFails(x) PROVE Births
  BY <1>12 DEF CreationFails
<1>13. ASSUME NEW p \in Posts, PostTop(p) PROVE Births
  BY <1>13 DEF PostTop
<1>14. ASSUME NEW p \in Posts, DeliverPost(p) PROVE Births
  BY <1>14 DEF DeliverPost
<1>15. ASSUME NEW p \in Posts, ListPostTargets(p) PROVE Births
  BY <1>15 DEF ListPostTargets
<1>16. ASSUME NEW p \in Posts, EchoPost(p) PROVE Births
  BY <1>16 DEF EchoPost
<1>17. CASE ConversationHostDies
  BY <1>17 DEF ConversationHostDies
<1>18. CASE UNCHANGED conversationVars
  BY <1>18 DEF conversationVars
<1> QED
  BY <1>1, <1>2, <1>3, <1>4, <1>5, <1>6, <1>7, <1>8, <1>9, <1>10, <1>11, <1>12, <1>13, <1>14,
     <1>15, <1>16, <1>17, <1>18 DEF NextConversations, Route, Voice

\* Every step leaves who creates alone in its thread, and a thread with one session.
LEMMA FirstStep == CvInv /\ [NextConversations]_conversationVars => CreatesTheFirst' /\ OneSessionPerThread'
<1> SUFFICES ASSUME CvInv, [NextConversations]_conversationVars PROVE CreatesTheFirst' /\ OneSessionPerThread'
  OBVIOUS
<1>1. Births /\ LockHolds' /\ LockHolds /\ CreatesTheFirst /\ OneSessionPerThread /\ LockMoves
  BY BirthsStep, LockStep, LockMovesSo DEF CvInv, ThreadInv
<1>2. \A x, y \in Texts : routing'[x] = "creating" /\ routing'[y] = "creating" /\ ThreadOf[x] = ThreadOf[y] => x = y
  BY <1>1 DEF LockHolds
<1>3. \A x, y \in Texts : routing[x] = "creating" /\ routing[y] = "creating" /\ ThreadOf[x] = ThreadOf[y] => x = y
  BY <1>1 DEF LockHolds
<1>4. \A x \in Texts : routing'[x] = "creating" => routing[x] = "creating" \/ (Turns(x) /\ SessionsOf(x) = {})
  <2>1. routing \in [Texts -> Stages]
    BY DEF CvInv, CvTypeOK
  <2> QED
    BY <1>1, <2>1 DEF LockMoves, LockStays, Clears, Joins, Leaves, Turns, AtLock
<1>5. CASE born' = born
  BY <1>1, <1>4, <1>5 DEF CreatesTheFirst, OneSessionPerThread, SessionsOf
<1>6. ASSUME NEW x \in Texts, routing[x] = "creating", routing'[x] # "creating", born' = born \cup {x}
      PROVE  CreatesTheFirst' /\ OneSessionPerThread'
  <2>1. SessionsOf(x) = {} /\ born \subseteq Texts
    BY <1>1, <1>6 DEF CreatesTheFirst, CvInv, CvTypeOK
  <2>2. OneSessionPerThread'
    BY <1>1, <1>6, <2>1 DEF OneSessionPerThread, SessionsOf
  <2>3. ASSUME NEW y \in Texts, routing'[y] = "creating" PROVE SessionsOf(y)' = {}
    <3>1. y # x /\ (routing[y] = "creating" \/ Turns(y)) /\ SessionsOf(y) = {}
      BY <1>1, <1>4, <1>6, <2>3 DEF CreatesTheFirst
    <3>2. ThreadOf[y] # ThreadOf[x]
      <4>1. CASE routing[y] = "creating"
        BY <1>3, <1>6, <3>1, <4>1
      <4>2. CASE Turns(y)
        BY <1>1, <1>6, <3>1, <4>2 DEF Turns, MayResolve, LockHolds
      <4> QED
        BY <3>1, <4>1, <4>2
    <3> QED
      BY <1>6, <3>1, <3>2 DEF SessionsOf
  <2> QED
    BY <2>2, <2>3 DEF CreatesTheFirst
<1> QED
  BY <1>1, <1>5, <1>6 DEF Births

\* How the rows change: one message writes its own, or none does.
Writes(x) ==
  /\ routing[x] = "row" /\ ownRows' = [ownRows EXCEPT ![home[x]] = Append(@, x)]
  /\ routing'[x] \in Rowed /\ (x \in wakes => routing'[x] = "fan")
  /\ UNCHANGED <<home, wakes, born>> /\ \A y \in Texts : y # x => routing'[y] = routing[y]
RowsStay ==
  /\ UNCHANGED ownRows
  /\ \A y \in Texts : /\ home[y] # Unborn => home'[y] = home[y]
                      /\ routing[y] \notin Early => (y \in wakes' <=> y \in wakes)
                      /\ routing[y] \in Rowed \cup {"lost"} => routing'[y] \in Rowed \cup {"lost"}
                      /\ routing'[y] \in Rowed => routing[y] \in Rowed
RowMoves == RowsStay \/ \E x \in Texts : Writes(x)

\* They change in these ways only.
LEMMA RowMovesSo == CvInv /\ [NextConversations]_conversationVars => RowMoves
<1> SUFFICES ASSUME CvInv, [NextConversations]_conversationVars PROVE RowMoves
  OBVIOUS
<1> USE ConversationAssumption DEF CvInv, ThreadInv, CopyInv, Moves, Threads, Stages, Early,
   AtLock, Housed, Rowed
<1>1. ASSUME NEW x \in Texts, EvaluateEngage(x) PROVE RowMoves
  BY <1>1 DEF CvTypeOK, HomesAreBorn, RowMoves, RowsStay, EvaluateEngage
<1>2. ASSUME NEW x \in Texts, JoinCreation(x) PROVE RowMoves
  BY <1>2 DEF CvTypeOK, HomesAreBorn, RowMoves, RowsStay, JoinCreation
<1>3. ASSUME NEW x \in Texts, FindSession(x) PROVE RowMoves
  BY <1>3 DEF CvTypeOK, HomesAreBorn, RowMoves, RowsStay, FindSession
<1>4. ASSUME NEW x \in Texts, CreateSession(x) PROVE RowMoves
  BY <1>4 DEF CvTypeOK, HomesAreBorn, RowMoves, RowsStay, CreateSession
<1>5. ASSUME NEW x \in Texts, PassGate(x) PROVE RowMoves
  BY <1>5 DEF CvTypeOK, HomesAreBorn, RowMoves, RowsStay, PassGate
<1>6. ASSUME NEW x \in Texts, ListSiblings(x) PROVE RowMoves
  BY <1>6 DEF CvTypeOK, HomesAreBorn, RowMoves, RowsStay, ListSiblings
<1>7. ASSUME NEW x \in Texts, CollectTopLevel(x) PROVE RowMoves
  BY <1>7 DEF CvTypeOK, HomesAreBorn, RowMoves, RowsStay, CollectTopLevel
<1>8. ASSUME NEW x \in Texts, SeedSession(x) PROVE RowMoves
  BY <1>8 DEF CvTypeOK, HomesAreBorn, RowMoves, RowsStay, SeedSession
<1>9. ASSUME NEW x \in Texts, WriteOwnRow(x) PROVE RowMoves
  <2>1. Writes(x)
    BY <1>9 DEF WriteOwnRow, Writes, CvTypeOK
  <2> QED
    BY <2>1 DEF RowMoves
<1>10. ASSUME NEW x \in Texts, ListTargets(x) PROVE RowMoves
  BY <1>10 DEF CvTypeOK, HomesAreBorn, RowMoves, RowsStay, ListTargets
<1>11. ASSUME NEW x \in Texts, EchoText(x) PROVE RowMoves
  BY <1>11 DEF CvTypeOK, HomesAreBorn, RowMoves, RowsStay, EchoText
<1>12. ASSUME NEW x \in Texts, CreationFails(x) PROVE RowMoves
  BY <1>12 DEF CvTypeOK, HomesAreBorn, RowMoves, RowsStay, CreationFails
<1>13. ASSUME NEW p \in Posts, PostTop(p) PROVE RowMoves
  BY <1>13 DEF CvTypeOK, HomesAreBorn, RowMoves, RowsStay, PostTop
<1>14. ASSUME NEW p \in Posts, DeliverPost(p) PROVE RowMoves
  BY <1>14 DEF CvTypeOK, HomesAreBorn, RowMoves, RowsStay, DeliverPost
<1>15. ASSUME NEW p \in Posts, ListPostTargets(p) PROVE RowMoves
  BY <1>15 DEF CvTypeOK, HomesAreBorn, RowMoves, RowsStay, ListPostTargets
<1>16. ASSUME NEW p \in Posts, EchoPost(p) PROVE RowMoves
  BY <1>16 DEF CvTypeOK, HomesAreBorn, RowMoves, RowsStay, EchoPost
<1>17. CASE ConversationHostDies
  BY <1>17 DEF CvTypeOK, HomesAreBorn, RowMoves, RowsStay, ConversationHostDies
<1>18. CASE UNCHANGED conversationVars
  BY <1>18 DEF CvTypeOK, HomesAreBorn, RowMoves, RowsStay, conversationVars
<1> QED
  BY <1>1, <1>2, <1>3, <1>4, <1>5, <1>6, <1>7, <1>8, <1>9, <1>10, <1>11, <1>12, <1>13, <1>14,
     <1>15, <1>16, <1>17, <1>18 DEF NextConversations, Route, Voice

\* Every step leaves each row in the session of its message.
LEMMA RowsStep == CvInv /\ [NextConversations]_conversationVars => RowsAreHome'
<1> SUFFICES ASSUME CvInv, [NextConversations]_conversationVars PROVE RowsAreHome'
  OBVIOUS
<1>1. RowsAreHome /\ HomesAreBorn /\ CvTypeOK /\ RowMoves
  BY RowMovesSo DEF CvInv, ThreadInv, CopyInv
<1>2. ownRows \in [Texts -> Seq(Texts)] /\ home \in [Texts -> Texts \cup {Unborn}] /\ Unborn \notin Texts
  BY <1>1, ConversationAssumption DEF CvTypeOK
<1>3. \A s \in Texts : \A i \in DOMAIN ownRows[s] : ownRows[s][i] \in Texts
  BY <1>2
<1>4. CASE RowsStay
  <2>1. ASSUME NEW s \in Texts, NEW i \in DOMAIN ownRows[s]
        PROVE  /\ home'[ownRows[s][i]] = s /\ routing'[ownRows[s][i]] \in Rowed \cup {"lost"}
               /\ \A j \in DOMAIN ownRows[s] : ownRows[s][i] = ownRows[s][j] => i = j
    <3>1. /\ home[ownRows[s][i]] = s /\ routing[ownRows[s][i]] \in Rowed \cup {"lost"}
          /\ \A j \in DOMAIN ownRows[s] : ownRows[s][i] = ownRows[s][j] => i = j
      BY <1>1, <2>1 DEF RowsAreHome
    <3>2. ownRows[s][i] \in Texts /\ s # Unborn
      BY <1>2, <1>3, <2>1
    <3>3. home'[ownRows[s][i]] = s
      BY <1>4, <3>1, <3>2 DEF RowsStay
    <3>4. routing'[ownRows[s][i]] \in Rowed \cup {"lost"}
      BY <1>4, <3>1, <3>2 DEF RowsStay
    <3> QED
      BY <3>1, <3>3, <3>4
  <2>2. ASSUME NEW x \in Texts, routing'[x] \in Rowed
        PROVE  \E i \in DOMAIN ownRows[home'[x]] : ownRows[home'[x]][i] = x
    <3>1. routing[x] \in Rowed
      BY <1>4, <2>2 DEF RowsStay
    <3>2. home[x] # Unborn
      BY <1>1, <3>1 DEF HomesAreBorn, Rowed, Housed
    <3>3. home'[x] = home[x]
      BY <1>4, <3>2 DEF RowsStay
    <3> QED
      BY <1>1, <3>1, <3>3 DEF RowsAreHome, HasRow
  <2>3. ownRows' = ownRows
    BY <1>4 DEF RowsStay
  <2> QED
    BY <2>1, <2>2, <2>3 DEF RowsAreHome, HasRow
<1>5. ASSUME NEW x \in Texts, Writes(x) PROVE RowsAreHome'
  <2> DEFINE h == home[x]
             q == ownRows[h]
  <2>1. h \in Texts
    BY <1>1, <1>2, <1>5 DEF Writes, HomesAreBorn, Housed
  <2>2. /\ ownRows'[h] = Append(q, x) /\ q \in Seq(Texts)
        /\ \A s \in Texts : s # h => ownRows'[s] = ownRows[s]
    BY <1>2, <1>5, <2>1 DEF Writes
  <2>3. /\ routing[x] = "row" /\ routing'[x] \in Rowed /\ home' = home
        /\ \A y \in Texts : y # x => routing'[y] = routing[y]
    BY <1>5 DEF Writes
  <2>4. /\ \A i \in DOMAIN q : i \in DOMAIN ownRows'[h] /\ ownRows'[h][i] = q[i]
        /\ \A i \in DOMAIN ownRows'[h] : i \in DOMAIN q \/ (i = Len(q) + 1 /\ ownRows'[h][i] = x)
        /\ Len(q) + 1 \in DOMAIN ownRows'[h] /\ ownRows'[h][Len(q) + 1] = x
    <3> HIDE DEF q
    <3> QED
      BY <2>2
  <2>5. \A s \in Texts : \A i \in DOMAIN ownRows[s] :
          /\ ownRows[s][i] # x /\ home[ownRows[s][i]] = s /\ routing'[ownRows[s][i]] \in Rowed \cup {"lost"}
          /\ \A j \in DOMAIN ownRows[s] : ownRows[s][i] = ownRows[s][j] => i = j
    <3>1. SUFFICES ASSUME NEW s \in Texts, NEW i \in DOMAIN ownRows[s]
                   PROVE  /\ ownRows[s][i] # x /\ home[ownRows[s][i]] = s
                          /\ routing'[ownRows[s][i]] \in Rowed \cup {"lost"}
                          /\ \A j \in DOMAIN ownRows[s] : ownRows[s][i] = ownRows[s][j] => i = j
      OBVIOUS
    <3>2. /\ home[ownRows[s][i]] = s /\ routing[ownRows[s][i]] \in Rowed \cup {"lost"}
          /\ \A j \in DOMAIN ownRows[s] : ownRows[s][i] = ownRows[s][j] => i = j
      BY <1>1 DEF RowsAreHome
    <3>3. ownRows[s][i] # x /\ ownRows[s][i] \in Texts
      BY <1>3, <2>3, <3>2 DEF Rowed
    <3>4. routing'[ownRows[s][i]] = routing[ownRows[s][i]]
      BY <2>3, <3>3
    <3> QED
      BY <3>2, <3>3, <3>4
  <2>6. ASSUME NEW s \in Texts, NEW i \in DOMAIN ownRows'[s]
        PROVE  /\ home[ownRows'[s][i]] = s /\ routing'[ownRows'[s][i]] \in Rowed \cup {"lost"}
               /\ \A j \in DOMAIN ownRows'[s] : ownRows'[s][i] = ownRows'[s][j] => i = j
    <3>1. CASE s # h
      <4>1. ownRows'[s] = ownRows[s]
        BY <2>2, <3>1
      <4> QED
        BY <2>5, <2>6, <4>1
    <3>2. CASE s = h
      <4>1. i \in DOMAIN ownRows'[h]
        BY <2>6, <3>2
      <4>2. /\ home[ownRows'[h][i]] = h /\ routing'[ownRows'[h][i]] \in Rowed \cup {"lost"}
            /\ \A j \in DOMAIN ownRows'[h] : ownRows'[h][i] = ownRows'[h][j] => i = j
        <5>1. CASE i \in DOMAIN q
          BY <2>1, <2>4, <2>5, <5>1
        <5>2. CASE i = Len(q) + 1 /\ ownRows'[h][i] = x
          BY <2>1, <2>3, <2>4, <2>5, <5>2
        <5> QED
          BY <2>4, <4>1, <5>1, <5>2
      <4> QED
        BY <3>2, <4>2
    <3> QED
      BY <3>1, <3>2
  <2>7. ASSUME NEW y \in Texts, routing'[y] \in Rowed
        PROVE  \E i \in DOMAIN ownRows'[home[y]] : ownRows'[home[y]][i] = y
    <3>1. CASE y = x
      BY <2>4, <3>1
    <3>2. CASE y # x
      <4>1. routing[y] \in Rowed
        BY <2>3, <2>7, <3>2
      <4>2. PICK i \in DOMAIN ownRows[home[y]] : ownRows[home[y]][i] = y
        BY <1>1, <4>1 DEF RowsAreHome, HasRow
      <4>3. home[y] \in Texts
        BY <1>1, <1>2, <4>1 DEF HomesAreBorn, Rowed, Housed
      <4>4. CASE home[y] = h
        BY <2>4, <4>2, <4>4
      <4>5. CASE home[y] # h
        BY <2>2, <4>2, <4>3, <4>5
      <4> QED
        BY <4>4, <4>5
    <3> QED
      BY <3>1, <3>2
  <2> QED
    BY <2>3, <2>6, <2>7 DEF RowsAreHome, HasRow
<1> QED
  BY <1>1, <1>4, <1>5 DEF RowMoves

\* The message that opened a session waking it is one of its rows.
LEMMA OpenerIsRow ==
  ASSUME CvTypeOK, RowsAreHome, NEW s \in Texts, NEW x \in Opener(s)
  PROVE  /\ x \in Texts /\ x \in wakes /\ home[x] = s /\ routing[x] \in Rowed \cup {"lost"}
         /\ \E i \in DOMAIN ownRows[s] : ownRows[s][i] = x
<1>1. PICK i \in Triggers(s) : ownRows[s][i] = x
  BY DEF Opener
<1>2. i \in DOMAIN ownRows[s] /\ ownRows[s][i] \in wakes
  BY <1>1 DEF Triggers
<1>3. x \in Texts
  BY <1>1, <1>2 DEF CvTypeOK
<1> QED
  BY <1>1, <1>2, <1>3 DEF RowsAreHome

\* Every step leaves the copies outside the session of what they copy.
LEMMA CopiesStep == CvInv /\ [NextConversations]_conversationVars => CopiesAreAbroad'
<1> SUFFICES ASSUME CvInv, [NextConversations]_conversationVars PROVE CopiesAreAbroad'
  OBVIOUS
<1> USE ConversationAssumption DEF CvInv, ThreadInv, CopyInv, Moves, Threads, Stages, Early,
   AtLock, Housed, Rowed
<1>1. ASSUME NEW x \in Texts, EvaluateEngage(x) PROVE CopiesAreAbroad'
  <2>1. /\ UNCHANGED <<home, listed, gathered, context, poster, posted>> /\ routing[x] \notin {"collect", "echo"}
        /\ \A y \in Texts : y # x => routing'[y] = routing[y]
    BY <1>1 DEF EvaluateEngage, CvTypeOK
  <2> QED
    BY <2>1 DEF CopiesAreAbroad
<1>2. ASSUME NEW x \in Texts, JoinCreation(x) PROVE CopiesAreAbroad'
  BY <1>2 DEF JoinCreation, CvTypeOK, HomesAreBorn, CopiesAreAbroad, PostsAreBorn, SessionsOf,
     Created, EchoTargets
<1>3. ASSUME NEW x \in Texts, FindSession(x) PROVE CopiesAreAbroad'
  <2>1. home[x] = Unborn /\ listed[x] = {} /\ \A t \in Texts : x \notin context[t] \cup gathered[t]
    BY <1>3 DEF FindSession, CvTypeOK, HomesAreBorn, CopiesAreAbroad, PostsAreBorn, SessionsOf,
       Created, EchoTargets
  <2>2. /\ \A y \in Texts : y # x => home'[y] = home[y] /\ routing'[y] = routing[y]
        /\ UNCHANGED <<listed, context, gathered, poster, posted>>
        /\ routing[x] \notin {"collect", "echo"}
    BY <1>3 DEF FindSession, CvTypeOK
  <2>3. home'[x] \notin listed[x]
    BY <2>1
  <2> QED
    BY <2>1, <2>2, <2>3 DEF CopiesAreAbroad
<1>4. ASSUME NEW x \in Texts, CreateSession(x) PROVE CopiesAreAbroad'
  <2>1. home[x] = Unborn /\ listed[x] = {} /\ \A t \in Texts : x \notin context[t] \cup gathered[t]
    BY <1>4 DEF CreateSession, CvTypeOK, HomesAreBorn, CopiesAreAbroad, PostsAreBorn, SessionsOf,
       Created, EchoTargets
  <2>2. /\ \A y \in Texts : y # x => home'[y] = home[y] /\ routing'[y] = routing[y]
        /\ UNCHANGED <<listed, context, gathered, poster, posted>>
        /\ routing[x] \notin {"collect", "echo"}
    BY <1>4 DEF CreateSession, CvTypeOK
  <2>3. home'[x] \notin listed[x]
    BY <2>1
  <2> QED
    BY <2>1, <2>2, <2>3 DEF CopiesAreAbroad
<1>5. ASSUME NEW x \in Texts, PassGate(x) PROVE CopiesAreAbroad'
  <2>1. /\ UNCHANGED <<home, listed, gathered, context, poster, posted>> /\ routing[x] \notin {"collect", "echo"}
        /\ \A y \in Texts : y # x => routing'[y] = routing[y]
    BY <1>5 DEF PassGate, CvTypeOK
  <2> QED
    BY <2>1 DEF CopiesAreAbroad
<1>6. ASSUME NEW x \in Texts, ListSiblings(x) PROVE CopiesAreAbroad'
  BY <1>6 DEF ListSiblings, CvTypeOK, HomesAreBorn, CopiesAreAbroad, PostsAreBorn, SessionsOf,
     Created, EchoTargets
<1>7. ASSUME NEW x \in Texts, CollectTopLevel(x) PROVE CopiesAreAbroad'
  <2>1. /\ gathered' = [gathered EXCEPT ![x] = UNION {Opener(s) \cup PostsOf(s) : s \in listed[x]}]
        /\ listed' = [listed EXCEPT ![x] = {}] /\ routing' = [routing EXCEPT ![x] = "seed"]
        /\ routing[x] = "collect" /\ UNCHANGED <<home, context, poster, posted>>
    BY <1>7 DEF CollectTopLevel
  <2>2. \A y \in gathered'[x] \cap Texts : home[y] # x /\ home[y] # Unborn
    <3>1. SUFFICES ASSUME NEW y \in gathered'[x] \cap Texts PROVE home[y] # x /\ home[y] # Unborn
      OBVIOUS
    <3>2. PICK s \in listed[x] : y \in Opener(s) \cup PostsOf(s)
      BY <2>1 DEF CvTypeOK
    <3>3. s \in Texts /\ s # x /\ s # Unborn /\ y \in Opener(s)
      BY <2>1, <3>1, <3>2 DEF CvTypeOK, HomesAreBorn, CopiesAreAbroad, Created, PostsOf
    <3>4. home[y] = s
      BY <3>3, OpenerIsRow
    <3> QED
      BY <3>3, <3>4
  <2>3. \A t \in Texts : t # x => gathered'[t] = gathered[t]
    BY <2>1 DEF CvTypeOK
  <2>4. \A t \in Texts : \A y \in (context'[t] \cup gathered'[t]) \cap Texts : home'[y] # t /\ home'[y] # Unborn
    BY <2>1, <2>2, <2>3 DEF CopiesAreAbroad
  <2>5. /\ \A y \in Texts : home'[y] \notin listed'[y]
        /\ \A p \in Posts : poster'[p] \notin listed'[p]
        /\ \A y \in Texts : routing'[y] \in {"collect", "echo"} \/ listed'[y] = {}
        /\ \A p \in Posts : posted'[p] = "echo" \/ listed'[p] = {}
    BY <2>1 DEF CopiesAreAbroad, CvTypeOK
  <2> QED
    BY <2>4, <2>5 DEF CopiesAreAbroad
<1>8. ASSUME NEW x \in Texts, SeedSession(x) PROVE CopiesAreAbroad'
  <2>1. /\ UNCHANGED <<home, listed, poster, posted>> /\ routing[x] = "seed"
        /\ \A y \in Texts : y # x => routing'[y] = routing[y]
    BY <1>8 DEF SeedSession, CvTypeOK
  <2>2. \A t \in Texts : context'[t] \cup gathered'[t] \subseteq context[t] \cup gathered[t]
    <3>1. CASE UNCHANGED <<context, gathered>>
      BY <3>1
    <3>2. ASSUME NEW r \in gathered[x], context' = [context EXCEPT ![x] = context[x] \cup {r}],
                 gathered' = [gathered EXCEPT ![x] = gathered[x] \ {r}]
          PROVE  \A t \in Texts : context'[t] \cup gathered'[t] \subseteq context[t] \cup gathered[t]
      <4>1. /\ context'[x] = context[x] \cup {r} /\ gathered'[x] = gathered[x] \ {r}
            /\ \A t \in Texts : t # x => context'[t] = context[t] /\ gathered'[t] = gathered[t]
        BY <3>2 DEF CvTypeOK
      <4> QED
        BY <4>1
    <3> QED
      BY <1>8, <3>1, <3>2 DEF SeedSession
  <2>3. listed[x] = {}
    BY <2>1 DEF CopiesAreAbroad
  <2> QED
    BY <2>1, <2>2, <2>3 DEF CopiesAreAbroad
<1>9. ASSUME NEW x \in Texts, WriteOwnRow(x) PROVE CopiesAreAbroad'
  BY <1>9 DEF WriteOwnRow, CvTypeOK, HomesAreBorn, CopiesAreAbroad, PostsAreBorn, SessionsOf,
     Created, EchoTargets
<1>10. ASSUME NEW x \in Texts, ListTargets(x) PROVE CopiesAreAbroad'
  BY <1>10 DEF ListTargets, CvTypeOK, HomesAreBorn, CopiesAreAbroad, PostsAreBorn, SessionsOf,
     Created, EchoTargets
<1>11. ASSUME NEW x \in Texts, EchoText(x) PROVE CopiesAreAbroad'
  <2>1. /\ UNCHANGED <<home, gathered, poster, posted>> /\ routing[x] = "echo" /\ x \notin Posts
        /\ \A y \in Texts : y # x => routing'[y] = routing[y]
        /\ \A y \in Texts \cup Posts : y # x => listed'[y] = listed[y]
        /\ routing'[x] = "echo" \/ listed'[x] = {}
        /\ listed'[x] \subseteq listed[x]
    BY <1>11 DEF EchoText, CvTypeOK
  <2>2. \A t \in Texts : \A y \in context'[t] : y \in context[t] \/ (y = x /\ t \in listed[x])
    <3>1. CASE UNCHANGED context
      BY <3>1
    <3>2. ASSUME NEW s \in listed[x], context' = [context EXCEPT ![s] = context[s] \cup {x}]
          PROVE  \A t \in Texts : \A y \in context'[t] : y \in context[t] \/ (y = x /\ t \in listed[x])
      BY <3>2 DEF CvTypeOK
    <3> QED
      BY <1>11, <3>1, <3>2 DEF EchoText
  <2>3. home[x] # Unborn /\ home[x] \notin listed[x]
    BY <2>1 DEF CopiesAreAbroad, HomesAreBorn
  <2> QED
    BY <2>1, <2>2, <2>3 DEF CopiesAreAbroad
<1>12. ASSUME NEW x \in Texts, CreationFails(x) PROVE CopiesAreAbroad'
  BY <1>12 DEF CreationFails, CvTypeOK, HomesAreBorn, CopiesAreAbroad, PostsAreBorn, SessionsOf,
     Created, EchoTargets
<1>13. ASSUME NEW p \in Posts, PostTop(p) PROVE CopiesAreAbroad'
  <2>1. UNCHANGED <<home, gathered, context, listed, routing>> /\ posted[p] = "unsaid"
        /\ \A q \in Posts : q # p => poster'[q] = poster[q] /\ posted'[q] = posted[q]
    BY <1>13 DEF PostTop, CvTypeOK
  <2>2. listed[p] = {}
    BY <2>1 DEF CopiesAreAbroad
  <2> QED
    BY <2>1, <2>2 DEF CopiesAreAbroad
<1>14. ASSUME NEW p \in Posts, DeliverPost(p) PROVE CopiesAreAbroad'
  BY <1>14 DEF DeliverPost, CvTypeOK, HomesAreBorn, CopiesAreAbroad, PostsAreBorn, SessionsOf,
     Created, EchoTargets
<1>15. ASSUME NEW p \in Posts, ListPostTargets(p) PROVE CopiesAreAbroad'
  BY <1>15 DEF ListPostTargets, CvTypeOK, HomesAreBorn, CopiesAreAbroad, PostsAreBorn, SessionsOf,
     Created, EchoTargets
<1>16. ASSUME NEW p \in Posts, EchoPost(p) PROVE CopiesAreAbroad'
  <2>1. /\ UNCHANGED <<home, gathered, poster, routing>> /\ posted[p] = "echo" /\ p \notin Texts
        /\ \A q \in Posts : q # p => posted'[q] = posted[q]
        /\ \A y \in Texts \cup Posts : y # p => listed'[y] = listed[y]
        /\ posted'[p] = "echo" \/ listed'[p] = {}
        /\ listed'[p] \subseteq listed[p]
    BY <1>16 DEF EchoPost, CvTypeOK
  <2>2. \A t \in Texts : context'[t] \cap Texts \subseteq context[t]
    BY <2>1, <1>16 DEF EchoPost, CvTypeOK
  <2> QED
    BY <2>1, <2>2 DEF CopiesAreAbroad
<1>17. CASE ConversationHostDies
  BY <1>17 DEF ConversationHostDies, CvTypeOK, HomesAreBorn, CopiesAreAbroad, PostsAreBorn,
     SessionsOf, Created, EchoTargets
<1>18. CASE UNCHANGED conversationVars
  BY <1>18 DEF CvTypeOK, HomesAreBorn, CopiesAreAbroad, PostsAreBorn, SessionsOf, Created,
     EchoTargets, conversationVars
<1> QED
  BY <1>1, <1>2, <1>3, <1>4, <1>5, <1>6, <1>7, <1>8, <1>9, <1>10, <1>11, <1>12, <1>13, <1>14,
     <1>15, <1>16, <1>17, <1>18 DEF NextConversations, Route, Voice

\* Every step leaves a written post with its session.
LEMMA PostsStep == CvInv /\ [NextConversations]_conversationVars => PostsAreBorn'
<1> SUFFICES ASSUME CvInv, [NextConversations]_conversationVars PROVE PostsAreBorn'
  OBVIOUS
<1> USE ConversationAssumption DEF CvInv, ThreadInv, CopyInv, Moves, Threads, Stages, Early,
   AtLock, Housed, Rowed, CvTypeOK, PostsAreBorn
<1>1. ASSUME NEW x \in Texts, EvaluateEngage(x) PROVE PostsAreBorn'
  BY <1>1 DEF EvaluateEngage
<1>2. ASSUME NEW x \in Texts, JoinCreation(x) PROVE PostsAreBorn'
  BY <1>2 DEF JoinCreation
<1>3. ASSUME NEW x \in Texts, FindSession(x) PROVE PostsAreBorn'
  BY <1>3 DEF FindSession
<1>4. ASSUME NEW x \in Texts, CreateSession(x) PROVE PostsAreBorn'
  BY <1>4 DEF CreateSession
<1>5. ASSUME NEW x \in Texts, PassGate(x) PROVE PostsAreBorn'
  BY <1>5 DEF PassGate
<1>6. ASSUME NEW x \in Texts, ListSiblings(x) PROVE PostsAreBorn'
  BY <1>6 DEF ListSiblings
<1>7. ASSUME NEW x \in Texts, CollectTopLevel(x) PROVE PostsAreBorn'
  BY <1>7 DEF CollectTopLevel
<1>8. ASSUME NEW x \in Texts, SeedSession(x) PROVE PostsAreBorn'
  BY <1>8 DEF SeedSession
<1>9. ASSUME NEW x \in Texts, WriteOwnRow(x) PROVE PostsAreBorn'
  BY <1>9 DEF WriteOwnRow
<1>10. ASSUME NEW x \in Texts, ListTargets(x) PROVE PostsAreBorn'
  BY <1>10 DEF ListTargets
<1>11. ASSUME NEW x \in Texts, EchoText(x) PROVE PostsAreBorn'
  BY <1>11 DEF EchoText
<1>12. ASSUME NEW x \in Texts, CreationFails(x) PROVE PostsAreBorn'
  BY <1>12 DEF CreationFails
<1>13. ASSUME NEW p \in Posts, PostTop(p) PROVE PostsAreBorn'
  BY <1>13 DEF PostTop
<1>14. ASSUME NEW p \in Posts, DeliverPost(p) PROVE PostsAreBorn'
  BY <1>14 DEF DeliverPost
<1>15. ASSUME NEW p \in Posts, ListPostTargets(p) PROVE PostsAreBorn'
  BY <1>15 DEF ListPostTargets
<1>16. ASSUME NEW p \in Posts, EchoPost(p) PROVE PostsAreBorn'
  BY <1>16 DEF EchoPost
<1>17. CASE ConversationHostDies
  BY <1>17 DEF ConversationHostDies
<1>18. CASE UNCHANGED conversationVars
  BY <1>18 DEF conversationVars
<1> QED
  BY <1>1, <1>2, <1>3, <1>4, <1>5, <1>6, <1>7, <1>8, <1>9, <1>10, <1>11, <1>12, <1>13, <1>14,
     <1>15, <1>16, <1>17, <1>18 DEF NextConversations, Route, Voice

\* The opener of a session stays its opener; a new one is about to be fanned.
LEMMA OpenersStay ==
  CvInv /\ [NextConversations]_conversationVars =>
    \A s \in Texts : \A x \in Opener(s)' : x \in Opener(s) \/ routing'[x] = "fan"
<1> SUFFICES ASSUME CvInv, [NextConversations]_conversationVars, NEW s \in Texts, NEW x \in Opener(s)'
             PROVE  x \in Opener(s) \/ routing'[x] = "fan"
  OBVIOUS
<1>1. RowsAreHome /\ HomesAreBorn /\ CvTypeOK /\ RowMoves
  BY RowMovesSo DEF CvInv, ThreadInv, CopyInv
<1>2. ownRows \in [Texts -> Seq(Texts)] /\ home \in [Texts -> Texts \cup {Unborn}] /\ Unborn \notin Texts
  BY <1>1, ConversationAssumption DEF CvTypeOK
<1>3. \A u \in Texts : \A i \in DOMAIN ownRows[u] :
        ownRows[u][i] \in Texts /\ routing[ownRows[u][i]] \in Rowed \cup {"lost"}
  BY <1>1, <1>2 DEF RowsAreHome
<1>4. PICK i \in Triggers(s)' : x = ownRows'[s][i] /\ \A k \in Triggers(s)' : i <= k
  BY DEF Opener
<1>5. i \in DOMAIN ownRows'[s] /\ x \in wakes'
  BY <1>4 DEF Triggers
<1>6. CASE RowsStay
  <2>1. ownRows' = ownRows
    BY <1>6 DEF RowsStay
  <2>2. \A j \in DOMAIN ownRows[s] : (ownRows[s][j] \in wakes' <=> ownRows[s][j] \in wakes)
    BY <1>3, <1>6 DEF RowsStay, Rowed, Early
  <2>3. Triggers(s)' = Triggers(s)
    BY <2>1, <2>2 DEF Triggers
  <2> QED
    BY <1>4, <2>1, <2>3 DEF Opener
<1>7. ASSUME NEW y \in Texts, Writes(y) PROVE x \in Opener(s) \/ routing'[x] = "fan"
  <2>1. wakes' = wakes /\ (y \in wakes => routing'[y] = "fan")
    BY <1>7 DEF Writes
  <2>2. home[y] \in Texts
    BY <1>1, <1>2, <1>7 DEF Writes, HomesAreBorn, Housed
  <2>3. CASE s # home[y]
    <3>1. ownRows'[s] = ownRows[s]
      BY <1>2, <1>7, <2>2, <2>3 DEF Writes
    <3>2. Triggers(s)' = Triggers(s)
      BY <2>1, <3>1 DEF Triggers
    <3> QED
      BY <1>4, <3>1, <3>2 DEF Opener
  <2>4. CASE s = home[y]
    <3> DEFINE q == ownRows[s]
    <3>1. ownRows'[s] = Append(q, y) /\ q \in Seq(Texts)
      BY <1>2, <1>7, <2>4 DEF Writes
    <3>2. /\ \A j \in DOMAIN q : j \in DOMAIN ownRows'[s] /\ ownRows'[s][j] = q[j]
          /\ \A j \in DOMAIN ownRows'[s] : j \in DOMAIN q \/ ownRows'[s][j] = y
      <4> HIDE DEF q
      <4> QED
        BY <3>1
    <3>3. CASE x = y
      BY <1>5, <2>1, <3>3
    <3>4. CASE x # y
      <4>1. i \in DOMAIN q /\ q[i] = x
        BY <1>4, <1>5, <3>2, <3>4
      <4>2. i \in Triggers(s) /\ \A k \in Triggers(s) : k \in Triggers(s)'
        BY <1>5, <2>1, <3>2, <4>1 DEF Triggers
      <4> QED
        BY <1>4, <4>1, <4>2 DEF Opener
    <3> QED
      BY <3>3, <3>4
  <2> QED
    BY <2>3, <2>4
<1> QED
  BY <1>1, <1>6, <1>7 DEF RowMoves

\* What was on its way to a session arrives there or stays on its way.
TextsGoOn == \A t \in born : \A s \in born \ {t} : \A x \in Opener(s) : TextComes(t, s, x) => TextComes(t, s, x)'
PostsGoOn == \A t \in born : \A p \in Posts : poster[p] \in born \ {t} /\ PostComes(t, p) => PostComes(t, p)' 

\* So goes the message that opened a sibling.
LEMMA TextsStep == CvInv /\ [NextConversations]_conversationVars => TextsGoOn
<1> SUFFICES ASSUME CvInv, [NextConversations]_conversationVars PROVE TextsGoOn
  OBVIOUS
<1> USE ConversationAssumption DEF CvInv, ThreadInv, CopyInv, Moves, Threads, Stages, Early,
   AtLock, Housed, Rowed
<1>1. ASSUME NEW x \in Texts, EvaluateEngage(x) PROVE TextsGoOn
  <2>1. SUFFICES ASSUME NEW t \in born, NEW s \in born \ {t}, NEW y \in Opener(s), TextComes(t, s, y)
                 PROVE  TextComes(t, s, y)'
    BY DEF TextsGoOn
  <2>2. /\ t \in Texts /\ s \in Texts /\ y \in Texts /\ home[y] = s /\ home[t] = t
        /\ routing[y] \in Rowed \cup {"lost"} /\ routing[t] \notin Early \cup AtLock
    BY <2>1, OpenerIsRow DEF CvTypeOK, HomesAreBorn
  <2> QED
    BY <1>1, <2>1, <2>2 DEF EvaluateEngage, Created, CvTypeOK, Unread, Pulled, TextOnItsWay,
       PostOnItsWay, TextComes, PostComes, EchoTargets
<1>2. ASSUME NEW x \in Texts, JoinCreation(x) PROVE TextsGoOn
  <2>1. SUFFICES ASSUME NEW t \in born, NEW s \in born \ {t}, NEW y \in Opener(s), TextComes(t, s, y)
                 PROVE  TextComes(t, s, y)'
    BY DEF TextsGoOn
  <2>2. /\ t \in Texts /\ s \in Texts /\ y \in Texts /\ home[y] = s /\ home[t] = t
        /\ routing[y] \in Rowed \cup {"lost"} /\ routing[t] \notin Early \cup AtLock
    BY <2>1, OpenerIsRow DEF CvTypeOK, HomesAreBorn
  <2> QED
    BY <1>2, <2>1, <2>2 DEF JoinCreation, Created, CvTypeOK, Unread, Pulled, TextOnItsWay,
       PostOnItsWay, TextComes, PostComes, EchoTargets
<1>3. ASSUME NEW x \in Texts, FindSession(x) PROVE TextsGoOn
  <2>1. SUFFICES ASSUME NEW t \in born, NEW s \in born \ {t}, NEW y \in Opener(s), TextComes(t, s, y)
                 PROVE  TextComes(t, s, y)'
    BY DEF TextsGoOn
  <2>2. /\ t \in Texts /\ s \in Texts /\ y \in Texts /\ home[y] = s /\ home[t] = t
        /\ routing[y] \in Rowed \cup {"lost"} /\ routing[t] \notin Early \cup AtLock
    BY <2>1, OpenerIsRow DEF CvTypeOK, HomesAreBorn
  <2> QED
    BY <1>3, <2>1, <2>2 DEF FindSession, Created, CvTypeOK, Unread, Pulled, TextOnItsWay,
       PostOnItsWay, TextComes, PostComes, EchoTargets
<1>4. ASSUME NEW x \in Texts, CreateSession(x) PROVE TextsGoOn
  <2>1. SUFFICES ASSUME NEW t \in born, NEW s \in born \ {t}, NEW y \in Opener(s), TextComes(t, s, y)
                 PROVE  TextComes(t, s, y)'
    BY DEF TextsGoOn
  <2>2. /\ t \in Texts /\ s \in Texts /\ y \in Texts /\ home[y] = s /\ home[t] = t
        /\ routing[y] \in Rowed \cup {"lost"} /\ routing[t] \notin Early \cup AtLock
    BY <2>1, OpenerIsRow DEF CvTypeOK, HomesAreBorn
  <2> QED
    BY <1>4, <2>1, <2>2 DEF CreateSession, Created, CvTypeOK, Unread, Pulled, TextOnItsWay,
       PostOnItsWay, TextComes, PostComes, EchoTargets
<1>5. ASSUME NEW x \in Texts, PassGate(x) PROVE TextsGoOn
  <2>1. SUFFICES ASSUME NEW t \in born, NEW s \in born \ {t}, NEW y \in Opener(s), TextComes(t, s, y)
                 PROVE  TextComes(t, s, y)'
    BY DEF TextsGoOn
  <2>2. /\ t \in Texts /\ s \in Texts /\ y \in Texts /\ home[y] = s /\ home[t] = t
        /\ routing[y] \in Rowed \cup {"lost"} /\ routing[t] \notin Early \cup AtLock
    BY <2>1, OpenerIsRow DEF CvTypeOK, HomesAreBorn
  <2> QED
    BY <1>5, <2>1, <2>2 DEF PassGate, Created, CvTypeOK, Unread, Pulled, TextOnItsWay,
       PostOnItsWay, TextComes, PostComes, EchoTargets
<1>6. ASSUME NEW x \in Texts, ListSiblings(x) PROVE TextsGoOn
  <2>1. SUFFICES ASSUME NEW t \in born, NEW s \in born \ {t}, NEW y \in Opener(s), TextComes(t, s, y)
                 PROVE  TextComes(t, s, y)'
    BY DEF TextsGoOn
  <2>2. /\ t \in Texts /\ s \in Texts /\ y \in Texts /\ home[y] = s /\ home[t] = t
        /\ routing[y] \in Rowed \cup {"lost"} /\ routing[t] \notin Early \cup AtLock
    BY <2>1, OpenerIsRow DEF CvTypeOK, HomesAreBorn
  <2> QED
    BY <1>6, <2>1, <2>2 DEF ListSiblings, Created, CvTypeOK, Unread, Pulled, TextOnItsWay,
       PostOnItsWay, TextComes, PostComes, EchoTargets
<1>7. ASSUME NEW x \in Texts, CollectTopLevel(x) PROVE TextsGoOn
  <2>1. SUFFICES ASSUME NEW t \in born, NEW s \in born \ {t}, NEW y \in Opener(s), TextComes(t, s, y)
                 PROVE  TextComes(t, s, y)'
    BY DEF TextsGoOn
  <2>2. /\ t \in Texts /\ s \in Texts /\ y \in Texts /\ home[y] = s /\ home[t] = t
        /\ routing[y] \in Rowed \cup {"lost"} /\ routing[t] \notin Early \cup AtLock
    BY <2>1, OpenerIsRow DEF CvTypeOK, HomesAreBorn
  <2> QED
    BY <1>7, <2>1, <2>2 DEF CollectTopLevel, Created, CvTypeOK, Unread, Pulled, TextOnItsWay,
       PostOnItsWay, TextComes, PostComes, EchoTargets
<1>8. ASSUME NEW x \in Texts, SeedSession(x) PROVE TextsGoOn
  <2>1. SUFFICES ASSUME NEW t \in born, NEW s \in born \ {t}, NEW y \in Opener(s), TextComes(t, s, y)
                 PROVE  TextComes(t, s, y)'
    BY DEF TextsGoOn
  <2>2. /\ t \in Texts /\ s \in Texts /\ y \in Texts /\ home[y] = s /\ home[t] = t
        /\ routing[y] \in Rowed \cup {"lost"} /\ routing[t] \notin Early \cup AtLock
    BY <2>1, OpenerIsRow DEF CvTypeOK, HomesAreBorn
  <2>3. /\ routing[x] = "seed" /\ \A z \in Texts : z = x \/ routing'[z] = routing[z]
        /\ UNCHANGED <<listed, wakes, home, poster, posted>>
        /\ \A u \in Texts : u = x \/ gathered'[u] = gathered[u]
    BY <1>8 DEF SeedSession, CvTypeOK
  <2>4. \A u \in Texts : context[u] \subseteq context'[u]
    <3>1. CASE UNCHANGED context
      BY <3>1
    <3>2. ASSUME NEW r \in gathered[x], context' = [context EXCEPT ![x] = context[x] \cup {r}]
          PROVE  \A v \in Texts : context[v] \subseteq context'[v]
      BY <3>2 DEF CvTypeOK
    <3> QED
      BY <1>8, <3>1, <3>2 DEF SeedSession
  <2>5. \A r \in gathered[x] : (routing'[x] = "seed" /\ r \in gathered'[x]) \/ r \in context'[x]
    <3>1. CASE gathered[x] = {}
      BY <3>1
    <3>2. ASSUME NEW r \in gathered[x], context' = [context EXCEPT ![x] = context[x] \cup {r}],
                 gathered' = [gathered EXCEPT ![x] = gathered[x] \ {r}], UNCHANGED routing
          PROVE  \A z \in gathered[x] : (routing'[x] = "seed" /\ z \in gathered'[x]) \/ z \in context'[x]
      <4>1. context'[x] = context[x] \cup {r} /\ gathered'[x] = gathered[x] \ {r}
        BY <3>2 DEF CvTypeOK
      <4> QED
        BY <2>3, <3>2, <4>1
    <3> QED
      BY <1>8, <3>1, <3>2 DEF SeedSession
  <2> QED
    BY <2>1, <2>2, <2>3, <2>4, <2>5 DEF Unread, Pulled, TextComes, TextOnItsWay
<1>9. ASSUME NEW x \in Texts, WriteOwnRow(x) PROVE TextsGoOn
  <2>1. SUFFICES ASSUME NEW t \in born, NEW s \in born \ {t}, NEW y \in Opener(s), TextComes(t, s, y)
                 PROVE  TextComes(t, s, y)'
    BY DEF TextsGoOn
  <2>2. /\ t \in Texts /\ s \in Texts /\ y \in Texts /\ home[y] = s /\ home[t] = t
        /\ routing[y] \in Rowed \cup {"lost"} /\ routing[t] \notin Early \cup AtLock
    BY <2>1, OpenerIsRow DEF CvTypeOK, HomesAreBorn
  <2> QED
    BY <1>9, <2>1, <2>2 DEF WriteOwnRow, Created, CvTypeOK, Unread, Pulled, TextOnItsWay,
       PostOnItsWay, TextComes, PostComes, EchoTargets
<1>10. ASSUME NEW x \in Texts, ListTargets(x) PROVE TextsGoOn
  <2>1. SUFFICES ASSUME NEW t \in born, NEW s \in born \ {t}, NEW y \in Opener(s), TextComes(t, s, y)
                 PROVE  TextComes(t, s, y)'
    BY DEF TextsGoOn
  <2>2. /\ t \in Texts /\ s \in Texts /\ y \in Texts /\ home[y] = s /\ home[t] = t
        /\ routing[y] \in Rowed \cup {"lost"} /\ routing[t] \notin Early \cup AtLock
    BY <2>1, OpenerIsRow DEF CvTypeOK, HomesAreBorn
  <2> QED
    BY <1>10, <2>1, <2>2 DEF ListTargets, Created, CvTypeOK, Unread, Pulled, TextOnItsWay,
       PostOnItsWay, TextComes, PostComes, EchoTargets
<1>11. ASSUME NEW x \in Texts, EchoText(x) PROVE TextsGoOn
  <2>1. SUFFICES ASSUME NEW t \in born, NEW s \in born \ {t}, NEW y \in Opener(s), TextComes(t, s, y)
                 PROVE  TextComes(t, s, y)'
    BY DEF TextsGoOn
  <2>2. /\ t \in Texts /\ s \in Texts /\ y \in Texts /\ home[y] = s /\ home[t] = t
        /\ routing[y] \in Rowed \cup {"lost"} /\ routing[t] \notin Early \cup AtLock
    BY <2>1, OpenerIsRow DEF CvTypeOK, HomesAreBorn
  <2>3. /\ routing[x] = "echo" /\ routing'[x] \in {"echo", "done"}
        /\ \A z \in Texts : (z = x \/ routing'[z] = routing[z]) /\ (routing[z] = "echo" \/ routing'[z] = routing[z])
        /\ \A z \in Posts : z = x \/ posted'[z] = posted[z]
        /\ \A u \in Texts \cup Posts : u = x \/ listed'[u] = listed[u]
        /\ UNCHANGED <<gathered, wakes, home, poster>>
    BY <1>11, ConversationAssumption DEF EchoText, CvTypeOK
  <2>4. \A u \in Texts : context[u] \subseteq context'[u]
    <3>1. CASE UNCHANGED context
      BY <3>1
    <3>2. ASSUME NEW u \in listed[x], context' = [context EXCEPT ![u] = context[u] \cup {x}]
          PROVE  \A v \in Texts : context[v] \subseteq context'[v]
      BY <3>2 DEF CvTypeOK
    <3> QED
      BY <1>11, <3>1, <3>2 DEF EchoText
  <2>5. \A u \in listed[x] : (routing'[x] = "echo" /\ u \in listed'[x]) \/ x \in context'[u]
    <3>1. CASE listed[x] = {}
      BY <3>1
    <3>2. ASSUME NEW v \in listed[x], context' = [context EXCEPT ![v] = context[v] \cup {x}],
                 listed' = [listed EXCEPT ![x] = listed[x] \ {v}], UNCHANGED routing
          PROVE  \A u \in listed[x] : (routing'[x] = "echo" /\ u \in listed'[x]) \/ x \in context'[u]
      <4>1. v \in Texts /\ context'[v] = context[v] \cup {x} /\ listed'[x] = listed[x] \ {v}
        BY <3>2 DEF CvTypeOK
      <4> QED
        BY <2>3, <3>2, <4>1
    <3> QED
      BY <1>11, <3>1, <3>2 DEF EchoText
  <2> QED
    BY <2>1, <2>2, <2>3, <2>4, <2>5 DEF Unread, Pulled, TextComes, TextOnItsWay
<1>12. ASSUME NEW x \in Texts, CreationFails(x) PROVE TextsGoOn
  <2>1. SUFFICES ASSUME NEW t \in born, NEW s \in born \ {t}, NEW y \in Opener(s), TextComes(t, s, y)
                 PROVE  TextComes(t, s, y)'
    BY DEF TextsGoOn
  <2>2. /\ t \in Texts /\ s \in Texts /\ y \in Texts /\ home[y] = s /\ home[t] = t
        /\ routing[y] \in Rowed \cup {"lost"} /\ routing[t] \notin Early \cup AtLock
    BY <2>1, OpenerIsRow DEF CvTypeOK, HomesAreBorn
  <2> QED
    BY <1>12, <2>1, <2>2 DEF CreationFails, Created, CvTypeOK, Unread, Pulled, TextOnItsWay,
       PostOnItsWay, TextComes, PostComes, EchoTargets
<1>13. ASSUME NEW p \in Posts, PostTop(p) PROVE TextsGoOn
  <2>1. SUFFICES ASSUME NEW t \in born, NEW s \in born \ {t}, NEW y \in Opener(s), TextComes(t, s, y)
                 PROVE  TextComes(t, s, y)'
    BY DEF TextsGoOn
  <2>2. /\ t \in Texts /\ s \in Texts /\ y \in Texts /\ home[y] = s /\ home[t] = t
        /\ routing[y] \in Rowed \cup {"lost"} /\ routing[t] \notin Early \cup AtLock
    BY <2>1, OpenerIsRow DEF CvTypeOK, HomesAreBorn
  <2> QED
    BY <1>13, <2>1, <2>2 DEF PostTop, Created, CvTypeOK, Unread, Pulled, TextOnItsWay,
       PostOnItsWay, TextComes, PostComes, EchoTargets
<1>14. ASSUME NEW p \in Posts, DeliverPost(p) PROVE TextsGoOn
  <2>1. SUFFICES ASSUME NEW t \in born, NEW s \in born \ {t}, NEW y \in Opener(s), TextComes(t, s, y)
                 PROVE  TextComes(t, s, y)'
    BY DEF TextsGoOn
  <2>2. /\ t \in Texts /\ s \in Texts /\ y \in Texts /\ home[y] = s /\ home[t] = t
        /\ routing[y] \in Rowed \cup {"lost"} /\ routing[t] \notin Early \cup AtLock
    BY <2>1, OpenerIsRow DEF CvTypeOK, HomesAreBorn
  <2> QED
    BY <1>14, <2>1, <2>2 DEF DeliverPost, Created, CvTypeOK, Unread, Pulled, TextOnItsWay,
       PostOnItsWay, TextComes, PostComes, EchoTargets
<1>15. ASSUME NEW p \in Posts, ListPostTargets(p) PROVE TextsGoOn
  <2>1. SUFFICES ASSUME NEW t \in born, NEW s \in born \ {t}, NEW y \in Opener(s), TextComes(t, s, y)
                 PROVE  TextComes(t, s, y)'
    BY DEF TextsGoOn
  <2>2. /\ t \in Texts /\ s \in Texts /\ y \in Texts /\ home[y] = s /\ home[t] = t
        /\ routing[y] \in Rowed \cup {"lost"} /\ routing[t] \notin Early \cup AtLock
    BY <2>1, OpenerIsRow DEF CvTypeOK, HomesAreBorn
  <2> QED
    BY <1>15, <2>1, <2>2 DEF ListPostTargets, Created, CvTypeOK, Unread, Pulled, TextOnItsWay,
       PostOnItsWay, TextComes, PostComes, EchoTargets
<1>16. ASSUME NEW p \in Posts, EchoPost(p) PROVE TextsGoOn
  <2>1. SUFFICES ASSUME NEW t \in born, NEW s \in born \ {t}, NEW y \in Opener(s), TextComes(t, s, y)
                 PROVE  TextComes(t, s, y)'
    BY DEF TextsGoOn
  <2>2. /\ t \in Texts /\ s \in Texts /\ y \in Texts /\ home[y] = s /\ home[t] = t
        /\ routing[y] \in Rowed \cup {"lost"} /\ routing[t] \notin Early \cup AtLock
    BY <2>1, OpenerIsRow DEF CvTypeOK, HomesAreBorn
  <2>3. /\ posted[p] = "echo" /\ posted'[p] \in {"echo", "over"}
        /\ \A z \in Texts : (z = p \/ routing'[z] = routing[z]) /\ (routing[z] = "echo" \/ routing'[z] = routing[z])
        /\ \A z \in Posts : z = p \/ posted'[z] = posted[z]
        /\ \A u \in Texts \cup Posts : u = p \/ listed'[u] = listed[u]
        /\ UNCHANGED <<gathered, wakes, home, poster>>
    BY <1>16, ConversationAssumption DEF EchoPost, CvTypeOK
  <2>4. \A u \in Texts : context[u] \subseteq context'[u]
    <3>1. CASE UNCHANGED context
      BY <3>1
    <3>2. ASSUME NEW u \in listed[p], context' = [context EXCEPT ![u] = context[u] \cup {p}]
          PROVE  \A v \in Texts : context[v] \subseteq context'[v]
      BY <3>2 DEF CvTypeOK
    <3> QED
      BY <1>16, <3>1, <3>2 DEF EchoPost
  <2>5. \A u \in listed[p] : (posted'[p] = "echo" /\ u \in listed'[p]) \/ p \in context'[u]
    <3>1. CASE listed[p] = {}
      BY <3>1
    <3>2. ASSUME NEW v \in listed[p], context' = [context EXCEPT ![v] = context[v] \cup {p}],
                 listed' = [listed EXCEPT ![p] = listed[p] \ {v}], UNCHANGED posted
          PROVE  \A u \in listed[p] : (posted'[p] = "echo" /\ u \in listed'[p]) \/ p \in context'[u]
      <4>1. v \in Texts /\ context'[v] = context[v] \cup {p} /\ listed'[p] = listed[p] \ {v}
        BY <3>2 DEF CvTypeOK
      <4> QED
        BY <2>3, <3>2, <4>1
    <3> QED
      BY <1>16, <3>1, <3>2 DEF EchoPost
  <2> QED
    BY <2>1, <2>2, <2>3, <2>4, <2>5 DEF Unread, Pulled, TextComes, TextOnItsWay
<1>17. CASE ConversationHostDies
  <2>1. SUFFICES ASSUME NEW t \in born, NEW s \in born \ {t}, NEW y \in Opener(s), TextComes(t, s, y)
                 PROVE  TextComes(t, s, y)'
    BY DEF TextsGoOn
  <2>2. /\ t \in Texts /\ s \in Texts /\ y \in Texts /\ home[y] = s /\ home[t] = t
        /\ routing[y] \in Rowed \cup {"lost"} /\ routing[t] \notin Early \cup AtLock
    BY <2>1, OpenerIsRow DEF CvTypeOK, HomesAreBorn
  <2> QED
    BY <1>17, <2>1, <2>2 DEF ConversationHostDies, Created, CvTypeOK, Unread, Pulled, TextOnItsWay,
       PostOnItsWay, TextComes, PostComes, EchoTargets
<1>18. CASE UNCHANGED conversationVars
  BY <1>18 DEF TextsGoOn, TextComes, Unread, Pulled, TextOnItsWay, conversationVars
<1> QED
  BY <1>1, <1>2, <1>3, <1>4, <1>5, <1>6, <1>7, <1>8, <1>9, <1>10, <1>11, <1>12, <1>13, <1>14,
     <1>15, <1>16, <1>17, <1>18 DEF NextConversations, Route, Voice

\* So goes a post.
LEMMA PostWaysStep == CvInv /\ [NextConversations]_conversationVars => PostsGoOn
<1> SUFFICES ASSUME CvInv, [NextConversations]_conversationVars PROVE PostsGoOn
  OBVIOUS
<1> USE ConversationAssumption DEF CvInv, ThreadInv, CopyInv, Moves, Threads, Stages, Early,
   AtLock, Housed, Rowed
<1>1. ASSUME NEW x \in Texts, EvaluateEngage(x) PROVE PostsGoOn
  <2>1. SUFFICES ASSUME NEW t \in born, NEW q \in Posts, poster[q] \in born \ {t}, PostComes(t, q)
                 PROVE  PostComes(t, q)'
    BY DEF PostsGoOn
  <2>2. t \in Texts /\ home[t] = t /\ routing[t] \notin Early \cup AtLock
    BY <2>1 DEF CvTypeOK, HomesAreBorn
  <2> QED
    BY <1>1, <2>1, <2>2 DEF EvaluateEngage, Created, PostsOf, PostsAreBorn, CvTypeOK, Unread,
       Pulled, TextOnItsWay, PostOnItsWay, TextComes, PostComes, EchoTargets
<1>2. ASSUME NEW x \in Texts, JoinCreation(x) PROVE PostsGoOn
  <2>1. SUFFICES ASSUME NEW t \in born, NEW q \in Posts, poster[q] \in born \ {t}, PostComes(t, q)
                 PROVE  PostComes(t, q)'
    BY DEF PostsGoOn
  <2>2. t \in Texts /\ home[t] = t /\ routing[t] \notin Early \cup AtLock
    BY <2>1 DEF CvTypeOK, HomesAreBorn
  <2> QED
    BY <1>2, <2>1, <2>2 DEF JoinCreation, Created, PostsOf, PostsAreBorn, CvTypeOK, Unread, Pulled,
       TextOnItsWay, PostOnItsWay, TextComes, PostComes, EchoTargets
<1>3. ASSUME NEW x \in Texts, FindSession(x) PROVE PostsGoOn
  <2>1. SUFFICES ASSUME NEW t \in born, NEW q \in Posts, poster[q] \in born \ {t}, PostComes(t, q)
                 PROVE  PostComes(t, q)'
    BY DEF PostsGoOn
  <2>2. t \in Texts /\ home[t] = t /\ routing[t] \notin Early \cup AtLock
    BY <2>1 DEF CvTypeOK, HomesAreBorn
  <2> QED
    BY <1>3, <2>1, <2>2 DEF FindSession, Created, PostsOf, PostsAreBorn, CvTypeOK, Unread, Pulled,
       TextOnItsWay, PostOnItsWay, TextComes, PostComes, EchoTargets
<1>4. ASSUME NEW x \in Texts, CreateSession(x) PROVE PostsGoOn
  <2>1. SUFFICES ASSUME NEW t \in born, NEW q \in Posts, poster[q] \in born \ {t}, PostComes(t, q)
                 PROVE  PostComes(t, q)'
    BY DEF PostsGoOn
  <2>2. t \in Texts /\ home[t] = t /\ routing[t] \notin Early \cup AtLock
    BY <2>1 DEF CvTypeOK, HomesAreBorn
  <2> QED
    BY <1>4, <2>1, <2>2 DEF CreateSession, Created, PostsOf, PostsAreBorn, CvTypeOK, Unread,
       Pulled, TextOnItsWay, PostOnItsWay, TextComes, PostComes, EchoTargets
<1>5. ASSUME NEW x \in Texts, PassGate(x) PROVE PostsGoOn
  <2>1. SUFFICES ASSUME NEW t \in born, NEW q \in Posts, poster[q] \in born \ {t}, PostComes(t, q)
                 PROVE  PostComes(t, q)'
    BY DEF PostsGoOn
  <2>2. t \in Texts /\ home[t] = t /\ routing[t] \notin Early \cup AtLock
    BY <2>1 DEF CvTypeOK, HomesAreBorn
  <2> QED
    BY <1>5, <2>1, <2>2 DEF PassGate, Created, PostsOf, PostsAreBorn, CvTypeOK, Unread, Pulled,
       TextOnItsWay, PostOnItsWay, TextComes, PostComes, EchoTargets
<1>6. ASSUME NEW x \in Texts, ListSiblings(x) PROVE PostsGoOn
  <2>1. SUFFICES ASSUME NEW t \in born, NEW q \in Posts, poster[q] \in born \ {t}, PostComes(t, q)
                 PROVE  PostComes(t, q)'
    BY DEF PostsGoOn
  <2>2. t \in Texts /\ home[t] = t /\ routing[t] \notin Early \cup AtLock
    BY <2>1 DEF CvTypeOK, HomesAreBorn
  <2> QED
    BY <1>6, <2>1, <2>2 DEF ListSiblings, Created, PostsOf, PostsAreBorn, CvTypeOK, Unread, Pulled,
       TextOnItsWay, PostOnItsWay, TextComes, PostComes, EchoTargets
<1>7. ASSUME NEW x \in Texts, CollectTopLevel(x) PROVE PostsGoOn
  <2>1. SUFFICES ASSUME NEW t \in born, NEW q \in Posts, poster[q] \in born \ {t}, PostComes(t, q)
                 PROVE  PostComes(t, q)'
    BY DEF PostsGoOn
  <2>2. t \in Texts /\ home[t] = t /\ routing[t] \notin Early \cup AtLock
    BY <2>1 DEF CvTypeOK, HomesAreBorn
  <2> QED
    BY <1>7, <2>1, <2>2 DEF CollectTopLevel, Created, PostsOf, PostsAreBorn, CvTypeOK, Unread,
       Pulled, TextOnItsWay, PostOnItsWay, TextComes, PostComes, EchoTargets
<1>8. ASSUME NEW x \in Texts, SeedSession(x) PROVE PostsGoOn
  <2>1. SUFFICES ASSUME NEW t \in born, NEW q \in Posts, poster[q] \in born \ {t}, PostComes(t, q)
                 PROVE  PostComes(t, q)'
    BY DEF PostsGoOn
  <2>2. t \in Texts /\ home[t] = t /\ routing[t] \notin Early \cup AtLock
    BY <2>1 DEF CvTypeOK, HomesAreBorn
  <2>3. /\ routing[x] = "seed" /\ \A z \in Texts : z = x \/ routing'[z] = routing[z]
        /\ UNCHANGED <<listed, wakes, home, poster, posted>>
        /\ \A u \in Texts : u = x \/ gathered'[u] = gathered[u]
    BY <1>8 DEF SeedSession, CvTypeOK
  <2>4. \A u \in Texts : context[u] \subseteq context'[u]
    <3>1. CASE UNCHANGED context
      BY <3>1
    <3>2. ASSUME NEW r \in gathered[x], context' = [context EXCEPT ![x] = context[x] \cup {r}]
          PROVE  \A v \in Texts : context[v] \subseteq context'[v]
      BY <3>2 DEF CvTypeOK
    <3> QED
      BY <1>8, <3>1, <3>2 DEF SeedSession
  <2>5. \A r \in gathered[x] : (routing'[x] = "seed" /\ r \in gathered'[x]) \/ r \in context'[x]
    <3>1. CASE gathered[x] = {}
      BY <3>1
    <3>2. ASSUME NEW r \in gathered[x], context' = [context EXCEPT ![x] = context[x] \cup {r}],
                 gathered' = [gathered EXCEPT ![x] = gathered[x] \ {r}], UNCHANGED routing
          PROVE  \A z \in gathered[x] : (routing'[x] = "seed" /\ z \in gathered'[x]) \/ z \in context'[x]
      <4>1. context'[x] = context[x] \cup {r} /\ gathered'[x] = gathered[x] \ {r}
        BY <3>2 DEF CvTypeOK
      <4> QED
        BY <2>3, <3>2, <4>1
    <3> QED
      BY <1>8, <3>1, <3>2 DEF SeedSession
  <2> QED
    BY <2>1, <2>2, <2>3, <2>4, <2>5 DEF Unread, Pulled, PostComes, PostOnItsWay
<1>9. ASSUME NEW x \in Texts, WriteOwnRow(x) PROVE PostsGoOn
  <2>1. SUFFICES ASSUME NEW t \in born, NEW q \in Posts, poster[q] \in born \ {t}, PostComes(t, q)
                 PROVE  PostComes(t, q)'
    BY DEF PostsGoOn
  <2>2. t \in Texts /\ home[t] = t /\ routing[t] \notin Early \cup AtLock
    BY <2>1 DEF CvTypeOK, HomesAreBorn
  <2> QED
    BY <1>9, <2>1, <2>2 DEF WriteOwnRow, Created, PostsOf, PostsAreBorn, CvTypeOK, Unread, Pulled,
       TextOnItsWay, PostOnItsWay, TextComes, PostComes, EchoTargets
<1>10. ASSUME NEW x \in Texts, ListTargets(x) PROVE PostsGoOn
  <2>1. SUFFICES ASSUME NEW t \in born, NEW q \in Posts, poster[q] \in born \ {t}, PostComes(t, q)
                 PROVE  PostComes(t, q)'
    BY DEF PostsGoOn
  <2>2. t \in Texts /\ home[t] = t /\ routing[t] \notin Early \cup AtLock
    BY <2>1 DEF CvTypeOK, HomesAreBorn
  <2> QED
    BY <1>10, <2>1, <2>2 DEF ListTargets, Created, PostsOf, PostsAreBorn, CvTypeOK, Unread, Pulled,
       TextOnItsWay, PostOnItsWay, TextComes, PostComes, EchoTargets
<1>11. ASSUME NEW x \in Texts, EchoText(x) PROVE PostsGoOn
  <2>1. SUFFICES ASSUME NEW t \in born, NEW q \in Posts, poster[q] \in born \ {t}, PostComes(t, q)
                 PROVE  PostComes(t, q)'
    BY DEF PostsGoOn
  <2>2. t \in Texts /\ home[t] = t /\ routing[t] \notin Early \cup AtLock
    BY <2>1 DEF CvTypeOK, HomesAreBorn
  <2>3. /\ routing[x] = "echo" /\ routing'[x] \in {"echo", "done"}
        /\ \A z \in Texts : (z = x \/ routing'[z] = routing[z]) /\ (routing[z] = "echo" \/ routing'[z] = routing[z])
        /\ \A z \in Posts : z = x \/ posted'[z] = posted[z]
        /\ \A u \in Texts \cup Posts : u = x \/ listed'[u] = listed[u]
        /\ UNCHANGED <<gathered, wakes, home, poster>>
    BY <1>11, ConversationAssumption DEF EchoText, CvTypeOK
  <2>4. \A u \in Texts : context[u] \subseteq context'[u]
    <3>1. CASE UNCHANGED context
      BY <3>1
    <3>2. ASSUME NEW u \in listed[x], context' = [context EXCEPT ![u] = context[u] \cup {x}]
          PROVE  \A v \in Texts : context[v] \subseteq context'[v]
      BY <3>2 DEF CvTypeOK
    <3> QED
      BY <1>11, <3>1, <3>2 DEF EchoText
  <2>5. \A u \in listed[x] : (routing'[x] = "echo" /\ u \in listed'[x]) \/ x \in context'[u]
    <3>1. CASE listed[x] = {}
      BY <3>1
    <3>2. ASSUME NEW v \in listed[x], context' = [context EXCEPT ![v] = context[v] \cup {x}],
                 listed' = [listed EXCEPT ![x] = listed[x] \ {v}], UNCHANGED routing
          PROVE  \A u \in listed[x] : (routing'[x] = "echo" /\ u \in listed'[x]) \/ x \in context'[u]
      <4>1. v \in Texts /\ context'[v] = context[v] \cup {x} /\ listed'[x] = listed[x] \ {v}
        BY <3>2 DEF CvTypeOK
      <4> QED
        BY <2>3, <3>2, <4>1
    <3> QED
      BY <1>11, <3>1, <3>2 DEF EchoText
  <2> QED
    BY <2>1, <2>2, <2>3, <2>4, <2>5 DEF Unread, Pulled, PostComes, PostOnItsWay
<1>12. ASSUME NEW x \in Texts, CreationFails(x) PROVE PostsGoOn
  <2>1. SUFFICES ASSUME NEW t \in born, NEW q \in Posts, poster[q] \in born \ {t}, PostComes(t, q)
                 PROVE  PostComes(t, q)'
    BY DEF PostsGoOn
  <2>2. t \in Texts /\ home[t] = t /\ routing[t] \notin Early \cup AtLock
    BY <2>1 DEF CvTypeOK, HomesAreBorn
  <2> QED
    BY <1>12, <2>1, <2>2 DEF CreationFails, Created, PostsOf, PostsAreBorn, CvTypeOK, Unread,
       Pulled, TextOnItsWay, PostOnItsWay, TextComes, PostComes, EchoTargets
<1>13. ASSUME NEW p \in Posts, PostTop(p) PROVE PostsGoOn
  <2>1. SUFFICES ASSUME NEW t \in born, NEW q \in Posts, poster[q] \in born \ {t}, PostComes(t, q)
                 PROVE  PostComes(t, q)'
    BY DEF PostsGoOn
  <2>2. t \in Texts /\ home[t] = t /\ routing[t] \notin Early \cup AtLock
    BY <2>1 DEF CvTypeOK, HomesAreBorn
  <2> QED
    BY <1>13, <2>1, <2>2 DEF PostTop, Created, PostsOf, PostsAreBorn, CvTypeOK, Unread, Pulled,
       TextOnItsWay, PostOnItsWay, TextComes, PostComes, EchoTargets
<1>14. ASSUME NEW p \in Posts, DeliverPost(p) PROVE PostsGoOn
  <2>1. SUFFICES ASSUME NEW t \in born, NEW q \in Posts, poster[q] \in born \ {t}, PostComes(t, q)
                 PROVE  PostComes(t, q)'
    BY DEF PostsGoOn
  <2>2. t \in Texts /\ home[t] = t /\ routing[t] \notin Early \cup AtLock
    BY <2>1 DEF CvTypeOK, HomesAreBorn
  <2> QED
    BY <1>14, <2>1, <2>2 DEF DeliverPost, Created, PostsOf, PostsAreBorn, CvTypeOK, Unread, Pulled,
       TextOnItsWay, PostOnItsWay, TextComes, PostComes, EchoTargets
<1>15. ASSUME NEW p \in Posts, ListPostTargets(p) PROVE PostsGoOn
  <2>1. SUFFICES ASSUME NEW t \in born, NEW q \in Posts, poster[q] \in born \ {t}, PostComes(t, q)
                 PROVE  PostComes(t, q)'
    BY DEF PostsGoOn
  <2>2. t \in Texts /\ home[t] = t /\ routing[t] \notin Early \cup AtLock
    BY <2>1 DEF CvTypeOK, HomesAreBorn
  <2> QED
    BY <1>15, <2>1, <2>2 DEF ListPostTargets, Created, PostsOf, PostsAreBorn, CvTypeOK, Unread,
       Pulled, TextOnItsWay, PostOnItsWay, TextComes, PostComes, EchoTargets
<1>16. ASSUME NEW p \in Posts, EchoPost(p) PROVE PostsGoOn
  <2>1. SUFFICES ASSUME NEW t \in born, NEW q \in Posts, poster[q] \in born \ {t}, PostComes(t, q)
                 PROVE  PostComes(t, q)'
    BY DEF PostsGoOn
  <2>2. t \in Texts /\ home[t] = t /\ routing[t] \notin Early \cup AtLock
    BY <2>1 DEF CvTypeOK, HomesAreBorn
  <2>3. /\ posted[p] = "echo" /\ posted'[p] \in {"echo", "over"}
        /\ \A z \in Texts : (z = p \/ routing'[z] = routing[z]) /\ (routing[z] = "echo" \/ routing'[z] = routing[z])
        /\ \A z \in Posts : z = p \/ posted'[z] = posted[z]
        /\ \A u \in Texts \cup Posts : u = p \/ listed'[u] = listed[u]
        /\ UNCHANGED <<gathered, wakes, home, poster>>
    BY <1>16, ConversationAssumption DEF EchoPost, CvTypeOK
  <2>4. \A u \in Texts : context[u] \subseteq context'[u]
    <3>1. CASE UNCHANGED context
      BY <3>1
    <3>2. ASSUME NEW u \in listed[p], context' = [context EXCEPT ![u] = context[u] \cup {p}]
          PROVE  \A v \in Texts : context[v] \subseteq context'[v]
      BY <3>2 DEF CvTypeOK
    <3> QED
      BY <1>16, <3>1, <3>2 DEF EchoPost
  <2>5. \A u \in listed[p] : (posted'[p] = "echo" /\ u \in listed'[p]) \/ p \in context'[u]
    <3>1. CASE listed[p] = {}
      BY <3>1
    <3>2. ASSUME NEW v \in listed[p], context' = [context EXCEPT ![v] = context[v] \cup {p}],
                 listed' = [listed EXCEPT ![p] = listed[p] \ {v}], UNCHANGED posted
          PROVE  \A u \in listed[p] : (posted'[p] = "echo" /\ u \in listed'[p]) \/ p \in context'[u]
      <4>1. v \in Texts /\ context'[v] = context[v] \cup {p} /\ listed'[p] = listed[p] \ {v}
        BY <3>2 DEF CvTypeOK
      <4> QED
        BY <2>3, <3>2, <4>1
    <3> QED
      BY <1>16, <3>1, <3>2 DEF EchoPost
  <2> QED
    BY <2>1, <2>2, <2>3, <2>4, <2>5 DEF Unread, Pulled, PostComes, PostOnItsWay
<1>17. CASE ConversationHostDies
  <2>1. SUFFICES ASSUME NEW t \in born, NEW q \in Posts, poster[q] \in born \ {t}, PostComes(t, q)
                 PROVE  PostComes(t, q)'
    BY DEF PostsGoOn
  <2>2. t \in Texts /\ home[t] = t /\ routing[t] \notin Early \cup AtLock
    BY <2>1 DEF CvTypeOK, HomesAreBorn
  <2> QED
    BY <1>17, <2>1, <2>2 DEF ConversationHostDies, Created, PostsOf, PostsAreBorn, CvTypeOK,
       Unread, Pulled, TextOnItsWay, PostOnItsWay, TextComes, PostComes, EchoTargets
<1>18. CASE UNCHANGED conversationVars
  BY <1>18 DEF PostsGoOn, PostComes, Unread, Pulled, PostOnItsWay, conversationVars
<1> QED
  BY <1>1, <1>2, <1>3, <1>4, <1>5, <1>6, <1>7, <1>8, <1>9, <1>10, <1>11, <1>12, <1>13, <1>14,
     <1>15, <1>16, <1>17, <1>18 DEF NextConversations, Route, Voice

\* A session is made before it reads anything; a post is written once.
BornGated == \A t \in born' : t \in born \/ routing'[t] = "gated"
PostersStay == \A p \in Posts : posted'[p] = "written" \/ poster'[p] = poster[p]

\* So is every session.
LEMMA BornGatedStep == CvInv /\ [NextConversations]_conversationVars => BornGated
<1> SUFFICES ASSUME CvInv, [NextConversations]_conversationVars PROVE BornGated
  OBVIOUS
<1> USE ConversationAssumption DEF CvInv, ThreadInv, CopyInv, Moves, Threads, Stages, Early,
   AtLock, Housed, Rowed, CvTypeOK, BornGated
<1>1. ASSUME NEW x \in Texts, EvaluateEngage(x) PROVE BornGated
  BY <1>1 DEF EvaluateEngage
<1>2. ASSUME NEW x \in Texts, JoinCreation(x) PROVE BornGated
  BY <1>2 DEF JoinCreation
<1>3. ASSUME NEW x \in Texts, FindSession(x) PROVE BornGated
  BY <1>3 DEF FindSession
<1>4. ASSUME NEW x \in Texts, CreateSession(x) PROVE BornGated
  BY <1>4 DEF CreateSession
<1>5. ASSUME NEW x \in Texts, PassGate(x) PROVE BornGated
  BY <1>5 DEF PassGate
<1>6. ASSUME NEW x \in Texts, ListSiblings(x) PROVE BornGated
  BY <1>6 DEF ListSiblings
<1>7. ASSUME NEW x \in Texts, CollectTopLevel(x) PROVE BornGated
  BY <1>7 DEF CollectTopLevel
<1>8. ASSUME NEW x \in Texts, SeedSession(x) PROVE BornGated
  BY <1>8 DEF SeedSession
<1>9. ASSUME NEW x \in Texts, WriteOwnRow(x) PROVE BornGated
  BY <1>9 DEF WriteOwnRow
<1>10. ASSUME NEW x \in Texts, ListTargets(x) PROVE BornGated
  BY <1>10 DEF ListTargets
<1>11. ASSUME NEW x \in Texts, EchoText(x) PROVE BornGated
  BY <1>11 DEF EchoText
<1>12. ASSUME NEW x \in Texts, CreationFails(x) PROVE BornGated
  BY <1>12 DEF CreationFails
<1>13. ASSUME NEW p \in Posts, PostTop(p) PROVE BornGated
  BY <1>13 DEF PostTop
<1>14. ASSUME NEW p \in Posts, DeliverPost(p) PROVE BornGated
  BY <1>14 DEF DeliverPost
<1>15. ASSUME NEW p \in Posts, ListPostTargets(p) PROVE BornGated
  BY <1>15 DEF ListPostTargets
<1>16. ASSUME NEW p \in Posts, EchoPost(p) PROVE BornGated
  BY <1>16 DEF EchoPost
<1>17. CASE ConversationHostDies
  BY <1>17 DEF ConversationHostDies
<1>18. CASE UNCHANGED conversationVars
  BY <1>18 DEF conversationVars
<1> QED
  BY <1>1, <1>2, <1>3, <1>4, <1>5, <1>6, <1>7, <1>8, <1>9, <1>10, <1>11, <1>12, <1>13, <1>14,
     <1>15, <1>16, <1>17, <1>18 DEF NextConversations, Route, Voice

LEMMA NewIsGated ==
  ASSUME CvInv, [NextConversations]_conversationVars, NEW t \in born', t \notin born
  PROVE  routing'[t] = "gated"
BY BornGatedStep DEF BornGated

\* So is every post.
LEMMA PostersStep == CvInv /\ [NextConversations]_conversationVars => PostersStay
<1> SUFFICES ASSUME CvInv, [NextConversations]_conversationVars PROVE PostersStay
  OBVIOUS
<1> USE ConversationAssumption DEF CvInv, ThreadInv, CopyInv, Moves, Threads, Stages, Early,
   AtLock, Housed, Rowed, CvTypeOK, PostersStay
<1>1. ASSUME NEW x \in Texts, EvaluateEngage(x) PROVE PostersStay
  BY <1>1 DEF EvaluateEngage
<1>2. ASSUME NEW x \in Texts, JoinCreation(x) PROVE PostersStay
  BY <1>2 DEF JoinCreation
<1>3. ASSUME NEW x \in Texts, FindSession(x) PROVE PostersStay
  BY <1>3 DEF FindSession
<1>4. ASSUME NEW x \in Texts, CreateSession(x) PROVE PostersStay
  BY <1>4 DEF CreateSession
<1>5. ASSUME NEW x \in Texts, PassGate(x) PROVE PostersStay
  BY <1>5 DEF PassGate
<1>6. ASSUME NEW x \in Texts, ListSiblings(x) PROVE PostersStay
  BY <1>6 DEF ListSiblings
<1>7. ASSUME NEW x \in Texts, CollectTopLevel(x) PROVE PostersStay
  BY <1>7 DEF CollectTopLevel
<1>8. ASSUME NEW x \in Texts, SeedSession(x) PROVE PostersStay
  BY <1>8 DEF SeedSession
<1>9. ASSUME NEW x \in Texts, WriteOwnRow(x) PROVE PostersStay
  BY <1>9 DEF WriteOwnRow
<1>10. ASSUME NEW x \in Texts, ListTargets(x) PROVE PostersStay
  BY <1>10 DEF ListTargets
<1>11. ASSUME NEW x \in Texts, EchoText(x) PROVE PostersStay
  BY <1>11 DEF EchoText
<1>12. ASSUME NEW x \in Texts, CreationFails(x) PROVE PostersStay
  BY <1>12 DEF CreationFails
<1>13. ASSUME NEW p \in Posts, PostTop(p) PROVE PostersStay
  BY <1>13 DEF PostTop
<1>14. ASSUME NEW p \in Posts, DeliverPost(p) PROVE PostersStay
  BY <1>14 DEF DeliverPost
<1>15. ASSUME NEW p \in Posts, ListPostTargets(p) PROVE PostersStay
  BY <1>15 DEF ListPostTargets
<1>16. ASSUME NEW p \in Posts, EchoPost(p) PROVE PostersStay
  BY <1>16 DEF EchoPost
<1>17. CASE ConversationHostDies
  BY <1>17 DEF ConversationHostDies
<1>18. CASE UNCHANGED conversationVars
  BY <1>18 DEF conversationVars
<1> QED
  BY <1>1, <1>2, <1>3, <1>4, <1>5, <1>6, <1>7, <1>8, <1>9, <1>10, <1>11, <1>12, <1>13, <1>14,
     <1>15, <1>16, <1>17, <1>18 DEF NextConversations, Route, Voice

\* Every step leaves to each session its way to what opened its siblings.
LEMMA OpenersComeStep == CvInv /\ [NextConversations]_conversationVars => OpenersCome'
<1> SUFFICES ASSUME CvInv, [NextConversations]_conversationVars,
                    NEW t \in born', NEW s \in born' \ {t}, NEW x \in Opener(s)'
             PROVE  TextComes(t, s, x)'
  BY DEF OpenersCome
<1>1. CvTypeOK /\ CvTypeOK' /\ HomesAreBorn /\ RowsAreHome /\ OpenersCome /\ Births
  BY CvTypeStep, BirthsStep DEF CvInv, ThreadInv, CopyInv
<1>2. s \in Texts /\ t \in Texts /\ (x \in Opener(s) \/ routing'[x] = "fan")
  BY <1>1, OpenersStay DEF CvTypeOK
<1>3. CASE routing'[x] = "fan"
  BY <1>3 DEF TextComes, TextOnItsWay
<1>4. CASE x \in Opener(s)
  <2>1. home[x] = s /\ x \in Texts
    BY <1>1, <1>2, <1>4, OpenerIsRow
  <2>2. s \in born
    BY <1>1, <1>2, <2>1, ConversationAssumption DEF HomesAreBorn
  <2>3. CASE t \in born
    <3>1. TextComes(t, s, x)
      BY <1>1, <1>4, <2>2, <2>3 DEF OpenersCome
    <3> QED
      BY <1>4, <2>2, <2>3, <3>1, TextsStep DEF TextsGoOn
  <2>4. CASE t \notin born
    BY <2>4, NewIsGated DEF TextComes, Unread
  <2> QED
    BY <2>3, <2>4
<1> QED
  BY <1>2, <1>3, <1>4

\* Every step leaves to each session its way to the posts of its siblings.
LEMMA PostsComeStep == CvInv /\ [NextConversations]_conversationVars => PostsCome'
<1> SUFFICES ASSUME CvInv, [NextConversations]_conversationVars,
                    NEW t \in born', NEW p \in Posts, poster'[p] \in born' \ {t}
             PROVE  PostComes(t, p)'
  BY DEF PostsCome
<1>1. CvTypeOK /\ PostsAreBorn /\ PostsAreBorn' /\ PostsCome /\ PostersStay
  BY PostersStep, PostsStep DEF CvInv, CopyInv
<1>2. CASE posted'[p] = "written"
  BY <1>2 DEF PostComes, PostOnItsWay
<1>3. CASE posted'[p] # "written" /\ t \notin born
  BY <1>3, NewIsGated DEF PostComes, Unread
<1>4. CASE posted'[p] # "written" /\ t \in born
  <2>1. poster'[p] = poster[p] /\ poster[p] # Unborn
    BY <1>1, <1>4, ConversationAssumption, CvTypeStep DEF PostersStay, CvTypeOK
  <2>2. poster[p] \in born \ {t}
    BY <1>1, <2>1 DEF PostsAreBorn
  <2>3. PostComes(t, p)
    BY <1>1, <1>4, <2>2 DEF PostsCome
  <2> QED
    BY <1>4, <2>2, <2>3, PostWaysStep DEF PostsGoOn
<1> QED
  BY <1>2, <1>3, <1>4

-----------------------------------------------------------------------------
\* The initial states satisfy the invariant.
LEMMA CvInit == InitConversations => CvInv
<1> SUFFICES ASSUME InitConversations PROVE CvInv
  OBVIOUS
<1> USE ConversationAssumption DEF InitConversations
<1>1. CvTypeOK
  <2>1. chain \in [Threads -> Seq(Texts)] /\ ownRows \in [Texts -> Seq(Texts)]
    OBVIOUS
  <2> QED
    BY <2>1 DEF CvTypeOK, Stages
<1>2. LockHolds /\ CreatesTheFirst /\ HomesAreBorn /\ OneSessionPerThread
  <2>1. \A t \in Threads : DOMAIN chain[t] = {}
    OBVIOUS
  <2>2. \A x \in Texts : routing[x] \in Early
    BY DEF Early
  <2> QED
    BY <2>1, <2>2 DEF LockHolds, CreatesTheFirst, HomesAreBorn, OneSessionPerThread, Early, AtLock,
       Housed
<1>3. RowsAreHome /\ CopiesAreAbroad /\ PostsAreBorn
  <2>1. \A s \in Texts : DOMAIN ownRows[s] = {}
    OBVIOUS
  <2>2. \A x \in Texts : routing[x] \notin Rowed
    BY DEF Rowed
  <2> QED
    BY <2>1, <2>2 DEF RowsAreHome, CopiesAreAbroad, PostsAreBorn
<1>4. OpenersCome /\ PostsCome
  BY DEF OpenersCome, PostsCome
<1> QED
  BY <1>1, <1>2, <1>3, <1>4 DEF CvInv, ThreadInv, CopyInv

\* Who has an inductive way to everything has everything when the routings are over.
LEMMA CvSafe == CvInv => ConversationSafety
<1> SUFFICES ASSUME CvInv PROVE ConversationSafety
  OBVIOUS
<1>1. /\ CvTypeOK /\ HomesAreBorn /\ OneSessionPerThread /\ RowsAreHome /\ CopiesAreAbroad
      /\ PostsAreBorn /\ OpenersCome /\ PostsCome
  BY DEF CvInv, ThreadInv, CopyInv
<1>2. OpenersKnown
  BY <1>1 DEF OpenersKnown, OpenersCome, TextComes, Grown, Unread, Pulled, TextOnItsWay, Knows
<1>3. PostsKnown
  BY <1>1 DEF PostsKnown, PostsCome, PostComes, PostsAreBorn, Grown, Unread, Pulled, PostOnItsWay,
     Knows
<1>4. ASSUME NEW x \in Texts, routing[x] = "done"
      PROVE  {s \in born : x \in Range(ownRows[s])} = {home[x]} /\ ThreadOf[home[x]] = ThreadOf[x]
  <2>1. home[x] \in born /\ ThreadOf[home[x]] = ThreadOf[x]
    BY <1>1, <1>4 DEF HomesAreBorn, Housed
  <2>2. \E i \in DOMAIN ownRows[home[x]] : ownRows[home[x]][i] = x
    BY <1>1, <1>4 DEF RowsAreHome, Rowed, HasRow
  <2>3. \A s \in born : \A i \in DOMAIN ownRows[s] : ownRows[s][i] = x => s = home[x]
    BY <1>1 DEF RowsAreHome, CvTypeOK
  <2> QED
    BY <2>1, <2>2, <2>3 DEF Range
<1>5. ASSUME NEW s \in born
      PROVE  Cardinality(Range(ownRows[s])) = Len(ownRows[s]) /\ Range(ownRows[s]) \cap context[s] = {}
  <2> DEFINE q == ownRows[s]
             n == Len(q)
  <2>1. s \in Texts /\ q \in Seq(Texts) /\ n \in Nat /\ DOMAIN q = 1 .. n
    BY <1>1 DEF CvTypeOK
  <2>2. \A i, j \in DOMAIN q : q[i] = q[j] => i = j
    BY <1>1, <2>1 DEF RowsAreHome
  <2>3. q \in [1 .. n -> Range(q)] /\ \A y \in Range(q) : \E i \in 1 .. n : q[i] = y
    <3> HIDE DEF q
    <3> QED
      BY <2>1 DEF Range
  <2>4. q \in Bijection(1 .. n, Range(q))
    BY <2>1, <2>2, <2>3 DEF Bijection, Injection, IsInjective, Surjection
  <2>5. Cardinality(Range(q)) = n
    BY <2>1, <2>4, FS_CountingElements DEF ExistsBijection
  <2>6. \A y \in Range(q) : y \in Texts /\ home[y] = s
    BY <1>1, <2>1 DEF Range, RowsAreHome
  <2>7. Range(q) \cap context[s] = {}
    BY <1>1, <2>1, <2>6 DEF CopiesAreAbroad
  <2> QED
    BY <2>5, <2>7
<1>6. WrittenOnce
  BY <1>4, <1>5 DEF WrittenOnce
<1> QED
  BY <1>1, <1>2, <1>3, <1>6 DEF ConversationSafety

\* Each step keeps the parts of the invariant.
LEMMA CvStep == CvInv /\ [NextConversations]_conversationVars => CvInv'
BY CvTypeStep, HomesStep, LockStep, FirstStep, RowsStep, CopiesStep, PostsStep, OpenersComeStep,
   PostsComeStep DEF CvInv, ThreadInv, CopyInv

\* The sessions of a conversation always satisfy the invariant.
THEOREM ConversationInvariant == ConversationSpec => []CvInv
BY CvInit, CvStep, PTL DEF ConversationSpec

\* The types of the conversation's state (src/router.ts, src/session-manager.ts).
THEOREM ConversationTypes == ConversationSpec => []CvTypeOK
<1>1. CvInv => CvTypeOK
  BY DEF CvInv
<1> QED
  BY ConversationInvariant, <1>1, PTL

\* One session per thread, each message written once in a session of its thread, and
\* every session that is through knows what opened its siblings and what they posted,
\* for any number of messages, threads and posts, however their routings interleave.
THEOREM ConversationsAreSafe == ConversationSpec => []ConversationSafety
BY ConversationInvariant, CvSafe, PTL

-----------------------------------------------------------------------------
(* Admission: the inductive invariant.                                     *)

Asks == Mail \X (Agents \cup {"channel"})
AskSteps == {"idle", "start", "check", "insert", "card", "decline", "done"}
TaskSteps == {"idle", "done", "route", "fan", "deliver", "admit", "deny", "drop", "member", "unhold",
              "reject", "abandon", "prompt", "prompting", "wire"}
AdTasks == [pc : TaskSteps, mail : Mail \cup {NoMail}, agent : Agents, todo : SUBSET Agents]
SenderRows == {NoRow, Stamp} \cup {HeldFor(m, a) : m \in Mail, a \in Agents}

AdShape ==
  /\ task \in [AdWorkers -> AdTasks] /\ ask \in [Asks -> AskSteps] /\ senderHold \in [Senders -> SenderRows]
  /\ \A t \in AdWorkers : task[t].pc \notin {"idle", "done"} => task[t].mail \in Mail

AdRest ==
  /\ policy \in Policies /\ denied \in BOOLEAN
  /\ wired \subseteq Agents /\ members \subseteq Senders \X Agents
  /\ channel \in Mail \cup {NoMail} /\ carded \subseteq Asks
  /\ naming \in BOOLEAN /\ inbox \subseteq Mail \X Agents
  /\ kept \subseteq Asks /\ ended \subseteq Mail
  /\ adCrashes \in 0 .. MaxAdCrashes /\ adDied \in BOOLEAN /\ flips \in 0 .. MaxFlips

\* Nobody is asked about, admitted to or served by an agent the channel is not
\* wired to: the channel's wirings only grow.
FansOverWired == \A t \in AdWorkers : task[t].pc \in {"fan", "deliver"} => task[t].todo \subseteq wired
DecidesOnWired ==
  \A t \in AdWorkers : task[t].pc \in {"admit", "deny", "drop", "member", "unhold"} => task[t].agent \in wired
AskedIsWired == \A m \in Mail, a \in Agents : ask[<<m, a>>] # "idle" => a \in wired
HeldIsWired == \A s \in Senders, m \in Mail, a \in Agents : senderHold[s] = HeldFor(m, a) => a \in wired
\* A message is not replayed before its sender is a member.
MemberBeforeReplay ==
  \A t \in AdWorkers : task[t].pc \in {"drop", "unhold"} => Admitted(task[t].mail, task[t].agent)
\* A message is routed when it comes, and again after its sender was admitted.
WillHear(m) == \E a \in wired : Admitted(m, a)
RoutedOnceOrAdmitted ==
  \A t \in AdWorkers : task[t].pc \in {"route", "fan", "deliver"} =>
    WillHear(task[t].mail) \/ (t = task[t].mail /\ ask[<<t, "channel">>] = "idle")
FreshIsUnasked == \A m \in Mail : task[m].pc = "idle" => ask[<<m, "channel">>] = "idle"
KeptWasAsked == \A m \in Mail : <<m, "channel">> \in kept => ask[<<m, "channel">>] # "idle"
\* A message for which the channel was asked about is not asked about again
\* when one agent was connected.
AskedOnce ==
  \A m \in Mail, a \in Agents : ask[<<m, "channel">>] # "idle" /\ wired = {a} =>
    ask[<<m, a>>] = "idle" /\ \A s \in Senders : senderHold[s] # HeldFor(m, a)
\* The replay that will bring a message to an agent.
Carries(t, m) ==
  /\ task[t].mail = m
  /\ \E a \in wired : Admitted(m, a) /\ (task[t].pc = "route" \/ (task[t].pc \in {"fan", "deliver"} /\ a \in task[t].todo))
Arrived(m) == \E a \in Agents : <<m, a>> \in inbox
KeptIsCarried ==
  \A r \in kept : adDied \/ Held(r[1]) \/ r[1] \in ended \/ Arrived(r[1]) \/ \E t \in AdWorkers : Carries(t, r[1])

WiredInv == FansOverWired /\ DecidesOnWired /\ AskedIsWired /\ HeldIsWired /\ MemberBeforeReplay
OnceInv == RoutedOnceOrAdmitted /\ FreshIsUnasked /\ KeptWasAsked /\ AskedOnce
AdInv == AdShape /\ AdRest /\ WiredInv /\ OnceInv /\ KeptIsCarried

-----------------------------------------------------------------------------
(* What a step does.                                                       *)

\* The ways a task moves: it ends, begins, fans out, or goes on to decide.
Quiet == {"idle", "done", "reject", "abandon", "prompt", "prompting", "wire"}
SameJob(t) == task'[t].mail = task[t].mail /\ task'[t].agent = task[t].agent
Ends(t) ==
  /\ task'[t].pc \in Quiet /\ (task'[t].pc = "idle" => task[t].pc = "idle")
  /\ \/ task[t].pc \notin {"route", "fan", "deliver"}
     \/ adDied'
     \/ task[t].pc = "route" /\ wired = {}
     \/ task[t].pc = "fan" /\ task[t].todo = {}
     \/ task[t].pc = "deliver" /\ <<task[t].mail, task[t].agent>> \in inbox'
TaskBegun(t) == t \in Mail /\ task[t].pc = "idle" /\ task'[t].pc = "route" /\ task'[t].mail = t
FansOut(t) ==
  /\ task'[t].mail = task[t].mail
  /\ \/ task[t].pc = "route" /\ task'[t].pc = "fan" /\ task'[t].todo = wired
     \/ task[t].pc = "fan" /\ task'[t].pc = "deliver" /\ task'[t].todo = task[t].todo
     \/ /\ task[t].pc = "fan" /\ task'[t].pc = "fan"
        /\ \E a \in Agents : ~Admitted(task[t].mail, a) /\ task'[t].todo = task[t].todo \ {a}
     \/ /\ task[t].pc = "deliver" /\ task'[t].pc = "fan" /\ task'[t].todo \subseteq task[t].todo
        /\ <<task[t].mail, task[t].agent>> \in inbox'
TaskPicks(t) ==
  /\ task[t].pc = "idle" /\ task'[t].pc \in {"admit", "deny"}
  /\ task'[t].mail \in Mail /\ task'[t].agent \in Agents
  /\ senderHold[Author[task'[t].mail]] = HeldFor(task'[t].mail, task'[t].agent)
Decides(t) ==
  /\ SameJob(t)
  /\ \/ task[t].pc = "admit" /\ task'[t].pc = "drop" /\ Admitted(task[t].mail, task[t].agent)'
     \/ task[t].pc = "wire" /\ task'[t].pc = "member" /\ task[t].agent \in wired'
     \/ task[t].pc = "member" /\ task'[t].pc = "unhold" /\ Admitted(task[t].mail, task[t].agent)'
     \/ task[t].pc \in {"drop", "unhold"} /\ task'[t].pc = "route"
TaskMoves == \A t \in AdWorkers :
  task'[t] = task[t] \/ Ends(t) \/ TaskBegun(t) \/ FansOut(t) \/ TaskPicks(t) \/ Decides(t)

Kept ==
  /\ wired \subseteq wired' /\ members \subseteq members' /\ inbox \subseteq inbox' /\ ended \subseteq ended'
  /\ adDied => adDied'
  /\ \A r \in Asks : ask[r] # "idle" => ask'[r] # "idle"

-----------------------------------------------------------------------------
(* Types.                                                                  *)

\* Every step keeps the shape of tasks, requests and rows.
LEMMA ShapeStep == AdInv /\ [NextAdmission]_admissionVars => AdShape'
<1> SUFFICES ASSUME AdInv, [NextAdmission]_admissionVars PROVE AdShape'
  OBVIOUS
<1> USE AdmissionConstants DEF AdInv, desk, bounds, access, AdGoto, AdDone, Begins, AskAt,
   SpentWorker, FreeWorker, Agents, Senders, AdWorkers
<1>1. ASSUME NEW m \in Mail, Receive(m) PROVE AdShape'
  <2>1. task' = [task EXCEPT ![m].pc = "route", ![m].mail = m] /\ UNCHANGED <<ask, senderHold>>
    BY <1>1 DEF Receive
  <2>2. [task[m] EXCEPT !.pc = "route", !.mail = m] \in AdTasks
    <3>1. task[m] \in AdTasks
      BY DEF AdShape
    <3> QED
      BY <3>1 DEF AdTasks, TaskSteps
  <2>3. task' \in [AdWorkers -> AdTasks] /\ \A t \in AdWorkers : task'[t].mail = task[t].mail \/ t = m
    BY <2>1, <2>2 DEF AdShape, AdTasks
  <2>4. task'[m].mail = m /\ \A t \in AdWorkers \ {m} : task'[t] = task[t]
    BY <2>1 DEF AdShape, AdTasks
  <2> QED
    BY <2>1, <2>3, <2>4 DEF AdShape
<1>2. ASSUME NEW m \in Mail, RequestChannel(m) PROVE AdShape'
  BY <1>2 DEF AdShape, AdTasks, TaskSteps, AskSteps, Asks, SenderRows, NoRow, Stamp, HeldFor,
     RequestChannel
<1>3. ASSUME NEW m \in Mail, InsertChannel(m) PROVE AdShape'
  BY <1>3 DEF AdShape, AdTasks, TaskSteps, AskSteps, Asks, SenderRows, NoRow, Stamp, HeldFor,
     InsertChannel
<1>4. ASSUME NEW t \in AdWorkers, RouteInbound(t) PROVE AdShape'
  BY SMTT(60), <1>4 DEF AdShape, AdTasks, TaskSteps, AskSteps, Asks, SenderRows, NoRow, Stamp, HeldFor,
     RouteInbound
<1>5. ASSUME NEW t \in AdWorkers, NEW a \in Agents, AccessGate(t, a) PROVE AdShape'
  BY SMTT(60), <1>5 DEF AdShape, AdTasks, TaskSteps, AskSteps, Asks, SenderRows, NoRow, Stamp, HeldFor,
     AccessGate
<1>6. ASSUME NEW t \in AdWorkers, DeliverToAgent(t) PROVE AdShape'
  BY <1>6 DEF AdShape, AdTasks, TaskSteps, AskSteps, Asks, SenderRows, NoRow, Stamp, HeldFor,
     DeliverToAgent
<1>7. ASSUME NEW t \in AdWorkers, FanOver(t) PROVE AdShape'
  BY <1>7 DEF AdShape, AdTasks, TaskSteps, AskSteps, Asks, SenderRows, NoRow, Stamp, HeldFor,
     FanOver
<1>8. ASSUME NEW t \in AdWorkers, AddMember(t) PROVE AdShape'
  BY <1>8 DEF AdShape, AdTasks, TaskSteps, AskSteps, Asks, SenderRows, NoRow, Stamp, HeldFor,
     AddMember
<1>9. ASSUME NEW t \in AdWorkers, DropSender(t) PROVE AdShape'
  BY SMTT(60), <1>9 DEF AdShape, AdTasks, TaskSteps, AskSteps, Asks, SenderRows, NoRow, Stamp, HeldFor,
     DropSender
<1>10. ASSUME NEW t \in AdWorkers, DenyChannel(t) PROVE AdShape'
  BY <1>10 DEF AdShape, AdTasks, TaskSteps, AskSteps, Asks, SenderRows, NoRow, Stamp, HeldFor,
     DenyChannel
<1>11. ASSUME NEW t \in AdWorkers, DropChannel(t) PROVE AdShape'
  BY <1>11 DEF AdShape, AdTasks, TaskSteps, AskSteps, Asks, SenderRows, NoRow, Stamp, HeldFor,
     DropChannel
<1>12. ASSUME NEW t \in AdWorkers, ArmNaming(t) PROVE AdShape'
  BY <1>12 DEF AdShape, AdTasks, TaskSteps, AskSteps, Asks, SenderRows, NoRow, Stamp, HeldFor,
     ArmNaming
<1>13. ASSUME NEW t \in AdWorkers, PromptSettles(t) PROVE AdShape'
  BY <1>13 DEF AdShape, AdTasks, TaskSteps, AskSteps, Asks, SenderRows, NoRow, Stamp, HeldFor,
     PromptSettles
<1>14. ASSUME NEW t \in AdWorkers, WireChannel(t) PROVE AdShape'
  BY <1>14 DEF AdShape, AdTasks, TaskSteps, AskSteps, Asks, SenderRows, NoRow, Stamp, HeldFor,
     WireChannel
<1>15. ASSUME NEW t \in AdWorkers, Unhold(t) PROVE AdShape'
  BY <1>15 DEF AdShape, AdTasks, TaskSteps, AskSteps, Asks, SenderRows, NoRow, Stamp, HeldFor,
     Unhold
<1>16. ASSUME NEW r \in DOMAIN ask, SendCard(r) PROVE AdShape'
  BY <1>16 DEF AdShape, AdTasks, TaskSteps, AskSteps, Asks, SenderRows, NoRow, Stamp, HeldFor,
     SendCard
<1>17. ASSUME NEW r \in DOMAIN ask, ClearStamp(r) PROVE AdShape'
  BY <1>17 DEF AdShape, AdTasks, TaskSteps, AskSteps, Asks, SenderRows, NoRow, Stamp, HeldFor,
     ClearStamp
<1>18. ASSUME NEW r \in DOMAIN ask, RequestSender(r) PROVE AdShape'
  BY <1>18 DEF AdShape, AdTasks, TaskSteps, AskSteps, Asks, SenderRows, NoRow, Stamp, HeldFor,
     RequestSender
<1>19. ASSUME NEW r \in DOMAIN ask, InsertSender(r) PROVE AdShape'
  BY <1>19 DEF AdShape, AdTasks, TaskSteps, AskSteps, Asks, SenderRows, NoRow, Stamp, HeldFor,
     InsertSender
<1>20. ASSUME NEW r \in DOMAIN ask, Decline(r) PROVE AdShape'
  BY <1>20 DEF AdShape, AdTasks, TaskSteps, AskSteps, Asks, SenderRows, NoRow, Stamp, HeldFor,
     Decline
<1>21. ASSUME NEW k \in Presses, PressSender(k) PROVE AdShape'
  <2>1. UNCHANGED <<ask, senderHold>>
    BY <1>21 DEF PressSender
  <2>2. PICK r \in carded, v \in {"admit", "deny"} :
          /\ r[2] # "channel"
          /\ \/ task' = [task EXCEPT ![k] = [pc |-> v, mail |-> r[1], agent |-> r[2], todo |-> {}]]
             \/ task' = [task EXCEPT ![k] = SpentWorker]
    BY <1>21 DEF PressSender
  <2>3. r \in Asks
    BY DEF AdRest, AdShape
  <2>4. r[1] \in Mail /\ r[2] \in Agents
    BY <2>2, <2>3 DEF Asks
  <2>5. CASE task' = [task EXCEPT ![k] = SpentWorker]
    BY <2>1, <2>5 DEF AdShape, AdTasks, TaskSteps, AskSteps, Asks, SenderRows, NoRow, Stamp, HeldFor
  <2>6. CASE task' = [task EXCEPT ![k] = [pc |-> v, mail |-> r[1], agent |-> r[2], todo |-> {}]]
    <3>1. [pc |-> v, mail |-> r[1], agent |-> r[2], todo |-> {}] \in AdTasks
      BY <2>4 DEF AdTasks, TaskSteps
    <3>2. task' \in [AdWorkers -> AdTasks]
      BY <2>6, <3>1 DEF AdShape
    <3> QED
      BY <2>1, <2>4, <2>6, <3>2 DEF AdShape
  <2> QED
    BY <2>2, <2>5, <2>6
<1>22. ASSUME NEW k \in Presses, PressChannel(k) PROVE AdShape'
  BY <1>22 DEF AdShape, AdTasks, TaskSteps, AskSteps, Asks, SenderRows, NoRow, Stamp, HeldFor,
     PressChannel
<1>23. CASE NameReply
  <2>1. UNCHANGED <<ask, senderHold>>
    BY <1>23 DEF NameReply
  <2>2. CASE task' = [task EXCEPT !["name"] = SpentWorker]
    BY <2>1, <2>2 DEF AdShape, AdTasks, TaskSteps, AskSteps, Asks, SenderRows, NoRow, Stamp, HeldFor
  <2>3. CASE /\ channel # NoMail
             /\ task' = [task EXCEPT !["name"] = [pc |-> "wire", mail |-> channel, agent |-> NewAgent, todo |-> {}]]
    <3>1. [pc |-> "wire", mail |-> channel, agent |-> NewAgent, todo |-> {}] \in AdTasks /\ channel \in Mail
      BY <2>3 DEF AdTasks, TaskSteps, AdRest
    <3>2. task' \in [AdWorkers -> AdTasks]
      BY <2>3, <3>1 DEF AdShape
    <3> QED
      BY <2>1, <2>3, <3>1, <3>2 DEF AdShape
  <2> QED
    BY <1>23, <2>2, <2>3 DEF NameReply
<1>24. CASE FlipPolicy
  BY <1>24 DEF AdShape, AdTasks, TaskSteps, AskSteps, Asks, SenderRows, NoRow, Stamp, HeldFor,
     FlipPolicy
<1>25. CASE AdHostCrash
  BY <1>25 DEF AdShape, AdTasks, TaskSteps, AskSteps, Asks, SenderRows, NoRow, Stamp, HeldFor,
     AdHostCrash
<1>26. CASE UNCHANGED admissionVars
  BY <1>26 DEF AdShape, AdTasks, TaskSteps, AskSteps, Asks, SenderRows, NoRow, Stamp, HeldFor,
     admissionVars
<1> QED
  BY <1>1, <1>2, <1>3, <1>4, <1>5, <1>6, <1>7, <1>8, <1>9, <1>10, <1>11, <1>12, <1>13, <1>14,
     <1>15, <1>16, <1>17, <1>18, <1>19, <1>20, <1>21, <1>22, <1>23, <1>24, <1>25,
     <1>26 DEF NextAdmission, ChannelStep, RouterStep, ClickStep, AskStep

\* Every step keeps the other types.
LEMMA RestStep == AdInv /\ [NextAdmission]_admissionVars => AdRest'
<1> SUFFICES ASSUME AdInv, [NextAdmission]_admissionVars PROVE AdRest'
  OBVIOUS
<1> USE AdmissionConstants DEF AdInv, desk, bounds, access, AdGoto, AdDone, Begins, AskAt,
   SpentWorker, FreeWorker, Agents, Senders, AdWorkers
<1>1. ASSUME NEW m \in Mail, Receive(m) PROVE AdRest'
  BY <1>1 DEF AdRest, Policies, ChannelInFlight, SenderFree, AdShape, AdTasks, Asks, Receive
<1>2. ASSUME NEW m \in Mail, RequestChannel(m) PROVE AdRest'
  BY <1>2 DEF AdRest, Policies, ChannelInFlight, SenderFree, AdShape, AdTasks, Asks, RequestChannel
<1>3. ASSUME NEW m \in Mail, InsertChannel(m) PROVE AdRest'
  BY <1>3 DEF AdRest, Policies, ChannelInFlight, SenderFree, AdShape, AdTasks, Asks, InsertChannel
<1>4. ASSUME NEW t \in AdWorkers, RouteInbound(t) PROVE AdRest'
  BY <1>4 DEF AdRest, Policies, ChannelInFlight, SenderFree, AdShape, AdTasks, Asks, RouteInbound
<1>5. ASSUME NEW t \in AdWorkers, NEW a \in Agents, AccessGate(t, a) PROVE AdRest'
  BY <1>5 DEF AdRest, Policies, ChannelInFlight, SenderFree, AdShape, AdTasks, Asks, AccessGate
<1>6. ASSUME NEW t \in AdWorkers, DeliverToAgent(t) PROVE AdRest'
  BY <1>6 DEF AdRest, Policies, ChannelInFlight, SenderFree, AdShape, AdTasks, Asks, DeliverToAgent
<1>7. ASSUME NEW t \in AdWorkers, FanOver(t) PROVE AdRest'
  BY <1>7 DEF AdRest, Policies, ChannelInFlight, SenderFree, AdShape, AdTasks, Asks, FanOver
<1>8. ASSUME NEW t \in AdWorkers, AddMember(t) PROVE AdRest'
  <2>1. task[t].mail \in Mail /\ task[t].agent \in Agents
    BY <1>8 DEF AdShape, AdTasks, AddMember
  <2>2. members' \subseteq Senders \X Agents
    BY <1>8, <2>1 DEF AdRest, AddMember, Membership
  <2> QED
    BY <1>8, <2>2 DEF AdRest, Asks, AddMember
<1>9. ASSUME NEW t \in AdWorkers, DropSender(t) PROVE AdRest'
  <2>1. task[t].mail \in Mail
    BY <1>9 DEF AdShape, DropSender
  <2>2. ended' \subseteq Mail
    BY <1>9, <2>1 DEF AdRest, DropSender
  <2> QED
    BY <1>9, <2>2 DEF AdRest, Asks, DropSender
<1>10. ASSUME NEW t \in AdWorkers, DenyChannel(t) PROVE AdRest'
  BY <1>10 DEF AdRest, Policies, ChannelInFlight, SenderFree, AdShape, AdTasks, Asks, DenyChannel
<1>11. ASSUME NEW t \in AdWorkers, DropChannel(t) PROVE AdRest'
  BY <1>11 DEF AdRest, Policies, ChannelInFlight, SenderFree, AdShape, AdTasks, Asks, DropChannel
<1>12. ASSUME NEW t \in AdWorkers, ArmNaming(t) PROVE AdRest'
  BY <1>12 DEF AdRest, Policies, ChannelInFlight, SenderFree, AdShape, AdTasks, Asks, ArmNaming
<1>13. ASSUME NEW t \in AdWorkers, PromptSettles(t) PROVE AdRest'
  <2>1. naming' \in BOOLEAN
    BY <1>13 DEF AdRest, PromptSettles
  <2> QED
    BY <1>13, <2>1 DEF AdRest, Asks, PromptSettles
<1>14. ASSUME NEW t \in AdWorkers, WireChannel(t) PROVE AdRest'
  BY <1>14 DEF AdRest, Policies, ChannelInFlight, SenderFree, AdShape, AdTasks, Asks, WireChannel
<1>15. ASSUME NEW t \in AdWorkers, Unhold(t) PROVE AdRest'
  BY <1>15 DEF AdRest, Policies, ChannelInFlight, SenderFree, AdShape, AdTasks, Asks, Unhold
<1>16. ASSUME NEW r \in DOMAIN ask, SendCard(r) PROVE AdRest'
  BY <1>16 DEF AdRest, Policies, ChannelInFlight, SenderFree, AdShape, AdTasks, Asks, SendCard
<1>17. ASSUME NEW r \in DOMAIN ask, ClearStamp(r) PROVE AdRest'
  BY <1>17 DEF AdRest, Policies, ChannelInFlight, SenderFree, AdShape, AdTasks, Asks, ClearStamp
<1>18. ASSUME NEW r \in DOMAIN ask, RequestSender(r) PROVE AdRest'
  BY <1>18 DEF AdRest, Policies, ChannelInFlight, SenderFree, AdShape, AdTasks, Asks, RequestSender
<1>19. ASSUME NEW r \in DOMAIN ask, InsertSender(r) PROVE AdRest'
  BY <1>19 DEF AdRest, Policies, ChannelInFlight, SenderFree, AdShape, AdTasks, Asks, InsertSender
<1>20. ASSUME NEW r \in DOMAIN ask, Decline(r) PROVE AdRest'
  <2>1. senderHold[Author[r[1]]] \in SenderRows
    BY <1>20 DEF AdShape, Asks, Decline
  <2>2. senderHold[Author[r[1]]].kind = "card" => senderHold[Author[r[1]]].mail \in Mail
    <3>1. CASE senderHold[Author[r[1]]] \in {NoRow, Stamp}
      BY <3>1 DEF NoRow, Stamp
    <3>2. ASSUME NEW m \in Mail, NEW a \in Agents, senderHold[Author[r[1]]] = HeldFor(m, a)
          PROVE  senderHold[Author[r[1]]].mail \in Mail
      BY <3>2 DEF HeldFor
    <3> QED
      BY <2>1, <3>1, <3>2 DEF SenderRows
  <2>3. ended' \subseteq Mail
    BY <1>20, <2>2 DEF AdRest, Decline
  <2> QED
    BY <1>20, <2>3 DEF AdRest, Asks, Decline
<1>21. ASSUME NEW k \in Presses, PressSender(k) PROVE AdRest'
  BY <1>21 DEF AdRest, Policies, ChannelInFlight, SenderFree, AdShape, AdTasks, Asks, PressSender
<1>22. ASSUME NEW k \in Presses, PressChannel(k) PROVE AdRest'
  BY <1>22 DEF AdRest, Policies, ChannelInFlight, SenderFree, AdShape, AdTasks, Asks, PressChannel
<1>23. CASE NameReply
  BY <1>23 DEF AdRest, Policies, ChannelInFlight, SenderFree, AdShape, AdTasks, Asks, NameReply
<1>24. CASE FlipPolicy
  BY <1>24 DEF AdRest, Policies, ChannelInFlight, SenderFree, AdShape, AdTasks, Asks, FlipPolicy
<1>25. CASE AdHostCrash
  <2>1. adCrashes' \in 0 .. MaxAdCrashes
    BY <1>25 DEF AdRest, AdHostCrash
  <2>2. adDied' \in BOOLEAN /\ naming' \in BOOLEAN
    BY <1>25 DEF AdHostCrash
  <2> QED
    BY <1>25, <2>1, <2>2 DEF AdRest, Asks, AdHostCrash
<1>26. CASE UNCHANGED admissionVars
  BY <1>26 DEF AdRest, Policies, ChannelInFlight, SenderFree, AdShape, AdTasks, Asks, admissionVars
<1> QED
  BY <1>1, <1>2, <1>3, <1>4, <1>5, <1>6, <1>7, <1>8, <1>9, <1>10, <1>11, <1>12, <1>13, <1>14,
     <1>15, <1>16, <1>17, <1>18, <1>19, <1>20, <1>21, <1>22, <1>23, <1>24, <1>25,
     <1>26 DEF NextAdmission, ChannelStep, RouterStep, ClickStep, AskStep

\* The two make the type invariant.
LEMMA ShapeIsType == AdShape /\ AdRest => AdTypeOK
  BY DEF AdShape, AdRest, AdTypeOK, AdTasks, Asks, AskSteps, SenderRows

\* No wiring, membership, row of a session or decision is taken back.
LEMMA NothingIsTakenBack == AdInv /\ [NextAdmission]_admissionVars => Kept
<1> SUFFICES ASSUME AdInv, [NextAdmission]_admissionVars PROVE Kept
  OBVIOUS
<1> USE AdmissionConstants DEF AdInv, desk, bounds, access, AdGoto, AdDone, Begins, AskAt,
   SpentWorker, FreeWorker, Agents, Senders, AdWorkers, Kept, AdShape, AskSteps, Asks
<1>1. ASSUME NEW m \in Mail, Receive(m) PROVE Kept
  BY <1>1 DEF Receive
<1>2. ASSUME NEW m \in Mail, RequestChannel(m) PROVE Kept
  BY <1>2 DEF RequestChannel
<1>3. ASSUME NEW m \in Mail, InsertChannel(m) PROVE Kept
  BY <1>3 DEF InsertChannel
<1>4. ASSUME NEW t \in AdWorkers, RouteInbound(t) PROVE Kept
  BY SMTT(60), <1>4 DEF RouteInbound
<1>5. ASSUME NEW t \in AdWorkers, NEW a \in Agents, AccessGate(t, a) PROVE Kept
  BY <1>5 DEF AccessGate
<1>6. ASSUME NEW t \in AdWorkers, DeliverToAgent(t) PROVE Kept
  BY <1>6 DEF DeliverToAgent
<1>7. ASSUME NEW t \in AdWorkers, FanOver(t) PROVE Kept
  BY <1>7 DEF FanOver
<1>8. ASSUME NEW t \in AdWorkers, AddMember(t) PROVE Kept
  BY <1>8 DEF AddMember
<1>9. ASSUME NEW t \in AdWorkers, DropSender(t) PROVE Kept
  BY <1>9 DEF DropSender
<1>10. ASSUME NEW t \in AdWorkers, DenyChannel(t) PROVE Kept
  BY <1>10 DEF DenyChannel
<1>11. ASSUME NEW t \in AdWorkers, DropChannel(t) PROVE Kept
  BY <1>11 DEF DropChannel
<1>12. ASSUME NEW t \in AdWorkers, ArmNaming(t) PROVE Kept
  BY <1>12 DEF ArmNaming
<1>13. ASSUME NEW t \in AdWorkers, PromptSettles(t) PROVE Kept
  BY <1>13 DEF PromptSettles
<1>14. ASSUME NEW t \in AdWorkers, WireChannel(t) PROVE Kept
  BY <1>14 DEF WireChannel
<1>15. ASSUME NEW t \in AdWorkers, Unhold(t) PROVE Kept
  BY <1>15 DEF Unhold
<1>16. ASSUME NEW r \in DOMAIN ask, SendCard(r) PROVE Kept
  BY <1>16 DEF SendCard
<1>17. ASSUME NEW r \in DOMAIN ask, ClearStamp(r) PROVE Kept
  BY <1>17 DEF ClearStamp
<1>18. ASSUME NEW r \in DOMAIN ask, RequestSender(r) PROVE Kept
  BY <1>18 DEF RequestSender
<1>19. ASSUME NEW r \in DOMAIN ask, InsertSender(r) PROVE Kept
  BY <1>19 DEF InsertSender
<1>20. ASSUME NEW r \in DOMAIN ask, Decline(r) PROVE Kept
  BY <1>20 DEF Decline
<1>21. ASSUME NEW k \in Presses, PressSender(k) PROVE Kept
  BY <1>21 DEF PressSender
<1>22. ASSUME NEW k \in Presses, PressChannel(k) PROVE Kept
  BY <1>22 DEF PressChannel
<1>23. CASE NameReply
  BY <1>23 DEF NameReply
<1>24. CASE FlipPolicy
  BY <1>24 DEF FlipPolicy
<1>25. CASE AdHostCrash
  BY <1>25 DEF AdHostCrash
<1>26. CASE UNCHANGED admissionVars
  BY <1>26 DEF admissionVars
<1> QED
  BY <1>1, <1>2, <1>3, <1>4, <1>5, <1>6, <1>7, <1>8, <1>9, <1>10, <1>11, <1>12, <1>13, <1>14,
     <1>15, <1>16, <1>17, <1>18, <1>19, <1>20, <1>21, <1>22, <1>23, <1>24, <1>25,
     <1>26 DEF NextAdmission, ChannelStep, RouterStep, ClickStep, AskStep

\* The tasks move in those ways only.
LEMMA TasksMove == AdInv /\ [NextAdmission]_admissionVars => TaskMoves
<1> SUFFICES ASSUME AdInv, [NextAdmission]_admissionVars PROVE TaskMoves
  OBVIOUS
<1> USE AdmissionConstants DEF AdInv, desk, bounds, access, AdGoto, AdDone, Begins, AskAt,
   SpentWorker, FreeWorker, Agents, Senders, AdWorkers
<1>1. ASSUME NEW m \in Mail, Receive(m) PROVE TaskMoves
  BY <1>1 DEF TaskMoves, Quiet, SameJob, Ends, TaskBegun, FansOut, TaskPicks, Decides, Membership,
     Admitted, AdShape, AdTasks, TaskSteps, Asks, Receive
<1>2. ASSUME NEW m \in Mail, RequestChannel(m) PROVE TaskMoves
  BY <1>2 DEF TaskMoves, Quiet, SameJob, Ends, TaskBegun, FansOut, TaskPicks, Decides, Membership,
     Admitted, AdShape, AdTasks, TaskSteps, Asks, RequestChannel
<1>3. ASSUME NEW m \in Mail, InsertChannel(m) PROVE TaskMoves
  BY <1>3 DEF TaskMoves, Quiet, SameJob, Ends, TaskBegun, FansOut, TaskPicks, Decides, Membership,
     Admitted, AdShape, AdTasks, TaskSteps, Asks, InsertChannel
<1>4. ASSUME NEW t \in AdWorkers, RouteInbound(t) PROVE TaskMoves
  BY <1>4 DEF TaskMoves, Quiet, SameJob, Ends, TaskBegun, FansOut, TaskPicks, Decides, Membership,
     Admitted, AdShape, AdTasks, TaskSteps, Asks, RouteInbound
<1>5. ASSUME NEW t \in AdWorkers, NEW a \in Agents, AccessGate(t, a) PROVE TaskMoves
  BY <1>5 DEF TaskMoves, Quiet, SameJob, Ends, TaskBegun, FansOut, TaskPicks, Decides, Membership,
     Admitted, AdShape, AdTasks, TaskSteps, Asks, AccessGate
<1>6. ASSUME NEW t \in AdWorkers, DeliverToAgent(t) PROVE TaskMoves
  BY <1>6 DEF TaskMoves, Quiet, SameJob, Ends, TaskBegun, FansOut, TaskPicks, Decides, Membership,
     Admitted, AdShape, AdTasks, TaskSteps, Asks, DeliverToAgent
<1>7. ASSUME NEW t \in AdWorkers, FanOver(t) PROVE TaskMoves
  BY <1>7 DEF TaskMoves, Quiet, SameJob, Ends, TaskBegun, FansOut, TaskPicks, Decides, Membership,
     Admitted, AdShape, AdTasks, TaskSteps, Asks, FanOver
<1>8. ASSUME NEW t \in AdWorkers, AddMember(t) PROVE TaskMoves
  BY <1>8 DEF TaskMoves, Quiet, SameJob, Ends, TaskBegun, FansOut, TaskPicks, Decides, Membership,
     Admitted, AdShape, AdTasks, TaskSteps, Asks, AddMember
<1>9. ASSUME NEW t \in AdWorkers, DropSender(t) PROVE TaskMoves
  BY <1>9 DEF TaskMoves, Quiet, SameJob, Ends, TaskBegun, FansOut, TaskPicks, Decides, Membership,
     Admitted, AdShape, AdTasks, TaskSteps, Asks, DropSender
<1>10. ASSUME NEW t \in AdWorkers, DenyChannel(t) PROVE TaskMoves
  BY <1>10 DEF TaskMoves, Quiet, SameJob, Ends, TaskBegun, FansOut, TaskPicks, Decides, Membership,
     Admitted, AdShape, AdTasks, TaskSteps, Asks, DenyChannel
<1>11. ASSUME NEW t \in AdWorkers, DropChannel(t) PROVE TaskMoves
  BY <1>11 DEF TaskMoves, Quiet, SameJob, Ends, TaskBegun, FansOut, TaskPicks, Decides, Membership,
     Admitted, AdShape, AdTasks, TaskSteps, Asks, DropChannel
<1>12. ASSUME NEW t \in AdWorkers, ArmNaming(t) PROVE TaskMoves
  BY <1>12 DEF TaskMoves, Quiet, SameJob, Ends, TaskBegun, FansOut, TaskPicks, Decides, Membership,
     Admitted, AdShape, AdTasks, TaskSteps, Asks, ArmNaming
<1>13. ASSUME NEW t \in AdWorkers, PromptSettles(t) PROVE TaskMoves
  BY <1>13 DEF TaskMoves, Quiet, SameJob, Ends, TaskBegun, FansOut, TaskPicks, Decides, Membership,
     Admitted, AdShape, AdTasks, TaskSteps, Asks, PromptSettles
<1>14. ASSUME NEW t \in AdWorkers, WireChannel(t) PROVE TaskMoves
  BY <1>14 DEF TaskMoves, Quiet, SameJob, Ends, TaskBegun, FansOut, TaskPicks, Decides, Membership,
     Admitted, AdShape, AdTasks, TaskSteps, Asks, WireChannel
<1>15. ASSUME NEW t \in AdWorkers, Unhold(t) PROVE TaskMoves
  BY <1>15 DEF TaskMoves, Quiet, SameJob, Ends, TaskBegun, FansOut, TaskPicks, Decides, Membership,
     Admitted, AdShape, AdTasks, TaskSteps, Asks, Unhold
<1>16. ASSUME NEW r \in DOMAIN ask, SendCard(r) PROVE TaskMoves
  BY <1>16 DEF TaskMoves, Quiet, SameJob, Ends, TaskBegun, FansOut, TaskPicks, Decides, Membership,
     Admitted, AdShape, AdTasks, TaskSteps, Asks, SendCard
<1>17. ASSUME NEW r \in DOMAIN ask, ClearStamp(r) PROVE TaskMoves
  BY <1>17 DEF TaskMoves, Quiet, SameJob, Ends, TaskBegun, FansOut, TaskPicks, Decides, Membership,
     Admitted, AdShape, AdTasks, TaskSteps, Asks, ClearStamp
<1>18. ASSUME NEW r \in DOMAIN ask, RequestSender(r) PROVE TaskMoves
  BY <1>18 DEF TaskMoves, Quiet, SameJob, Ends, TaskBegun, FansOut, TaskPicks, Decides, Membership,
     Admitted, AdShape, AdTasks, TaskSteps, Asks, RequestSender
<1>19. ASSUME NEW r \in DOMAIN ask, InsertSender(r) PROVE TaskMoves
  BY <1>19 DEF TaskMoves, Quiet, SameJob, Ends, TaskBegun, FansOut, TaskPicks, Decides, Membership,
     Admitted, AdShape, AdTasks, TaskSteps, Asks, InsertSender
<1>20. ASSUME NEW r \in DOMAIN ask, Decline(r) PROVE TaskMoves
  BY <1>20 DEF TaskMoves, Quiet, SameJob, Ends, TaskBegun, FansOut, TaskPicks, Decides, Membership,
     Admitted, AdShape, AdTasks, TaskSteps, Asks, Decline
<1>21. ASSUME NEW k \in Presses, PressSender(k) PROVE TaskMoves
  <2>1. PICK r \in carded, v \in {"admit", "deny"} :
          /\ task[k].pc = "idle" /\ r[2] # "channel"
          /\ IF senderHold[Author[r[1]]] = HeldFor(r[1], r[2])
             THEN task' = [task EXCEPT ![k] = [pc |-> v, mail |-> r[1], agent |-> r[2], todo |-> {}]]
             ELSE task' = [task EXCEPT ![k] = SpentWorker]
    BY <1>21 DEF PressSender
  <2>2. r[1] \in Mail /\ r[2] \in Agents
    BY <2>1 DEF AdRest, Asks
  <2>3. \A t \in AdWorkers \ {k} : task'[t] = task[t]
    BY <2>1 DEF AdShape
  <2>4. TaskPicks(k) \/ Ends(k)
    BY <2>1, <2>2 DEF TaskPicks, Ends, Quiet, AdShape
  <2> QED
    BY <2>3, <2>4 DEF TaskMoves
<1>22. ASSUME NEW k \in Presses, PressChannel(k) PROVE TaskMoves
  BY <1>22 DEF TaskMoves, Quiet, SameJob, Ends, TaskBegun, FansOut, TaskPicks, Decides, Membership,
     Admitted, AdShape, AdTasks, TaskSteps, Asks, PressChannel
<1>23. CASE NameReply
  BY <1>23 DEF TaskMoves, Quiet, SameJob, Ends, TaskBegun, FansOut, TaskPicks, Decides, Membership,
     Admitted, AdShape, AdTasks, TaskSteps, Asks, NameReply
<1>24. CASE FlipPolicy
  BY <1>24 DEF TaskMoves, Quiet, SameJob, Ends, TaskBegun, FansOut, TaskPicks, Decides, Membership,
     Admitted, AdShape, AdTasks, TaskSteps, Asks, FlipPolicy
<1>25. CASE AdHostCrash
  BY <1>25 DEF TaskMoves, Quiet, SameJob, Ends, TaskBegun, FansOut, TaskPicks, Decides, Membership,
     Admitted, AdShape, AdTasks, TaskSteps, Asks, AdHostCrash
<1>26. CASE UNCHANGED admissionVars
  BY <1>26 DEF TaskMoves, Quiet, SameJob, Ends, TaskBegun, FansOut, TaskPicks, Decides, Membership,
     Admitted, AdShape, AdTasks, TaskSteps, Asks, admissionVars
<1> QED
  BY <1>1, <1>2, <1>3, <1>4, <1>5, <1>6, <1>7, <1>8, <1>9, <1>10, <1>11, <1>12, <1>13, <1>14,
     <1>15, <1>16, <1>17, <1>18, <1>19, <1>20, <1>21, <1>22, <1>23, <1>24, <1>25,
     <1>26 DEF NextAdmission, ChannelStep, RouterStep, ClickStep, AskStep

-----------------------------------------------------------------------------
(* Wirings.                                                                *)

\* Whom a request is about is wired.
LEMMA AsksStep == AdInv /\ [NextAdmission]_admissionVars => AskedIsWired'
<1> SUFFICES ASSUME AdInv, [NextAdmission]_admissionVars PROVE AskedIsWired'
  OBVIOUS
<1> USE AdmissionConstants DEF AdInv, desk, bounds, access, AdGoto, AdDone, Begins, AskAt,
   SpentWorker, FreeWorker, Agents, Senders, AdWorkers, AskedIsWired, WiredInv, FansOverWired,
   AdShape, AdTasks, TaskSteps, AskSteps, Asks, SenderRows, NoRow, Stamp, HeldFor
<1>1. ASSUME NEW m \in Mail, Receive(m) PROVE AskedIsWired'
  BY <1>1 DEF Receive
<1>2. ASSUME NEW m \in Mail, RequestChannel(m) PROVE AskedIsWired'
  BY <1>2 DEF RequestChannel
<1>3. ASSUME NEW m \in Mail, InsertChannel(m) PROVE AskedIsWired'
  BY <1>3 DEF InsertChannel
<1>4. ASSUME NEW t \in AdWorkers, RouteInbound(t) PROVE AskedIsWired'
  BY <1>4 DEF RouteInbound
<1>5. ASSUME NEW t \in AdWorkers, NEW a \in Agents, AccessGate(t, a) PROVE AskedIsWired'
  BY <1>5 DEF AccessGate
<1>6. ASSUME NEW t \in AdWorkers, DeliverToAgent(t) PROVE AskedIsWired'
  BY <1>6 DEF DeliverToAgent
<1>7. ASSUME NEW t \in AdWorkers, FanOver(t) PROVE AskedIsWired'
  BY <1>7 DEF FanOver
<1>8. ASSUME NEW t \in AdWorkers, AddMember(t) PROVE AskedIsWired'
  BY <1>8 DEF AddMember
<1>9. ASSUME NEW t \in AdWorkers, DropSender(t) PROVE AskedIsWired'
  BY <1>9 DEF DropSender
<1>10. ASSUME NEW t \in AdWorkers, DenyChannel(t) PROVE AskedIsWired'
  BY <1>10 DEF DenyChannel
<1>11. ASSUME NEW t \in AdWorkers, DropChannel(t) PROVE AskedIsWired'
  BY <1>11 DEF DropChannel
<1>12. ASSUME NEW t \in AdWorkers, ArmNaming(t) PROVE AskedIsWired'
  BY <1>12 DEF ArmNaming
<1>13. ASSUME NEW t \in AdWorkers, PromptSettles(t) PROVE AskedIsWired'
  BY <1>13 DEF PromptSettles
<1>14. ASSUME NEW t \in AdWorkers, WireChannel(t) PROVE AskedIsWired'
  BY <1>14 DEF WireChannel
<1>15. ASSUME NEW t \in AdWorkers, Unhold(t) PROVE AskedIsWired'
  BY <1>15 DEF Unhold
<1>16. ASSUME NEW r \in DOMAIN ask, SendCard(r) PROVE AskedIsWired'
  BY <1>16 DEF SendCard
<1>17. ASSUME NEW r \in DOMAIN ask, ClearStamp(r) PROVE AskedIsWired'
  BY <1>17 DEF ClearStamp
<1>18. ASSUME NEW r \in DOMAIN ask, RequestSender(r) PROVE AskedIsWired'
  BY <1>18 DEF RequestSender
<1>19. ASSUME NEW r \in DOMAIN ask, InsertSender(r) PROVE AskedIsWired'
  BY <1>19 DEF InsertSender
<1>20. ASSUME NEW r \in DOMAIN ask, Decline(r) PROVE AskedIsWired'
  BY <1>20 DEF Decline
<1>21. ASSUME NEW k \in Presses, PressSender(k) PROVE AskedIsWired'
  BY <1>21 DEF PressSender
<1>22. ASSUME NEW k \in Presses, PressChannel(k) PROVE AskedIsWired'
  BY <1>22 DEF PressChannel
<1>23. CASE NameReply
  BY <1>23 DEF NameReply
<1>24. CASE FlipPolicy
  BY <1>24 DEF FlipPolicy
<1>25. CASE AdHostCrash
  BY <1>25 DEF AdHostCrash
<1>26. CASE UNCHANGED admissionVars
  BY <1>26 DEF admissionVars
<1> QED
  BY <1>1, <1>2, <1>3, <1>4, <1>5, <1>6, <1>7, <1>8, <1>9, <1>10, <1>11, <1>12, <1>13, <1>14,
     <1>15, <1>16, <1>17, <1>18, <1>19, <1>20, <1>21, <1>22, <1>23, <1>24, <1>25,
     <1>26 DEF NextAdmission, ChannelStep, RouterStep, ClickStep, AskStep

\* Whom a held message is for is wired.
LEMMA HeldStep == AdInv /\ [NextAdmission]_admissionVars => HeldIsWired'
<1> SUFFICES ASSUME AdInv, [NextAdmission]_admissionVars PROVE HeldIsWired'
  OBVIOUS
<1> USE AdmissionConstants DEF AdInv, desk, bounds, access, AdGoto, AdDone, Begins, AskAt,
   SpentWorker, FreeWorker, Agents, Senders, AdWorkers, HeldIsWired, AskedIsWired, WiredInv,
   SenderFree, AdShape, AdTasks, TaskSteps, AskSteps, Asks, SenderRows, NoRow, Stamp, HeldFor
<1>1. ASSUME NEW m \in Mail, Receive(m) PROVE HeldIsWired'
  BY <1>1 DEF Receive
<1>2. ASSUME NEW m \in Mail, RequestChannel(m) PROVE HeldIsWired'
  BY <1>2 DEF RequestChannel
<1>3. ASSUME NEW m \in Mail, InsertChannel(m) PROVE HeldIsWired'
  BY <1>3 DEF InsertChannel
<1>4. ASSUME NEW t \in AdWorkers, RouteInbound(t) PROVE HeldIsWired'
  BY <1>4 DEF RouteInbound
<1>5. ASSUME NEW t \in AdWorkers, NEW a \in Agents, AccessGate(t, a) PROVE HeldIsWired'
  BY <1>5 DEF AccessGate
<1>6. ASSUME NEW t \in AdWorkers, DeliverToAgent(t) PROVE HeldIsWired'
  BY <1>6 DEF DeliverToAgent
<1>7. ASSUME NEW t \in AdWorkers, FanOver(t) PROVE HeldIsWired'
  BY <1>7 DEF FanOver
<1>8. ASSUME NEW t \in AdWorkers, AddMember(t) PROVE HeldIsWired'
  BY <1>8 DEF AddMember
<1>9. ASSUME NEW t \in AdWorkers, DropSender(t) PROVE HeldIsWired'
  BY <1>9 DEF DropSender
<1>10. ASSUME NEW t \in AdWorkers, DenyChannel(t) PROVE HeldIsWired'
  BY <1>10 DEF DenyChannel
<1>11. ASSUME NEW t \in AdWorkers, DropChannel(t) PROVE HeldIsWired'
  BY <1>11 DEF DropChannel
<1>12. ASSUME NEW t \in AdWorkers, ArmNaming(t) PROVE HeldIsWired'
  BY <1>12 DEF ArmNaming
<1>13. ASSUME NEW t \in AdWorkers, PromptSettles(t) PROVE HeldIsWired'
  BY <1>13 DEF PromptSettles
<1>14. ASSUME NEW t \in AdWorkers, WireChannel(t) PROVE HeldIsWired'
  BY <1>14 DEF WireChannel
<1>15. ASSUME NEW t \in AdWorkers, Unhold(t) PROVE HeldIsWired'
  BY <1>15 DEF Unhold
<1>16. ASSUME NEW r \in DOMAIN ask, SendCard(r) PROVE HeldIsWired'
  BY <1>16 DEF SendCard
<1>17. ASSUME NEW r \in DOMAIN ask, ClearStamp(r) PROVE HeldIsWired'
  BY <1>17 DEF ClearStamp
<1>18. ASSUME NEW r \in DOMAIN ask, RequestSender(r) PROVE HeldIsWired'
  BY <1>18 DEF RequestSender
<1>19. ASSUME NEW r \in DOMAIN ask, InsertSender(r) PROVE HeldIsWired'
  BY <1>19 DEF InsertSender
<1>20. ASSUME NEW r \in DOMAIN ask, Decline(r) PROVE HeldIsWired'
  BY <1>20 DEF Decline
<1>21. ASSUME NEW k \in Presses, PressSender(k) PROVE HeldIsWired'
  BY <1>21 DEF PressSender
<1>22. ASSUME NEW k \in Presses, PressChannel(k) PROVE HeldIsWired'
  BY <1>22 DEF PressChannel
<1>23. CASE NameReply
  BY <1>23 DEF NameReply
<1>24. CASE FlipPolicy
  BY <1>24 DEF FlipPolicy
<1>25. CASE AdHostCrash
  BY <1>25 DEF AdHostCrash
<1>26. CASE UNCHANGED admissionVars
  BY <1>26 DEF admissionVars
<1> QED
  BY <1>1, <1>2, <1>3, <1>4, <1>5, <1>6, <1>7, <1>8, <1>9, <1>10, <1>11, <1>12, <1>13, <1>14,
     <1>15, <1>16, <1>17, <1>18, <1>19, <1>20, <1>21, <1>22, <1>23, <1>24, <1>25,
     <1>26 DEF NextAdmission, ChannelStep, RouterStep, ClickStep, AskStep

\* The tasks fan out over, decide on and replay to wired agents only.
LEMMA WiredStep == AdInv /\ [NextAdmission]_admissionVars => WiredInv'
<1> SUFFICES ASSUME AdInv, [NextAdmission]_admissionVars PROVE WiredInv'
  OBVIOUS
<1>1. TaskMoves /\ Kept
  BY TasksMove, NothingIsTakenBack
<1>2. FansOverWired'
  <2> SUFFICES ASSUME NEW t \in AdWorkers, task'[t].pc \in {"fan", "deliver"} PROVE task'[t].todo \subseteq wired'
    BY DEF FansOverWired
  <2>1. task'[t] = task[t] \/ FansOut(t)
    BY <1>1 DEF TaskMoves, Ends, Quiet, TaskBegun, TaskPicks, Decides
  <2>2. task[t].pc \in {"fan", "deliver"} => task[t].todo \subseteq wired
    BY DEF AdInv, WiredInv, FansOverWired
  <2> QED
    BY <1>1, <2>1, <2>2 DEF FansOut, Kept
<1>3. DecidesOnWired'
  <2> SUFFICES ASSUME NEW t \in AdWorkers, task'[t].pc \in {"admit", "deny", "drop", "member", "unhold"}
               PROVE  task'[t].agent \in wired'
    BY DEF DecidesOnWired
  <2>1. task'[t] = task[t] \/ TaskPicks(t) \/ Decides(t)
    BY <1>1 DEF TaskMoves, Ends, Quiet, TaskBegun, FansOut
  <2>2. task[t].pc \in {"admit", "deny", "drop", "member", "unhold"} => task[t].agent \in wired
    BY DEF AdInv, WiredInv, DecidesOnWired
  <2>3. TaskPicks(t) => task'[t].agent \in wired
    BY DEF TaskPicks, AdInv, WiredInv, HeldIsWired, Senders
  <2> QED
    BY <1>1, <2>1, <2>2, <2>3 DEF Decides, SameJob, Kept
<1>4. MemberBeforeReplay'
  <2> SUFFICES ASSUME NEW t \in AdWorkers, task'[t].pc \in {"drop", "unhold"}
               PROVE  Admitted(task[t].mail, task[t].agent)'
    BY DEF MemberBeforeReplay
  <2>1. task'[t] = task[t] \/ Decides(t)
    BY <1>1 DEF TaskMoves, Ends, Quiet, TaskBegun, FansOut, TaskPicks
  <2>2. task[t].pc \in {"drop", "unhold"} => Admitted(task[t].mail, task[t].agent)
    BY DEF AdInv, WiredInv, MemberBeforeReplay
  <2> QED
    BY <1>1, <2>1, <2>2 DEF Decides, SameJob, Kept, Admitted
<1> QED
  BY <1>2, <1>3, <1>4, AsksStep, HeldStep DEF WiredInv

-----------------------------------------------------------------------------
(* Routing.                                                                *)

\* The channel is asked about for a message that is routed while nobody is wired.
ChannelAsked ==
  \A m \in Mail : ask[<<m, "channel">>] = "idle" /\ ask'[<<m, "channel">>] # "idle" =>
    wired = {} /\ \E t \in AdWorkers : task[t].mail = m /\ task[t].pc = "route" /\ task'[t].pc = "done"
\* Only then.
LEMMA ChannelIsAsked == AdInv /\ [NextAdmission]_admissionVars => ChannelAsked
<1> SUFFICES ASSUME AdInv, [NextAdmission]_admissionVars PROVE ChannelAsked
  OBVIOUS
<1> USE AdmissionConstants DEF AdInv, desk, bounds, access, AdGoto, AdDone, Begins, AskAt,
   SpentWorker, FreeWorker, Agents, Senders, AdWorkers, ChannelAsked, AdShape, AdTasks, Asks
<1>1. ASSUME NEW m \in Mail, Receive(m) PROVE ChannelAsked
  BY <1>1 DEF Receive
<1>2. ASSUME NEW m \in Mail, RequestChannel(m) PROVE ChannelAsked
  BY <1>2 DEF RequestChannel
<1>3. ASSUME NEW m \in Mail, InsertChannel(m) PROVE ChannelAsked
  BY <1>3 DEF InsertChannel
<1>4. ASSUME NEW t \in AdWorkers, RouteInbound(t) PROVE ChannelAsked
  BY <1>4 DEF RouteInbound
<1>5. ASSUME NEW t \in AdWorkers, NEW a \in Agents, AccessGate(t, a) PROVE ChannelAsked
  BY <1>5 DEF AccessGate
<1>6. ASSUME NEW t \in AdWorkers, DeliverToAgent(t) PROVE ChannelAsked
  BY <1>6 DEF DeliverToAgent
<1>7. ASSUME NEW t \in AdWorkers, FanOver(t) PROVE ChannelAsked
  BY <1>7 DEF FanOver
<1>8. ASSUME NEW t \in AdWorkers, AddMember(t) PROVE ChannelAsked
  BY <1>8 DEF AddMember
<1>9. ASSUME NEW t \in AdWorkers, DropSender(t) PROVE ChannelAsked
  BY <1>9 DEF DropSender
<1>10. ASSUME NEW t \in AdWorkers, DenyChannel(t) PROVE ChannelAsked
  BY <1>10 DEF DenyChannel
<1>11. ASSUME NEW t \in AdWorkers, DropChannel(t) PROVE ChannelAsked
  BY <1>11 DEF DropChannel
<1>12. ASSUME NEW t \in AdWorkers, ArmNaming(t) PROVE ChannelAsked
  BY <1>12 DEF ArmNaming
<1>13. ASSUME NEW t \in AdWorkers, PromptSettles(t) PROVE ChannelAsked
  BY <1>13 DEF PromptSettles
<1>14. ASSUME NEW t \in AdWorkers, WireChannel(t) PROVE ChannelAsked
  BY <1>14 DEF WireChannel
<1>15. ASSUME NEW t \in AdWorkers, Unhold(t) PROVE ChannelAsked
  BY <1>15 DEF Unhold
<1>16. ASSUME NEW r \in DOMAIN ask, SendCard(r) PROVE ChannelAsked
  BY <1>16 DEF SendCard
<1>17. ASSUME NEW r \in DOMAIN ask, ClearStamp(r) PROVE ChannelAsked
  BY <1>17 DEF ClearStamp
<1>18. ASSUME NEW r \in DOMAIN ask, RequestSender(r) PROVE ChannelAsked
  BY <1>18 DEF RequestSender
<1>19. ASSUME NEW r \in DOMAIN ask, InsertSender(r) PROVE ChannelAsked
  BY <1>19 DEF InsertSender
<1>20. ASSUME NEW r \in DOMAIN ask, Decline(r) PROVE ChannelAsked
  BY <1>20 DEF Decline
<1>21. ASSUME NEW k \in Presses, PressSender(k) PROVE ChannelAsked
  BY <1>21 DEF PressSender
<1>22. ASSUME NEW k \in Presses, PressChannel(k) PROVE ChannelAsked
  BY <1>22 DEF PressChannel
<1>23. CASE NameReply
  BY <1>23 DEF NameReply
<1>24. CASE FlipPolicy
  BY <1>24 DEF FlipPolicy
<1>25. CASE AdHostCrash
  BY <1>25 DEF AdHostCrash
<1>26. CASE UNCHANGED admissionVars
  BY <1>26 DEF admissionVars
<1> QED
  BY <1>1, <1>2, <1>3, <1>4, <1>5, <1>6, <1>7, <1>8, <1>9, <1>10, <1>11, <1>12, <1>13, <1>14,
     <1>15, <1>16, <1>17, <1>18, <1>19, <1>20, <1>21, <1>22, <1>23, <1>24, <1>25,
     <1>26 DEF NextAdmission, ChannelStep, RouterStep, ClickStep, AskStep

\* It is asked about for a message that has never been replayed.
LEMMA AskedWhenFirstRouted ==
  ASSUME AdInv, ChannelAsked, NEW m \in Mail, ask[<<m, "channel">>] = "idle", ask'[<<m, "channel">>] # "idle"
  PROVE  task[m].pc = "route" /\ task'[m].pc = "done"
<1>1. PICK t \in AdWorkers : task[t].mail = m /\ task[t].pc = "route" /\ task'[t].pc = "done"
  BY DEF ChannelAsked
<1>2. wired = {}
  BY DEF ChannelAsked
<1>3. t = m
  BY <1>1, <1>2 DEF AdInv, OnceInv, RoutedOnceOrAdmitted, WillHear
<1> QED
  BY <1>1, <1>3

\* A message is routed again only when its sender was admitted.
LEMMA RoutedStep == AdInv /\ [NextAdmission]_admissionVars => RoutedOnceOrAdmitted' /\ FreshIsUnasked'
<1> SUFFICES ASSUME AdInv, [NextAdmission]_admissionVars PROVE RoutedOnceOrAdmitted' /\ FreshIsUnasked'
  OBVIOUS
<1>1. TaskMoves /\ Kept /\ ChannelAsked
  BY TasksMove, NothingIsTakenBack, ChannelIsAsked
<1>2. \A m \in Mail : WillHear(m) => WillHear(m)'
  BY <1>1 DEF WillHear, Admitted, Kept
<1>3. ASSUME NEW t \in AdWorkers, task'[t].pc \in {"route", "fan", "deliver"},
             NEW m, m = task'[t].mail
      PROVE  WillHear(m)' \/ (t = m /\ ask'[<<m, "channel">>] = "idle")
  <2>1. CASE Decides(t)
    <3>1. task[t].pc \in {"drop", "unhold"} /\ SameJob(t)
      BY <1>3, <2>1 DEF Decides
    <3>2. m = task[t].mail /\ WillHear(m) /\ m \in Mail
      BY <1>3, <3>1 DEF SameJob, WillHear, AdInv, AdShape, WiredInv, DecidesOnWired,
         MemberBeforeReplay
    <3> QED
      BY <1>2, <3>2
  <2>2. CASE TaskBegun(t)
    BY <1>1, <1>3, <2>2, AskedWhenFirstRouted DEF TaskBegun, AdInv, OnceInv, FreshIsUnasked
  <2>3. CASE task'[t] = task[t] \/ FansOut(t)
    <3>1. task[t].pc \in {"route", "fan", "deliver"} /\ m = task[t].mail
      BY <1>3, <2>3 DEF FansOut
    <3>2. m \in Mail
      BY <3>1 DEF AdInv, AdShape
    <3>3. WillHear(m) \/ (t = m /\ ask[<<m, "channel">>] = "idle")
      BY <3>1 DEF AdInv, OnceInv, RoutedOnceOrAdmitted
    <3> QED
      BY <1>1, <1>2, <1>3, <3>2, <3>3, AskedWhenFirstRouted
  <2> QED
    BY <1>1, <1>3, <2>1, <2>2, <2>3 DEF TaskMoves, Ends, Quiet, TaskPicks
<1>4. ASSUME NEW m \in Mail, task'[m].pc = "idle" PROVE ask'[<<m, "channel">>] = "idle"
  <2>1. task[m].pc = "idle"
    BY <1>1, <1>4 DEF TaskMoves, Ends, TaskBegun, FansOut, TaskPicks, Decides, AdWorkers
  <2> QED
    BY <1>1, <1>4, <2>1, AskedWhenFirstRouted DEF AdInv, OnceInv, FreshIsUnasked
<1>5. RoutedOnceOrAdmitted'
  BY <1>3 DEF RoutedOnceOrAdmitted
<1> QED
  BY <1>4, <1>5 DEF FreshIsUnasked

\* Who is held for the channel was asked about.
LEMMA KeptAskedStep == AdInv /\ [NextAdmission]_admissionVars => KeptWasAsked'
<1> SUFFICES ASSUME AdInv, [NextAdmission]_admissionVars PROVE KeptWasAsked'
  OBVIOUS
<1> USE AdmissionConstants DEF AdInv, desk, bounds, access, AdGoto, AdDone, Begins, AskAt,
   SpentWorker, FreeWorker, Agents, Senders, AdWorkers, OnceInv, KeptWasAsked, AdShape, AdTasks,
   TaskSteps, AskSteps, Asks, SenderRows, NoRow, Stamp, HeldFor
<1>1. ASSUME NEW m \in Mail, Receive(m) PROVE KeptWasAsked'
  BY <1>1 DEF Receive
<1>2. ASSUME NEW m \in Mail, RequestChannel(m) PROVE KeptWasAsked'
  BY <1>2 DEF RequestChannel
<1>3. ASSUME NEW m \in Mail, InsertChannel(m) PROVE KeptWasAsked'
  BY <1>3 DEF InsertChannel
<1>4. ASSUME NEW t \in AdWorkers, RouteInbound(t) PROVE KeptWasAsked'
  BY <1>4 DEF RouteInbound
<1>5. ASSUME NEW t \in AdWorkers, NEW a \in Agents, AccessGate(t, a) PROVE KeptWasAsked'
  BY <1>5 DEF AccessGate
<1>6. ASSUME NEW t \in AdWorkers, DeliverToAgent(t) PROVE KeptWasAsked'
  BY <1>6 DEF DeliverToAgent
<1>7. ASSUME NEW t \in AdWorkers, FanOver(t) PROVE KeptWasAsked'
  BY <1>7 DEF FanOver
<1>8. ASSUME NEW t \in AdWorkers, AddMember(t) PROVE KeptWasAsked'
  BY <1>8 DEF AddMember
<1>9. ASSUME NEW t \in AdWorkers, DropSender(t) PROVE KeptWasAsked'
  BY <1>9 DEF DropSender
<1>10. ASSUME NEW t \in AdWorkers, DenyChannel(t) PROVE KeptWasAsked'
  BY <1>10 DEF DenyChannel
<1>11. ASSUME NEW t \in AdWorkers, DropChannel(t) PROVE KeptWasAsked'
  BY <1>11 DEF DropChannel
<1>12. ASSUME NEW t \in AdWorkers, ArmNaming(t) PROVE KeptWasAsked'
  BY <1>12 DEF ArmNaming
<1>13. ASSUME NEW t \in AdWorkers, PromptSettles(t) PROVE KeptWasAsked'
  BY <1>13 DEF PromptSettles
<1>14. ASSUME NEW t \in AdWorkers, WireChannel(t) PROVE KeptWasAsked'
  BY <1>14 DEF WireChannel
<1>15. ASSUME NEW t \in AdWorkers, Unhold(t) PROVE KeptWasAsked'
  BY <1>15 DEF Unhold
<1>16. ASSUME NEW r \in DOMAIN ask, SendCard(r) PROVE KeptWasAsked'
  BY <1>16 DEF SendCard
<1>17. ASSUME NEW r \in DOMAIN ask, ClearStamp(r) PROVE KeptWasAsked'
  BY <1>17 DEF ClearStamp
<1>18. ASSUME NEW r \in DOMAIN ask, RequestSender(r) PROVE KeptWasAsked'
  BY <1>18 DEF RequestSender
<1>19. ASSUME NEW r \in DOMAIN ask, InsertSender(r) PROVE KeptWasAsked'
  BY <1>19 DEF InsertSender
<1>20. ASSUME NEW r \in DOMAIN ask, Decline(r) PROVE KeptWasAsked'
  BY <1>20 DEF Decline
<1>21. ASSUME NEW k \in Presses, PressSender(k) PROVE KeptWasAsked'
  BY <1>21 DEF PressSender
<1>22. ASSUME NEW k \in Presses, PressChannel(k) PROVE KeptWasAsked'
  BY <1>22 DEF PressChannel
<1>23. CASE NameReply
  BY <1>23 DEF NameReply
<1>24. CASE FlipPolicy
  BY <1>24 DEF FlipPolicy
<1>25. CASE AdHostCrash
  BY <1>25 DEF AdHostCrash
<1>26. CASE UNCHANGED admissionVars
  BY <1>26 DEF admissionVars
<1> QED
  BY <1>1, <1>2, <1>3, <1>4, <1>5, <1>6, <1>7, <1>8, <1>9, <1>10, <1>11, <1>12, <1>13, <1>14,
     <1>15, <1>16, <1>17, <1>18, <1>19, <1>20, <1>21, <1>22, <1>23, <1>24, <1>25,
     <1>26 DEF NextAdmission, ChannelStep, RouterStep, ClickStep, AskStep

\* Nobody is asked about twice for one message.
LEMMA AskedOnceStep == AdInv /\ [NextAdmission]_admissionVars => AskedOnce'
<1> SUFFICES ASSUME AdInv, [NextAdmission]_admissionVars PROVE AskedOnce'
  OBVIOUS
<1> USE AdmissionConstants DEF AdInv, desk, bounds, access, AdGoto, AdDone, Begins, AskAt,
   SpentWorker, FreeWorker, Agents, Senders, AdWorkers
<1>1. ASSUME NEW m \in Mail, Receive(m) PROVE AskedOnce'
  BY <1>1 DEF WiredInv, OnceInv, AskedOnce, AskedIsWired, HeldIsWired, RoutedOnceOrAdmitted,
     WillHear, SenderFree, AdShape, AdTasks, TaskSteps, AskSteps, Asks, SenderRows, NoRow, Stamp,
     HeldFor, Receive
<1>2. ASSUME NEW m \in Mail, RequestChannel(m) PROVE AskedOnce'
  BY <1>2 DEF WiredInv, OnceInv, AskedOnce, AskedIsWired, HeldIsWired, RoutedOnceOrAdmitted,
     WillHear, SenderFree, AdShape, AdTasks, TaskSteps, AskSteps, Asks, SenderRows, NoRow, Stamp,
     HeldFor, RequestChannel
<1>3. ASSUME NEW m \in Mail, InsertChannel(m) PROVE AskedOnce'
  BY <1>3 DEF WiredInv, OnceInv, AskedOnce, AskedIsWired, HeldIsWired, RoutedOnceOrAdmitted,
     WillHear, SenderFree, AdShape, AdTasks, TaskSteps, AskSteps, Asks, SenderRows, NoRow, Stamp,
     HeldFor, InsertChannel
<1>4. ASSUME NEW t \in AdWorkers, RouteInbound(t) PROVE AskedOnce'
  BY <1>4 DEF WiredInv, OnceInv, AskedOnce, AskedIsWired, HeldIsWired, RoutedOnceOrAdmitted,
     WillHear, SenderFree, AdShape, AdTasks, TaskSteps, AskSteps, Asks, SenderRows, NoRow, Stamp,
     HeldFor, RouteInbound
<1>5. ASSUME NEW t \in AdWorkers, NEW a \in Agents, AccessGate(t, a) PROVE AskedOnce'
  <2>1. task[t].pc = "fan" /\ task[t].mail \in Mail /\ UNCHANGED <<wired, senderHold, members>>
    BY <1>5 DEF AccessGate, AdShape
  <2>2. ask' = ask \/ (~Admitted(task[t].mail, a) /\ \A r \in Asks : r # <<task[t].mail, a>> => ask'[r] = ask[r])
    BY <1>5 DEF AccessGate, AdShape
  <2>3. CASE ask' = ask
    BY <2>1, <2>3 DEF AskedOnce, OnceInv
  <2>4. CASE ~Admitted(task[t].mail, a) /\ \A r \in Asks : r # <<task[t].mail, a>> => ask'[r] = ask[r]
    <3> SUFFICES ASSUME NEW m \in Mail, NEW b \in Agents, ask'[<<m, "channel">>] # "idle", wired = {b}
                 PROVE  ask'[<<m, b>>] = "idle" /\ \A s \in Senders : senderHold[s] # HeldFor(m, b)
      BY <2>1 DEF AskedOnce
    <3>1. ask[<<m, "channel">>] # "idle"
      BY <2>4 DEF Asks
    <3>2. ask[<<m, b>>] = "idle" /\ \A s \in Senders : senderHold[s] # HeldFor(m, b)
      BY <3>1 DEF OnceInv, AskedOnce
    <3>3. m # task[t].mail \/ b # a
      <4>1. WillHear(task[t].mail) \/ (t = task[t].mail /\ ask[<<t, "channel">>] = "idle")
        BY <2>1 DEF OnceInv, RoutedOnceOrAdmitted
      <4> QED
        BY <2>4, <3>1, <4>1 DEF WillHear
    <3> QED
      BY <2>4, <3>2, <3>3 DEF Asks
  <2> QED
    BY <2>2, <2>3, <2>4
<1>6. ASSUME NEW t \in AdWorkers, DeliverToAgent(t) PROVE AskedOnce'
  BY <1>6 DEF WiredInv, OnceInv, AskedOnce, AskedIsWired, HeldIsWired, RoutedOnceOrAdmitted,
     WillHear, SenderFree, AdShape, AdTasks, TaskSteps, AskSteps, Asks, SenderRows, NoRow, Stamp,
     HeldFor, DeliverToAgent
<1>7. ASSUME NEW t \in AdWorkers, FanOver(t) PROVE AskedOnce'
  BY <1>7 DEF WiredInv, OnceInv, AskedOnce, AskedIsWired, HeldIsWired, RoutedOnceOrAdmitted,
     WillHear, SenderFree, AdShape, AdTasks, TaskSteps, AskSteps, Asks, SenderRows, NoRow, Stamp,
     HeldFor, FanOver
<1>8. ASSUME NEW t \in AdWorkers, AddMember(t) PROVE AskedOnce'
  BY <1>8 DEF WiredInv, OnceInv, AskedOnce, AskedIsWired, HeldIsWired, RoutedOnceOrAdmitted,
     WillHear, SenderFree, AdShape, AdTasks, TaskSteps, AskSteps, Asks, SenderRows, NoRow, Stamp,
     HeldFor, AddMember
<1>9. ASSUME NEW t \in AdWorkers, DropSender(t) PROVE AskedOnce'
  BY <1>9 DEF WiredInv, OnceInv, AskedOnce, AskedIsWired, HeldIsWired, RoutedOnceOrAdmitted,
     WillHear, SenderFree, AdShape, AdTasks, TaskSteps, AskSteps, Asks, SenderRows, NoRow, Stamp,
     HeldFor, DropSender
<1>10. ASSUME NEW t \in AdWorkers, DenyChannel(t) PROVE AskedOnce'
  BY <1>10 DEF WiredInv, OnceInv, AskedOnce, AskedIsWired, HeldIsWired, RoutedOnceOrAdmitted,
     WillHear, SenderFree, AdShape, AdTasks, TaskSteps, AskSteps, Asks, SenderRows, NoRow, Stamp,
     HeldFor, DenyChannel
<1>11. ASSUME NEW t \in AdWorkers, DropChannel(t) PROVE AskedOnce'
  BY <1>11 DEF WiredInv, OnceInv, AskedOnce, AskedIsWired, HeldIsWired, RoutedOnceOrAdmitted,
     WillHear, SenderFree, AdShape, AdTasks, TaskSteps, AskSteps, Asks, SenderRows, NoRow, Stamp,
     HeldFor, DropChannel
<1>12. ASSUME NEW t \in AdWorkers, ArmNaming(t) PROVE AskedOnce'
  BY <1>12 DEF WiredInv, OnceInv, AskedOnce, AskedIsWired, HeldIsWired, RoutedOnceOrAdmitted,
     WillHear, SenderFree, AdShape, AdTasks, TaskSteps, AskSteps, Asks, SenderRows, NoRow, Stamp,
     HeldFor, ArmNaming
<1>13. ASSUME NEW t \in AdWorkers, PromptSettles(t) PROVE AskedOnce'
  BY <1>13 DEF WiredInv, OnceInv, AskedOnce, AskedIsWired, HeldIsWired, RoutedOnceOrAdmitted,
     WillHear, SenderFree, AdShape, AdTasks, TaskSteps, AskSteps, Asks, SenderRows, NoRow, Stamp,
     HeldFor, PromptSettles
<1>14. ASSUME NEW t \in AdWorkers, WireChannel(t) PROVE AskedOnce'
  BY <1>14 DEF WiredInv, OnceInv, AskedOnce, AskedIsWired, HeldIsWired, RoutedOnceOrAdmitted,
     WillHear, SenderFree, AdShape, AdTasks, TaskSteps, AskSteps, Asks, SenderRows, NoRow, Stamp,
     HeldFor, WireChannel
<1>15. ASSUME NEW t \in AdWorkers, Unhold(t) PROVE AskedOnce'
  BY <1>15 DEF WiredInv, OnceInv, AskedOnce, AskedIsWired, HeldIsWired, RoutedOnceOrAdmitted,
     WillHear, SenderFree, AdShape, AdTasks, TaskSteps, AskSteps, Asks, SenderRows, NoRow, Stamp,
     HeldFor, Unhold
<1>16. ASSUME NEW r \in DOMAIN ask, SendCard(r) PROVE AskedOnce'
  BY <1>16 DEF WiredInv, OnceInv, AskedOnce, AskedIsWired, HeldIsWired, RoutedOnceOrAdmitted,
     WillHear, SenderFree, AdShape, AdTasks, TaskSteps, AskSteps, Asks, SenderRows, NoRow, Stamp,
     HeldFor, SendCard
<1>17. ASSUME NEW r \in DOMAIN ask, ClearStamp(r) PROVE AskedOnce'
  BY SMTT(60), <1>17 DEF WiredInv, OnceInv, AskedOnce, AskedIsWired, HeldIsWired, RoutedOnceOrAdmitted,
     WillHear, SenderFree, AdShape, AdTasks, TaskSteps, AskSteps, Asks, SenderRows, NoRow, Stamp,
     HeldFor, ClearStamp
<1>18. ASSUME NEW r \in DOMAIN ask, RequestSender(r) PROVE AskedOnce'
  BY <1>18 DEF WiredInv, OnceInv, AskedOnce, AskedIsWired, HeldIsWired, RoutedOnceOrAdmitted,
     WillHear, SenderFree, AdShape, AdTasks, TaskSteps, AskSteps, Asks, SenderRows, NoRow, Stamp,
     HeldFor, RequestSender
<1>19. ASSUME NEW r \in DOMAIN ask, InsertSender(r) PROVE AskedOnce'
  BY <1>19 DEF WiredInv, OnceInv, AskedOnce, AskedIsWired, HeldIsWired, RoutedOnceOrAdmitted,
     WillHear, SenderFree, AdShape, AdTasks, TaskSteps, AskSteps, Asks, SenderRows, NoRow, Stamp,
     HeldFor, InsertSender
<1>20. ASSUME NEW r \in DOMAIN ask, Decline(r) PROVE AskedOnce'
  BY <1>20 DEF WiredInv, OnceInv, AskedOnce, AskedIsWired, HeldIsWired, RoutedOnceOrAdmitted,
     WillHear, SenderFree, AdShape, AdTasks, TaskSteps, AskSteps, Asks, SenderRows, NoRow, Stamp,
     HeldFor, Decline
<1>21. ASSUME NEW k \in Presses, PressSender(k) PROVE AskedOnce'
  BY <1>21 DEF WiredInv, OnceInv, AskedOnce, AskedIsWired, HeldIsWired, RoutedOnceOrAdmitted,
     WillHear, SenderFree, AdShape, AdTasks, TaskSteps, AskSteps, Asks, SenderRows, NoRow, Stamp,
     HeldFor, PressSender
<1>22. ASSUME NEW k \in Presses, PressChannel(k) PROVE AskedOnce'
  BY <1>22 DEF WiredInv, OnceInv, AskedOnce, AskedIsWired, HeldIsWired, RoutedOnceOrAdmitted,
     WillHear, SenderFree, AdShape, AdTasks, TaskSteps, AskSteps, Asks, SenderRows, NoRow, Stamp,
     HeldFor, PressChannel
<1>23. CASE NameReply
  BY <1>23 DEF WiredInv, OnceInv, AskedOnce, AskedIsWired, HeldIsWired, RoutedOnceOrAdmitted,
     WillHear, SenderFree, AdShape, AdTasks, TaskSteps, AskSteps, Asks, SenderRows, NoRow, Stamp,
     HeldFor, NameReply
<1>24. CASE FlipPolicy
  BY <1>24 DEF WiredInv, OnceInv, AskedOnce, AskedIsWired, HeldIsWired, RoutedOnceOrAdmitted,
     WillHear, SenderFree, AdShape, AdTasks, TaskSteps, AskSteps, Asks, SenderRows, NoRow, Stamp,
     HeldFor, FlipPolicy
<1>25. CASE AdHostCrash
  BY <1>25 DEF WiredInv, OnceInv, AskedOnce, AskedIsWired, HeldIsWired, RoutedOnceOrAdmitted,
     WillHear, SenderFree, AdShape, AdTasks, TaskSteps, AskSteps, Asks, SenderRows, NoRow, Stamp,
     HeldFor, AdHostCrash
<1>26. CASE UNCHANGED admissionVars
  BY <1>26 DEF WiredInv, OnceInv, AskedOnce, AskedIsWired, HeldIsWired, RoutedOnceOrAdmitted,
     WillHear, SenderFree, AdShape, AdTasks, TaskSteps, AskSteps, Asks, SenderRows, NoRow, Stamp,
     HeldFor, admissionVars
<1> QED
  BY <1>1, <1>2, <1>3, <1>4, <1>5, <1>6, <1>7, <1>8, <1>9, <1>10, <1>11, <1>12, <1>13, <1>14,
     <1>15, <1>16, <1>17, <1>18, <1>19, <1>20, <1>21, <1>22, <1>23, <1>24, <1>25,
     <1>26 DEF NextAdmission, ChannelStep, RouterStep, ClickStep, AskStep

-----------------------------------------------------------------------------
(* Held messages.                                                          *)

\* A row that held a message goes when the message is let go or replayed.
HeldOrReplayed ==
  \A m \in Mail : Held(m) => Held(m)' \/ m \in ended' \/ \E t \in AdWorkers : Carries(t, m)'
\* No other step takes it.
LEMMA HeldGoesOn == AdInv /\ [NextAdmission]_admissionVars => HeldOrReplayed
<1> SUFFICES ASSUME AdInv, [NextAdmission]_admissionVars PROVE HeldOrReplayed
  OBVIOUS
<1> USE AdmissionConstants DEF AdInv, desk, bounds, access, AdGoto, AdDone, Begins, AskAt,
   SpentWorker, FreeWorker, Agents, Senders, AdWorkers, HeldOrReplayed, Held, Carries, Admitted,
   SenderFree, WiredInv, DecidesOnWired, MemberBeforeReplay, AdShape, AdTasks, TaskSteps, AskSteps,
   Asks, SenderRows, NoRow, Stamp, HeldFor
<1>1. ASSUME NEW m \in Mail, Receive(m) PROVE HeldOrReplayed
  BY <1>1 DEF Receive
<1>2. ASSUME NEW m \in Mail, RequestChannel(m) PROVE HeldOrReplayed
  BY <1>2 DEF RequestChannel
<1>3. ASSUME NEW m \in Mail, InsertChannel(m) PROVE HeldOrReplayed
  BY <1>3 DEF InsertChannel
<1>4. ASSUME NEW t \in AdWorkers, RouteInbound(t) PROVE HeldOrReplayed
  BY <1>4 DEF RouteInbound
<1>5. ASSUME NEW t \in AdWorkers, NEW a \in Agents, AccessGate(t, a) PROVE HeldOrReplayed
  BY <1>5 DEF AccessGate
<1>6. ASSUME NEW t \in AdWorkers, DeliverToAgent(t) PROVE HeldOrReplayed
  BY <1>6 DEF DeliverToAgent
<1>7. ASSUME NEW t \in AdWorkers, FanOver(t) PROVE HeldOrReplayed
  BY <1>7 DEF FanOver
<1>8. ASSUME NEW t \in AdWorkers, AddMember(t) PROVE HeldOrReplayed
  BY <1>8 DEF AddMember
<1>9. ASSUME NEW t \in AdWorkers, DropSender(t) PROVE HeldOrReplayed
  BY SMTT(60), <1>9 DEF DropSender
<1>10. ASSUME NEW t \in AdWorkers, DenyChannel(t) PROVE HeldOrReplayed
  BY <1>10 DEF DenyChannel
<1>11. ASSUME NEW t \in AdWorkers, DropChannel(t) PROVE HeldOrReplayed
  BY <1>11 DEF DropChannel
<1>12. ASSUME NEW t \in AdWorkers, ArmNaming(t) PROVE HeldOrReplayed
  BY <1>12 DEF ArmNaming
<1>13. ASSUME NEW t \in AdWorkers, PromptSettles(t) PROVE HeldOrReplayed
  BY <1>13 DEF PromptSettles
<1>14. ASSUME NEW t \in AdWorkers, WireChannel(t) PROVE HeldOrReplayed
  BY <1>14 DEF WireChannel
<1>15. ASSUME NEW t \in AdWorkers, Unhold(t) PROVE HeldOrReplayed
  BY <1>15 DEF Unhold
<1>16. ASSUME NEW r \in DOMAIN ask, SendCard(r) PROVE HeldOrReplayed
  BY <1>16 DEF SendCard
<1>17. ASSUME NEW r \in DOMAIN ask, ClearStamp(r) PROVE HeldOrReplayed
  BY <1>17 DEF ClearStamp
<1>18. ASSUME NEW r \in DOMAIN ask, RequestSender(r) PROVE HeldOrReplayed
  BY <1>18 DEF RequestSender
<1>19. ASSUME NEW r \in DOMAIN ask, InsertSender(r) PROVE HeldOrReplayed
  BY <1>19 DEF InsertSender
<1>20. ASSUME NEW r \in DOMAIN ask, Decline(r) PROVE HeldOrReplayed
  BY <1>20 DEF Decline
<1>21. ASSUME NEW k \in Presses, PressSender(k) PROVE HeldOrReplayed
  BY <1>21 DEF PressSender
<1>22. ASSUME NEW k \in Presses, PressChannel(k) PROVE HeldOrReplayed
  BY <1>22 DEF PressChannel
<1>23. CASE NameReply
  BY <1>23 DEF NameReply
<1>24. CASE FlipPolicy
  BY <1>24 DEF FlipPolicy
<1>25. CASE AdHostCrash
  BY <1>25 DEF AdHostCrash
<1>26. CASE UNCHANGED admissionVars
  BY <1>26 DEF admissionVars
<1> QED
  BY <1>1, <1>2, <1>3, <1>4, <1>5, <1>6, <1>7, <1>8, <1>9, <1>10, <1>11, <1>12, <1>13, <1>14,
     <1>15, <1>16, <1>17, <1>18, <1>19, <1>20, <1>21, <1>22, <1>23, <1>24, <1>25,
     <1>26 DEF NextAdmission, ChannelStep, RouterStep, ClickStep, AskStep

\* What is kept was held first.
KeptFromHeld ==
  \A r \in kept' : r \in Asks /\ (r \in kept \/ Held(r[1])')
\* It is, when it is inserted.
LEMMA KeptIsHeld == AdInv /\ [NextAdmission]_admissionVars => KeptFromHeld
<1> SUFFICES ASSUME AdInv, [NextAdmission]_admissionVars PROVE KeptFromHeld
  OBVIOUS
<1> USE AdmissionConstants DEF AdInv, desk, bounds, access, AdGoto, AdDone, Begins, AskAt,
   SpentWorker, FreeWorker, Agents, Senders, AdWorkers, KeptFromHeld, Held, AdRest, SenderFree,
   ChannelInFlight, AdShape, AdTasks, TaskSteps, AskSteps, Asks, SenderRows, NoRow, Stamp, HeldFor
<1>1. ASSUME NEW m \in Mail, Receive(m) PROVE KeptFromHeld
  BY <1>1 DEF Receive
<1>2. ASSUME NEW m \in Mail, RequestChannel(m) PROVE KeptFromHeld
  BY <1>2 DEF RequestChannel
<1>3. ASSUME NEW m \in Mail, InsertChannel(m) PROVE KeptFromHeld
  BY <1>3 DEF InsertChannel
<1>4. ASSUME NEW t \in AdWorkers, RouteInbound(t) PROVE KeptFromHeld
  BY <1>4 DEF RouteInbound
<1>5. ASSUME NEW t \in AdWorkers, NEW a \in Agents, AccessGate(t, a) PROVE KeptFromHeld
  BY <1>5 DEF AccessGate
<1>6. ASSUME NEW t \in AdWorkers, DeliverToAgent(t) PROVE KeptFromHeld
  BY <1>6 DEF DeliverToAgent
<1>7. ASSUME NEW t \in AdWorkers, FanOver(t) PROVE KeptFromHeld
  BY <1>7 DEF FanOver
<1>8. ASSUME NEW t \in AdWorkers, AddMember(t) PROVE KeptFromHeld
  BY <1>8 DEF AddMember
<1>9. ASSUME NEW t \in AdWorkers, DropSender(t) PROVE KeptFromHeld
  BY <1>9 DEF DropSender
<1>10. ASSUME NEW t \in AdWorkers, DenyChannel(t) PROVE KeptFromHeld
  BY <1>10 DEF DenyChannel
<1>11. ASSUME NEW t \in AdWorkers, DropChannel(t) PROVE KeptFromHeld
  BY <1>11 DEF DropChannel
<1>12. ASSUME NEW t \in AdWorkers, ArmNaming(t) PROVE KeptFromHeld
  BY <1>12 DEF ArmNaming
<1>13. ASSUME NEW t \in AdWorkers, PromptSettles(t) PROVE KeptFromHeld
  BY <1>13 DEF PromptSettles
<1>14. ASSUME NEW t \in AdWorkers, WireChannel(t) PROVE KeptFromHeld
  BY <1>14 DEF WireChannel
<1>15. ASSUME NEW t \in AdWorkers, Unhold(t) PROVE KeptFromHeld
  BY <1>15 DEF Unhold
<1>16. ASSUME NEW r \in DOMAIN ask, SendCard(r) PROVE KeptFromHeld
  BY <1>16 DEF SendCard
<1>17. ASSUME NEW r \in DOMAIN ask, ClearStamp(r) PROVE KeptFromHeld
  BY <1>17 DEF ClearStamp
<1>18. ASSUME NEW r \in DOMAIN ask, RequestSender(r) PROVE KeptFromHeld
  BY <1>18 DEF RequestSender
<1>19. ASSUME NEW r \in DOMAIN ask, InsertSender(r) PROVE KeptFromHeld
  BY <1>19 DEF InsertSender
<1>20. ASSUME NEW r \in DOMAIN ask, Decline(r) PROVE KeptFromHeld
  BY <1>20 DEF Decline
<1>21. ASSUME NEW k \in Presses, PressSender(k) PROVE KeptFromHeld
  BY <1>21 DEF PressSender
<1>22. ASSUME NEW k \in Presses, PressChannel(k) PROVE KeptFromHeld
  BY <1>22 DEF PressChannel
<1>23. CASE NameReply
  BY <1>23 DEF NameReply
<1>24. CASE FlipPolicy
  BY <1>24 DEF FlipPolicy
<1>25. CASE AdHostCrash
  BY <1>25 DEF AdHostCrash
<1>26. CASE UNCHANGED admissionVars
  BY <1>26 DEF admissionVars
<1> QED
  BY <1>1, <1>2, <1>3, <1>4, <1>5, <1>6, <1>7, <1>8, <1>9, <1>10, <1>11, <1>12, <1>13, <1>14,
     <1>15, <1>16, <1>17, <1>18, <1>19, <1>20, <1>21, <1>22, <1>23, <1>24, <1>25,
     <1>26 DEF NextAdmission, ChannelStep, RouterStep, ClickStep, AskStep

\* A replay goes on until the message has arrived, or the host dies.
LEMMA ReplayGoesOn ==
  ASSUME AdInv, [NextAdmission]_admissionVars, NEW m \in Mail, NEW t \in AdWorkers, Carries(t, m)
  PROVE  Carries(t, m)' \/ Arrived(m)' \/ adDied'
<1>1. TaskMoves /\ Kept
  BY TasksMove, NothingIsTakenBack
<1>2. PICK a \in wired :
        /\ task[t].mail = m /\ Admitted(m, a)
        /\ task[t].pc = "route" \/ (task[t].pc \in {"fan", "deliver"} /\ a \in task[t].todo)
  BY DEF Carries
<1>3. a \in wired' /\ Admitted(m, a)'
  BY <1>1, <1>2 DEF Kept, Admitted
<1>4. task[t].agent \in Agents
  BY DEF AdInv, AdShape, AdTasks
<1>5. CASE task'[t] = task[t]
  BY <1>2, <1>3, <1>5 DEF Carries
<1>6. CASE Ends(t)
  BY <1>2, <1>4, <1>6 DEF Ends, Arrived
<1>7. CASE FansOut(t)
  <2>1. CASE task[t].pc = "deliver"
    BY <1>2, <1>4, <1>7, <2>1 DEF FansOut, Arrived
  <2>2. CASE task[t].pc # "deliver"
    BY <1>2, <1>3, <1>7, <2>2 DEF FansOut, Carries
  <2> QED
    BY <2>1, <2>2
<1> QED
  BY <1>1, <1>2, <1>5, <1>6, <1>7 DEF TaskMoves, TaskBegun, TaskPicks, Decides

\* What was kept stays held, is carried, has arrived or was let go.
LEMMA CarriedStep == AdInv /\ [NextAdmission]_admissionVars => KeptIsCarried'
<1> SUFFICES ASSUME AdInv, [NextAdmission]_admissionVars, NEW r \in kept', ~adDied'
             PROVE  Held(r[1])' \/ r[1] \in ended' \/ Arrived(r[1])' \/ \E t \in AdWorkers : Carries(t, r[1])'
  BY DEF KeptIsCarried
<1>1. Kept /\ HeldOrReplayed /\ KeptFromHeld
  BY NothingIsTakenBack, HeldGoesOn, KeptIsHeld
<1>2. r[1] \in Mail /\ (r \in kept \/ Held(r[1])')
  BY <1>1 DEF KeptFromHeld, Asks
<1>3. CASE r \in kept
  <2>1. Held(r[1]) \/ r[1] \in ended \/ Arrived(r[1]) \/ \E t \in AdWorkers : Carries(t, r[1])
    BY <1>1, <1>3 DEF AdInv, KeptIsCarried, Kept
  <2>2. CASE Held(r[1])
    BY <1>1, <1>2, <2>2 DEF HeldOrReplayed
  <2>3. CASE r[1] \in ended \/ Arrived(r[1])
    BY <1>1, <2>3 DEF Kept, Arrived
  <2>4. CASE \E t \in AdWorkers : Carries(t, r[1])
    BY <1>2, <2>4, ReplayGoesOn
  <2> QED
    BY <2>1, <2>2, <2>3, <2>4
<1> QED
  BY <1>2, <1>3

-----------------------------------------------------------------------------
(* The theorems.                                                           *)

\* The initial states satisfy the invariant.
LEMMA AdInit == InitAdmission => AdInv
<1> SUFFICES ASSUME InitAdmission PROVE AdInv
  OBVIOUS
<1> USE AdmissionConstants DEF InitAdmission, FreeWorker, SpentWorker, Agents
<1>1. AdShape
  BY DEF AdShape, AdTasks, TaskSteps, AskSteps, Asks, SenderRows
<1>2. AdRest
  BY DEF AdRest, Policies
<1>3. WiredInv
  BY DEF WiredInv, FansOverWired, DecidesOnWired, AskedIsWired, HeldIsWired, MemberBeforeReplay,
     NoRow, HeldFor
<1>4. OnceInv
  BY DEF OnceInv, RoutedOnceOrAdmitted, FreshIsUnasked, KeptWasAsked, AskedOnce, NoRow, HeldFor
<1>5. KeptIsCarried
  BY DEF KeptIsCarried
<1> QED
  BY <1>1, <1>2, <1>3, <1>4, <1>5 DEF AdInv

\* The invariant is inductive.
LEMMA AdStep == AdInv /\ [NextAdmission]_admissionVars => AdInv'
  BY ShapeStep, RestStep, WiredStep, RoutedStep, KeptAskedStep, AskedOnceStep,
     CarriedStep DEF AdInv, OnceInv

\* The invariant holds whatever order the routings, requests, clicks, replays
\* and crashes come in.
THEOREM AdInvariant == AdmissionSpec => []AdInv
  BY AdInit, AdStep, PTL DEF AdmissionSpec

\* The variables keep their types (router.ts, permissions/index.ts).
THEOREM AdmissionTypes == AdmissionSpec => []AdTypeOK
  BY AdInvariant, ShapeIsType, PTL DEF AdInv

\* A message that is held is carried by somebody.
LEMMA HeldIsKept == AdInv => HeldIsNotLost
<1> SUFFICES ASSUME AdInv, NEW r \in kept, ~adDied
             PROVE  Held(r[1]) \/ Handled(r[1]) \/ r[1] \in ended \/ \E a \in Agents : <<r[1], a>> \in inbox
  BY DEF HeldIsNotLost
<1> QED
  BY DEF AdInv, KeptIsCarried, Carries, Arrived, Handled

\* Its channel's connection was asked about once.
LEMMA OneCardOnly == AdInv => NoSecondCard
<1> SUFFICES ASSUME AdInv, NEW m \in Mail, NEW a \in wired, <<m, "channel">> \in kept, wired = {a}
             PROVE  senderHold[Author[m]] # HeldFor(m, a)
  BY DEF NoSecondCard
<1>1. a \in Agents /\ Author[m] \in Senders
  BY DEF AdInv, AdRest, Senders
<1> QED
  BY <1>1 DEF AdInv, OnceInv, KeptWasAsked, AskedOnce

\* For any channel, senders, agents and clicks: a message that was held is not
\* lost, and the one for which a channel was connected to an agent leads to no
\* second card about its sender (permissions/index.ts:310-319, 416-435).
THEOREM AdmissionIsSafe == AdmissionSpec => []AdmissionSafety
<1>1. AdInv => HeldIsNotLost
  BY HeldIsKept
<1>2. AdInv => NoSecondCard
  BY OneCardOnly
<1> QED
  BY AdInvariant, <1>1, <1>2, PTL DEF AdmissionSafety

-----------------------------------------------------------------------------
(* A task series: the inductive invariant.                                 *)

AtMostOne(S) == \A x, y \in S : x = y

\* Before its first occurrence a series has no row, no order and no sweep.
NotYetCreated ==
  /\ 1 \in Occs
  /\ taskHome \in {"none", "bare"} =>
       /\ recurs = {} /\ extra = {} /\ snapshot = {} /\ sweepAt = "idle" /\ Written = {}
       /\ ~killed /\ spins = 0 /\ \A k \in Orders : order[k] \in {"idle", "done"}
  /\ creating \in {"idle", "folder"} => taskHome \in {"none", "bare"} /\ occ[1] = "none"
RowsFirst == \A n \in Occs : occ[n] = "none" => occAck[n] = "none" /\ \A o \in Occs : o > n => occ[o] \in {"none", "deleted"}
RecursIsArmed == recurs \subseteq Alive \cup Finished

\* What the sweep has read and not reached has finished, and still recurs
\* unless the series was deleted meanwhile.
ReadWhenRearming == sweepAt # "rearm" => snapshot = {}
ReadIsFinished == snapshot \subseteq {n \in Occs : occ[n] \in {"completed", "failed", "deleted"}}
ReadAll == sweepAt = "rearm" => recurs \cap Finished \subseteq snapshot
DeletedIsEmpty == ~doubled /\ ~(snapshot \subseteq recurs) => Written = {}
OneRecurs == ~doubled => AtMostOne(recurs) /\ AtMostOne(snapshot)
DeadIsDead == killed => recurs = {} /\ snapshot = {}

\* A session that is being closed has nothing but runs on demand.
ClosedIsIdle == taskHome = "closed" => sweepAt = "idle"
ClosedHasExtras == sweepAt = "close" \/ taskHome = "closed" => recurs \subseteq extra /\ Alive \subseteq extra

\* Of the scheduled runs at most one is alive, the newest.
Scheduled == Alive \ extra
NewestAlive == ~doubled => \A x \in Scheduled : \A y \in Written \ extra : y <= x
RecursIsScheduled ==
  ~doubled => /\ recurs \cap Finished # {} => Scheduled = {}
              /\ \A n \in recurs \cap Alive : Scheduled \subseteq {n}

\* A failure is in the streak unless a newer run succeeded; every such pair is
\* paid for by a run on demand.
Overtaken(n) == \E c \in Occs : c > n /\ occ[c] = "completed"
FailedRow == {n \in Finished : occ[n] = "failed" /\ ~Overtaken(n)}
LowAlive == {n \in Alive : Overtaken(n)}
SpinsInStreak == ~doubled => spins + Cardinality(LowAlive) <= Cardinality(FailedRow) + Cardinality(extra)
\* At the limit the series waits for its successor, has ended, or is paused.
StaysDue(p) == p \in Alive /\ occ[p] = "paused" /\ occAck[p] = "none" /\ recurs \subseteq {p}
SpinsStop ==
  ~doubled /\ spins >= FailCap + Cardinality(extra) =>
    recurs \cap Finished # {} \/ Alive = {} \/ \E p \in Alive : StaysDue(p)

RowInv == NotYetCreated /\ RowsFirst /\ RecursIsArmed
ReadInv == ReadWhenRearming /\ ReadIsFinished /\ ReadAll /\ DeletedIsEmpty /\ OneRecurs /\ DeadIsDead
CloseInv == ClosedIsIdle /\ ClosedHasExtras
SpinInv == NewestAlive /\ RecursIsScheduled /\ SpinsInStreak /\ SpinsStop /\ FailuresPause
TsInv == TsTypeOK /\ RowInv /\ ReadInv /\ CloseInv /\ SpinInv

-----------------------------------------------------------------------------
(* What a step does.                                                       *)

\* Sets of occurrences are finite, and counting them is monotone.
LEMMA OccsCount ==
  ASSUME NEW S, S \subseteq Occs
  PROVE  /\ IsFiniteSet(S) /\ Cardinality(S) \in Nat
         /\ Cardinality(S) = 0 <=> S = {}
         /\ Cardinality(S) <= 1 <=> AtMostOne(S)
<1>1. IsFiniteSet(Occs)
  BY SeriesConstants, FS_Interval DEF Occs
<1>2. IsFiniteSet(S)
  BY <1>1, FS_Subset
<1>3. Cardinality(S) \in Nat /\ (Cardinality(S) = 0 <=> S = {})
  BY <1>2, FS_CardinalityType, FS_EmptySet
<1>4. ASSUME Cardinality(S) <= 1 PROVE AtMostOne(S)
  <2>1. CASE Cardinality(S) = 0
    BY <1>3, <2>1 DEF AtMostOne
  <2>2. CASE Cardinality(S) = 1
    <3>1. PICK x : S = {x}
      BY <1>2, <2>2, FS_Singleton
    <3> QED
      BY <3>1 DEF AtMostOne
  <2> QED
    BY <1>3, <1>4, <2>1, <2>2
<1>5. ASSUME AtMostOne(S) PROVE Cardinality(S) <= 1
  <2>1. CASE S = {}
    BY <1>3, <2>1
  <2>2. CASE S # {}
    <3>1. PICK x \in S : TRUE
      BY <2>2
    <3>2. S = {x}
      BY <1>5, <3>1 DEF AtMostOne
    <3> QED
      BY <3>2, FS_Singleton
  <2> QED
    BY <2>1, <2>2
<1> QED
  BY <1>2, <1>3, <1>4, <1>5

LEMMA CountSubset ==
  ASSUME NEW S, S \subseteq Occs, NEW T, T \subseteq S
  PROVE  Cardinality(T) \in Nat /\ Cardinality(S) \in Nat /\ Cardinality(T) <= Cardinality(S)
<1>1. IsFiniteSet(S) /\ T \in SUBSET S
  BY OccsCount
<1> QED
  BY <1>1, FS_Subset, FS_CardinalityType

LEMMA CountDisjoint ==
  ASSUME NEW S, S \subseteq Occs, NEW T, T \subseteq Occs, S \cap T = {}
  PROVE  Cardinality(S \cup T) = Cardinality(S) + Cardinality(T)
<1>1. IsFiniteSet(S) /\ IsFiniteSet(T) /\ Cardinality(S) \in Nat /\ Cardinality(T) \in Nat
  BY OccsCount
<1>2. Cardinality(S \cap T) = 0
  BY FS_EmptySet
<1>3. Cardinality(S \cup T) = Cardinality(S) + Cardinality(T) - Cardinality(S \cap T)
  BY <1>1, FS_Union
<1> QED
  BY <1>1, <1>2, <1>3

\* The statuses of a row, and the rows a step may add or end.
OccsEnd(S, st) == [n \in Occs |-> IF n \in S THEN st ELSE occ[n]]

\* A sweep's reset ends runs that were claimed, or leaves the rows alone.
LEMMA ResetsDo ==
  ASSUME TsTypeOK, SweepResets
  PROVE  \E spent \in SUBSET Occs :
           /\ \A n \in spent : occ[n] = "pending" /\ occAck[n] = "processing"
           /\ occ' = OccsEnd(spent, "failed")
           /\ spins' = spins + Cardinality(spent \cap recurs)
<1>1. CASE UNCHANGED <<occ, spins>>
  <2>1. {} \cap recurs = {} /\ Cardinality({}) = 0
    BY FS_EmptySet
  <2>2. occ' = OccsEnd({}, "failed") /\ spins' = spins + Cardinality({} \cap recurs)
    BY <1>1, <2>1 DEF OccsEnd, TsTypeOK
  <2> QED
    BY <2>2
<1>2. CASE ~ UNCHANGED <<occ, spins>>
  BY <1>2 DEF SweepResets, OccsEnd, Spun
<1> QED
  BY <1>1, <1>2

\* A sweep's read of the acks ends every row whose run the container ended.
LEMMA SyncsDo ==
  ASSUME TsTypeOK, SweepSyncsRuns
  PROVE  \E wins, fails \in SUBSET (Written \ Finished) :
           /\ \A n \in wins : occAck[n] = "completed"
           /\ \A n \in fails : occAck[n] = "error"
           /\ \A n \in Written \ Finished : occAck[n] = "completed" => n \in wins
           /\ \A n \in Written \ Finished : occAck[n] = "error" => n \in fails
           /\ occ' = [n \in Occs |-> IF n \in wins THEN "completed" ELSE IF n \in fails THEN "failed" ELSE occ[n]]
           /\ spins' = IF wins # {} THEN 0 ELSE spins + Cardinality(fails \cap recurs)
<1> DEFINE wins == {n \in Written \ Finished : occAck[n] = "completed"}
           fails == {n \in Written \ Finished : occAck[n] = "error"}
<1>1. occ' = [n \in Occs |-> IF n \in wins THEN "completed" ELSE IF n \in fails THEN "failed" ELSE occ[n]]
  BY DEF SweepSyncsRuns, Written, Alive, Finished
<1>2. {n \in {m \in Written : m \notin Finished} : occAck[n] = "completed"} = wins
  OBVIOUS
<1>3. {n \in {m \in Written : m \notin Finished} : occAck[n] = "error"} = fails
  OBVIOUS
<1>4. spins' = IF wins # {} THEN 0 ELSE spins + Cardinality(fails \cap recurs)
  BY <1>2, <1>3 DEF SweepSyncsRuns, Spun
<1> QED
  BY <1>1, <1>4

\* A crash in the window of the sweep leaves a second row with the recurrence,
\* and the series has been given it twice.
LEMMA CrashDoes ==
  ASSUME TsTypeOK, SeriesCrash
  PROVE  /\ sweepAt' = "idle" /\ snapshot' = {} /\ UNCHANGED <<taskHome, extra, occAck, killed, spins>>
         /\ \/ UNCHANGED <<occ, recurs, doubled>>
            \/ /\ doubled' /\ snapshot # {} /\ sweepAt = "rearm"
               /\ \E new \in Occs :
                    /\ Fresh(new) /\ recurs' = recurs \cup {new}
                    /\ occ' \in {[occ EXCEPT ![new] = "paused"], [occ EXCEPT ![new] = "pending"]}
BY DEF SeriesCrash, RearmAs

\* An update of the recurrence writes every live row: it leaves two rows with
\* the recurrence only if it is known to have done so.
LEMMA UpdateDoes ==
  ASSUME TsTypeOK, NEW k \in Orders, UpdateRecurrence(k)
  PROVE  /\ UNCHANGED <<creating, taskHome, occ, extra, occAck, runner, sweepAt, snapshot, spins, tsCrashes>>
         /\ \/ /\ recurs' = recurs \cup Alive
               /\ ~doubled' => ~doubled /\ (Alive = {} \/ AtMostOne(recurs'))
               /\ killed' => killed /\ Alive = {}
            \/ recurs' = recurs \ Alive /\ UNCHANGED <<killed, doubled>>
<1>1. CASE Given(k, "recur") /\ recurs' = recurs \cup Alive
  <2>1. recurs' \subseteq Occs
    BY <1>1 DEF TsTypeOK, Alive
  <2>2. Cardinality(recurs') \in Nat /\ (Cardinality(recurs') <= 1 <=> AtMostOne(recurs'))
    BY <2>1, OccsCount
  <2>3. /\ UNCHANGED <<creating, taskHome, occ, extra, occAck, runner, sweepAt, snapshot, spins, tsCrashes>>
        /\ \/ /\ doubled' = (doubled \/ (Alive # {} /\ Cardinality(recurs') > 1))
              /\ killed' = (killed /\ Alive = {})
           \/ recurs' = recurs \ Alive /\ UNCHANGED <<killed, doubled>>
    BY DEF UpdateRecurrence, hist
  <2>4. ~(Cardinality(recurs') > 1) => AtMostOne(recurs')
    BY <2>2
  <2>5. (doubled' = (doubled \/ (Alive # {} /\ Cardinality(recurs') > 1)))
          => (~doubled' => ~doubled /\ (Alive = {} \/ AtMostOne(recurs')))
    BY <2>4
  <2> QED
    BY <1>1, <2>3, <2>5
<1>2. CASE Given(k, "once") /\ recurs' = recurs \ Alive
  BY <1>2 DEF UpdateRecurrence, Given, hist
<1> QED
  BY <1>1, <1>2 DEF UpdateRecurrence

\* What a successor of n inherits: as long as the recurrence was given once, n
\* was its only holder, and nothing else scheduled is alive.
LEMMA RearmDoes ==
  ASSUME TsInv, NEW n \in Occs, Rearm(n)
  PROVE  \E new \in Occs :
           /\ Fresh(new) /\ occ' = [occ EXCEPT ![new] = RearmAs] /\ RearmAs \in {"paused", "pending"}
           /\ n # new /\ occ[new] = "none" /\ occ[n] \in {"completed", "failed", "deleted"}
           /\ recurs' = (recurs \ {n}) \cup {new} /\ snapshot' = snapshot \ {n}
           /\ ~doubled => recurs' = {new} /\ snapshot' = {} /\ Scheduled = {}
           /\ UNCHANGED <<creating, taskHome, extra, occAck, runner, sweepAt, order, hist, tsCrashes>>
<1>1. PICK new \in Occs :
        Fresh(new) /\ occ' = [occ EXCEPT ![new] = RearmAs] /\ recurs' = (recurs \ {n}) \cup {new}
  BY DEF Rearm
<1>2. /\ n \in snapshot /\ snapshot' = snapshot \ {n} /\ RearmAs \in {"paused", "pending"}
      /\ UNCHANGED <<creating, taskHome, extra, occAck, runner, sweepAt, order, hist, tsCrashes>>
  BY DEF Rearm, RearmAs
<1>3. n # new /\ occ[new] = "none" /\ occ[n] \in {"completed", "failed", "deleted"}
  BY <1>1, <1>2 DEF TsInv, ReadInv, ReadIsFinished, Fresh, Unwritten
<1>4. ASSUME ~doubled PROVE recurs' = {new} /\ snapshot' = {} /\ Scheduled = {}
  <2>1. AtMostOne(snapshot) /\ AtMostOne(recurs)
    BY <1>4 DEF TsInv, ReadInv, OneRecurs
  <2>2. snapshot' = {}
    BY <1>2, <2>1 DEF AtMostOne
  <2>3. CASE n \in recurs
    <3>1. recurs \ {n} = {} /\ n \in recurs \cap Finished
      BY <2>1, <2>3, <1>3 DEF AtMostOne, TsInv, RowInv, RecursIsArmed, Alive, Finished
    <3> QED
      BY <1>1, <1>4, <2>2, <3>1 DEF TsInv, SpinInv, RecursIsScheduled
  <2>4. CASE n \notin recurs
    <3>1. Written = {}
      BY <1>2, <1>4, <2>4 DEF TsInv, ReadInv, DeletedIsEmpty
    <3>2. recurs = {} /\ Alive = {}
      BY <3>1 DEF TsInv, RowInv, RecursIsArmed, Written
    <3> QED
      BY <1>1, <2>2, <3>2 DEF Scheduled
  <2> QED
    BY <2>3, <2>4
<1> QED
  BY <1>1, <1>2, <1>3, <1>4

-----------------------------------------------------------------------------
(* Types.                                                                  *)

\* Every step keeps the types.
LEMMA TsTypeStep == TsInv /\ [NextSeries]_seriesVars => TsTypeOK'
<1> SUFFICES ASSUME TsInv, [NextSeries]_seriesVars PROVE TsTypeOK'
  OBVIOUS
<1> USE SeriesConstants DEF TsInv, hist, Alive, Finished, Written, Unwritten, Fresh, Given,
   Restatus, SpentSession, RearmAs, Spun, Occs
<1>1. CASE CreateTaskSession
  BY <1>1 DEF TsTypeOK, Whats, CreateTaskSession
<1>2. CASE CreateFirst
  <2>1. 1 \in Occs
    BY DEF RowInv, NotYetCreated
  <2> QED
    BY <1>2, <2>1 DEF TsTypeOK, Whats, CreateFirst
<1>3. ASSUME NEW n \in Occs, Claim(n) PROVE TsTypeOK'
  BY <1>3 DEF TsTypeOK, Whats, Claim
<1>4. ASSUME NEW n \in Occs, FinishRun(n) PROVE TsTypeOK'
  BY <1>4 DEF TsTypeOK, Whats, FinishRun
<1>5. CASE RunnerStops
  BY <1>5 DEF TsTypeOK, Whats, RunnerStops
<1>6. CASE SweepSyncsRuns
  <2>1. PICK wins, fails \in SUBSET (Written \ Finished) :
          /\ \A n \in wins : occAck[n] = "completed"
          /\ \A n \in fails : occAck[n] = "error"
          /\ \A n \in Written \ Finished : occAck[n] = "completed" => n \in wins
          /\ \A n \in Written \ Finished : occAck[n] = "error" => n \in fails
          /\ occ' = [n \in Occs |-> IF n \in wins THEN "completed" ELSE IF n \in fails THEN "failed" ELSE occ[n]]
          /\ spins' = IF wins # {} THEN 0 ELSE spins + Cardinality(fails \cap recurs)
    BY <1>6, SyncsDo DEF TsTypeOK
  <2>2. /\ UNCHANGED <<creating, taskHome, recurs, extra, occAck, runner, snapshot, order, killed, doubled, tsCrashes>>
        /\ sweepAt' \in {"wake", "reset"} /\ sweepAt = "idle" /\ taskHome = "active"
    BY <1>6 DEF SweepSyncsRuns
  <2>3. Cardinality(fails \cap recurs) \in Nat
    BY OccsCount DEF TsTypeOK
  <2> QED
    BY <2>1, <2>2, <2>3 DEF TsTypeOK, Whats
<1>7. CASE SweepWakesRunner
  BY <1>7 DEF TsTypeOK, Whats, SweepWakesRunner
<1>8. CASE SweepResets
  <2>1. PICK spent \in SUBSET Occs :
          /\ \A n \in spent : occ[n] = "pending" /\ occAck[n] = "processing"
          /\ occ' = OccsEnd(spent, "failed")
          /\ spins' = spins + Cardinality(spent \cap recurs)
    BY <1>8, ResetsDo DEF TsTypeOK
  <2>2. /\ UNCHANGED <<creating, taskHome, recurs, extra, order, killed, doubled, tsCrashes>>
        /\ sweepAt' = "rearm" /\ snapshot' = {n \in recurs : occ'[n] \in {"completed", "failed"}}
        /\ runner' \in {runner, FALSE}
        /\ occAck' \in {occAck, [n \in Occs |-> IF occAck[n] = "processing" THEN "none" ELSE occAck[n]]}
    BY <1>8 DEF SweepResets
  <2>3. spins' \in Nat
    <3>1. spent \cap recurs \subseteq Occs
      BY <2>1
    <3>2. Cardinality(spent \cap recurs) \in Nat
      BY <3>1, OccsCount
    <3>3. spins \in Nat
      BY DEF TsTypeOK
    <3> QED
      BY <2>1, <3>2, <3>3
  <2>4. occ' \in [Occs -> {"none", "pending", "paused", "completed", "failed", "cancelled", "deleted"}]
    BY <2>1 DEF OccsEnd, TsTypeOK
  <2>5. occAck' \in [Occs -> {"none", "processing", "completed", "error"}]
    BY <2>2 DEF TsTypeOK
  <2> QED
    BY <2>2, <2>3, <2>4, <2>5 DEF OccsEnd, TsTypeOK, Whats
<1>9. ASSUME NEW n \in Occs, Rearm(n) PROVE TsTypeOK'
  BY <1>9 DEF TsTypeOK, Whats, Rearm
<1>10. CASE SweepCollects
  BY <1>10 DEF TsTypeOK, Whats, SweepCollects
<1>11. CASE SweepCloses
  BY <1>11 DEF TsTypeOK, Whats, SweepCloses
<1>12. ASSUME NEW k \in Orders, NEW what \in Whats, FindSeries(k, what) PROVE TsTypeOK'
  BY <1>12 DEF TsTypeOK, Whats, FindSeries
<1>13. ASSUME NEW k \in Orders, Pause(k) PROVE TsTypeOK'
  BY <1>13 DEF TsTypeOK, Whats, Pause
<1>14. ASSUME NEW k \in Orders, Resume(k) PROVE TsTypeOK'
  BY <1>14 DEF TsTypeOK, Whats, Resume
<1>15. ASSUME NEW k \in Orders, Cancel(k) PROVE TsTypeOK'
  BY <1>15 DEF TsTypeOK, Whats, Cancel
<1>16. ASSUME NEW k \in Orders, Delete(k) PROVE TsTypeOK'
  BY <1>16 DEF TsTypeOK, Whats, Delete
<1>17. ASSUME NEW k \in Orders, RunNow(k) PROVE TsTypeOK'
  BY <1>17 DEF TsTypeOK, Whats, RunNow
<1>18. ASSUME NEW k \in Orders, UpdateRecurrence(k) PROVE TsTypeOK'
  <2>1. order' \in [Orders -> Whats \cup {"idle", "done"}] /\ killed' \in BOOLEAN /\ doubled' \in BOOLEAN
    BY <1>18 DEF TsTypeOK, Whats, UpdateRecurrence
  <2> QED
    BY <1>18, <2>1, UpdateDoes DEF TsTypeOK, Whats
<1>19. CASE SeriesCrash
  <2>1. occ' \in [Occs -> {"none", "pending", "paused", "completed", "failed", "cancelled", "deleted"}] /\ recurs' \subseteq Occs /\ doubled' \in BOOLEAN
    BY <1>19, CrashDoes DEF TsTypeOK, Whats
  <2>2. order' \in [Orders -> Whats \cup {"idle", "done"}]
    BY <1>19 DEF TsTypeOK, Whats, SeriesCrash
  <2> QED
    <3>1. /\ creating' \in {creating, "done"} /\ sweepAt' = "idle" /\ snapshot' = {}
          /\ runner' \in {runner, FALSE} /\ UNCHANGED <<taskHome, extra, occAck, killed, spins>>
      BY <1>19 DEF SeriesCrash
    <3>2. tsCrashes' \in 0 .. MaxTsCrashes
      BY <1>19 DEF TsTypeOK, Whats, SeriesCrash
    <3> QED
      BY <2>1, <2>2, <3>1, <3>2 DEF TsTypeOK, Whats
<1>20. CASE UNCHANGED seriesVars
  BY <1>20 DEF TsTypeOK, Whats, seriesVars
<1> QED
  BY <1>1, <1>2, <1>3, <1>4, <1>5, <1>6, <1>7, <1>8, <1>9, <1>10, <1>11, <1>12, <1>13, <1>14,
     <1>15, <1>16, <1>17, <1>18, <1>19, <1>20 DEF NextSeries, SeriesSweep, OrderStep

-----------------------------------------------------------------------------
(* The rows.                                                               *)

\* Every step keeps a series that is not created empty.
LEMMA NotYetCreatedStep == TsInv /\ [NextSeries]_seriesVars => NotYetCreated'
<1> SUFFICES ASSUME TsInv, [NextSeries]_seriesVars PROVE NotYetCreated'
  OBVIOUS
<1> USE SeriesConstants DEF TsInv, hist, Alive, Finished, Written, Unwritten, Fresh, Given,
   Restatus, SpentSession, RearmAs, Spun, Occs, TsTypeOK, Whats, RowInv, NotYetCreated, RowsFirst,
   RecursIsArmed, ReadInv, ReadWhenRearming
<1>1. CASE CreateTaskSession
  BY <1>1 DEF CreateTaskSession
<1>2. CASE CreateFirst
  BY <1>2 DEF CreateFirst
<1>3. ASSUME NEW n \in Occs, Claim(n) PROVE NotYetCreated'
  BY <1>3 DEF Claim
<1>4. ASSUME NEW n \in Occs, FinishRun(n) PROVE NotYetCreated'
  BY <1>4 DEF FinishRun
<1>5. CASE RunnerStops
  BY <1>5 DEF RunnerStops
<1>6. CASE SweepSyncsRuns
  BY <1>6 DEF SweepSyncsRuns
<1>7. CASE SweepWakesRunner
  BY <1>7 DEF SweepWakesRunner
<1>8. CASE SweepResets
  BY <1>8 DEF SweepResets
<1>9. ASSUME NEW n \in Occs, Rearm(n) PROVE NotYetCreated'
  BY <1>9 DEF Rearm
<1>10. CASE SweepCollects
  BY <1>10 DEF SweepCollects
<1>11. CASE SweepCloses
  BY <1>11 DEF SweepCloses
<1>12. ASSUME NEW k \in Orders, NEW what \in Whats, FindSeries(k, what) PROVE NotYetCreated'
  BY <1>12 DEF FindSeries
<1>13. ASSUME NEW k \in Orders, Pause(k) PROVE NotYetCreated'
  BY <1>13 DEF Pause
<1>14. ASSUME NEW k \in Orders, Resume(k) PROVE NotYetCreated'
  BY <1>14 DEF Resume
<1>15. ASSUME NEW k \in Orders, Cancel(k) PROVE NotYetCreated'
  BY <1>15 DEF Cancel
<1>16. ASSUME NEW k \in Orders, Delete(k) PROVE NotYetCreated'
  BY <1>16 DEF Delete
<1>17. ASSUME NEW k \in Orders, RunNow(k) PROVE NotYetCreated'
  BY <1>17 DEF RunNow
<1>18. ASSUME NEW k \in Orders, UpdateRecurrence(k) PROVE NotYetCreated'
  BY <1>18 DEF UpdateRecurrence
<1>19. CASE SeriesCrash
  BY <1>19 DEF SeriesCrash
<1>20. CASE UNCHANGED seriesVars
  BY <1>20 DEF seriesVars
<1> QED
  BY <1>1, <1>2, <1>3, <1>4, <1>5, <1>6, <1>7, <1>8, <1>9, <1>10, <1>11, <1>12, <1>13, <1>14,
     <1>15, <1>16, <1>17, <1>18, <1>19, <1>20 DEF NextSeries, SeriesSweep, OrderStep

\* Every step leaves the rows in the order of seq.
LEMMA RowsFirstStep == TsInv /\ [NextSeries]_seriesVars => RowsFirst'
<1> SUFFICES ASSUME TsInv, [NextSeries]_seriesVars PROVE RowsFirst'
  OBVIOUS
<1> USE SeriesConstants DEF TsInv, hist, Alive, Finished, Written, Unwritten, Fresh, Given,
   Restatus, SpentSession, RearmAs, Spun, Occs
<1>1. CASE CreateTaskSession
  BY <1>1 DEF TsTypeOK, Whats, RowInv, NotYetCreated, RowsFirst, CreateTaskSession
<1>2. CASE CreateFirst
  BY <1>2 DEF TsTypeOK, Whats, RowInv, NotYetCreated, RowsFirst, CreateFirst
<1>3. ASSUME NEW n \in Occs, Claim(n) PROVE RowsFirst'
  BY <1>3 DEF TsTypeOK, Whats, RowInv, NotYetCreated, RowsFirst, Claim
<1>4. ASSUME NEW n \in Occs, FinishRun(n) PROVE RowsFirst'
  BY <1>4 DEF TsTypeOK, Whats, RowInv, NotYetCreated, RowsFirst, FinishRun
<1>5. CASE RunnerStops
  BY <1>5 DEF TsTypeOK, Whats, RowInv, NotYetCreated, RowsFirst, RunnerStops
<1>6. CASE SweepSyncsRuns
  BY <1>6 DEF TsTypeOK, Whats, RowInv, NotYetCreated, RowsFirst, SweepSyncsRuns
<1>7. CASE SweepWakesRunner
  BY <1>7 DEF TsTypeOK, Whats, RowInv, NotYetCreated, RowsFirst, SweepWakesRunner
<1>8. CASE SweepResets
  <2>1. PICK spent \in SUBSET Occs :
          /\ \A n \in spent : occ[n] = "pending" /\ occAck[n] = "processing"
          /\ occ' = OccsEnd(spent, "failed")
          /\ spins' = spins + Cardinality(spent \cap recurs)
    BY <1>8, ResetsDo DEF TsTypeOK
  <2>2. /\ UNCHANGED <<creating, taskHome, recurs, extra, order, killed, doubled, tsCrashes>>
        /\ sweepAt' = "rearm" /\ snapshot' = {n \in recurs : occ'[n] \in {"completed", "failed"}}
        /\ runner' \in {runner, FALSE}
        /\ occAck' \in {occAck, [n \in Occs |-> IF occAck[n] = "processing" THEN "none" ELSE occAck[n]]}
    BY <1>8 DEF SweepResets
  <2> QED
    BY <2>1, <2>2 DEF OccsEnd, TsTypeOK, Whats, RowInv, NotYetCreated, RowsFirst
<1>9. ASSUME NEW n \in Occs, Rearm(n) PROVE RowsFirst'
  BY <1>9 DEF TsTypeOK, Whats, RowInv, NotYetCreated, RowsFirst, Rearm
<1>10. CASE SweepCollects
  BY <1>10 DEF TsTypeOK, Whats, RowInv, NotYetCreated, RowsFirst, SweepCollects
<1>11. CASE SweepCloses
  BY <1>11 DEF TsTypeOK, Whats, RowInv, NotYetCreated, RowsFirst, SweepCloses
<1>12. ASSUME NEW k \in Orders, NEW what \in Whats, FindSeries(k, what) PROVE RowsFirst'
  BY <1>12 DEF TsTypeOK, Whats, RowInv, NotYetCreated, RowsFirst, FindSeries
<1>13. ASSUME NEW k \in Orders, Pause(k) PROVE RowsFirst'
  BY <1>13 DEF TsTypeOK, Whats, RowInv, NotYetCreated, RowsFirst, Pause
<1>14. ASSUME NEW k \in Orders, Resume(k) PROVE RowsFirst'
  BY <1>14 DEF TsTypeOK, Whats, RowInv, NotYetCreated, RowsFirst, Resume
<1>15. ASSUME NEW k \in Orders, Cancel(k) PROVE RowsFirst'
  BY <1>15 DEF TsTypeOK, Whats, RowInv, NotYetCreated, RowsFirst, Cancel
<1>16. ASSUME NEW k \in Orders, Delete(k) PROVE RowsFirst'
  BY <1>16 DEF TsTypeOK, Whats, RowInv, NotYetCreated, RowsFirst, Delete
<1>17. ASSUME NEW k \in Orders, RunNow(k) PROVE RowsFirst'
  BY <1>17 DEF TsTypeOK, Whats, RowInv, NotYetCreated, RowsFirst, RunNow
<1>18. ASSUME NEW k \in Orders, UpdateRecurrence(k) PROVE RowsFirst'
  BY <1>18 DEF TsTypeOK, Whats, RowInv, NotYetCreated, RowsFirst, UpdateRecurrence
<1>19. CASE SeriesCrash
  BY <1>19 DEF TsTypeOK, Whats, RowInv, NotYetCreated, RowsFirst, SeriesCrash
<1>20. CASE UNCHANGED seriesVars
  BY <1>20 DEF TsTypeOK, Whats, RowInv, NotYetCreated, RowsFirst, seriesVars
<1> QED
  BY <1>1, <1>2, <1>3, <1>4, <1>5, <1>6, <1>7, <1>8, <1>9, <1>10, <1>11, <1>12, <1>13, <1>14,
     <1>15, <1>16, <1>17, <1>18, <1>19, <1>20 DEF NextSeries, SeriesSweep, OrderStep

\* Every step leaves the recurrence only with rows that are live or finished.
LEMMA RecursIsArmedStep == TsInv /\ [NextSeries]_seriesVars => RecursIsArmed'
<1> SUFFICES ASSUME TsInv, [NextSeries]_seriesVars PROVE RecursIsArmed'
  OBVIOUS
<1> USE SeriesConstants DEF TsInv, hist, Alive, Finished, Written, Unwritten, Fresh, Given,
   Restatus, SpentSession, RearmAs, Spun, Occs
<1>1. CASE CreateTaskSession
  BY <1>1 DEF TsTypeOK, Whats, RowInv, NotYetCreated, RowsFirst, RecursIsArmed, CreateTaskSession
<1>2. CASE CreateFirst
  BY <1>2 DEF TsTypeOK, Whats, RowInv, NotYetCreated, RowsFirst, RecursIsArmed, CreateFirst
<1>3. ASSUME NEW n \in Occs, Claim(n) PROVE RecursIsArmed'
  BY <1>3 DEF TsTypeOK, Whats, RowInv, NotYetCreated, RowsFirst, RecursIsArmed, Claim
<1>4. ASSUME NEW n \in Occs, FinishRun(n) PROVE RecursIsArmed'
  BY <1>4 DEF TsTypeOK, Whats, RowInv, NotYetCreated, RowsFirst, RecursIsArmed, FinishRun
<1>5. CASE RunnerStops
  BY <1>5 DEF TsTypeOK, Whats, RowInv, NotYetCreated, RowsFirst, RecursIsArmed, RunnerStops
<1>6. CASE SweepSyncsRuns
  BY <1>6 DEF TsTypeOK, Whats, RowInv, NotYetCreated, RowsFirst, RecursIsArmed, SweepSyncsRuns
<1>7. CASE SweepWakesRunner
  BY <1>7 DEF TsTypeOK, Whats, RowInv, NotYetCreated, RowsFirst, RecursIsArmed, SweepWakesRunner
<1>8. CASE SweepResets
  <2>1. PICK spent \in SUBSET Occs :
          /\ \A n \in spent : occ[n] = "pending" /\ occAck[n] = "processing"
          /\ occ' = OccsEnd(spent, "failed")
          /\ spins' = spins + Cardinality(spent \cap recurs)
    BY <1>8, ResetsDo DEF TsTypeOK
  <2>2. /\ UNCHANGED <<creating, taskHome, recurs, extra, order, killed, doubled, tsCrashes>>
        /\ sweepAt' = "rearm" /\ snapshot' = {n \in recurs : occ'[n] \in {"completed", "failed"}}
        /\ runner' \in {runner, FALSE}
        /\ occAck' \in {occAck, [n \in Occs |-> IF occAck[n] = "processing" THEN "none" ELSE occAck[n]]}
    BY <1>8 DEF SweepResets
  <2> QED
    BY <2>1, <2>2 DEF OccsEnd, TsTypeOK, Whats, RowInv, NotYetCreated, RowsFirst, RecursIsArmed
<1>9. ASSUME NEW n \in Occs, Rearm(n) PROVE RecursIsArmed'
  BY <1>9 DEF TsTypeOK, Whats, RowInv, NotYetCreated, RowsFirst, RecursIsArmed, Rearm
<1>10. CASE SweepCollects
  BY <1>10 DEF TsTypeOK, Whats, RowInv, NotYetCreated, RowsFirst, RecursIsArmed, SweepCollects
<1>11. CASE SweepCloses
  BY <1>11 DEF TsTypeOK, Whats, RowInv, NotYetCreated, RowsFirst, RecursIsArmed, SweepCloses
<1>12. ASSUME NEW k \in Orders, NEW what \in Whats, FindSeries(k, what) PROVE RecursIsArmed'
  BY <1>12 DEF TsTypeOK, Whats, RowInv, NotYetCreated, RowsFirst, RecursIsArmed, FindSeries
<1>13. ASSUME NEW k \in Orders, Pause(k) PROVE RecursIsArmed'
  BY <1>13 DEF TsTypeOK, Whats, RowInv, NotYetCreated, RowsFirst, RecursIsArmed, Pause
<1>14. ASSUME NEW k \in Orders, Resume(k) PROVE RecursIsArmed'
  BY <1>14 DEF TsTypeOK, Whats, RowInv, NotYetCreated, RowsFirst, RecursIsArmed, Resume
<1>15. ASSUME NEW k \in Orders, Cancel(k) PROVE RecursIsArmed'
  BY <1>15 DEF TsTypeOK, Whats, RowInv, NotYetCreated, RowsFirst, RecursIsArmed, Cancel
<1>16. ASSUME NEW k \in Orders, Delete(k) PROVE RecursIsArmed'
  BY <1>16 DEF TsTypeOK, Whats, RowInv, NotYetCreated, RowsFirst, RecursIsArmed, Delete
<1>17. ASSUME NEW k \in Orders, RunNow(k) PROVE RecursIsArmed'
  BY <1>17 DEF TsTypeOK, Whats, RowInv, NotYetCreated, RowsFirst, RecursIsArmed, RunNow
<1>18. ASSUME NEW k \in Orders, UpdateRecurrence(k) PROVE RecursIsArmed'
  <2>1. /\ UNCHANGED <<occ, extra, sweepAt, snapshot, taskHome>>
        /\ \/ /\ recurs' = recurs \cup Alive
              /\ ~doubled' => ~doubled /\ (Alive = {} \/ AtMostOne(recurs'))
           \/ recurs' = recurs \ Alive /\ UNCHANGED doubled
    BY <1>18, UpdateDoes DEF TsTypeOK
  <2> QED
    BY <2>1 DEF TsTypeOK, Whats, RowInv, NotYetCreated, RowsFirst, RecursIsArmed
<1>19. CASE SeriesCrash
  <2>1. /\ UNCHANGED <<occ, recurs, doubled>> /\ snapshot' = {}
        \/ /\ doubled' /\ snapshot' = {}
           /\ \E new \in Occs :
                /\ Fresh(new) /\ recurs' = recurs \cup {new}
                /\ occ' \in {[occ EXCEPT ![new] = "paused"], [occ EXCEPT ![new] = "pending"]}
    BY <1>19, CrashDoes DEF TsTypeOK
  <2>2. occ \in [Occs -> {"none", "pending", "paused", "completed", "failed", "cancelled", "deleted"}]
    BY DEF TsTypeOK
  <2>3. CASE UNCHANGED <<occ, recurs, doubled>> /\ snapshot' = {}
    BY <2>3 DEF TsTypeOK, Whats, RowInv, NotYetCreated, RowsFirst, RecursIsArmed
  <2>4. ASSUME NEW new \in Occs, Fresh(new), recurs' = recurs \cup {new}, doubled', snapshot' = {},
               occ' \in {[occ EXCEPT ![new] = "paused"], [occ EXCEPT ![new] = "pending"]}
        PROVE  RecursIsArmed'
    BY <2>2, <2>4 DEF TsTypeOK, Whats, RowInv, NotYetCreated, RowsFirst, RecursIsArmed
  <2> QED
    BY <2>1, <2>3, <2>4
<1>20. CASE UNCHANGED seriesVars
  BY <1>20 DEF TsTypeOK, Whats, RowInv, NotYetCreated, RowsFirst, RecursIsArmed, seriesVars
<1> QED
  BY <1>1, <1>2, <1>3, <1>4, <1>5, <1>6, <1>7, <1>8, <1>9, <1>10, <1>11, <1>12, <1>13, <1>14,
     <1>15, <1>16, <1>17, <1>18, <1>19, <1>20 DEF NextSeries, SeriesSweep, OrderStep

-----------------------------------------------------------------------------
(* What the sweep has read.                                                *)

\* Every step that leaves the re-arming has reached all that was read.
LEMMA ReadWhenRearmingStep == TsInv /\ [NextSeries]_seriesVars => ReadWhenRearming'
<1> SUFFICES ASSUME TsInv, [NextSeries]_seriesVars PROVE ReadWhenRearming'
  OBVIOUS
<1> USE SeriesConstants DEF TsInv, hist, Alive, Finished, Written, Unwritten, Fresh, Given,
   Restatus, SpentSession, RearmAs, Spun, Occs, TsTypeOK, ReadInv, ReadWhenRearming
<1>1. CASE CreateTaskSession
  BY <1>1 DEF CreateTaskSession
<1>2. CASE CreateFirst
  BY <1>2 DEF CreateFirst
<1>3. ASSUME NEW n \in Occs, Claim(n) PROVE ReadWhenRearming'
  BY <1>3 DEF Claim
<1>4. ASSUME NEW n \in Occs, FinishRun(n) PROVE ReadWhenRearming'
  BY <1>4 DEF FinishRun
<1>5. CASE RunnerStops
  BY <1>5 DEF RunnerStops
<1>6. CASE SweepSyncsRuns
  BY <1>6 DEF SweepSyncsRuns
<1>7. CASE SweepWakesRunner
  BY <1>7 DEF SweepWakesRunner
<1>8. CASE SweepResets
  BY <1>8 DEF SweepResets
<1>9. ASSUME NEW n \in Occs, Rearm(n) PROVE ReadWhenRearming'
  BY <1>9 DEF Rearm
<1>10. CASE SweepCollects
  BY <1>10 DEF SweepCollects
<1>11. CASE SweepCloses
  BY <1>11 DEF SweepCloses
<1>12. ASSUME NEW k \in Orders, NEW what \in Whats, FindSeries(k, what) PROVE ReadWhenRearming'
  BY <1>12 DEF FindSeries
<1>13. ASSUME NEW k \in Orders, Pause(k) PROVE ReadWhenRearming'
  BY <1>13 DEF Pause
<1>14. ASSUME NEW k \in Orders, Resume(k) PROVE ReadWhenRearming'
  BY <1>14 DEF Resume
<1>15. ASSUME NEW k \in Orders, Cancel(k) PROVE ReadWhenRearming'
  BY <1>15 DEF Cancel
<1>16. ASSUME NEW k \in Orders, Delete(k) PROVE ReadWhenRearming'
  BY <1>16 DEF Delete
<1>17. ASSUME NEW k \in Orders, RunNow(k) PROVE ReadWhenRearming'
  BY <1>17 DEF RunNow
<1>18. ASSUME NEW k \in Orders, UpdateRecurrence(k) PROVE ReadWhenRearming'
  BY <1>18 DEF UpdateRecurrence
<1>19. CASE SeriesCrash
  BY <1>19 DEF SeriesCrash
<1>20. CASE UNCHANGED seriesVars
  BY <1>20 DEF seriesVars
<1> QED
  BY <1>1, <1>2, <1>3, <1>4, <1>5, <1>6, <1>7, <1>8, <1>9, <1>10, <1>11, <1>12, <1>13, <1>14,
     <1>15, <1>16, <1>17, <1>18, <1>19, <1>20 DEF NextSeries, SeriesSweep, OrderStep

\* Every step leaves what was read ended.
LEMMA ReadIsFinishedStep == TsInv /\ [NextSeries]_seriesVars => ReadIsFinished'
<1> SUFFICES ASSUME TsInv, [NextSeries]_seriesVars PROVE ReadIsFinished'
  OBVIOUS
<1> USE SeriesConstants DEF TsInv, hist, Alive, Finished, Written, Unwritten, Fresh, Given,
   Restatus, SpentSession, RearmAs, Spun, Occs
<1>1. CASE CreateTaskSession
  BY <1>1 DEF TsTypeOK, ReadInv, ReadWhenRearming, ReadIsFinished, RowInv, NotYetCreated,
     RecursIsArmed, RowsFirst, CreateTaskSession
<1>2. CASE CreateFirst
  BY <1>2 DEF TsTypeOK, ReadInv, ReadWhenRearming, ReadIsFinished, RowInv, NotYetCreated,
     RecursIsArmed, RowsFirst, CreateFirst
<1>3. ASSUME NEW n \in Occs, Claim(n) PROVE ReadIsFinished'
  BY <1>3 DEF TsTypeOK, ReadInv, ReadWhenRearming, ReadIsFinished, RowInv, NotYetCreated,
     RecursIsArmed, RowsFirst, Claim
<1>4. ASSUME NEW n \in Occs, FinishRun(n) PROVE ReadIsFinished'
  BY <1>4 DEF TsTypeOK, ReadInv, ReadWhenRearming, ReadIsFinished, RowInv, NotYetCreated,
     RecursIsArmed, RowsFirst, FinishRun
<1>5. CASE RunnerStops
  BY <1>5 DEF TsTypeOK, ReadInv, ReadWhenRearming, ReadIsFinished, RowInv, NotYetCreated,
     RecursIsArmed, RowsFirst, RunnerStops
<1>6. CASE SweepSyncsRuns
  BY <1>6 DEF TsTypeOK, ReadInv, ReadWhenRearming, ReadIsFinished, RowInv, NotYetCreated,
     RecursIsArmed, RowsFirst, SweepSyncsRuns
<1>7. CASE SweepWakesRunner
  BY <1>7 DEF TsTypeOK, ReadInv, ReadWhenRearming, ReadIsFinished, RowInv, NotYetCreated,
     RecursIsArmed, RowsFirst, SweepWakesRunner
<1>8. CASE SweepResets
  <2>1. PICK spent \in SUBSET Occs :
          /\ \A n \in spent : occ[n] = "pending" /\ occAck[n] = "processing"
          /\ occ' = OccsEnd(spent, "failed")
          /\ spins' = spins + Cardinality(spent \cap recurs)
    BY <1>8, ResetsDo DEF TsTypeOK
  <2>2. /\ UNCHANGED <<creating, taskHome, recurs, extra, order, killed, doubled, tsCrashes>>
        /\ sweepAt' = "rearm" /\ snapshot' = {n \in recurs : occ'[n] \in {"completed", "failed"}}
        /\ runner' \in {runner, FALSE}
        /\ occAck' \in {occAck, [n \in Occs |-> IF occAck[n] = "processing" THEN "none" ELSE occAck[n]]}
    BY <1>8 DEF SweepResets
  <2> QED
    BY <2>1, <2>2 DEF OccsEnd, TsTypeOK, ReadInv, ReadWhenRearming, ReadIsFinished, RowInv,
       NotYetCreated, RecursIsArmed, RowsFirst
<1>9. ASSUME NEW n \in Occs, Rearm(n) PROVE ReadIsFinished'
  BY <1>9 DEF TsTypeOK, ReadInv, ReadWhenRearming, ReadIsFinished, RowInv, NotYetCreated,
     RecursIsArmed, RowsFirst, Rearm
<1>10. CASE SweepCollects
  BY <1>10 DEF TsTypeOK, ReadInv, ReadWhenRearming, ReadIsFinished, RowInv, NotYetCreated,
     RecursIsArmed, RowsFirst, SweepCollects
<1>11. CASE SweepCloses
  BY <1>11 DEF TsTypeOK, ReadInv, ReadWhenRearming, ReadIsFinished, RowInv, NotYetCreated,
     RecursIsArmed, RowsFirst, SweepCloses
<1>12. ASSUME NEW k \in Orders, NEW what \in Whats, FindSeries(k, what) PROVE ReadIsFinished'
  BY <1>12 DEF TsTypeOK, ReadInv, ReadWhenRearming, ReadIsFinished, RowInv, NotYetCreated,
     RecursIsArmed, RowsFirst, FindSeries
<1>13. ASSUME NEW k \in Orders, Pause(k) PROVE ReadIsFinished'
  BY <1>13 DEF TsTypeOK, ReadInv, ReadWhenRearming, ReadIsFinished, RowInv, NotYetCreated,
     RecursIsArmed, RowsFirst, Pause
<1>14. ASSUME NEW k \in Orders, Resume(k) PROVE ReadIsFinished'
  BY <1>14 DEF TsTypeOK, ReadInv, ReadWhenRearming, ReadIsFinished, RowInv, NotYetCreated,
     RecursIsArmed, RowsFirst, Resume
<1>15. ASSUME NEW k \in Orders, Cancel(k) PROVE ReadIsFinished'
  BY <1>15 DEF TsTypeOK, ReadInv, ReadWhenRearming, ReadIsFinished, RowInv, NotYetCreated,
     RecursIsArmed, RowsFirst, Cancel
<1>16. ASSUME NEW k \in Orders, Delete(k) PROVE ReadIsFinished'
  BY <1>16 DEF TsTypeOK, ReadInv, ReadWhenRearming, ReadIsFinished, RowInv, NotYetCreated,
     RecursIsArmed, RowsFirst, Delete
<1>17. ASSUME NEW k \in Orders, RunNow(k) PROVE ReadIsFinished'
  BY <1>17 DEF TsTypeOK, ReadInv, ReadWhenRearming, ReadIsFinished, RowInv, NotYetCreated,
     RecursIsArmed, RowsFirst, RunNow
<1>18. ASSUME NEW k \in Orders, UpdateRecurrence(k) PROVE ReadIsFinished'
  <2>1. /\ UNCHANGED <<occ, extra, sweepAt, snapshot, taskHome>>
        /\ \/ /\ recurs' = recurs \cup Alive
              /\ ~doubled' => ~doubled /\ (Alive = {} \/ AtMostOne(recurs'))
           \/ recurs' = recurs \ Alive /\ UNCHANGED doubled
    BY <1>18, UpdateDoes DEF TsTypeOK
  <2> QED
    BY <2>1 DEF TsTypeOK, ReadInv, ReadWhenRearming, ReadIsFinished, RowInv, NotYetCreated,
       RecursIsArmed, RowsFirst
<1>19. CASE SeriesCrash
  <2>1. /\ UNCHANGED <<occ, recurs, doubled>> /\ snapshot' = {}
        \/ /\ doubled' /\ snapshot' = {}
           /\ \E new \in Occs :
                /\ Fresh(new) /\ recurs' = recurs \cup {new}
                /\ occ' \in {[occ EXCEPT ![new] = "paused"], [occ EXCEPT ![new] = "pending"]}
    BY <1>19, CrashDoes DEF TsTypeOK
  <2>2. occ \in [Occs -> {"none", "pending", "paused", "completed", "failed", "cancelled", "deleted"}]
    BY DEF TsTypeOK
  <2>3. CASE UNCHANGED <<occ, recurs, doubled>> /\ snapshot' = {}
    BY <2>3 DEF TsTypeOK, ReadInv, ReadWhenRearming, ReadIsFinished, RowInv, NotYetCreated,
       RecursIsArmed, RowsFirst
  <2>4. ASSUME NEW new \in Occs, Fresh(new), recurs' = recurs \cup {new}, doubled', snapshot' = {},
               occ' \in {[occ EXCEPT ![new] = "paused"], [occ EXCEPT ![new] = "pending"]}
        PROVE  ReadIsFinished'
    BY <2>2, <2>4 DEF TsTypeOK, ReadInv, ReadWhenRearming, ReadIsFinished, RowInv, NotYetCreated,
       RecursIsArmed, RowsFirst
  <2> QED
    BY <2>1, <2>3, <2>4
<1>20. CASE UNCHANGED seriesVars
  BY <1>20 DEF TsTypeOK, ReadInv, ReadWhenRearming, ReadIsFinished, RowInv, NotYetCreated,
     RecursIsArmed, RowsFirst, seriesVars
<1> QED
  BY <1>1, <1>2, <1>3, <1>4, <1>5, <1>6, <1>7, <1>8, <1>9, <1>10, <1>11, <1>12, <1>13, <1>14,
     <1>15, <1>16, <1>17, <1>18, <1>19, <1>20 DEF NextSeries, SeriesSweep, OrderStep

\* While the sweep re-arms no run becomes owed that it has not read.
LEMMA ReadAllStep == TsInv /\ [NextSeries]_seriesVars => ReadAll'
<1> SUFFICES ASSUME TsInv, [NextSeries]_seriesVars PROVE ReadAll'
  OBVIOUS
<1> USE SeriesConstants DEF TsInv, hist, Alive, Finished, Written, Unwritten, Fresh, Given,
   Restatus, SpentSession, RearmAs, Spun, Occs, TsTypeOK, ReadInv, ReadWhenRearming,
   ReadIsFinished, ReadAll, RowInv, NotYetCreated, RecursIsArmed, RowsFirst
<1>1. CASE CreateTaskSession
  BY <1>1 DEF CreateTaskSession
<1>2. CASE CreateFirst
  BY <1>2 DEF CreateFirst
<1>3. ASSUME NEW n \in Occs, Claim(n) PROVE ReadAll'
  BY <1>3 DEF Claim
<1>4. ASSUME NEW n \in Occs, FinishRun(n) PROVE ReadAll'
  BY <1>4 DEF FinishRun
<1>5. CASE RunnerStops
  BY <1>5 DEF RunnerStops
<1>6. CASE SweepSyncsRuns
  BY <1>6 DEF SweepSyncsRuns
<1>7. CASE SweepWakesRunner
  BY <1>7 DEF SweepWakesRunner
<1>8. CASE SweepResets
  BY <1>8 DEF SweepResets
<1>9. ASSUME NEW n \in Occs, Rearm(n) PROVE ReadAll'
  BY <1>9 DEF Rearm
<1>10. CASE SweepCollects
  BY <1>10 DEF SweepCollects
<1>11. CASE SweepCloses
  BY <1>11 DEF SweepCloses
<1>12. ASSUME NEW k \in Orders, NEW what \in Whats, FindSeries(k, what) PROVE ReadAll'
  BY <1>12 DEF FindSeries
<1>13. ASSUME NEW k \in Orders, Pause(k) PROVE ReadAll'
  BY <1>13 DEF Pause
<1>14. ASSUME NEW k \in Orders, Resume(k) PROVE ReadAll'
  BY <1>14 DEF Resume
<1>15. ASSUME NEW k \in Orders, Cancel(k) PROVE ReadAll'
  BY <1>15 DEF Cancel
<1>16. ASSUME NEW k \in Orders, Delete(k) PROVE ReadAll'
  BY <1>16 DEF Delete
<1>17. ASSUME NEW k \in Orders, RunNow(k) PROVE ReadAll'
  BY <1>17 DEF RunNow
<1>18. ASSUME NEW k \in Orders, UpdateRecurrence(k) PROVE ReadAll'
  BY <1>18 DEF UpdateRecurrence
<1>19. CASE SeriesCrash
  BY <1>19 DEF SeriesCrash
<1>20. CASE UNCHANGED seriesVars
  BY <1>20 DEF seriesVars
<1> QED
  BY <1>1, <1>2, <1>3, <1>4, <1>5, <1>6, <1>7, <1>8, <1>9, <1>10, <1>11, <1>12, <1>13, <1>14,
     <1>15, <1>16, <1>17, <1>18, <1>19, <1>20 DEF NextSeries, SeriesSweep, OrderStep

\* What was read loses its recurrence only to a deletion of every row.
LEMMA DeletedIsEmptyStep == TsInv /\ [NextSeries]_seriesVars => DeletedIsEmpty'
<1> SUFFICES ASSUME TsInv, [NextSeries]_seriesVars PROVE DeletedIsEmpty'
  OBVIOUS
<1> USE SeriesConstants DEF TsInv, hist, Alive, Finished, Written, Unwritten, Fresh, Given,
   Restatus, SpentSession, RearmAs, Spun, Occs
<1>1. CASE CreateTaskSession
  BY <1>1 DEF TsTypeOK, ReadInv, ReadWhenRearming, ReadIsFinished, ReadAll, DeletedIsEmpty,
     OneRecurs, AtMostOne, RowInv, NotYetCreated, RecursIsArmed, RowsFirst, CreateTaskSession
<1>2. CASE CreateFirst
  BY <1>2 DEF TsTypeOK, ReadInv, ReadWhenRearming, ReadIsFinished, ReadAll, DeletedIsEmpty,
     OneRecurs, AtMostOne, RowInv, NotYetCreated, RecursIsArmed, RowsFirst, CreateFirst
<1>3. ASSUME NEW n \in Occs, Claim(n) PROVE DeletedIsEmpty'
  BY <1>3 DEF TsTypeOK, ReadInv, ReadWhenRearming, ReadIsFinished, ReadAll, DeletedIsEmpty,
     OneRecurs, AtMostOne, RowInv, NotYetCreated, RecursIsArmed, RowsFirst, Claim
<1>4. ASSUME NEW n \in Occs, FinishRun(n) PROVE DeletedIsEmpty'
  BY <1>4 DEF TsTypeOK, ReadInv, ReadWhenRearming, ReadIsFinished, ReadAll, DeletedIsEmpty,
     OneRecurs, AtMostOne, RowInv, NotYetCreated, RecursIsArmed, RowsFirst, FinishRun
<1>5. CASE RunnerStops
  BY <1>5 DEF TsTypeOK, ReadInv, ReadWhenRearming, ReadIsFinished, ReadAll, DeletedIsEmpty,
     OneRecurs, AtMostOne, RowInv, NotYetCreated, RecursIsArmed, RowsFirst, RunnerStops
<1>6. CASE SweepSyncsRuns
  BY <1>6 DEF TsTypeOK, ReadInv, ReadWhenRearming, ReadIsFinished, ReadAll, DeletedIsEmpty,
     OneRecurs, AtMostOne, RowInv, NotYetCreated, RecursIsArmed, RowsFirst, SweepSyncsRuns
<1>7. CASE SweepWakesRunner
  BY <1>7 DEF TsTypeOK, ReadInv, ReadWhenRearming, ReadIsFinished, ReadAll, DeletedIsEmpty,
     OneRecurs, AtMostOne, RowInv, NotYetCreated, RecursIsArmed, RowsFirst, SweepWakesRunner
<1>8. CASE SweepResets
  BY <1>8 DEF TsTypeOK, ReadInv, ReadWhenRearming, ReadIsFinished, ReadAll, DeletedIsEmpty,
     OneRecurs, AtMostOne, RowInv, NotYetCreated, RecursIsArmed, RowsFirst, SweepResets
<1>9. ASSUME NEW n \in Occs, Rearm(n) PROVE DeletedIsEmpty'
  BY <1>9 DEF TsTypeOK, ReadInv, ReadWhenRearming, ReadIsFinished, ReadAll, DeletedIsEmpty,
     OneRecurs, AtMostOne, RowInv, NotYetCreated, RecursIsArmed, RowsFirst, Rearm
<1>10. CASE SweepCollects
  BY <1>10 DEF TsTypeOK, ReadInv, ReadWhenRearming, ReadIsFinished, ReadAll, DeletedIsEmpty,
     OneRecurs, AtMostOne, RowInv, NotYetCreated, RecursIsArmed, RowsFirst, SweepCollects
<1>11. CASE SweepCloses
  BY <1>11 DEF TsTypeOK, ReadInv, ReadWhenRearming, ReadIsFinished, ReadAll, DeletedIsEmpty,
     OneRecurs, AtMostOne, RowInv, NotYetCreated, RecursIsArmed, RowsFirst, SweepCloses
<1>12. ASSUME NEW k \in Orders, NEW what \in Whats, FindSeries(k, what) PROVE DeletedIsEmpty'
  BY <1>12 DEF TsTypeOK, ReadInv, ReadWhenRearming, ReadIsFinished, ReadAll, DeletedIsEmpty,
     OneRecurs, AtMostOne, RowInv, NotYetCreated, RecursIsArmed, RowsFirst, FindSeries
<1>13. ASSUME NEW k \in Orders, Pause(k) PROVE DeletedIsEmpty'
  BY <1>13 DEF TsTypeOK, ReadInv, ReadWhenRearming, ReadIsFinished, ReadAll, DeletedIsEmpty,
     OneRecurs, AtMostOne, RowInv, NotYetCreated, RecursIsArmed, RowsFirst, Pause
<1>14. ASSUME NEW k \in Orders, Resume(k) PROVE DeletedIsEmpty'
  BY <1>14 DEF TsTypeOK, ReadInv, ReadWhenRearming, ReadIsFinished, ReadAll, DeletedIsEmpty,
     OneRecurs, AtMostOne, RowInv, NotYetCreated, RecursIsArmed, RowsFirst, Resume
<1>15. ASSUME NEW k \in Orders, Cancel(k) PROVE DeletedIsEmpty'
  BY <1>15 DEF TsTypeOK, ReadInv, ReadWhenRearming, ReadIsFinished, ReadAll, DeletedIsEmpty,
     OneRecurs, AtMostOne, RowInv, NotYetCreated, RecursIsArmed, RowsFirst, Cancel
<1>16. ASSUME NEW k \in Orders, Delete(k) PROVE DeletedIsEmpty'
  BY <1>16 DEF TsTypeOK, ReadInv, ReadWhenRearming, ReadIsFinished, ReadAll, DeletedIsEmpty,
     OneRecurs, AtMostOne, RowInv, NotYetCreated, RecursIsArmed, RowsFirst, Delete
<1>17. ASSUME NEW k \in Orders, RunNow(k) PROVE DeletedIsEmpty'
  BY <1>17 DEF TsTypeOK, ReadInv, ReadWhenRearming, ReadIsFinished, ReadAll, DeletedIsEmpty,
     OneRecurs, AtMostOne, RowInv, NotYetCreated, RecursIsArmed, RowsFirst, RunNow
<1>18. ASSUME NEW k \in Orders, UpdateRecurrence(k) PROVE DeletedIsEmpty'
  <2>1. /\ UNCHANGED <<occ, extra, sweepAt, snapshot, taskHome>>
        /\ \/ /\ recurs' = recurs \cup Alive
              /\ ~doubled' => ~doubled /\ (Alive = {} \/ AtMostOne(recurs'))
           \/ recurs' = recurs \ Alive /\ UNCHANGED doubled
    BY <1>18, UpdateDoes DEF TsTypeOK
  <2> QED
    BY <2>1 DEF TsTypeOK, ReadInv, ReadWhenRearming, ReadIsFinished, ReadAll, DeletedIsEmpty,
       OneRecurs, AtMostOne, RowInv, NotYetCreated, RecursIsArmed, RowsFirst
<1>19. CASE SeriesCrash
  BY <1>19 DEF TsTypeOK, ReadInv, ReadWhenRearming, ReadIsFinished, ReadAll, DeletedIsEmpty,
     OneRecurs, AtMostOne, RowInv, NotYetCreated, RecursIsArmed, RowsFirst, SeriesCrash
<1>20. CASE UNCHANGED seriesVars
  BY <1>20 DEF TsTypeOK, ReadInv, ReadWhenRearming, ReadIsFinished, ReadAll, DeletedIsEmpty,
     OneRecurs, AtMostOne, RowInv, NotYetCreated, RecursIsArmed, RowsFirst, seriesVars
<1> QED
  BY <1>1, <1>2, <1>3, <1>4, <1>5, <1>6, <1>7, <1>8, <1>9, <1>10, <1>11, <1>12, <1>13, <1>14,
     <1>15, <1>16, <1>17, <1>18, <1>19, <1>20 DEF NextSeries, SeriesSweep, OrderStep

\* Every step leaves the recurrence with at most one row.
LEMMA OneRecursStep == TsInv /\ [NextSeries]_seriesVars => OneRecurs'
<1> SUFFICES ASSUME TsInv, [NextSeries]_seriesVars PROVE OneRecurs'
  OBVIOUS
<1> USE SeriesConstants DEF TsInv, hist, Alive, Finished, Written, Unwritten, Fresh, Given,
   Restatus, SpentSession, RearmAs, Spun, Occs
<1>1. CASE CreateTaskSession
  BY <1>1 DEF TsTypeOK, ReadInv, ReadWhenRearming, ReadIsFinished, ReadAll, DeletedIsEmpty,
     OneRecurs, AtMostOne, RowInv, NotYetCreated, RecursIsArmed, RowsFirst, CreateTaskSession
<1>2. CASE CreateFirst
  BY <1>2 DEF TsTypeOK, ReadInv, ReadWhenRearming, ReadIsFinished, ReadAll, DeletedIsEmpty,
     OneRecurs, AtMostOne, RowInv, NotYetCreated, RecursIsArmed, RowsFirst, CreateFirst
<1>3. ASSUME NEW n \in Occs, Claim(n) PROVE OneRecurs'
  BY <1>3 DEF TsTypeOK, ReadInv, ReadWhenRearming, ReadIsFinished, ReadAll, DeletedIsEmpty,
     OneRecurs, AtMostOne, RowInv, NotYetCreated, RecursIsArmed, RowsFirst, Claim
<1>4. ASSUME NEW n \in Occs, FinishRun(n) PROVE OneRecurs'
  BY <1>4 DEF TsTypeOK, ReadInv, ReadWhenRearming, ReadIsFinished, ReadAll, DeletedIsEmpty,
     OneRecurs, AtMostOne, RowInv, NotYetCreated, RecursIsArmed, RowsFirst, FinishRun
<1>5. CASE RunnerStops
  BY <1>5 DEF TsTypeOK, ReadInv, ReadWhenRearming, ReadIsFinished, ReadAll, DeletedIsEmpty,
     OneRecurs, AtMostOne, RowInv, NotYetCreated, RecursIsArmed, RowsFirst, RunnerStops
<1>6. CASE SweepSyncsRuns
  BY <1>6 DEF TsTypeOK, ReadInv, ReadWhenRearming, ReadIsFinished, ReadAll, DeletedIsEmpty,
     OneRecurs, AtMostOne, RowInv, NotYetCreated, RecursIsArmed, RowsFirst, SweepSyncsRuns
<1>7. CASE SweepWakesRunner
  BY <1>7 DEF TsTypeOK, ReadInv, ReadWhenRearming, ReadIsFinished, ReadAll, DeletedIsEmpty,
     OneRecurs, AtMostOne, RowInv, NotYetCreated, RecursIsArmed, RowsFirst, SweepWakesRunner
<1>8. CASE SweepResets
  <2>1. PICK spent \in SUBSET Occs :
          /\ \A n \in spent : occ[n] = "pending" /\ occAck[n] = "processing"
          /\ occ' = OccsEnd(spent, "failed")
          /\ spins' = spins + Cardinality(spent \cap recurs)
    BY <1>8, ResetsDo DEF TsTypeOK
  <2>2. /\ UNCHANGED <<creating, taskHome, recurs, extra, order, killed, doubled, tsCrashes>>
        /\ sweepAt' = "rearm" /\ snapshot' = {n \in recurs : occ'[n] \in {"completed", "failed"}}
        /\ runner' \in {runner, FALSE}
        /\ occAck' \in {occAck, [n \in Occs |-> IF occAck[n] = "processing" THEN "none" ELSE occAck[n]]}
    BY <1>8 DEF SweepResets
  <2> QED
    BY <2>1, <2>2 DEF OccsEnd, TsTypeOK, ReadInv, ReadWhenRearming, ReadIsFinished, ReadAll,
       DeletedIsEmpty, OneRecurs, AtMostOne, RowInv, NotYetCreated, RecursIsArmed, RowsFirst
<1>9. ASSUME NEW n \in Occs, Rearm(n) PROVE OneRecurs'
  <2>1. PICK new \in Occs :
          /\ occ' = [occ EXCEPT ![new] = RearmAs] /\ RearmAs \in {"paused", "pending"}
          /\ n # new /\ occ[new] = "none" /\ occ[n] \in {"completed", "failed", "deleted"}
          /\ ~doubled => recurs' = {new} /\ snapshot' = {} /\ Scheduled = {}
          /\ UNCHANGED <<extra, doubled>>
    BY <1>9, RearmDoes DEF hist
  <2> QED
    BY <2>1 DEF TsTypeOK, ReadInv, ReadWhenRearming, ReadIsFinished, ReadAll, DeletedIsEmpty,
       OneRecurs, AtMostOne, RowInv, NotYetCreated, RecursIsArmed, RowsFirst
<1>10. CASE SweepCollects
  BY <1>10 DEF TsTypeOK, ReadInv, ReadWhenRearming, ReadIsFinished, ReadAll, DeletedIsEmpty,
     OneRecurs, AtMostOne, RowInv, NotYetCreated, RecursIsArmed, RowsFirst, SweepCollects
<1>11. CASE SweepCloses
  BY <1>11 DEF TsTypeOK, ReadInv, ReadWhenRearming, ReadIsFinished, ReadAll, DeletedIsEmpty,
     OneRecurs, AtMostOne, RowInv, NotYetCreated, RecursIsArmed, RowsFirst, SweepCloses
<1>12. ASSUME NEW k \in Orders, NEW what \in Whats, FindSeries(k, what) PROVE OneRecurs'
  BY <1>12 DEF TsTypeOK, ReadInv, ReadWhenRearming, ReadIsFinished, ReadAll, DeletedIsEmpty,
     OneRecurs, AtMostOne, RowInv, NotYetCreated, RecursIsArmed, RowsFirst, FindSeries
<1>13. ASSUME NEW k \in Orders, Pause(k) PROVE OneRecurs'
  BY <1>13 DEF TsTypeOK, ReadInv, ReadWhenRearming, ReadIsFinished, ReadAll, DeletedIsEmpty,
     OneRecurs, AtMostOne, RowInv, NotYetCreated, RecursIsArmed, RowsFirst, Pause
<1>14. ASSUME NEW k \in Orders, Resume(k) PROVE OneRecurs'
  BY <1>14 DEF TsTypeOK, ReadInv, ReadWhenRearming, ReadIsFinished, ReadAll, DeletedIsEmpty,
     OneRecurs, AtMostOne, RowInv, NotYetCreated, RecursIsArmed, RowsFirst, Resume
<1>15. ASSUME NEW k \in Orders, Cancel(k) PROVE OneRecurs'
  BY <1>15 DEF TsTypeOK, ReadInv, ReadWhenRearming, ReadIsFinished, ReadAll, DeletedIsEmpty,
     OneRecurs, AtMostOne, RowInv, NotYetCreated, RecursIsArmed, RowsFirst, Cancel
<1>16. ASSUME NEW k \in Orders, Delete(k) PROVE OneRecurs'
  BY <1>16 DEF TsTypeOK, ReadInv, ReadWhenRearming, ReadIsFinished, ReadAll, DeletedIsEmpty,
     OneRecurs, AtMostOne, RowInv, NotYetCreated, RecursIsArmed, RowsFirst, Delete
<1>17. ASSUME NEW k \in Orders, RunNow(k) PROVE OneRecurs'
  BY <1>17 DEF TsTypeOK, ReadInv, ReadWhenRearming, ReadIsFinished, ReadAll, DeletedIsEmpty,
     OneRecurs, AtMostOne, RowInv, NotYetCreated, RecursIsArmed, RowsFirst, RunNow
<1>18. ASSUME NEW k \in Orders, UpdateRecurrence(k) PROVE OneRecurs'
  <2>1. /\ UNCHANGED <<occ, extra, sweepAt, snapshot, taskHome>>
        /\ \/ /\ recurs' = recurs \cup Alive
              /\ ~doubled' => ~doubled /\ (Alive = {} \/ AtMostOne(recurs'))
           \/ recurs' = recurs \ Alive /\ UNCHANGED doubled
    BY <1>18, UpdateDoes DEF TsTypeOK
  <2>2. ~doubled => AtMostOne(recurs) /\ AtMostOne(snapshot)
    BY DEF ReadInv, OneRecurs
  <2>3. ~doubled' => ~doubled /\ AtMostOne(recurs')
    BY <2>1, <2>2 DEF AtMostOne
  <2> QED
    BY <2>1, <2>2, <2>3 DEF OneRecurs, AtMostOne
<1>19. CASE SeriesCrash
  <2>1. /\ UNCHANGED <<occ, recurs, doubled>> /\ snapshot' = {}
        \/ /\ doubled' /\ snapshot' = {}
           /\ \E new \in Occs :
                /\ Fresh(new) /\ recurs' = recurs \cup {new}
                /\ occ' \in {[occ EXCEPT ![new] = "paused"], [occ EXCEPT ![new] = "pending"]}
    BY <1>19, CrashDoes DEF TsTypeOK
  <2>2. occ \in [Occs -> {"none", "pending", "paused", "completed", "failed", "cancelled", "deleted"}]
    BY DEF TsTypeOK
  <2>3. CASE UNCHANGED <<occ, recurs, doubled>> /\ snapshot' = {}
    BY <2>3 DEF TsTypeOK, ReadInv, ReadWhenRearming, ReadIsFinished, ReadAll, DeletedIsEmpty,
       OneRecurs, AtMostOne, RowInv, NotYetCreated, RecursIsArmed, RowsFirst
  <2>4. ASSUME NEW new \in Occs, Fresh(new), recurs' = recurs \cup {new}, doubled', snapshot' = {},
               occ' \in {[occ EXCEPT ![new] = "paused"], [occ EXCEPT ![new] = "pending"]}
        PROVE  OneRecurs'
    BY <2>2, <2>4 DEF TsTypeOK, ReadInv, ReadWhenRearming, ReadIsFinished, ReadAll, DeletedIsEmpty,
       OneRecurs, AtMostOne, RowInv, NotYetCreated, RecursIsArmed, RowsFirst
  <2> QED
    BY <2>1, <2>3, <2>4
<1>20. CASE UNCHANGED seriesVars
  BY <1>20 DEF TsTypeOK, ReadInv, ReadWhenRearming, ReadIsFinished, ReadAll, DeletedIsEmpty,
     OneRecurs, AtMostOne, RowInv, NotYetCreated, RecursIsArmed, RowsFirst, seriesVars
<1> QED
  BY <1>1, <1>2, <1>3, <1>4, <1>5, <1>6, <1>7, <1>8, <1>9, <1>10, <1>11, <1>12, <1>13, <1>14,
     <1>15, <1>16, <1>17, <1>18, <1>19, <1>20 DEF NextSeries, SeriesSweep, OrderStep

\* No step revives a series that was ended.
LEMMA DeadIsDeadStep == TsInv /\ [NextSeries]_seriesVars => DeadIsDead'
<1> SUFFICES ASSUME TsInv, [NextSeries]_seriesVars PROVE DeadIsDead'
  OBVIOUS
<1> USE SeriesConstants DEF TsInv, hist, Alive, Finished, Written, Unwritten, Fresh, Given,
   Restatus, SpentSession, RearmAs, Spun, Occs, TsTypeOK, ReadInv, ReadWhenRearming,
   ReadIsFinished, ReadAll, DeletedIsEmpty, DeadIsDead, RowInv, NotYetCreated, RecursIsArmed,
   RowsFirst
<1>1. CASE CreateTaskSession
  BY <1>1 DEF CreateTaskSession
<1>2. CASE CreateFirst
  BY <1>2 DEF CreateFirst
<1>3. ASSUME NEW n \in Occs, Claim(n) PROVE DeadIsDead'
  BY <1>3 DEF Claim
<1>4. ASSUME NEW n \in Occs, FinishRun(n) PROVE DeadIsDead'
  BY <1>4 DEF FinishRun
<1>5. CASE RunnerStops
  BY <1>5 DEF RunnerStops
<1>6. CASE SweepSyncsRuns
  BY <1>6 DEF SweepSyncsRuns
<1>7. CASE SweepWakesRunner
  BY <1>7 DEF SweepWakesRunner
<1>8. CASE SweepResets
  BY <1>8 DEF SweepResets
<1>9. ASSUME NEW n \in Occs, Rearm(n) PROVE DeadIsDead'
  BY <1>9 DEF Rearm
<1>10. CASE SweepCollects
  BY <1>10 DEF SweepCollects
<1>11. CASE SweepCloses
  BY <1>11 DEF SweepCloses
<1>12. ASSUME NEW k \in Orders, NEW what \in Whats, FindSeries(k, what) PROVE DeadIsDead'
  BY <1>12 DEF FindSeries
<1>13. ASSUME NEW k \in Orders, Pause(k) PROVE DeadIsDead'
  BY <1>13 DEF Pause
<1>14. ASSUME NEW k \in Orders, Resume(k) PROVE DeadIsDead'
  BY <1>14 DEF Resume
<1>15. ASSUME NEW k \in Orders, Cancel(k) PROVE DeadIsDead'
  BY <1>15 DEF Cancel
<1>16. ASSUME NEW k \in Orders, Delete(k) PROVE DeadIsDead'
  BY <1>16 DEF Delete
<1>17. ASSUME NEW k \in Orders, RunNow(k) PROVE DeadIsDead'
  BY <1>17 DEF RunNow
<1>18. ASSUME NEW k \in Orders, UpdateRecurrence(k) PROVE DeadIsDead'
  BY <1>18 DEF UpdateRecurrence
<1>19. CASE SeriesCrash
  BY <1>19 DEF SeriesCrash
<1>20. CASE UNCHANGED seriesVars
  BY <1>20 DEF seriesVars
<1> QED
  BY <1>1, <1>2, <1>3, <1>4, <1>5, <1>6, <1>7, <1>8, <1>9, <1>10, <1>11, <1>12, <1>13, <1>14,
     <1>15, <1>16, <1>17, <1>18, <1>19, <1>20 DEF NextSeries, SeriesSweep, OrderStep

-----------------------------------------------------------------------------
(* The session's end, and the scheduled run.                               *)

\* A closed session is not swept.
LEMMA ClosedIsIdleStep == TsInv /\ [NextSeries]_seriesVars => ClosedIsIdle'
<1> SUFFICES ASSUME TsInv, [NextSeries]_seriesVars PROVE ClosedIsIdle'
  OBVIOUS
<1> USE SeriesConstants DEF TsInv, hist, Alive, Finished, Written, Unwritten, Fresh, Given,
   Restatus, SpentSession, RearmAs, Spun, Occs, TsTypeOK, RowInv, NotYetCreated, CloseInv,
   ClosedIsIdle, ReadInv, ReadWhenRearming, Whats
<1>1. CASE CreateTaskSession
  BY <1>1 DEF CreateTaskSession
<1>2. CASE CreateFirst
  BY <1>2 DEF CreateFirst
<1>3. ASSUME NEW n \in Occs, Claim(n) PROVE ClosedIsIdle'
  BY <1>3 DEF Claim
<1>4. ASSUME NEW n \in Occs, FinishRun(n) PROVE ClosedIsIdle'
  BY <1>4 DEF FinishRun
<1>5. CASE RunnerStops
  BY <1>5 DEF RunnerStops
<1>6. CASE SweepSyncsRuns
  BY <1>6 DEF SweepSyncsRuns
<1>7. CASE SweepWakesRunner
  BY <1>7 DEF SweepWakesRunner
<1>8. CASE SweepResets
  BY <1>8 DEF SweepResets
<1>9. ASSUME NEW n \in Occs, Rearm(n) PROVE ClosedIsIdle'
  BY <1>9 DEF Rearm
<1>10. CASE SweepCollects
  BY <1>10 DEF SweepCollects
<1>11. CASE SweepCloses
  BY <1>11 DEF SweepCloses
<1>12. ASSUME NEW k \in Orders, NEW what \in Whats, FindSeries(k, what) PROVE ClosedIsIdle'
  BY <1>12 DEF FindSeries
<1>13. ASSUME NEW k \in Orders, Pause(k) PROVE ClosedIsIdle'
  BY <1>13 DEF Pause
<1>14. ASSUME NEW k \in Orders, Resume(k) PROVE ClosedIsIdle'
  BY <1>14 DEF Resume
<1>15. ASSUME NEW k \in Orders, Cancel(k) PROVE ClosedIsIdle'
  BY <1>15 DEF Cancel
<1>16. ASSUME NEW k \in Orders, Delete(k) PROVE ClosedIsIdle'
  BY <1>16 DEF Delete
<1>17. ASSUME NEW k \in Orders, RunNow(k) PROVE ClosedIsIdle'
  BY <1>17 DEF RunNow
<1>18. ASSUME NEW k \in Orders, UpdateRecurrence(k) PROVE ClosedIsIdle'
  BY <1>18 DEF UpdateRecurrence
<1>19. CASE SeriesCrash
  BY <1>19 DEF SeriesCrash
<1>20. CASE UNCHANGED seriesVars
  BY <1>20 DEF seriesVars
<1> QED
  BY <1>1, <1>2, <1>3, <1>4, <1>5, <1>6, <1>7, <1>8, <1>9, <1>10, <1>11, <1>12, <1>13, <1>14,
     <1>15, <1>16, <1>17, <1>18, <1>19, <1>20 DEF NextSeries, SeriesSweep, OrderStep

\* Nothing scheduled appears in a session that is closed or about to be.
LEMMA ClosedHasExtrasStep == TsInv /\ [NextSeries]_seriesVars => ClosedHasExtras'
<1> SUFFICES ASSUME TsInv, [NextSeries]_seriesVars PROVE ClosedHasExtras'
  OBVIOUS
<1> USE SeriesConstants DEF TsInv, hist, Alive, Finished, Written, Unwritten, Fresh, Given,
   Restatus, SpentSession, RearmAs, Spun, Occs
<1>1. CASE CreateTaskSession
  BY <1>1 DEF TsTypeOK, RowInv, NotYetCreated, RecursIsArmed, RowsFirst, CloseInv, ClosedIsIdle,
     ClosedHasExtras, ReadInv, ReadWhenRearming, ReadAll, Whats, CreateTaskSession
<1>2. CASE CreateFirst
  BY <1>2 DEF TsTypeOK, RowInv, NotYetCreated, RecursIsArmed, RowsFirst, CloseInv, ClosedIsIdle,
     ClosedHasExtras, ReadInv, ReadWhenRearming, ReadAll, Whats, CreateFirst
<1>3. ASSUME NEW n \in Occs, Claim(n) PROVE ClosedHasExtras'
  BY <1>3 DEF TsTypeOK, RowInv, NotYetCreated, RecursIsArmed, RowsFirst, CloseInv, ClosedIsIdle,
     ClosedHasExtras, ReadInv, ReadWhenRearming, ReadAll, Whats, Claim
<1>4. ASSUME NEW n \in Occs, FinishRun(n) PROVE ClosedHasExtras'
  BY <1>4 DEF TsTypeOK, RowInv, NotYetCreated, RecursIsArmed, RowsFirst, CloseInv, ClosedIsIdle,
     ClosedHasExtras, ReadInv, ReadWhenRearming, ReadAll, Whats, FinishRun
<1>5. CASE RunnerStops
  BY <1>5 DEF TsTypeOK, RowInv, NotYetCreated, RecursIsArmed, RowsFirst, CloseInv, ClosedIsIdle,
     ClosedHasExtras, ReadInv, ReadWhenRearming, ReadAll, Whats, RunnerStops
<1>6. CASE SweepSyncsRuns
  BY <1>6 DEF TsTypeOK, RowInv, NotYetCreated, RecursIsArmed, RowsFirst, CloseInv, ClosedIsIdle,
     ClosedHasExtras, ReadInv, ReadWhenRearming, ReadAll, Whats, SweepSyncsRuns
<1>7. CASE SweepWakesRunner
  BY <1>7 DEF TsTypeOK, RowInv, NotYetCreated, RecursIsArmed, RowsFirst, CloseInv, ClosedIsIdle,
     ClosedHasExtras, ReadInv, ReadWhenRearming, ReadAll, Whats, SweepWakesRunner
<1>8. CASE SweepResets
  BY <1>8 DEF TsTypeOK, RowInv, NotYetCreated, RecursIsArmed, RowsFirst, CloseInv, ClosedIsIdle,
     ClosedHasExtras, ReadInv, ReadWhenRearming, ReadAll, Whats, SweepResets
<1>9. ASSUME NEW n \in Occs, Rearm(n) PROVE ClosedHasExtras'
  BY <1>9 DEF TsTypeOK, RowInv, NotYetCreated, RecursIsArmed, RowsFirst, CloseInv, ClosedIsIdle,
     ClosedHasExtras, ReadInv, ReadWhenRearming, ReadAll, Whats, Rearm
<1>10. CASE SweepCollects
  BY <1>10 DEF TsTypeOK, RowInv, NotYetCreated, RecursIsArmed, RowsFirst, CloseInv, ClosedIsIdle,
     ClosedHasExtras, ReadInv, ReadWhenRearming, ReadAll, Whats, SweepCollects
<1>11. CASE SweepCloses
  BY <1>11 DEF TsTypeOK, RowInv, NotYetCreated, RecursIsArmed, RowsFirst, CloseInv, ClosedIsIdle,
     ClosedHasExtras, ReadInv, ReadWhenRearming, ReadAll, Whats, SweepCloses
<1>12. ASSUME NEW k \in Orders, NEW what \in Whats, FindSeries(k, what) PROVE ClosedHasExtras'
  BY <1>12 DEF TsTypeOK, RowInv, NotYetCreated, RecursIsArmed, RowsFirst, CloseInv, ClosedIsIdle,
     ClosedHasExtras, ReadInv, ReadWhenRearming, ReadAll, Whats, FindSeries
<1>13. ASSUME NEW k \in Orders, Pause(k) PROVE ClosedHasExtras'
  BY <1>13 DEF TsTypeOK, RowInv, NotYetCreated, RecursIsArmed, RowsFirst, CloseInv, ClosedIsIdle,
     ClosedHasExtras, ReadInv, ReadWhenRearming, ReadAll, Whats, Pause
<1>14. ASSUME NEW k \in Orders, Resume(k) PROVE ClosedHasExtras'
  BY <1>14 DEF TsTypeOK, RowInv, NotYetCreated, RecursIsArmed, RowsFirst, CloseInv, ClosedIsIdle,
     ClosedHasExtras, ReadInv, ReadWhenRearming, ReadAll, Whats, Resume
<1>15. ASSUME NEW k \in Orders, Cancel(k) PROVE ClosedHasExtras'
  BY <1>15 DEF TsTypeOK, RowInv, NotYetCreated, RecursIsArmed, RowsFirst, CloseInv, ClosedIsIdle,
     ClosedHasExtras, ReadInv, ReadWhenRearming, ReadAll, Whats, Cancel
<1>16. ASSUME NEW k \in Orders, Delete(k) PROVE ClosedHasExtras'
  BY <1>16 DEF TsTypeOK, RowInv, NotYetCreated, RecursIsArmed, RowsFirst, CloseInv, ClosedIsIdle,
     ClosedHasExtras, ReadInv, ReadWhenRearming, ReadAll, Whats, Delete
<1>17. ASSUME NEW k \in Orders, RunNow(k) PROVE ClosedHasExtras'
  BY <1>17 DEF TsTypeOK, RowInv, NotYetCreated, RecursIsArmed, RowsFirst, CloseInv, ClosedIsIdle,
     ClosedHasExtras, ReadInv, ReadWhenRearming, ReadAll, Whats, RunNow
<1>18. ASSUME NEW k \in Orders, UpdateRecurrence(k) PROVE ClosedHasExtras'
  <2>1. /\ UNCHANGED <<occ, extra, sweepAt, snapshot, taskHome>>
        /\ \/ /\ recurs' = recurs \cup Alive
              /\ ~doubled' => ~doubled /\ (Alive = {} \/ AtMostOne(recurs'))
           \/ recurs' = recurs \ Alive /\ UNCHANGED doubled
    BY <1>18, UpdateDoes DEF TsTypeOK
  <2> QED
    BY <2>1 DEF TsTypeOK, RowInv, NotYetCreated, RecursIsArmed, RowsFirst, CloseInv, ClosedIsIdle,
       ClosedHasExtras, ReadInv, ReadWhenRearming, ReadAll, Whats
<1>19. CASE SeriesCrash
  BY <1>19 DEF TsTypeOK, RowInv, NotYetCreated, RecursIsArmed, RowsFirst, CloseInv, ClosedIsIdle,
     ClosedHasExtras, ReadInv, ReadWhenRearming, ReadAll, Whats, SeriesCrash
<1>20. CASE UNCHANGED seriesVars
  BY <1>20 DEF TsTypeOK, RowInv, NotYetCreated, RecursIsArmed, RowsFirst, CloseInv, ClosedIsIdle,
     ClosedHasExtras, ReadInv, ReadWhenRearming, ReadAll, Whats, seriesVars
<1> QED
  BY <1>1, <1>2, <1>3, <1>4, <1>5, <1>6, <1>7, <1>8, <1>9, <1>10, <1>11, <1>12, <1>13, <1>14,
     <1>15, <1>16, <1>17, <1>18, <1>19, <1>20 DEF NextSeries, SeriesSweep, OrderStep

\* Every step leaves the live scheduled run the newest.
LEMMA NewestAliveStep == TsInv /\ [NextSeries]_seriesVars => NewestAlive'
<1> SUFFICES ASSUME TsInv, [NextSeries]_seriesVars PROVE NewestAlive'
  OBVIOUS
<1> USE SeriesConstants DEF TsInv, hist, Alive, Finished, Written, Unwritten, Fresh, Given,
   Restatus, SpentSession, RearmAs, Spun, Occs
<1>1. CASE CreateTaskSession
  BY <1>1 DEF TsTypeOK, RowInv, NotYetCreated, RecursIsArmed, RowsFirst, ReadInv, ReadWhenRearming,
     ReadIsFinished, ReadAll, DeletedIsEmpty, OneRecurs, AtMostOne, SpinInv, Scheduled,
     NewestAlive, RecursIsScheduled, Whats, CreateTaskSession
<1>2. CASE CreateFirst
  BY <1>2 DEF TsTypeOK, RowInv, NotYetCreated, RecursIsArmed, RowsFirst, ReadInv, ReadWhenRearming,
     ReadIsFinished, ReadAll, DeletedIsEmpty, OneRecurs, AtMostOne, SpinInv, Scheduled,
     NewestAlive, RecursIsScheduled, Whats, CreateFirst
<1>3. ASSUME NEW n \in Occs, Claim(n) PROVE NewestAlive'
  BY <1>3 DEF TsTypeOK, RowInv, NotYetCreated, RecursIsArmed, RowsFirst, ReadInv, ReadWhenRearming,
     ReadIsFinished, ReadAll, DeletedIsEmpty, OneRecurs, AtMostOne, SpinInv, Scheduled,
     NewestAlive, RecursIsScheduled, Whats, Claim
<1>4. ASSUME NEW n \in Occs, FinishRun(n) PROVE NewestAlive'
  BY <1>4 DEF TsTypeOK, RowInv, NotYetCreated, RecursIsArmed, RowsFirst, ReadInv, ReadWhenRearming,
     ReadIsFinished, ReadAll, DeletedIsEmpty, OneRecurs, AtMostOne, SpinInv, Scheduled,
     NewestAlive, RecursIsScheduled, Whats, FinishRun
<1>5. CASE RunnerStops
  BY <1>5 DEF TsTypeOK, RowInv, NotYetCreated, RecursIsArmed, RowsFirst, ReadInv, ReadWhenRearming,
     ReadIsFinished, ReadAll, DeletedIsEmpty, OneRecurs, AtMostOne, SpinInv, Scheduled,
     NewestAlive, RecursIsScheduled, Whats, RunnerStops
<1>6. CASE SweepSyncsRuns
  BY <1>6 DEF TsTypeOK, RowInv, NotYetCreated, RecursIsArmed, RowsFirst, ReadInv, ReadWhenRearming,
     ReadIsFinished, ReadAll, DeletedIsEmpty, OneRecurs, AtMostOne, SpinInv, Scheduled,
     NewestAlive, RecursIsScheduled, Whats, SweepSyncsRuns
<1>7. CASE SweepWakesRunner
  BY <1>7 DEF TsTypeOK, RowInv, NotYetCreated, RecursIsArmed, RowsFirst, ReadInv, ReadWhenRearming,
     ReadIsFinished, ReadAll, DeletedIsEmpty, OneRecurs, AtMostOne, SpinInv, Scheduled,
     NewestAlive, RecursIsScheduled, Whats, SweepWakesRunner
<1>8. CASE SweepResets
  <2>1. PICK spent \in SUBSET Occs :
          /\ \A n \in spent : occ[n] = "pending" /\ occAck[n] = "processing"
          /\ occ' = OccsEnd(spent, "failed")
          /\ spins' = spins + Cardinality(spent \cap recurs)
    BY <1>8, ResetsDo DEF TsTypeOK
  <2>2. /\ UNCHANGED <<creating, taskHome, recurs, extra, order, killed, doubled, tsCrashes>>
        /\ sweepAt' = "rearm" /\ snapshot' = {n \in recurs : occ'[n] \in {"completed", "failed"}}
        /\ runner' \in {runner, FALSE}
        /\ occAck' \in {occAck, [n \in Occs |-> IF occAck[n] = "processing" THEN "none" ELSE occAck[n]]}
    BY <1>8 DEF SweepResets
  <2> QED
    BY <2>1, <2>2 DEF OccsEnd, TsTypeOK, RowInv, NotYetCreated, RecursIsArmed, RowsFirst, ReadInv,
       ReadWhenRearming, ReadIsFinished, ReadAll, DeletedIsEmpty, OneRecurs, AtMostOne, SpinInv,
       Scheduled, NewestAlive, RecursIsScheduled, Whats
<1>9. ASSUME NEW n \in Occs, Rearm(n) PROVE NewestAlive'
  BY SMTT(60), <1>9 DEF TsTypeOK, RowInv, NotYetCreated, RecursIsArmed, RowsFirst, ReadInv, ReadWhenRearming,
     ReadIsFinished, ReadAll, DeletedIsEmpty, OneRecurs, AtMostOne, SpinInv, Scheduled,
     NewestAlive, RecursIsScheduled, Whats, Rearm
<1>10. CASE SweepCollects
  BY <1>10 DEF TsTypeOK, RowInv, NotYetCreated, RecursIsArmed, RowsFirst, ReadInv,
     ReadWhenRearming, ReadIsFinished, ReadAll, DeletedIsEmpty, OneRecurs, AtMostOne, SpinInv,
     Scheduled, NewestAlive, RecursIsScheduled, Whats, SweepCollects
<1>11. CASE SweepCloses
  BY <1>11 DEF TsTypeOK, RowInv, NotYetCreated, RecursIsArmed, RowsFirst, ReadInv,
     ReadWhenRearming, ReadIsFinished, ReadAll, DeletedIsEmpty, OneRecurs, AtMostOne, SpinInv,
     Scheduled, NewestAlive, RecursIsScheduled, Whats, SweepCloses
<1>12. ASSUME NEW k \in Orders, NEW what \in Whats, FindSeries(k, what) PROVE NewestAlive'
  BY <1>12 DEF TsTypeOK, RowInv, NotYetCreated, RecursIsArmed, RowsFirst, ReadInv,
     ReadWhenRearming, ReadIsFinished, ReadAll, DeletedIsEmpty, OneRecurs, AtMostOne, SpinInv,
     Scheduled, NewestAlive, RecursIsScheduled, Whats, FindSeries
<1>13. ASSUME NEW k \in Orders, Pause(k) PROVE NewestAlive'
  BY <1>13 DEF TsTypeOK, RowInv, NotYetCreated, RecursIsArmed, RowsFirst, ReadInv,
     ReadWhenRearming, ReadIsFinished, ReadAll, DeletedIsEmpty, OneRecurs, AtMostOne, SpinInv,
     Scheduled, NewestAlive, RecursIsScheduled, Whats, Pause
<1>14. ASSUME NEW k \in Orders, Resume(k) PROVE NewestAlive'
  BY <1>14 DEF TsTypeOK, RowInv, NotYetCreated, RecursIsArmed, RowsFirst, ReadInv,
     ReadWhenRearming, ReadIsFinished, ReadAll, DeletedIsEmpty, OneRecurs, AtMostOne, SpinInv,
     Scheduled, NewestAlive, RecursIsScheduled, Whats, Resume
<1>15. ASSUME NEW k \in Orders, Cancel(k) PROVE NewestAlive'
  BY <1>15 DEF TsTypeOK, RowInv, NotYetCreated, RecursIsArmed, RowsFirst, ReadInv,
     ReadWhenRearming, ReadIsFinished, ReadAll, DeletedIsEmpty, OneRecurs, AtMostOne, SpinInv,
     Scheduled, NewestAlive, RecursIsScheduled, Whats, Cancel
<1>16. ASSUME NEW k \in Orders, Delete(k) PROVE NewestAlive'
  BY <1>16 DEF TsTypeOK, RowInv, NotYetCreated, RecursIsArmed, RowsFirst, ReadInv,
     ReadWhenRearming, ReadIsFinished, ReadAll, DeletedIsEmpty, OneRecurs, AtMostOne, SpinInv,
     Scheduled, NewestAlive, RecursIsScheduled, Whats, Delete
<1>17. ASSUME NEW k \in Orders, RunNow(k) PROVE NewestAlive'
  BY <1>17 DEF TsTypeOK, RowInv, NotYetCreated, RecursIsArmed, RowsFirst, ReadInv,
     ReadWhenRearming, ReadIsFinished, ReadAll, DeletedIsEmpty, OneRecurs, AtMostOne, SpinInv,
     Scheduled, NewestAlive, RecursIsScheduled, Whats, RunNow
<1>18. ASSUME NEW k \in Orders, UpdateRecurrence(k) PROVE NewestAlive'
  BY <1>18 DEF TsTypeOK, RowInv, NotYetCreated, RecursIsArmed, RowsFirst, ReadInv,
     ReadWhenRearming, ReadIsFinished, ReadAll, DeletedIsEmpty, OneRecurs, AtMostOne, SpinInv,
     Scheduled, NewestAlive, RecursIsScheduled, Whats, UpdateRecurrence
<1>19. CASE SeriesCrash
  BY <1>19 DEF TsTypeOK, RowInv, NotYetCreated, RecursIsArmed, RowsFirst, ReadInv,
     ReadWhenRearming, ReadIsFinished, ReadAll, DeletedIsEmpty, OneRecurs, AtMostOne, SpinInv,
     Scheduled, NewestAlive, RecursIsScheduled, Whats, SeriesCrash
<1>20. CASE UNCHANGED seriesVars
  BY <1>20 DEF TsTypeOK, RowInv, NotYetCreated, RecursIsArmed, RowsFirst, ReadInv,
     ReadWhenRearming, ReadIsFinished, ReadAll, DeletedIsEmpty, OneRecurs, AtMostOne, SpinInv,
     Scheduled, NewestAlive, RecursIsScheduled, Whats, seriesVars
<1> QED
  BY <1>1, <1>2, <1>3, <1>4, <1>5, <1>6, <1>7, <1>8, <1>9, <1>10, <1>11, <1>12, <1>13, <1>14,
     <1>15, <1>16, <1>17, <1>18, <1>19, <1>20 DEF NextSeries, SeriesSweep, OrderStep

\* Every step leaves the recurrence with the scheduled run.
LEMMA RecursIsScheduledStep == TsInv /\ [NextSeries]_seriesVars => RecursIsScheduled'
<1> SUFFICES ASSUME TsInv, [NextSeries]_seriesVars PROVE RecursIsScheduled'
  OBVIOUS
<1> USE SeriesConstants DEF TsInv, hist, Alive, Finished, Written, Unwritten, Fresh, Given,
   Restatus, SpentSession, RearmAs, Spun, Occs
<1>1. CASE CreateTaskSession
  BY <1>1 DEF TsTypeOK, RowInv, NotYetCreated, RecursIsArmed, RowsFirst, ReadInv, ReadWhenRearming,
     ReadIsFinished, ReadAll, DeletedIsEmpty, OneRecurs, AtMostOne, SpinInv, Scheduled,
     NewestAlive, RecursIsScheduled, Whats, CreateTaskSession
<1>2. CASE CreateFirst
  BY <1>2 DEF TsTypeOK, RowInv, NotYetCreated, RecursIsArmed, RowsFirst, ReadInv, ReadWhenRearming,
     ReadIsFinished, ReadAll, DeletedIsEmpty, OneRecurs, AtMostOne, SpinInv, Scheduled,
     NewestAlive, RecursIsScheduled, Whats, CreateFirst
<1>3. ASSUME NEW n \in Occs, Claim(n) PROVE RecursIsScheduled'
  BY <1>3 DEF TsTypeOK, RowInv, NotYetCreated, RecursIsArmed, RowsFirst, ReadInv, ReadWhenRearming,
     ReadIsFinished, ReadAll, DeletedIsEmpty, OneRecurs, AtMostOne, SpinInv, Scheduled,
     NewestAlive, RecursIsScheduled, Whats, Claim
<1>4. ASSUME NEW n \in Occs, FinishRun(n) PROVE RecursIsScheduled'
  BY <1>4 DEF TsTypeOK, RowInv, NotYetCreated, RecursIsArmed, RowsFirst, ReadInv, ReadWhenRearming,
     ReadIsFinished, ReadAll, DeletedIsEmpty, OneRecurs, AtMostOne, SpinInv, Scheduled,
     NewestAlive, RecursIsScheduled, Whats, FinishRun
<1>5. CASE RunnerStops
  BY <1>5 DEF TsTypeOK, RowInv, NotYetCreated, RecursIsArmed, RowsFirst, ReadInv, ReadWhenRearming,
     ReadIsFinished, ReadAll, DeletedIsEmpty, OneRecurs, AtMostOne, SpinInv, Scheduled,
     NewestAlive, RecursIsScheduled, Whats, RunnerStops
<1>6. CASE SweepSyncsRuns
  BY <1>6 DEF TsTypeOK, RowInv, NotYetCreated, RecursIsArmed, RowsFirst, ReadInv, ReadWhenRearming,
     ReadIsFinished, ReadAll, DeletedIsEmpty, OneRecurs, AtMostOne, SpinInv, Scheduled,
     NewestAlive, RecursIsScheduled, Whats, SweepSyncsRuns
<1>7. CASE SweepWakesRunner
  BY <1>7 DEF TsTypeOK, RowInv, NotYetCreated, RecursIsArmed, RowsFirst, ReadInv, ReadWhenRearming,
     ReadIsFinished, ReadAll, DeletedIsEmpty, OneRecurs, AtMostOne, SpinInv, Scheduled,
     NewestAlive, RecursIsScheduled, Whats, SweepWakesRunner
<1>8. CASE SweepResets
  <2>1. PICK spent \in SUBSET Occs :
          /\ \A n \in spent : occ[n] = "pending" /\ occAck[n] = "processing"
          /\ occ' = OccsEnd(spent, "failed")
          /\ spins' = spins + Cardinality(spent \cap recurs)
    BY <1>8, ResetsDo DEF TsTypeOK
  <2>2. /\ UNCHANGED <<creating, taskHome, recurs, extra, order, killed, doubled, tsCrashes>>
        /\ sweepAt' = "rearm" /\ snapshot' = {n \in recurs : occ'[n] \in {"completed", "failed"}}
        /\ runner' \in {runner, FALSE}
        /\ occAck' \in {occAck, [n \in Occs |-> IF occAck[n] = "processing" THEN "none" ELSE occAck[n]]}
    BY <1>8 DEF SweepResets
  <2> QED
    BY <2>1, <2>2 DEF OccsEnd, TsTypeOK, RowInv, NotYetCreated, RecursIsArmed, RowsFirst, ReadInv,
       ReadWhenRearming, ReadIsFinished, ReadAll, DeletedIsEmpty, OneRecurs, AtMostOne, SpinInv,
       Scheduled, NewestAlive, RecursIsScheduled, Whats
<1>9. ASSUME NEW n \in Occs, Rearm(n) PROVE RecursIsScheduled'
  <2>1. PICK new \in Occs :
          /\ occ' = [occ EXCEPT ![new] = RearmAs] /\ RearmAs \in {"paused", "pending"}
          /\ n # new /\ occ[new] = "none" /\ occ[n] \in {"completed", "failed", "deleted"}
          /\ ~doubled => recurs' = {new} /\ snapshot' = {} /\ Scheduled = {}
          /\ UNCHANGED <<extra, doubled>>
    BY <1>9, RearmDoes DEF hist
  <2> QED
    BY <2>1 DEF TsTypeOK, RowInv, NotYetCreated, RecursIsArmed, RowsFirst, ReadInv,
       ReadWhenRearming, ReadIsFinished, ReadAll, DeletedIsEmpty, OneRecurs, AtMostOne, SpinInv,
       Scheduled, NewestAlive, RecursIsScheduled, Whats
<1>10. CASE SweepCollects
  BY <1>10 DEF TsTypeOK, RowInv, NotYetCreated, RecursIsArmed, RowsFirst, ReadInv,
     ReadWhenRearming, ReadIsFinished, ReadAll, DeletedIsEmpty, OneRecurs, AtMostOne, SpinInv,
     Scheduled, NewestAlive, RecursIsScheduled, Whats, SweepCollects
<1>11. CASE SweepCloses
  BY <1>11 DEF TsTypeOK, RowInv, NotYetCreated, RecursIsArmed, RowsFirst, ReadInv,
     ReadWhenRearming, ReadIsFinished, ReadAll, DeletedIsEmpty, OneRecurs, AtMostOne, SpinInv,
     Scheduled, NewestAlive, RecursIsScheduled, Whats, SweepCloses
<1>12. ASSUME NEW k \in Orders, NEW what \in Whats, FindSeries(k, what) PROVE RecursIsScheduled'
  BY <1>12 DEF TsTypeOK, RowInv, NotYetCreated, RecursIsArmed, RowsFirst, ReadInv,
     ReadWhenRearming, ReadIsFinished, ReadAll, DeletedIsEmpty, OneRecurs, AtMostOne, SpinInv,
     Scheduled, NewestAlive, RecursIsScheduled, Whats, FindSeries
<1>13. ASSUME NEW k \in Orders, Pause(k) PROVE RecursIsScheduled'
  BY <1>13 DEF TsTypeOK, RowInv, NotYetCreated, RecursIsArmed, RowsFirst, ReadInv,
     ReadWhenRearming, ReadIsFinished, ReadAll, DeletedIsEmpty, OneRecurs, AtMostOne, SpinInv,
     Scheduled, NewestAlive, RecursIsScheduled, Whats, Pause
<1>14. ASSUME NEW k \in Orders, Resume(k) PROVE RecursIsScheduled'
  BY <1>14 DEF TsTypeOK, RowInv, NotYetCreated, RecursIsArmed, RowsFirst, ReadInv,
     ReadWhenRearming, ReadIsFinished, ReadAll, DeletedIsEmpty, OneRecurs, AtMostOne, SpinInv,
     Scheduled, NewestAlive, RecursIsScheduled, Whats, Resume
<1>15. ASSUME NEW k \in Orders, Cancel(k) PROVE RecursIsScheduled'
  BY <1>15 DEF TsTypeOK, RowInv, NotYetCreated, RecursIsArmed, RowsFirst, ReadInv,
     ReadWhenRearming, ReadIsFinished, ReadAll, DeletedIsEmpty, OneRecurs, AtMostOne, SpinInv,
     Scheduled, NewestAlive, RecursIsScheduled, Whats, Cancel
<1>16. ASSUME NEW k \in Orders, Delete(k) PROVE RecursIsScheduled'
  BY <1>16 DEF TsTypeOK, RowInv, NotYetCreated, RecursIsArmed, RowsFirst, ReadInv,
     ReadWhenRearming, ReadIsFinished, ReadAll, DeletedIsEmpty, OneRecurs, AtMostOne, SpinInv,
     Scheduled, NewestAlive, RecursIsScheduled, Whats, Delete
<1>17. ASSUME NEW k \in Orders, RunNow(k) PROVE RecursIsScheduled'
  BY <1>17 DEF TsTypeOK, RowInv, NotYetCreated, RecursIsArmed, RowsFirst, ReadInv,
     ReadWhenRearming, ReadIsFinished, ReadAll, DeletedIsEmpty, OneRecurs, AtMostOne, SpinInv,
     Scheduled, NewestAlive, RecursIsScheduled, Whats, RunNow
<1>18. ASSUME NEW k \in Orders, UpdateRecurrence(k) PROVE RecursIsScheduled'
  <2>1. /\ UNCHANGED <<occ, extra, sweepAt, snapshot, taskHome>>
        /\ \/ /\ recurs' = recurs \cup Alive
              /\ ~doubled' => ~doubled /\ (Alive = {} \/ AtMostOne(recurs'))
           \/ recurs' = recurs \ Alive /\ UNCHANGED doubled
    BY <1>18, UpdateDoes DEF TsTypeOK
  <2> QED
    BY <2>1 DEF TsTypeOK, RowInv, NotYetCreated, RecursIsArmed, RowsFirst, ReadInv,
       ReadWhenRearming, ReadIsFinished, ReadAll, DeletedIsEmpty, OneRecurs, AtMostOne, SpinInv,
       Scheduled, NewestAlive, RecursIsScheduled, Whats
<1>19. CASE SeriesCrash
  BY <1>19 DEF TsTypeOK, RowInv, NotYetCreated, RecursIsArmed, RowsFirst, ReadInv,
     ReadWhenRearming, ReadIsFinished, ReadAll, DeletedIsEmpty, OneRecurs, AtMostOne, SpinInv,
     Scheduled, NewestAlive, RecursIsScheduled, Whats, SeriesCrash
<1>20. CASE UNCHANGED seriesVars
  BY <1>20 DEF TsTypeOK, RowInv, NotYetCreated, RecursIsArmed, RowsFirst, ReadInv,
     ReadWhenRearming, ReadIsFinished, ReadAll, DeletedIsEmpty, OneRecurs, AtMostOne, SpinInv,
     Scheduled, NewestAlive, RecursIsScheduled, Whats, seriesVars
<1> QED
  BY <1>1, <1>2, <1>3, <1>4, <1>5, <1>6, <1>7, <1>8, <1>9, <1>10, <1>11, <1>12, <1>13, <1>14,
     <1>15, <1>16, <1>17, <1>18, <1>19, <1>20 DEF NextSeries, SeriesSweep, OrderStep

-----------------------------------------------------------------------------
(* The streak of failures.                                                 *)

\* The streak the sweep counts is the row of failures no success is newer than.
LEMMA StreakIsFailedRow == TsTypeOK => Streak = Cardinality(FailedRow)
<1> SUFFICES ASSUME TsTypeOK PROVE Streak = Cardinality(FailedRow)
  OBVIOUS
<1>1. {n \in Finished : occ[n] = "failed" /\ \A o \in Finished : o > n => occ[o] = "failed"} = FailedRow
  BY DEF FailedRow, Overtaken, Finished
<1> QED
  BY <1>1 DEF Streak

\* A failure of the scheduled run joins the row of failures, or leaves the live
\* rows a success has overtaken: either pays for the failure counted.
LEMMA FailureIsPaid ==
  ASSUME TsInv, ~doubled, NEW S, S \subseteq Written \ Finished, occ' = OccsEnd(S, "failed"),
         spins' = spins + Cardinality(S \cap recurs), UNCHANGED extra
  PROVE  spins' + Cardinality(LowAlive)' <= Cardinality(FailedRow)' + Cardinality(extra)'
<1>1. /\ spins + Cardinality(LowAlive) <= Cardinality(FailedRow) + Cardinality(extra)
      /\ AtMostOne(recurs) /\ recurs \subseteq Occs /\ spins \in Nat
  BY DEF TsInv, SpinInv, SpinsInStreak, ReadInv, OneRecurs, TsTypeOK
<1>2. /\ LowAlive \subseteq Occs /\ FailedRow \subseteq Occs /\ extra \subseteq Occs
      /\ LowAlive' \subseteq Occs /\ FailedRow' \subseteq Occs
  BY DEF LowAlive, FailedRow, Alive, Finished, TsInv, TsTypeOK
<1>3. \A n \in Occs : occ'[n] = IF n \in S THEN "failed" ELSE occ[n]
  BY DEF OccsEnd
<1>4. \A n \in Occs : Overtaken(n)' <=> Overtaken(n)
  BY <1>3 DEF Overtaken, Written, Alive, Finished
<1>5. LowAlive' \subseteq LowAlive \ S /\ FailedRow \subseteq FailedRow'
  BY <1>3, <1>4 DEF LowAlive, FailedRow, Written, Alive, Finished
<1>6. /\ Cardinality(LowAlive') <= Cardinality(LowAlive) /\ Cardinality(FailedRow) <= Cardinality(FailedRow')
      /\ Cardinality(LowAlive) \in Nat /\ Cardinality(FailedRow) \in Nat /\ Cardinality(extra) \in Nat
      /\ Cardinality(LowAlive') \in Nat /\ Cardinality(FailedRow') \in Nat
  BY <1>2, <1>5, CountSubset, OccsCount
<1>7. CASE S \cap recurs = {}
  <2>1. Cardinality(S \cap recurs) = 0
    BY <1>7, FS_EmptySet
  <2>2. spins' = spins
    BY <1>1, <2>1
  <2> QED
    BY <1>1, <1>6, <2>2
<1>8. CASE S \cap recurs # {}
  <2>1. PICK f \in S \cap recurs : TRUE
    BY <1>8
  <2>2. S \cap recurs = {f}
    BY <1>1, <2>1 DEF AtMostOne
  <2>3. spins' = spins + 1
    BY <2>2, FS_Singleton
  <2>4. f \in Occs /\ f \in Alive
    BY <1>1, <2>1 DEF TsInv, RowInv, RecursIsArmed
  <2>5. CASE Overtaken(f)
    <3>1. f \in LowAlive /\ LowAlive' \subseteq LowAlive \ {f}
      BY <1>5, <2>1, <2>4, <2>5 DEF LowAlive
    <3>2. Cardinality(LowAlive \ {f}) = Cardinality(LowAlive) - 1
      BY <1>2, <3>1, OccsCount, FS_RemoveElement
    <3>3. LowAlive \ {f} \subseteq Occs
      BY <1>2
    <3>4. Cardinality(LowAlive') <= Cardinality(LowAlive \ {f})
      BY <3>1, <3>3, CountSubset
    <3> QED
      BY <1>1, <1>6, <2>3, <3>2, <3>4
  <2>6. CASE ~Overtaken(f)
    <3>1. f \in FailedRow' /\ f \notin FailedRow
      BY <1>3, <1>4, <2>1, <2>4, <2>6 DEF FailedRow, Alive, Finished
    <3>2. Cardinality(FailedRow \cup {f}) = Cardinality(FailedRow) + 1
      BY <1>2, <3>1, OccsCount, FS_AddElement
    <3>3. FailedRow \cup {f} \subseteq FailedRow'
      BY <1>5, <3>1
    <3>4. Cardinality(FailedRow \cup {f}) <= Cardinality(FailedRow')
      BY <1>2, <3>3, CountSubset
    <3> QED
      BY <1>1, <1>6, <2>3, <3>2, <3>4
  <2> QED
    BY <2>5, <2>6
<1> QED
  BY <1>7, <1>8

\* The live rows that a success overtakes are runs on demand, and at most one
\* other, which only a run on demand can overtake: no more than those there are.
LEMMA OvertakenIsExtra ==
  ASSUME TsInv, ~doubled, UNCHANGED extra,
         \A n \in Occs : occ'[n] \in {occ[n], "completed", "failed"} /\ (occ'[n] # occ[n] => n \in Written \ Finished)
  PROVE  Cardinality(LowAlive)' <= Cardinality(extra)'
<1>1. extra \subseteq Occs /\ LowAlive' \subseteq Occs
  BY DEF TsInv, TsTypeOK, LowAlive, Alive
<1>2. CASE LowAlive' \subseteq extra
  BY <1>1, <1>2, CountSubset
<1>3. CASE ~(LowAlive' \subseteq extra)
  <2>1. PICK x \in LowAlive' : x \notin extra
    BY <1>3
  <2>2. x \in Scheduled /\ x \in Occs
    BY <1>1, <2>1 DEF LowAlive, Scheduled, Alive
  <2>3. \A y \in Scheduled : y = x
    <3>1. Scheduled \subseteq Occs /\ Scheduled \subseteq Written \ extra
      BY DEF Scheduled, Alive, Written
    <3>2. \A a \in Scheduled : \A b \in Written \ extra : b <= a
      BY DEF TsInv, SpinInv, NewestAlive
    <3> QED
      BY <2>2, <3>1, <3>2, SeriesConstants DEF Occs
  <2>4. PICK c \in Occs : c > x /\ occ'[c] = "completed"
    BY <2>1 DEF LowAlive, Overtaken
  <2>5. c \in Written
    BY <2>4 DEF Written, Finished
  <2>6. c \in extra
    BY <2>2, <2>4, <2>5, SeriesConstants DEF TsInv, SpinInv, NewestAlive, Occs
  <2>7. LowAlive' \subseteq (extra \ {c}) \cup {x}
    BY <2>3, <2>4 DEF LowAlive, Alive, Scheduled
  <2>8. /\ IsFiniteSet(extra \ {c}) /\ Cardinality(extra \ {c}) = Cardinality(extra) - 1
    BY <1>1, <2>6, OccsCount, FS_RemoveElement
  <2>9. Cardinality((extra \ {c}) \cup {x}) = Cardinality(extra \ {c}) + 1
    BY <2>1, <2>8, FS_AddElement
  <2>10. (extra \ {c}) \cup {x} \subseteq Occs
    BY <1>1, <2>2
  <2>11. Cardinality(LowAlive') <= Cardinality((extra \ {c}) \cup {x})
    BY <2>7, <2>10, CountSubset
  <2>12. Cardinality(extra) \in Nat /\ Cardinality(LowAlive') \in Nat
    BY <1>1, OccsCount
  <2> QED
    BY <2>8, <2>9, <2>11, <2>12
<1> QED
  BY <1>2, <1>3

\* A scheduled run fails only while the failures before it are within the cap:
\* at the cap the series waits for its successor, has ended, or is paused.
LEMMA FailureIsWithinCap ==
  ASSUME TsInv, ~doubled, NEW S, S \subseteq Written \ Finished, S \cap recurs # {},
         \A n \in S : occAck[n] # "none", spins' = spins + Cardinality(S \cap recurs)
  PROVE  spins' <= FailCap + Cardinality(extra)
<1>1. AtMostOne(recurs) /\ recurs \subseteq Occs /\ spins \in Nat /\ extra \subseteq Occs
  BY DEF TsInv, ReadInv, OneRecurs, TsTypeOK
<1>2. PICK f \in S \cap recurs : TRUE
  OBVIOUS
<1>3. S \cap recurs = {f}
  BY <1>1, <1>2 DEF AtMostOne
<1>4. spins' = spins + 1
  BY <1>3, FS_Singleton
<1>5. recurs \cap Finished = {}
  BY <1>1, <1>2 DEF AtMostOne, Finished
<1>6. ~(\E p \in Alive : StaysDue(p))
  BY <1>2 DEF StaysDue
<1>7. ~(spins >= FailCap + Cardinality(extra))
  <2>1. f \in Alive
    BY <1>2, <1>5 DEF TsInv, RowInv, RecursIsArmed
  <2> QED
    BY <2>1, <1>5, <1>6 DEF TsInv, SpinInv, SpinsStop
<1>8. Cardinality(extra) \in Nat /\ FailCap \in Nat
  BY <1>1, OccsCount, SeriesConstants
<1> QED
  BY <1>1, <1>4, <1>7, <1>8

\* The counts are numbers.
LEMMA Counts ==
  TsInv => /\ Cardinality(LowAlive) \in Nat /\ Cardinality(FailedRow) \in Nat /\ Cardinality(extra) \in Nat
           /\ spins \in Nat /\ FailCap \in Nat \ {0}
           /\ Cardinality(LowAlive)' \in Nat /\ Cardinality(FailedRow)' \in Nat
<1> SUFFICES ASSUME TsInv
    PROVE  /\ Cardinality(LowAlive) \in Nat /\ Cardinality(FailedRow) \in Nat /\ Cardinality(extra) \in Nat
           /\ spins \in Nat /\ FailCap \in Nat \ {0}
           /\ Cardinality(LowAlive)' \in Nat /\ Cardinality(FailedRow)' \in Nat
  OBVIOUS
<1>1. /\ LowAlive \subseteq Occs /\ FailedRow \subseteq Occs /\ extra \subseteq Occs
      /\ LowAlive' \subseteq Occs /\ FailedRow' \subseteq Occs
  BY DEF LowAlive, FailedRow, Alive, Finished, TsInv, TsTypeOK
<1>2. spins \in Nat /\ FailCap \in Nat \ {0}
  BY SeriesConstants DEF TsInv, TsTypeOK
<1> QED
  BY <1>1, <1>2, OccsCount

\* Where the rows, the failures counted and the runs on demand stay, nothing
\* has to be paid for.
LEMMA NothingSpins ==
  TsInv /\ UNCHANGED <<occ, spins, extra>> /\ (doubled => doubled') => SpinsInStreak'
<1> SUFFICES ASSUME TsInv, UNCHANGED <<occ, spins, extra>>, doubled => doubled' PROVE SpinsInStreak'
  OBVIOUS
<1>1. LowAlive' = LowAlive /\ FailedRow' = FailedRow
  BY DEF LowAlive, FailedRow, Overtaken, Alive, Finished
<1> QED
  BY <1>1 DEF TsInv, SpinInv, SpinsInStreak

\* A new row is newer than every success and failure.
LEMMA NewRowSpins ==
  ASSUME TsInv, NEW new \in Occs, Fresh(new), NEW st \in {"pending", "paused"}, occ' = [occ EXCEPT ![new] = st]
  PROVE  LowAlive' = LowAlive /\ FailedRow' = FailedRow
<1>1. occ[new] = "none" /\ \A n \in Occs : occ'[n] = IF n = new THEN st ELSE occ[n]
  BY DEF Fresh, Unwritten, TsInv, TsTypeOK
<1>2. \A n \in Occs : Overtaken(n)' <=> Overtaken(n)
  BY <1>1 DEF Overtaken
<1>3. ~Overtaken(new)
  BY <1>1 DEF Overtaken, TsInv, RowInv, RowsFirst
<1>4. \A n \in Occs : n \in LowAlive' <=> n \in LowAlive
  BY <1>1, <1>2, <1>3 DEF LowAlive, Alive
<1>5. \A n \in Occs : n \in FailedRow' <=> n \in FailedRow
  BY <1>1, <1>2 DEF FailedRow, Finished
<1> QED
  BY <1>4, <1>5 DEF LowAlive, FailedRow, Alive, Finished

\* What is counted is paid for by the streak or by runs on demand.
LEMMA SpinsStep == TsInv /\ [NextSeries]_seriesVars => SpinsInStreak'
<1> SUFFICES ASSUME TsInv, [NextSeries]_seriesVars PROVE SpinsInStreak'
  OBVIOUS
<1> USE SeriesConstants DEF TsInv, hist, Alive, Finished, Written, Unwritten, Fresh, Given,
   Restatus, SpentSession, RearmAs, Spun, Occs
<1>1. CASE CreateTaskSession
  <2>1. UNCHANGED <<occ, spins, extra, doubled>>
    BY <1>1 DEF CreateTaskSession
  <2> QED
    BY <2>1, NothingSpins
<1>2. CASE CreateFirst
  <2>1. taskHome \in {"none", "bare"} /\ spins' = 0 /\ UNCHANGED extra
    BY <1>2 DEF CreateFirst, RowInv, NotYetCreated
  <2>2. LowAlive' = {}
    BY <1>2, <2>1 DEF CreateFirst, LowAlive, Overtaken, RowInv, NotYetCreated, TsTypeOK
  <2>3. Cardinality(LowAlive)' = 0
    BY <2>2, FS_EmptySet
  <2> QED
    BY <2>1, <2>3, Counts DEF SpinsInStreak
<1>3. ASSUME NEW n \in Occs, Claim(n) PROVE SpinsInStreak'
  <2>1. UNCHANGED <<occ, spins, extra, doubled>>
    BY <1>3 DEF Claim
  <2> QED
    BY <2>1, NothingSpins
<1>4. ASSUME NEW n \in Occs, FinishRun(n) PROVE SpinsInStreak'
  <2>1. UNCHANGED <<occ, spins, extra, doubled>>
    BY <1>4 DEF FinishRun
  <2> QED
    BY <2>1, NothingSpins
<1>5. CASE RunnerStops
  <2>1. UNCHANGED <<occ, spins, extra, doubled>>
    BY <1>5 DEF RunnerStops
  <2> QED
    BY <2>1, NothingSpins
<1>6. CASE SweepSyncsRuns
  <2>1. PICK wins, fails \in SUBSET (Written \ Finished) :
          /\ \A n \in wins : occAck[n] = "completed"
          /\ \A n \in fails : occAck[n] = "error"
          /\ \A n \in Written \ Finished : occAck[n] = "completed" => n \in wins
          /\ \A n \in Written \ Finished : occAck[n] = "error" => n \in fails
          /\ occ' = [n \in Occs |-> IF n \in wins THEN "completed" ELSE IF n \in fails THEN "failed" ELSE occ[n]]
          /\ spins' = IF wins # {} THEN 0 ELSE spins + Cardinality(fails \cap recurs)
    BY <1>6, SyncsDo DEF TsTypeOK
  <2>2. /\ UNCHANGED <<creating, taskHome, recurs, extra, occAck, runner, snapshot, order, killed, doubled, tsCrashes>>
        /\ sweepAt' \in {"wake", "reset"} /\ sweepAt = "idle" /\ taskHome = "active"
    BY <1>6 DEF SweepSyncsRuns
  <2>3. CASE wins = {}
    <3>1. fails \subseteq Written \ Finished /\ occ' = OccsEnd(fails, "failed") /\ spins' = spins + Cardinality(fails \cap recurs)
      BY <2>1, <2>3 DEF OccsEnd
    <3> QED
      BY <2>2, <3>1, FailureIsPaid DEF SpinsInStreak
  <2>4. CASE wins # {}
    <3>1. spins' = 0 /\ \A n \in Occs : occ'[n] \in {occ[n], "completed", "failed"} /\ (occ'[n] # occ[n] => n \in Written \ Finished)
      BY <2>1, <2>4
    <3> QED
      BY <2>2, <3>1, OvertakenIsExtra, Counts DEF SpinsInStreak
  <2> QED
    BY <2>3, <2>4
<1>7. CASE SweepWakesRunner
  <2>1. UNCHANGED <<occ, spins, extra, doubled>>
    BY <1>7 DEF SweepWakesRunner
  <2> QED
    BY <2>1, NothingSpins
<1>8. CASE SweepResets
  <2>1. PICK spent \in SUBSET Occs :
          /\ \A n \in spent : occ[n] = "pending" /\ occAck[n] = "processing"
          /\ occ' = OccsEnd(spent, "failed")
          /\ spins' = spins + Cardinality(spent \cap recurs)
    BY <1>8, ResetsDo DEF TsTypeOK
  <2>2. /\ UNCHANGED <<creating, taskHome, recurs, extra, order, killed, doubled, tsCrashes>>
        /\ sweepAt' = "rearm" /\ snapshot' = {n \in recurs : occ'[n] \in {"completed", "failed"}}
        /\ runner' \in {runner, FALSE}
        /\ occAck' \in {occAck, [n \in Occs |-> IF occAck[n] = "processing" THEN "none" ELSE occAck[n]]}
    BY <1>8 DEF SweepResets
  <2>3. spent \subseteq Written \ Finished
    BY <2>1
  <2> QED
    BY <2>1, <2>2, <2>3, FailureIsPaid DEF SpinsInStreak
<1>9. ASSUME NEW n \in Occs, Rearm(n) PROVE SpinsInStreak'
  <2>1. PICK new \in Occs :
          /\ Fresh(new) /\ occ' = [occ EXCEPT ![new] = RearmAs] /\ RearmAs \in {"paused", "pending"}
          /\ occ[new] = "none" /\ UNCHANGED <<extra, doubled, spins>>
    BY <1>9, RearmDoes DEF hist
  <2>2. LowAlive' = LowAlive /\ FailedRow' = FailedRow
    BY <2>1, NewRowSpins
  <2> QED
    BY <2>1, <2>2 DEF SpinInv, SpinsInStreak
<1>10. CASE SweepCollects
  <2>1. UNCHANGED <<occ, spins, extra, doubled>>
    BY <1>10 DEF SweepCollects
  <2> QED
    BY <2>1, NothingSpins
<1>11. CASE SweepCloses
  <2>1. UNCHANGED <<occ, spins, extra, doubled>>
    BY <1>11 DEF SweepCloses
  <2> QED
    BY <2>1, NothingSpins
<1>12. ASSUME NEW k \in Orders, NEW what \in Whats, FindSeries(k, what) PROVE SpinsInStreak'
  <2>1. UNCHANGED <<occ, spins, extra, doubled>>
    BY <1>12 DEF FindSeries
  <2> QED
    BY <2>1, NothingSpins
<1>13. ASSUME NEW k \in Orders, Pause(k) PROVE SpinsInStreak'
  <2>1. LowAlive' = LowAlive /\ FailedRow' = FailedRow /\ spins' \in {spins, 0} /\ UNCHANGED <<extra, doubled>>
    BY <1>13 DEF Pause, LowAlive, FailedRow, Overtaken, TsTypeOK
  <2> QED
    BY <2>1, Counts DEF SpinInv, SpinsInStreak
<1>14. ASSUME NEW k \in Orders, Resume(k) PROVE SpinsInStreak'
  <2>1. LowAlive' = LowAlive /\ FailedRow' = FailedRow /\ spins' \in {spins, 0} /\ UNCHANGED <<extra, doubled>>
    BY <1>14 DEF Resume, LowAlive, FailedRow, Overtaken, TsTypeOK
  <2> QED
    BY <2>1, Counts DEF SpinInv, SpinsInStreak
<1>15. ASSUME NEW k \in Orders, Cancel(k) PROVE SpinsInStreak'
  <2>1. LowAlive' = {} /\ FailedRow' = FailedRow /\ UNCHANGED <<extra, spins, doubled>>
    BY <1>15 DEF Cancel, LowAlive, FailedRow, Overtaken, TsTypeOK
  <2>2. Cardinality(LowAlive)' = 0
    BY <2>1, FS_EmptySet
  <2> QED
    BY <2>1, <2>2, Counts DEF SpinInv, SpinsInStreak
<1>16. ASSUME NEW k \in Orders, Delete(k) PROVE SpinsInStreak'
  <2>1. LowAlive' = {} /\ FailedRow' = {} /\ spins' = 0 /\ UNCHANGED extra
    BY <1>16 DEF Delete, LowAlive, FailedRow, Overtaken, TsTypeOK
  <2>2. Cardinality(LowAlive)' = 0 /\ Cardinality(FailedRow)' = 0
    BY <2>1, FS_EmptySet
  <2> QED
    BY <2>1, <2>2, Counts DEF SpinsInStreak
<1>17. ASSUME NEW k \in Orders, RunNow(k) PROVE SpinsInStreak'
  <2>1. PICK new \in Occs : Fresh(new) /\ occ' = [occ EXCEPT ![new] = "pending"] /\ extra' = extra \cup {new}
    BY <1>17 DEF RunNow
  <2>2. spins' = 0 /\ UNCHANGED doubled /\ occ[new] = "none"
    BY <1>17, <2>1 DEF RunNow
  <2>3. LowAlive' = LowAlive /\ FailedRow' = FailedRow
    BY <2>1, <2>2, NewRowSpins
  <2>4. extra' \subseteq Occs
    BY <2>1 DEF TsTypeOK
  <2>5. Cardinality(extra) <= Cardinality(extra')
    BY <2>1, <2>4, CountSubset
  <2>6. Cardinality(extra') \in Nat
    BY <2>4, OccsCount
  <2> QED
    BY <2>2, <2>3, <2>5, <2>6, Counts DEF SpinInv, SpinsInStreak
<1>18. ASSUME NEW k \in Orders, UpdateRecurrence(k) PROVE SpinsInStreak'
  <2>1. UNCHANGED <<occ, spins, extra>> /\ (doubled => doubled')
    BY <1>18, UpdateDoes DEF TsTypeOK
  <2> QED
    BY <2>1, NothingSpins
<1>19. CASE SeriesCrash
  <2>1. (UNCHANGED occ \/ doubled') /\ UNCHANGED <<spins, extra>> /\ (doubled => doubled')
    BY <1>19, CrashDoes DEF TsTypeOK
  <2> QED
    BY <2>1, NothingSpins DEF SpinsInStreak
<1>20. CASE UNCHANGED seriesVars
  BY <1>20, NothingSpins DEF seriesVars
<1> QED
  BY <1>1, <1>2, <1>3, <1>4, <1>5, <1>6, <1>7, <1>8, <1>9, <1>10, <1>11, <1>12, <1>13, <1>14,
     <1>15, <1>16, <1>17, <1>18, <1>19, <1>20 DEF NextSeries, SeriesSweep, OrderStep

\* At the cap the series stops.
LEMMA StopStep == TsInv /\ [NextSeries]_seriesVars => SpinsStop'
<1> SUFFICES ASSUME TsInv, [NextSeries]_seriesVars PROVE SpinsStop'
  OBVIOUS
<1> USE SeriesConstants DEF TsInv, hist, Alive, Finished, Written, Unwritten, Fresh, Given,
   Restatus, SpentSession, RearmAs, Spun, Occs
<1>1. CASE CreateTaskSession
  BY <1>1 DEF TsTypeOK, SpinInv, SpinsStop, StaysDue, CreateTaskSession
<1>2. CASE CreateFirst
  <2>1. spins' = 0 /\ extra' = extra
    BY <1>2 DEF CreateFirst, RowInv, NotYetCreated
  <2> QED
    BY <2>1, Counts DEF SpinsStop
<1>3. ASSUME NEW n \in Occs, Claim(n) PROVE SpinsStop'
  BY <1>3 DEF TsTypeOK, SpinInv, SpinsStop, StaysDue, Claim
<1>4. ASSUME NEW n \in Occs, FinishRun(n) PROVE SpinsStop'
  BY <1>4 DEF TsTypeOK, SpinInv, SpinsStop, StaysDue, FinishRun
<1>5. CASE RunnerStops
  BY <1>5 DEF TsTypeOK, SpinInv, SpinsStop, StaysDue, RunnerStops
<1>6. CASE SweepSyncsRuns
  <2>1. PICK wins, fails \in SUBSET (Written \ Finished) :
          /\ \A n \in wins : occAck[n] = "completed"
          /\ \A n \in fails : occAck[n] = "error"
          /\ \A n \in Written \ Finished : occAck[n] = "completed" => n \in wins
          /\ \A n \in Written \ Finished : occAck[n] = "error" => n \in fails
          /\ occ' = [n \in Occs |-> IF n \in wins THEN "completed" ELSE IF n \in fails THEN "failed" ELSE occ[n]]
          /\ spins' = IF wins # {} THEN 0 ELSE spins + Cardinality(fails \cap recurs)
    BY <1>6, SyncsDo DEF TsTypeOK
  <2>2. /\ UNCHANGED <<creating, taskHome, recurs, extra, occAck, runner, snapshot, order, killed, doubled, tsCrashes>>
        /\ sweepAt' \in {"wake", "reset"} /\ sweepAt = "idle" /\ taskHome = "active"
    BY <1>6 DEF SweepSyncsRuns
  <2>3. SUFFICES ASSUME ~doubled, spins' >= FailCap + Cardinality(extra)
                 PROVE  (recurs \cap Finished # {} \/ Alive = {} \/ \E p \in Alive : StaysDue(p))'
    BY <2>2 DEF SpinsStop
  <2>4. wins = {} /\ spins' = spins + Cardinality(fails \cap recurs)
    BY <2>1, <2>3, Counts
  <2>5. CASE fails \cap recurs # {}
    BY <2>1, <2>2, <2>4, <2>5
  <2>6. CASE fails \cap recurs = {}
    <3>1. spins' = spins
      BY <2>4, <2>6, Counts, FS_EmptySet
    <3>2. recurs \cap Finished # {} \/ Alive = {} \/ \E p \in Alive : StaysDue(p)
      BY <2>3, <3>1 DEF SpinInv, SpinsStop
    <3> QED
      BY <2>1, <2>2, <2>4, <3>2 DEF StaysDue
  <2> QED
    BY <2>5, <2>6
<1>7. CASE SweepWakesRunner
  BY <1>7 DEF TsTypeOK, SpinInv, SpinsStop, StaysDue, SweepWakesRunner
<1>8. CASE SweepResets
  <2>1. PICK spent \in SUBSET Occs :
          /\ \A n \in spent : occ[n] = "pending" /\ occAck[n] = "processing"
          /\ occ' = OccsEnd(spent, "failed")
          /\ spins' = spins + Cardinality(spent \cap recurs)
    BY <1>8, ResetsDo DEF TsTypeOK
  <2>2. /\ UNCHANGED <<creating, taskHome, recurs, extra, order, killed, doubled, tsCrashes>>
        /\ sweepAt' = "rearm" /\ snapshot' = {n \in recurs : occ'[n] \in {"completed", "failed"}}
        /\ runner' \in {runner, FALSE}
        /\ occAck' \in {occAck, [n \in Occs |-> IF occAck[n] = "processing" THEN "none" ELSE occAck[n]]}
    BY <1>8 DEF SweepResets
  <2>3. SUFFICES ASSUME ~doubled, spins' >= FailCap + Cardinality(extra)
                 PROVE  (recurs \cap Finished # {} \/ Alive = {} \/ \E p \in Alive : StaysDue(p))'
    BY <2>2 DEF SpinsStop
  <2>4. CASE spent \cap recurs # {}
    BY <2>1, <2>2, <2>4 DEF OccsEnd
  <2>5. CASE spent \cap recurs = {}
    <3>1. spins' = spins
      BY <2>1, <2>5, Counts, FS_EmptySet
    <3>2. recurs \cap Finished # {} \/ Alive = {} \/ \E p \in Alive : StaysDue(p)
      BY <2>3, <3>1 DEF SpinInv, SpinsStop
    <3>3. \A p \in Alive : StaysDue(p) => p \notin spent /\ occAck'[p] = "none"
      BY <2>1, <2>2 DEF StaysDue
    <3> QED
      BY <2>1, <2>2, <3>2, <3>3 DEF StaysDue, OccsEnd
  <2> QED
    BY <2>4, <2>5
<1>9. ASSUME NEW n \in Occs, Rearm(n) PROVE SpinsStop'
  <2>1. PICK new \in Occs :
          /\ occ' = [occ EXCEPT ![new] = RearmAs] /\ occ[new] = "none"
          /\ ~doubled => recurs' = {new}
          /\ UNCHANGED <<extra, occAck, doubled, spins>>
    BY <1>9, RearmDoes DEF hist
  <2>2. SUFFICES ASSUME ~doubled, spins >= FailCap + Cardinality(extra) PROVE (\E p \in Alive : StaysDue(p))'
    BY <2>1 DEF SpinsStop
  <2>3. Streak >= FailCap
    BY <2>2, Counts, StreakIsFailedRow DEF SpinInv, SpinsInStreak
  <2>4. occ'[new] = "paused" /\ occAck'[new] = "none" /\ recurs' = {new}
    BY <2>1, <2>2, <2>3 DEF RearmAs, TsTypeOK, RowInv, RowsFirst
  <2> QED
    BY <2>4 DEF StaysDue
<1>10. CASE SweepCollects
  BY <1>10 DEF TsTypeOK, SpinInv, SpinsStop, StaysDue, SweepCollects
<1>11. CASE SweepCloses
  BY <1>11 DEF TsTypeOK, SpinInv, SpinsStop, StaysDue, SweepCloses
<1>12. ASSUME NEW k \in Orders, NEW what \in Whats, FindSeries(k, what) PROVE SpinsStop'
  BY <1>12 DEF TsTypeOK, SpinInv, SpinsStop, StaysDue, FindSeries
<1>13. ASSUME NEW k \in Orders, Pause(k) PROVE SpinsStop'
  BY <1>13 DEF TsTypeOK, SpinInv, SpinsStop, StaysDue, Pause
<1>14. ASSUME NEW k \in Orders, Resume(k) PROVE SpinsStop'
  <2>1. spins' = 0 /\ extra' \subseteq Occs
    BY <1>14 DEF TsTypeOK, Resume
  <2>2. Cardinality(extra') \in Nat
    BY <2>1, OccsCount
  <2> QED
    BY <2>1, <2>2, Counts DEF SpinsStop
<1>15. ASSUME NEW k \in Orders, Cancel(k) PROVE SpinsStop'
  BY <1>15 DEF TsTypeOK, SpinInv, SpinsStop, StaysDue, Cancel
<1>16. ASSUME NEW k \in Orders, Delete(k) PROVE SpinsStop'
  <2>1. spins' = 0 /\ extra' \subseteq Occs
    BY <1>16 DEF TsTypeOK, Delete
  <2>2. Cardinality(extra') \in Nat
    BY <2>1, OccsCount
  <2> QED
    BY <2>1, <2>2, Counts DEF SpinsStop
<1>17. ASSUME NEW k \in Orders, RunNow(k) PROVE SpinsStop'
  <2>1. spins' = 0 /\ extra' \subseteq Occs
    BY <1>17 DEF TsTypeOK, RunNow
  <2>2. Cardinality(extra') \in Nat
    BY <2>1, OccsCount
  <2> QED
    BY <2>1, <2>2, Counts DEF SpinsStop
<1>18. ASSUME NEW k \in Orders, UpdateRecurrence(k) PROVE SpinsStop'
  <2>1. /\ UNCHANGED <<occ, extra, occAck, spins>>
        /\ \/ /\ recurs' = recurs \cup Alive
              /\ ~doubled' => ~doubled /\ (Alive = {} \/ AtMostOne(recurs'))
           \/ recurs' = recurs \ Alive /\ UNCHANGED doubled
    BY <1>18, UpdateDoes DEF TsTypeOK
  <2> QED
    BY <2>1 DEF SpinInv, SpinsStop, StaysDue, AtMostOne
<1>19. CASE SeriesCrash
  <2>1. UNCHANGED <<extra, occAck, spins>> /\ (UNCHANGED <<occ, recurs, doubled>> \/ doubled')
    BY <1>19, CrashDoes DEF TsTypeOK
  <2> QED
    BY <2>1 DEF SpinInv, SpinsStop, StaysDue
<1>20. CASE UNCHANGED seriesVars
  BY <1>20 DEF TsTypeOK, SpinInv, SpinsStop, StaysDue, seriesVars
<1> QED
  BY <1>1, <1>2, <1>3, <1>4, <1>5, <1>6, <1>7, <1>8, <1>9, <1>10, <1>11, <1>12, <1>13, <1>14,
     <1>15, <1>16, <1>17, <1>18, <1>19, <1>20 DEF NextSeries, SeriesSweep, OrderStep

\* A broken series is paused.
LEMMA PauseStep == TsInv /\ [NextSeries]_seriesVars => FailuresPause'
<1> SUFFICES ASSUME TsInv, [NextSeries]_seriesVars PROVE FailuresPause'
  OBVIOUS
<1> USE SeriesConstants DEF TsInv, hist, Alive, Finished, Written, Unwritten, Fresh, Given,
   Restatus, SpentSession, RearmAs, Spun, Occs
<1>1. CASE CreateTaskSession
  BY <1>1 DEF SpinInv, FailuresPause, CreateTaskSession
<1>2. CASE CreateFirst
  <2>1. spins' = 0 /\ extra' = extra
    BY <1>2 DEF CreateFirst, RowInv, NotYetCreated
  <2> QED
    BY <2>1, Counts DEF FailuresPause
<1>3. ASSUME NEW n \in Occs, Claim(n) PROVE FailuresPause'
  BY <1>3 DEF SpinInv, FailuresPause, Claim
<1>4. ASSUME NEW n \in Occs, FinishRun(n) PROVE FailuresPause'
  BY <1>4 DEF SpinInv, FailuresPause, FinishRun
<1>5. CASE RunnerStops
  BY <1>5 DEF SpinInv, FailuresPause, RunnerStops
<1>6. CASE SweepSyncsRuns
  <2>1. PICK wins, fails \in SUBSET (Written \ Finished) :
          /\ \A n \in wins : occAck[n] = "completed"
          /\ \A n \in fails : occAck[n] = "error"
          /\ \A n \in Written \ Finished : occAck[n] = "completed" => n \in wins
          /\ \A n \in Written \ Finished : occAck[n] = "error" => n \in fails
          /\ occ' = [n \in Occs |-> IF n \in wins THEN "completed" ELSE IF n \in fails THEN "failed" ELSE occ[n]]
          /\ spins' = IF wins # {} THEN 0 ELSE spins + Cardinality(fails \cap recurs)
    BY <1>6, SyncsDo DEF TsTypeOK
  <2>2. /\ UNCHANGED <<creating, taskHome, recurs, extra, occAck, runner, snapshot, order, killed, doubled, tsCrashes>>
        /\ sweepAt' \in {"wake", "reset"} /\ sweepAt = "idle" /\ taskHome = "active"
    BY <1>6 DEF SweepSyncsRuns
  <2>3. SUFFICES ASSUME ~doubled PROVE spins' <= FailCap + Cardinality(extra)
    BY <2>2 DEF FailuresPause
  <2>4. CASE wins # {}
    BY <2>1, <2>4, Counts
  <2>5. CASE wins = {} /\ fails \cap recurs = {}
    <3>1. Cardinality(fails \cap recurs) = 0
      BY <2>5, FS_EmptySet
    <3> QED
      BY <2>1, <2>3, <2>5, <3>1, Counts DEF SpinInv, FailuresPause
  <2>6. CASE wins = {} /\ fails \cap recurs # {}
    <3>1. fails \subseteq Written \ Finished /\ \A n \in fails : occAck[n] # "none"
      BY <2>1
    <3> QED
      BY <2>1, <2>3, <2>6, <3>1, FailureIsWithinCap
  <2> QED
    BY <2>4, <2>5, <2>6
<1>7. CASE SweepWakesRunner
  BY <1>7 DEF SpinInv, FailuresPause, SweepWakesRunner
<1>8. CASE SweepResets
  <2>1. PICK spent \in SUBSET Occs :
          /\ \A n \in spent : occ[n] = "pending" /\ occAck[n] = "processing"
          /\ occ' = OccsEnd(spent, "failed")
          /\ spins' = spins + Cardinality(spent \cap recurs)
    BY <1>8, ResetsDo DEF TsTypeOK
  <2>2. /\ UNCHANGED <<creating, taskHome, recurs, extra, order, killed, doubled, tsCrashes>>
        /\ sweepAt' = "rearm" /\ snapshot' = {n \in recurs : occ'[n] \in {"completed", "failed"}}
        /\ runner' \in {runner, FALSE}
        /\ occAck' \in {occAck, [n \in Occs |-> IF occAck[n] = "processing" THEN "none" ELSE occAck[n]]}
    BY <1>8 DEF SweepResets
  <2>3. SUFFICES ASSUME ~doubled PROVE spins' <= FailCap + Cardinality(extra)
    BY <2>2 DEF FailuresPause
  <2>4. CASE spent \cap recurs = {}
    BY <2>1, <2>3, <2>4, Counts, FS_EmptySet DEF SpinInv, FailuresPause
  <2>5. CASE spent \cap recurs # {}
    <3>1. spent \subseteq Written \ Finished /\ \A n \in spent : occAck[n] # "none"
      BY <2>1
    <3> QED
      BY <2>1, <2>3, <2>5, <3>1, FailureIsWithinCap
  <2> QED
    BY <2>4, <2>5
<1>9. ASSUME NEW n \in Occs, Rearm(n) PROVE FailuresPause'
  BY <1>9 DEF SpinInv, FailuresPause, Rearm
<1>10. CASE SweepCollects
  BY <1>10 DEF SpinInv, FailuresPause, SweepCollects
<1>11. CASE SweepCloses
  BY <1>11 DEF SpinInv, FailuresPause, SweepCloses
<1>12. ASSUME NEW k \in Orders, NEW what \in Whats, FindSeries(k, what) PROVE FailuresPause'
  BY <1>12 DEF SpinInv, FailuresPause, FindSeries
<1>13. ASSUME NEW k \in Orders, Pause(k) PROVE FailuresPause'
  BY <1>13 DEF SpinInv, FailuresPause, Pause
<1>14. ASSUME NEW k \in Orders, Resume(k) PROVE FailuresPause'
  <2>1. spins' = 0 /\ extra' \subseteq Occs
    BY <1>14 DEF TsTypeOK, Resume
  <2>2. Cardinality(extra') \in Nat
    BY <2>1, OccsCount
  <2> QED
    BY <2>1, <2>2, Counts DEF FailuresPause
<1>15. ASSUME NEW k \in Orders, Cancel(k) PROVE FailuresPause'
  BY <1>15 DEF SpinInv, FailuresPause, Cancel
<1>16. ASSUME NEW k \in Orders, Delete(k) PROVE FailuresPause'
  <2>1. spins' = 0 /\ extra' \subseteq Occs
    BY <1>16 DEF TsTypeOK, Delete
  <2>2. Cardinality(extra') \in Nat
    BY <2>1, OccsCount
  <2> QED
    BY <2>1, <2>2, Counts DEF FailuresPause
<1>17. ASSUME NEW k \in Orders, RunNow(k) PROVE FailuresPause'
  <2>1. spins' = 0 /\ extra' \subseteq Occs
    BY <1>17 DEF TsTypeOK, RunNow
  <2>2. Cardinality(extra') \in Nat
    BY <2>1, OccsCount
  <2> QED
    BY <2>1, <2>2, Counts DEF FailuresPause
<1>18. ASSUME NEW k \in Orders, UpdateRecurrence(k) PROVE FailuresPause'
  <2>1. UNCHANGED <<extra, spins>> /\ (doubled => doubled')
    BY <1>18, UpdateDoes DEF TsTypeOK
  <2> QED
    BY <2>1 DEF SpinInv, FailuresPause
<1>19. CASE SeriesCrash
  <2>1. UNCHANGED <<extra, spins>> /\ (doubled => doubled')
    BY <1>19, CrashDoes DEF TsTypeOK
  <2> QED
    BY <2>1 DEF SpinInv, FailuresPause
<1>20. CASE UNCHANGED seriesVars
  BY <1>20 DEF SpinInv, FailuresPause, seriesVars
<1> QED
  BY <1>1, <1>2, <1>3, <1>4, <1>5, <1>6, <1>7, <1>8, <1>9, <1>10, <1>11, <1>12, <1>13, <1>14,
     <1>15, <1>16, <1>17, <1>18, <1>19, <1>20 DEF NextSeries, SeriesSweep, OrderStep

-----------------------------------------------------------------------------
(* The theorems.                                                           *)

\* The initial states satisfy the invariant.
LEMMA TsInit == InitSeries => TsInv
<1> SUFFICES ASSUME InitSeries PROVE TsInv
  OBVIOUS
<1> USE SeriesConstants DEF InitSeries, Occs, Alive, Finished, Written
<1>1. TsTypeOK
  BY DEF TsTypeOK, Whats
<1>2. RowInv
  BY DEF RowInv, NotYetCreated, RowsFirst, RecursIsArmed
<1>3. ReadInv /\ CloseInv
  BY DEF ReadInv, ReadWhenRearming, ReadIsFinished, ReadAll, DeletedIsEmpty, OneRecurs, AtMostOne,
     DeadIsDead,
     CloseInv, ClosedIsIdle, ClosedHasExtras
<1>4. NewestAlive /\ RecursIsScheduled
  BY DEF NewestAlive, RecursIsScheduled, Scheduled
<1>5. Cardinality(LowAlive) = 0 /\ Cardinality(FailedRow) = 0 /\ Cardinality(extra) = 0
  <2>1. LowAlive = {} /\ FailedRow = {} /\ extra = {}
    BY DEF LowAlive, FailedRow
  <2> QED
    BY <2>1, FS_EmptySet
<1>6. SpinsInStreak /\ SpinsStop /\ FailuresPause
  BY <1>5 DEF SpinsInStreak, SpinsStop, FailuresPause
<1> QED
  BY <1>1, <1>2, <1>3, <1>4, <1>6 DEF TsInv, SpinInv

\* The invariant is inductive.
LEMMA TsStep == TsInv /\ [NextSeries]_seriesVars => TsInv'
<1> SUFFICES ASSUME TsInv, [NextSeries]_seriesVars PROVE TsInv'
  OBVIOUS
<1>1. TsTypeOK' /\ RowInv'
  BY TsTypeStep, NotYetCreatedStep, RowsFirstStep, RecursIsArmedStep DEF RowInv
<1>2. ReadInv'
  BY ReadWhenRearmingStep, ReadIsFinishedStep, ReadAllStep, DeletedIsEmptyStep, OneRecursStep,
     DeadIsDeadStep
  DEF ReadInv
<1>3. CloseInv'
  BY ClosedIsIdleStep, ClosedHasExtrasStep DEF CloseInv
<1>4. SpinInv'
  BY NewestAliveStep, RecursIsScheduledStep, SpinsStep, StopStep, PauseStep DEF SpinInv
<1> QED
  BY <1>1, <1>2, <1>3, <1>4 DEF TsInv

\* The invariant holds in every reachable state, wherever commands, the
\* container and crashes fall between the awaits of the sweep.
THEOREM TsInvariant == SeriesSpec => []TsInv
  BY TsInit, TsStep, PTL DEF SeriesSpec

\* The variables keep their types (messages_in's statuses, recurrence.ts).
THEOREM SeriesTypes == SeriesSpec => []TsTypeOK
  BY TsInvariant, PTL DEF TsInv

\* What the invariant says of a series.
LEMMA TsInvIsSafe == TsInv => SeriesSafety
<1> SUFFICES ASSUME TsInv PROVE SeriesSafety
  OBVIOUS
<1>1. Armed = recurs /\ recurs \subseteq Occs
  BY DEF Armed, TsInv, RowInv, RecursIsArmed, TsTypeOK
<1>2. OneNextRun
  BY <1>1, OccsCount DEF OneNextRun, TsInv, ReadInv, OneRecurs
<1>3. StaysDead /\ NotCollectedEarly
  BY <1>1 DEF StaysDead, NotCollectedEarly, TsInv, ReadInv, DeadIsDead, CloseInv, ClosedHasExtras
<1> QED
  BY <1>2, <1>3 DEF SeriesSafety, TsInv, SpinInv

\* For any number of occurrences and commands and any cap: a series has one
\* next run, stays dead when it was ended, keeps its session while a successor
\* is owed, and does not spin on failures (recurrence.ts:50-91,
\* session-db.ts:181, host-sweep.ts:262-278, db.ts:189-203).
THEOREM SeriesIsSafe == SeriesSpec => []SeriesSafety
<1>1. TsInv => SeriesSafety
  BY TsInvIsSafe
<1> QED
  BY <1>1, TsInvariant, PTL
=============================================================================
