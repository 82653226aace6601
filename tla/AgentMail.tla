----------------------------- MODULE AgentMail -----------------------------
(* Messages between agents (src/modules/agent-to-agent): a row of            *)
(* messages_out for another agent is judged by the guard, held for an        *)
(* approver where a policy stands, and copied into a session of the target   *)
(* group.  A letter may be carried by the delivery drain and, when its hold  *)
(* is approved, by the replay; each await of a pass is a step.               *)
EXTENDS FiniteSets, Naturals, Sequences, Functions

CONSTANTS
  Letters,         \* rows of messages_out with channel_type 'agent'
  Sessions,        \* sessions that exist or may be created
  GroupOf,         \* [Sessions -> agent groups]
  Age,             \* [Sessions -> Nat], created_at
  TaskSessions,    \* sessions of task series
  Voices,          \* [Letters -> sessions that may write it]
  Aims,            \* [Letters -> groups it may be written to]
  NoSession, NoLetter,
  MaxTrials,       \* MAX_DELIVERY_ATTEMPTS
  MaxMailFaults, MaxEdits

ASSUME AgentMailAssumption ==
  /\ NoSession \notin Sessions /\ NoLetter \notin Letters /\ TaskSessions \subseteq Sessions
  /\ IsFiniteSet(Letters) /\ IsFiniteSet(Sessions)
  /\ Voices \in [Letters -> SUBSET Sessions] /\ DOMAIN GroupOf = Sessions
  /\ Aims \in [Letters -> SUBSET {GroupOf[s] : s \in Sessions}]
  /\ MaxTrials \in Nat \ {0} /\ MaxMailFaults \in Nat /\ MaxEdits \in Nat

VARIABLES
  edges,           \* agent_destinations, pairs of groups
  gates,           \* agent_message_policies, pairs of groups
  opened,          \* sessions created so far
  active,          \* those of them with status 'active'
  row,             \* [Letters -> where its row of messages_out stands]
  from, to, ref,   \* [Letters -> sender session, target group, in_reply_to]
  trials,          \* [Letters -> failed attempts, in memory]
  holds,           \* [Letters -> pending approvals]
  carry,           \* [Passes -> where the pass stands]
  pick,            \* [Passes -> origin session, then the target session]
  copies,          \* [Sessions -> sequence of letters copied into its inbound.db]
  permitted,       \* passes in whose time the edge has existed (history)
  ungated,         \* passes in whose time no policy stood (history)
  mailFaults, edits

mailVars == <<edges, gates, opened, active, row, from, to, ref, trials, holds, carry, pick,
              copies, permitted, ungated, mailFaults, edits>>

Passes == Letters \X {"drain", "replay"}
Groups == {GroupOf[s] : s \in Sessions}
Pairs == Groups \X Groups
Steps == {"idle", "guard", "policy", "hold", "origin", "resolve", "write", "end", "mark"}
AmTypeOK ==
  /\ edges \subseteq Pairs /\ gates \subseteq Pairs
  /\ active \subseteq opened /\ opened \subseteq Sessions
  /\ row \in [Letters -> {"never", "unsent", "out", "done", "failed"}]
  /\ from \in [Letters -> Sessions \cup {NoSession}] /\ to \in [Letters -> Groups \cup {NoSession}]
  /\ ref \in [Letters -> Letters \cup {NoLetter}]
  /\ \A l \in Letters : row[l] \notin {"never", "unsent"} => to[l] \in Aims[l] /\ from[l] \in Voices[l]
  /\ trials \in [Letters -> 0 .. MaxTrials] /\ holds \in [Letters -> 0 .. 1 + MaxMailFaults]
  /\ carry \in [Passes -> Steps] /\ pick \in [Passes -> Sessions \cup {NoSession}]
  /\ copies \in [Sessions -> Seq(Letters)]
  /\ permitted \cup ungated \subseteq Passes
  /\ mailFaults \in 0 .. MaxMailFaults /\ edits \in 0 .. MaxEdits

InitMail ==
  /\ edges = Pairs /\ gates \in {{e} : e \in Pairs} \cup {{}}
  /\ opened \in SUBSET Sessions /\ active = opened
  /\ row \in [Letters -> {"never", "unsent"}]
  /\ from = [l \in Letters |-> NoSession] /\ to = [l \in Letters |-> NoSession]
  /\ ref = [l \in Letters |-> NoLetter]
  /\ trials = [l \in Letters |-> 0] /\ holds = [l \in Letters |-> 0]
  /\ carry = [p \in Passes |-> "idle"] /\ pick = [p \in Passes |-> NoSession]
  /\ copies = [s \in Sessions |-> <<>>]
  /\ permitted = {} /\ ungated = {}
  /\ mailFaults \in 0 .. MaxMailFaults /\ edits \in 0 .. MaxEdits

(***************************************************************************)
(* A pass of a letter                                                      *)
(***************************************************************************)
Drain(l) == <<l, "drain">>
Replay(l) == <<l, "replay">>
Moved(p, s) == carry' = [carry EXCEPT ![p] = s]
Edge(l) == <<GroupOf[from[l]], to[l]>>
ToSelf(l) == GroupOf[from[l]] = to[l]
Begun(p) ==
  /\ Moved(p, "guard")
  /\ permitted' = IF Edge(p[1]) \in edges THEN permitted \cup {p} ELSE permitted \ {p}
  /\ ungated' = IF Edge(p[1]) \in gates THEN ungated \ {p} ELSE ungated \cup {p}

\* The agent writes the letter; a reply names a letter in its own inbound.db.
WriteLetter(l) ==
  /\ row[l] = "unsent" /\ row' = [row EXCEPT ![l] = "out"]
  /\ \E s \in Voices[l] \cap active, g \in Aims[l] :
       /\ from' = [from EXCEPT ![l] = s] /\ to' = [to EXCEPT ![l] = g]
       /\ \E r \in Range(copies[s]) \cup {NoLetter} : ref' = [ref EXCEPT ![l] = r]
  /\ UNCHANGED <<edges, gates, opened, active, trials, holds, carry, pick, copies, permitted,
                 ungated, mailFaults, edits>>

\* drainSession: one letter of a session at a time, and only of an active session.
TakeLetter(l) ==
  /\ row[l] = "out" /\ carry[Drain(l)] = "idle" /\ from[l] \in active
  /\ \A k \in Letters : from[k] = from[l] => carry[Drain(k)] = "idle"
  /\ Begun(Drain(l))
  /\ UNCHANGED <<edges, gates, opened, active, row, from, to, ref, trials, holds, pick,
                 copies, mailFaults, edits>>

\* a2aSend.decide reads the destination first, for a replay as well.
MayPassBug(p) == p[2] = "replay" \/ Edge(p[1]) \in edges
MayPass(p) == ToSelf(p[1]) \/ Edge(p[1]) \in edges

\* A denial of a drained letter throws: it is tried again, and given up at the limit.
\* A denied replay is told to the agent and over.
Thrown(p) ==
  IF p[2] = "replay" THEN Moved(p, "end") /\ UNCHANGED <<trials, row>>
  ELSE /\ Moved(p, "idle")
       /\ trials' = [trials EXCEPT ![p[1]] = @ + 1]
       /\ row' = IF trials[p[1]] + 1 < MaxTrials THEN row ELSE [row EXCEPT ![p[1]] = "failed"]

JudgeEdge(p) ==
  /\ carry[p] = "guard"
  /\ IF MayPass(p) THEN Moved(p, IF ToSelf(p[1]) THEN "origin" ELSE "policy") /\ UNCHANGED <<trials, row>>
     ELSE Thrown(p)
  /\ UNCHANGED <<edges, gates, opened, active, from, to, ref, holds, pick, copies, permitted,
                 ungated, mailFaults, edits>>

\* ... then the policy, which holds a letter unless the pass carries the grant; the row
\* of the approval lives until the replay is over, so the grant is good.
MustHold(p) == Edge(p[1]) \in gates /\ p[2] = "drain"
JudgePolicy(p) ==
  /\ carry[p] = "policy"
  /\ Moved(p, IF MustHold(p) THEN "hold" ELSE "origin")
  /\ UNCHANGED <<edges, gates, opened, active, row, from, to, ref, trials, holds, pick,
                 copies, permitted, ungated, mailFaults, edits>>

\* requestApproval: the hold is recorded, or nobody can be asked and the agent is told.
Hold(p) ==
  /\ carry[p] = "hold" /\ Moved(p, "mark")
  /\ holds' = [holds EXCEPT ![p[1]] = @ + 1] \/ UNCHANGED holds
  /\ UNCHANGED <<edges, gates, opened, active, row, from, to, ref, trials, pick, copies,
                 permitted, ungated, mailFaults, edits>>

\* resolveTargetSession: the session that wrote the letter this one answers, else the
\* one the peer last wrote from ...
FromPeer(s, g) == {i \in DOMAIN copies[s] : GroupOf[from[copies[s][i]]] = g}
LastFrom(s, g) == {i \in FromPeer(s, g) : \A j \in FromPeer(s, g) : j <= i}
Origins(l) ==
  IF ref[l] # NoLetter THEN {from[ref[l]]}
  ELSE IF FromPeer(from[l], to[l]) = {} THEN {NoSession}
  ELSE {from[copies[from[l]][i]] : i \in LastFrom(from[l], to[l])}

ReadOrigin(p) ==
  /\ carry[p] = "origin" /\ Moved(p, "resolve")
  /\ \E s \in Origins(p[1]) : pick' = [pick EXCEPT ![p] = s]
  /\ UNCHANGED <<edges, gates, opened, active, row, from, to, ref, trials, holds, copies,
                 permitted, ungated, mailFaults, edits>>

\* ... if that is an active session of the target group; else the newest active one of
\* the group that serves no task, or a new one (resolveSession, agent-shared).
Suits(s, g) == s \in active /\ GroupOf[s] = g
Shared(g) == {s \in active \ TaskSessions : GroupOf[s] = g}
Latest(S) == {s \in S : \A r \in S : Age[r] <= Age[s]}
Unopened(g) == {s \in Sessions \ (opened \cup TaskSessions) : GroupOf[s] = g}

ResolveTarget(p) ==
  /\ carry[p] = "resolve" /\ Moved(p, "write")
  /\ \/ /\ Suits(pick[p], to[p[1]])
        /\ UNCHANGED <<pick, opened, active>>
     \/ /\ ~Suits(pick[p], to[p[1]])
        /\ \E s \in IF Shared(to[p[1]]) # {} THEN Latest(Shared(to[p[1]])) ELSE Unopened(to[p[1]]) :
             /\ pick' = [pick EXCEPT ![p] = s]
             /\ opened' = opened \cup {s} /\ active' = active \cup {s}
  /\ UNCHANGED <<edges, gates, row, from, to, ref, trials, holds, copies, permitted, ungated,
                 mailFaults, edits>>

\* The copy is written under an id of its own; its source_session_id is the sender.
WriteCopy(p) ==
  /\ carry[p] = "write"
  /\ Moved(p, IF p[2] = "drain" THEN "mark" ELSE "end")
  /\ copies' = [copies EXCEPT ![pick[p]] = Append(@, p[1])]
  /\ UNCHANGED <<edges, gates, opened, active, row, from, to, ref, trials, holds, pick,
                 permitted, ungated, mailFaults, edits>>

\* markDelivered.
MarkLetter(l) ==
  /\ carry[Drain(l)] = "mark" /\ Moved(Drain(l), "idle")
  /\ row' = [row EXCEPT ![l] = "done"]
  /\ UNCHANGED <<edges, gates, opened, active, from, to, ref, trials, holds, pick, copies,
                 permitted, ungated, mailFaults, edits>>

\* What follows the copy or the hold throws: the drain tries again, copy and all.
MarkFails(l) ==
  /\ carry[Drain(l)] = "mark" /\ mailFaults < MaxMailFaults /\ mailFaults' = mailFaults + 1
  /\ Thrown(Drain(l))
  /\ UNCHANGED <<edges, gates, opened, active, from, to, ref, holds, pick, copies, permitted,
                 ungated, edits>>

\* The approver decides: a rejected hold is gone, an approved one is replayed
\* (response-handler: compare-and-set, then the handler).
DecideHold(l) ==
  /\ holds[l] > 0 /\ holds' = [holds EXCEPT ![l] = @ - 1]
  /\ \/ carry[Replay(l)] = "idle" /\ Begun(Replay(l))
     \/ UNCHANGED <<carry, permitted, ungated>>
  /\ UNCHANGED <<edges, gates, opened, active, row, from, to, ref, trials, pick, copies,
                 mailFaults, edits>>

\* The handler returned; the row of the approval is deleted.
EndReplay(l) ==
  /\ carry[Replay(l)] = "end" /\ Moved(Replay(l), "idle")
  /\ UNCHANGED <<edges, gates, opened, active, row, from, to, ref, trials, holds, pick, copies,
                 permitted, ungated, mailFaults, edits>>

(***************************************************************************)
(* Around it                                                               *)
(***************************************************************************)
Sent == {l \in Letters : from[l] # NoSession}
Running == {p \in Passes : carry[p] # "idle"}
On(e) == {p \in Running : Edge(p[1]) = e}

\* ncl destinations add and remove, ncl policies set and remove; only of edges that a
\* letter is written to cross.
Edit(e) ==
  /\ edits < MaxEdits /\ edits' = edits + 1
  /\ \/ /\ e \in edges /\ edges' = edges \ {e} /\ UNCHANGED <<gates, permitted, ungated>>
     \/ /\ e \notin edges /\ edges' = edges \cup {e} /\ permitted' = permitted \cup On(e)
        /\ UNCHANGED <<gates, ungated>>
     \/ /\ e \notin gates /\ gates' = gates \cup {e} /\ UNCHANGED <<edges, permitted, ungated>>
     \/ /\ e \in gates /\ gates' = gates \ {e} /\ ungated' = ungated \cup On(e)
        /\ UNCHANGED <<edges, permitted>>
  /\ UNCHANGED <<opened, active, row, from, to, ref, trials, holds, carry, pick, copies, mailFaults>>

\* The sweep closes the session of a spent task.
CloseTask(s) ==
  /\ s \in active \cap TaskSessions /\ active' = active \ {s}
  /\ UNCHANGED <<edges, gates, opened, row, from, to, ref, trials, holds, carry, pick, copies,
                 permitted, ungated, mailFaults, edits>>

\* The host dies: passes and counters are in memory, a claimed approval stays behind.
MailHostDies ==
  /\ mailFaults < MaxMailFaults /\ mailFaults' = mailFaults + 1
  /\ carry' = [p \in Passes |-> "idle"] /\ trials' = [l \in Letters |-> 0]
  /\ UNCHANGED <<edges, gates, opened, active, row, from, to, ref, holds, pick, copies,
                 permitted, ungated, edits>>

PassStep(p) ==
  JudgeEdge(p) \/ JudgePolicy(p) \/ Hold(p) \/ ReadOrigin(p) \/ ResolveTarget(p) \/ WriteCopy(p)
Carry(l) == TakeLetter(l) \/ PassStep(Drain(l)) \/ MarkLetter(l)
Grant(l) == DecideHold(l) \/ PassStep(Replay(l)) \/ EndReplay(l)
NextMail ==
  \/ \E l \in Letters : WriteLetter(l) \/ Carry(l) \/ Grant(l) \/ MarkFails(l)
  \/ \E l \in Sent : Edit(Edge(l))
  \/ \E s \in TaskSessions : CloseTask(s)
  \/ MailHostDies
MailSpec == InitMail /\ [][NextMail]_mailVars

(***************************************************************************)
(* Properties                                                              *)
(***************************************************************************)
Past == {p \in Passes : carry[p] \in {"origin", "resolve", "write"} /\ ~ToSelf(p[1])}

\* A letter crosses no edge that was gone for the whole of its pass, even when a human
\* approved it, on a retry, or with a policy left behind (guard.ts).
RevokedStaysOut == Past \subseteq permitted

\* Without an approval a letter crosses no edge whose policy stood for its whole pass.
PolicyHolds == \A p \in Past : p[2] = "drain" => p \in ungated

CopiesOf(l) == {c \in Sessions \X (1 .. Cardinality(Letters) * (1 + MaxMailFaults)) :
                  c[2] \in DOMAIN copies[c[1]] /\ copies[c[1]][c[2]] = l}

\* Each death of the host or failure after the copy adds one copy at most: a hold
\* and its drain, or two holds of one letter, do not each deliver it.
CopiedOnce == \A l \in Letters : Cardinality(CopiesOf(l)) <= 1 + mailFaults

\* Every copy is in a session of the group the letter was written to, whichever letter
\* the sender was answering.
RightGroup == \A l \in Letters : \A c \in CopiesOf(l) : GroupOf[c[1]] = to[l]

\* An answer comes home: while the session that asked is active, the answer is copied
\* there, and nothing but an answer to it reaches the session of a task.
AnswerComesHome ==
  \A l \in Letters : \A c \in CopiesOf(l) :
    /\ ref[l] # NoLetter /\ from[ref[l]] \in active /\ GroupOf[from[ref[l]]] = to[l]
         => c[1] = from[ref[l]]
    /\ c[1] \in TaskSessions => \E k \in Range(copies[from[l]]) : from[k] = c[1]

\* A letter of a session that stays active is delivered, held or given up, if the poll
\* goes on.
Waits(l) == row[l] = "out"
CarriedOut(l) == row[l] \in {"done", "failed"} \/ from[l] \notin active
LettersAreCarried == \A l \in Letters : Waits(l) ~> CarriedOut(l)

MailSafety == RevokedStaysOut /\ PolicyHolds /\ CopiedOnce /\ RightGroup /\ AnswerComesHome
=============================================================================
