-------------------------- MODULE AgentRunnerProofs --------------------------
(***************************************************************************)
(* Proofs about the agent runner: what it takes from its queue, and what   *)
(* it does with it in a turn.                                              *)
(*                                                                         *)
(* InboundQueue, for any rows, containers, cap, tries and faults, with a   *)
(* docker that may refuse: the types, the inductive invariant QInv, and    *)
(* from it the safety invariants and the three properties of steps.        *)
(*                                                                         *)
(* AgentTurn and the text it reads (MidTurnText), for any texts and any    *)
(* way they are cut, any number of prompts, tool calls, denials, repeated  *)
(* results, /clear commands and crashes: the inductive invariant TurnInv,  *)
(* the types, and TurnSafety.  What a text reads as is a recursive         *)
(* function of it; a fact about every text is proved as the membership of  *)
(* every text in the set of those that have it: SeqInduction.              *)
(***************************************************************************)
EXTENDS InboundQueue, AgentTurn, FiniteSetTheorems, SequenceTheorems, WellFoundedInduction, TLAPS

-----------------------------------------------------------------------------
(* The inductive invariant.                                                *)

\* A container has rows in hand only in the phases that take them.
FreshHasNothing ==
  \A c \in Containers :
    /\ phase[c] \in {"down", "booting"} => batch[c] = {} /\ late[c] = {}
    /\ phase[c] = "polling" => batch[c] = {}
    /\ phase[c] # "query" => follow[c] = {} /\ c \notin answered
InHand(c) == batch[c] \cup follow[c] \cup late[c]
HandsTakeNoAnswers == \A c \in Containers : \A m \in InHand(c) : Kind[m] # "system"
HandInv == SingleWorker /\ FreshHasNothing /\ HandsTakeNoAnswers

\* Rows are completed by who served them, and a final ack stays.
QueryWasServed == \A c \in Containers : phase[c] = "query" => batch[c] \subseteq served
CompletedIsAcked == \A m \in Messages : status[m] = "completed" => ack[m] \in Final
\* A row that is owed a retry is in nobody's hands and has no final ack.
OwedIsFree ==
  \A m \in owed : /\ Kind[m] # "system" /\ ack[m] \in {"none", "processing"}
                  /\ \A c \in Containers : m \notin InHand(c)
ServedInv == CompletedWasServed /\ QueryWasServed /\ CompletedIsAcked /\ OwedIsFree

\* A claim that is still running has not been paid for.
ClaimsAreUnpaid == \A m \in Messages : ack[m] = "processing" => tries[m] < takes[m]
TriesInv == TriesPaidByClaims /\ ClaimsAreUnpaid

\* Unless docker misled the host it knows the container that lives, and what
\* that one has in hand is claimed, each row once.
HostKnows == ~misled => \A c \in Containers : Live(c) => tracked = c
HeldOnce ==
  ~misled => \A c \in Containers :
    /\ batch[c] \cap follow[c] = {} /\ batch[c] \cap late[c] = {} /\ follow[c] \cap late[c] = {}
    /\ \A m \in batch[c] : ack[m] \in {"processing", "completed"}
KnownInv == HostKnows /\ WorkersHoldTheirClaims /\ HeldOnce

QInv == TypeOK /\ HandInv /\ ServedInv /\ TriesInv /\ KnownInv

-----------------------------------------------------------------------------
(* What a poller takes.                                                    *)

\* Only rows that are due, have no ack and are no answers are taken.
LEMMA TakeableIsFree ==
  \A m \in Takeable : m \in Messages /\ m \in Unclaimed /\ status[m] = "pending" /\ ack[m] = "none" /\ Kind[m] # "system"
  BY DEF Takeable, Pending, Window, Oldest, Newest, Unclaimed

\* A dying container leaves well-typed files and no process.
LEMMA DiesTypes ==
  ASSUME TypeOK, NEW c \in Containers, Dies(c)
  PROVE  /\ phase' \in [Containers -> Phases] /\ frozen' \in SUBSET Containers /\ owed' \in SUBSET Messages
         /\ answered' \in SUBSET Containers /\ aborted' \in SUBSET Containers
         /\ batch' \in [Containers -> SUBSET Messages] /\ follow' \in [Containers -> SUBSET Messages]
         /\ late' \in [Containers -> SUBSET Messages] /\ pushed' \in [Containers -> SUBSET Messages]
  BY DEF TypeOK, Phases, Dies, Unfinished

\* A reset leaves tries within the limit.
LEMMA ResetTypes ==
  ASSUME TypeOK, NEW now \in [Messages -> {"absent", "pending", "completed", "failed"}], ResetStuck(now)
  PROVE  /\ status' \in [Messages -> {"absent", "pending", "completed", "failed"}] /\ held' \in SUBSET Messages
         /\ tries' \in [Messages -> 0 .. MaxTries] /\ rank' = rank
         /\ ack' \in [Messages -> {"none", "processing", "completed", "error"}]
  BY QueueAssumption DEF TypeOK, ResetStuck, AfterReset, Acked, Claims, Exhausted

\* One more claim is a number of claims.
LEMMA CountedTypes == ASSUME TypeOK, NEW S PROVE Counted(S) \in [Messages -> Nat]
  BY DEF TypeOK, Counted

-----------------------------------------------------------------------------
(* Types.                                                                  *)

\* Every step keeps the types.
LEMMA QueueTypeStep == QInv /\ [Next]_vars => TypeOK'
<1> SUFFICES ASSUME QInv, [Next]_vars PROVE TypeOK'
  OBVIOUS
<1> USE QueueAssumption, TakeableIsFree DEF QInv, inbound, turn, container, host, history, Live,
   Runs, Claims, Acked, Dies, Unfinished, Synced, ResetStuck, AfterReset, Exhausted, Final, TypeOK,
   Phases
<1>1. ASSUME NEW m \in Messages, Arrive(m) PROVE TypeOK'
  <2>1. Cardinality({q \in Messages : status[q] # "absent"}) \in Nat
    BY FS_Subset, FS_CardinalityType
  <2>2. rank' \in [Messages -> Nat]
    BY <1>1, <2>1 DEF Arrive
  <2>3. waking' \in BOOLEAN /\ held' \in SUBSET Messages
    BY <1>1 DEF Arrive
  <2> QED
    BY <1>1, <2>2, <2>3 DEF Arrive
<1>2. ASSUME NEW m \in Messages, Due(m) PROVE TypeOK'
  BY <1>2 DEF Due
<1>3. ASSUME NEW c \in Containers, Spawn(c) PROVE TypeOK'
  BY <1>3 DEF Spawn
<1>4. ASSUME NEW c \in Containers, Boot(c) PROVE TypeOK'
  BY <1>4 DEF Boot
<1>5. ASSUME NEW c \in Containers, Poll(c) PROVE TypeOK'
  <2>1. takes' \in [Messages -> Nat]
    BY <1>5, CountedTypes DEF Poll
  <2>2. ack' \in [Messages -> {"none", "processing", "completed", "error"}]
    BY <1>5 DEF Poll
  <2>3. phase' \in [Containers -> Phases] /\ batch' \in [Containers -> SUBSET Messages]
    BY <1>5 DEF Poll
  <2>4. served' \in SUBSET Messages /\ owed' \in SUBSET Messages /\ beat' \in SUBSET Messages
    BY <1>5 DEF Poll
  <2> QED
    BY <1>5, <2>1, <2>2, <2>3, <2>4 DEF Poll
<1>6. ASSUME NEW c \in Containers, Gate(c) PROVE TypeOK'
  BY <1>6 DEF Gate
<1>7. ASSUME NEW c \in Containers, Result(c) PROVE TypeOK'
  BY <1>7 DEF Result
<1>8. ASSUME NEW c \in Containers, AbortForCommand(c) PROVE TypeOK'
  BY <1>8 DEF AbortForCommand
<1>9. ASSUME NEW c \in Containers, FollowUp(c) PROVE TypeOK'
  <2>1. takes' \in [Messages -> Nat]
    BY <1>9, CountedTypes DEF FollowUp
  <2> QED
    BY <1>9, <2>1 DEF FollowUp
<1>10. ASSUME NEW c \in Containers, Push(c) PROVE TypeOK'
  BY <1>10 DEF Push
<1>11. ASSUME NEW c \in Containers, Strand(c) PROVE TypeOK'
  <2>1. ack' \in [Messages -> {"none", "processing", "completed", "error"}]
    BY <1>11 DEF Strand
  <2>2. served' \in SUBSET Messages
    BY <1>11 DEF Strand, Tasks
  <2>3. late' \in [Containers -> SUBSET Messages]
    BY <1>11 DEF Strand
  <2> QED
    BY <1>11, <2>1, <2>2, <2>3 DEF Strand
<1>12. ASSUME NEW c \in Containers, Heartbeat(c) PROVE TypeOK'
  BY <1>12 DEF Heartbeat
<1>13. ASSUME NEW c \in Containers, EndQuery(c) PROVE TypeOK'
  BY <1>13 DEF EndQuery
<1>14. ASSUME NEW c \in Containers, Crash(c) PROVE TypeOK'
  BY <1>14 DEF Crash
<1>15. ASSUME NEW c \in Containers, Freeze(c) PROVE TypeOK'
  BY <1>15 DEF Freeze
<1>16. ASSUME NEW c \in Containers, NEW m \in Messages, TakeAnswer(c, m) PROVE TypeOK'
  BY <1>16 DEF TakeAnswer
<1>17. CASE WakeFails
  <2>1. /\ faults' \in 0 .. MaxFaults /\ waking' = FALSE
        /\ UNCHANGED <<inbound, ack, beat, tracked, sweep, served, takes, misled>>
    BY <1>17 DEF WakeFails
  <2>2. CASE UNCHANGED <<container, owed>>
    BY <2>1, <2>2
  <2>3. ASSUME NEW c \in Containers, Dies(c) PROVE TypeOK'
    <3> HIDE DEF Dies
    <3> QED
      BY <2>1, <2>3, DiesTypes
  <2> QED
    BY <1>17, <2>2, <2>3 DEF WakeFails
<1>18. CASE Finish
  BY <1>18 DEF Finish
<1>19. CASE HostRestart
  <2>1. tracked' \in Containers \cup {NoContainer} /\ misled' \in BOOLEAN
    BY <1>19 DEF HostRestart, Adopted
  <2>2. /\ faults' \in 0 .. MaxFaults /\ waking' = FALSE /\ sweep' = "idle"
        /\ UNCHANGED <<inbound, ack, beat, container, served, owed, takes>>
    BY <1>19 DEF HostRestart
  <2> QED
    BY <2>1, <2>2
<1>20. CASE SweepWakes
  BY <1>20 DEF SweepWakes
<1>21. CASE SweepWoke
  BY <1>21 DEF SweepWoke
<1>22. CASE SweepCleans
  BY <1>22 DEF SweepCleans
<1>23. CASE SweepSyncs
  BY <1>23 DEF SweepSyncs
<1>24. CASE SweepKills
  <2>1. Synced \in [Messages -> {"absent", "pending", "completed", "failed"}] /\ ResetStuck(Synced)
    BY <1>24 DEF SweepKills
  <2>2. /\ status' \in [Messages -> {"absent", "pending", "completed", "failed"}] /\ held' \in SUBSET Messages
        /\ tries' \in [Messages -> 0 .. MaxTries] /\ rank' = rank
        /\ ack' \in [Messages -> {"none", "processing", "completed", "error"}]
    <3> HIDE DEF ResetStuck, Synced
    <3> QED
      BY <2>1, ResetTypes
  <2>3. faults' \in 0 .. MaxFaults /\ UNCHANGED <<beat, host, served, takes, misled>>
    BY <1>24 DEF SweepKills
  <2>4. CASE UNCHANGED <<container, owed>>
    BY <2>2, <2>3, <2>4
  <2>5. CASE tracked \in Containers /\ Dies(tracked)
    <3> HIDE DEF Dies
    <3> QED
      BY <2>2, <2>3, <2>5, DiesTypes
  <2> QED
    BY <1>24, <2>4, <2>5 DEF SweepKills
<1>25. CASE SweepKillRefused
  BY <1>25 DEF SweepKillRefused
<1>26. CASE UNCHANGED vars
  BY <1>26 DEF vars
<1> QED
  BY <1>1, <1>2, <1>3, <1>4, <1>5, <1>6, <1>7, <1>8, <1>9, <1>10, <1>11, <1>12, <1>13, <1>14,
     <1>15, <1>16, <1>17, <1>18, <1>19, <1>20, <1>21, <1>22, <1>23, <1>24, <1>25, <1>26 DEF Next,
     Turn, Sweep

-----------------------------------------------------------------------------
(* What a container has in hand.                                           *)

\* A session's container is found by its name before another is started.
LEMMA SingleWorkerStep == QInv /\ [Next]_vars => SingleWorker'
<1> SUFFICES ASSUME QInv, [Next]_vars PROVE SingleWorker'
  OBVIOUS
<1> USE QueueAssumption, TakeableIsFree DEF QInv, inbound, turn, container, host, history, Live,
   Runs, Claims, Acked, Dies, Unfinished, Synced, ResetStuck, AfterReset, Exhausted, Final, TypeOK,
   Phases, HandInv, SingleWorker, Startable
<1>1. ASSUME NEW m \in Messages, Arrive(m) PROVE SingleWorker'
  BY <1>1 DEF Arrive
<1>2. ASSUME NEW m \in Messages, Due(m) PROVE SingleWorker'
  BY <1>2 DEF Due
<1>3. ASSUME NEW c \in Containers, Spawn(c) PROVE SingleWorker'
  BY <1>3 DEF Spawn
<1>4. ASSUME NEW c \in Containers, Boot(c) PROVE SingleWorker'
  BY <1>4 DEF Boot
<1>5. ASSUME NEW c \in Containers, Poll(c) PROVE SingleWorker'
  BY <1>5 DEF Poll
<1>6. ASSUME NEW c \in Containers, Gate(c) PROVE SingleWorker'
  BY <1>6 DEF Gate
<1>7. ASSUME NEW c \in Containers, Result(c) PROVE SingleWorker'
  BY <1>7 DEF Result
<1>8. ASSUME NEW c \in Containers, AbortForCommand(c) PROVE SingleWorker'
  BY <1>8 DEF AbortForCommand
<1>9. ASSUME NEW c \in Containers, FollowUp(c) PROVE SingleWorker'
  BY <1>9 DEF FollowUp
<1>10. ASSUME NEW c \in Containers, Push(c) PROVE SingleWorker'
  BY <1>10 DEF Push
<1>11. ASSUME NEW c \in Containers, Strand(c) PROVE SingleWorker'
  BY <1>11 DEF Strand
<1>12. ASSUME NEW c \in Containers, Heartbeat(c) PROVE SingleWorker'
  BY <1>12 DEF Heartbeat
<1>13. ASSUME NEW c \in Containers, EndQuery(c) PROVE SingleWorker'
  BY <1>13 DEF EndQuery
<1>14. ASSUME NEW c \in Containers, Crash(c) PROVE SingleWorker'
  BY <1>14 DEF Crash
<1>15. ASSUME NEW c \in Containers, Freeze(c) PROVE SingleWorker'
  BY <1>15 DEF Freeze
<1>16. ASSUME NEW c \in Containers, NEW m \in Messages, TakeAnswer(c, m) PROVE SingleWorker'
  BY <1>16 DEF TakeAnswer
<1>17. CASE WakeFails
  BY <1>17 DEF WakeFails
<1>18. CASE Finish
  BY <1>18 DEF Finish
<1>19. CASE HostRestart
  BY <1>19 DEF HostRestart
<1>20. CASE SweepWakes
  BY <1>20 DEF SweepWakes
<1>21. CASE SweepWoke
  BY <1>21 DEF SweepWoke
<1>22. CASE SweepCleans
  BY <1>22 DEF SweepCleans
<1>23. CASE SweepSyncs
  BY <1>23 DEF SweepSyncs
<1>24. CASE SweepKills
  BY <1>24 DEF SweepKills
<1>25. CASE SweepKillRefused
  BY <1>25 DEF SweepKillRefused
<1>26. CASE UNCHANGED vars
  BY <1>26 DEF vars
<1> QED
  BY <1>1, <1>2, <1>3, <1>4, <1>5, <1>6, <1>7, <1>8, <1>9, <1>10, <1>11, <1>12, <1>13, <1>14,
     <1>15, <1>16, <1>17, <1>18, <1>19, <1>20, <1>21, <1>22, <1>23, <1>24, <1>25, <1>26 DEF Next,
     Turn, Sweep

\* Every step leaves rows in hand only in the phases that take them.
LEMMA FreshHasNothingStep == QInv /\ [Next]_vars => FreshHasNothing'
<1> SUFFICES ASSUME QInv, [Next]_vars PROVE FreshHasNothing'
  OBVIOUS
<1> USE QueueAssumption, TakeableIsFree DEF QInv, inbound, turn, container, host, history, Live,
   Runs, Claims, Acked, Dies, Unfinished, Synced, ResetStuck, AfterReset, Exhausted, Final, TypeOK,
   Phases, HandInv, FreshHasNothing
<1>1. ASSUME NEW m \in Messages, Arrive(m) PROVE FreshHasNothing'
  BY <1>1 DEF Arrive
<1>2. ASSUME NEW m \in Messages, Due(m) PROVE FreshHasNothing'
  BY <1>2 DEF Due
<1>3. ASSUME NEW c \in Containers, Spawn(c) PROVE FreshHasNothing'
  BY <1>3 DEF Spawn
<1>4. ASSUME NEW c \in Containers, Boot(c) PROVE FreshHasNothing'
  BY <1>4 DEF Boot
<1>5. ASSUME NEW c \in Containers, Poll(c) PROVE FreshHasNothing'
  BY <1>5 DEF Poll
<1>6. ASSUME NEW c \in Containers, Gate(c) PROVE FreshHasNothing'
  BY <1>6 DEF Gate
<1>7. ASSUME NEW c \in Containers, Result(c) PROVE FreshHasNothing'
  BY <1>7 DEF Result
<1>8. ASSUME NEW c \in Containers, AbortForCommand(c) PROVE FreshHasNothing'
  BY <1>8 DEF AbortForCommand
<1>9. ASSUME NEW c \in Containers, FollowUp(c) PROVE FreshHasNothing'
  BY <1>9 DEF FollowUp
<1>10. ASSUME NEW c \in Containers, Push(c) PROVE FreshHasNothing'
  BY <1>10 DEF Push
<1>11. ASSUME NEW c \in Containers, Strand(c) PROVE FreshHasNothing'
  BY <1>11 DEF Strand
<1>12. ASSUME NEW c \in Containers, Heartbeat(c) PROVE FreshHasNothing'
  BY <1>12 DEF Heartbeat
<1>13. ASSUME NEW c \in Containers, EndQuery(c) PROVE FreshHasNothing'
  BY <1>13 DEF EndQuery
<1>14. ASSUME NEW c \in Containers, Crash(c) PROVE FreshHasNothing'
  BY <1>14 DEF Crash
<1>15. ASSUME NEW c \in Containers, Freeze(c) PROVE FreshHasNothing'
  BY <1>15 DEF Freeze
<1>16. ASSUME NEW c \in Containers, NEW m \in Messages, TakeAnswer(c, m) PROVE FreshHasNothing'
  BY <1>16 DEF TakeAnswer
<1>17. CASE WakeFails
  BY <1>17 DEF WakeFails
<1>18. CASE Finish
  BY <1>18 DEF Finish
<1>19. CASE HostRestart
  BY <1>19 DEF HostRestart
<1>20. CASE SweepWakes
  BY <1>20 DEF SweepWakes
<1>21. CASE SweepWoke
  BY <1>21 DEF SweepWoke
<1>22. CASE SweepCleans
  BY <1>22 DEF SweepCleans
<1>23. CASE SweepSyncs
  BY <1>23 DEF SweepSyncs
<1>24. CASE SweepKills
  BY <1>24 DEF SweepKills
<1>25. CASE SweepKillRefused
  BY <1>25 DEF SweepKillRefused
<1>26. CASE UNCHANGED vars
  BY <1>26 DEF vars
<1> QED
  BY <1>1, <1>2, <1>3, <1>4, <1>5, <1>6, <1>7, <1>8, <1>9, <1>10, <1>11, <1>12, <1>13, <1>14,
     <1>15, <1>16, <1>17, <1>18, <1>19, <1>20, <1>21, <1>22, <1>23, <1>24, <1>25, <1>26 DEF Next,
     Turn, Sweep

\* No step takes an answer in hand that an MCP tool polls for.
LEMMA HandsTakeNoAnswersStep == QInv /\ [Next]_vars => HandsTakeNoAnswers'
<1> SUFFICES ASSUME QInv, [Next]_vars PROVE HandsTakeNoAnswers'
  OBVIOUS
<1> USE QueueAssumption, TakeableIsFree DEF QInv, inbound, turn, container, host, history, Live,
   Runs, Claims, Acked, Dies, Unfinished, Synced, ResetStuck, AfterReset, Exhausted, Final, TypeOK,
   HandInv, HandsTakeNoAnswers, InHand
<1>1. ASSUME NEW m \in Messages, Arrive(m) PROVE HandsTakeNoAnswers'
  BY <1>1 DEF Arrive
<1>2. ASSUME NEW m \in Messages, Due(m) PROVE HandsTakeNoAnswers'
  BY <1>2 DEF Due
<1>3. ASSUME NEW c \in Containers, Spawn(c) PROVE HandsTakeNoAnswers'
  BY <1>3 DEF Spawn
<1>4. ASSUME NEW c \in Containers, Boot(c) PROVE HandsTakeNoAnswers'
  BY <1>4 DEF Boot
<1>5. ASSUME NEW c \in Containers, Poll(c) PROVE HandsTakeNoAnswers'
  BY <1>5 DEF Poll
<1>6. ASSUME NEW c \in Containers, Gate(c) PROVE HandsTakeNoAnswers'
  BY <1>6 DEF Gate
<1>7. ASSUME NEW c \in Containers, Result(c) PROVE HandsTakeNoAnswers'
  BY <1>7 DEF Result
<1>8. ASSUME NEW c \in Containers, AbortForCommand(c) PROVE HandsTakeNoAnswers'
  BY <1>8 DEF AbortForCommand
<1>9. ASSUME NEW c \in Containers, FollowUp(c) PROVE HandsTakeNoAnswers'
  BY <1>9 DEF FollowUp
<1>10. ASSUME NEW c \in Containers, Push(c) PROVE HandsTakeNoAnswers'
  BY <1>10 DEF Push
<1>11. ASSUME NEW c \in Containers, Strand(c) PROVE HandsTakeNoAnswers'
  BY <1>11 DEF Strand
<1>12. ASSUME NEW c \in Containers, Heartbeat(c) PROVE HandsTakeNoAnswers'
  BY <1>12 DEF Heartbeat
<1>13. ASSUME NEW c \in Containers, EndQuery(c) PROVE HandsTakeNoAnswers'
  BY <1>13 DEF EndQuery
<1>14. ASSUME NEW c \in Containers, Crash(c) PROVE HandsTakeNoAnswers'
  BY <1>14 DEF Crash
<1>15. ASSUME NEW c \in Containers, Freeze(c) PROVE HandsTakeNoAnswers'
  BY <1>15 DEF Freeze
<1>16. ASSUME NEW c \in Containers, NEW m \in Messages, TakeAnswer(c, m) PROVE HandsTakeNoAnswers'
  BY <1>16 DEF TakeAnswer
<1>17. CASE WakeFails
  BY <1>17 DEF WakeFails
<1>18. CASE Finish
  BY <1>18 DEF Finish
<1>19. CASE HostRestart
  BY <1>19 DEF HostRestart
<1>20. CASE SweepWakes
  BY <1>20 DEF SweepWakes
<1>21. CASE SweepWoke
  BY <1>21 DEF SweepWoke
<1>22. CASE SweepCleans
  BY <1>22 DEF SweepCleans
<1>23. CASE SweepSyncs
  BY <1>23 DEF SweepSyncs
<1>24. CASE SweepKills
  BY <1>24 DEF SweepKills
<1>25. CASE SweepKillRefused
  BY <1>25 DEF SweepKillRefused
<1>26. CASE UNCHANGED vars
  BY <1>26 DEF vars
<1> QED
  BY <1>1, <1>2, <1>3, <1>4, <1>5, <1>6, <1>7, <1>8, <1>9, <1>10, <1>11, <1>12, <1>13, <1>14,
     <1>15, <1>16, <1>17, <1>18, <1>19, <1>20, <1>21, <1>22, <1>23, <1>24, <1>25, <1>26 DEF Next,
     Turn, Sweep

-----------------------------------------------------------------------------
(* What is completed was served.                                           *)

\* A query opens on rows the gates have let through.
LEMMA QueryWasServedStep == QInv /\ [Next]_vars => QueryWasServed'
<1> SUFFICES ASSUME QInv, [Next]_vars PROVE QueryWasServed'
  OBVIOUS
<1> USE QueueAssumption, TakeableIsFree DEF QInv, inbound, turn, container, host, history, Live,
   Runs, Claims, Acked, Dies, Unfinished, Synced, ResetStuck, AfterReset, Exhausted, Final, TypeOK,
   ServedInv, QueryWasServed, HandInv, FreshHasNothing
<1>1. ASSUME NEW m \in Messages, Arrive(m) PROVE QueryWasServed'
  BY <1>1 DEF Arrive
<1>2. ASSUME NEW m \in Messages, Due(m) PROVE QueryWasServed'
  BY <1>2 DEF Due
<1>3. ASSUME NEW c \in Containers, Spawn(c) PROVE QueryWasServed'
  BY <1>3 DEF Spawn
<1>4. ASSUME NEW c \in Containers, Boot(c) PROVE QueryWasServed'
  BY <1>4 DEF Boot
<1>5. ASSUME NEW c \in Containers, Poll(c) PROVE QueryWasServed'
  BY <1>5 DEF Poll
<1>6. ASSUME NEW c \in Containers, Gate(c) PROVE QueryWasServed'
  BY <1>6 DEF Gate
<1>7. ASSUME NEW c \in Containers, Result(c) PROVE QueryWasServed'
  BY <1>7 DEF Result
<1>8. ASSUME NEW c \in Containers, AbortForCommand(c) PROVE QueryWasServed'
  BY <1>8 DEF AbortForCommand
<1>9. ASSUME NEW c \in Containers, FollowUp(c) PROVE QueryWasServed'
  BY <1>9 DEF FollowUp
<1>10. ASSUME NEW c \in Containers, Push(c) PROVE QueryWasServed'
  BY <1>10 DEF Push
<1>11. ASSUME NEW c \in Containers, Strand(c) PROVE QueryWasServed'
  BY <1>11 DEF Strand
<1>12. ASSUME NEW c \in Containers, Heartbeat(c) PROVE QueryWasServed'
  BY <1>12 DEF Heartbeat
<1>13. ASSUME NEW c \in Containers, EndQuery(c) PROVE QueryWasServed'
  BY <1>13 DEF EndQuery
<1>14. ASSUME NEW c \in Containers, Crash(c) PROVE QueryWasServed'
  BY <1>14 DEF Crash
<1>15. ASSUME NEW c \in Containers, Freeze(c) PROVE QueryWasServed'
  BY <1>15 DEF Freeze
<1>16. ASSUME NEW c \in Containers, NEW m \in Messages, TakeAnswer(c, m) PROVE QueryWasServed'
  BY <1>16 DEF TakeAnswer
<1>17. CASE WakeFails
  BY <1>17 DEF WakeFails
<1>18. CASE Finish
  BY <1>18 DEF Finish
<1>19. CASE HostRestart
  BY <1>19 DEF HostRestart
<1>20. CASE SweepWakes
  BY <1>20 DEF SweepWakes
<1>21. CASE SweepWoke
  BY <1>21 DEF SweepWoke
<1>22. CASE SweepCleans
  BY <1>22 DEF SweepCleans
<1>23. CASE SweepSyncs
  BY <1>23 DEF SweepSyncs
<1>24. CASE SweepKills
  BY <1>24 DEF SweepKills
<1>25. CASE SweepKillRefused
  BY <1>25 DEF SweepKillRefused
<1>26. CASE UNCHANGED vars
  BY <1>26 DEF vars
<1> QED
  BY <1>1, <1>2, <1>3, <1>4, <1>5, <1>6, <1>7, <1>8, <1>9, <1>10, <1>11, <1>12, <1>13, <1>14,
     <1>15, <1>16, <1>17, <1>18, <1>19, <1>20, <1>21, <1>22, <1>23, <1>24, <1>25, <1>26 DEF Next,
     Turn, Sweep

\* Every step completes only what was served.
LEMMA CompletedWasServedStep == QInv /\ [Next]_vars => CompletedWasServed'
<1> SUFFICES ASSUME QInv, [Next]_vars PROVE CompletedWasServed'
  OBVIOUS
<1> USE QueueAssumption, TakeableIsFree DEF QInv, inbound, turn, container, host, history, Live,
   Runs, Claims, Acked, Dies, Unfinished, Synced, ResetStuck, AfterReset, Exhausted, Final, TypeOK,
   ServedInv, CompletedWasServed, QueryWasServed, Tasks
<1>1. ASSUME NEW m \in Messages, Arrive(m) PROVE CompletedWasServed'
  BY <1>1 DEF Arrive
<1>2. ASSUME NEW m \in Messages, Due(m) PROVE CompletedWasServed'
  BY <1>2 DEF Due
<1>3. ASSUME NEW c \in Containers, Spawn(c) PROVE CompletedWasServed'
  BY <1>3 DEF Spawn
<1>4. ASSUME NEW c \in Containers, Boot(c) PROVE CompletedWasServed'
  BY <1>4 DEF Boot
<1>5. ASSUME NEW c \in Containers, Poll(c) PROVE CompletedWasServed'
  BY <1>5 DEF Poll
<1>6. ASSUME NEW c \in Containers, Gate(c) PROVE CompletedWasServed'
  BY <1>6 DEF Gate
<1>7. ASSUME NEW c \in Containers, Result(c) PROVE CompletedWasServed'
  BY <1>7 DEF Result
<1>8. ASSUME NEW c \in Containers, AbortForCommand(c) PROVE CompletedWasServed'
  BY <1>8 DEF AbortForCommand
<1>9. ASSUME NEW c \in Containers, FollowUp(c) PROVE CompletedWasServed'
  BY <1>9 DEF FollowUp
<1>10. ASSUME NEW c \in Containers, Push(c) PROVE CompletedWasServed'
  BY <1>10 DEF Push
<1>11. ASSUME NEW c \in Containers, Strand(c) PROVE CompletedWasServed'
  BY <1>11 DEF Strand
<1>12. ASSUME NEW c \in Containers, Heartbeat(c) PROVE CompletedWasServed'
  BY <1>12 DEF Heartbeat
<1>13. ASSUME NEW c \in Containers, EndQuery(c) PROVE CompletedWasServed'
  BY <1>13 DEF EndQuery
<1>14. ASSUME NEW c \in Containers, Crash(c) PROVE CompletedWasServed'
  BY <1>14 DEF Crash
<1>15. ASSUME NEW c \in Containers, Freeze(c) PROVE CompletedWasServed'
  BY <1>15 DEF Freeze
<1>16. ASSUME NEW c \in Containers, NEW m \in Messages, TakeAnswer(c, m) PROVE CompletedWasServed'
  BY <1>16 DEF TakeAnswer
<1>17. CASE WakeFails
  BY <1>17 DEF WakeFails
<1>18. CASE Finish
  BY <1>18 DEF Finish
<1>19. CASE HostRestart
  BY <1>19 DEF HostRestart
<1>20. CASE SweepWakes
  BY <1>20 DEF SweepWakes
<1>21. CASE SweepWoke
  BY <1>21 DEF SweepWoke
<1>22. CASE SweepCleans
  BY <1>22 DEF SweepCleans
<1>23. CASE SweepSyncs
  BY <1>23 DEF SweepSyncs
<1>24. CASE SweepKills
  BY <1>24 DEF SweepKills
<1>25. CASE SweepKillRefused
  BY <1>25 DEF SweepKillRefused
<1>26. CASE UNCHANGED vars
  BY <1>26 DEF vars
<1> QED
  BY <1>1, <1>2, <1>3, <1>4, <1>5, <1>6, <1>7, <1>8, <1>9, <1>10, <1>11, <1>12, <1>13, <1>14,
     <1>15, <1>16, <1>17, <1>18, <1>19, <1>20, <1>21, <1>22, <1>23, <1>24, <1>25, <1>26 DEF Next,
     Turn, Sweep

\* A completed row was acked, and stays so.
LEMMA CompletedIsAckedStep == QInv /\ [Next]_vars => CompletedIsAcked'
<1> SUFFICES ASSUME QInv, [Next]_vars PROVE CompletedIsAcked'
  OBVIOUS
<1> USE QueueAssumption, TakeableIsFree DEF QInv, inbound, turn, container, host, history, Live,
   Runs, Claims, Acked, Dies, Unfinished, Synced, ResetStuck, AfterReset, Exhausted, Final, TypeOK,
   ServedInv, CompletedIsAcked
<1>1. ASSUME NEW m \in Messages, Arrive(m) PROVE CompletedIsAcked'
  BY <1>1 DEF Arrive
<1>2. ASSUME NEW m \in Messages, Due(m) PROVE CompletedIsAcked'
  BY <1>2 DEF Due
<1>3. ASSUME NEW c \in Containers, Spawn(c) PROVE CompletedIsAcked'
  BY <1>3 DEF Spawn
<1>4. ASSUME NEW c \in Containers, Boot(c) PROVE CompletedIsAcked'
  BY <1>4 DEF Boot
<1>5. ASSUME NEW c \in Containers, Poll(c) PROVE CompletedIsAcked'
  BY <1>5 DEF Poll
<1>6. ASSUME NEW c \in Containers, Gate(c) PROVE CompletedIsAcked'
  BY <1>6 DEF Gate
<1>7. ASSUME NEW c \in Containers, Result(c) PROVE CompletedIsAcked'
  BY <1>7 DEF Result
<1>8. ASSUME NEW c \in Containers, AbortForCommand(c) PROVE CompletedIsAcked'
  BY <1>8 DEF AbortForCommand
<1>9. ASSUME NEW c \in Containers, FollowUp(c) PROVE CompletedIsAcked'
  BY <1>9 DEF FollowUp
<1>10. ASSUME NEW c \in Containers, Push(c) PROVE CompletedIsAcked'
  BY <1>10 DEF Push
<1>11. ASSUME NEW c \in Containers, Strand(c) PROVE CompletedIsAcked'
  BY <1>11 DEF Strand
<1>12. ASSUME NEW c \in Containers, Heartbeat(c) PROVE CompletedIsAcked'
  BY <1>12 DEF Heartbeat
<1>13. ASSUME NEW c \in Containers, EndQuery(c) PROVE CompletedIsAcked'
  BY <1>13 DEF EndQuery
<1>14. ASSUME NEW c \in Containers, Crash(c) PROVE CompletedIsAcked'
  BY <1>14 DEF Crash
<1>15. ASSUME NEW c \in Containers, Freeze(c) PROVE CompletedIsAcked'
  BY <1>15 DEF Freeze
<1>16. ASSUME NEW c \in Containers, NEW m \in Messages, TakeAnswer(c, m) PROVE CompletedIsAcked'
  BY <1>16 DEF TakeAnswer
<1>17. CASE WakeFails
  BY <1>17 DEF WakeFails
<1>18. CASE Finish
  BY <1>18 DEF Finish
<1>19. CASE HostRestart
  BY <1>19 DEF HostRestart
<1>20. CASE SweepWakes
  BY <1>20 DEF SweepWakes
<1>21. CASE SweepWoke
  BY <1>21 DEF SweepWoke
<1>22. CASE SweepCleans
  BY <1>22 DEF SweepCleans
<1>23. CASE SweepSyncs
  BY <1>23 DEF SweepSyncs
<1>24. CASE SweepKills
  BY <1>24 DEF SweepKills
<1>25. CASE SweepKillRefused
  BY <1>25 DEF SweepKillRefused
<1>26. CASE UNCHANGED vars
  BY <1>26 DEF vars
<1> QED
  BY <1>1, <1>2, <1>3, <1>4, <1>5, <1>6, <1>7, <1>8, <1>9, <1>10, <1>11, <1>12, <1>13, <1>14,
     <1>15, <1>16, <1>17, <1>18, <1>19, <1>20, <1>21, <1>22, <1>23, <1>24, <1>25, <1>26 DEF Next,
     Turn, Sweep

\* A row owed a retry is left alone until it is claimed again.
LEMMA OwedIsFreeStep == QInv /\ [Next]_vars => OwedIsFree'
<1> SUFFICES ASSUME QInv, [Next]_vars PROVE OwedIsFree'
  OBVIOUS
<1> USE QueueAssumption, TakeableIsFree DEF QInv, inbound, turn, container, host, history, Live,
   Runs, Claims, Acked, Dies, Unfinished, Synced, ResetStuck, AfterReset, Exhausted, Final, TypeOK,
   Phases, HandInv, SingleWorker, FreshHasNothing, HandsTakeNoAnswers, InHand, ServedInv,
   OwedIsFree, Tasks
<1>1. ASSUME NEW m \in Messages, Arrive(m) PROVE OwedIsFree'
  BY <1>1 DEF Arrive
<1>2. ASSUME NEW m \in Messages, Due(m) PROVE OwedIsFree'
  BY <1>2 DEF Due
<1>3. ASSUME NEW c \in Containers, Spawn(c) PROVE OwedIsFree'
  BY <1>3 DEF Spawn
<1>4. ASSUME NEW c \in Containers, Boot(c) PROVE OwedIsFree'
  BY <1>4 DEF Boot
<1>5. ASSUME NEW c \in Containers, Poll(c) PROVE OwedIsFree'
  BY <1>5 DEF Poll
<1>6. ASSUME NEW c \in Containers, Gate(c) PROVE OwedIsFree'
  BY <1>6 DEF Gate
<1>7. ASSUME NEW c \in Containers, Result(c) PROVE OwedIsFree'
  BY <1>7 DEF Result
<1>8. ASSUME NEW c \in Containers, AbortForCommand(c) PROVE OwedIsFree'
  BY <1>8 DEF AbortForCommand
<1>9. ASSUME NEW c \in Containers, FollowUp(c) PROVE OwedIsFree'
  BY <1>9 DEF FollowUp
<1>10. ASSUME NEW c \in Containers, Push(c) PROVE OwedIsFree'
  BY <1>10 DEF Push
<1>11. ASSUME NEW c \in Containers, Strand(c) PROVE OwedIsFree'
  BY <1>11 DEF Strand
<1>12. ASSUME NEW c \in Containers, Heartbeat(c) PROVE OwedIsFree'
  BY <1>12 DEF Heartbeat
<1>13. ASSUME NEW c \in Containers, EndQuery(c) PROVE OwedIsFree'
  BY <1>13 DEF EndQuery
<1>14. ASSUME NEW c \in Containers, Crash(c) PROVE OwedIsFree'
  BY <1>14 DEF Crash
<1>15. ASSUME NEW c \in Containers, Freeze(c) PROVE OwedIsFree'
  BY <1>15 DEF Freeze
<1>16. ASSUME NEW c \in Containers, NEW m \in Messages, TakeAnswer(c, m) PROVE OwedIsFree'
  BY <1>16 DEF TakeAnswer
<1>17. CASE WakeFails
  BY <1>17 DEF WakeFails
<1>18. CASE Finish
  BY <1>18 DEF Finish
<1>19. CASE HostRestart
  BY <1>19 DEF HostRestart
<1>20. CASE SweepWakes
  BY <1>20 DEF SweepWakes
<1>21. CASE SweepWoke
  BY <1>21 DEF SweepWoke
<1>22. CASE SweepCleans
  BY <1>22 DEF SweepCleans
<1>23. CASE SweepSyncs
  BY <1>23 DEF SweepSyncs
<1>24. CASE SweepKills
  BY SMTT(60), <1>24 DEF SweepKills
<1>25. CASE SweepKillRefused
  BY <1>25 DEF SweepKillRefused
<1>26. CASE UNCHANGED vars
  BY <1>26 DEF vars
<1> QED
  BY <1>1, <1>2, <1>3, <1>4, <1>5, <1>6, <1>7, <1>8, <1>9, <1>10, <1>11, <1>12, <1>13, <1>14,
     <1>15, <1>16, <1>17, <1>18, <1>19, <1>20, <1>21, <1>22, <1>23, <1>24, <1>25, <1>26 DEF Next,
     Turn, Sweep

-----------------------------------------------------------------------------
(* Tries.                                                                  *)

\* Every claim that runs is worth a try.
LEMMA ClaimsAreUnpaidStep == QInv /\ [Next]_vars => ClaimsAreUnpaid'
<1> SUFFICES ASSUME QInv, [Next]_vars PROVE ClaimsAreUnpaid'
  OBVIOUS
<1> USE QueueAssumption, TakeableIsFree DEF QInv, inbound, turn, container, host, history, Live,
   Runs, Claims, Acked, Dies, Unfinished, Synced, ResetStuck, AfterReset, Exhausted, Final, TypeOK,
   TriesInv, TriesPaidByClaims, ClaimsAreUnpaid, Counted
<1>1. ASSUME NEW m \in Messages, Arrive(m) PROVE ClaimsAreUnpaid'
  BY <1>1 DEF Arrive
<1>2. ASSUME NEW m \in Messages, Due(m) PROVE ClaimsAreUnpaid'
  BY <1>2 DEF Due
<1>3. ASSUME NEW c \in Containers, Spawn(c) PROVE ClaimsAreUnpaid'
  BY <1>3 DEF Spawn
<1>4. ASSUME NEW c \in Containers, Boot(c) PROVE ClaimsAreUnpaid'
  BY <1>4 DEF Boot
<1>5. ASSUME NEW c \in Containers, Poll(c) PROVE ClaimsAreUnpaid'
  BY <1>5 DEF Poll
<1>6. ASSUME NEW c \in Containers, Gate(c) PROVE ClaimsAreUnpaid'
  BY <1>6 DEF Gate
<1>7. ASSUME NEW c \in Containers, Result(c) PROVE ClaimsAreUnpaid'
  BY <1>7 DEF Result
<1>8. ASSUME NEW c \in Containers, AbortForCommand(c) PROVE ClaimsAreUnpaid'
  BY <1>8 DEF AbortForCommand
<1>9. ASSUME NEW c \in Containers, FollowUp(c) PROVE ClaimsAreUnpaid'
  BY <1>9 DEF FollowUp
<1>10. ASSUME NEW c \in Containers, Push(c) PROVE ClaimsAreUnpaid'
  BY <1>10 DEF Push
<1>11. ASSUME NEW c \in Containers, Strand(c) PROVE ClaimsAreUnpaid'
  BY <1>11 DEF Strand
<1>12. ASSUME NEW c \in Containers, Heartbeat(c) PROVE ClaimsAreUnpaid'
  BY <1>12 DEF Heartbeat
<1>13. ASSUME NEW c \in Containers, EndQuery(c) PROVE ClaimsAreUnpaid'
  BY <1>13 DEF EndQuery
<1>14. ASSUME NEW c \in Containers, Crash(c) PROVE ClaimsAreUnpaid'
  BY <1>14 DEF Crash
<1>15. ASSUME NEW c \in Containers, Freeze(c) PROVE ClaimsAreUnpaid'
  BY <1>15 DEF Freeze
<1>16. ASSUME NEW c \in Containers, NEW m \in Messages, TakeAnswer(c, m) PROVE ClaimsAreUnpaid'
  BY <1>16 DEF TakeAnswer
<1>17. CASE WakeFails
  BY <1>17 DEF WakeFails
<1>18. CASE Finish
  BY <1>18 DEF Finish
<1>19. CASE HostRestart
  BY <1>19 DEF HostRestart
<1>20. CASE SweepWakes
  BY <1>20 DEF SweepWakes
<1>21. CASE SweepWoke
  BY <1>21 DEF SweepWoke
<1>22. CASE SweepCleans
  BY <1>22 DEF SweepCleans
<1>23. CASE SweepSyncs
  BY <1>23 DEF SweepSyncs
<1>24. CASE SweepKills
  BY <1>24 DEF SweepKills
<1>25. CASE SweepKillRefused
  BY <1>25 DEF SweepKillRefused
<1>26. CASE UNCHANGED vars
  BY <1>26 DEF vars
<1> QED
  BY <1>1, <1>2, <1>3, <1>4, <1>5, <1>6, <1>7, <1>8, <1>9, <1>10, <1>11, <1>12, <1>13, <1>14,
     <1>15, <1>16, <1>17, <1>18, <1>19, <1>20, <1>21, <1>22, <1>23, <1>24, <1>25, <1>26 DEF Next,
     Turn, Sweep

\* Every step pays a try with a claim.
LEMMA TriesPaidByClaimsStep == QInv /\ [Next]_vars => TriesPaidByClaims'
<1> SUFFICES ASSUME QInv, [Next]_vars PROVE TriesPaidByClaims'
  OBVIOUS
<1> USE QueueAssumption, TakeableIsFree DEF QInv, inbound, turn, container, host, history, Live,
   Runs, Claims, Acked, Dies, Unfinished, Synced, ResetStuck, AfterReset, Exhausted, Final, TypeOK,
   TriesInv, TriesPaidByClaims, ClaimsAreUnpaid, Counted
<1>1. ASSUME NEW m \in Messages, Arrive(m) PROVE TriesPaidByClaims'
  BY <1>1 DEF Arrive
<1>2. ASSUME NEW m \in Messages, Due(m) PROVE TriesPaidByClaims'
  BY <1>2 DEF Due
<1>3. ASSUME NEW c \in Containers, Spawn(c) PROVE TriesPaidByClaims'
  BY <1>3 DEF Spawn
<1>4. ASSUME NEW c \in Containers, Boot(c) PROVE TriesPaidByClaims'
  BY <1>4 DEF Boot
<1>5. ASSUME NEW c \in Containers, Poll(c) PROVE TriesPaidByClaims'
  BY <1>5 DEF Poll
<1>6. ASSUME NEW c \in Containers, Gate(c) PROVE TriesPaidByClaims'
  BY <1>6 DEF Gate
<1>7. ASSUME NEW c \in Containers, Result(c) PROVE TriesPaidByClaims'
  BY <1>7 DEF Result
<1>8. ASSUME NEW c \in Containers, AbortForCommand(c) PROVE TriesPaidByClaims'
  BY <1>8 DEF AbortForCommand
<1>9. ASSUME NEW c \in Containers, FollowUp(c) PROVE TriesPaidByClaims'
  BY <1>9 DEF FollowUp
<1>10. ASSUME NEW c \in Containers, Push(c) PROVE TriesPaidByClaims'
  BY <1>10 DEF Push
<1>11. ASSUME NEW c \in Containers, Strand(c) PROVE TriesPaidByClaims'
  BY <1>11 DEF Strand
<1>12. ASSUME NEW c \in Containers, Heartbeat(c) PROVE TriesPaidByClaims'
  BY <1>12 DEF Heartbeat
<1>13. ASSUME NEW c \in Containers, EndQuery(c) PROVE TriesPaidByClaims'
  BY <1>13 DEF EndQuery
<1>14. ASSUME NEW c \in Containers, Crash(c) PROVE TriesPaidByClaims'
  BY <1>14 DEF Crash
<1>15. ASSUME NEW c \in Containers, Freeze(c) PROVE TriesPaidByClaims'
  BY <1>15 DEF Freeze
<1>16. ASSUME NEW c \in Containers, NEW m \in Messages, TakeAnswer(c, m) PROVE TriesPaidByClaims'
  BY <1>16 DEF TakeAnswer
<1>17. CASE WakeFails
  BY <1>17 DEF WakeFails
<1>18. CASE Finish
  BY <1>18 DEF Finish
<1>19. CASE HostRestart
  BY <1>19 DEF HostRestart
<1>20. CASE SweepWakes
  BY <1>20 DEF SweepWakes
<1>21. CASE SweepWoke
  BY <1>21 DEF SweepWoke
<1>22. CASE SweepCleans
  BY <1>22 DEF SweepCleans
<1>23. CASE SweepSyncs
  BY <1>23 DEF SweepSyncs
<1>24. CASE SweepKills
  BY <1>24 DEF SweepKills
<1>25. CASE SweepKillRefused
  BY <1>25 DEF SweepKillRefused
<1>26. CASE UNCHANGED vars
  BY <1>26 DEF vars
<1> QED
  BY <1>1, <1>2, <1>3, <1>4, <1>5, <1>6, <1>7, <1>8, <1>9, <1>10, <1>11, <1>12, <1>13, <1>14,
     <1>15, <1>16, <1>17, <1>18, <1>19, <1>20, <1>21, <1>22, <1>23, <1>24, <1>25, <1>26 DEF Next,
     Turn, Sweep

-----------------------------------------------------------------------------
(* What the host knows.                                                    *)

\* Unless docker refuses or cannot list, the host knows what lives.
LEMMA HostKnowsStep == QInv /\ [Next]_vars => HostKnows'
<1> SUFFICES ASSUME QInv, [Next]_vars PROVE HostKnows'
  OBVIOUS
<1> USE QueueAssumption, TakeableIsFree DEF QInv, inbound, turn, container, host, history, Live,
   Runs, Claims, Acked, Dies, Unfinished, Synced, ResetStuck, AfterReset, Exhausted, Final, TypeOK,
   Phases, HandInv, SingleWorker, FreshHasNothing, HandsTakeNoAnswers, InHand, KnownInv, HostKnows,
   Adopted, Startable
<1>1. ASSUME NEW m \in Messages, Arrive(m) PROVE HostKnows'
  BY <1>1 DEF Arrive
<1>2. ASSUME NEW m \in Messages, Due(m) PROVE HostKnows'
  BY <1>2 DEF Due
<1>3. ASSUME NEW c \in Containers, Spawn(c) PROVE HostKnows'
  BY <1>3 DEF Spawn
<1>4. ASSUME NEW c \in Containers, Boot(c) PROVE HostKnows'
  BY <1>4 DEF Boot
<1>5. ASSUME NEW c \in Containers, Poll(c) PROVE HostKnows'
  BY <1>5 DEF Poll
<1>6. ASSUME NEW c \in Containers, Gate(c) PROVE HostKnows'
  BY <1>6 DEF Gate
<1>7. ASSUME NEW c \in Containers, Result(c) PROVE HostKnows'
  BY <1>7 DEF Result
<1>8. ASSUME NEW c \in Containers, AbortForCommand(c) PROVE HostKnows'
  BY <1>8 DEF AbortForCommand
<1>9. ASSUME NEW c \in Containers, FollowUp(c) PROVE HostKnows'
  BY <1>9 DEF FollowUp
<1>10. ASSUME NEW c \in Containers, Push(c) PROVE HostKnows'
  BY <1>10 DEF Push
<1>11. ASSUME NEW c \in Containers, Strand(c) PROVE HostKnows'
  BY <1>11 DEF Strand
<1>12. ASSUME NEW c \in Containers, Heartbeat(c) PROVE HostKnows'
  BY <1>12 DEF Heartbeat
<1>13. ASSUME NEW c \in Containers, EndQuery(c) PROVE HostKnows'
  BY <1>13 DEF EndQuery
<1>14. ASSUME NEW c \in Containers, Crash(c) PROVE HostKnows'
  BY <1>14 DEF Crash
<1>15. ASSUME NEW c \in Containers, Freeze(c) PROVE HostKnows'
  BY <1>15 DEF Freeze
<1>16. ASSUME NEW c \in Containers, NEW m \in Messages, TakeAnswer(c, m) PROVE HostKnows'
  BY <1>16 DEF TakeAnswer
<1>17. CASE WakeFails
  BY <1>17 DEF WakeFails
<1>18. CASE Finish
  BY <1>18 DEF Finish
<1>19. CASE HostRestart
  BY <1>19 DEF HostRestart
<1>20. CASE SweepWakes
  BY <1>20 DEF SweepWakes
<1>21. CASE SweepWoke
  BY <1>21 DEF SweepWoke
<1>22. CASE SweepCleans
  BY <1>22 DEF SweepCleans
<1>23. CASE SweepSyncs
  BY <1>23 DEF SweepSyncs
<1>24. CASE SweepKills
  BY <1>24 DEF SweepKills
<1>25. CASE SweepKillRefused
  BY <1>25 DEF SweepKillRefused
<1>26. CASE UNCHANGED vars
  BY <1>26 DEF vars
<1> QED
  BY <1>1, <1>2, <1>3, <1>4, <1>5, <1>6, <1>7, <1>8, <1>9, <1>10, <1>11, <1>12, <1>13, <1>14,
     <1>15, <1>16, <1>17, <1>18, <1>19, <1>20, <1>21, <1>22, <1>23, <1>24, <1>25, <1>26 DEF Next,
     Turn, Sweep

\* ... each row is in one of its container's hands, ...
LEMMA HeldOnceStep == QInv /\ [Next]_vars => HeldOnce'
<1> SUFFICES ASSUME QInv, [Next]_vars PROVE HeldOnce'
  OBVIOUS
<1> USE QueueAssumption, TakeableIsFree DEF QInv, inbound, turn, container, host, history, Live,
   Runs, Claims, Acked, Dies, Unfinished, Synced, ResetStuck, AfterReset, Exhausted, Final, TypeOK,
   Phases, HandInv, SingleWorker, FreshHasNothing, HandsTakeNoAnswers, InHand, KnownInv, HostKnows,
   WorkersHoldTheirClaims, HeldOnce, Tasks
<1>1. ASSUME NEW m \in Messages, Arrive(m) PROVE HeldOnce'
  BY <1>1 DEF Arrive
<1>2. ASSUME NEW m \in Messages, Due(m) PROVE HeldOnce'
  BY <1>2 DEF Due
<1>3. ASSUME NEW c \in Containers, Spawn(c) PROVE HeldOnce'
  BY <1>3 DEF Spawn
<1>4. ASSUME NEW c \in Containers, Boot(c) PROVE HeldOnce'
  BY <1>4 DEF Boot
<1>5. ASSUME NEW c \in Containers, Poll(c) PROVE HeldOnce'
  BY <1>5 DEF Poll
<1>6. ASSUME NEW c \in Containers, Gate(c) PROVE HeldOnce'
  BY <1>6 DEF Gate
<1>7. ASSUME NEW c \in Containers, Result(c) PROVE HeldOnce'
  BY <1>7 DEF Result
<1>8. ASSUME NEW c \in Containers, AbortForCommand(c) PROVE HeldOnce'
  BY <1>8 DEF AbortForCommand
<1>9. ASSUME NEW c \in Containers, FollowUp(c) PROVE HeldOnce'
  BY <1>9 DEF FollowUp
<1>10. ASSUME NEW c \in Containers, Push(c) PROVE HeldOnce'
  BY <1>10 DEF Push
<1>11. ASSUME NEW c \in Containers, Strand(c) PROVE HeldOnce'
  BY <1>11 DEF Strand
<1>12. ASSUME NEW c \in Containers, Heartbeat(c) PROVE HeldOnce'
  BY <1>12 DEF Heartbeat
<1>13. ASSUME NEW c \in Containers, EndQuery(c) PROVE HeldOnce'
  BY <1>13 DEF EndQuery
<1>14. ASSUME NEW c \in Containers, Crash(c) PROVE HeldOnce'
  BY <1>14 DEF Crash
<1>15. ASSUME NEW c \in Containers, Freeze(c) PROVE HeldOnce'
  BY <1>15 DEF Freeze
<1>16. ASSUME NEW c \in Containers, NEW m \in Messages, TakeAnswer(c, m) PROVE HeldOnce'
  BY <1>16 DEF TakeAnswer
<1>17. CASE WakeFails
  BY <1>17 DEF WakeFails
<1>18. CASE Finish
  BY <1>18 DEF Finish
<1>19. CASE HostRestart
  BY <1>19 DEF HostRestart
<1>20. CASE SweepWakes
  BY <1>20 DEF SweepWakes
<1>21. CASE SweepWoke
  BY <1>21 DEF SweepWoke
<1>22. CASE SweepCleans
  BY <1>22 DEF SweepCleans
<1>23. CASE SweepSyncs
  BY <1>23 DEF SweepSyncs
<1>24. CASE SweepKills
  BY <1>24 DEF SweepKills
<1>25. CASE SweepKillRefused
  BY <1>25 DEF SweepKillRefused
<1>26. CASE UNCHANGED vars
  BY <1>26 DEF vars
<1> QED
  BY <1>1, <1>2, <1>3, <1>4, <1>5, <1>6, <1>7, <1>8, <1>9, <1>10, <1>11, <1>12, <1>13, <1>14,
     <1>15, <1>16, <1>17, <1>18, <1>19, <1>20, <1>21, <1>22, <1>23, <1>24, <1>25, <1>26 DEF Next,
     Turn, Sweep

\* ... and stays claimed while it is.
LEMMA WorkersHoldTheirClaimsStep == QInv /\ [Next]_vars => WorkersHoldTheirClaims'
<1> SUFFICES ASSUME QInv, [Next]_vars PROVE WorkersHoldTheirClaims'
  OBVIOUS
<1> USE QueueAssumption, TakeableIsFree DEF QInv, inbound, turn, container, host, history, Live,
   Runs, Claims, Acked, Dies, Unfinished, Synced, ResetStuck, AfterReset, Exhausted, Final, TypeOK,
   Phases, HandInv, SingleWorker, FreshHasNothing, HandsTakeNoAnswers, InHand, KnownInv, HostKnows,
   WorkersHoldTheirClaims, HeldOnce, Tasks
<1>1. ASSUME NEW m \in Messages, Arrive(m) PROVE WorkersHoldTheirClaims'
  BY <1>1 DEF Arrive
<1>2. ASSUME NEW m \in Messages, Due(m) PROVE WorkersHoldTheirClaims'
  BY <1>2 DEF Due
<1>3. ASSUME NEW c \in Containers, Spawn(c) PROVE WorkersHoldTheirClaims'
  BY <1>3 DEF Spawn
<1>4. ASSUME NEW c \in Containers, Boot(c) PROVE WorkersHoldTheirClaims'
  BY <1>4 DEF Boot
<1>5. ASSUME NEW c \in Containers, Poll(c) PROVE WorkersHoldTheirClaims'
  BY <1>5 DEF Poll
<1>6. ASSUME NEW c \in Containers, Gate(c) PROVE WorkersHoldTheirClaims'
  BY <1>6 DEF Gate
<1>7. ASSUME NEW c \in Containers, Result(c) PROVE WorkersHoldTheirClaims'
  BY <1>7 DEF Result
<1>8. ASSUME NEW c \in Containers, AbortForCommand(c) PROVE WorkersHoldTheirClaims'
  BY <1>8 DEF AbortForCommand
<1>9. ASSUME NEW c \in Containers, FollowUp(c) PROVE WorkersHoldTheirClaims'
  BY <1>9 DEF FollowUp
<1>10. ASSUME NEW c \in Containers, Push(c) PROVE WorkersHoldTheirClaims'
  BY <1>10 DEF Push
<1>11. ASSUME NEW c \in Containers, Strand(c) PROVE WorkersHoldTheirClaims'
  BY <1>11 DEF Strand
<1>12. ASSUME NEW c \in Containers, Heartbeat(c) PROVE WorkersHoldTheirClaims'
  BY <1>12 DEF Heartbeat
<1>13. ASSUME NEW c \in Containers, EndQuery(c) PROVE WorkersHoldTheirClaims'
  BY <1>13 DEF EndQuery
<1>14. ASSUME NEW c \in Containers, Crash(c) PROVE WorkersHoldTheirClaims'
  BY <1>14 DEF Crash
<1>15. ASSUME NEW c \in Containers, Freeze(c) PROVE WorkersHoldTheirClaims'
  BY <1>15 DEF Freeze
<1>16. ASSUME NEW c \in Containers, NEW m \in Messages, TakeAnswer(c, m) PROVE WorkersHoldTheirClaims'
  BY <1>16 DEF TakeAnswer
<1>17. CASE WakeFails
  BY <1>17 DEF WakeFails
<1>18. CASE Finish
  BY <1>18 DEF Finish
<1>19. CASE HostRestart
  BY <1>19 DEF HostRestart
<1>20. CASE SweepWakes
  BY <1>20 DEF SweepWakes
<1>21. CASE SweepWoke
  BY <1>21 DEF SweepWoke
<1>22. CASE SweepCleans
  BY <1>22 DEF SweepCleans
<1>23. CASE SweepSyncs
  BY <1>23 DEF SweepSyncs
<1>24. CASE SweepKills
  BY <1>24 DEF SweepKills
<1>25. CASE SweepKillRefused
  BY <1>25 DEF SweepKillRefused
<1>26. CASE UNCHANGED vars
  BY <1>26 DEF vars
<1> QED
  BY <1>1, <1>2, <1>3, <1>4, <1>5, <1>6, <1>7, <1>8, <1>9, <1>10, <1>11, <1>12, <1>13, <1>14,
     <1>15, <1>16, <1>17, <1>18, <1>19, <1>20, <1>21, <1>22, <1>23, <1>24, <1>25, <1>26 DEF Next,
     Turn, Sweep

-----------------------------------------------------------------------------
(* What a step does to the acks.                                           *)

\* The window never cuts off a waking row before a newer one.
LEMMA WindowKeepsOrder ==
  ASSUME TypeOK, NEW m \in Takeable, NEW q \in Unclaimed,
         Trigger(m), Trigger(q), Kind[q] # "system", rank[q] < rank[m]
  PROVE  q \in Takeable
<1> DEFINE S == {r \in Unclaimed : Trigger(r)}
           Before(r) == {s \in S : rank[s] < rank[r]}
<1>1. S \subseteq Messages /\ m \in S /\ q \in S
  BY TakeableIsFree DEF Unclaimed
<1>2. m \in Oldest(S, Cap)
  BY DEF Takeable, Pending, Window, Newest
<1>3. Cardinality(Before(m)) < Cap
  BY <1>2 DEF Oldest
<1>4. rank[m] \in Nat /\ rank[q] \in Nat /\ \A s \in S : rank[s] \in Nat
  BY <1>1 DEF TypeOK
<1>5. Before(q) \subseteq Before(m) /\ Before(m) \subseteq Messages
  BY <1>1, <1>4
<1>6. /\ IsFiniteSet(Before(m)) /\ IsFiniteSet(Before(q))
      /\ Cardinality(Before(q)) <= Cardinality(Before(m))
  <2>1. IsFiniteSet(Messages)
    BY QueueAssumption
  <2>2. IsFiniteSet(Before(m))
    BY <1>5, <2>1, FS_Subset
  <2> QED
    BY <1>5, <2>2, FS_Subset
<1>7. Cardinality(Before(q)) \in Nat /\ Cardinality(Before(m)) \in Nat /\ Cap \in Nat
  BY <1>6, FS_CardinalityType, QueueAssumption
<1>8. Cardinality(Before(q)) < Cap
  BY <1>3, <1>6, <1>7
<1>9. q \in Oldest(S, Cap)
  BY <1>1, <1>8 DEF Oldest
<1> QED
  BY <1>9 DEF Takeable, Pending, Window

\* The three properties of a step, as actions.
SettledOnce ==
  \A m \in Messages : ack[m] \in Final => ack'[m] \in Final /\ (~misled => ack'[m] = ack[m])
GetsTaken(m) == ack[m] = "none" /\ ack'[m] # "none"
\* What is taken is taken by a poller, with all it found, or is an answer.
TakenTogether ==
  ~misled => \A m \in Messages : GetsTaken(m) =>
    \/ Kind[m] = "system"
    \/ m \in Takeable /\ Engages(Takeable) /\ \A q \in Takeable : ack'[q] # "none"

\* A final ack stays final, and without a refused stop what it is.
LEMMA SettledStays == QInv /\ [Next]_vars => SettledOnce
<1> SUFFICES ASSUME QInv, [Next]_vars PROVE SettledOnce
  OBVIOUS
<1> USE QueueAssumption, TakeableIsFree DEF QInv, inbound, turn, container, host, history, Live,
   Runs, Claims, Acked, Dies, Unfinished, Synced, ResetStuck, AfterReset, Exhausted, Final, TypeOK,
   Phases, HandInv, FreshHasNothing, KnownInv, WorkersHoldTheirClaims, HeldOnce, SettledOnce, Tasks
<1>1. ASSUME NEW m \in Messages, Arrive(m) PROVE SettledOnce
  BY <1>1 DEF Arrive
<1>2. ASSUME NEW m \in Messages, Due(m) PROVE SettledOnce
  BY <1>2 DEF Due
<1>3. ASSUME NEW c \in Containers, Spawn(c) PROVE SettledOnce
  BY <1>3 DEF Spawn
<1>4. ASSUME NEW c \in Containers, Boot(c) PROVE SettledOnce
  BY <1>4 DEF Boot
<1>5. ASSUME NEW c \in Containers, Poll(c) PROVE SettledOnce
  BY <1>5 DEF Poll
<1>6. ASSUME NEW c \in Containers, Gate(c) PROVE SettledOnce
  BY <1>6 DEF Gate
<1>7. ASSUME NEW c \in Containers, Result(c) PROVE SettledOnce
  BY <1>7 DEF Result
<1>8. ASSUME NEW c \in Containers, AbortForCommand(c) PROVE SettledOnce
  BY <1>8 DEF AbortForCommand
<1>9. ASSUME NEW c \in Containers, FollowUp(c) PROVE SettledOnce
  BY <1>9 DEF FollowUp
<1>10. ASSUME NEW c \in Containers, Push(c) PROVE SettledOnce
  BY <1>10 DEF Push
<1>11. ASSUME NEW c \in Containers, Strand(c) PROVE SettledOnce
  BY <1>11 DEF Strand
<1>12. ASSUME NEW c \in Containers, Heartbeat(c) PROVE SettledOnce
  BY <1>12 DEF Heartbeat
<1>13. ASSUME NEW c \in Containers, EndQuery(c) PROVE SettledOnce
  BY <1>13 DEF EndQuery
<1>14. ASSUME NEW c \in Containers, Crash(c) PROVE SettledOnce
  BY <1>14 DEF Crash
<1>15. ASSUME NEW c \in Containers, Freeze(c) PROVE SettledOnce
  BY <1>15 DEF Freeze
<1>16. ASSUME NEW c \in Containers, NEW m \in Messages, TakeAnswer(c, m) PROVE SettledOnce
  BY <1>16 DEF TakeAnswer
<1>17. CASE WakeFails
  BY <1>17 DEF WakeFails
<1>18. CASE Finish
  BY <1>18 DEF Finish
<1>19. CASE HostRestart
  BY <1>19 DEF HostRestart
<1>20. CASE SweepWakes
  BY <1>20 DEF SweepWakes
<1>21. CASE SweepWoke
  BY <1>21 DEF SweepWoke
<1>22. CASE SweepCleans
  BY <1>22 DEF SweepCleans
<1>23. CASE SweepSyncs
  BY <1>23 DEF SweepSyncs
<1>24. CASE SweepKills
  BY <1>24 DEF SweepKills
<1>25. CASE SweepKillRefused
  BY <1>25 DEF SweepKillRefused
<1>26. CASE UNCHANGED vars
  BY <1>26 DEF vars
<1> QED
  BY <1>1, <1>2, <1>3, <1>4, <1>5, <1>6, <1>7, <1>8, <1>9, <1>10, <1>11, <1>12, <1>13, <1>14,
     <1>15, <1>16, <1>17, <1>18, <1>19, <1>20, <1>21, <1>22, <1>23, <1>24, <1>25, <1>26 DEF Next,
     Turn, Sweep

\* Every step takes rows that way.
LEMMA StepsTakeTogether == QInv /\ [Next]_vars => TakenTogether
<1> SUFFICES ASSUME QInv, [Next]_vars PROVE TakenTogether
  OBVIOUS
<1> USE QueueAssumption, TakeableIsFree DEF QInv, inbound, turn, container, host, history, Live,
   Runs, Claims, Acked, Dies, Unfinished, Synced, ResetStuck, AfterReset, Exhausted, Final, TypeOK,
   Phases, HandInv, FreshHasNothing, KnownInv, WorkersHoldTheirClaims, HeldOnce, TakenTogether,
   GetsTaken, Tasks
<1>1. ASSUME NEW m \in Messages, Arrive(m) PROVE TakenTogether
  BY <1>1 DEF Arrive
<1>2. ASSUME NEW m \in Messages, Due(m) PROVE TakenTogether
  BY <1>2 DEF Due
<1>3. ASSUME NEW c \in Containers, Spawn(c) PROVE TakenTogether
  BY <1>3 DEF Spawn
<1>4. ASSUME NEW c \in Containers, Boot(c) PROVE TakenTogether
  BY <1>4 DEF Boot
<1>5. ASSUME NEW c \in Containers, Poll(c) PROVE TakenTogether
  BY <1>5 DEF Poll
<1>6. ASSUME NEW c \in Containers, Gate(c) PROVE TakenTogether
  BY <1>6 DEF Gate
<1>7. ASSUME NEW c \in Containers, Result(c) PROVE TakenTogether
  BY <1>7 DEF Result
<1>8. ASSUME NEW c \in Containers, AbortForCommand(c) PROVE TakenTogether
  BY <1>8 DEF AbortForCommand
<1>9. ASSUME NEW c \in Containers, FollowUp(c) PROVE TakenTogether
  BY <1>9 DEF FollowUp
<1>10. ASSUME NEW c \in Containers, Push(c) PROVE TakenTogether
  BY <1>10 DEF Push
<1>11. ASSUME NEW c \in Containers, Strand(c) PROVE TakenTogether
  BY <1>11 DEF Strand
<1>12. ASSUME NEW c \in Containers, Heartbeat(c) PROVE TakenTogether
  BY <1>12 DEF Heartbeat
<1>13. ASSUME NEW c \in Containers, EndQuery(c) PROVE TakenTogether
  BY <1>13 DEF EndQuery
<1>14. ASSUME NEW c \in Containers, Crash(c) PROVE TakenTogether
  BY <1>14 DEF Crash
<1>15. ASSUME NEW c \in Containers, Freeze(c) PROVE TakenTogether
  BY <1>15 DEF Freeze
<1>16. ASSUME NEW c \in Containers, NEW m \in Messages, TakeAnswer(c, m) PROVE TakenTogether
  BY <1>16 DEF TakeAnswer
<1>17. CASE WakeFails
  BY <1>17 DEF WakeFails
<1>18. CASE Finish
  BY <1>18 DEF Finish
<1>19. CASE HostRestart
  BY <1>19 DEF HostRestart
<1>20. CASE SweepWakes
  BY <1>20 DEF SweepWakes
<1>21. CASE SweepWoke
  BY <1>21 DEF SweepWoke
<1>22. CASE SweepCleans
  BY <1>22 DEF SweepCleans
<1>23. CASE SweepSyncs
  BY <1>23 DEF SweepSyncs
<1>24. CASE SweepKills
  BY <1>24 DEF SweepKills
<1>25. CASE SweepKillRefused
  BY <1>25 DEF SweepKillRefused
<1>26. CASE UNCHANGED vars
  BY <1>26 DEF vars
<1> QED
  BY <1>1, <1>2, <1>3, <1>4, <1>5, <1>6, <1>7, <1>8, <1>9, <1>10, <1>11, <1>12, <1>13, <1>14,
     <1>15, <1>16, <1>17, <1>18, <1>19, <1>20, <1>21, <1>22, <1>23, <1>24, <1>25, <1>26 DEF Next,
     Turn, Sweep

-----------------------------------------------------------------------------
(* The theorems.                                                           *)

\* The initial states satisfy the invariant.
LEMMA QueueInit == Init => QInv
<1> SUFFICES ASSUME Init PROVE QInv
  OBVIOUS
<1> USE QueueAssumption DEF Init
<1>1. TypeOK
  <2>1. 0 \in 0 .. MaxTries /\ 0 \in 0 .. MaxFaults
    OBVIOUS
  <2>2. /\ status \in [Messages -> {"absent", "pending", "completed", "failed"}] /\ rank \in [Messages -> Nat]
        /\ tries \in [Messages -> 0 .. MaxTries] /\ takes \in [Messages -> Nat]
        /\ ack \in [Messages -> {"none", "processing", "completed", "error"}]
        /\ phase \in [Containers -> Phases]
    BY <2>1 DEF Phases
  <2> QED
    BY <2>1, <2>2 DEF TypeOK
<1>2. HandInv
  BY DEF HandInv, SingleWorker, Live, FreshHasNothing, HandsTakeNoAnswers, InHand
<1>3. ServedInv
  BY DEF ServedInv, CompletedWasServed, QueryWasServed, CompletedIsAcked, OwedIsFree
<1>4. TriesInv
  BY DEF TriesInv, TriesPaidByClaims, ClaimsAreUnpaid
<1>5. KnownInv
  BY DEF KnownInv, HostKnows, Live, WorkersHoldTheirClaims, Unfinished, HeldOnce
<1> QED
  BY <1>1, <1>2, <1>3, <1>4, <1>5 DEF QInv

\* The invariant is inductive.
LEMMA QueueStep == QInv /\ [Next]_vars => QInv'
<1> SUFFICES ASSUME QInv, [Next]_vars PROVE QInv'
  OBVIOUS
<1>1. TypeOK' /\ HandInv'
  BY QueueTypeStep, SingleWorkerStep, FreshHasNothingStep, HandsTakeNoAnswersStep DEF HandInv
<1>2. ServedInv'
  BY QueryWasServedStep, CompletedWasServedStep, CompletedIsAckedStep, OwedIsFreeStep DEF ServedInv
<1>3. TriesInv'
  BY ClaimsAreUnpaidStep, TriesPaidByClaimsStep DEF TriesInv
<1>4. KnownInv'
  BY HostKnowsStep, HeldOnceStep, WorkersHoldTheirClaimsStep DEF KnownInv
<1> QED
  BY <1>1, <1>2, <1>3, <1>4 DEF QInv

\* The invariant holds in every reachable state, whichever of the host and the
\* containers dies between two steps, and whatever docker refuses.
THEOREM QueueInvariant == Spec => []QInv
  BY QueueInit, QueueStep, PTL DEF Spec

\* The variables keep their types, the tries within MaxTries (host-sweep.ts).
THEOREM QueueTypes == Spec => []TypeOK
  BY QueueInvariant, PTL DEF QInv

\* A row is completed only when it was served, and one whose turn died without
\* a result is not closed as done by any cleanup (session-db.ts:168,
\* poll-loop.ts, host-sweep.ts).
THEOREM QueueServes == Spec => []Served
<1>1. QInv => Served
  BY DEF QInv, TypeOK, ServedInv, Served, OwedIsRetried, OwedIsFree, CompletedIsAcked, Final
<1> QED
  BY <1>1, QueueInvariant, PTL

\* The session has one live container, and unless docker misled the host
\* nobody else touches the rows it has claimed (container-runner.ts:379).
THEOREM ClaimsAreHeld == Spec => []ClaimsHeld
<1>1. QInv => ClaimsHeld
  BY DEF QInv, HandInv, KnownInv, ClaimsHeld
<1> QED
  BY <1>1, QueueInvariant, PTL

\* A row pays at most one try per claim, and is given up only after more than
\* MaxTries claims (host-sweep.ts:378).
THEOREM TriesArePaid == Spec => []TriesPaidByClaims
<1>1. QInv => TriesPaidByClaims
  BY DEF QInv, TriesInv
<1> QED
  BY <1>1, QueueInvariant, PTL

\* A settled row is never taken up again, and settled differently only after a
\* refused stop (session-db.ts:168, messages-in.ts).
THEOREM AckedStaysAcked == Spec => AckedNeverReplayed
<1>1. QInv /\ [Next]_vars => [SettledOnce]_vars
  BY SettledStays
<1> QED
  BY <1>1, QueueInvariant, PTL DEF Spec, AckedNeverReplayed, SettledOnce

\* A row that wakes the agent never overtakes an older one that is due,
\* whatever the cap (messages-in.ts:101).
THEOREM NothingOvertakes == Spec => NoOvertake
<1> DEFINE Ahead == \A m, q \in Messages :
       /\ ~misled
       /\ ack[m] = "none" /\ ack'[m] # "none" /\ Kind[m] # "system" /\ Trigger(m)
       /\ q \in Unclaimed /\ Kind[q] # "system" /\ Trigger(q) /\ rank[q] < rank[m]
       => ack'[q] # "none"
<1>1. QInv /\ [Next]_vars => Ahead
  <2> SUFFICES ASSUME QInv, [Next]_vars PROVE Ahead
    OBVIOUS
  <2>1. TakenTogether /\ TypeOK
    BY StepsTakeTogether DEF QInv
  <2> QED
    BY <2>1, WindowKeepsOrder DEF TakenTogether, GetsTaken
<1>2. QInv /\ [Next]_vars => [Ahead]_vars
  BY <1>1
<1> QED
  BY <1>2, QueueInvariant, PTL DEF Spec, NoOvertake

\* Context rows are taken up only beside a row that wakes the agent
\* (poll-loop.ts:188).
THEOREM ContextNeverEngages == Spec => ContextRidesAlong
<1> DEFINE Beside == \A q \in Messages :
       ~misled /\ Kind[q] = "context" /\ ack[q] = "none" /\ ack'[q] # "none"
       => \E m \in Takeable : Trigger(m) /\ ack'[m] # "none"
<1>1. QInv /\ [Next]_vars => [Beside]_vars
  BY StepsTakeTogether DEF TakenTogether, GetsTaken, Engages
<1> QED
  BY <1>1, QueueInvariant, PTL DEF Spec, ContextRidesAlong

-----------------------------------------------------------------------------
(* Induction.                                                              *)

\* Induction on numbers: a set that holds 0 and each successor of its members is Nat.
LEMMA SetInduction ==
  ASSUME NEW S \in SUBSET Nat, 0 \in S, \A n \in S : n + 1 \in S
  PROVE  S = Nat
<1> SUFFICES ASSUME S # Nat PROVE FALSE
  OBVIOUS
<1> DEFINE R == {ss \in Nat \X Nat : ss[1] < ss[2]}
<1>1. IsWellFoundedOn(R, Nat)
  BY NatLessThanWellFounded DEF OpToRel
<1>2. Nat \ S \subseteq Nat /\ Nat \ S # {}
  OBVIOUS
<1>3. PICK x \in Nat \ S : \A y \in Nat \ S : ~(<<y, x>> \in R)
  <2> HIDE DEF R
  <2> QED BY <1>1, <1>2, WFMin
<1>4. x # 0 /\ x - 1 \in Nat
  OBVIOUS
<1>5. <<x - 1, x>> \in R
  BY <1>4
<1>6. x - 1 \in S
  BY <1>3, <1>4, <1>5
<1>7. x - 1 + 1 \in S
  BY <1>6
<1> QED
  BY <1>4, <1>7

\* Induction up to a bound, on the members of a set.
LEMMA UpTo ==
  ASSUME NEW n \in Nat, NEW S, 0 \in S, \A k \in 0 .. n - 1 : k \in S => k + 1 \in S
  PROVE  0 .. n \subseteq S
<1> DEFINE D == {k \in Nat : k <= n => k \in S}
<1>1. D \in SUBSET Nat /\ 0 \in D
  OBVIOUS
<1>2. ASSUME NEW k \in D PROVE k + 1 \in D
  <2>1. CASE k + 1 <= n
    <3>1. k \in 0 .. n - 1 /\ k \in S
      BY <2>1
    <3> QED BY <3>1
  <2> QED BY <2>1
<1>3. D = Nat
  <2> HIDE DEF D
  <2> QED BY <1>1, <1>2, SetInduction
<1> QED BY <1>3

\* Induction on sequences, on the members of a set.
LEMMA SeqInduction ==
  ASSUME NEW T, NEW D \in SUBSET Seq(T), <<>> \in D, \A s \in D : \A t \in T : Append(s, t) \in D
  PROVE  D = Seq(T)
<1> DEFINE N == {n \in Nat : \A s \in Seq(T) : Len(s) = n => s \in D}
<1>1. 0 \in N
  BY EmptySeq
<1>2. ASSUME NEW n \in N PROVE n + 1 \in N
  <2> SUFFICES ASSUME NEW s \in Seq(T), Len(s) = n + 1 PROVE s \in D
    OBVIOUS
  <2>1. s # <<>>
    BY EmptySeq
  <2>2. PICK r \in Seq(T), t \in T : s = Append(r, t)
    BY <2>1, SequenceEmptyOrAppend
  <2>3. Len(r) = n
    BY <2>2, AppendProperties
  <2> QED BY <2>2, <2>3
<1>3. N = Nat
  <2>1. N \in SUBSET Nat
    OBVIOUS
  <2> HIDE DEF N
  <2> QED BY <1>1, <1>2, <2>1, SetInduction
<1>4. ASSUME NEW s \in Seq(T) PROVE s \in D
  <2>1. Len(s) \in N
    BY <1>3
  <2> QED BY <2>1
<1> QED BY <1>4

\* The tokens of a text, the blank and what the parts of the program say themselves.
Tokens == STRING \cup {"blank", "M", "notice", "cleared", "error", "denied"}

\* A sequence of one value.
LEMMA ConstantSeq ==
  ASSUME NEW n \in Nat, NEW S, NEW c \in S
  PROVE  /\ [i \in 1 .. n |-> c] \in Seq(S) /\ Len([i \in 1 .. n |-> c]) = n
         /\ \A i \in 1 .. n : [j \in 1 .. n |-> c][i] = c
<1> DEFINE b == [i \in 1 .. n |-> c]
<1>1. b \in [1 .. n -> S]
  OBVIOUS
<1>2. b \in Seq(S)
  BY <1>1
<1>3. DOMAIN b = 1 .. n /\ \A i \in 1 .. n : b[i] = c
  OBVIOUS
<1> HIDE DEF b
<1>4. Len(b) = n
  BY <1>2, <1>3, LenProperties
<1> QED BY <1>2, <1>3, <1>4 DEF b

\* What blanks out a span.
LEMMA BlanksAre ==
  ASSUME NEW n \in Nat
  PROVE  /\ [i \in 1 .. n |-> "blank"] \in Seq(Tokens) /\ Len([i \in 1 .. n |-> "blank"]) = n
         /\ \A i \in 1 .. n : [j \in 1 .. n |-> "blank"][i] = "blank"
<1>1. "blank" \in Tokens
  BY SMT DEF Tokens
<1> QED BY <1>1, ConstantSeq, Zenon

SpanLaw(f, s, n) == f = [i \in 0 .. n |-> IF i = 0 THEN NoSpan ELSE SpanStep(f[i - 1], s[i])]

\* The recursive function that reads the spans of a text exists ...
LEMMA SpanExists ==
  ASSUME NEW s, NEW n \in Nat
  PROVE  \E f : SpanLaw(f, s, n)
<1> DEFINE S == {k \in Nat : \E f : SpanLaw(f, s, k)}
<1>1. 0 \in S
  <2>1. SpanLaw([i \in 0 .. 0 |-> NoSpan], s, 0)
    BY DEF SpanLaw
  <2> QED BY <2>1
<1>2. ASSUME NEW k \in S PROVE k + 1 \in S
  <2>1. PICK f : SpanLaw(f, s, k)
    OBVIOUS
  <2> DEFINE g == [i \in 0 .. k + 1 |-> IF i <= k THEN f[i] ELSE SpanStep(f[k], s[k + 1])]
             h == [i \in 0 .. k + 1 |-> IF i = 0 THEN NoSpan ELSE SpanStep(g[i - 1], s[i])]
  <2>2. ASSUME NEW i \in 0 .. k + 1 PROVE g[i] = h[i]
    <3>1. CASE i = k + 1
      <4>1. g[i - 1] = f[k]
        BY <3>1
      <4> QED BY <3>1, <4>1
    <3>2. CASE i <= k
      <4>1. f[i] = IF i = 0 THEN NoSpan ELSE SpanStep(f[i - 1], s[i])
        BY <2>1, <3>2 DEF SpanLaw
      <4>2. i # 0 => g[i - 1] = f[i - 1]
        BY <3>2
      <4> QED BY <3>2, <4>1, <4>2
    <3> QED BY <3>1, <3>2
  <2>3. SpanLaw(g, s, k + 1)
    <3>1. g = h
      BY <2>2
    <3> QED BY <3>1 DEF SpanLaw
  <2> QED BY <2>3
<1>3. S = Nat
  <2>1. S \in SUBSET Nat
    OBVIOUS
  <2> HIDE DEF S
  <2> QED BY <1>1, <1>2, <2>1, SetInduction
<1> QED BY <1>3

\* ... and SpanRead is it.
LEMMA SpanReads ==
  ASSUME NEW s \in Seq(Tokens)
  PROVE  SpanLaw(SpanRead(s), s, Len(s))
<1>1. SpanRead(s) = CHOOSE g : SpanLaw(g, s, Len(s))
  BY Zenon DEF SpanRead, SpanLaw
<1>2. \E g : SpanLaw(g, s, Len(s))
  <2>1. Len(s) \in Nat
    OBVIOUS
  <2> QED BY <2>1, SpanExists
<1> QED BY <1>1, <1>2, Zenon

\* A text is read from the left.
LEMMA SpanAppend ==
  /\ Spans(<<>>) = NoSpan
  /\ \A s \in Seq(Tokens) : \A t \in Tokens : Spans(Append(s, t)) = SpanStep(Spans(s), t)
<1>1. Spans(<<>>) = NoSpan
  <2>1. <<>> \in Seq(Tokens) /\ Len(<<>>) = 0
    BY EmptySeq
  <2>2. SpanLaw(SpanRead(<<>>), <<>>, 0)
    BY <2>1, SpanReads
  <2>3. SpanRead(<<>>)[0] = NoSpan
    <3> DEFINE f == SpanRead(<<>>)
    <3> HIDE DEF f
    <3>1. SpanLaw(f, <<>>, 0)
      BY <2>2 DEF f
    <3>2. f[0] = NoSpan
      BY <3>1 DEF SpanLaw
    <3> QED BY <3>2 DEF f
  <2> QED BY <2>1, <2>3, Zenon DEF Spans
<1>2. ASSUME NEW s \in Seq(Tokens), NEW t \in Tokens
      PROVE  Spans(Append(s, t)) = SpanStep(Spans(s), t)
  <2> DEFINE u == Append(s, t)  f == SpanRead(s)  g == SpanRead(u)
             S == {k \in Nat : k <= Len(s) => f[k] = g[k]}
  <2>1. u \in Seq(Tokens) /\ Len(u) = Len(s) + 1 /\ u[Len(u)] = t /\ Len(s) \in Nat
        /\ \A i \in 1 .. Len(s) : u[i] = s[i]
    BY AppendProperties
  <2> HIDE DEF u
  <2>2. SpanLaw(f, s, Len(s)) /\ SpanLaw(g, u, Len(u))
    BY <2>1, SpanReads
  <2> HIDE DEF f, g
  <2>3. 0 \in S
    BY <2>1, <2>2 DEF SpanLaw
  <2>4. ASSUME NEW k \in S PROVE k + 1 \in S
    <3>1. CASE k + 1 <= Len(s)
      <4>1. f[k + 1] = SpanStep(f[k], s[k + 1])
        BY <2>1, <2>2, <3>1 DEF SpanLaw
      <4>2. g[k + 1] = SpanStep(g[k], u[k + 1])
        BY <2>1, <2>2, <3>1 DEF SpanLaw
      <4>3. f[k] = g[k] /\ u[k + 1] = s[k + 1]
        BY <2>1, <3>1
      <4> QED BY <4>1, <4>2, <4>3
    <3> QED BY <3>1
  <2>5. S = Nat
    <3>1. S \in SUBSET Nat
      OBVIOUS
    <3> HIDE DEF S
    <3> QED BY <2>3, <2>4, <3>1, SetInduction
  <2>6. f[Len(s)] = g[Len(s)]
    BY <2>1, <2>5
  <2>7. g[Len(u)] = SpanStep(g[Len(u) - 1], u[Len(u)])
    BY <2>1, <2>2 DEF SpanLaw
  <2>8. g[Len(u)] = SpanStep(f[Len(s)], t)
    BY <2>1, <2>6, <2>7
  <2> QED BY <2>8 DEF Spans, f, g, u
<1> QED BY <1>1, <1>2

BlockLaw(f, s, n) == f = [i \in 0 .. n |-> IF i = 0 THEN NoBlock ELSE BlockStep(f[i - 1], s[i])]

\* The same of the blocks of a text.
LEMMA BlockExists ==
  ASSUME NEW s, NEW n \in Nat
  PROVE  \E f : BlockLaw(f, s, n)
<1> DEFINE S == {k \in Nat : \E f : BlockLaw(f, s, k)}
<1>1. 0 \in S
  <2>1. BlockLaw([i \in 0 .. 0 |-> NoBlock], s, 0)
    BY DEF BlockLaw
  <2> QED BY <2>1
<1>2. ASSUME NEW k \in S PROVE k + 1 \in S
  <2>1. PICK f : BlockLaw(f, s, k)
    OBVIOUS
  <2> DEFINE g == [i \in 0 .. k + 1 |-> IF i <= k THEN f[i] ELSE BlockStep(f[k], s[k + 1])]
             h == [i \in 0 .. k + 1 |-> IF i = 0 THEN NoBlock ELSE BlockStep(g[i - 1], s[i])]
  <2>2. ASSUME NEW i \in 0 .. k + 1 PROVE g[i] = h[i]
    <3>1. CASE i = k + 1
      <4>1. g[i - 1] = f[k]
        BY <3>1
      <4> QED BY <3>1, <4>1
    <3>2. CASE i <= k
      <4>1. f[i] = IF i = 0 THEN NoBlock ELSE BlockStep(f[i - 1], s[i])
        BY <2>1, <3>2 DEF BlockLaw
      <4>2. i # 0 => g[i - 1] = f[i - 1]
        BY <3>2
      <4> QED BY <3>2, <4>1, <4>2
    <3> QED BY <3>1, <3>2
  <2>3. BlockLaw(g, s, k + 1)
    <3>1. g = h
      BY <2>2
    <3> QED BY <3>1 DEF BlockLaw
  <2> QED BY <2>3
<1>3. S = Nat
  <2>1. S \in SUBSET Nat
    OBVIOUS
  <2> HIDE DEF S
  <2> QED BY <1>1, <1>2, <2>1, SetInduction
<1> QED BY <1>3

\* BlockRead is the function that its recursion describes.
LEMMA BlockReads ==
  ASSUME NEW s \in Seq(Tokens)
  PROVE  BlockLaw(BlockRead(s), s, Len(s))
<1>1. BlockRead(s) = CHOOSE g : BlockLaw(g, s, Len(s))
  BY Zenon DEF BlockRead, BlockLaw
<1>2. \E g : BlockLaw(g, s, Len(s))
  <2>1. Len(s) \in Nat
    OBVIOUS
  <2> QED BY <2>1, BlockExists
<1> QED BY <1>1, <1>2, Zenon

\* A text is read from the left.
LEMMA BlockAppend ==
  /\ Blocks(<<>>) = NoBlock
  /\ \A s \in Seq(Tokens) : \A t \in Tokens : Blocks(Append(s, t)) = BlockStep(Blocks(s), t)
<1>1. Blocks(<<>>) = NoBlock
  <2>1. <<>> \in Seq(Tokens) /\ Len(<<>>) = 0
    BY EmptySeq
  <2>2. BlockLaw(BlockRead(<<>>), <<>>, 0)
    BY <2>1, BlockReads
  <2>3. BlockRead(<<>>)[0] = NoBlock
    <3> DEFINE f == BlockRead(<<>>)
    <3> HIDE DEF f
    <3>1. BlockLaw(f, <<>>, 0)
      BY <2>2 DEF f
    <3>2. f[0] = NoBlock
      BY <3>1 DEF BlockLaw
    <3> QED BY <3>2 DEF f
  <2> QED BY <2>1, <2>3, Zenon DEF Blocks
<1>2. ASSUME NEW s \in Seq(Tokens), NEW t \in Tokens
      PROVE  Blocks(Append(s, t)) = BlockStep(Blocks(s), t)
  <2> DEFINE u == Append(s, t)  f == BlockRead(s)  g == BlockRead(u)
             S == {k \in Nat : k <= Len(s) => f[k] = g[k]}
  <2>1. u \in Seq(Tokens) /\ Len(u) = Len(s) + 1 /\ u[Len(u)] = t /\ Len(s) \in Nat
        /\ \A i \in 1 .. Len(s) : u[i] = s[i]
    BY AppendProperties
  <2> HIDE DEF u
  <2>2. BlockLaw(f, s, Len(s)) /\ BlockLaw(g, u, Len(u))
    BY <2>1, BlockReads
  <2> HIDE DEF f, g
  <2>3. 0 \in S
    BY <2>1, <2>2 DEF BlockLaw
  <2>4. ASSUME NEW k \in S PROVE k + 1 \in S
    <3>1. CASE k + 1 <= Len(s)
      <4>1. f[k + 1] = BlockStep(f[k], s[k + 1])
        BY <2>1, <2>2, <3>1 DEF BlockLaw
      <4>2. g[k + 1] = BlockStep(g[k], u[k + 1])
        BY <2>1, <2>2, <3>1 DEF BlockLaw
      <4>3. f[k] = g[k] /\ u[k + 1] = s[k + 1]
        BY <2>1, <3>1
      <4> QED BY <4>1, <4>2, <4>3
    <3> QED BY <3>1
  <2>5. S = Nat
    <3>1. S \in SUBSET Nat
      OBVIOUS
    <3> HIDE DEF S
    <3> QED BY <2>3, <2>4, <3>1, SetInduction
  <2>6. f[Len(s)] = g[Len(s)]
    BY <2>1, <2>5
  <2>7. g[Len(u)] = BlockStep(g[Len(u) - 1], u[Len(u)])
    BY <2>1, <2>2 DEF BlockLaw
  <2>8. g[Len(u)] = BlockStep(f[Len(s)], t)
    BY <2>1, <2>6, <2>7
  <2> QED BY <2>8 DEF Blocks, f, g, u
<1> QED BY <1>1, <1>2

-----------------------------------------------------------------------------
(* The spans of a text.                                                    *)

SpanAcc == [kept : Seq(Tokens), masked : Seq(Tokens), held : Seq(Tokens)]

\* A word, the end of a span, or what comes after an open <internal>.
Word(pk, pm, ph, t, qk, qm, qh) ==
  ph = <<>> /\ t # "I" /\ qk = Append(pk, t) /\ qm = Append(pm, t) /\ qh = <<>>
SpanEnds(pk, pm, ph, t, qk, qm, qh) ==
  ph # <<>> /\ t = "J" /\ qk = pk /\ qm = pm \o [i \in 1 .. Len(ph) + 1 |-> "blank"] /\ qh = <<>>
SpanGrows(pk, pm, ph, t, qk, qm, qh) ==
  ((ph = <<>> /\ t = "I") \/ (ph # <<>> /\ t # "J")) /\ qk = pk /\ qm = pm /\ qh = Append(ph, t)
SpanMoves(pk, pm, ph, t, qk, qm, qh) ==
  \/ Word(pk, pm, ph, t, qk, qm, qh) \/ SpanEnds(pk, pm, ph, t, qk, qm, qh) \/ SpanGrows(pk, pm, ph, t, qk, qm, qh)

\* SpanStep keeps to the types and makes one of the three moves.
LEMMA SpanStepIs ==
  ASSUME NEW acc \in SpanAcc, NEW t \in Tokens
  PROVE  /\ SpanStep(acc, t) \in SpanAcc
         /\ SpanMoves(acc.kept, acc.masked, acc.held, t,
                      SpanStep(acc, t).kept, SpanStep(acc, t).masked, SpanStep(acc, t).held)
<1> DEFINE blanks == [i \in 1 .. Len(acc.held) + 1 |-> "blank"]
<1>1. acc.kept \in Seq(Tokens) /\ acc.masked \in Seq(Tokens) /\ acc.held \in Seq(Tokens)
  BY DEF SpanAcc
<1>2. blanks \in Seq(Tokens)
  <2>1. Len(acc.held) + 1 \in Nat
    BY <1>1
  <2> QED BY <2>1, BlanksAre, Zenon
<1> HIDE DEF blanks
<1>3. acc.masked \o blanks \in Seq(Tokens) /\ <<>> \in Seq(Tokens)
  BY <1>1, <1>2
<1>4. Append(acc.kept, t) \in Seq(Tokens) /\ Append(acc.masked, t) \in Seq(Tokens) /\ Append(acc.held, t) \in Seq(Tokens)
  BY <1>1
<1>5. CASE acc.held = <<>> /\ t # "I"
  BY <1>1, <1>3, <1>4, <1>5 DEF SpanAcc, SpanStep, SpanMoves, Word
<1>6. CASE acc.held # <<>> /\ t = "J"
  BY <1>1, <1>3, <1>4, <1>6 DEF SpanAcc, SpanStep, blanks, SpanMoves, SpanEnds
<1>7. CASE ~(acc.held = <<>> /\ t # "I") /\ ~(acc.held # <<>> /\ t = "J")
  BY <1>1, <1>3, <1>4, <1>7 DEF SpanAcc, SpanStep, SpanMoves, SpanGrows
<1> QED BY <1>5, <1>6, <1>7

\* A text and the blanks after it.
LEMMA BlankTail ==
  ASSUME NEW a \in Seq(Tokens), NEW n \in Nat
  PROVE  /\ Len(a \o [i \in 1 .. n |-> "blank"]) = Len(a) + n
         /\ \A i \in 1 .. Len(a) : (a \o [j \in 1 .. n |-> "blank"])[i] = a[i]
         /\ \A i \in Len(a) + 1 .. Len(a) + n : (a \o [j \in 1 .. n |-> "blank"])[i] = "blank"
<1> DEFINE b == [i \in 1 .. n |-> "blank"]
<1>1. b \in Seq(Tokens) /\ Len(b) = n /\ \A i \in 1 .. n : b[i] = "blank"
  BY BlanksAre, Zenon
<1> HIDE DEF b
<1>2. /\ Len(a \o b) = Len(a) + n
      /\ \A i \in 1 .. Len(a) + n : (a \o b)[i] = IF i <= Len(a) THEN a[i] ELSE b[i - Len(a)]
  BY <1>1, ConcatProperties
<1>3. \A i \in Len(a) + 1 .. Len(a) + n : i - Len(a) \in 1 .. n /\ i \in 1 .. Len(a) + n /\ ~(i <= Len(a))
  OBVIOUS
<1>4. \A i \in Len(a) + 1 .. Len(a) + n : (a \o b)[i] = "blank"
  BY <1>1, <1>2, <1>3
<1>5. \A i \in 1 .. Len(a) : (a \o b)[i] = a[i]
  BY <1>2
<1> QED BY <1>2, <1>4, <1>5 DEF b

\* An opened block after which nothing closes is there.
Hot(q) == \E i \in 1 .. Len(q) : q[i] \in Opens /\ \A j \in i .. Len(q) : q[j] # "C"

\* What is read of a text: the held part is an open span, the masked part has no
\* span left, and a place that is masked lies in a span that began inside of it.
SpanShape(s, kept, masked, open) ==
  /\ kept \in Seq(Tokens) /\ masked \in Seq(Tokens) /\ open \in Seq(Tokens)
  /\ Len(s) = Len(masked) + Len(open)
  /\ \A i \in 1 .. Len(open) : open[i] = s[Len(masked) + i]
  /\ open # <<>> => open[1] = "I"
SpanMask(s, masked) ==
  /\ \A i \in 1 .. Len(masked) : masked[i] # "I"
  /\ \A k \in 1 .. Len(masked) : masked[k] # s[k] =>
       \E j \in 1 .. k : s[j] = "I" /\ \A l \in j .. k : masked[l] = "blank"
  /\ \A i \in 1 .. Len(masked) : i = Len(s) /\ s[i] = "P" => masked[i] = "P"
SpanKept(s, kept, masked, open) ==
  SpanShape(s, kept, masked, open) /\ SpanMask(s, masked) /\ (Hot(kept) => Hot(masked))
SpanFact(s) == LET p == Spans(s) IN SpanKept(s, p.kept, p.masked, p.held)

\* A token closes what is open, opens something, or changes nothing.
LEMMA HotAppend ==
  ASSUME NEW q \in Seq(Tokens), NEW t \in Tokens
  PROVE  Hot(Append(q, t)) <=> (t # "C" /\ (Hot(q) \/ t \in Opens))
<1> DEFINE a == Append(q, t)
<1>1. Len(a) = Len(q) + 1 /\ a[Len(q) + 1] = t /\ Len(q) \in Nat
  BY AppendProperties
<1>2. \A i \in 1 .. Len(q) : a[i] = q[i]
  BY AppendProperties
<1> HIDE DEF a
<1>3. ASSUME Hot(a) PROVE t # "C" /\ (Hot(q) \/ t \in Opens)
  <2>1. PICK i \in 1 .. Len(a) : a[i] \in Opens /\ \A j \in i .. Len(a) : a[j] # "C"
    BY <1>3 DEF Hot
  <2>2. Len(a) \in i .. Len(a)
    BY <1>1
  <2>3. t # "C"
    BY <1>1, <2>1, <2>2
  <2>4. CASE i = Len(a)
    BY <1>1, <2>1, <2>3, <2>4
  <2>5. CASE i # Len(a)
    <3>1. i \in 1 .. Len(q) /\ q[i] \in Opens
      BY <1>1, <1>2, <2>1, <2>5
    <3>2. \A j \in i .. Len(q) : q[j] # "C"
      BY <1>1, <1>2, <2>1
    <3> QED BY <2>3, <3>1, <3>2 DEF Hot
  <2> QED BY <2>4, <2>5
<1>4. ASSUME t # "C", t \in Opens PROVE Hot(a)
  <2>1. Len(a) \in 1 .. Len(a) /\ a[Len(a)] \in Opens /\ \A j \in Len(a) .. Len(a) : a[j] # "C"
    BY <1>1, <1>4
  <2> QED BY <2>1 DEF Hot
<1>5. ASSUME t # "C", Hot(q) PROVE Hot(a)
  <2>1. PICK i \in 1 .. Len(q) : q[i] \in Opens /\ \A j \in i .. Len(q) : q[j] # "C"
    BY <1>5 DEF Hot
  <2>2. i \in 1 .. Len(a) /\ a[i] \in Opens
    BY <1>1, <1>2, <2>1
  <2>3. ASSUME NEW j \in i .. Len(a) PROVE a[j] # "C"
    BY <1>1, <1>2, <1>5, <2>1
  <2> QED BY <2>2, <2>3 DEF Hot
<1> QED BY <1>3, <1>4, <1>5 DEF a

\* What follows changes nothing if it neither opens nor closes.
LEMMA HotConcat ==
  ASSUME NEW q \in Seq(Tokens), NEW b \in Seq(Tokens), \A i \in 1 .. Len(b) : b[i] # "C", Hot(q)
  PROVE  Hot(q \o b)
<1> DEFINE a == q \o b
<1>1. Len(a) = Len(q) + Len(b) /\ Len(q) \in Nat /\ Len(b) \in Nat
  BY ConcatProperties
<1>2. \A i \in 1 .. Len(a) : a[i] = IF i <= Len(q) THEN q[i] ELSE b[i - Len(q)]
  BY ConcatProperties
<1> HIDE DEF a
<1>3. PICK i \in 1 .. Len(q) : q[i] \in Opens /\ \A j \in i .. Len(q) : q[j] # "C"
  BY DEF Hot
<1>4. i \in 1 .. Len(a) /\ a[i] \in Opens
  BY <1>1, <1>2, <1>3
<1>5. ASSUME NEW j \in i .. Len(a) PROVE a[j] # "C"
  <2>1. CASE j <= Len(q)
    BY <1>1, <1>2, <1>3, <2>1
  <2>2. CASE j > Len(q)
    <3>1. j - Len(q) \in 1 .. Len(b) /\ a[j] = b[j - Len(q)]
      BY <1>1, <1>2, <2>2
    <3> QED BY <3>1
  <2> QED BY <2>1, <2>2
<1> QED BY <1>4, <1>5 DEF Hot, a

\* One more token.
LEMMA SpanShapeStep ==
  ASSUME NEW s \in Seq(Tokens), NEW t \in Tokens, NEW u, u = Append(s, t),
         NEW pk, NEW pm, NEW ph, SpanKept(s, pk, pm, ph),
         NEW qk \in Seq(Tokens), NEW qm \in Seq(Tokens), NEW qh \in Seq(Tokens),
         SpanMoves(pk, pm, ph, t, qk, qm, qh)
  PROVE  SpanKept(u, qk, qm, qh)
<1> SUFFICES ASSUME SpanShape(s, pk, pm, ph), SpanMask(s, pm), Hot(pk) => Hot(pm)
             PROVE  SpanShape(u, qk, qm, qh) /\ SpanMask(u, qm) /\ (Hot(qk) => Hot(qm))
  BY DEF SpanKept
<1>2. u \in Seq(Tokens) /\ Len(u) = Len(s) + 1 /\ u[Len(u)] = t /\ Len(s) \in Nat
      /\ \A i \in 1 .. Len(s) : u[i] = s[i]
  BY AppendProperties
<1>4. pk \in Seq(Tokens) /\ pm \in Seq(Tokens) /\ ph \in Seq(Tokens)
  BY DEF SpanShape
<1>32. Len(s) = Len(pm) + Len(ph)
  BY DEF SpanShape
<1>33. \A i \in 1 .. Len(ph) : ph[i] = s[Len(pm) + i]
  BY DEF SpanShape
<1>34. ph # <<>> => ph[1] = "I"
  BY DEF SpanShape
<1>35. \A i \in 1 .. Len(pm) : pm[i] # "I"
  BY DEF SpanMask
<1>36. \A k \in 1 .. Len(pm) : pm[k] # s[k] =>
         \E j \in 1 .. k : s[j] = "I" /\ \A l \in j .. k : pm[l] = "blank"
  BY DEF SpanMask
<1>38. Hot(pk) => Hot(pm)
  OBVIOUS
<1>5. Len(pm) \in Nat /\ Len(ph) \in Nat /\ (ph = <<>> <=> Len(ph) = 0)
  BY <1>4, EmptySeq
<1>6. qk \in Seq(Tokens) /\ qm \in Seq(Tokens) /\ qh \in Seq(Tokens)
  OBVIOUS
<1> SUFFICES /\ Len(u) = Len(qm) + Len(qh)
             /\ \A i \in 1 .. Len(qh) : qh[i] = u[Len(qm) + i]
             /\ qh # <<>> => qh[1] = "I"
             /\ \A i \in 1 .. Len(qm) : qm[i] # "I"
             /\ \A k \in 1 .. Len(qm) : qm[k] # u[k] =>
                  \E j \in 1 .. k : u[j] = "I" /\ \A l \in j .. k : qm[l] = "blank"
             /\ \A i \in 1 .. Len(qm) : i = Len(u) /\ u[i] = "P" => qm[i] = "P"
             /\ Hot(qk) => Hot(qm)
  BY <1>6 DEF SpanShape, SpanMask
<1>7. CASE Word(pk, pm, ph, t, qk, qm, qh)
  <2>0. ph = <<>> /\ t # "I" /\ qk = Append(pk, t) /\ qm = Append(pm, t) /\ qh = <<>>
    BY <1>7 DEF Word
  <2>1. Len(qm) = Len(pm) + 1 /\ qm[Len(pm) + 1] = t
        /\ \A i \in 1 .. Len(pm) : qm[i] = pm[i]
    BY <1>4, <2>0, AppendProperties
  <2>2. Len(ph) = 0 /\ Len(qh) = 0 /\ Len(u) = Len(qm)
    BY <1>2, <1>32, <1>5, <2>0, <2>1
  <2>3. \A i \in 1 .. Len(qm) : qm[i] # "I"
    BY <1>35, <1>5, <2>0, <2>1
  <2>4. ASSUME NEW k \in 1 .. Len(qm), qm[k] # u[k]
        PROVE  \E j \in 1 .. k : u[j] = "I" /\ \A l \in j .. k : qm[l] = "blank"
    <3>1. k \in 1 .. Len(pm) /\ pm[k] # s[k]
      BY <1>2, <1>32, <1>5, <2>1, <2>2, <2>4
    <3>2. PICK j \in 1 .. k : s[j] = "I" /\ \A l \in j .. k : pm[l] = "blank"
      BY <1>36, <3>1
    <3>3. u[j] = "I"
      <4>1. j \in 1 .. Len(s)
        BY <1>2, <1>32, <1>5, <3>1, <3>2
      <4> QED BY <1>2, <3>2, <4>1
    <3>4. \A l \in j .. k : qm[l] = "blank"
      <4>1. \A l \in j .. k : l \in 1 .. Len(pm)
        BY <1>5, <3>1, <3>2
      <4> QED BY <2>1, <3>2, <4>1
    <3> QED BY <3>3, <3>4
  <2>5. \A i \in 1 .. Len(qm) : i = Len(u) /\ u[i] = "P" => qm[i] = "P"
    BY <1>2, <1>32, <1>5, <2>1, <2>2
  <2>6. Hot(qk) => Hot(qm)
    BY <1>38, <1>4, <2>0, HotAppend
  <2>7. qh = <<>> /\ Len(u) = Len(qm) + Len(qh)
    BY <2>0, <2>1, <2>2
  <2>8. \A i \in 1 .. Len(qh) : qh[i] = u[Len(qm) + i]
    BY <2>2
  <2> QED BY <1>6, <2>3, <2>4, <2>5, <2>6, <2>7, <2>8
<1>8. CASE SpanEnds(pk, pm, ph, t, qk, qm, qh)
  <2>1. ph # <<>> /\ t = "J" /\ qh = <<>> /\ qk = pk
    BY <1>8 DEF SpanEnds
  <2>2. Len(ph) + 1 \in Nat /\ Len(ph) >= 1
    BY <1>5, <2>1
  <2>3. /\ Len(qm) = Len(pm) + (Len(ph) + 1)
        /\ \A i \in 1 .. Len(qm) : (i <= Len(pm) => qm[i] = pm[i]) /\ (i > Len(pm) => qm[i] = "blank")
    <3> DEFINE n == Len(ph) + 1
    <3>1. qm = pm \o [i \in 1 .. n |-> "blank"]
      BY <1>8 DEF SpanEnds
    <3>2. n \in Nat
      BY <2>2
    <3> HIDE DEF n
    <3>3. /\ Len(qm) = Len(pm) + n
          /\ \A i \in 1 .. Len(pm) : qm[i] = pm[i]
          /\ \A i \in Len(pm) + 1 .. Len(pm) + n : qm[i] = "blank"
      BY <1>4, <3>1, <3>2, BlankTail, Zenon
    <3>4. ASSUME NEW i \in 1 .. Len(qm) PROVE (i <= Len(pm) => qm[i] = pm[i]) /\ (i > Len(pm) => qm[i] = "blank")
      <4>1. CASE i <= Len(pm)
        BY <1>5, <3>3, <4>1
      <4>2. CASE i > Len(pm)
        <5>1. i \in Len(pm) + 1 .. Len(pm) + n
          BY <1>5, <3>2, <3>3, <4>2
        <5> QED BY <1>5, <3>3, <4>2, <5>1
      <4> QED BY <1>5, <4>1, <4>2
    <3> QED BY <3>3, <3>4 DEF n
  <2>4. Len(qh) = 0 /\ Len(u) = Len(qm)
    BY <1>2, <1>32, <1>5, <2>1, <2>2, <2>3
  <2>5. ASSUME NEW i \in 1 .. Len(qm) PROVE qm[i] # "I"
    <3>1. CASE i <= Len(pm)
      <4>1. i \in 1 .. Len(pm) /\ qm[i] = pm[i]
        BY <1>5, <2>3, <3>1
      <4> QED BY <1>35, <4>1
    <3>2. CASE i > Len(pm)
      BY <2>3, <3>2
    <3> QED BY <1>5, <3>1, <3>2
  <2>6. ASSUME NEW k \in 1 .. Len(qm), qm[k] # u[k]
        PROVE  \E j \in 1 .. k : u[j] = "I" /\ \A l \in j .. k : qm[l] = "blank"
    <3>1. CASE k <= Len(pm)
      <4>1. k \in 1 .. Len(pm) /\ pm[k] # s[k]
        BY <1>2, <1>32, <1>5, <2>2, <2>3, <2>6, <3>1
      <4>2. PICK j \in 1 .. k : s[j] = "I" /\ \A l \in j .. k : pm[l] = "blank"
        BY <1>36, <4>1
      <4>3. u[j] = "I"
        <5>1. j \in 1 .. Len(s)
          BY <1>2, <1>32, <1>5, <4>1, <4>2
        <5> QED BY <1>2, <4>2, <5>1
      <4>4. ASSUME NEW l \in j .. k PROVE qm[l] = "blank"
        <5>1. l \in 1 .. Len(qm) /\ l <= Len(pm)
          BY <1>5, <2>2, <2>3, <4>1, <4>2
        <5> QED BY <2>3, <4>2, <5>1
      <4> QED BY <4>3, <4>4
    <3>2. CASE k > Len(pm)
      <4> DEFINE j == Len(pm) + 1
      <4>1. j \in 1 .. k /\ Len(ph) >= 1 /\ j \in 1 .. Len(s)
        BY <1>32, <1>5, <2>2, <3>2
      <4>2. u[j] = "I"
        BY <1>2, <1>5, <1>33, <1>34, <2>1, <4>1
      <4>3. ASSUME NEW l \in j .. k PROVE qm[l] = "blank"
        <5>1. l \in 1 .. Len(qm) /\ l > Len(pm)
          BY <1>5, <2>3
        <5> QED BY <2>3, <5>1
      <4> HIDE DEF j
      <4> QED BY <4>1, <4>2, <4>3
    <3>3. k <= Len(pm) \/ k > Len(pm)
      BY <1>5, <2>3
    <3> QED BY <3>1, <3>2, <3>3
  <2>7. u[Len(u)] # "P"
    BY <1>2, <2>1
  <2>8. Hot(qk) => Hot(qm)
    <3> DEFINE b == [i \in 1 .. Len(ph) + 1 |-> "blank"]
    <3>1. b \in Seq(Tokens) /\ \A i \in 1 .. Len(b) : b[i] # "C"
      <4>1. b \in Seq(Tokens) /\ Len(b) = Len(ph) + 1 /\ \A i \in 1 .. Len(ph) + 1 : b[i] = "blank"
        BY <2>2, BlanksAre, Zenon
      <4> HIDE DEF b
      <4> QED BY <4>1
    <3>2. qm = pm \o b
      BY <1>8 DEF SpanEnds
    <3> HIDE DEF b
    <3>3. Hot(pm) => Hot(qm)
      BY <1>4, <3>1, <3>2, HotConcat
    <3> QED BY <1>38, <2>1, <3>3
  <2>9. qh = <<>> /\ Len(u) = Len(qm) + Len(qh)
    BY <1>5, <2>1, <2>2, <2>3, <2>4
  <2>10. \A i \in 1 .. Len(qh) : qh[i] = u[Len(qm) + i]
    BY <2>4
  <2>11. \A i \in 1 .. Len(qm) : i = Len(u) /\ u[i] = "P" => qm[i] = "P"
    BY <2>7
  <2> QED BY <1>6, <2>5, <2>6, <2>8, <2>9, <2>10, <2>11
<1>9. CASE SpanGrows(pk, pm, ph, t, qk, qm, qh)
  <2>0. qm = pm /\ qk = pk /\ qh = Append(ph, t) /\ ((ph = <<>> /\ t = "I") \/ (ph # <<>> /\ t # "J"))
    BY <1>9 DEF SpanGrows
  <2>1. Len(qh) = Len(ph) + 1 /\ qh[Len(ph) + 1] = t /\ qh # <<>>
        /\ \A i \in 1 .. Len(ph) : qh[i] = ph[i]
    BY <1>4, <2>0, AppendProperties
  <2>2. Len(u) = Len(qm) + Len(qh)
    BY <1>2, <1>32, <1>5, <2>0, <2>1
  <2>3. ASSUME NEW i \in 1 .. Len(qh) PROVE qh[i] = u[Len(qm) + i]
    <3>1. CASE i = Len(ph) + 1
      BY <1>2, <1>32, <1>5, <2>0, <2>1, <3>1
    <3>2. CASE i # Len(ph) + 1
      <4>1. i \in 1 .. Len(ph) /\ Len(pm) + i \in 1 .. Len(s)
        BY <1>32, <1>5, <2>1, <3>2
      <4> QED BY <1>2, <1>33, <2>0, <2>1, <4>1
    <3> QED BY <3>1, <3>2
  <2>4. qh[1] = "I"
    <3>1. CASE ph = <<>>
      BY <2>0, <1>5, <2>1, <3>1
    <3>2. CASE ph # <<>>
      <4>1. 1 \in 1 .. Len(ph)
        BY <1>5, <3>2
      <4> QED BY <1>34, <2>1, <3>2, <4>1
    <3> QED BY <3>1, <3>2
  <2>5. ASSUME NEW k \in 1 .. Len(qm), qm[k] # u[k]
        PROVE  \E j \in 1 .. k : u[j] = "I" /\ \A l \in j .. k : qm[l] = "blank"
    <3>1. k \in 1 .. Len(pm) /\ pm[k] # s[k]
      BY <1>2, <1>32, <1>5, <2>0, <2>5
    <3>2. PICK j \in 1 .. k : s[j] = "I" /\ \A l \in j .. k : pm[l] = "blank"
      BY <1>36, <3>1
    <3>3. u[j] = "I"
      <4>1. j \in 1 .. Len(s)
        BY <1>2, <1>32, <1>5, <3>1, <3>2
      <4> QED BY <1>2, <3>2, <4>1
    <3>4. \A l \in j .. k : qm[l] = "blank"
      BY <2>0, <3>2
    <3> QED BY <3>3, <3>4
  <2>6. \A i \in 1 .. Len(qm) : i # Len(u)
    BY <1>5, <2>0, <2>1, <2>2
  <2>7. \A i \in 1 .. Len(qm) : qm[i] # "I"
    BY <1>35, <2>0
  <2>8. Hot(qk) => Hot(qm)
    BY <1>38, <2>0
  <2>9. qh # <<>> => qh[1] = "I"
    BY <2>4
  <2> HIDE DEF SpanAcc
  <2> QED BY <1>6, <2>2, <2>3, <2>5, <2>6, <2>7, <2>8, <2>9
<1> QED BY <1>7, <1>8, <1>9 DEF SpanMoves

\* One token more keeps what is known of the spans ...
LEMMA SpanFactStep ==
  ASSUME NEW s \in Seq(Tokens), NEW t \in Tokens, Spans(s) \in SpanAcc, SpanFact(s)
  PROVE  Spans(Append(s, t)) \in SpanAcc /\ SpanFact(Append(s, t))
<1> DEFINE u == Append(s, t)  p == Spans(s)  q == Spans(u)
<1>1. q = SpanStep(p, t) /\ p \in SpanAcc
  BY SpanAppend
<1>2. SpanKept(s, p.kept, p.masked, p.held)
  BY DEF SpanFact
<1> SUFFICES q \in SpanAcc /\ SpanKept(u, q.kept, q.masked, q.held)
  BY DEF SpanFact
<1> HIDE DEF p, q
<1>3. /\ q \in SpanAcc
      /\ SpanMoves(p.kept, p.masked, p.held, t, q.kept, q.masked, q.held)
  BY <1>1, SpanStepIs, Zenon
<1>4. q.kept \in Seq(Tokens) /\ q.masked \in Seq(Tokens) /\ q.held \in Seq(Tokens)
  BY <1>3 DEF SpanAcc
<1>5. SpanKept(u, q.kept, q.masked, q.held)
  BY <1>2, <1>3, <1>4, SpanShapeStep, Zenon
<1> QED BY <1>3, <1>5

\* ... so it is known of every text.
LEMMA SpanFacts == \A s \in Seq(Tokens) : Spans(s) \in SpanAcc /\ SpanFact(s)
<1> DEFINE D == {s \in Seq(Tokens) : Spans(s) \in SpanAcc /\ SpanFact(s)}
<1>1. <<>> \in D
  <2>1. <<>> \in Seq(Tokens) /\ Len(<<>>) = 0
    BY EmptySeq
  <2>2. NoSpan \in SpanAcc
    BY <2>1 DEF NoSpan, SpanAcc
  <2>3. ~Hot(<<>>)
    BY <2>1 DEF Hot
  <2>4. SpanShape(<<>>, <<>>, <<>>, <<>>) /\ SpanMask(<<>>, <<>>)
    BY <2>1 DEF SpanShape, SpanMask
  <2>5. Spans(<<>>) = NoSpan /\ NoSpan.kept = <<>> /\ NoSpan.masked = <<>> /\ NoSpan.held = <<>>
    BY SpanAppend DEF NoSpan
  <2>6. SpanFact(<<>>)
    BY <2>3, <2>4, <2>5 DEF SpanFact, SpanKept
  <2> QED BY <2>1, <2>2, <2>5, <2>6
<1>2. \A s \in D : \A t \in Tokens : Append(s, t) \in D
  <2> SUFFICES ASSUME NEW s \in D, NEW t \in Tokens PROVE Append(s, t) \in D
    OBVIOUS
  <2>1. s \in Seq(Tokens) /\ Spans(s) \in SpanAcc /\ SpanFact(s)
    OBVIOUS
  <2>2. Append(s, t) \in Seq(Tokens)
    BY <2>1, AppendProperties
  <2>3. Spans(Append(s, t)) \in SpanAcc /\ SpanFact(Append(s, t))
    BY <2>1, SpanFactStep
  <2> QED BY <2>2, <2>3
<1>3. D = Seq(Tokens)
  <2>1. D \in SUBSET Seq(Tokens)
    OBVIOUS
  <2> HIDE DEF D
  <2> QED BY <1>1, <1>2, <2>1, SeqInduction
<1> QED BY <1>3
-----------------------------------------------------------------------------
(* A text and what follows it.                                             *)

\* A sequence and one that ends in a token.
LEMMA AppendConcat ==
  ASSUME NEW T, NEW a \in Seq(T), NEW b \in Seq(T), NEW t \in T
  PROVE  a \o Append(b, t) = Append(a \o b, t)
<1>1. a \o b \in Seq(T) /\ <<t>> \in Seq(T)
  BY ConcatProperties
<1>2. Append(b, t) = b \o <<t>> /\ Append(a \o b, t) = (a \o b) \o <<t>>
  BY <1>1, AppendIsConcat
<1> QED BY <1>1, <1>2, ConcatAssociative

\* Three texts in a row, and a token after two.
Thrice(a, b, c) == (a \o b) \o c = a \o (b \o c)
EndsIn(a, b, t) == a \o Append(b, t) = Append(a \o b, t)

\* The order of joining does not matter.
LEMMA Concat3 == \A a, b, c \in Seq(Tokens) : Thrice(a, b, c)
  BY ConcatAssociative DEF Thrice

\* A token that is appended to the second is appended to both.
LEMMA Append3 == \A a, b \in Seq(Tokens), t \in Tokens : EndsIn(a, b, t)
<1>1. ASSUME NEW a \in Seq(Tokens), NEW b \in Seq(Tokens), NEW t \in Tokens PROVE EndsIn(a, b, t)
  BY AppendConcat DEF EndsIn
<1> QED BY <1>1

\* What the reading of a text gives.
LEMMA SpanIs ==
  ASSUME NEW s \in Seq(Tokens)
  PROVE  /\ Spans(s).kept \in Seq(Tokens) /\ Spans(s).masked \in Seq(Tokens) /\ Spans(s).held \in Seq(Tokens)
         /\ SpanShape(s, Spans(s).kept, Spans(s).masked, Spans(s).held)
         /\ SpanMask(s, Spans(s).masked)
         /\ Hot(Spans(s).kept) => Hot(Spans(s).masked)
         /\ \A t \in Tokens : SpanMoves(Spans(s).kept, Spans(s).masked, Spans(s).held, t,
                Spans(Append(s, t)).kept, Spans(Append(s, t)).masked, Spans(Append(s, t)).held)
<1>1. Spans(s) \in SpanAcc /\ SpanFact(s)
  BY SpanFacts
<1>2. Spans(s).kept \in Seq(Tokens) /\ Spans(s).masked \in Seq(Tokens) /\ Spans(s).held \in Seq(Tokens)
  BY <1>1 DEF SpanAcc
<1>3. /\ SpanShape(s, Spans(s).kept, Spans(s).masked, Spans(s).held)
      /\ SpanMask(s, Spans(s).masked)
      /\ Hot(Spans(s).kept) => Hot(Spans(s).masked)
  BY <1>1 DEF SpanFact, SpanKept
<1>4. ASSUME NEW t \in Tokens
      PROVE  SpanMoves(Spans(s).kept, Spans(s).masked, Spans(s).held, t,
                Spans(Append(s, t)).kept, Spans(Append(s, t)).masked, Spans(Append(s, t)).held)
  <2>1. Spans(Append(s, t)) = SpanStep(Spans(s), t)
    BY SpanAppend
  <2> QED BY <1>1, <2>1, SpanStepIs, Zenon
<1> QED BY <1>2, <1>3, <1>4

\* A text whose spans are closed is read apart from what follows.
LEMMA SpanConcat ==
  ASSUME NEW r \in Seq(Tokens), Spans(r).held = <<>>
  PROVE  \A u \in Seq(Tokens) :
           /\ Spans(r \o u).kept = Spans(r).kept \o Spans(u).kept
           /\ Spans(r \o u).masked = Spans(r).masked \o Spans(u).masked
           /\ Spans(r \o u).held = Spans(u).held
<1> DEFINE Q(u) == /\ Spans(r \o u).kept = Spans(r).kept \o Spans(u).kept
                   /\ Spans(r \o u).masked = Spans(r).masked \o Spans(u).masked
                   /\ Spans(r \o u).held = Spans(u).held
           D == {u \in Seq(Tokens) : Q(u)}
<1>1. <<>> \in D
  <2>1. <<>> \in Seq(Tokens) /\ r \o <<>> = r
    BY EmptySeq, ConcatEmptySeq
  <2>2. Spans(<<>>).kept = <<>> /\ Spans(<<>>).masked = <<>> /\ Spans(<<>>).held = <<>>
    BY SpanAppend DEF NoSpan
  <2>3. Spans(r).kept \o <<>> = Spans(r).kept /\ Spans(r).masked \o <<>> = Spans(r).masked
    BY SpanIs, ConcatEmptySeq
  <2> QED BY <2>1, <2>2, <2>3
<1>2. ASSUME NEW u \in D, NEW t \in Tokens PROVE Append(u, t) \in D
  <2> DEFINE rk == Spans(r).kept  rm == Spans(r).masked
             uk == Spans(u).kept  um == Spans(u).masked  uh == Spans(u).held
             v == Append(u, t)  w == r \o u
             vk == Spans(v).kept  vm == Spans(v).masked  vh == Spans(v).held
             ak == Spans(Append(w, t)).kept  am == Spans(Append(w, t)).masked  ah == Spans(Append(w, t)).held
  <2>1. u \in Seq(Tokens) /\ Q(u) /\ w \in Seq(Tokens) /\ v \in Seq(Tokens) /\ r \o v = Append(w, t)
    <3>1. u \in Seq(Tokens) /\ Q(u)
      OBVIOUS
    <3>2. w \in Seq(Tokens) /\ v \in Seq(Tokens)
      BY <3>1, AppendProperties, ConcatProperties
    <3>3. r \o v = Append(w, t)
      <4>1. EndsIn(r, u, t)
        BY <3>1, Append3, Zenon
      <4> QED BY <4>1 DEF EndsIn
    <3> QED BY <3>1, <3>2, <3>3
  <2>2. rk \in Seq(Tokens) /\ rm \in Seq(Tokens) /\ uk \in Seq(Tokens) /\ um \in Seq(Tokens)
    BY <2>1, SpanIs
  <2>3. SpanMoves(uk, um, uh, t, vk, vm, vh)
    BY <2>1, SpanIs
  <2>4. SpanMoves(rk \o uk, rm \o um, uh, t, ak, am, ah)
    <3>1. SpanMoves(Spans(w).kept, Spans(w).masked, Spans(w).held, t, ak, am, ah)
      BY <2>1, SpanIs
    <3> QED BY <2>1, <3>1, Zenon
  <2>5. ak = rk \o vk /\ am = rm \o vm /\ ah = vh
    <3> HIDE DEF rk, rm, uk, um, uh, v, w, vk, vm, vh, ak, am, ah
    <3>1. CASE Word(uk, um, uh, t, vk, vm, vh)
      <4>1. uh = <<>> /\ t # "I" /\ vk = Append(uk, t) /\ vm = Append(um, t) /\ vh = <<>>
        BY <3>1 DEF Word
      <4>2. ak = Append(rk \o uk, t) /\ am = Append(rm \o um, t) /\ ah = <<>>
        BY <2>4, <4>1 DEF SpanMoves, Word, SpanEnds, SpanGrows
      <4>3. rk \o Append(uk, t) = Append(rk \o uk, t)
        <5>1. EndsIn(rk, uk, t)
          BY <2>2, Append3, Zenon
        <5> QED BY <5>1 DEF EndsIn
      <4>4. rm \o Append(um, t) = Append(rm \o um, t)
        <5>1. EndsIn(rm, um, t)
          BY <2>2, Append3, Zenon
        <5> QED BY <5>1 DEF EndsIn
      <4> QED BY <4>1, <4>2, <4>3, <4>4
    <3>2. CASE SpanEnds(uk, um, uh, t, vk, vm, vh)
      <4> DEFINE b == [i \in 1 .. Len(uh) + 1 |-> "blank"]
      <4>1. uh # <<>> /\ t = "J" /\ vk = uk /\ vm = um \o b /\ vh = <<>>
        BY <3>2 DEF SpanEnds
      <4>2. ak = rk \o uk /\ am = (rm \o um) \o b /\ ah = <<>>
        BY <2>4, <4>1 DEF SpanMoves, Word, SpanEnds, SpanGrows
      <4>3. b \in Seq(Tokens)
        <5>1. uh \in Seq(Tokens)
          BY <2>1, SpanIs DEF uh
        <5>2. Len(uh) + 1 \in Nat
          BY <5>1
        <5> QED BY <5>2, BlanksAre, Zenon
      <4> HIDE DEF b
      <4>4. (rm \o um) \o b = rm \o (um \o b)
        <5>1. Thrice(rm, um, b)
          BY <2>2, <4>3, Concat3, Zenon
        <5> QED BY <5>1 DEF Thrice
      <4> QED BY <4>1, <4>2, <4>4
    <3>3. CASE SpanGrows(uk, um, uh, t, vk, vm, vh)
      <4>1. ((uh = <<>> /\ t = "I") \/ (uh # <<>> /\ t # "J")) /\ vk = uk /\ vm = um /\ vh = Append(uh, t)
        BY <3>3 DEF SpanGrows
      <4>2. ak = rk \o uk /\ am = rm \o um /\ ah = Append(uh, t)
        BY <2>4, <4>1 DEF SpanMoves, Word, SpanEnds, SpanGrows
      <4> QED BY <4>1, <4>2
    <3> QED BY <2>3, <3>1, <3>2, <3>3 DEF SpanMoves
  <2>6. Q(v)
    BY <2>1, <2>5
  <2> QED BY <2>1, <2>6
<1>3. D = Seq(Tokens)
  <2>1. D \in SUBSET Seq(Tokens)
    OBVIOUS
  <2> HIDE DEF D
  <2> QED BY <1>1, <1>2, <2>1, SeqInduction
<1> QED BY <1>3

\* An open span stays open, or the next token will be masked.
LEMMA OpenSpan ==
  ASSUME NEW r \in Seq(Tokens), Spans(r).held # <<>>
  PROVE  \A u \in Seq(Tokens) :
           \/ Spans(r \o u).held # <<>> /\ Spans(r \o u).masked = Spans(r).masked
           \/ Len(Spans(r \o u).masked) > Len(r) /\ Spans(r \o u).masked[Len(r) + 1] = "blank"
<1> DEFINE Q(u) == \/ Spans(r \o u).held # <<>> /\ Spans(r \o u).masked = Spans(r).masked
                   \/ Len(Spans(r \o u).masked) > Len(r) /\ Spans(r \o u).masked[Len(r) + 1] = "blank"
           D == {u \in Seq(Tokens) : Q(u)}
           rm == Spans(r).masked  rh == Spans(r).held
<1>0. rm \in Seq(Tokens) /\ rh \in Seq(Tokens) /\ Len(r) = Len(rm) + Len(rh) /\ Len(rm) < Len(r)
  <2>1. rm \in Seq(Tokens) /\ rh \in Seq(Tokens) /\ rh # <<>>
    BY SpanIs
  <2>2. Len(r) = Len(rm) + Len(rh)
    BY SpanIs DEF SpanShape
  <2> HIDE DEF rm, rh
  <2>3. Len(rh) \in Nat \ {0}
    BY <2>1, EmptySeq
  <2> QED BY <2>1, <2>2, <2>3
<1>1. <<>> \in D
  <2>1. <<>> \in Seq(Tokens) /\ r \o <<>> = r
    BY EmptySeq, ConcatEmptySeq
  <2> QED BY <2>1
<1>2. ASSUME NEW u \in D, NEW t \in Tokens PROVE Append(u, t) \in D
  <2> DEFINE v == Append(u, t)  w == r \o u
             wk == Spans(w).kept  wm == Spans(w).masked  wh == Spans(w).held
             ak == Spans(Append(w, t)).kept  am == Spans(Append(w, t)).masked  ah == Spans(Append(w, t)).held
  <2>1. u \in Seq(Tokens) /\ Q(u) /\ w \in Seq(Tokens) /\ v \in Seq(Tokens) /\ r \o v = Append(w, t)
    <3>1. u \in Seq(Tokens) /\ Q(u)
      OBVIOUS
    <3>2. w \in Seq(Tokens) /\ v \in Seq(Tokens)
      BY <3>1, AppendProperties, ConcatProperties
    <3>3. r \o v = Append(w, t)
      <4>1. EndsIn(r, u, t)
        BY <3>1, Append3, Zenon
      <4> QED BY <4>1 DEF EndsIn
    <3> QED BY <3>1, <3>2, <3>3
  <2>2. Len(w) = Len(r) + Len(u) /\ Len(r) \in Nat /\ Len(u) \in Nat
    BY <2>1, ConcatProperties
  <2>3. wm \in Seq(Tokens) /\ wh \in Seq(Tokens) /\ SpanMoves(wk, wm, wh, t, ak, am, ah)
    BY <2>1, SpanIs
  <2>4. Len(w) = Len(wm) + Len(wh)
    BY <2>1, SpanIs DEF SpanShape
  <2>5. \/ wh # <<>> /\ wm = rm
        \/ Len(wm) > Len(r) /\ wm[Len(r) + 1] = "blank"
    BY <2>1
  <2>6. \/ ah # <<>> /\ am = rm
        \/ Len(am) > Len(r) /\ am[Len(r) + 1] = "blank"
    <3> HIDE DEF v, w, wk, wm, wh, ak, am, ah, rm, rh
    <3>0. Len(wm) \in Nat /\ Len(wh) \in Nat
      BY <2>3
    <3>1. CASE Word(wk, wm, wh, t, ak, am, ah)
      <4>1. wh = <<>> /\ am = Append(wm, t)
        BY <3>1 DEF Word
      <4>2. Len(wm) > Len(r) /\ wm[Len(r) + 1] = "blank"
        BY <2>5, <4>1
      <4>3. Len(am) = Len(wm) + 1 /\ \A i \in 1 .. Len(wm) : am[i] = wm[i]
        BY <2>3, <4>1, AppendProperties
      <4>4. Len(r) + 1 \in 1 .. Len(wm)
        BY <2>2, <3>0, <4>2
      <4> QED BY <2>2, <3>0, <4>2, <4>3, <4>4
    <3>2. CASE SpanEnds(wk, wm, wh, t, ak, am, ah)
      <4> DEFINE n == Len(wh) + 1
      <4>1. wh # <<>> /\ am = wm \o [i \in 1 .. n |-> "blank"]
        BY <3>2 DEF SpanEnds
      <4>2. n \in Nat
        BY <3>0
      <4> HIDE DEF n
      <4>3. /\ Len(am) = Len(wm) + n
            /\ \A i \in 1 .. Len(wm) : am[i] = wm[i]
            /\ \A i \in Len(wm) + 1 .. Len(wm) + n : am[i] = "blank"
        BY <2>3, <4>1, <4>2, BlankTail, Zenon
      <4>4. CASE wm = rm
        <5>1. Len(r) + 1 \in Len(wm) + 1 .. Len(wm) + n /\ Len(am) > Len(r)
          BY <1>0, <2>2, <2>4, <3>0, <4>3, <4>4 DEF n
        <5> QED BY <4>3, <5>1
      <4>5. CASE Len(wm) > Len(r) /\ wm[Len(r) + 1] = "blank"
        <5>1. Len(r) + 1 \in 1 .. Len(wm) /\ Len(am) > Len(r)
          BY <2>2, <3>0, <4>2, <4>3, <4>5
        <5> QED BY <4>3, <4>5, <5>1
      <4> QED BY <2>5, <4>4, <4>5
    <3>3. CASE SpanGrows(wk, wm, wh, t, ak, am, ah)
      <4>1. am = wm /\ ah = Append(wh, t)
        BY <3>3 DEF SpanGrows
      <4>2. ah # <<>>
        BY <2>3, <4>1, AppendProperties
      <4> QED BY <2>5, <4>1, <4>2
    <3> QED BY <2>3, <3>1, <3>2, <3>3 DEF SpanMoves
  <2>7. Q(v)
    BY <2>1, <2>6
  <2> QED BY <2>1, <2>7
<1>3. D = Seq(Tokens)
  <2>1. D \in SUBSET Seq(Tokens)
    OBVIOUS
  <2> HIDE DEF D
  <2> QED BY <1>1, <1>2, <2>1, SeqInduction
<1> QED BY <1>3

\* The masked text: as long as the text, and different only where a span is blanked.
LEMMA MaskedIs ==
  ASSUME NEW s \in Seq(Tokens)
  PROVE  /\ Masked(s) \in Seq(Tokens) /\ Len(Masked(s)) = Len(s)
         /\ \A i \in 1 .. Len(s) : Masked(s)[i] # s[i] => Masked(s)[i] = "blank"
         /\ Spans(s).held = <<>> => Masked(s) = Spans(s).masked
         /\ Spans(s).held # <<>> =>
              /\ Len(Spans(s).masked) + 1 \in 1 .. Len(s)
              /\ Masked(s)[Len(Spans(s).masked) + 1] = "I"
<1> DEFINE m == Spans(s).masked  h == Spans(s).held  a == Masked(s)
<1>1. m \in Seq(Tokens) /\ h \in Seq(Tokens) /\ SpanMask(s, m) /\ a = m \o h
  BY SpanIs DEF Masked
<1>2. Len(s) = Len(m) + Len(h) /\ (\A i \in 1 .. Len(h) : h[i] = s[Len(m) + i]) /\ (h # <<>> => h[1] = "I")
  BY SpanIs DEF SpanShape
<1> SUFFICES /\ a \in Seq(Tokens) /\ Len(a) = Len(s)
             /\ \A i \in 1 .. Len(s) : a[i] # s[i] => a[i] = "blank"
             /\ h = <<>> => a = m
             /\ h # <<>> => Len(m) + 1 \in 1 .. Len(s) /\ a[Len(m) + 1] = "I"
  OBVIOUS
<1> HIDE DEF m, h, a
<1>3. Len(m) \in Nat /\ Len(h) \in Nat /\ Len(s) \in Nat
  BY <1>1
<1>4. /\ a \in Seq(Tokens) /\ Len(a) = Len(m) + Len(h)
      /\ \A i \in 1 .. Len(m) + Len(h) : a[i] = IF i <= Len(m) THEN m[i] ELSE h[i - Len(m)]
  BY <1>1, ConcatProperties
<1>5. ASSUME NEW i \in 1 .. Len(s), a[i] # s[i] PROVE a[i] = "blank"
  <2>1. CASE i <= Len(m)
    <3>1. i \in 1 .. Len(m) /\ m[i] # s[i] /\ a[i] = m[i]
      BY <1>2, <1>3, <1>4, <1>5, <2>1
    <3>2. PICK j \in 1 .. i : s[j] = "I" /\ \A l \in j .. i : m[l] = "blank"
      BY <1>1, <3>1 DEF SpanMask
    <3>3. i \in j .. i
      BY <3>1, <3>2
    <3> QED BY <3>1, <3>2, <3>3
  <2>2. CASE ~(i <= Len(m))
    <3>1. i - Len(m) \in 1 .. Len(h) /\ a[i] = h[i - Len(m)] /\ Len(m) + (i - Len(m)) = i
      BY <1>2, <1>3, <1>4, <2>2
    <3>2. h[i - Len(m)] = s[i]
      BY <1>2, <3>1
    <3> QED BY <1>5, <3>1, <3>2
  <2> QED BY <2>1, <2>2
<1>6. h = <<>> => a = m
  BY <1>1, ConcatEmptySeq
<1>7. ASSUME h # <<>> PROVE Len(m) + 1 \in 1 .. Len(s) /\ a[Len(m) + 1] = "I"
  <2>1. Len(h) \in Nat \ {0}
    BY <1>1, <1>7, EmptySeq
  <2>2. Len(m) + 1 \in 1 .. Len(m) + Len(h) /\ ~(Len(m) + 1 <= Len(m)) /\ Len(m) + 1 - Len(m) = 1
    BY <1>3, <2>1
  <2>3. a[Len(m) + 1] = h[1]
    BY <1>4, <2>2
  <2> QED BY <1>2, <1>7, <2>2, <2>3
<1> QED BY <1>2, <1>4, <1>5, <1>6, <1>7

\* So the masked and the visible text of two parts are those of each part.
LEMMA MaskedConcat ==
  ASSUME NEW r \in Seq(Tokens), Spans(r).held = <<>>, NEW u \in Seq(Tokens)
  PROVE  /\ Masked(r \o u) = Masked(r) \o Masked(u)
         /\ Visible(r \o u) = Visible(r) \o Visible(u)
<1>1. /\ Spans(r).kept \in Seq(Tokens) /\ Spans(r).masked \in Seq(Tokens)
      /\ Spans(u).kept \in Seq(Tokens) /\ Spans(u).masked \in Seq(Tokens) /\ Spans(u).held \in Seq(Tokens)
  BY SpanIs
<1>2. /\ Masked(r) = Spans(r).masked /\ Visible(r) = Spans(r).kept
  <2>1. Spans(r).masked \o <<>> = Spans(r).masked /\ Spans(r).kept \o <<>> = Spans(r).kept
    BY <1>1, ConcatEmptySeq
  <2> QED BY <2>1 DEF Masked, Visible
<1>3. /\ Masked(r \o u) = (Spans(r).masked \o Spans(u).masked) \o Spans(u).held
      /\ Visible(r \o u) = (Spans(r).kept \o Spans(u).kept) \o Spans(u).held
  BY SpanConcat DEF Masked, Visible
<1> DEFINE rm == Spans(r).masked  rk == Spans(r).kept  um == Spans(u).masked  uk == Spans(u).kept
           uh == Spans(u).held
<1>6. rm \in Seq(Tokens) /\ rk \in Seq(Tokens) /\ um \in Seq(Tokens) /\ uk \in Seq(Tokens) /\ uh \in Seq(Tokens)
  BY <1>1
<1>7. (rm \o um) \o uh = rm \o (um \o uh) /\ (rk \o uk) \o uh = rk \o (uk \o uh)
  <2> HIDE DEF rm, rk, um, uk, uh
  <2>0. rm \in Seq(Tokens) /\ um \in Seq(Tokens) /\ uh \in Seq(Tokens)
    BY <1>6
  <2>1. (rm \o um) \o uh = rm \o (um \o uh)
    <3>1. Thrice(rm, um, uh)
      BY <2>0, Concat3, Zenon
    <3> QED BY <3>1 DEF Thrice
  <2>3. rk \in Seq(Tokens) /\ uk \in Seq(Tokens) /\ uh \in Seq(Tokens)
    BY <1>6
  <2>2. (rk \o uk) \o uh = rk \o (uk \o uh)
    <3>1. Thrice(rk, uk, uh)
      BY <2>3, Concat3, Zenon
    <3> QED BY <3>1 DEF Thrice
  <2> QED BY <2>1, <2>2
<1>8. Masked(u) = um \o uh /\ Visible(u) = uk \o uh
  BY DEF Masked, Visible
<1> QED BY <1>2, <1>3, <1>7, <1>8, Zenon

-----------------------------------------------------------------------------
(* Where the settled part of a text ends.                                  *)

\* A set of numbers with a member has a least one.
LEMMA LeastIs ==
  ASSUME NEW S \in SUBSET Nat, S # {}
  PROVE  Least(S) \in S /\ \A y \in S : Least(S) <= y
<1> DEFINE R == {ss \in Nat \X Nat : ss[1] < ss[2]}
<1>1. IsWellFoundedOn(R, Nat)
  BY NatLessThanWellFounded DEF OpToRel
<1>2. PICK x \in S : \A y \in S : ~(<<y, x>> \in R)
  <2> HIDE DEF R
  <2> QED BY <1>1, WFMin
<1>3. \A y \in S : x <= y
  <2> SUFFICES ASSUME NEW y \in S PROVE x <= y
    OBVIOUS
  <2>1. ~(<<y, x>> \in R) /\ x \in Nat /\ y \in Nat
    BY <1>2
  <2> QED BY <2>1
<1>4. \E z \in S : \A y \in S : z <= y
  BY <1>3
<1> QED BY <1>4 DEF Least

Candidates(m) == {i \in 1 .. Len(m) : m[i] = "I"} \cup Growing(m)

\* The place is the first that is still open, or the half tag at the end.
Starts(m, k) ==
  \/ k \in Candidates(m) /\ \A x \in Candidates(m) : k <= x
  \/ Candidates(m) = {} /\ k = Cut(m)

\* A masked text has one place where its tail starts ...
LEMMA StartsOnce ==
  ASSUME NEW m \in Seq(Tokens), NEW a, NEW b, Starts(m, a), Starts(m, b) PROVE a = b
<1>1. Candidates(m) \subseteq 1 .. Len(m) /\ Len(m) \in Nat
  BY DEF Candidates, Growing
<1> QED BY <1>1 DEF Starts

\* ... and TailStart is that place.
LEMMA TailStartIs ==
  ASSUME NEW s \in Seq(Tokens)
  PROVE  TailStart(s) \in 1 .. Len(s) + 1 /\ Starts(Masked(s), TailStart(s))
<1> DEFINE m == Masked(s)  D == Candidates(m)
<1>1. m \in Seq(Tokens) /\ Len(m) = Len(s) /\ Len(s) \in Nat
  BY MaskedIs
<1>2. D \subseteq 1 .. Len(m) /\ D \in SUBSET Nat
  BY <1>1 DEF Candidates, Growing
<1>3. TailStart(s) = IF D # {} THEN Least(D) ELSE Cut(m)
  BY DEF TailStart, Candidates
<1> HIDE DEF m, D
<1>4. CASE D # {}
  <2>1. TailStart(s) \in D /\ \A x \in D : TailStart(s) <= x
    BY <1>2, <1>3, <1>4, LeastIs
  <2> QED BY <1>1, <1>2, <2>1 DEF Starts, D, m
<1>5. CASE D = {}
  <2>1. TailStart(s) = Cut(m)
    BY <1>3, <1>5
  <2>2. Cut(m) \in 1 .. Len(m) + 1
    <3>1. m # <<>> => Len(m) \in 1 .. Len(m) + 1
      BY <1>1, EmptySeq
    <3> QED BY <1>1, <3>1 DEF Cut
  <2> QED BY <1>1, <1>5, <2>1, <2>2 DEF Starts, D, m
<1> QED BY <1>4, <1>5

\* A text is its settled part and the rest.
LEMMA ResolvedIs ==
  ASSUME NEW s \in Seq(Tokens)
  PROVE  /\ Resolved(s) \in Seq(Tokens) /\ Unresolved(s) \in Seq(Tokens)
         /\ s = Resolved(s) \o Unresolved(s)
         /\ Len(Resolved(s)) + 1 = TailStart(s)
<1> DEFINE n == TailStart(s) - 1
<1>1. n \in 0 .. Len(s) /\ n + 1 = TailStart(s) /\ Len(s) \in Nat
  BY TailStartIs
<1>2. Resolved(s) = SubSeq(s, 1, n) /\ Unresolved(s) = SubSeq(s, n + 1, Len(s))
  BY <1>1 DEF Resolved, Unresolved
<1> HIDE DEF n
<1>3. SubSeq(s, 1, n) \in Seq(Tokens) /\ Len(SubSeq(s, 1, n)) = n
  <2>1. \A i \in 1 .. n : s[i] \in Tokens
    BY <1>1
  <2> QED BY <1>1, <2>1, SubSeqProperties
<1>4. SubSeq(s, n + 1, Len(s)) \in Seq(Tokens)
  <2>1. \A i \in n + 1 .. Len(s) : s[i] \in Tokens
    BY <1>1
  <2>2. n + 1 \in Int /\ Len(s) \in Int
    BY <1>1
  <2> QED BY <2>1, <2>2, SubSeqProperties
<1>5. SubSeq(s, 1, n) \o SubSeq(s, n + 1, Len(s)) = SubSeq(s, 1, Len(s)) /\ SubSeq(s, 1, Len(s)) = s
  <2>1. 1 \in 1 .. Len(s) + 1 /\ n \in 1 - 1 .. Len(s) /\ Len(s) \in n .. Len(s)
    BY <1>1
  <2> QED BY <2>1, ConcatAdjacentSubSeq, SubSeqFull
<1> QED BY <1>1, <1>2, <1>3, <1>4, <1>5

\* The settled part ends outside of every span.
LEMMA SettledIsClosed ==
  ASSUME NEW s \in Seq(Tokens) PROVE Spans(Resolved(s)).held = <<>>
<1> DEFINE r == Resolved(s)  u == Unresolved(s)  T == TailStart(s)  m == Masked(s)
           rm == Spans(r).masked  sm == Spans(s).masked  sh == Spans(s).held
<1>1. r \in Seq(Tokens) /\ u \in Seq(Tokens) /\ s = r \o u /\ Len(r) + 1 = T /\ Len(r) \in Nat
  <2>1. r \in Seq(Tokens) /\ u \in Seq(Tokens) /\ s = r \o u /\ Len(r) + 1 = T
    BY ResolvedIs, Zenon
  <2> HIDE DEF r
  <2>2. Len(r) \in Nat
    BY <2>1
  <2> QED BY <2>1, <2>2
<1>2. T \in 1 .. Len(s) + 1 /\ Starts(m, T)
  BY TailStartIs
<1>3. /\ m \in Seq(Tokens) /\ Len(m) = Len(s) /\ Len(s) \in Nat
      /\ sh # <<>> => Len(sm) + 1 \in 1 .. Len(s) /\ m[Len(sm) + 1] = "I"
  BY MaskedIs
<1>4. sm \in Seq(Tokens) /\ sh \in Seq(Tokens) /\ m = sm \o sh
  BY SpanIs DEF Masked
<1> SUFFICES ASSUME Spans(r).held # <<>> PROVE FALSE
  OBVIOUS
<1>5. \/ sh # <<>> /\ sm = rm
      \/ Len(sm) > Len(r) /\ sm[Len(r) + 1] = "blank"
  BY <1>1, OpenSpan
<1>6. rm \in Seq(Tokens) /\ Len(rm) < Len(r)
  <2>1. rm \in Seq(Tokens) /\ Spans(r).held \in Seq(Tokens) /\ Len(r) = Len(rm) + Len(Spans(r).held)
    BY <1>1, SpanIs DEF SpanShape
  <2> DEFINE rh == Spans(r).held
  <2>2. rh \in Seq(Tokens) /\ rh # <<>> /\ Len(r) = Len(rm) + Len(rh) /\ rm \in Seq(Tokens)
    BY <2>1
  <2> HIDE DEF rh, rm, r
  <2>3. Len(rh) \in Nat \ {0} /\ Len(rm) \in Nat
    BY <2>2, EmptySeq
  <2> QED BY <2>2, <2>3
<1> HIDE DEF r, u, T, m, rm, sm, sh
<1>7. CASE sh # <<>> /\ sm = rm
  <2>1. Len(rm) + 1 \in Candidates(m)
    BY <1>3, <1>7 DEF Candidates
  <2>2. T <= Len(rm) + 1
    BY <1>2, <2>1 DEF Starts
  <2> QED BY <1>1, <1>6, <2>2
<1>8. CASE Len(sm) > Len(r) /\ sm[Len(r) + 1] = "blank"
  <2>1. T \in 1 .. Len(sm) /\ sm[T] = "blank" /\ Len(sm) \in Nat
    BY <1>1, <1>4, <1>8
  <2>2. m[T] = "blank" /\ T \in 1 .. Len(m)
    <3>1. Len(m) = Len(sm) + Len(sh) /\ Len(sh) \in Nat
      BY <1>4, ConcatProperties
    <3>2. \A i \in 1 .. Len(sm) + Len(sh) : m[i] = IF i <= Len(sm) THEN sm[i] ELSE sh[i - Len(sm)]
      BY <1>4, ConcatProperties
    <3> QED BY <2>1, <3>1, <3>2
  <2>3. T \notin Candidates(m)
    BY <2>2 DEF Candidates, Growing, Opens
  <2>4. T = Cut(m)
    BY <1>2, <2>3 DEF Starts
  <2> QED BY <1>3, <2>2, <2>4 DEF Cut
<1> QED BY <1>5, <1>7, <1>8

\* What is open at the end of two texts was opened in one of them.
LEMMA HotEither ==
  ASSUME NEW a \in Seq(Tokens), NEW b \in Seq(Tokens), Hot(a \o b) PROVE Hot(a) \/ Hot(b)
<1> DEFINE c == a \o b
<1>1. Len(c) = Len(a) + Len(b) /\ Len(a) \in Nat /\ Len(b) \in Nat
  BY ConcatProperties
<1>2. \A i \in 1 .. Len(c) : c[i] = IF i <= Len(a) THEN a[i] ELSE b[i - Len(a)]
  BY ConcatProperties
<1>3. PICK i \in 1 .. Len(c) : c[i] \in Opens /\ \A j \in i .. Len(c) : c[j] # "C"
  BY DEF Hot
<1> HIDE DEF c
<1>4. CASE i <= Len(a)
  <2>1. i \in 1 .. Len(a) /\ a[i] \in Opens
    BY <1>1, <1>2, <1>3, <1>4
  <2>2. ASSUME NEW j \in i .. Len(a) PROVE a[j] # "C"
    <3>1. j \in i .. Len(c) /\ j \in 1 .. Len(c) /\ j <= Len(a)
      BY <1>1
    <3> QED BY <1>2, <1>3, <3>1
  <2> QED BY <2>1, <2>2 DEF Hot
<1>5. CASE ~(i <= Len(a))
  <2>1. i - Len(a) \in 1 .. Len(b) /\ b[i - Len(a)] \in Opens
    BY <1>1, <1>2, <1>3, <1>5
  <2>2. ASSUME NEW j \in i - Len(a) .. Len(b) PROVE b[j] # "C"
    <3>1. j + Len(a) \in i .. Len(c) /\ j + Len(a) \in 1 .. Len(c) /\ ~(j + Len(a) <= Len(a)) /\ j + Len(a) - Len(a) = j
      BY <1>1, <1>5
    <3>2. c[j + Len(a)] # "C" /\ c[j + Len(a)] = b[j + Len(a) - Len(a)]
      BY <1>2, <1>3, <3>1
    <3> QED BY <3>1, <3>2
  <2> QED BY <2>1, <2>2 DEF Hot
<1> QED BY <1>4, <1>5

\* No block is left open in the settled part of a text without drafts inside of blocks.
LEMMA SettledIsCold ==
  ASSUME NEW s \in Seq(Tokens), ~DraftInBlock(s) PROVE ~Hot(Spans(Resolved(s)).masked)
<1> DEFINE r == Resolved(s)  u == Unresolved(s)  T == TailStart(s)  m == Masked(s)
           rm == Spans(r).masked  um == Masked(u)
<1>1. r \in Seq(Tokens) /\ u \in Seq(Tokens) /\ s = r \o u /\ Len(r) + 1 = T
  BY ResolvedIs, Zenon
<1>2. T \in 1 .. Len(s) + 1 /\ Starts(m, T)
  BY TailStartIs
<1>3. /\ m \in Seq(Tokens) /\ Len(m) = Len(s) /\ Len(s) \in Nat
      /\ \A i \in 1 .. Len(s) : m[i] # s[i] => m[i] = "blank"
  BY MaskedIs
<1>4. Spans(r).held = <<>>
  BY SettledIsClosed, Zenon
<1>5. rm \in Seq(Tokens) /\ um \in Seq(Tokens) /\ SpanMask(r, rm) /\ m = rm \o um /\ Len(rm) = Len(r)
  <2>1. rm \in Seq(Tokens) /\ SpanMask(r, rm)
    BY <1>1, SpanIs
  <2>2. um \in Seq(Tokens)
    BY <1>1, MaskedIs
  <2>3. Masked(r) = rm /\ Len(Masked(r)) = Len(r)
    BY <1>1, <1>4, MaskedIs
  <2>4. Masked(r \o u) = Masked(r) \o Masked(u)
    BY <1>1, <1>4, MaskedConcat
  <2>5. m = Masked(r \o u)
    BY <1>1
  <2> HIDE DEF r, u, m, rm
  <2> QED BY <2>1, <2>2, <2>3, <2>4, <2>5
<1> SUFFICES ASSUME Hot(rm) PROVE FALSE
  OBVIOUS
<1> HIDE DEF r, u, T, m, rm, um
<1>6. /\ Len(r) \in Nat /\ Len(u) \in Nat /\ Len(s) = Len(r) + Len(u)
      /\ \A i \in 1 .. Len(r) : s[i] = r[i]
      /\ \A i \in 1 .. Len(r) : m[i] = rm[i]
  <2>1. Len(r) \in Nat /\ Len(u) \in Nat /\ Len(s) = Len(r) + Len(u)
    BY <1>1, ConcatProperties
  <2>2. \A i \in 1 .. Len(r) + Len(u) : s[i] = IF i <= Len(r) THEN r[i] ELSE u[i - Len(r)]
    BY <1>1, ConcatProperties
  <2>3. \A i \in 1 .. Len(rm) + Len(um) : m[i] = IF i <= Len(rm) THEN rm[i] ELSE um[i - Len(rm)]
    BY <1>5, ConcatProperties
  <2>4. Len(um) \in Nat
    BY <1>5
  <2>5. \A i \in 1 .. Len(r) : s[i] = r[i]
    BY <2>1, <2>2
  <2>6. \A i \in 1 .. Len(r) : m[i] = rm[i]
    BY <1>5, <2>1, <2>3, <2>4
  <2> QED BY <2>1, <2>5, <2>6
<1>7. PICK i \in 1 .. Len(r) : rm[i] \in Opens /\ \A j \in i .. Len(r) : rm[j] # "C"
  BY <1>5 DEF Hot
<1>8. i \in 1 .. Len(s) /\ s[i] \in Opens /\ m[i] \in Opens /\ i < T
  <2>1. i \in 1 .. Len(s) /\ i < T /\ m[i] = rm[i]
    BY <1>1, <1>6, <1>7
  <2>2. m[i] # "blank"
    BY <1>7, <2>1 DEF Opens
  <2> QED BY <1>3, <1>7, <2>1, <2>2
<1>9. i \notin Candidates(m)
  <2>1. CASE Candidates(m) = {}
    BY <2>1
  <2>2. CASE \A x \in Candidates(m) : T <= x
    <3>1. Len(r) + 1 = T /\ Len(r) \in Nat
      BY <1>1, <1>6
    <3> QED BY <1>8, <2>2, <3>1
  <2> QED BY <1>2, <2>1, <2>2 DEF Starts
<1>10. PICK j \in i .. Len(m) : m[j] = "C"
  BY <1>3, <1>8, <1>9 DEF Candidates, Growing
<1>11. T <= j /\ j <= Len(m)
  <2>1. ~(j \in i .. Len(r))
    <3>1. ASSUME j \in i .. Len(r) PROVE FALSE
      <4>1. rm[j] # "C" /\ m[j] = rm[j]
        BY <1>6, <1>7, <3>1
      <4> QED BY <1>10, <4>1
    <3> QED BY <3>1
  <2> QED BY <1>1, <1>3, <1>6, <1>10, <2>1
<1>12. T \in Candidates(m)
  <2>1. ASSUME T = Cut(m) PROVE FALSE
    <3>1. m # <<>> /\ m[Len(m)] = "P" /\ T = Len(m)
      BY <1>3, <1>11, <2>1 DEF Cut
    <3>2. j = Len(m)
      BY <1>3, <1>10, <1>11, <3>1
    <3> QED BY <1>10, <3>1, <3>2
  <2> QED BY <1>2, <2>1 DEF Starts
<1>13. T \in 1 .. Len(m) /\ m[T] = "I"
  <2>1. T \notin Growing(m)
    <3>1. j \in T .. Len(m)
      BY <1>3, <1>2, <1>10, <1>11
    <3> QED BY <1>10, <3>1 DEF Growing
  <2> QED BY <1>12, <2>1 DEF Candidates
<1>14. s[T] = "I" /\ T \in 1 .. Len(s)
  <2>1. T \in 1 .. Len(s) /\ m[T] # "blank"
    BY <1>3, <1>13
  <2> QED BY <1>3, <1>13, <2>1
<1> DEFINE K == {k \in 1 .. Len(r) : i <= k /\ s[k] = "C"}
<1>15. CASE K = {}
  <2>1. ASSUME NEW k \in i .. T PROVE s[k] # "C"
    <3>1. CASE k = T
      BY <1>14, <3>1
    <3>2. CASE k # T
      <4>1. k \in 1 .. Len(r) /\ i <= k
        BY <1>1, <1>6, <1>7, <1>14, <3>2
      <4> QED BY <1>15, <4>1
    <3> QED BY <3>1, <3>2
  <2> QED BY <1>8, <1>14, <2>1 DEF DraftInBlock
<1>16. CASE K # {}
  <2> DEFINE k == Least(K)
  <2>1. k \in K /\ \A x \in K : k <= x
    <3>1. K \in SUBSET Nat
      BY <1>6
    <3> HIDE DEF K
    <3> QED BY <1>16, <3>1, LeastIs
  <2> HIDE DEF k
  <2>2. k \in 1 .. Len(r) /\ i <= k /\ s[k] = "C" /\ r[k] = "C"
    BY <1>6, <2>1
  <2>3. rm[k] # r[k]
    <3>1. k \in i .. Len(r)
      BY <1>6, <2>2
    <3> QED BY <1>7, <2>2, <3>1
  <2>4. PICK l \in 1 .. k : r[l] = "I" /\ \A x \in l .. k : rm[x] = "blank"
    <3>1. k \in 1 .. Len(rm)
      BY <1>5, <2>2
    <3> QED BY <1>5, <2>3, <3>1 DEF SpanMask
  <2>5. i < l /\ l \in 1 .. Len(s) /\ s[l] = "I" /\ l <= k
    <3>1. ~(i \in l .. k)
      <4>1. rm[i] # "blank"
        BY <1>7 DEF Opens
      <4> QED BY <2>4, <4>1
    <3>2. l \in 1 .. Len(r)
      BY <1>6, <2>2, <2>4
    <3> QED BY <1>6, <1>7, <2>2, <2>4, <3>1, <3>2
  <2>6. ASSUME NEW x \in i .. l PROVE s[x] # "C"
    <3>1. CASE x = l
      BY <2>5, <3>1
    <3>2. CASE x # l
      <4>1. x \in 1 .. Len(r) /\ i <= x /\ x < k
        BY <1>6, <1>7, <2>2, <2>5, <3>2
      <4> QED BY <2>1, <2>2, <4>1
    <3> QED BY <3>1, <3>2
  <2> QED BY <1>8, <2>5, <2>6 DEF DraftInBlock
<1> QED BY <1>15, <1>16

\* What is settled stays out of the way of what follows.
LEMMA TailShifts ==
  ASSUME NEW p \in Seq(Tokens), Spans(p).held = <<>>, ~Hot(Spans(p).masked),
         NEW v \in Seq(Tokens), v # <<>>
  PROVE  TailStart(p \o v) = Len(p) + TailStart(v)
<1> DEFINE pm == Spans(p).masked  vm == Masked(v)  w == p \o v  m == Masked(w)  n == Len(p)  T == TailStart(v)
<1>1. w \in Seq(Tokens)
  BY ConcatProperties
<1>2. pm \in Seq(Tokens) /\ SpanMask(p, pm) /\ Masked(p) = pm /\ Len(pm) = n
  BY SpanIs, MaskedIs
<1>3. vm \in Seq(Tokens) /\ Len(vm) = Len(v)
  BY MaskedIs
<1>4. m = pm \o vm
  <2>1. Masked(p \o v) = Masked(p) \o Masked(v)
    BY MaskedConcat
  <2> QED BY <1>2, <2>1, Zenon
<1>5. Starts(vm, T)
  BY TailStartIs
<1>6. Starts(m, TailStart(w))
  BY <1>1, TailStartIs
<1>7. ~Hot(pm)
  OBVIOUS
<1>8. Len(v) \in Nat \ {0} /\ n \in Nat
  BY EmptySeq
<1> SUFFICES TailStart(w) = n + T
  OBVIOUS
<1> HIDE DEF pm, vm, w, m, n, T
<1>9. /\ m \in Seq(Tokens) /\ Len(m) = n + Len(vm) /\ Len(vm) \in Nat \ {0}
      /\ \A i \in 1 .. n + Len(vm) : m[i] = IF i <= n THEN pm[i] ELSE vm[i - n]
  <2>1. Len(vm) \in Nat \ {0} /\ Len(pm) = n
    BY <1>2, <1>3, <1>8
  <2>2. m \in Seq(Tokens) /\ Len(m) = Len(pm) + Len(vm)
    BY <1>2, <1>3, <1>4, ConcatProperties
  <2>3. \A i \in 1 .. Len(pm) + Len(vm) : m[i] = IF i <= Len(pm) THEN pm[i] ELSE vm[i - Len(pm)]
    BY <1>2, <1>3, <1>4, ConcatProperties
  <2> QED BY <2>1, <2>2, <2>3
<1>10. \A i \in 1 .. Len(vm) : n + i \in 1 .. Len(m) /\ m[n + i] = vm[i]
  <2> SUFFICES ASSUME NEW i \in 1 .. Len(vm) PROVE n + i \in 1 .. Len(m) /\ m[n + i] = vm[i]
    OBVIOUS
  <2>1. n + i \in 1 .. n + Len(vm) /\ n + i \in 1 .. Len(m)
    BY <1>8, <1>9
  <2>2. ~(n + i <= n) /\ n + i - n = i
    BY <1>8
  <2>3. ASSUME NEW k \in 1 .. n + Len(vm), k = n + i PROVE m[k] = vm[i]
    <3>1. m[k] = IF k <= n THEN pm[k] ELSE vm[k - n]
      BY <1>9
    <3>2. ~(k <= n) /\ k - n = i
      BY <2>3, <1>8
    <3> QED BY <3>1, <3>2
  <2> QED BY <2>1, <2>2, <2>3
<1>11. ASSUME NEW x \in Candidates(m) PROVE x - n \in Candidates(vm) /\ x - n \in Nat
  <2>1. x \in 1 .. Len(m)
    BY DEF Candidates, Growing
  <2>2. CASE x <= n
    <3>1. x \in 1 .. Len(pm) /\ m[x] = pm[x]
      BY <1>2, <1>8, <1>9, <2>1, <2>2
    <3>2. m[x] # "I"
      BY <1>2, <3>1 DEF SpanMask
    <3>3. pm[x] \in Opens /\ \A j \in x .. Len(m) : m[j] # "C"
      BY <3>1, <3>2 DEF Candidates, Growing
    <3>4. ASSUME NEW j \in x .. Len(pm) PROVE pm[j] # "C"
      <4>1. j \in x .. Len(m) /\ j \in 1 .. n + Len(vm) /\ j <= n
        BY <1>2, <1>8, <1>9, <2>1
      <4> QED BY <1>9, <3>3, <4>1
    <3> QED BY <1>7, <3>1, <3>3, <3>4 DEF Hot
  <2>3. CASE ~(x <= n)
    <3>1. x - n \in 1 .. Len(vm) /\ n + (x - n) = x
      BY <1>8, <1>9, <2>1, <2>3
    <3>2. m[x] = vm[x - n]
      BY <1>10, <3>1
    <3>3. ASSUME x \in Growing(m) PROVE x - n \in Growing(vm)
      <4>1. vm[x - n] \in Opens /\ \A j \in x .. Len(m) : m[j] # "C"
        BY <3>2, <3>3 DEF Growing
      <4>2. ASSUME NEW j \in x - n .. Len(vm) PROVE vm[j] # "C"
        <5>1. j \in 1 .. Len(vm) /\ n + j \in x .. Len(m)
          BY <1>8, <1>9, <3>1
        <5> QED BY <1>10, <4>1, <5>1
      <4> QED BY <3>1, <4>1, <4>2 DEF Growing
    <3> QED BY <3>1, <3>2, <3>3 DEF Candidates
  <2> QED BY <2>2, <2>3
<1>12. ASSUME NEW c \in Candidates(vm) PROVE n + c \in Candidates(m)
  <2>1. c \in 1 .. Len(vm)
    BY DEF Candidates, Growing
  <2>2. n + c \in 1 .. Len(m) /\ m[n + c] = vm[c]
    BY <1>10, <2>1
  <2>3. ASSUME c \in Growing(vm) PROVE n + c \in Growing(m)
    <3>1. ASSUME NEW j \in n + c .. Len(m) PROVE m[j] # "C"
      <4>1. j - n \in 1 .. Len(vm) /\ j - n \in c .. Len(vm) /\ n + (j - n) = j
        BY <1>8, <1>9, <2>1
      <4>2. vm[j - n] # "C"
        BY <2>3, <4>1 DEF Growing
      <4> QED BY <1>10, <4>1, <4>2
    <3> QED BY <2>2, <2>3, <3>1 DEF Growing
  <2> QED BY <2>2, <2>3 DEF Candidates
<1>13. CASE T \in Candidates(vm) /\ \A x \in Candidates(vm) : T <= x
  <2>1. T \in Nat
    BY <1>13 DEF Candidates, Growing
  <2>2. n + T \in Candidates(m)
    BY <1>12, <1>13
  <2>3. ASSUME NEW x \in Candidates(m) PROVE n + T <= x
    <3>1. x - n \in Candidates(vm) /\ x \in Nat
      BY <1>11 DEF Candidates, Growing
    <3>2. T <= x - n
      BY <1>13, <3>1
    <3> QED BY <1>8, <2>1, <3>1, <3>2
  <2>4. Starts(m, n + T)
    BY <2>2, <2>3 DEF Starts
  <2> QED BY <1>6, <1>9, <2>4, StartsOnce
<1>14. CASE Candidates(vm) = {} /\ T = Cut(vm)
  <2>1. Candidates(m) = {}
    BY <1>11, <1>14
  <2>2. Cut(m) = n + Cut(vm)
    <3>1. Len(vm) \in 1 .. Len(vm) /\ vm # <<>> /\ m # <<>>
      <4>1. Len(m) # 0 /\ Len(vm) # 0 /\ Len(vm) \in 1 .. Len(vm)
        BY <1>8, <1>9
      <4> QED BY <4>1, EmptySeq
    <3>2. m[Len(m)] = vm[Len(vm)]
      BY <1>9, <1>10, <3>1
    <3> QED BY <1>8, <1>9, <3>1, <3>2 DEF Cut
  <2>3. Starts(m, n + T)
    BY <1>14, <2>1, <2>2 DEF Starts
  <2> QED BY <1>6, <1>9, <2>3, StartsOnce
<1> QED BY <1>5, <1>13, <1>14 DEF Starts

-----------------------------------------------------------------------------
(* Texts that come together.                                               *)

\* Positions of a concatenation.
LEMMA ConcatAt ==
  ASSUME NEW a \in Seq(Tokens), NEW b \in Seq(Tokens), NEW c, c = a \o b
  PROVE  /\ c \in Seq(Tokens) /\ Len(c) = Len(a) + Len(b) /\ Len(a) \in Nat /\ Len(b) \in Nat
         /\ \A i \in 1 .. Len(a) : i \in 1 .. Len(c) /\ c[i] = a[i]
         /\ \A i \in 1 .. Len(b) : Len(a) + i \in 1 .. Len(c) /\ c[Len(a) + i] = b[i]
<1>1. c \in Seq(Tokens) /\ Len(c) = Len(a) + Len(b) /\ Len(a) \in Nat /\ Len(b) \in Nat
  BY ConcatProperties
<1>2. \A i \in 1 .. Len(a) + Len(b) : c[i] = IF i <= Len(a) THEN a[i] ELSE b[i - Len(a)]
  BY ConcatProperties
<1>3. ASSUME NEW i \in 1 .. Len(a) PROVE i \in 1 .. Len(c) /\ c[i] = a[i]
  BY <1>1, <1>2
<1>4. ASSUME NEW i \in 1 .. Len(b) PROVE Len(a) + i \in 1 .. Len(c) /\ c[Len(a) + i] = b[i]
  <2>1. ASSUME NEW k \in 1 .. Len(a) + Len(b), k = Len(a) + i PROVE c[k] = b[i]
    <3>1. ~(k <= Len(a)) /\ k - Len(a) = i
      BY <1>1, <2>1
    <3> QED BY <1>2, <3>1
  <2>2. Len(a) + i \in 1 .. Len(a) + Len(b)
    BY <1>1
  <2> QED BY <1>1, <2>1, <2>2
<1> QED BY <1>1, <1>3, <1>4

\* A text without its last token.
LEMMA Front ==
  ASSUME NEW q \in Seq(Tokens), NEW t \in Tokens PROVE SubSeq(Append(q, t), 1, Len(q)) = q
<1> DEFINE a == Append(q, t)  n == Len(q)
<1>1. a \in Seq(Tokens) /\ Len(a) = n + 1 /\ n \in Nat /\ \A i \in 1 .. n : a[i] = q[i]
  BY AppendProperties
<1> HIDE DEF a
<1>2. \A i \in 1 .. n : a[i] \in Tokens
  BY <1>1
<1>3. /\ SubSeq(a, 1, n) \in Seq(Tokens) /\ Len(SubSeq(a, 1, n)) = n
      /\ \A i \in 1 .. n : SubSeq(a, 1, n)[i] = a[1 + i - 1]
  <2> HIDE DEF n
  <2> QED BY <1>1, <1>2, SubSeqProperties
<1>4. \A i \in 1 .. n : SubSeq(a, 1, n)[i] = q[i]
  BY <1>1, <1>3
<1>5. SubSeq(a, 1, n) = q
  BY <1>3, <1>4, SeqEqual
<1> QED BY <1>5 DEF a

\* The tag that comes together: what stood before its first half, the tag, and what followed its second.
LEMMA JoinCut ==
  ASSUME NEW q \in Seq(Tokens), NEW s \in Seq(Tokens), s = Append(q, "P"), "P" \in Tokens,
         NEW t \in Seq(Tokens), t # <<>>, t[1] = "Q"
  PROVE  /\ Join(s, t) = (q \o <<"M">>) \o Tail(t)
         /\ <<"M">> \in Seq(Tokens) /\ Tail(t) \in Seq(Tokens)
<1>1. s # <<>> /\ Len(s) = Len(q) + 1 /\ s[Len(s)] = "P" /\ Len(q) \in Nat
  BY AppendProperties
<1>2. SubSeq(s, 1, Len(s) - 1) = q
  <2>1. Len(s) - 1 = Len(q)
    BY <1>1
  <2> QED BY <2>1, Front
<1>3. "M" \in Tokens
  BY DEF Tokens
<1>4. <<"M">> \in Seq(Tokens) /\ Tail(t) \in Seq(Tokens)
  BY <1>3, HeadTailProperties
<1> QED BY <1>1, <1>2, <1>4 DEF Join

\* Two texts come together as they stand, or with a tag made whole.
LEMMA JoinCases ==
  ASSUME NEW s \in Seq(Tokens), NEW t \in Seq(Tokens)
  PROVE  \/ /\ ~(s # <<>> /\ t # <<>> /\ s[Len(s)] = "P" /\ t[1] = "Q")
            /\ Join(s, t) = s \o t
         \/ /\ t # <<>> /\ t[1] = "Q" /\ "P" \in Tokens /\ <<"M">> \in Seq(Tokens) /\ Tail(t) \in Seq(Tokens)
            /\ \E q \in Seq(Tokens) : s = Append(q, "P") /\ Join(s, t) = (q \o <<"M">>) \o Tail(t)
<1>1. CASE ~(s # <<>> /\ t # <<>> /\ s[Len(s)] = "P" /\ t[1] = "Q")
  BY <1>1 DEF Join
<1>2. CASE s # <<>> /\ t # <<>> /\ s[Len(s)] = "P" /\ t[1] = "Q"
  <2>1. PICK q \in Seq(Tokens), x \in Tokens : s = Append(q, x)
    BY <1>2, SequenceEmptyOrAppend
  <2>2. x = "P" /\ "P" \in Tokens
    <3>1. Len(s) = Len(q) + 1 /\ s[Len(q) + 1] = x
      BY <2>1, AppendProperties
    <3> QED BY <1>2, <3>1
  <2>3. s = Append(q, "P")
    BY <2>1, <2>2
  <2>4. Join(s, t) = (q \o <<"M">>) \o Tail(t) /\ <<"M">> \in Seq(Tokens) /\ Tail(t) \in Seq(Tokens)
    BY <1>2, <2>2, <2>3, JoinCut
  <2> QED BY <1>2, <2>2, <2>3, <2>4
<1> QED BY <1>1, <1>2

\* What comes together is a text, an empty one of empty ones only.
LEMMA JoinType ==
  ASSUME NEW s \in Seq(Tokens), NEW t \in Seq(Tokens)
  PROVE  Join(s, t) \in Seq(Tokens) /\ (Join(s, t) = <<>> => s = <<>> /\ t = <<>>)
<1>1. CASE Join(s, t) = s \o t
  BY <1>1, ConcatProperties, ConcatEqualIffEmpty
<1>2. CASE /\ <<"M">> \in Seq(Tokens) /\ Tail(t) \in Seq(Tokens)
           /\ \E q \in Seq(Tokens) : s = Append(q, "P") /\ Join(s, t) = (q \o <<"M">>) \o Tail(t)
  <2>1. PICK q \in Seq(Tokens) : Join(s, t) = (q \o <<"M">>) \o Tail(t)
    BY <1>2
  <2> DEFINE a == q \o <<"M">>  b == Tail(t)
  <2>2. a \in Seq(Tokens) /\ b \in Seq(Tokens) /\ Len(a) = Len(q) + Len(<<"M">>) /\ Len(<<"M">>) = 1 /\ Len(q) \in Nat
    BY <1>2, ConcatProperties
  <2>3. Join(s, t) = a \o b
    BY <2>1
  <2> HIDE DEF a, b
  <2>4. a \o b \in Seq(Tokens) /\ Len(a \o b) = Len(a) + Len(b) /\ Len(b) \in Nat
    <3>1. a \in Seq(Tokens) /\ b \in Seq(Tokens)
      BY <2>2
    <3> QED BY <3>1, ConcatProperties, LenProperties
  <2>5. a \o b # <<>>
    <3>1. Len(a \o b) # 0
      BY <2>2, <2>4
    <3> QED BY <3>1, EmptySeq
  <2> QED BY <2>3, <2>4, <2>5
<1> QED BY <1>1, <1>2, JoinCases

\* What was settled does not take part in it.
JoinsTo(p, s, t) == Join(p \o s, t) = p \o Join(s, t)
\* What was settled does not take part in a join.
LEMMA JoinAfter ==
  ASSUME NEW p \in Seq(Tokens), NEW s \in Seq(Tokens), NEW t \in Seq(Tokens),
         s = <<>> => p = <<>> \/ p[Len(p)] # "P"
  PROVE  JoinsTo(p, s, t)
<1> SUFFICES Join(p \o s, t) = p \o Join(s, t)
  BY DEF JoinsTo
<1>0. p \o s \in Seq(Tokens)
  BY ConcatProperties
<1>1. CASE s = <<>>
  <2>1. p \o s = p
    BY <1>1, ConcatEmptySeq
  <2>2. Join(s, t) = <<>> \o t /\ <<>> \o t = t
    BY <1>1, ConcatEmptySeq DEF Join
  <2>3. Join(p, t) = p \o t
    BY <1>1 DEF Join
  <2> QED BY <2>1, <2>2, <2>3
<1>2. CASE s # <<>>
  <2>1. p \o s # <<>> /\ (p \o s)[Len(p \o s)] = s[Len(s)]
    <3> DEFINE w == p \o s
    <3>1. Len(s) \in Nat \ {0} /\ Len(p) \in Nat
      BY <1>2, EmptySeq
    <3>2. Len(w) = Len(p) + Len(s)
      BY ConcatProperties
    <3>3. \A i \in 1 .. Len(p) + Len(s) : w[i] = IF i <= Len(p) THEN p[i] ELSE s[i - Len(p)]
      BY ConcatProperties
    <3> HIDE DEF w
    <3>4. Len(w) \in 1 .. Len(p) + Len(s) /\ ~(Len(w) <= Len(p)) /\ Len(w) - Len(p) = Len(s) /\ Len(w) # 0
      BY <3>1, <3>2
    <3>5. w[Len(w)] = s[Len(s)]
      BY <3>3, <3>4
    <3>6. w # <<>>
      BY <3>4, EmptySeq
    <3> QED BY <3>5, <3>6 DEF w
  <2>2. CASE ~(s # <<>> /\ t # <<>> /\ s[Len(s)] = "P" /\ t[1] = "Q") /\ Join(s, t) = s \o t
    <3>1. Join(p \o s, t) = (p \o s) \o t
      BY <1>2, <2>1, <2>2 DEF Join
    <3>2. (p \o s) \o t = p \o (s \o t)
      <4>1. Thrice(p, s, t)
        BY Concat3, Zenon
      <4> QED BY <4>1 DEF Thrice
    <3> QED BY <2>2, <3>1, <3>2
  <2>3. CASE /\ t # <<>> /\ t[1] = "Q" /\ "P" \in Tokens /\ <<"M">> \in Seq(Tokens) /\ Tail(t) \in Seq(Tokens)
             /\ \E q \in Seq(Tokens) : s = Append(q, "P") /\ Join(s, t) = (q \o <<"M">>) \o Tail(t)
    <3>1. PICK q \in Seq(Tokens) : s = Append(q, "P") /\ Join(s, t) = (q \o <<"M">>) \o Tail(t)
      BY <2>3
    <3>2. p \o s = Append(p \o q, "P")
      <4>1. ASSUME NEW x \in Tokens PROVE p \o Append(q, x) = Append(p \o q, x)
        BY Append3 DEF EndsIn
      <4>2. p \o Append(q, "P") = Append(p \o q, "P")
        BY <2>3, <4>1
      <4> QED BY <3>1, <4>2
    <3>3. p \o q \in Seq(Tokens)
      BY ConcatProperties
    <3>4. Join(p \o s, t) = ((p \o q) \o <<"M">>) \o Tail(t)
      <4>1. p \o s = Append(p \o q, "P")
        BY <3>2
      <4> DEFINE w == p \o s  v == p \o q
      <4>2. w \in Seq(Tokens) /\ v \in Seq(Tokens) /\ w = Append(v, "P") /\ t # <<>> /\ t[1] = "Q" /\ "P" \in Tokens
        BY <1>0, <2>3, <3>3, <4>1
      <4> HIDE DEF w, v
      <4>3. Join(w, t) = (v \o <<"M">>) \o Tail(t)
        BY <4>2, JoinCut
      <4> QED BY <4>3 DEF w, v
    <3> DEFINE x == <<"M">>  y == Tail(t)
    <3>5. x \in Seq(Tokens) /\ y \in Seq(Tokens) /\ Join(p \o s, t) = ((p \o q) \o x) \o y /\ Join(s, t) = (q \o x) \o y
      BY <2>3, <3>1, <3>4
    <3> HIDE DEF x, y
    <3>6. q \o x \in Seq(Tokens)
      BY <3>5, ConcatProperties, Zenon
    <3>7. (p \o q) \o x = p \o (q \o x)
      <4>1. Thrice(p, q, x)
        BY <3>5, Concat3, Zenon
      <4> QED BY <4>1 DEF Thrice
    <3>8. (p \o (q \o x)) \o y = p \o ((q \o x) \o y)
      <4>1. Thrice(p, q \o x, y)
        BY <3>5, <3>6, Concat3, Zenon
      <4> QED BY <4>1 DEF Thrice
    <3> QED BY <3>5, <3>7, <3>8
  <2> QED BY <2>2, <2>3, JoinCases
<1> QED BY <1>1, <1>2

\* A draft inside of a block stays one when text is added behind ...
LEMMA DraftPrefix ==
  ASSUME NEW a \in Seq(Tokens), NEW b \in Seq(Tokens), DraftInBlock(a) PROVE DraftInBlock(a \o b)
<1> DEFINE c == a \o b
<1>1. \A i \in 1 .. Len(a) : i \in 1 .. Len(c) /\ c[i] = a[i]
  BY ConcatAt
<1>2. PICK i \in 1 .. Len(a), j \in 1 .. Len(a) :
        i < j /\ a[i] \in Opens /\ a[j] = "I" /\ \A k \in i .. j : a[k] # "C"
  BY DEF DraftInBlock
<1> HIDE DEF c
<1>3. ASSUME NEW k \in i .. j PROVE c[k] # "C"
  <2>1. k \in 1 .. Len(a)
    BY LenProperties
  <2> QED BY <1>1, <1>2, <2>1
<1>4. i \in 1 .. Len(c) /\ j \in 1 .. Len(c) /\ c[i] \in Opens /\ c[j] = "I"
  BY <1>1, <1>2
<1> QED BY <1>2, <1>3, <1>4 DEF DraftInBlock, c

\* ... and before.
LEMMA DraftSuffix ==
  ASSUME NEW a \in Seq(Tokens), NEW b \in Seq(Tokens), DraftInBlock(b) PROVE DraftInBlock(a \o b)
<1> DEFINE c == a \o b  n == Len(a)
<1>1. n \in Nat /\ Len(b) \in Nat /\ \A i \in 1 .. Len(b) : n + i \in 1 .. Len(c) /\ c[n + i] = b[i]
  BY ConcatAt
<1>2. PICK i \in 1 .. Len(b), j \in 1 .. Len(b) :
        i < j /\ b[i] \in Opens /\ b[j] = "I" /\ \A k \in i .. j : b[k] # "C"
  BY DEF DraftInBlock
<1> HIDE DEF c, n
<1>3. ASSUME NEW k \in n + i .. n + j PROVE c[k] # "C"
  <2>1. k - n \in 1 .. Len(b) /\ k - n \in i .. j /\ n + (k - n) = k
    BY <1>1
  <2> QED BY <1>1, <1>2, <2>1
<1>4. n + i \in 1 .. Len(c) /\ n + j \in 1 .. Len(c) /\ c[n + i] \in Opens /\ c[n + j] = "I" /\ n + i < n + j
  BY <1>1, <1>2
<1> QED BY <1>3, <1>4 DEF DraftInBlock, c

\* A draft inside of a block stays one, whatever follows.
LEMMA DraftStays ==
  ASSUME NEW s \in Seq(Tokens), NEW t \in Seq(Tokens), DraftInBlock(s) PROVE DraftInBlock(Join(s, t))
<1>1. CASE Join(s, t) = s \o t
  BY <1>1, DraftPrefix
<1>2. CASE /\ "P" \in Tokens /\ <<"M">> \in Seq(Tokens) /\ Tail(t) \in Seq(Tokens)
           /\ \E q \in Seq(Tokens) : s = Append(q, "P") /\ Join(s, t) = (q \o <<"M">>) \o Tail(t)
  <2>1. PICK q \in Seq(Tokens) : s = Append(q, "P") /\ Join(s, t) = (q \o <<"M">>) \o Tail(t)
    BY <1>2
  <2>2. Len(s) = Len(q) + 1 /\ s[Len(q) + 1] = "P" /\ Len(q) \in Nat /\ \A i \in 1 .. Len(q) : s[i] = q[i]
    <3>1. "P" \in Tokens
      BY <1>2
    <3>2. ASSUME NEW x \in Tokens, s = Append(q, x)
          PROVE  Len(s) = Len(q) + 1 /\ s[Len(q) + 1] = x /\ Len(q) \in Nat /\ \A i \in 1 .. Len(q) : s[i] = q[i]
      BY <3>2, AppendProperties
    <3> QED BY <2>1, <3>1, <3>2
  <2>3. PICK i \in 1 .. Len(s), j \in 1 .. Len(s) :
          i < j /\ s[i] \in Opens /\ s[j] = "I" /\ \A k \in i .. j : s[k] # "C"
    BY DEF DraftInBlock
  <2>4. j # Len(q) + 1
    BY <2>2, <2>3
  <2>5. i \in 1 .. Len(q) /\ j \in 1 .. Len(q)
    BY <2>2, <2>3, <2>4
  <2>6. ASSUME NEW k \in i .. j PROVE q[k] # "C"
    <3>1. k \in 1 .. Len(q)
      BY <2>2, <2>5
    <3> QED BY <2>2, <2>3, <3>1
  <2>7. DraftInBlock(q)
    BY <2>2, <2>3, <2>5, <2>6 DEF DraftInBlock
  <2> DEFINE x == <<"M">>  y == Tail(t)
  <2>8. x \in Seq(Tokens) /\ y \in Seq(Tokens) /\ Join(s, t) = (q \o x) \o y
    BY <1>2, <2>1
  <2> HIDE DEF x, y
  <2>9. q \o x \in Seq(Tokens)
    BY <2>8, ConcatProperties
  <2> QED BY <2>7, <2>8, <2>9, DraftPrefix
<1> QED BY <1>1, <1>2, JoinCases

\* So does a body between its tags, behind ...
LEMMA StandsPrefix ==
  ASSUME NEW a \in Seq(Tokens), NEW b \in Seq(Tokens), NEW body, StandsIn(body, a) PROVE StandsIn(body, a \o b)
<1> DEFINE c == a \o b
<1>1. Len(a) \in Nat /\ \A i \in 1 .. Len(a) : i \in 1 .. Len(c) /\ c[i] = a[i]
  BY ConcatAt
<1>2. PICK i \in 1 .. Len(a), j \in 1 .. Len(a) :
        i < j /\ a[i] = "M" /\ a[j] = "C" /\ body = SubSeq(a, i + 1, j - 1)
  BY DEF StandsIn
<1>3. i + 1 \in 1 .. Len(a) /\ j - 1 \in 1 .. Len(a)
  BY <1>1, <1>2
<1>4. body = SubSeq(c, i + 1, j - 1)
  BY <1>2, <1>3, SubSeqOfConcat1
<1> HIDE DEF c
<1>5. i \in 1 .. Len(c) /\ j \in 1 .. Len(c) /\ c[i] = "M" /\ c[j] = "C"
  BY <1>1, <1>2
<1> QED BY <1>2, <1>4, <1>5 DEF StandsIn, c

\* ... and before.
LEMMA StandsSuffix ==
  ASSUME NEW a \in Seq(Tokens), NEW b \in Seq(Tokens), NEW body, StandsIn(body, b) PROVE StandsIn(body, a \o b)
<1> DEFINE c == a \o b  n == Len(a)
<1>1. n \in Nat /\ Len(b) \in Nat /\ \A i \in 1 .. Len(b) : n + i \in 1 .. Len(c) /\ c[n + i] = b[i]
  BY ConcatAt
<1>2. PICK i \in 1 .. Len(b), j \in 1 .. Len(b) :
        i < j /\ b[i] = "M" /\ b[j] = "C" /\ body = SubSeq(b, i + 1, j - 1)
  BY DEF StandsIn
<1> DEFINE k == n + i  l == n + j
<1>3. body = SubSeq(c, k + 1, l - 1)
  <2>1. ASSUME NEW x \in Len(a) + 1 .. Len(a) + Len(b), NEW y \in Len(a) + 1 .. Len(a) + Len(b)
        PROVE  SubSeq(a \o b, x, y) = SubSeq(b, x - Len(a), y - Len(a))
    BY SubSeqOfConcat2
  <2>2. k + 1 \in Len(a) + 1 .. Len(a) + Len(b) /\ l - 1 \in Len(a) + 1 .. Len(a) + Len(b)
    BY <1>1, <1>2
  <2>3. k + 1 - Len(a) = i + 1 /\ l - 1 - Len(a) = j - 1
    BY <1>1
  <2>4. SubSeq(c, k + 1, l - 1) = SubSeq(b, k + 1 - Len(a), l - 1 - Len(a))
    BY <2>1, <2>2
  <2> QED BY <1>2, <2>3, <2>4
<1> HIDE DEF c, n
<1>5. n + i \in 1 .. Len(c) /\ n + j \in 1 .. Len(c) /\ c[n + i] = "M" /\ c[n + j] = "C" /\ n + i < n + j
  BY <1>1, <1>2
<1>6. k \in 1 .. Len(c) /\ l \in 1 .. Len(c) /\ k < l /\ c[k] = "M" /\ c[l] = "C"
  BY <1>5
<1> HIDE DEF k, l
<1>7. StandsIn(body, c)
  BY <1>3, <1>6 DEF StandsIn
<1> QED BY <1>7 DEF c

-----------------------------------------------------------------------------
(* The blocks of a text.                                                   *)

BlockRec == [known : BOOLEAN, body : Seq(Tokens)]
BlockAcc == [blocks : Seq(BlockRec), sends : Seq(BlockRec), open : Seq(Tokens), loose : BOOLEAN]

\* A token outside of blocks; the end of a block, with the block itself; what stands inside.
BlockBegins(p, t, q) ==
  /\ p.open = <<>> /\ q.open = (IF t \in Opens THEN <<t>> ELSE <<>>)
  /\ (t \notin Opens => q.loose) /\ (p.loose => q.loose)
  /\ q.blocks = p.blocks /\ q.sends = p.sends
BlockEnds(p, t, q, block) ==
  /\ p.open # <<>> /\ t = "C" /\ q.open = <<>> /\ q.loose = p.loose
  /\ block.known = (p.open[1] = "M") /\ block.body = Tail(p.open)
  /\ q.blocks = Append(p.blocks, block)
  /\ q.sends = IF block.known /\ block.body # <<>> THEN Append(p.sends, block) ELSE p.sends
BlockGrows(p, t, q) ==
  /\ p.open # <<>> /\ t # "C" /\ q.open = Append(p.open, t) /\ q.loose = p.loose
  /\ q.blocks = p.blocks /\ q.sends = p.sends
BlockMoves(p, t, q) ==
  BlockBegins(p, t, q) \/ (\E block \in BlockRec : BlockEnds(p, t, q, block)) \/ BlockGrows(p, t, q)

\* The fields of what is read of the blocks.
LEMMA BlockAccIs ==
  ASSUME NEW p
  PROVE  p \in BlockAcc => /\ p.blocks \in Seq(BlockRec) /\ p.sends \in Seq(BlockRec)
                           /\ p.open \in Seq(Tokens) /\ p.loose \in BOOLEAN
  BY DEF BlockAcc

\* BlockStep keeps to the types and makes one of its moves.
LEMMA BlockStepIs ==
  ASSUME NEW p \in BlockAcc, NEW t \in Tokens
  PROVE  BlockStep(p, t) \in BlockAcc /\ BlockMoves(p, t, BlockStep(p, t))
<1> DEFINE q == BlockStep(p, t)
<1>1. p.blocks \in Seq(BlockRec) /\ p.sends \in Seq(BlockRec) /\ p.open \in Seq(Tokens) /\ p.loose \in BOOLEAN
  BY BlockAccIs
<1>2. CASE p.open = <<>>
  <2> DEFINE o == IF t \in Opens THEN <<t>> ELSE <<>>  l == p.loose \/ t \notin Opens
  <2>1. q = [p EXCEPT !.open = o, !.loose = l]
    BY <1>2 DEF BlockStep, BlockAcc
  <2>2. o \in Seq(Tokens) /\ l \in BOOLEAN
    <3>1. <<t>> \in Seq(Tokens) /\ <<>> \in Seq(Tokens)
      OBVIOUS
    <3> QED BY <3>1
  <2> HIDE DEF o, l, q
  <2>3. q \in BlockAcc
    BY <2>1, <2>2 DEF BlockAcc
  <2>4. q.open = o /\ q.blocks = p.blocks /\ q.sends = p.sends
    BY <2>1 DEF BlockAcc
  <2>5. q.loose = l
    BY <2>1 DEF BlockAcc
  <2>6. (t \notin Opens => q.loose) /\ (p.loose => q.loose)
    BY <2>5 DEF l
  <2> QED BY <1>2, <2>3, <2>4, <2>6 DEF BlockMoves, BlockBegins, o, q
<1>3. CASE p.open # <<>> /\ t = "C"
  <2> DEFINE block == [known |-> p.open[1] = "M", body |-> Tail(p.open)]
             s == IF block.known /\ block.body # <<>> THEN Append(p.sends, block) ELSE p.sends
             b == Append(p.blocks, block)
  <2>1. q = [p EXCEPT !.open = <<>>, !.blocks = b, !.sends = s]
    BY <1>3 DEF BlockStep, BlockAcc
  <2>2. block \in BlockRec /\ block.known = (p.open[1] = "M") /\ block.body = Tail(p.open)
    <3>1. Tail(p.open) \in Seq(Tokens)
      BY <1>1, <1>3, HeadTailProperties
    <3> QED BY <3>1 DEF BlockRec
  <2> HIDE DEF block
  <2>3. b \in Seq(BlockRec) /\ s \in Seq(BlockRec) /\ <<>> \in Seq(Tokens)
    BY <1>1, <2>2, AppendProperties
  <2>7. b = Append(p.blocks, block) /\ s = IF block.known /\ block.body # <<>> THEN Append(p.sends, block) ELSE p.sends
    OBVIOUS
  <2> HIDE DEF b, s, q
  <2>4. q \in BlockAcc
    BY <2>1, <2>3 DEF BlockAcc
  <2>5. q.open = <<>> /\ q.blocks = b /\ q.sends = s /\ q.loose = p.loose
    BY <2>1 DEF BlockAcc
  <2>6. BlockEnds(p, t, q, block)
    BY <1>3, <2>2, <2>5, <2>7 DEF BlockEnds
  <2> QED BY <2>2, <2>4, <2>6 DEF BlockMoves, q
<1>4. CASE p.open # <<>> /\ t # "C"
  <2>1. q = [p EXCEPT !.open = Append(p.open, t)]
    BY <1>4 DEF BlockStep, BlockAcc
  <2>2. Append(p.open, t) \in Seq(Tokens)
    BY <1>1, AppendProperties
  <2> HIDE DEF q
  <2>3. q \in BlockAcc
    BY <2>1, <2>2 DEF BlockAcc
  <2>4. q.open = Append(p.open, t) /\ q.loose = p.loose /\ q.blocks = p.blocks /\ q.sends = p.sends
    BY <2>1 DEF BlockAcc
  <2> QED BY <1>4, <2>3, <2>4 DEF BlockMoves, BlockGrows, q
<1> QED BY <1>2, <1>3, <1>4

\* Every text is read to blocks of their types ...
LEMMA BlocksType == \A s \in Seq(Tokens) : Blocks(s) \in BlockAcc
<1> DEFINE D == {s \in Seq(Tokens) : Blocks(s) \in BlockAcc}
<1>1. <<>> \in D
  <2>1. NoBlock \in BlockAcc
    <3>1. <<>> \in Seq(Tokens) /\ <<>> \in Seq(BlockRec)
      OBVIOUS
    <3> QED BY <3>1 DEF NoBlock, BlockAcc
  <2> QED BY <2>1, BlockAppend
<1>2. \A s \in D : \A t \in Tokens : Append(s, t) \in D
  <2> SUFFICES ASSUME NEW s \in D, NEW t \in Tokens PROVE Append(s, t) \in D
    OBVIOUS
  <2>1. s \in Seq(Tokens) /\ Blocks(s) \in BlockAcc
    OBVIOUS
  <2>2. Append(s, t) \in Seq(Tokens) /\ Blocks(Append(s, t)) = BlockStep(Blocks(s), t)
    BY <2>1, AppendProperties, BlockAppend
  <2>3. BlockStep(Blocks(s), t) \in BlockAcc
    BY <2>1, BlockStepIs
  <2> QED BY <2>2, <2>3
<1>3. D = Seq(Tokens)
  <2>1. D \in SUBSET Seq(Tokens)
    OBVIOUS
  <2> HIDE DEF D
  <2> QED BY <1>1, <1>2, <2>1, SeqInduction
<1> QED BY <1>3

\* ... and one token more is one move.
LEMMA BlocksMove ==
  ASSUME NEW s \in Seq(Tokens), NEW t \in Tokens
  PROVE  /\ Append(s, t) \in Seq(Tokens) /\ Blocks(s) \in BlockAcc /\ Blocks(Append(s, t)) \in BlockAcc
         /\ BlockMoves(Blocks(s), t, Blocks(Append(s, t)))
<1>1. Append(s, t) \in Seq(Tokens) /\ Blocks(s) \in BlockAcc /\ Blocks(Append(s, t)) \in BlockAcc
  BY AppendProperties, BlocksType
<1>2. Blocks(Append(s, t)) = BlockStep(Blocks(s), t)
  BY BlockAppend
<1> QED BY <1>1, <1>2, BlockStepIs

\* What is open stands at the end of the text, and no block ends in it.
OpenIs(s, o) ==
  o # <<>> => /\ Len(o) <= Len(s) /\ o[1] \in Opens
              /\ \A i \in 1 .. Len(o) : o[i] = s[Len(s) - Len(o) + i] /\ o[i] # "C"
SendsStand(s, p) ==
  \A i \in 1 .. Len(p.sends) : StandsIn(p.sends[i].body, s) /\ p.sends[i].body # <<>>
BlocksCount(s, p) ==
  /\ s # <<>> => p.loose \/ p.open # <<>> \/ p.blocks # <<>>
  /\ \A i \in 1 .. Len(p.blocks) : p.blocks[i].known /\ p.blocks[i].body # <<>> => p.sends # <<>>

\* The open block is a run of the text's end.
LEMMA OpenStep ==
  ASSUME NEW s \in Seq(Tokens), NEW t \in Tokens, NEW p \in BlockAcc, NEW q \in BlockAcc,
         OpenIs(s, p.open), BlockMoves(p, t, q)
  PROVE  OpenIs(Append(s, t), q.open)
<1> DEFINE u == Append(s, t)  o == p.open  r == q.open
<1>1. Len(u) = Len(s) + 1 /\ u[Len(s) + 1] = t /\ Len(s) \in Nat /\ \A i \in 1 .. Len(s) : u[i] = s[i]
  BY AppendProperties
<1>2. o \in Seq(Tokens) /\ r \in Seq(Tokens) /\ OpenIs(s, o)
  BY BlockAccIs
<1>3. ASSUME BlockBegins(p, t, q) PROVE OpenIs(u, r)
  <2>1. r = IF t \in Opens THEN <<t>> ELSE <<>>
    BY <1>3 DEF BlockBegins
  <2> HIDE DEF u, o, r
  <2>2. CASE t \in Opens
    <3>1. r = <<t>> /\ Len(r) = 1 /\ r[1] = t /\ t # "C"
      BY <2>1, <2>2 DEF Opens
    <3> QED BY <1>1, <2>2, <3>1 DEF OpenIs
  <2>3. CASE t \notin Opens
    BY <2>1, <2>3 DEF OpenIs
  <2> QED BY <2>2, <2>3
<1>4. ASSUME NEW block \in BlockRec, BlockEnds(p, t, q, block) PROVE OpenIs(u, r)
  <2>1. r = <<>>
    BY <1>4 DEF BlockEnds
  <2> QED BY <2>1 DEF OpenIs
<1>5. ASSUME BlockGrows(p, t, q) PROVE OpenIs(u, r)
  <2>1. o # <<>> /\ r = Append(o, t) /\ t # "C"
    BY <1>5 DEF BlockGrows
  <2> HIDE DEF u, o, r
  <2>2. Len(r) = Len(o) + 1 /\ r[Len(o) + 1] = t /\ Len(o) \in Nat \ {0} /\ \A i \in 1 .. Len(o) : r[i] = o[i]
    BY <1>2, <2>1, AppendProperties, EmptySeq
  <2>3. Len(o) <= Len(s) /\ o[1] \in Opens /\ \A i \in 1 .. Len(o) : o[i] = s[Len(s) - Len(o) + i] /\ o[i] # "C"
    BY <1>2, <2>1 DEF OpenIs
  <2>4. Len(r) <= Len(u) /\ r[1] \in Opens
    BY <1>1, <2>2, <2>3
  <2>5. ASSUME NEW i \in 1 .. Len(r) PROVE r[i] = u[Len(u) - Len(r) + i] /\ r[i] # "C"
    <3>0. Len(u) - Len(r) = Len(s) - Len(o)
      BY <1>1, <2>2
    <3>1. CASE i = Len(o) + 1
      <4>1. Len(u) - Len(r) + i = Len(s) + 1
        BY <1>1, <2>2, <3>1
      <4> QED BY <1>1, <2>1, <2>2, <3>1, <4>1
    <3>2. CASE i # Len(o) + 1
      <4>1. i \in 1 .. Len(o)
        BY <2>2, <3>2
      <4>2. Len(s) - Len(o) + i \in 1 .. Len(s)
        BY <1>1, <2>2, <2>3, <4>1
      <4>3. u[Len(s) - Len(o) + i] = s[Len(s) - Len(o) + i]
        BY <1>1, <4>2
      <4> QED BY <2>2, <2>3, <3>0, <4>1, <4>3
    <3> QED BY <3>1, <3>2
  <2> QED BY <2>4, <2>5 DEF OpenIs
<1> QED BY <1>3, <1>4, <1>5 DEF BlockMoves

\* A run of a text.
LEMMA SubSeqIs ==
  ASSUME NEW s \in Seq(Tokens), NEW m \in Nat \ {0}, NEW n \in 0 .. Len(s)
  PROVE  /\ SubSeq(s, m, n) \in Seq(Tokens) /\ Len(SubSeq(s, m, n)) = IF m <= n THEN n - m + 1 ELSE 0
         /\ \A i \in 1 .. n - m + 1 : SubSeq(s, m, n)[i] = s[m + i - 1]
<1>1. m \in Int /\ n \in Int /\ \A i \in m .. n : s[i] \in Tokens
  OBVIOUS
<1> QED BY <1>1, SubSeqProperties

\* The block that ends stands in the text.
LEMMA EndStands ==
  ASSUME NEW s \in Seq(Tokens), NEW o \in Seq(Tokens), o # <<>>, o[1] = "M", OpenIs(s, o),
         NEW u \in Seq(Tokens), "C" \in Tokens, u = Append(s, "C")
  PROVE  StandsIn(Tail(o), u)
<1> DEFINE n == Len(s)  k == Len(o)  a == n - k + 1
<1>1. Len(u) = n + 1 /\ u[n + 1] = "C" /\ n \in Nat /\ \A i \in 1 .. n : u[i] = s[i]
  BY AppendProperties
<1>2. k \in Nat \ {0}
  BY EmptySeq
<1>3. k <= n /\ \A i \in 1 .. k : o[i] = s[n - k + i]
  BY DEF OpenIs
<1>4. Tail(o) \in Seq(Tokens) /\ Len(Tail(o)) = k - 1 /\ \A i \in 1 .. Len(Tail(o)) : Tail(o)[i] = o[i + 1]
  BY HeadTailProperties
<1> DEFINE y == SubSeq(u, a + 1, n)
<1> HIDE DEF n, k
<1>5. a \in 1 .. n /\ a + 1 \in Int /\ n \in Int /\ a < n + 1 /\ n + 1 \in 1 .. Len(u) /\ a \in 1 .. Len(u)
  BY <1>1, <1>2, <1>3
<1>6. u[a] = "M"
  <2>1. 1 \in 1 .. k
    BY <1>2
  <2> QED BY <1>1, <1>3, <1>5, <2>1
<1>7. /\ y \in Seq(Tokens) /\ Len(y) = IF a + 1 <= n THEN n - (a + 1) + 1 ELSE 0
      /\ \A i \in 1 .. n - (a + 1) + 1 : y[i] = u[(a + 1) + i - 1]
  <2>1. a + 1 \in Nat \ {0} /\ n \in 0 .. Len(u)
    BY <1>1, <1>5
  <2> HIDE DEF a
  <2> QED BY <2>1, SubSeqIs
<1>8. Len(y) = k - 1
  BY <1>1, <1>2, <1>3, <1>7
<1>9. ASSUME NEW i \in 1 .. k - 1 PROVE y[i] = Tail(o)[i]
  <2>1. i + 1 \in 1 .. k /\ n - k + (i + 1) \in 1 .. n /\ (a + 1) + i - 1 = n - k + (i + 1)
    BY <1>1, <1>2, <1>3
  <2>2. i \in 1 .. n - (a + 1) + 1
    BY <1>1, <1>2, <1>3
  <2>3. y[i] = u[n - k + (i + 1)]
    BY <1>7, <2>1, <2>2
  <2>4. u[n - k + (i + 1)] = o[i + 1]
    BY <1>1, <1>3, <2>1
  <2> QED BY <1>4, <2>3, <2>4
<1>10. y = Tail(o)
  <2> HIDE DEF y
  <2> QED BY <1>4, <1>7, <1>8, <1>9, SeqEqual
<1> DEFINE e == n + 1
<1>11. e - 1 = n /\ e \in 1 .. Len(u) /\ a < e /\ u[e] = "C"
  BY <1>1, <1>5
<1> HIDE DEF a, e
<1>12. Tail(o) = SubSeq(u, a + 1, e - 1)
  BY <1>10, <1>11 DEF y
<1> QED BY <1>5, <1>6, <1>11, <1>12 DEF StandsIn

\* What may be sent stands between two tags.
LEMMA SendsStep ==
  ASSUME NEW s \in Seq(Tokens), NEW t \in Tokens, NEW p \in BlockAcc, NEW q \in BlockAcc,
         OpenIs(s, p.open), SendsStand(s, p), BlockMoves(p, t, q)
  PROVE  SendsStand(Append(s, t), q)
<1> DEFINE u == Append(s, t)
<1>1. u \in Seq(Tokens)
  BY AppendProperties
<1>2. ASSUME NEW x, StandsIn(x, s) PROVE StandsIn(x, u)
  <2>1. <<t>> \in Seq(Tokens) /\ u = s \o <<t>>
    BY AppendIsConcat
  <2> QED BY <1>2, <2>1, StandsPrefix
<1>3. p.open \in Seq(Tokens) /\ p.sends \in Seq(BlockRec)
  BY BlockAccIs
<1>4. \A i \in 1 .. Len(p.sends) : StandsIn(p.sends[i].body, s) /\ p.sends[i].body # <<>>
  BY DEF SendsStand
<1>5. ASSUME q.sends = p.sends PROVE SendsStand(u, q)
  <2>1. ASSUME NEW i \in 1 .. Len(q.sends) PROVE StandsIn(q.sends[i].body, u) /\ q.sends[i].body # <<>>
    <3>1. i \in 1 .. Len(p.sends) /\ q.sends[i] = p.sends[i]
      BY <1>5
    <3>2. StandsIn(p.sends[i].body, u) /\ p.sends[i].body # <<>>
      BY <1>2, <1>4, <3>1, Zenon
    <3> QED BY <3>1, <3>2, Zenon
  <2> QED BY <2>1, Zenon DEF SendsStand
<1>6. ASSUME NEW block \in BlockRec, BlockEnds(p, t, q, block), block.known, block.body # <<>>
      PROVE  SendsStand(u, q)
  <2>1. p.open # <<>> /\ t = "C" /\ p.open[1] = "M" /\ block.body = Tail(p.open) /\ q.sends = Append(p.sends, block)
    BY <1>6 DEF BlockEnds
  <2>2. StandsIn(block.body, u)
    <3>1. "C" \in Tokens /\ u = Append(s, "C")
      BY <2>1
    <3>2. StandsIn(Tail(p.open), u)
      BY <1>1, <1>3, <2>1, <3>1, EndStands
    <3> QED BY <2>1, <3>2, Zenon
  <2>3. /\ Len(q.sends) = Len(p.sends) + 1 /\ q.sends[Len(p.sends) + 1] = block /\ Len(p.sends) \in Nat
        /\ \A i \in 1 .. Len(p.sends) : q.sends[i] = p.sends[i]
    BY <1>3, <2>1, AppendProperties
  <2>4. ASSUME NEW i \in 1 .. Len(q.sends) PROVE StandsIn(q.sends[i].body, u) /\ q.sends[i].body # <<>>
    <3>1. CASE i = Len(p.sends) + 1
      <4>1. q.sends[i] = block
        BY <2>3, <3>1
      <4> QED BY <1>6, <2>2, <4>1, Zenon
    <3>2. CASE i # Len(p.sends) + 1
      <4>1. i \in 1 .. Len(p.sends) /\ q.sends[i] = p.sends[i]
        BY <2>3, <3>2
      <4>2. StandsIn(p.sends[i].body, u) /\ p.sends[i].body # <<>>
        BY <1>2, <1>4, <4>1, Zenon
      <4> QED BY <4>1, <4>2, Zenon
    <3> QED BY <3>1, <3>2
  <2> QED BY <2>4, Zenon DEF SendsStand
<1>7. ASSUME NEW block \in BlockRec, BlockEnds(p, t, q, block) PROVE SendsStand(u, q)
  <2>1. q.sends = IF block.known /\ block.body # <<>> THEN Append(p.sends, block) ELSE p.sends
    BY <1>7 DEF BlockEnds
  <2>2. CASE block.known /\ block.body # <<>>
    BY <1>6, <1>7, <2>2
  <2>3. CASE ~(block.known /\ block.body # <<>>)
    BY <1>5, <2>1, <2>3
  <2> QED BY <2>2, <2>3
<1>8. BlockBegins(p, t, q) \/ BlockGrows(p, t, q) => q.sends = p.sends
  BY DEF BlockBegins, BlockGrows
<1> QED BY <1>5, <1>7, <1>8 DEF BlockMoves

\* A text without words outside of blocks and with no block to send has none at all.
LEMMA CountStep ==
  ASSUME NEW s \in Seq(Tokens), NEW t \in Tokens, NEW p \in BlockAcc, NEW q \in BlockAcc,
         BlocksCount(s, p), BlockMoves(p, t, q)
  PROVE  BlocksCount(Append(s, t), q)
<1>1. p.open \in Seq(Tokens) /\ p.sends \in Seq(BlockRec) /\ p.blocks \in Seq(BlockRec)
  BY BlockAccIs
<1>2. \A i \in 1 .. Len(p.blocks) : p.blocks[i].known /\ p.blocks[i].body # <<>> => p.sends # <<>>
  BY DEF BlocksCount
<1>3. ASSUME BlockBegins(p, t, q) \/ BlockGrows(p, t, q) PROVE BlocksCount(Append(s, t), q)
  <2>1. q.sends = p.sends /\ q.blocks = p.blocks
    BY <1>3 DEF BlockBegins, BlockGrows
  <2>2. \A i \in 1 .. Len(q.blocks) : q.blocks[i].known /\ q.blocks[i].body # <<>> => q.sends # <<>>
    BY <1>2, <2>1
  <2>3. q.loose \/ q.open # <<>>
    <3>1. CASE BlockBegins(p, t, q) /\ t \in Opens
      <4>1. q.open = <<t>>
        BY <3>1 DEF BlockBegins
      <4>2. <<t>> # <<>>
        OBVIOUS
      <4> QED BY <4>1, <4>2
    <3>2. CASE BlockBegins(p, t, q) /\ t \notin Opens
      BY <3>2 DEF BlockBegins
    <3>3. CASE BlockGrows(p, t, q)
      <4>1. q.open = Append(p.open, t)
        BY <3>3 DEF BlockGrows
      <4>2. Append(p.open, t) # <<>>
        BY <1>1, AppendProperties
      <4> QED BY <4>1, <4>2
    <3> QED BY <1>3, <3>1, <3>2, <3>3
  <2> QED BY <2>2, <2>3 DEF BlocksCount
<1>4. ASSUME NEW block \in BlockRec, BlockEnds(p, t, q, block) PROVE BlocksCount(Append(s, t), q)
  <2>1. /\ q.blocks = Append(p.blocks, block)
        /\ q.sends = IF block.known /\ block.body # <<>> THEN Append(p.sends, block) ELSE p.sends
    BY <1>4 DEF BlockEnds
  <2>2. /\ q.blocks # <<>> /\ Len(q.blocks) = Len(p.blocks) + 1 /\ q.blocks[Len(p.blocks) + 1] = block
        /\ Len(p.blocks) \in Nat /\ \A i \in 1 .. Len(p.blocks) : q.blocks[i] = p.blocks[i]
    <3>1. Append(p.blocks, block) # <<>>
      BY <1>1, AppendProperties
    <3>2. /\ Len(Append(p.blocks, block)) = Len(p.blocks) + 1 /\ Append(p.blocks, block)[Len(p.blocks) + 1] = block
          /\ Len(p.blocks) \in Nat
      BY <1>1, AppendProperties
    <3>3. \A i \in 1 .. Len(p.blocks) : Append(p.blocks, block)[i] = p.blocks[i]
      BY <1>1, AppendProperties
    <3> QED BY <2>1, <3>1, <3>2, <3>3
  <2>3. p.sends # <<>> \/ (block.known /\ block.body # <<>>) => q.sends # <<>>
    <3>1. Append(p.sends, block) # <<>>
      BY <1>1, AppendProperties
    <3> QED BY <2>1, <3>1
  <2>4. ASSUME NEW i \in 1 .. Len(q.blocks), q.blocks[i].known, q.blocks[i].body # <<>> PROVE q.sends # <<>>
    <3>1. CASE i = Len(p.blocks) + 1
      BY <2>2, <2>3, <2>4, <3>1
    <3>2. CASE i # Len(p.blocks) + 1
      <4>1. i \in 1 .. Len(p.blocks) /\ q.blocks[i] = p.blocks[i]
        BY <2>2, <3>2
      <4>2. p.blocks[i].known /\ p.blocks[i].body # <<>>
        BY <2>4, <4>1, Zenon
      <4> QED BY <1>2, <2>3, <4>1, <4>2
    <3> QED BY <3>1, <3>2
  <2> QED BY <2>2, <2>4 DEF BlocksCount
<1> QED BY <1>3, <1>4 DEF BlockMoves

BlockFact(s) == OpenIs(s, Blocks(s).open) /\ SendsStand(s, Blocks(s)) /\ BlocksCount(s, Blocks(s))

\* Both hold of every text.
LEMMA BlockFacts == \A s \in Seq(Tokens) : Blocks(s) \in BlockAcc /\ BlockFact(s)
<1> DEFINE D == {s \in Seq(Tokens) : BlockFact(s)}
<1>1. <<>> \in D
  <2>1. Blocks(<<>>) = NoBlock /\ <<>> \in Seq(Tokens)
    BY BlockAppend, EmptySeq
  <2>2. OpenIs(<<>>, NoBlock.open) /\ SendsStand(<<>>, NoBlock) /\ BlocksCount(<<>>, NoBlock)
    <3>1. NoBlock.open = <<>> /\ NoBlock.sends = <<>> /\ NoBlock.blocks = <<>>
      BY DEF NoBlock
    <3>2. Len(<<>>) = 0
      OBVIOUS
    <3> QED BY <3>1, <3>2 DEF OpenIs, SendsStand, BlocksCount
  <2> QED BY <2>1, <2>2 DEF BlockFact
<1>2. \A s \in D : \A t \in Tokens : Append(s, t) \in D
  <2> SUFFICES ASSUME NEW s \in D, NEW t \in Tokens PROVE Append(s, t) \in D
    OBVIOUS
  <2> DEFINE p == Blocks(s)  q == Blocks(Append(s, t))
  <2>1. s \in Seq(Tokens) /\ OpenIs(s, p.open) /\ SendsStand(s, p) /\ BlocksCount(s, p)
    BY DEF BlockFact
  <2>2. Append(s, t) \in Seq(Tokens) /\ p \in BlockAcc /\ q \in BlockAcc /\ BlockMoves(p, t, q)
    BY <2>1, BlocksMove
  <2> HIDE DEF p, q
  <2>3. OpenIs(Append(s, t), q.open)
    BY <2>1, <2>2, OpenStep, Zenon
  <2>4. SendsStand(Append(s, t), q)
    BY <2>1, <2>2, SendsStep, Zenon
  <2>5. BlocksCount(Append(s, t), q)
    BY <2>1, <2>2, CountStep, Zenon
  <2> QED BY <2>2, <2>3, <2>4, <2>5 DEF BlockFact, q
<1>3. D = Seq(Tokens)
  <2>1. D \in SUBSET Seq(Tokens)
    OBVIOUS
  <2> HIDE DEF D
  <2> QED BY <1>1, <1>2, <2>1, SeqInduction
<1> QED BY <1>3, BlocksType

\* A block that is open keeps the text hot.
LEMMA OpenIsHot ==
  ASSUME NEW s \in Seq(Tokens), Blocks(s).open # <<>> PROVE Hot(s)
<1> DEFINE o == Blocks(s).open  n == Len(s)  k == Len(o)  a == n - k + 1
<1>1. o \in Seq(Tokens) /\ OpenIs(s, o) /\ o # <<>>
  BY BlockFacts, BlockAccIs DEF BlockFact
<1> HIDE DEF o
<1>2. k \in Nat \ {0} /\ n \in Nat
  BY <1>1, EmptySeq
<1>3. k <= n /\ o[1] \in Opens /\ \A i \in 1 .. k : o[i] = s[n - k + i] /\ o[i] # "C"
  BY <1>1 DEF OpenIs
<1> HIDE DEF n, k
<1>4. a \in 1 .. n /\ s[a] \in Opens
  <2>1. 1 \in 1 .. k
    BY <1>2
  <2> QED BY <1>2, <1>3, <2>1
<1>5. ASSUME NEW j \in a .. n PROVE s[j] # "C"
  <2>1. j - (n - k) \in 1 .. k /\ n - k + (j - (n - k)) = j
    BY <1>2, <1>3
  <2> QED BY <1>3, <2>1
<1> HIDE DEF a
<1>6. \E i \in 1 .. n : s[i] \in Opens /\ \A j \in i .. n : s[j] # "C"
  BY <1>4, <1>5
<1> QED BY <1>6 DEF Hot, n

\* A text in which no block is open is read apart from what follows.
LEMMA BlockConcat ==
  ASSUME NEW a \in Seq(Tokens), Blocks(a).open = <<>>
  PROVE  \A b \in Seq(Tokens) : /\ Blocks(a \o b).open = Blocks(b).open
                                /\ Blocks(a \o b).sends = Blocks(a).sends \o Blocks(b).sends
<1> DEFINE Q(b) == /\ Blocks(a \o b).open = Blocks(b).open
                   /\ Blocks(a \o b).sends = Blocks(a).sends \o Blocks(b).sends
           D == {b \in Seq(Tokens) : Q(b)}
<1>0. Blocks(a).sends \in Seq(BlockRec)
  BY BlockFacts, BlockAccIs
<1>1. <<>> \in D
  <2>1. <<>> \in Seq(Tokens) /\ a \o <<>> = a
    BY EmptySeq, ConcatEmptySeq
  <2>2. Blocks(<<>>).open = <<>> /\ Blocks(<<>>).sends = <<>>
    BY BlockAppend DEF NoBlock
  <2>3. Blocks(a).sends \o <<>> = Blocks(a).sends
    BY <1>0, ConcatEmptySeq
  <2> QED BY <2>1, <2>2, <2>3
<1>2. ASSUME NEW b \in D, NEW t \in Tokens PROVE Append(b, t) \in D
  <2> DEFINE v == Append(b, t)  w == a \o b  e == Blocks(a).sends
             p == Blocks(b)  q == Blocks(v)  x == Blocks(w)  y == Blocks(Append(w, t))
  <2>1. b \in Seq(Tokens) /\ Q(b) /\ w \in Seq(Tokens) /\ v \in Seq(Tokens) /\ a \o v = Append(w, t)
    <3>1. b \in Seq(Tokens) /\ Q(b)
      OBVIOUS
    <3>2. w \in Seq(Tokens) /\ v \in Seq(Tokens)
      BY <3>1, AppendProperties, ConcatProperties
    <3>3. a \o v = Append(w, t)
      <4>1. EndsIn(a, b, t)
        BY <3>1, Append3, Zenon
      <4> QED BY <4>1 DEF EndsIn
    <3> QED BY <3>1, <3>2, <3>3
  <2>2. p \in BlockAcc /\ q \in BlockAcc /\ BlockMoves(p, t, q)
    BY <2>1, BlocksMove
  <2>3. x \in BlockAcc /\ y \in BlockAcc /\ BlockMoves(x, t, y)
    BY <2>1, BlocksMove
  <2>4. x.open = p.open /\ x.sends = e \o p.sends /\ e \in Seq(BlockRec)
    BY <1>0, <2>1
  <2> HIDE DEF v, w, e, p, q, x, y
  <2>5. p.sends \in Seq(BlockRec) /\ p.open \in Seq(Tokens)
    BY <2>2, BlockAccIs
  <2>6. y.open = q.open /\ y.sends = e \o q.sends
    <3>1. CASE BlockBegins(p, t, q)
      <4>1. p.open = <<>> /\ q.open = (IF t \in Opens THEN <<t>> ELSE <<>>) /\ q.sends = p.sends
        BY <3>1 DEF BlockBegins
      <4>2. BlockBegins(x, t, y)
        BY <2>3, <2>4, <4>1 DEF BlockMoves, BlockEnds, BlockGrows
      <4>3. y.open = (IF t \in Opens THEN <<t>> ELSE <<>>) /\ y.sends = x.sends
        BY <4>2 DEF BlockBegins
      <4> QED BY <2>4, <4>1, <4>3
    <3>2. ASSUME NEW block \in BlockRec, BlockEnds(p, t, q, block) PROVE y.open = q.open /\ y.sends = e \o q.sends
      <4>1. /\ p.open # <<>> /\ t = "C" /\ q.open = <<>>
            /\ block.known = (p.open[1] = "M") /\ block.body = Tail(p.open)
            /\ q.sends = IF block.known /\ block.body # <<>> THEN Append(p.sends, block) ELSE p.sends
        BY <3>2 DEF BlockEnds
      <4>2. PICK other \in BlockRec : BlockEnds(x, t, y, other)
        BY <2>3, <2>4, <4>1 DEF BlockMoves, BlockBegins, BlockGrows
      <4>3. /\ y.open = <<>> /\ other.known = (p.open[1] = "M") /\ other.body = Tail(p.open)
            /\ y.sends = IF other.known /\ other.body # <<>> THEN Append(x.sends, other) ELSE x.sends
        BY <2>4, <4>2 DEF BlockEnds
      <4>4. other = block
        <5>1. other.known = block.known /\ other.body = block.body
          BY <4>1, <4>3
        <5>2. block = [known |-> block.known, body |-> block.body]
          BY <3>2 DEF BlockRec
        <5>3. other = [known |-> other.known, body |-> other.body]
          BY <4>2 DEF BlockRec
        <5> QED BY <5>1, <5>2, <5>3, Zenon
      <4>5. y.sends = IF block.known /\ block.body # <<>> THEN Append(e \o p.sends, block) ELSE e \o p.sends
        BY <2>4, <4>3, <4>4
      <4>6. e \o Append(p.sends, block) = Append(e \o p.sends, block)
        BY <2>4, <2>5, AppendConcat
      <4> QED BY <4>1, <4>3, <4>5, <4>6
    <3>3. CASE BlockGrows(p, t, q)
      <4>1. p.open # <<>> /\ t # "C" /\ q.open = Append(p.open, t) /\ q.sends = p.sends
        BY <3>3 DEF BlockGrows
      <4>2. BlockGrows(x, t, y)
        BY <2>3, <2>4, <4>1 DEF BlockMoves, BlockEnds, BlockBegins
      <4>3. y.open = Append(x.open, t) /\ y.sends = x.sends
        BY <4>2 DEF BlockGrows
      <4> QED BY <2>4, <4>1, <4>3
    <3> QED BY <2>2, <3>1, <3>2, <3>3 DEF BlockMoves
  <2>7. Q(v)
    BY <2>1, <2>6 DEF y, q, e, w, v
  <2> QED BY <2>1, <2>7 DEF v
<1>3. D = Seq(Tokens)
  <2>1. D \in SUBSET Seq(Tokens)
    OBVIOUS
  <2> HIDE DEF D
  <2> QED BY <1>1, <1>2, <2>1, SeqInduction
<1> QED BY <1>3

-----------------------------------------------------------------------------
(* The blocks that are not in a set, and the parse of a text.              *)

PickedBy(p, block, bodies) == IF block.body \in bodies THEN p ELSE Append(p, block)
PickLaw(f, s, bodies, n) == f = [i \in 0 .. n |-> IF i = 0 THEN <<>> ELSE PickedBy(f[i - 1], s[i], bodies)]

\* The recursive function that leaves blocks out exists.
LEMMA PickExists ==
  ASSUME NEW s, NEW bodies, NEW n \in Nat
  PROVE  \E f : PickLaw(f, s, bodies, n)
<1> DEFINE S == {k \in Nat : \E f : PickLaw(f, s, bodies, k)}
<1>1. 0 \in S
  <2>1. PickLaw([i \in 0 .. 0 |-> <<>>], s, bodies, 0)
    BY DEF PickLaw
  <2> QED BY <2>1
<1>2. ASSUME NEW k \in S PROVE k + 1 \in S
  <2>1. PICK f : PickLaw(f, s, bodies, k)
    OBVIOUS
  <2> DEFINE g == [i \in 0 .. k + 1 |-> IF i <= k THEN f[i] ELSE PickedBy(f[k], s[k + 1], bodies)]
             h == [i \in 0 .. k + 1 |-> IF i = 0 THEN <<>> ELSE PickedBy(g[i - 1], s[i], bodies)]
  <2>2. ASSUME NEW i \in 0 .. k + 1 PROVE g[i] = h[i]
    <3>1. CASE i = k + 1
      <4>1. g[i - 1] = f[k]
        BY <3>1
      <4> QED BY <3>1, <4>1
    <3>2. CASE i <= k
      <4>1. f[i] = IF i = 0 THEN <<>> ELSE PickedBy(f[i - 1], s[i], bodies)
        BY <2>1, <3>2 DEF PickLaw
      <4>2. i # 0 => g[i - 1] = f[i - 1]
        BY <3>2
      <4> QED BY <3>2, <4>1, <4>2
    <3> QED BY <3>1, <3>2
  <2>3. PickLaw(g, s, bodies, k + 1)
    <3>1. g = h
      BY <2>2
    <3> QED BY <3>1 DEF PickLaw
  <2> QED BY <2>3
<1>3. S = Nat
  <2>1. S \in SUBSET Nat
    OBVIOUS
  <2> HIDE DEF S
  <2> QED BY <1>1, <1>2, <2>1, SetInduction
<1> QED BY <1>3

\* What is left of the first blocks of a sequence.
LeftOf(g, s, bodies, k) ==
  /\ g \in Seq(BlockRec)
  /\ \A i \in 1 .. Len(g) : \E j \in 1 .. k : g[i] = s[j] /\ s[j].body \notin bodies
  /\ \A j \in 1 .. k : s[j].body \in bodies \/ \E i \in 1 .. Len(g) : g[i] = s[j]

\* One block more is kept or left out.
LEMMA LeftStep ==
  ASSUME NEW s \in Seq(BlockRec), NEW bodies, NEW k \in Nat, k < Len(s),
         NEW g, LeftOf(g, s, bodies, k),
         NEW h, h = PickedBy(g, s[k + 1], bodies)
  PROVE  LeftOf(h, s, bodies, k + 1)
<1> DEFINE b == s[k + 1]
<1>1. b \in BlockRec /\ k + 1 \in 1 .. k + 1 /\ g \in Seq(BlockRec) /\ Len(g) \in Nat
  BY DEF LeftOf
<1>2. \A i \in 1 .. Len(g) : \E j \in 1 .. k : g[i] = s[j] /\ s[j].body \notin bodies
  BY DEF LeftOf
<1>3. \A j \in 1 .. k : s[j].body \in bodies \/ \E i \in 1 .. Len(g) : g[i] = s[j]
  BY DEF LeftOf
<1>4. \A j \in 1 .. k : j \in 1 .. k + 1
  OBVIOUS
<1>5. \A j \in 1 .. k + 1 : j = k + 1 \/ j \in 1 .. k
  OBVIOUS
<1>6. CASE b.body \in bodies
  <2>1. h = g
    BY <1>6 DEF PickedBy
  <2>2. \A i \in 1 .. Len(h) : \E j \in 1 .. k + 1 : h[i] = s[j] /\ s[j].body \notin bodies
    BY <1>2, <1>4, <2>1
  <2>3. \A j \in 1 .. k + 1 : s[j].body \in bodies \/ \E i \in 1 .. Len(h) : h[i] = s[j]
    BY <1>3, <1>5, <1>6, <2>1
  <2> QED BY <1>1, <2>1, <2>2, <2>3 DEF LeftOf
<1>7. CASE b.body \notin bodies
  <2>1. h = Append(g, b)
    BY <1>7 DEF PickedBy
  <2> HIDE DEF b
  <2>2. /\ h \in Seq(BlockRec) /\ Len(h) = Len(g) + 1 /\ h[Len(g) + 1] = b
        /\ \A i \in 1 .. Len(g) : h[i] = g[i]
    BY <1>1, <2>1, AppendProperties
  <2>3. ASSUME NEW i \in 1 .. Len(h) PROVE \E j \in 1 .. k + 1 : h[i] = s[j] /\ s[j].body \notin bodies
    <3>1. CASE i = Len(g) + 1
      BY <1>1, <1>7, <2>2, <3>1 DEF b
    <3>2. CASE i # Len(g) + 1
      <4>1. i \in 1 .. Len(g) /\ h[i] = g[i]
        BY <1>1, <2>2, <3>2
      <4> QED BY <1>2, <1>4, <4>1
    <3> QED BY <3>1, <3>2
  <2>4. ASSUME NEW j \in 1 .. k + 1 PROVE s[j].body \in bodies \/ \E i \in 1 .. Len(h) : h[i] = s[j]
    <3>1. CASE j = k + 1
      <4>1. Len(g) + 1 \in 1 .. Len(h)
        BY <1>1, <2>2
      <4> QED BY <2>2, <3>1, <4>1 DEF b
    <3>2. CASE j \in 1 .. k
      <4>1. \A i \in 1 .. Len(g) : i \in 1 .. Len(h)
        BY <1>1, <2>2
      <4> QED BY <1>3, <2>2, <3>2, <4>1
    <3> QED BY <1>5, <3>1, <3>2
  <2> QED BY <2>2, <2>3, <2>4 DEF LeftOf
<1> QED BY <1>6, <1>7

\* Without keeps, in order, just the blocks whose bodies are not in the set.
LEMMA WithoutIs ==
  ASSUME NEW s \in Seq(BlockRec), NEW bodies
  PROVE  LeftOf(Without(s, bodies), s, bodies, Len(s))
<1> DEFINE f == CHOOSE g : PickLaw(g, s, bodies, Len(s))
           S == {k \in Nat : LeftOf(f[k], s, bodies, k)}
<1>1. Without(s, bodies) = f[Len(s)]
  BY Zenon DEF Without, PickLaw, PickedBy
<1>2. PickLaw(f, s, bodies, Len(s)) /\ Len(s) \in Nat
  <2>1. Len(s) \in Nat
    OBVIOUS
  <2>2. \E g : PickLaw(g, s, bodies, Len(s))
    BY <2>1, PickExists
  <2> QED BY <2>1, <2>2, Zenon
<1> HIDE DEF f
<1>3. 0 \in S
  <2>1. f[0] = <<>>
    BY <1>2 DEF PickLaw
  <2>2. <<>> \in Seq(BlockRec) /\ Len(<<>>) = 0
    OBVIOUS
  <2>3. LeftOf(<<>>, s, bodies, 0)
    BY <2>2 DEF LeftOf
  <2> QED BY <2>1, <2>3
<1>4. ASSUME NEW k \in 0 .. Len(s) - 1, k \in S PROVE k + 1 \in S
  <2>1. f[k + 1] = PickedBy(f[k], s[k + 1], bodies)
    BY <1>2, <1>4 DEF PickLaw
  <2>2. k \in Nat /\ k < Len(s) /\ LeftOf(f[k], s, bodies, k)
    BY <1>2, <1>4
  <2>3. LeftOf(f[k + 1], s, bodies, k + 1)
    BY <2>1, <2>2, LeftStep
  <2> QED BY <2>2, <2>3
<1>5. 0 .. Len(s) \subseteq S
  <2> HIDE DEF S
  <2> QED BY <1>2, <1>3, <1>4, UpTo
<1>6. Len(s) \in S
  BY <1>2, <1>5
<1> QED BY <1>1, <1>6

\* The parse of a text, and what of it a scan sends.
LEMMA ParseIs ==
  ASSUME NEW s \in Seq(Tokens)
  PROVE  /\ Parse(s).blocks = Blocks(s).blocks /\ Parse(s).sends = Blocks(s).sends
         /\ Parse(s).blocks \in Seq(BlockRec) /\ Parse(s).sends \in Seq(BlockRec)
         /\ Parse(s).loose = (Blocks(s).loose \/ Blocks(s).open # <<>>)
<1> DEFINE b == Blocks(s)
<1>1. b \in BlockAcc
  BY BlockFacts
<1>2. Parse(s) = [b EXCEPT !.loose = @ \/ b.open # <<>>]
  BY DEF Parse
<1> HIDE DEF b
<1>3. b.blocks \in Seq(BlockRec) /\ b.sends \in Seq(BlockRec)
  BY <1>1, BlockAccIs
<1>4. /\ Parse(s).blocks = b.blocks /\ Parse(s).sends = b.sends
      /\ Parse(s).loose = (b.loose \/ b.open # <<>>)
  BY <1>1, <1>2 DEF BlockAcc
<1> QED BY <1>3, <1>4 DEF b

\* A text without its drafts is a text.
LEMMA VisibleIs ==
  ASSUME NEW s \in Seq(Tokens)
  PROVE  Visible(s) \in Seq(Tokens)
<1>1. Spans(s).kept \in Seq(Tokens) /\ Spans(s).held \in Seq(Tokens)
  BY SpanIs
<1> QED BY <1>1, ConcatProperties DEF Visible

\* What a scan may send has a body and stands in the visible text.
LEMMA SendableIs ==
  ASSUME NEW s \in Seq(Tokens)
  PROVE  /\ Sendable(s) = Blocks(Visible(s)).sends /\ Sendable(s) \in Seq(BlockRec)
         /\ \A i \in 1 .. Len(Sendable(s)) :
              StandsIn(Sendable(s)[i].body, Visible(s)) /\ Sendable(s)[i].body # <<>>
<1> DEFINE v == Visible(s)
<1>1. v \in Seq(Tokens)
  BY VisibleIs
<1> HIDE DEF v
<1>2. Parse(v).sends = Blocks(v).sends /\ Parse(v).sends \in Seq(BlockRec)
  BY <1>1, ParseIs
<1>3. SendsStand(v, Blocks(v))
  BY <1>1, BlockFacts DEF BlockFact
<1>4. Sendable(s) = Blocks(v).sends
  BY <1>2 DEF Sendable, v
<1> HIDE DEF v
<1>5. /\ Blocks(v).sends \in Seq(BlockRec)
      /\ \A i \in 1 .. Len(Blocks(v).sends) : StandsIn(Blocks(v).sends[i].body, v) /\ Blocks(v).sends[i].body # <<>>
  BY <1>2, <1>3 DEF SendsStand
<1> QED BY <1>4, <1>5 DEF v

-----------------------------------------------------------------------------
(* One scan of the streaming door.                                         *)

\* Two cuts of a text at one place.
LEMMA CutOnce ==
  ASSUME NEW a \in Seq(Tokens), NEW b \in Seq(Tokens), NEW c \in Seq(Tokens), NEW d \in Seq(Tokens),
         a \o b = c \o d, Len(a) = Len(c)
  PROVE  a = c /\ b = d
<1> DEFINE e == a \o b
<1>0. ASSUME NEW x \in Seq(Tokens), NEW y \in Seq(Tokens), e = x \o y
      PROVE  /\ Len(e) = Len(x) + Len(y) /\ Len(x) \in Nat /\ Len(y) \in Nat
             /\ \A i \in 1 .. Len(x) : e[i] = x[i]
             /\ \A i \in 1 .. Len(y) : e[Len(x) + i] = y[i]
  <2> HIDE DEF e
  <2> QED BY <1>0, ConcatAt
<1>1. /\ Len(e) = Len(a) + Len(b) /\ Len(a) \in Nat /\ Len(b) \in Nat
      /\ \A i \in 1 .. Len(a) : e[i] = a[i]
      /\ \A i \in 1 .. Len(b) : e[Len(a) + i] = b[i]
  BY <1>0, Zenon
<1>2. /\ Len(e) = Len(c) + Len(d) /\ Len(c) \in Nat /\ Len(d) \in Nat
      /\ \A i \in 1 .. Len(c) : e[i] = c[i]
      /\ \A i \in 1 .. Len(d) : e[Len(c) + i] = d[i]
  BY <1>0, Zenon
<1> HIDE DEF e
<1>3. a = c
  <2>1. \A i \in 1 .. Len(a) : a[i] = c[i]
    BY <1>1, <1>2
  <2> QED BY <2>1, SeqEqual
<1>4. b = d
  <2>1. Len(b) = Len(d)
    BY <1>1, <1>2
  <2>2. \A i \in 1 .. Len(b) : b[i] = d[i]
    BY <1>1, <1>2, <2>1
  <2> QED BY <2>1, <2>2, SeqEqual
<1> QED BY <1>3, <1>4

\* Nothing is carried: the text does not end in half a tag.
LEMMA NoHalfTag ==
  ASSUME NEW s \in Seq(Tokens), Unresolved(s) = <<>>, s # <<>>
  PROVE  Resolved(s) = s /\ s[Len(s)] # "P"
<1> DEFINE m == Masked(s)  T == TailStart(s)  n == Len(s)
<1>1. Resolved(s) \in Seq(Tokens) /\ s = Resolved(s) \o <<>> /\ Len(Resolved(s)) + 1 = T
  BY ResolvedIs
<1>2. Resolved(s) = s
  BY <1>1, ConcatEmptySeq
<1>3. T = n + 1 /\ n \in Nat \ {0}
  BY <1>1, <1>2, EmptySeq
<1>4. Starts(m, T)
  BY TailStartIs
<1>5. m \in Seq(Tokens) /\ Len(m) = n
  BY MaskedIs
<1> HIDE DEF m, T, n
<1>6. T = Cut(m)
  BY <1>3, <1>4, <1>5 DEF Starts, Candidates, Growing
<1>7. m[n] # "P"
  <2>1. m # <<>>
    BY <1>3, <1>5, EmptySeq
  <2> QED BY <1>3, <1>5, <1>6, <2>1 DEF Cut
<1>8. Spans(s).held = <<>>
  BY <1>2, SettledIsClosed
<1>9. m = Spans(s).masked /\ SpanMask(s, Spans(s).masked)
  BY <1>8, MaskedIs, SpanIs DEF m
<1>10. SpanMask(s, m)
  BY <1>9
<1>11. \A i \in 1 .. Len(m) : i = Len(s) /\ s[i] = "P" => m[i] = "P"
  BY <1>10 DEF SpanMask
<1>12. n \in 1 .. Len(m) /\ n = Len(s)
  BY <1>3, <1>5 DEF n
<1>13. s[n] = "P" => m[n] = "P"
  BY <1>11, <1>12
<1>14. s[n] # "P"
  BY <1>7, <1>13
<1> QED BY <1>2, <1>14 DEF n

\* In the settled part of a text without drafts inside of blocks no block is open.
LEMMA SettledIsShut ==
  ASSUME NEW s \in Seq(Tokens), ~DraftInBlock(s)
  PROVE  Blocks(Visible(Resolved(s))).open = <<>>
<1> DEFINE r == Resolved(s)
<1>1. r \in Seq(Tokens) /\ Spans(r).held = <<>> /\ ~Hot(Spans(r).masked)
  BY ResolvedIs, SettledIsClosed, SettledIsCold
<1> HIDE DEF r
<1>2. Spans(r).kept \in Seq(Tokens) /\ (Hot(Spans(r).kept) => Hot(Spans(r).masked))
  BY <1>1, SpanIs
<1>3. Visible(r) = Spans(r).kept
  BY <1>1, <1>2, ConcatEmptySeq DEF Visible
<1>4. ~Hot(Visible(r)) /\ Visible(r) \in Seq(Tokens)
  BY <1>1, <1>2, <1>3
<1>5. Blocks(Visible(r)).open = <<>>
  BY <1>4, OpenIsHot
<1> QED BY <1>5 DEF r

\* What the scans of a turn have read, sent and carried: pre is what is settled.
PreIs(said_, tail_, pre) ==
  /\ pre \in Seq(Tokens) /\ said_ = pre \o tail_ /\ Spans(pre).held = <<>>
  /\ tail_ = <<>> => pre = <<>> \/ pre[Len(pre)] # "P"
FoundStands(found_, pre) == \A i \in 1 .. Len(found_) : StandsIn(found_[i].body, Visible(pre))
FoundIsAll(said_, found_, pre) ==
  ~DraftInBlock(said_) => pre = Resolved(said_) /\ found_ = Sendable(pre)
Scanned(said_, tail_, found_, pre) ==
  PreIs(said_, tail_, pre) /\ FoundStands(found_, pre) /\ FoundIsAll(said_, found_, pre)

\* One segment more: the settled part grows by what settles, the rest is carried.
LEMMA PreStep ==
  ASSUME NEW s \in Seq(Tokens), NEW t \in Seq(Tokens), NEW p, PreIs(s, t, p), NEW text \in Seq(Tokens),
         NEW input, input = Join(t, text)
  PROVE  /\ input \in Seq(Tokens) /\ Join(s, text) = p \o input
         /\ PreIs(Join(s, text), Unresolved(input), p \o Resolved(input))
<1>1. p \in Seq(Tokens) /\ s = p \o t /\ Spans(p).held = <<>> /\ (t = <<>> => p = <<>> \/ p[Len(p)] # "P")
  BY DEF PreIs
<1>2. input \in Seq(Tokens) /\ (input = <<>> => t = <<>> /\ text = <<>>)
  BY JoinType
<1>3. Join(s, text) = p \o input
  <2>1. Join(p \o t, text) = p \o Join(t, text)
    <3>1. JoinsTo(p, t, text)
      BY <1>1, JoinAfter, Zenon
    <3> QED BY <3>1 DEF JoinsTo
  <2> QED BY <1>1, <2>1
<1> DEFINE r == Resolved(input)  u == Unresolved(input)
<1>4. r \in Seq(Tokens) /\ u \in Seq(Tokens) /\ input = r \o u
  BY <1>2, ResolvedIs
<1>5. Spans(r).held = <<>>
  BY <1>2, SettledIsClosed
<1>6. u = <<>> => input = <<>> \/ (r = input /\ input[Len(input)] # "P")
  BY <1>2, NoHalfTag
<1> HIDE DEF r, u
<1>7. Join(s, text) = (p \o r) \o u /\ p \o r \in Seq(Tokens)
  <2>1. p \o r \in Seq(Tokens)
    BY <1>1, <1>4, ConcatProperties
  <2>2. (p \o r) \o u = p \o (r \o u)
    <3>1. Thrice(p, r, u)
      BY <1>1, <1>4, Concat3, Zenon
    <3> QED BY <3>1 DEF Thrice
  <2> QED BY <1>3, <1>4, <2>1, <2>2
<1>8. Spans(p \o r).held = <<>>
  BY <1>1, <1>4, <1>5, SpanConcat
<1>9. ASSUME u = <<>> PROVE p \o r = <<>> \/ (p \o r)[Len(p \o r)] # "P"
  <2>1. CASE input = <<>>
    <3>1. r = <<>>
      BY <1>4, <1>9, <2>1, ConcatEmptySeq
    <3>2. p \o r = p
      BY <1>1, <3>1, ConcatEmptySeq
    <3> QED BY <1>1, <1>2, <2>1, <3>2
  <2>2. CASE input # <<>>
    <3>1. r = input /\ input[Len(input)] # "P"
      BY <1>6, <1>9, <2>2
    <3>2. Len(r) \in Nat \ {0}
      BY <1>2, <2>2, <3>1, EmptySeq
    <3> DEFINE c == p \o r
    <3>3. Len(c) = Len(p) + Len(r) /\ \A i \in 1 .. Len(r) : c[Len(p) + i] = r[i]
      BY <1>1, <1>4, ConcatAt
    <3> HIDE DEF c
    <3>4. c[Len(c)] = r[Len(r)]
      BY <3>2, <3>3
    <3> QED BY <3>1, <3>4 DEF c
  <2> QED BY <2>1, <2>2
<1>10. PreIs(Join(s, text), u, p \o r)
  BY <1>7, <1>8, <1>9 DEF PreIs
<1> QED BY <1>2, <1>3, <1>10 DEF r, u

\* What was found still stands in the settled part, and so does what is found now.
LEMMA StandsStep ==
  ASSUME NEW p \in Seq(Tokens), Spans(p).held = <<>>, NEW f \in Seq(BlockRec), FoundStands(f, p),
         NEW r \in Seq(Tokens)
  PROVE  FoundStands(f \o Sendable(r), p \o r)
<1> DEFINE b == Sendable(r)  v == Visible(p)  w == Visible(r)  c == f \o b
<1>1. b \in Seq(BlockRec) /\ \A i \in 1 .. Len(b) : StandsIn(b[i].body, w)
  BY SendableIs
<1>2. v \in Seq(Tokens) /\ w \in Seq(Tokens) /\ Visible(p \o r) = v \o w
  BY VisibleIs, MaskedConcat
<1>3. \A i \in 1 .. Len(f) : StandsIn(f[i].body, v)
  BY DEF FoundStands
<1> HIDE DEF b, v, w
<1>4. /\ Len(c) = Len(f) + Len(b) /\ Len(f) \in Nat /\ Len(b) \in Nat
      /\ \A i \in 1 .. Len(c) : c[i] = IF i <= Len(f) THEN f[i] ELSE b[i - Len(f)]
  BY <1>1, ConcatProperties
<1> HIDE DEF c
<1>5. ASSUME NEW i \in 1 .. Len(c) PROVE StandsIn(c[i].body, v \o w)
  <2>1. CASE i <= Len(f)
    <3>1. i \in 1 .. Len(f) /\ c[i] = f[i]
      BY <1>4, <2>1
    <3>2. StandsIn(f[i].body, v)
      BY <1>3, <3>1
    <3>3. StandsIn(f[i].body, v \o w)
      BY <1>2, <3>2, StandsPrefix
    <3> QED BY <3>1, <3>3, Zenon
  <2>2. CASE ~(i <= Len(f))
    <3> DEFINE j == i - Len(f)
    <3>1. j \in 1 .. Len(b) /\ c[i] = b[j]
      BY <1>4, <2>2
    <3> HIDE DEF j
    <3>2. StandsIn(b[j].body, w)
      BY <1>1, <3>1
    <3>3. StandsIn(b[j].body, v \o w)
      BY <1>2, <3>2, StandsSuffix
    <3> QED BY <3>1, <3>3, Zenon
  <2> QED BY <2>1, <2>2
<1>6. \A i \in 1 .. Len(c) : StandsIn(c[i].body, Visible(p \o r))
  BY <1>2, <1>5
<1> QED BY <1>6 DEF FoundStands, c, b

\* Without a draft inside of a block, what was found is what the whole text has.
LEMMA AllStep ==
  ASSUME NEW s \in Seq(Tokens), NEW t \in Seq(Tokens), NEW p, PreIs(s, t, p), NEW f \in Seq(BlockRec),
         FoundIsAll(s, f, p), NEW text \in Seq(Tokens), NEW input, input = Join(t, text)
  PROVE  FoundIsAll(Join(s, text), f \o Sendable(Resolved(input)), p \o Resolved(input))
<1> DEFINE r == Resolved(input)  u == Unresolved(input)  n == Join(s, text)  q == p \o r
<1> SUFFICES ASSUME ~DraftInBlock(n) PROVE q = Resolved(n) /\ f \o Sendable(r) = Sendable(q)
  BY DEF FoundIsAll
<1>1. p \in Seq(Tokens) /\ s = p \o t /\ Spans(p).held = <<>>
  BY DEF PreIs
<1>2. input \in Seq(Tokens) /\ n = p \o input /\ n \in Seq(Tokens)
  <2>1. input \in Seq(Tokens) /\ n = p \o input
    <3>1. input \in Seq(Tokens)
      BY JoinType
    <3>2. t = <<>> => p = <<>> \/ p[Len(p)] # "P"
      BY DEF PreIs
    <3>3. Join(p \o t, text) = p \o Join(t, text)
      <4>1. JoinsTo(p, t, text)
        BY <1>1, <3>2, JoinAfter, Zenon
      <4> QED BY <4>1 DEF JoinsTo
    <3> QED BY <1>1, <3>1, <3>3
  <2>2. n \in Seq(Tokens)
    BY JoinType
  <2> QED BY <2>1, <2>2
<1>3. r \in Seq(Tokens) /\ u \in Seq(Tokens) /\ input = r \o u /\ Len(r) + 1 = TailStart(input)
  BY <1>2, ResolvedIs
<1>4. ~DraftInBlock(s)
  BY DraftStays
<1>5. p = Resolved(s) /\ f = Sendable(p)
  BY <1>4 DEF FoundIsAll
<1>6. ~Hot(Spans(p).masked) /\ Blocks(Visible(p)).open = <<>>
  BY <1>4, <1>5, SettledIsCold, SettledIsShut
<1>7. /\ Resolved(n) \in Seq(Tokens) /\ Unresolved(n) \in Seq(Tokens)
      /\ n = Resolved(n) \o Unresolved(n) /\ Len(Resolved(n)) + 1 = TailStart(n)
  BY <1>2, ResolvedIs
<1> HIDE DEF r, u, n
<1>8. q \in Seq(Tokens) /\ Len(q) = Len(p) + Len(r) /\ n = q \o u
  <2>1. q \in Seq(Tokens) /\ Len(q) = Len(p) + Len(r)
    BY <1>1, <1>3, ConcatAt
  <2>2. (p \o r) \o u = p \o (r \o u)
    <3>1. Thrice(p, r, u)
      BY <1>1, <1>3, Concat3, Zenon
    <3> QED BY <3>1 DEF Thrice
  <2> QED BY <1>2, <1>3, <2>1, <2>2
<1>9. q = Resolved(n)
  <2>1. CASE input = <<>>
    <3>1. t = <<>>
      BY <2>1, JoinType
    <3>2. n = s
      BY <1>1, <1>2, <2>1, <3>1
    <3>3. r = <<>>
      <4> DEFINE lr == Len(r)  lu == Len(u)  li == Len(input)
      <4>1. lr \in Nat /\ lu \in Nat /\ li = lr + lu
        BY <1>3, ConcatAt
      <4>2. li = 0
        BY <2>1, EmptySeq
      <4> HIDE DEF lr, lu, li
      <4>4. lr = 0
        BY <4>1, <4>2
      <4>3. Len(r) = 0
        BY <4>4 DEF lr
      <4> QED BY <1>3, <4>3, EmptySeq
    <3> QED BY <1>1, <1>5, <3>2, <3>3, ConcatEmptySeq
  <2>2. CASE input # <<>>
    <3>1. TailStart(n) = Len(p) + TailStart(input)
      BY <1>1, <1>2, <1>6, <2>2, TailShifts
    <3>2. Len(q) = Len(Resolved(n))
      <4>1. Len(p) \in Nat /\ Len(r) \in Nat /\ Len(Resolved(n)) \in Nat
        BY <1>1, <1>3, <1>7
      <4> QED BY <1>3, <1>7, <1>8, <3>1, <4>1
    <3> QED BY <1>3, <1>7, <1>8, <3>2, CutOnce
  <2> QED BY <2>1, <2>2
<1>10. f \o Sendable(r) = Sendable(q)
  <2>1. Visible(q) = Visible(p) \o Visible(r) /\ Visible(p) \in Seq(Tokens) /\ Visible(r) \in Seq(Tokens)
    BY <1>1, <1>3, MaskedConcat, VisibleIs
  <2>2. Blocks(Visible(p) \o Visible(r)).sends = Blocks(Visible(p)).sends \o Blocks(Visible(r)).sends
    BY <1>6, <2>1, BlockConcat
  <2>3. /\ Sendable(q) = Blocks(Visible(q)).sends /\ Sendable(p) = Blocks(Visible(p)).sends
        /\ Sendable(r) = Blocks(Visible(r)).sends
    BY <1>1, <1>3, <1>8, SendableIs
  <2> QED BY <1>5, <2>1, <2>2, <2>3
<1> QED BY <1>9, <1>10

\* What one more segment does to what was scanned.
LEMMA ScanStep ==
  ASSUME NEW s \in Seq(Tokens), NEW t \in Seq(Tokens), NEW f \in Seq(BlockRec), NEW p, Scanned(s, t, f, p),
         NEW text \in Seq(Tokens), NEW input, input = Join(t, text)
  PROVE  Scanned(Join(s, text), Unresolved(input), f \o Sendable(Resolved(input)), p \o Resolved(input))
<1>1. PreIs(s, t, p) /\ FoundStands(f, p) /\ FoundIsAll(s, f, p)
  BY DEF Scanned
<1>2. input \in Seq(Tokens) /\ PreIs(Join(s, text), Unresolved(input), p \o Resolved(input))
  BY <1>1, PreStep
<1>3. FoundStands(f \o Sendable(Resolved(input)), p \o Resolved(input))
  <2>1. p \in Seq(Tokens) /\ Spans(p).held = <<>> /\ Resolved(input) \in Seq(Tokens)
    BY <1>1, <1>2, ResolvedIs DEF PreIs
  <2> QED BY <1>1, <2>1, StandsStep
<1>4. FoundIsAll(Join(s, text), f \o Sendable(Resolved(input)), p \o Resolved(input))
  BY <1>1, AllStep
<1> QED BY <1>2, <1>3, <1>4 DEF Scanned

\* What was scanned is the whole of what is settled.
LEMMA ScanShows ==
  ASSUME NEW s \in Seq(Tokens), NEW t \in Seq(Tokens), NEW f \in Seq(BlockRec), NEW p, Scanned(s, t, f, p)
  PROVE  /\ ~DraftInBlock(s) => f = Sendable(Resolved(s)) /\ t = Unresolved(s)
         /\ \A i \in 1 .. Len(f) : StandsIn(f[i].body, Spans(s).kept)
<1>1. p \in Seq(Tokens) /\ s = p \o t /\ Spans(p).held = <<>>
  BY DEF Scanned, PreIs
<1>2. ASSUME ~DraftInBlock(s) PROVE f = Sendable(Resolved(s)) /\ t = Unresolved(s)
  <2>1. p = Resolved(s) /\ f = Sendable(p)
    BY <1>2 DEF Scanned, FoundIsAll
  <2>2. Resolved(s) \in Seq(Tokens) /\ Unresolved(s) \in Seq(Tokens) /\ s = Resolved(s) \o Unresolved(s)
    BY ResolvedIs
  <2>3. t = Unresolved(s)
    BY <1>1, <2>1, <2>2, CutOnce
  <2> QED BY <2>1, <2>3
<1>3. Visible(p) = Spans(p).kept /\ Spans(p).kept \in Seq(Tokens) /\ Spans(t).kept \in Seq(Tokens)
  <2>1. Spans(p).kept \in Seq(Tokens) /\ Spans(t).kept \in Seq(Tokens)
    BY <1>1, SpanIs
  <2>2. Spans(p).kept \o <<>> = Spans(p).kept
    BY <2>1, ConcatEmptySeq
  <2> QED BY <1>1, <2>1, <2>2 DEF Visible
<1>4. Spans(s).kept = Spans(p).kept \o Spans(t).kept
  BY <1>1, SpanConcat
<1>5. ASSUME NEW i \in 1 .. Len(f) PROVE StandsIn(f[i].body, Spans(s).kept)
  <2>1. StandsIn(f[i].body, Spans(p).kept)
    BY <1>3 DEF Scanned, FoundStands
  <2> QED BY <1>3, <1>4, <2>1, StandsPrefix
<1> QED BY <1>2, <1>5

-----------------------------------------------------------------------------
(* The inductive invariant of the turns.                                   *)

NoneOrText == Seq(Tokens) \cup {NoText}
Doors == {"loop", "error", "tool", "host", "door", "result"}
Row == [body : Seq(Tokens), by : Doors, of : Nat, at : Nat]
Input == [of : Nat, retry : BOOLEAN]
ResultRec == [text : NoneOrText, failed : BOOLEAN]

TextShape ==
  /\ said \in Seq(Tokens) /\ tail \in Seq(Tokens) /\ found \in Seq(BlockRec)
  /\ segment \in NoneOrText /\ calling \in NoneOrText
RowShape == out \in Seq(Row) /\ mark \in 0 .. Len(out) /\ sent \in Nat /\ at \in Nat /\ turns \in Nat
QueueShape ==
  /\ inputs \in Seq(Input) /\ prompts \in Seq(Nat) /\ first \in Nat /\ answering \in Input \cup {NoTurn}
DoneShape == last \in ResultRec \cup {NoTurn} /\ fresh \in BOOLEAN
FlagShape == nudged \in BOOLEAN /\ taskNudged \in BOOLEAN /\ flag \in BOOLEAN
TurnShape == plan \in Plans /\ TextShape /\ RowShape /\ QueueShape /\ DoneShape /\ FlagShape

\* Prompts are answered as they were asked.
AskedBefore ==
  /\ asked \in Nat
  /\ answering # NoTurn => answering.of <= asked
  /\ \A i \in 1 .. Len(inputs) : inputs[i].of <= asked

\* Between two queries and between two turns nothing is under way.
AtRest ==
  /\ loop \in {"down", "idle", "query"}
  /\ loop # "query" => NoQuery
  /\ answering = NoTurn =>
       /\ said = <<>> /\ segment = NoText /\ at = 0 /\ tail = <<>> /\ found = <<>>
       /\ sent = 0 /\ calling = NoText
  /\ last # NoTurn => answering = NoTurn

ConvInv ==
  /\ convs \in Nat /\ cleared \in 0 .. convs
  /\ \A c \in {cont, saved, conv, resumed} : c \in 0 .. convs /\ (c # 0 => c > cleared)

ScanInv ==
  answering # NoTurn /\ plan.midturn /\ ~plan.task => \E pre : Scanned(said, tail, found, pre)

\* The rows above the mark are those of this turn, written at its events.
RowsInv ==
  /\ \A i \in 1 .. Len(out) : out[i].of <= turns
  /\ loop = "query" => /\ \A i \in 1 .. Len(out) : out[i].of = turns <=> i > mark
                       /\ \A i \in mark + 1 .. Len(out) : out[i].at <= at
  /\ sent > 0 => Len(out) > mark
FoundIsSent ==
  \A i \in 1 .. Len(found) : \E j \in mark + 1 .. Len(out) : out[j].body = found[i].body
DoorSendsOnce ==
  \A i, j \in 1 .. Len(out) :
    i < j /\ out[j].by = "door" /\ out[i].of = out[j].of /\ out[i].at < out[j].at
      => out[i].body # out[j].body

\* One prompt at a time, and the one that is answered is the oldest.
OneExchange ==
  \/ answering = NoTurn /\ inputs = <<>> /\ prompts = <<>>
  \/ answering = NoTurn /\ inputs = <<inputs[1]>> /\ prompts = <<inputs[1].of>>
  \/ answering # NoTurn /\ inputs = <<>> /\ prompts = <<answering.of>>
Odd == {"overlap", "repeat", "swallowed"}
ExchangeInv ==
  /\ loop = "query" /\ oddities \cap Odd = {} => OneExchange
  /\ last # NoTurn /\ ~fresh /\ last.text # NoText => last.text \in seen
  /\ mixed => oddities \cap Odd # {}

\* A prompt that is no retry has not been nudged for, and its tool call wrote a row.
TookRow == \E j \in mark + 1 .. Len(out) : out[j].by # "host"
FirstTry == answering # NoTurn /\ ~answering.retry => ~nudged /\ (flag => calling # NoText \/ TookRow)
NewOnes == \A i \in 1 .. Len(inputs) : ~inputs[i].retry => ~nudged /\ ~flag
NoHost == loop = "query" => \A j \in mark + 1 .. Len(out) : out[j].by # "host"
NudgeInv ==
  /\ oddities = {} => FirstTry /\ NewOnes /\ NoHost
  /\ lost => oddities # {}

TurnInv ==
  /\ TurnShape /\ AskedBefore /\ AtRest /\ ConvInv /\ ScanInv
  /\ RowsInv /\ FoundIsSent /\ DoorSendsOnce /\ ExchangeInv /\ NudgeInv

-----------------------------------------------------------------------------
(* What the steps do.                                                      *)

\* A chat row of this moment.
LEMMA ChatIs ==
  ASSUME at \in Nat, turns \in Nat, NEW body \in Seq(Tokens), NEW by \in Doors
  PROVE  /\ Chat(body, by) \in Row /\ Chat(body, by).body = body /\ Chat(body, by).by = by
         /\ Chat(body, by).of = turns /\ Chat(body, by).at = at
BY DEF Chat, Row

\* Rows of this turn, and of now.
Now(rows, doors) ==
  /\ rows \in Seq(Row)
  /\ \A i \in 1 .. Len(rows) : rows[i].of = turns /\ rows[i].at = at /\ rows[i].by \in doors

\* One row of this moment.
LEMMA OneRow ==
  ASSUME at \in Nat, turns \in Nat, NEW body \in Seq(Tokens), NEW by \in Doors
  PROVE  Now(<<Chat(body, by)>>, {by}) /\ Len(<<Chat(body, by)>>) = 1
<1> DEFINE c == Chat(body, by)
<1>1. c \in Row /\ c.by = by /\ c.of = turns /\ c.at = at
  BY ChatIs
<1> HIDE DEF c
<1>2. <<c>> \in Seq(Row) /\ Len(<<c>>) = 1 /\ <<c>>[1] = c
  BY <1>1
<1>3. Now(<<c>>, {by})
  BY <1>1, <1>2 DEF Now
<1> QED BY <1>2, <1>3 DEF c

\* The rows of a list of blocks.
LEMMA RowsAre ==
  ASSUME at \in Nat, turns \in Nat, NEW blocks \in Seq(BlockRec), NEW by \in Doors
  PROVE  /\ Now(RowsOf(blocks, by), {by}) /\ Len(RowsOf(blocks, by)) = Len(blocks)
         /\ \A i \in 1 .. Len(blocks) : RowsOf(blocks, by)[i].body = blocks[i].body
<1> DEFINE n == Len(blocks)  r == RowsOf(blocks, by)  c == [i \in 1 .. n |-> Chat(blocks[i].body, by)]
<1>1. n \in Nat /\ r = c
  BY DEF RowsOf
<1>2. ASSUME NEW i \in 1 .. n
      PROVE  /\ Chat(blocks[i].body, by) \in Row /\ Chat(blocks[i].body, by).body = blocks[i].body
             /\ Chat(blocks[i].body, by).by = by
             /\ Chat(blocks[i].body, by).of = turns /\ Chat(blocks[i].body, by).at = at
  <2>1. blocks[i].body \in Seq(Tokens)
    <3>1. blocks[i] \in BlockRec
      OBVIOUS
    <3> QED BY <3>1 DEF BlockRec
  <2> QED BY <2>1, ChatIs
<1>3. c \in [1 .. n -> Row]
  BY <1>2
<1>4. c \in Seq(Row)
  BY <1>1, <1>3
<1>5. DOMAIN c = 1 .. n
  OBVIOUS
<1>6. Len(c) = n
  <2> HIDE DEF c, n
  <2> QED BY <1>1, <1>4, <1>5, LenProperties
<1>7. \A i \in 1 .. n : c[i].body = blocks[i].body /\ c[i].by = by /\ c[i].of = turns /\ c[i].at = at
  BY <1>2
<1> HIDE DEF c, r, n
<1>8. Now(c, {by})
  BY <1>4, <1>6, <1>7 DEF Now
<1> QED BY <1>1, <1>6, <1>7, <1>8 DEF r, n

\* Rows after rows.
LEMMA NowConcat ==
  ASSUME NEW a, NEW b, NEW doors, Now(a, doors), Now(b, doors)
  PROVE  Now(a \o b, doors)
<1>1. a \in Seq(Row) /\ b \in Seq(Row)
  BY DEF Now
<1> DEFINE c == a \o b
<1>2. /\ c \in Seq(Row) /\ Len(c) = Len(a) + Len(b) /\ Len(a) \in Nat /\ Len(b) \in Nat
      /\ \A i \in 1 .. Len(c) : c[i] = IF i <= Len(a) THEN a[i] ELSE b[i - Len(a)]
  BY <1>1, ConcatProperties
<1> HIDE DEF c
<1>3. ASSUME NEW i \in 1 .. Len(c) PROVE c[i].of = turns /\ c[i].at = at /\ c[i].by \in doors
  <2>1. CASE i <= Len(a)
    <3>1. i \in 1 .. Len(a) /\ c[i] = a[i]
      BY <1>2, <2>1
    <3>2. a[i].of = turns /\ a[i].at = at /\ a[i].by \in doors
      BY <3>1 DEF Now
    <3> QED BY <3>1, <3>2
  <2>2. CASE ~(i <= Len(a))
    <3> DEFINE j == i - Len(a)
    <3>1. j \in 1 .. Len(b) /\ c[i] = b[j]
      BY <1>2, <2>2
    <3> HIDE DEF j
    <3>2. b[j].of = turns /\ b[j].at = at /\ b[j].by \in doors
      BY <3>1 DEF Now
    <3> QED BY <3>1, <3>2
  <2> QED BY <2>1, <2>2
<1> QED BY <1>2, <1>3 DEF Now, c

\* No row at all.
LEMMA NoRows == \A doors : Now(<<>>, doors)
<1>1. <<>> \in Seq(Row) /\ Len(<<>>) = 0
  OBVIOUS
<1> QED BY <1>1 DEF Now

\* A scan: what it finds, and what of it goes out.
ScanRows(rows, blocks) ==
  /\ Now(rows, {"door"}) /\ out' = out \o rows /\ sent' = sent + Len(rows)
  /\ \A i \in 1 .. Len(rows) : rows[i].body \notin Echoes
  /\ \A j \in 1 .. Len(blocks) :
       blocks[j].body \in Echoes \/ \E i \in 1 .. Len(rows) : rows[i].body = blocks[j].body

\* A segment of text: what it is joined with, what is carried, and the rows it writes.
LEMMA ScanIs ==
  ASSUME at \in Nat, turns \in Nat, said \in Seq(Tokens), tail \in Seq(Tokens),
         plan.midturn, ~plan.task, NEW text \in Seq(Tokens), TurnText(text)
  PROVE  LET input == Join(tail, text)
             blocks == Sendable(Resolved(input))
         IN /\ input \in Seq(Tokens) /\ blocks \in Seq(BlockRec)
            /\ tail' = Unresolved(input) /\ found' = found \o blocks /\ said' = Join(said, text)
            /\ \E rows \in Seq(Row) : ScanRows(rows, blocks)
<1> DEFINE input == Join(tail, text)  blocks == Sendable(Resolved(input))  news == NotEchoed(blocks)
           rows == RowsOf(news, "door")
<1>1. input \in Seq(Tokens) /\ blocks \in Seq(BlockRec)
  BY JoinType, ResolvedIs, SendableIs
<1>2. /\ tail' = Unresolved(input) /\ found' = found \o blocks /\ said' = Join(said, text)
      /\ out' = out \o rows /\ sent' = sent + Len(news)
  BY DEF TurnText
<1> HIDE DEF input, blocks
<1>3. LeftOf(news, blocks, Echoes, Len(blocks))
  BY <1>1, WithoutIs DEF NotEchoed
<1> HIDE DEF news
<1>4. /\ news \in Seq(BlockRec)
      /\ \A i \in 1 .. Len(news) : news[i].body \notin Echoes
      /\ \A j \in 1 .. Len(blocks) : blocks[j].body \in Echoes \/ \E i \in 1 .. Len(news) : news[i] = blocks[j]
  <2>1. news \in Seq(BlockRec)
    BY <1>3 DEF LeftOf
  <2>2. \A i \in 1 .. Len(news) : \E j \in 1 .. Len(blocks) : news[i] = blocks[j] /\ blocks[j].body \notin Echoes
    BY <1>3 DEF LeftOf
  <2>3. \A j \in 1 .. Len(blocks) : blocks[j].body \in Echoes \/ \E i \in 1 .. Len(news) : news[i] = blocks[j]
    BY <1>3 DEF LeftOf
  <2> QED BY <2>1, <2>2, <2>3
<1>5. /\ Now(rows, {"door"}) /\ Len(rows) = Len(news)
      /\ \A i \in 1 .. Len(news) : rows[i].body = news[i].body
  <2>1. "door" \in Doors
    BY DEF Doors
  <2> QED BY <1>4, <2>1, RowsAre
<1> HIDE DEF rows
<1>6. \A i \in 1 .. Len(rows) : rows[i].body \notin Echoes
  BY <1>4, <1>5
<1>7. \A j \in 1 .. Len(blocks) :
        blocks[j].body \in Echoes \/ \E i \in 1 .. Len(rows) : rows[i].body = blocks[j].body
  BY <1>4, <1>5
<1>8. ScanRows(rows, blocks)
  BY <1>2, <1>5, <1>6, <1>7 DEF ScanRows
<1>9. rows \in Seq(Row)
  BY <1>5 DEF Now
<1>10. \E r \in Seq(Row) : ScanRows(r, blocks)
  BY <1>8, <1>9
<1> QED BY <1>1, <1>2, <1>10 DEF blocks, input

\* The order in which rows are appended does not matter.
LEMMA RowConcat3 == \A a, b, c \in Seq(Row) : (a \o b) \o c = a \o (b \o c)
BY ConcatAssociative

\* A result is dispatched: the rows it writes, and whether a nudge goes in for it.
ResultDoors == {"result", "error"}
Delivered(text, rows) == rows # <<>> \/ nudged \/ flag \/ TurnDelivered \/ plan.task \/ Visible(text) = <<>>
Dispatched(text, of, rows, rewrap, again) ==
  /\ rewrap \in BOOLEAN /\ again \in BOOLEAN /\ ~(rewrap /\ again)
  /\ Now(rows, ResultDoors) /\ out' = out \o rows
  /\ inputs' = IF rewrap \/ again THEN Append(inputs, [of |-> of, retry |-> TRUE]) ELSE inputs
  /\ nudged' = (nudged \/ rewrap) /\ taskNudged' = (taskNudged \/ again)
  /\ seen' = IF rewrap THEN {} ELSE seen \cup {text}
  /\ prompts' = IF ~rewrap /\ ~again /\ prompts # <<>> THEN Tail(prompts) ELSE prompts
  /\ mixed' = (mixed \/ of # OldestPrompt)
  /\ rewrap \/ Delivered(text, rows)

\* Words that are not asked for again were sent, or may not be asked for.
LEMMA WordsAreSent ==
  ASSUME NEW text \in Seq(Tokens), plan.midturn \in BOOLEAN, plan.task \in BOOLEAN,
         ~plan.task, Visible(text) # <<>>, ~HasUnwrapped(text), ~TurnDelivered
  PROVE  ResultRows(text) # <<>>
<1> SUFFICES ASSUME ResultRows(text) = <<>> PROVE FALSE
  OBVIOUS
<1> DEFINE v == Visible(text)  read == Parse(v)
<1>1. ~Leftover(text)
  BY DEF HasUnwrapped
<1>2. v \in Seq(Tokens) /\ v # <<>>
  BY VisibleIs
<1> HIDE DEF v
<1>3. BlocksCount(v, Blocks(v))
  BY <1>2, BlockFacts DEF BlockFact
<1>4. /\ read.blocks = Blocks(v).blocks /\ read.sends = Blocks(v).sends /\ read.blocks \in Seq(BlockRec)
      /\ read.loose = (Blocks(v).loose \/ Blocks(v).open # <<>>)
  BY <1>2, ParseIs
<1>5. /\ ~read.loose
      /\ \A i \in 1 .. Len(read.blocks) :
           ~(plan.task \/ ~read.blocks[i].known \/ read.blocks[i].body = <<>> \/ (plan.midturn /\ ~TurnDelivered))
  BY <1>1 DEF Leftover, v
<1> HIDE DEF read
<1>6. read.blocks # <<>>
  BY <1>2, <1>3, <1>4, <1>5 DEF BlocksCount
<1>7. 1 \in 1 .. Len(read.blocks)
  <2>1. Len(read.blocks) \in Nat \ {0}
    BY <1>4, <1>6, EmptySeq
  <2> QED BY <2>1
<1>8. read.blocks[1].known /\ read.blocks[1].body # <<>> /\ ~plan.midturn
  BY <1>5, <1>7
<1>9. read.sends # <<>>
  <2>1. 1 \in 1 .. Len(Blocks(v).blocks) /\ Blocks(v).blocks[1].known /\ Blocks(v).blocks[1].body # <<>>
    BY <1>4, <1>7, <1>8
  <2>2. Blocks(v).sends # <<>>
    BY <1>3, <2>1, Zenon DEF BlocksCount
  <2> QED BY <1>4, <2>2
<1>10. ResultRows(text) = read.sends
  BY <1>8 DEF ResultRows, Sendable, read, v
<1> QED BY <1>9, <1>10

\* Dispatch writes its rows, asks again at most once and moves the queues to match.
LEMMA DispatchIs ==
  ASSUME at \in Nat, turns \in Nat, plan.midturn \in BOOLEAN, plan.task \in BOOLEAN,
         nudged \in BOOLEAN, taskNudged \in BOOLEAN, flag \in BOOLEAN, inputs \in Seq(Input),
         out \in Seq(Row), NEW text \in Seq(Tokens), NEW failed \in BOOLEAN, NEW of \in Nat, Dispatch(text, failed, of)
  PROVE  \E rows \in Seq(Row) : \E rewrap, again \in BOOLEAN : Dispatched(text, of, rows, rewrap, again)
<1> DEFINE retry == [of |-> of, retry |-> TRUE]
           notice == failed /\ BlockCount(text) = 0 /\ ~plan.task
           rewrap == ~notice /\ Rewrap(text)
           again == ~notice /\ NudgeTask(text)
           nudges == (IF rewrap THEN <<retry>> ELSE <<>>) \o (IF again THEN <<retry>> ELSE <<>>)
           sends == RowsOf(ResultRows(text), "result")
           more == IF notice THEN <<Chat(text, "error")>> ELSE <<>>
           rows == (out \o sends) \o more
           all == sends \o more
<1>1. /\ out' = rows /\ inputs' = inputs \o nudges
      /\ nudged' = (nudged \/ rewrap) /\ taskNudged' = (taskNudged \/ again)
      /\ seen' = IF rewrap THEN {} ELSE seen \cup {text}
      /\ prompts' = IF nudges = <<>> /\ prompts # <<>> THEN Tail(prompts) ELSE prompts
      /\ mixed' = (mixed \/ of # OldestPrompt)
  BY DEF Dispatch
<1>2. rewrap \in BOOLEAN /\ again \in BOOLEAN /\ ~(rewrap /\ again)
  BY DEF Rewrap, NudgeTask, HasUnwrapped
<1>3. ResultRows(text) \in Seq(BlockRec) /\ "result" \in Doors /\ "error" \in Doors
  <2>1. Sendable(text) \in Seq(BlockRec) /\ <<>> \in Seq(BlockRec)
    BY SendableIs
  <2> QED BY <2>1 DEF ResultRows, Doors
<1>4. Now(sends, {"result"}) /\ Len(sends) = Len(ResultRows(text))
  BY <1>3, RowsAre
<1>5. Now(more, {"error"})
  BY <1>3, OneRow, NoRows
<1>6. notice => Len(more) = 1
  BY <1>3, OneRow
<1>7. ~rewrap => notice \/ ~Rewrap(text)
  OBVIOUS
<1>8. nudges = IF rewrap \/ again THEN <<retry>> ELSE <<>>
  <2>1. retry \in Input
    BY DEF Input
  <2> HIDE DEF retry, rewrap, again
  <2>2. <<retry>> \in Seq(Input) /\ <<>> \in Seq(Input)
    BY <2>1
  <2>3. <<retry>> \o <<>> = <<retry>> /\ <<>> \o <<retry>> = <<retry>> /\ <<>> \o <<>> = <<>>
    BY <2>2, ConcatEmptySeq
  <2> QED BY <1>2, <2>3
<1> HIDE DEF rewrap, again, notice, sends, more
<1>9. inputs' = IF rewrap \/ again THEN Append(inputs, retry) ELSE inputs
  <2>1. CASE rewrap \/ again
    <3>1. retry \in Input
      BY DEF Input
    <3>2. inputs \o <<retry>> = Append(inputs, retry)
      BY <3>1, AppendIsConcat
    <3> QED BY <1>1, <1>8, <2>1, <3>2
  <2>2. CASE ~(rewrap \/ again)
    BY <1>1, <1>8, <2>2, ConcatEmptySeq
  <2> QED BY <2>1, <2>2
<1>10. prompts' = IF ~rewrap /\ ~again /\ prompts # <<>> THEN Tail(prompts) ELSE prompts
  <2>1. <<retry>> # <<>>
    OBVIOUS
  <2> QED BY <1>1, <1>8, <2>1
<1>11. Now(all, ResultDoors)
  <2>1. Now(sends, ResultDoors) /\ Now(more, ResultDoors)
    BY <1>4, <1>5 DEF Now, ResultDoors
  <2> QED BY <2>1, NowConcat
<1>12. sends \in Seq(Row) /\ more \in Seq(Row)
  BY <1>4, <1>5 DEF Now
<1>13. ASSUME ~rewrap PROVE Delivered(text, all)
  <2> SUFFICES ASSUME ~nudged, ~flag, ~TurnDelivered, ~plan.task, Visible(text) # <<>> PROVE all # <<>>
    BY DEF Delivered
  <2>1. CASE notice
    <3>1. Len(all) = Len(sends) + Len(more) /\ Len(sends) \in Nat
      BY <1>12, ConcatProperties
    <3>2. Len(more) = 1
      BY <1>6, <2>1
    <3> HIDE DEF all
    <3>3. Len(all) # 0
      BY <3>1, <3>2
    <3> QED BY <3>3, EmptySeq
  <2>2. CASE ~notice
    <3>1. ~HasUnwrapped(text)
      BY <1>7, <1>13, <2>2 DEF Rewrap
    <3>2. ResultRows(text) # <<>>
      BY <3>1, WordsAreSent
    <3>3. Len(sends) \in Nat \ {0}
      BY <1>3, <1>4, <3>2, EmptySeq
    <3>4. Len(all) = Len(sends) + Len(more) /\ Len(more) \in Nat
      BY <1>12, ConcatProperties
    <3> QED BY <3>3, <3>4
  <2> QED BY <2>1, <2>2
<1>14. rows = out \o all /\ all \in Seq(Row)
  <2>1. all \in Seq(Row)
    BY <1>11 DEF Now
  <2> QED BY <1>12, <2>1, RowConcat3
<1> HIDE DEF all, rows
<1>15. rewrap \/ Delivered(text, all)
  BY <1>13
<1>16. Dispatched(text, of, all, rewrap, again)
  BY <1>1, <1>2, <1>9, <1>10, <1>11, <1>14, <1>15 DEF Dispatched
<1> QED BY <1>2, <1>14, <1>16

\* What becomes of a result.
LEMMA TakenIs ==
  ASSUME at \in Nat, turns \in Nat, plan.midturn \in BOOLEAN, plan.task \in BOOLEAN,
         nudged \in BOOLEAN, taskNudged \in BOOLEAN, flag \in BOOLEAN, inputs \in Seq(Input),
         out \in Seq(Row), NEW r \in ResultRec, NEW of \in Nat, Taken(r, of)
  PROVE  \/ /\ r.text = NoText /\ prompts' = IF prompts = <<>> THEN <<>> ELSE Tail(prompts)
            /\ UNCHANGED <<out, inputs, nudged, taskNudged, seen, mixed>>
         \/ /\ r.text # NoText /\ r.text \in seen
            /\ UNCHANGED <<out, inputs, nudged, taskNudged, seen, prompts, mixed>>
         \/ /\ r.text # NoText /\ r.text \notin seen
            /\ \E rows \in Seq(Row) : \E rewrap, again \in BOOLEAN : Dispatched(r.text, of, rows, rewrap, again)
<1>1. CASE r.text = NoText
  BY <1>1 DEF Taken, DispatchEmpty
<1>2. CASE r.text # NoText /\ r.text \in seen
  BY <1>2 DEF Taken
<1>3. CASE r.text # NoText /\ r.text \notin seen
  <2>1. r.text \in Seq(Tokens) /\ r.failed \in BOOLEAN
    BY <1>3 DEF ResultRec, NoneOrText
  <2>2. Dispatch(r.text, r.failed, of)
    BY <1>3 DEF Taken
  <2>3. \E rows \in Seq(Row) : \E rewrap, again \in BOOLEAN : Dispatched(r.text, of, rows, rewrap, again)
    BY <2>1, <2>2, DispatchIs
  <2> QED BY <1>3, <2>3
<1> QED BY <1>1, <1>2, <1>3

-----------------------------------------------------------------------------
(* The types.                                                              *)

\* The empty sequences have their types.
LEMMA EmptyShape == <<>> \in Seq(Tokens) /\ <<>> \in Seq(BlockRec) /\ <<>> \in Seq(Input) /\ <<>> \in Seq(Nat)
OBVIOUS

\* What an agent utters is a text, never the absence of one.
LEMMA SaysAre ==
  ASSUME plan \in Plans, NEW text \in plan.says
  PROVE  text \in Seq(Tokens) /\ text # NoText
<1>1. text \in Seq(STRING) /\ text # NoText
  BY DEF Plans
<1>2. Seq(STRING) \subseteq Seq(Tokens)
  BY DEF Tokens
<1> QED BY <1>1, <1>2

SamePlan == plan'.midturn = plan.midturn /\ plan'.task = plan.task
Counters == {"prompts", "tools", "repeats", "denials", "clears", "crashes"}
\* Spending leaves the plan one, with the same provider and kind of run.
LEMMA SpendIs ==
  ASSUME plan \in Plans, NEW k \in Counters, Spend(k)
  PROVE  plan' \in Plans /\ SamePlan
<1>1. CASE k = "prompts"
  BY <1>1 DEF Spend, Plans, SamePlan
<1>2. CASE k = "tools"
  BY <1>2 DEF Spend, Plans, SamePlan
<1>3. CASE k = "repeats"
  BY <1>3 DEF Spend, Plans, SamePlan
<1>4. CASE k = "denials"
  BY <1>4 DEF Spend, Plans, SamePlan
<1>5. CASE k = "clears"
  BY <1>5 DEF Spend, Plans, SamePlan
<1>6. CASE k = "crashes"
  BY <1>6 DEF Spend, Plans, SamePlan
<1> QED BY <1>1, <1>2, <1>3, <1>4, <1>5, <1>6 DEF Counters

\* So does every step.
LEMMA PlanStep ==
  ASSUME plan \in Plans, [NextTurn]_turnVars
  PROVE  plan' \in Plans /\ SamePlan
<1>1. Counters = {"prompts", "tools", "repeats", "denials", "clears", "crashes"}
  BY DEF Counters
<1>2. ASSUME UNCHANGED plan PROVE plan' \in Plans /\ SamePlan
  BY <1>2 DEF SamePlan
<1>3. UNCHANGED turnVars \/ BootTurns \/ QueryInit \/ QueryEnds \/ TurnBegins => UNCHANGED plan
  BY DEF turnVars, BootTurns, QueryInit, QueryEnds, TurnBegins
<1>4. (\E text \in plan.says : TurnText(text)) \/ (\E ok \in BOOLEAN : ToolEnds(ok)) \/ (\E r \in Results : TurnResult(r))
      => UNCHANGED plan
  BY DEF TurnText, ToolEnds, TurnResult
<1>5. TurnsCrash \/ (\E invalid \in BOOLEAN : QueryFails(invalid)) => Spend("crashes")
  BY DEF TurnsCrash, QueryFails
<1>6. ClearTurns => Spend("clears")
  BY DEF ClearTurns
<1>7. OpenQuery \/ PushFollowUp => Spend("prompts")
  BY DEF OpenQuery, PushFollowUp
<1>8. HostDenies => Spend("denials")
  BY DEF HostDenies
<1>9. ResultRepeated => Spend("repeats")
  BY DEF ResultRepeated
<1>10. (\E text \in plan.says : ToolBegins(text)) => Spend("tools")
  BY DEF ToolBegins
<1>11. \/ UNCHANGED plan
       \/ Spend("crashes") \/ Spend("clears") \/ Spend("prompts") \/ Spend("denials") \/ Spend("repeats") \/ Spend("tools")
  BY <1>3, <1>4, <1>5, <1>6, <1>7, <1>8, <1>9, <1>10 DEF NextTurn
<1>12. \A k \in Counters : Spend(k) => plan' \in Plans /\ SamePlan
  BY SpendIs
<1> QED BY <1>1, <1>2, <1>11, <1>12

\* The texts keep their types.
LEMMA TextShapeStep ==
  ASSUME TurnShape, [NextTurn]_turnVars
  PROVE  TextShape'
<1>1. TextShape /\ plan \in Plans /\ RowShape
  BY DEF TurnShape
<1>2. /\ said \in Seq(Tokens) /\ tail \in Seq(Tokens) /\ found \in Seq(BlockRec)
      /\ segment \in NoneOrText /\ calling \in NoneOrText
  BY <1>1 DEF TextShape
<1>3. NoText \in NoneOrText /\ \A text \in plan.says : text \in NoneOrText
  BY <1>1, SaysAre DEF NoneOrText
<1>4. ASSUME UNCHANGED <<said, tail, found, segment, calling>> PROVE TextShape'
  BY <1>1, <1>4 DEF TextShape
<1>5. UNCHANGED turnVars \/ BootTurns \/ ClearTurns \/ OpenQuery \/ QueryInit \/ TurnBegins \/ HostDenies \/ PushFollowUp
      => UNCHANGED <<said, tail, found, segment, calling>>
  BY DEF turnVars, textVars, BootTurns, ClearTurns, OpenQuery, QueryInit, TurnBegins, HostDenies, PushFollowUp
<1>6. ASSUME DropQuery PROVE TextShape'
  BY <1>3, <1>6, EmptyShape DEF TextShape, DropQuery
<1>7. TurnsCrash \/ QueryEnds \/ (\E invalid \in BOOLEAN : QueryFails(invalid)) => DropQuery
  BY DEF TurnsCrash, QueryEnds, QueryFails
<1>8. ASSUME ResultRepeated PROVE TextShape'
  BY <1>2, <1>8, EmptyShape DEF TextShape, ResultRepeated, Boundary
<1>9. ASSUME NEW text \in plan.says, TurnText(text) PROVE TextShape'
  <2>1. text \in Seq(Tokens)
    BY <1>1, SaysAre
  <2>2. said' = Join(said, text) /\ segment' = text /\ calling' = calling
    BY <1>9 DEF TurnText
  <2>3. Join(said, text) \in Seq(Tokens)
    BY <1>2, <2>1, JoinType
  <2>4. tail' \in Seq(Tokens) /\ found' \in Seq(BlockRec)
    <3>1. CASE plan.midturn /\ ~plan.task
      <4> DEFINE input == Join(tail, text)  blocks == Sendable(Resolved(input))
      <4>1. input \in Seq(Tokens)
        BY <1>2, <2>1, JoinType
      <4>2. tail' = Unresolved(input) /\ found' = found \o blocks
        BY <1>9, <3>1 DEF TurnText
      <4> HIDE DEF input
      <4>3. blocks \in Seq(BlockRec) /\ Unresolved(input) \in Seq(Tokens)
        BY <4>1, ResolvedIs, SendableIs
      <4> HIDE DEF blocks
      <4> QED BY <1>2, <4>2, <4>3, ConcatProperties
    <3>2. CASE ~(plan.midturn /\ ~plan.task)
      BY <1>2, <1>9, <3>2 DEF TurnText
    <3> QED BY <3>1, <3>2
  <2> QED BY <1>2, <1>3, <2>2, <2>3, <2>4 DEF TextShape
<1>10. ASSUME NEW text \in plan.says, ToolBegins(text) PROVE TextShape'
  BY <1>2, <1>3, <1>10 DEF TextShape, ToolBegins, textVars
<1>11. ASSUME NEW ok \in BOOLEAN, ToolEnds(ok) PROVE TextShape'
  BY <1>2, <1>3, <1>11 DEF TextShape, ToolEnds
<1>12. ASSUME NEW r \in Results, TurnResult(r) PROVE TextShape'
  BY <1>2, <1>3, <1>12, EmptyShape DEF TextShape, TurnResult, Boundary
<1> QED BY <1>4, <1>5, <1>6, <1>7, <1>8, <1>9, <1>10, <1>11, <1>12 DEF NextTurn

\* The rows that a step appends.
Appends(rows) == rows \in Seq(Row) /\ out' = out \o rows

\* Rows are only ever appended.
LEMMA RowsGrow ==
  ASSUME out \in Seq(Row), NEW rows, Appends(rows)
  PROVE  /\ out' \in Seq(Row) /\ Len(out') = Len(out) + Len(rows) /\ Len(out) \in Nat /\ Len(rows) \in Nat
         /\ \A i \in 1 .. Len(out) : i \in 1 .. Len(out') /\ out'[i] = out[i]
         /\ \A i \in 1 .. Len(rows) : Len(out) + i \in 1 .. Len(out') /\ out'[Len(out) + i] = rows[i]
<1>1. rows \in Seq(Row) /\ out' = out \o rows
  BY DEF Appends
<1> DEFINE c == out \o rows
<1>2. c \in Seq(Row) /\ Len(c) = Len(out) + Len(rows) /\ Len(out) \in Nat /\ Len(rows) \in Nat
  BY <1>1, ConcatProperties
<1>3. \A i \in 1 .. Len(out) + Len(rows) : c[i] = IF i <= Len(out) THEN out[i] ELSE rows[i - Len(out)]
  BY <1>1, ConcatProperties
<1> HIDE DEF c
<1>4. ASSUME NEW i \in 1 .. Len(out) PROVE i \in 1 .. Len(c) /\ c[i] = out[i]
  BY <1>2, <1>3
<1>5. ASSUME NEW i \in 1 .. Len(rows) PROVE Len(out) + i \in 1 .. Len(c) /\ c[Len(out) + i] = rows[i]
  <2>1. Len(out) + i \in 1 .. Len(out) + Len(rows) /\ ~(Len(out) + i <= Len(out)) /\ Len(out) + i - Len(out) = i
    BY <1>2
  <2> QED BY <1>2, <1>3, <2>1
<1>6. out' = c
  BY <1>1 DEF c
<1> QED BY <1>2, <1>4, <1>5, <1>6

\* What every step does to the rows: it appends rows of this moment; only a denial
\* writes as the host, and a scan sends only what has not been sent.
StepAppends(rows) ==
  /\ Appends(rows) /\ Now(rows, Doors)
  /\ \A i \in 1 .. Len(rows) : rows[i].by = "host" => oddities' # {}
  /\ \/ \A i \in 1 .. Len(rows) : rows[i].by # "door"
     \/ loop = "query" /\ \A i \in 1 .. Len(rows) : rows[i].body \notin Echoes
\* The turn goes on, its query is over, or the next turn begins.
GoesOn(rows) ==
  /\ mark' = mark /\ turns' = turns /\ (loop' = "query" => loop = "query")
  /\ at' \in Nat /\ at' >= at /\ sent' \in Nat /\ (sent' = sent \/ sent' = sent + Len(rows))
IsOver == loop' # "query" /\ mark' = mark /\ turns' = turns /\ at' = 0 /\ sent' = 0
NextIs == mark' = Len(out') /\ turns' = turns + 1 /\ at' = 0 /\ sent' = 0
RowsMove(rows) == StepAppends(rows) /\ (GoesOn(rows) \/ IsOver \/ NextIs)

\* A step that writes nothing.
LEMMA NothingAppends ==
  ASSUME out \in Seq(Row), out' = out PROVE StepAppends(<<>>)
<1>1. <<>> \in Seq(Row) /\ Len(<<>>) = 0
  OBVIOUS
<1>2. out' = out \o <<>>
  BY ConcatEmptySeq
<1> QED BY <1>1, <1>2, NoRows DEF StepAppends, Appends

\* A step that writes one row.
LEMMA OneAppends ==
  ASSUME out \in Seq(Row), at \in Nat, turns \in Nat, NEW body \in Seq(Tokens), NEW by \in Doors,
         out' = Append(out, Chat(body, by)), by # "door", by = "host" => oddities' # {}
  PROVE  StepAppends(<<Chat(body, by)>>)
<1> DEFINE c == Chat(body, by)
<1>1. c \in Row /\ Now(<<c>>, {by})
  BY ChatIs, OneRow
<1> HIDE DEF c
<1>2. <<c>> \in Seq(Row) /\ out' = out \o <<c>>
  <2>1. <<c>> \in Seq(Row) /\ Append(out, c) = out \o <<c>>
    BY <1>1, AppendIsConcat
  <2> QED BY <2>1 DEF c
<1>3. Now(<<c>>, Doors) /\ \A i \in 1 .. Len(<<c>>) : <<c>>[i].by = by
  BY <1>1 DEF Now
<1> QED BY <1>2, <1>3 DEF StepAppends, Appends, c

\* The rows that are written one at a time have a door and a body.
LEMMA Doors1 == /\ "loop" \in Doors /\ "error" \in Doors /\ "tool" \in Doors /\ "host" \in Doors
                /\ <<"cleared">> \in Seq(Tokens) /\ <<"error">> \in Seq(Tokens) /\ <<"denied">> \in Seq(Tokens)
<1>1. "cleared" \in Tokens /\ "error" \in Tokens /\ "denied" \in Tokens
  BY SMT DEF Tokens
<1> QED BY <1>1 DEF Doors

\* A result that is taken appends rows of its turn.
LEMMA TakenAppends ==
  ASSUME TurnShape, NEW r \in ResultRec, NEW of \in Nat, Taken(r, of)
  PROVE  \E rows : StepAppends(rows)
<1>1. /\ at \in Nat /\ turns \in Nat /\ plan.midturn \in BOOLEAN /\ plan.task \in BOOLEAN
      /\ nudged \in BOOLEAN /\ taskNudged \in BOOLEAN /\ flag \in BOOLEAN /\ inputs \in Seq(Input)
      /\ out \in Seq(Row)
  BY DEF TurnShape, RowShape, FlagShape, QueueShape, Plans
<1>2. CASE out' = out
  BY <1>1, <1>2, NothingAppends
<1>3. ASSUME NEW rows \in Seq(Row), NEW rewrap \in BOOLEAN, NEW again \in BOOLEAN,
             Dispatched(r.text, of, rows, rewrap, again)
      PROVE  StepAppends(rows)
  <2>1. Now(rows, ResultDoors) /\ out' = out \o rows
    BY <1>3 DEF Dispatched
  <2>2. \A i \in 1 .. Len(rows) : rows[i].by # "host" /\ rows[i].by # "door"
    BY <2>1 DEF Now, ResultDoors
  <2>3. Now(rows, Doors)
    BY <2>1 DEF Now, ResultDoors, Doors
  <2> QED BY <2>1, <2>2, <2>3 DEF StepAppends, Appends
<1> QED BY <1>1, <1>2, <1>3, TakenIs

\* The results have their types.
LEMMA ResultsAre ==
  ASSUME TextShape PROVE Results \subseteq ResultRec
<1>1. segment \in NoneOrText
  BY DEF TextShape
<1>2. <<"notice">> \in NoneOrText
  <2>1. "notice" \in Tokens
    BY SMT DEF Tokens
  <2> QED BY <2>1 DEF NoneOrText
<1> QED BY <1>1, <1>2 DEF Results, ResultRec

\* Every step appends rows of this moment, then goes on, ends the query or begins the next turn.
LEMMA StepRows ==
  ASSUME TurnShape, AtRest, [NextTurn]_turnVars
  PROVE  \E rows : RowsMove(rows)
<1>1. /\ TextShape /\ RowShape /\ out \in Seq(Row) /\ at \in Nat /\ turns \in Nat /\ sent \in Nat
      /\ plan \in Plans /\ mark \in Nat
  BY DEF TurnShape, RowShape
<1>2. ASSUME out' = out, mark' = mark, turns' = turns, at' = at, sent' = sent, loop' = "query" => loop = "query"
      PROVE  \E rows : RowsMove(rows)
  <2>1. StepAppends(<<>>)
    BY <1>1, <1>2, NothingAppends
  <2>2. GoesOn(<<>>)
    BY <1>1, <1>2 DEF GoesOn
  <2> QED BY <2>1, <2>2 DEF RowsMove
<1>3. UNCHANGED turnVars \/ BootTurns \/ QueryInit \/ TurnBegins \/ PushFollowUp \/ (\E text \in plan.says : ToolBegins(text))
      => out' = out /\ mark' = mark /\ turns' = turns /\ at' = at /\ sent' = sent /\ (loop' = "query" => loop = "query")
  BY DEF turnVars, textVars, BootTurns, QueryInit, TurnBegins, PushFollowUp, ToolBegins
<1>4. ASSUME NEW rows, StepAppends(rows), mark' = mark, turns' = turns, sent' = sent, at' = at \/ at' = at + 1, loop' = loop
      PROVE  RowsMove(rows)
  BY <1>1, <1>4 DEF RowsMove, GoesOn
<1>5. ASSUME NEW rows, StepAppends(rows), IsOver PROVE RowsMove(rows)
  BY <1>5 DEF RowsMove
<1>6. CASE TurnsCrash \/ QueryEnds
  <2>1. out' = out /\ IsOver
    BY <1>6 DEF TurnsCrash, QueryEnds, DropQuery, IsOver
  <2>2. StepAppends(<<>>)
    BY <1>1, <2>1, NothingAppends
  <2> QED BY <1>5, <2>1, <2>2
<1>7. ASSUME NEW invalid \in BOOLEAN, QueryFails(invalid) PROVE \E rows : RowsMove(rows)
  <2>1. out' = Append(out, Chat(<<"error">>, "error")) /\ IsOver
    BY <1>7 DEF QueryFails, DropQuery, IsOver
  <2>2. StepAppends(<<Chat(<<"error">>, "error")>>)
    BY <1>1, <2>1, Doors1, OneAppends
  <2> QED BY <1>5, <2>1, <2>2
<1>8. CASE ClearTurns
  <2>1. out' = Append(out, Chat(<<"cleared">>, "loop"))
        /\ mark' = mark /\ turns' = turns /\ sent' = sent /\ at' = at /\ loop' = loop
    BY <1>8 DEF ClearTurns, textVars
  <2>2. StepAppends(<<Chat(<<"cleared">>, "loop")>>)
    BY <1>1, <2>1, Doors1, OneAppends
  <2> QED BY <1>4, <2>1, <2>2
<1>9. CASE HostDenies
  <2>1. out' = Append(out, Chat(<<"denied">>, "host"))
        /\ mark' = mark /\ turns' = turns /\ sent' = sent /\ at' = at /\ loop' = loop
    BY <1>9 DEF HostDenies, textVars
  <2>2. oddities' # {}
    BY <1>9 DEF HostDenies
  <2>3. StepAppends(<<Chat(<<"denied">>, "host")>>)
    BY <1>1, <2>1, <2>2, Doors1, OneAppends
  <2> QED BY <1>4, <2>1, <2>3
<1>10. ASSUME NEW ok \in BOOLEAN, ToolEnds(ok) PROVE \E rows : RowsMove(rows)
  <2>1. /\ out' = IF ok THEN Append(out, Chat(calling, "tool")) ELSE out
        /\ mark' = mark /\ turns' = turns /\ sent' = sent /\ at' = at + 1 /\ loop' = loop
    BY <1>10 DEF ToolEnds
  <2>2. calling \in Seq(Tokens)
    BY <1>1, <1>10 DEF ToolEnds, TextShape, NoneOrText
  <2>3. ok => StepAppends(<<Chat(calling, "tool")>>)
    BY <1>1, <2>1, <2>2, Doors1, OneAppends
  <2>4. ~ok => StepAppends(<<>>)
    BY <1>1, <2>1, NothingAppends
  <2> QED BY <1>4, <2>1, <2>3, <2>4
<1>11. CASE OpenQuery
  <2>1. out' = out /\ mark' = Len(out) /\ turns' = turns + 1 /\ at' = at /\ sent' = sent /\ loop = "idle"
    BY <1>11 DEF OpenQuery
  <2>2. at = 0 /\ sent = 0
    BY <2>1 DEF AtRest, NoQuery
  <2>3. StepAppends(<<>>)
    BY <1>1, <2>1, NothingAppends
  <2> QED BY <2>1, <2>2, <2>3 DEF RowsMove, NextIs
<1>12. ASSUME NEW text \in plan.says, TurnText(text) PROVE \E rows : RowsMove(rows)
  <2>1. mark' = mark /\ turns' = turns /\ at' = at + 1 /\ loop' = loop /\ answering # NoTurn
    BY <1>12 DEF TurnText
  <2>2. loop = "query"
    BY <2>1 DEF AtRest, NoQuery
  <2>3. CASE plan.midturn /\ ~plan.task
    <3>1. text \in Seq(Tokens) /\ said \in Seq(Tokens) /\ tail \in Seq(Tokens)
      BY <1>1, <1>12, SaysAre DEF TextShape
    <3> DEFINE blocks == Sendable(Resolved(Join(tail, text)))
    <3>2. \E rows \in Seq(Row) : ScanRows(rows, blocks)
      BY <1>1, <1>12, <2>3, <3>1, ScanIs
    <3> HIDE DEF blocks
    <3>3. PICK rows \in Seq(Row) : ScanRows(rows, blocks)
      BY <3>2
    <3>4. /\ Now(rows, {"door"}) /\ out' = out \o rows /\ sent' = sent + Len(rows)
          /\ \A i \in 1 .. Len(rows) : rows[i].body \notin Echoes
      BY <3>3 DEF ScanRows
    <3>5. Now(rows, Doors) /\ \A i \in 1 .. Len(rows) : rows[i].by # "host"
      BY <3>4 DEF Now, Doors
    <3>6. StepAppends(rows)
      BY <2>2, <3>3, <3>4, <3>5 DEF StepAppends, Appends
    <3>7. GoesOn(rows)
      <4>1. Len(rows) \in Nat
        BY <3>3
      <4> QED BY <1>1, <2>1, <3>4, <4>1 DEF GoesOn
    <3> QED BY <3>6, <3>7 DEF RowsMove
  <2>4. CASE ~(plan.midturn /\ ~plan.task)
    <3>1. out' = out /\ sent' = sent
      BY <1>12, <2>4 DEF TurnText
    <3>2. StepAppends(<<>>)
      BY <1>1, <3>1, NothingAppends
    <3> QED BY <1>4, <2>1, <3>1, <3>2
  <2> QED BY <2>3, <2>4
<1>13. ASSUME NEW r \in ResultRec, NEW of \in Nat, Taken(r, of), NextIs PROVE \E rows : RowsMove(rows)
  BY <1>13, TakenAppends DEF RowsMove
<1>14. ASSUME NEW r \in Results, TurnResult(r) PROVE \E rows : RowsMove(rows)
  <2>1. Taken(r, answering.of) /\ NextIs /\ answering # NoTurn
    BY <1>14 DEF TurnResult, Boundary, NextIs
  <2>2. answering.of \in Nat
    BY <2>1 DEF TurnShape, QueueShape, Input
  <2>3. r \in ResultRec
    BY <1>1, <1>14, ResultsAre
  <2> QED BY <1>13, <2>1, <2>2, <2>3
<1>15. CASE ResultRepeated
  <2>1. Taken(last, 0) /\ last # NoTurn /\ answering = NoTurn /\ mark' = Len(out') /\ turns' = turns + 1 /\ sent' = 0 /\ at' = at
    BY <1>15 DEF ResultRepeated, Boundary
  <2>2. at = 0
    BY <2>1 DEF AtRest
  <2>3. last \in ResultRec
    BY <2>1 DEF TurnShape, DoneShape
  <2>4. NextIs
    BY <2>1, <2>2 DEF NextIs
  <2> QED BY <1>13, <2>1, <2>3, <2>4
<1> QED
  BY <1>2, <1>3, <1>6, <1>7, <1>8, <1>9, <1>10, <1>11, <1>12, <1>14, <1>15 DEF NextTurn

\* The rows, the mark and the counts keep their types.
LEMMA RowShapeStep ==
  ASSUME TurnShape, AtRest, [NextTurn]_turnVars
  PROVE  RowShape'
<1>1. out \in Seq(Row) /\ mark \in 0 .. Len(out) /\ sent \in Nat /\ at \in Nat /\ turns \in Nat
  BY DEF TurnShape, RowShape
<1>2. PICK rows : RowsMove(rows)
  BY StepRows
<1>3. out' \in Seq(Row) /\ Len(out') = Len(out) + Len(rows) /\ Len(out) \in Nat /\ Len(rows) \in Nat
  BY <1>1, <1>2, RowsGrow DEF RowsMove, StepAppends
<1>4. mark' \in 0 .. Len(out') /\ sent' \in Nat /\ at' \in Nat /\ turns' \in Nat
  <2>1. CASE GoesOn(rows)
    BY <1>1, <1>3, <2>1 DEF GoesOn
  <2>2. CASE IsOver
    BY <1>1, <1>3, <2>2 DEF IsOver
  <2>3. CASE NextIs
    BY <1>1, <1>3, <2>3 DEF NextIs
  <2> QED BY <1>2, <2>1, <2>2, <2>3 DEF RowsMove
<1> QED BY <1>3, <1>4 DEF RowShape

\* What a result does to the queue of prompts.
LEMMA TakenQueues ==
  ASSUME TurnShape, NEW r \in ResultRec, NEW of \in Nat, Taken(r, of)
  PROVE  /\ inputs' \in Seq(Input) /\ prompts' \in Seq(Nat) /\ nudged' \in BOOLEAN /\ taskNudged' \in BOOLEAN
         /\ inputs' = inputs \/ inputs' = Append(inputs, [of |-> of, retry |-> TRUE])
<1>1. /\ at \in Nat /\ turns \in Nat /\ plan.midturn \in BOOLEAN /\ plan.task \in BOOLEAN
      /\ nudged \in BOOLEAN /\ taskNudged \in BOOLEAN /\ flag \in BOOLEAN /\ inputs \in Seq(Input)
      /\ out \in Seq(Row) /\ prompts \in Seq(Nat)
  BY DEF TurnShape, RowShape, FlagShape, QueueShape, Plans
<1> DEFINE retry == [of |-> of, retry |-> TRUE]
<1>2. retry \in Input
  BY DEF Input
<1> HIDE DEF retry
<1>3. Append(inputs, retry) \in Seq(Input)
  BY <1>1, <1>2, AppendProperties
<1>4. prompts # <<>> => Tail(prompts) \in Seq(Nat)
  BY <1>1
<1>5. CASE /\ prompts' = IF prompts = <<>> THEN <<>> ELSE Tail(prompts)
           /\ UNCHANGED <<out, inputs, nudged, taskNudged, seen, mixed>>
  <2>1. prompts' \in Seq(Nat)
    BY <1>4, <1>5, EmptyShape
  <2> QED BY <1>1, <1>5, <2>1
<1>6. CASE UNCHANGED <<out, inputs, nudged, taskNudged, seen, prompts, mixed>>
  BY <1>1, <1>6
<1>7. ASSUME NEW rows \in Seq(Row), NEW rewrap \in BOOLEAN, NEW again \in BOOLEAN,
             Dispatched(r.text, of, rows, rewrap, again)
      PROVE  /\ inputs' \in Seq(Input) /\ prompts' \in Seq(Nat) /\ nudged' \in BOOLEAN /\ taskNudged' \in BOOLEAN
             /\ inputs' = inputs \/ inputs' = Append(inputs, retry)
  <2>1. inputs' = IF rewrap \/ again THEN Append(inputs, retry) ELSE inputs
    BY <1>7 DEF Dispatched, retry
  <2>2. /\ nudged' = (nudged \/ rewrap) /\ taskNudged' = (taskNudged \/ again)
        /\ prompts' = IF ~rewrap /\ ~again /\ prompts # <<>> THEN Tail(prompts) ELSE prompts
    BY <1>7 DEF Dispatched
  <2>3. nudged' \in BOOLEAN /\ taskNudged' \in BOOLEAN
    BY <2>2, Zenon
  <2> QED BY <1>1, <1>3, <1>4, <2>1, <2>2, <2>3
<1> QED BY <1>1, <1>5, <1>6, <1>7, TakenIs DEF retry

\* So do the queues, ...
LEMMA QueueShapeStep ==
  ASSUME TurnShape, asked \in Nat, [NextTurn]_turnVars
  PROVE  QueueShape'
<1>1. /\ QueueShape /\ TextShape /\ inputs \in Seq(Input) /\ prompts \in Seq(Nat) /\ first \in Nat
      /\ answering \in Input \cup {NoTurn}
  BY DEF TurnShape, QueueShape
<1>2. ASSUME UNCHANGED <<inputs, prompts, first, answering>> PROVE QueueShape'
  BY <1>1, <1>2 DEF QueueShape
<1>3. UNCHANGED turnVars \/ BootTurns \/ ClearTurns \/ QueryInit \/ HostDenies
      => UNCHANGED <<inputs, prompts, first, answering>>
  BY DEF turnVars, queueVars, BootTurns, ClearTurns, QueryInit, HostDenies
<1>4. (\E text \in plan.says : TurnText(text) \/ ToolBegins(text)) \/ (\E ok \in BOOLEAN : ToolEnds(ok))
      => UNCHANGED <<inputs, prompts, first, answering>>
  BY DEF queueVars, TurnText, ToolBegins, ToolEnds
<1>5. ASSUME DropQuery PROVE QueueShape'
  BY <1>5, EmptyShape DEF QueueShape, DropQuery
<1>6. TurnsCrash \/ QueryEnds \/ (\E invalid \in BOOLEAN : QueryFails(invalid)) => DropQuery
  BY DEF TurnsCrash, QueryEnds, QueryFails
<1>7. [of |-> asked + 1, retry |-> FALSE] \in Input
  BY DEF Input
<1>8. CASE OpenQuery
  <2>1. /\ inputs' = <<[of |-> asked + 1, retry |-> FALSE]>> /\ prompts' = <<asked + 1>> /\ first' = asked + 1
        /\ answering' = answering
    BY <1>8 DEF OpenQuery
  <2> QED BY <1>1, <1>7, <2>1 DEF QueueShape
<1>9. CASE PushFollowUp
  <2>1. /\ inputs' = Append(inputs, [of |-> asked + 1, retry |-> FALSE]) /\ prompts' = Append(prompts, asked + 1)
        /\ first' = first /\ answering' = answering
    BY <1>9 DEF PushFollowUp
  <2>2. inputs' \in Seq(Input) /\ prompts' \in Seq(Nat)
    BY <1>1, <1>7, <2>1, AppendProperties
  <2> QED BY <1>1, <2>1, <2>2 DEF QueueShape
<1>10. CASE TurnBegins
  <2>1. inputs # <<>> /\ answering' = Head(inputs) /\ inputs' = Tail(inputs) /\ prompts' = prompts /\ first' = first
    BY <1>10 DEF TurnBegins
  <2>2. Head(inputs) \in Input /\ Tail(inputs) \in Seq(Input)
    BY <1>1, <2>1
  <2> QED BY <1>1, <2>1, <2>2 DEF QueueShape
<1>11. ASSUME NEW r \in ResultRec, NEW of \in Nat, Taken(r, of), first' = first, answering' = NoTurn PROVE QueueShape'
  <2>1. inputs' \in Seq(Input) /\ prompts' \in Seq(Nat)
    BY <1>11, TakenQueues
  <2> QED BY <1>1, <1>11, <2>1 DEF QueueShape
<1>12. ASSUME NEW r \in Results, TurnResult(r) PROVE QueueShape'
  <2>1. Taken(r, answering.of) /\ first' = first /\ answering' = NoTurn /\ answering # NoTurn
    BY <1>12 DEF TurnResult
  <2>2. answering.of \in Nat
    BY <1>1, <2>1 DEF Input
  <2>3. r \in ResultRec
    BY <1>1, <1>12, ResultsAre
  <2> QED BY <1>11, <2>1, <2>2, <2>3
<1>13. CASE ResultRepeated
  <2>1. Taken(last, 0) /\ first' = first /\ answering' = answering /\ answering = NoTurn /\ last # NoTurn
    BY <1>13 DEF ResultRepeated
  <2>2. last \in ResultRec
    BY <2>1 DEF TurnShape, DoneShape
  <2> QED BY <1>11, <2>1, <2>2
<1> QED BY <1>2, <1>3, <1>4, <1>5, <1>6, <1>8, <1>9, <1>10, <1>12, <1>13 DEF NextTurn

\* ... the last result ...
LEMMA DoneShapeStep ==
  ASSUME TurnShape, [NextTurn]_turnVars
  PROVE  DoneShape'
<1>1. TextShape /\ last \in ResultRec \cup {NoTurn} /\ fresh \in BOOLEAN
  BY DEF TurnShape, DoneShape
<1>2. ASSUME last' = last, fresh' = fresh PROVE DoneShape'
  BY <1>1, <1>2 DEF DoneShape
<1>3. UNCHANGED turnVars \/ BootTurns \/ ClearTurns \/ OpenQuery \/ QueryInit \/ HostDenies
      \/ (\E text \in plan.says : TurnText(text) \/ ToolBegins(text)) \/ (\E ok \in BOOLEAN : ToolEnds(ok))
      => last' = last /\ fresh' = fresh
  BY DEF turnVars, doneVars, BootTurns, ClearTurns, OpenQuery, QueryInit, HostDenies, TurnText, ToolBegins, ToolEnds
<1>4. ASSUME last' = NoTurn, fresh' = FALSE PROVE DoneShape'
  BY <1>4 DEF DoneShape
<1>5. TurnsCrash \/ QueryEnds \/ (\E invalid \in BOOLEAN : QueryFails(invalid)) \/ TurnBegins \/ ResultRepeated
      => last' = NoTurn /\ fresh' = FALSE
  BY DEF TurnsCrash, QueryEnds, QueryFails, DropQuery, TurnBegins, ResultRepeated
<1>6. PushFollowUp => last' = last /\ fresh' = TRUE
  BY DEF PushFollowUp
<1>7. ASSUME NEW r \in Results, TurnResult(r) PROVE DoneShape'
  <2>1. last' = r /\ fresh' = (r.text # NoText /\ seen' = {})
    BY <1>7 DEF TurnResult
  <2>2. fresh' \in BOOLEAN
    BY <2>1, Zenon
  <2>3. r \in ResultRec
    BY <1>1, <1>7, ResultsAre
  <2> QED BY <2>1, <2>2, <2>3 DEF DoneShape
<1>8. CASE PushFollowUp
  BY <1>1, <1>6, <1>8 DEF DoneShape
<1> QED BY <1>2, <1>3, <1>4, <1>5, <1>7, <1>8 DEF NextTurn

\* ... and the flags.
LEMMA FlagShapeStep ==
  ASSUME TurnShape, [NextTurn]_turnVars
  PROVE  FlagShape'
<1>1. TextShape /\ nudged \in BOOLEAN /\ taskNudged \in BOOLEAN /\ flag \in BOOLEAN
  BY DEF TurnShape, FlagShape
<1>2. ASSUME UNCHANGED nudgeVars PROVE FlagShape'
  BY <1>1, <1>2 DEF FlagShape, nudgeVars
<1>3. UNCHANGED turnVars \/ BootTurns \/ ClearTurns \/ QueryInit \/ TurnBegins \/ HostDenies
      \/ (\E text \in plan.says : TurnText(text)) \/ (\E ok \in BOOLEAN : ToolEnds(ok))
      => UNCHANGED nudgeVars
  BY DEF turnVars, BootTurns, ClearTurns, QueryInit, TurnBegins, HostDenies, TurnText, ToolEnds
<1>4. ASSUME nudged' \in BOOLEAN, taskNudged' \in BOOLEAN, flag' \in BOOLEAN PROVE FlagShape'
  BY <1>4 DEF FlagShape
<1>5. TurnsCrash \/ QueryEnds \/ (\E invalid \in BOOLEAN : QueryFails(invalid)) \/ PushFollowUp
      => nudged' = FALSE /\ taskNudged' = FALSE /\ flag' = FALSE
  BY DEF TurnsCrash, QueryEnds, QueryFails, DropQuery, PushFollowUp
<1>6. OpenQuery => nudged' = nudged /\ taskNudged' = taskNudged /\ flag' = FALSE
  BY DEF OpenQuery
<1>7. (\E text \in plan.says : ToolBegins(text)) => nudged' = nudged /\ taskNudged' = taskNudged /\ flag' = TRUE
  BY DEF ToolBegins
<1>8. ASSUME NEW r \in Results, TurnResult(r) PROVE FlagShape'
  <2>1. Taken(r, answering.of) /\ flag' = flag /\ answering # NoTurn
    BY <1>8 DEF TurnResult
  <2>2. answering.of \in Nat
    BY <2>1 DEF TurnShape, QueueShape, Input
  <2>3. r \in ResultRec
    BY <1>1, <1>8, ResultsAre
  <2>4. nudged' \in BOOLEAN /\ taskNudged' \in BOOLEAN
    BY <2>1, <2>2, <2>3, TakenQueues
  <2> QED BY <1>1, <1>4, <2>1, <2>4
<1>9. CASE ResultRepeated
  <2>1. Taken(last, 0) /\ flag' = flag /\ last # NoTurn
    BY <1>9 DEF ResultRepeated
  <2>2. last \in ResultRec
    BY <2>1 DEF TurnShape, DoneShape
  <2>3. nudged' \in BOOLEAN /\ taskNudged' \in BOOLEAN
    BY <2>1, <2>2, TakenQueues
  <2> QED BY <1>1, <1>4, <2>1, <2>3
<1>10. ASSUME nudged' = nudged, taskNudged' = taskNudged, flag' \in BOOLEAN PROVE FlagShape'
  BY <1>1, <1>10 DEF FlagShape
<1>11. ASSUME nudged' = FALSE, taskNudged' = FALSE, flag' = FALSE PROVE FlagShape'
  BY <1>11 DEF FlagShape
<1>12. CASE OpenQuery \/ \E text \in plan.says : ToolBegins(text)
  BY <1>6, <1>7, <1>10, <1>12
<1> QED BY <1>2, <1>3, <1>5, <1>8, <1>9, <1>11, <1>12 DEF NextTurn

\* Every variable keeps its type.
LEMMA TurnShapeStep ==
  ASSUME TurnShape, AtRest, asked \in Nat, [NextTurn]_turnVars
  PROVE  TurnShape'
<1>1. plan' \in Plans
  BY PlanStep DEF TurnShape
<1> QED
  BY <1>1, TextShapeStep, RowShapeStep, QueueShapeStep, DoneShapeStep, FlagShapeStep DEF TurnShape

-----------------------------------------------------------------------------
(* Prompts, rest and conversations.                                        *)

\* No prompt is answered or nudged for before it is asked.
LEMMA PromptsStep ==
  ASSUME TurnShape, AskedBefore, [NextTurn]_turnVars
  PROVE  AskedBefore'
<1>1. /\ TextShape /\ inputs \in Seq(Input) /\ asked \in Nat /\ answering \in Input \cup {NoTurn}
      /\ answering # NoTurn => answering.of <= asked
      /\ \A i \in 1 .. Len(inputs) : inputs[i].of <= asked
  BY DEF TurnShape, QueueShape, AskedBefore
<1>2. ASSUME UNCHANGED <<asked, inputs, answering>> PROVE AskedBefore'
  BY <1>1, <1>2 DEF AskedBefore
<1>3. UNCHANGED turnVars \/ BootTurns \/ ClearTurns \/ QueryInit \/ HostDenies
      \/ (\E text \in plan.says : TurnText(text) \/ ToolBegins(text)) \/ (\E ok \in BOOLEAN : ToolEnds(ok))
      => UNCHANGED <<asked, inputs, answering>>
  BY DEF turnVars, queueVars, BootTurns, ClearTurns, QueryInit, HostDenies, TurnText, ToolBegins, ToolEnds
<1>4. ASSUME inputs' = <<>>, answering' = NoTurn, asked' = asked PROVE AskedBefore'
  BY <1>1, <1>4 DEF AskedBefore
<1>5. TurnsCrash \/ QueryEnds \/ (\E invalid \in BOOLEAN : QueryFails(invalid))
      => inputs' = <<>> /\ answering' = NoTurn /\ asked' = asked
  BY DEF TurnsCrash, QueryEnds, QueryFails, DropQuery
<1>6. ASSUME NEW i \in Input, i.of <= asked', inputs' = inputs \/ inputs' = Append(inputs, i),
             asked' \in Nat, asked' >= asked, answering' \in {answering, NoTurn}
      PROVE  AskedBefore'
  <2>1. \A k \in 1 .. Len(inputs) : inputs[k].of <= asked'
    <3>1. ASSUME NEW k \in 1 .. Len(inputs) PROVE inputs[k].of <= asked'
      <4>1. inputs[k] \in Input /\ inputs[k].of <= asked
        BY <1>1
      <4>2. inputs[k].of \in Nat
        BY <4>1 DEF Input
      <4> QED BY <1>1, <1>6, <4>1, <4>2
    <3> QED BY <3>1
  <2>2. answering' # NoTurn => answering'.of <= asked'
    <3>1. ASSUME answering # NoTurn PROVE answering.of <= asked'
      <4>1. answering.of \in Nat /\ answering.of <= asked
        BY <1>1, <3>1 DEF Input
      <4> QED BY <1>1, <1>6, <4>1
    <3> QED BY <1>6, <3>1
  <2>3. CASE inputs' = inputs
    BY <1>6, <2>1, <2>2, <2>3 DEF AskedBefore
  <2>4. CASE inputs' = Append(inputs, i)
    <3>1. /\ Len(inputs') = Len(inputs) + 1 /\ inputs'[Len(inputs) + 1] = i /\ Len(inputs) \in Nat
          /\ \A k \in 1 .. Len(inputs) : inputs'[k] = inputs[k]
      BY <1>1, <2>4, AppendProperties
    <3>2. ASSUME NEW k \in 1 .. Len(inputs') PROVE inputs'[k].of <= asked'
      <4>1. CASE k = Len(inputs) + 1
        BY <1>6, <3>1, <4>1
      <4>2. CASE k # Len(inputs) + 1
        BY <2>1, <3>1, <4>2
      <4> QED BY <4>1, <4>2
    <3> QED BY <1>6, <2>2, <3>2 DEF AskedBefore
  <2> QED BY <1>6, <2>3, <2>4
<1>7. CASE OpenQuery
  <2> DEFINE i == [of |-> asked + 1, retry |-> FALSE]
  <2>1. i.of = asked + 1
    OBVIOUS
  <2>2. inputs' = <<i>> /\ asked' = asked + 1 /\ loop = "idle" /\ answering' = answering
    BY <1>7 DEF OpenQuery
  <2> HIDE DEF i
  <2>3. \A k \in 1 .. Len(inputs') : inputs'[k].of <= asked'
    BY <1>1, <2>1, <2>2
  <2>4. answering' # NoTurn => answering'.of <= asked'
    <3>1. ASSUME answering # NoTurn PROVE answering.of <= asked + 1
      <4>1. answering.of \in Nat /\ answering.of <= asked
        BY <1>1, <3>1 DEF Input
      <4> QED BY <1>1, <4>1
    <3> QED BY <2>2, <3>1
  <2> QED BY <1>1, <2>2, <2>3, <2>4 DEF AskedBefore
<1>8. CASE PushFollowUp
  <2> DEFINE i == [of |-> asked + 1, retry |-> FALSE]
  <2>1. i \in Input /\ i.of = asked + 1
    BY <1>1 DEF Input
  <2>2. inputs' = Append(inputs, i) /\ asked' = asked + 1 /\ answering' = answering
    BY <1>8 DEF PushFollowUp
  <2> HIDE DEF i
  <2> QED BY <1>1, <1>6, <2>1, <2>2
<1>9. CASE TurnBegins
  <2>1. inputs # <<>> /\ answering' = Head(inputs) /\ inputs' = Tail(inputs) /\ asked' = asked
    BY <1>9 DEF TurnBegins
  <2>2. /\ Len(inputs) \in Nat \ {0} /\ Head(inputs) = inputs[1] /\ Len(Tail(inputs)) = Len(inputs) - 1
        /\ \A k \in 1 .. Len(Tail(inputs)) : Tail(inputs)[k] = inputs[k + 1]
    BY <1>1, <2>1, EmptySeq, HeadTailProperties
  <2>3. answering'.of <= asked'
    BY <1>1, <2>1, <2>2
  <2>4. \A k \in 1 .. Len(inputs') : inputs'[k].of <= asked'
    <3>1. ASSUME NEW k \in 1 .. Len(inputs') PROVE inputs'[k].of <= asked'
      <4>1. k + 1 \in 1 .. Len(inputs) /\ inputs'[k] = inputs[k + 1]
        BY <2>1, <2>2
      <4> QED BY <1>1, <2>1, <4>1
    <3> QED BY <3>1
  <2> QED BY <1>1, <2>1, <2>3, <2>4 DEF AskedBefore
<1>10. ASSUME NEW r \in ResultRec, NEW of \in Nat, Taken(r, of), of <= asked, asked' = asked, answering' = NoTurn
       PROVE  AskedBefore'
  <2> DEFINE i == [of |-> of, retry |-> TRUE]
  <2>1. i \in Input /\ i.of = of
    BY DEF Input
  <2>2. inputs' = inputs \/ inputs' = Append(inputs, i)
    BY <1>10, TakenQueues
  <2> HIDE DEF i
  <2> QED BY <1>1, <1>6, <1>10, <2>1, <2>2
<1>11. ASSUME NEW r \in Results, TurnResult(r) PROVE AskedBefore'
  <2>1. Taken(r, answering.of) /\ asked' = asked /\ answering' = NoTurn /\ answering # NoTurn
    BY <1>11 DEF TurnResult
  <2>2. answering.of \in Nat /\ answering.of <= asked
    BY <1>1, <2>1 DEF Input
  <2>3. r \in ResultRec
    BY <1>1, <1>11, ResultsAre
  <2> QED BY <1>10, <2>1, <2>2, <2>3
<1>12. CASE ResultRepeated
  <2>1. Taken(last, 0) /\ asked' = asked /\ answering' = answering /\ answering = NoTurn /\ last # NoTurn
    BY <1>12 DEF ResultRepeated
  <2>2. last \in ResultRec
    BY <2>1 DEF TurnShape, DoneShape
  <2> QED BY <1>1, <1>10, <2>1, <2>2
<1> QED BY <1>2, <1>3, <1>4, <1>5, <1>7, <1>8, <1>9, <1>11, <1>12 DEF NextTurn

\* What stands still between two turns.
Rests ==
  /\ said = <<>> /\ segment = NoText /\ at = 0 /\ tail = <<>> /\ found = <<>>
  /\ sent = 0 /\ calling = NoText

\* Between two queries and two turns nothing is under way.
LEMMA AtRestStep ==
  ASSUME TurnShape, AtRest, [NextTurn]_turnVars
  PROVE  AtRest'
<1>1. /\ loop \in {"down", "idle", "query"} /\ (loop # "query" => NoQuery)
      /\ (answering = NoTurn => Rests) /\ (last # NoTurn => answering = NoTurn)
  BY DEF AtRest, Rests
<1>2. ASSUME loop' \in {"down", "idle", "query"}, loop' # "query" => NoQuery', answering' = NoTurn => Rests',
             last' # NoTurn => answering' = NoTurn
      PROVE  AtRest'
  BY <1>2 DEF AtRest, Rests
<1>3. CASE UNCHANGED turnVars
  BY <1>1, <1>2, <1>3 DEF turnVars, convVars, queueVars, textVars, nudgeVars, doneVars, NoQuery, Rests
<1>4. CASE BootTurns
  BY <1>1, <1>2, <1>4 DEF BootTurns, queueVars, textVars, nudgeVars, doneVars, NoQuery, Rests
<1>5. CASE ClearTurns
  BY <1>1, <1>2, <1>5 DEF ClearTurns, queueVars, textVars, nudgeVars, doneVars, NoQuery, Rests
<1>6. DropQuery => NoQuery' /\ Rests' /\ last' = NoTurn
  BY DEF DropQuery, NoQuery, Rests
<1>7. TurnsCrash \/ QueryEnds \/ (\E invalid \in BOOLEAN : QueryFails(invalid)) => DropQuery /\ loop' \in {"down", "idle"}
  BY DEF TurnsCrash, QueryEnds, QueryFails
<1>8. CASE TurnsCrash \/ QueryEnds \/ \E invalid \in BOOLEAN : QueryFails(invalid)
  BY <1>2, <1>6, <1>7, <1>8
<1>9. ASSUME loop' = "query", answering' = answering, last' = last \/ last' = NoTurn, answering = NoTurn => Rests' PROVE AtRest'
  BY <1>1, <1>2, <1>9
<1>10. CASE OpenQuery
  <2>1. /\ loop' = "query" /\ answering' = answering /\ last' = last
        /\ UNCHANGED <<said, segment, at, tail, found, sent, calling>>
    BY <1>10 DEF OpenQuery, doneVars
  <2> QED BY <1>1, <1>9, <2>1 DEF Rests
<1>11. ASSUME QueryInit \/ HostDenies PROVE AtRest'
  <2>1. /\ loop' = "query" /\ answering' = answering /\ last' = last
        /\ UNCHANGED <<said, segment, at, tail, found, sent, calling>>
    BY <1>11 DEF QueryInit, HostDenies, queueVars, textVars, doneVars
  <2> QED BY <1>1, <1>9, <2>1 DEF Rests
<1>12. CASE PushFollowUp
  <2>1. /\ loop' = "query" /\ answering' = answering /\ last' = last
        /\ UNCHANGED <<said, segment, at, tail, found, sent, calling>>
    BY <1>12 DEF PushFollowUp, textVars
  <2> QED BY <1>1, <1>9, <2>1 DEF Rests
<1>13. answering # NoTurn => loop = "query"
  BY <1>1 DEF NoQuery
<1>14. ASSUME loop' = loop, answering' = answering, last' = last, answering # NoTurn PROVE AtRest'
  BY <1>1, <1>2, <1>13, <1>14
<1>15. ASSUME NEW text \in plan.says, TurnText(text) \/ ToolBegins(text) PROVE AtRest'
  <2>1. loop' = loop /\ answering' = answering /\ last' = last /\ answering # NoTurn
    BY <1>15 DEF TurnText, ToolBegins, queueVars, doneVars
  <2> QED BY <1>14, <2>1
<1>16. ASSUME NEW ok \in BOOLEAN, ToolEnds(ok) PROVE AtRest'
  <2>1. loop' = loop /\ answering' = answering /\ last' = last /\ calling # NoText
    BY <1>16 DEF ToolEnds, queueVars, doneVars
  <2>2. answering # NoTurn
    BY <1>1, <2>1 DEF Rests
  <2> QED BY <1>14, <2>1, <2>2
<1>17. CASE TurnBegins
  <2>1. loop' = "query" /\ answering' = Head(inputs) /\ inputs # <<>> /\ last' = NoTurn
    BY <1>17 DEF TurnBegins
  <2>2. Head(inputs) \in Input
    <3>1. inputs \in Seq(Input)
      BY DEF TurnShape, QueueShape
    <3> QED BY <2>1, <3>1
  <2>3. NoTurn \notin Input
    BY TurnAssumption DEF Input
  <2>4. answering' # NoTurn
    BY <2>1, <2>2, <2>3
  <2> QED BY <1>2, <2>1, <2>4
<1>18. ASSUME NEW r \in Results, TurnResult(r) PROVE AtRest'
  <2>1. /\ loop' = loop /\ answering # NoTurn /\ answering' = NoTurn /\ calling' = calling /\ calling = NoText
        /\ sent' = 0 /\ tail' = <<>> /\ said' = <<>> /\ segment' = NoText /\ at' = 0 /\ found' = <<>>
    BY <1>18 DEF TurnResult, Boundary
  <2> QED BY <1>2, <1>13, <2>1 DEF Rests
<1>19. CASE ResultRepeated
  <2>1. /\ loop' = loop /\ loop = "query" /\ answering = NoTurn /\ answering' = answering /\ calling' = calling
        /\ sent' = 0 /\ tail' = <<>> /\ said' = said /\ segment' = segment /\ at' = at /\ found' = found
        /\ last' = NoTurn
    BY <1>19 DEF ResultRepeated, Boundary
  <2> QED BY <1>1, <1>2, <2>1 DEF Rests
<1> QED
  BY <1>3, <1>4, <1>5, <1>8, <1>10, <1>11, <1>12, <1>15, <1>16, <1>17, <1>18, <1>19 DEF NextTurn

\* No conversation that a /clear ended comes back.
LEMMA ConvStep ==
  ASSUME AtRest, ConvInv, [NextTurn]_turnVars
  PROVE  ConvInv'
<1> DEFINE Ok(c, n, k) == c \in 0 .. n /\ (c # 0 => c > k)
<1>1. /\ convs \in Nat /\ cleared \in 0 .. convs
      /\ Ok(cont, convs, cleared) /\ Ok(saved, convs, cleared) /\ Ok(conv, convs, cleared) /\ Ok(resumed, convs, cleared)
  BY DEF ConvInv
<1>2. ASSUME convs' \in Nat, cleared' \in 0 .. convs', Ok(cont', convs', cleared'), Ok(saved', convs', cleared'),
             Ok(conv', convs', cleared'), Ok(resumed', convs', cleared')
      PROVE  ConvInv'
  BY <1>2 DEF ConvInv
<1>3. ASSUME UNCHANGED convVars PROVE ConvInv'
  BY <1>1, <1>2, <1>3 DEF convVars
<1>4. UNCHANGED turnVars \/ TurnBegins \/ HostDenies \/ PushFollowUp \/ ResultRepeated
      \/ (\E text \in plan.says : TurnText(text) \/ ToolBegins(text)) \/ (\E ok \in BOOLEAN : ToolEnds(ok))
      \/ (\E r \in Results : TurnResult(r))
      => UNCHANGED convVars
  BY DEF turnVars, TurnBegins, HostDenies, PushFollowUp, ResultRepeated, TurnText, ToolBegins, ToolEnds, TurnResult
<1>5. CASE BootTurns
  BY <1>1, <1>2, <1>5 DEF BootTurns, RotateContinuation
<1>6. CASE TurnsCrash
  BY <1>1, <1>2, <1>6 DEF TurnsCrash, DropQuery
<1>7. CASE ClearTurns
  <2>1. loop = "idle" /\ cont' = 0 /\ saved' = 0 /\ cleared' = convs /\ conv' = conv /\ resumed' = resumed /\ convs' = convs
    BY <1>7 DEF ClearTurns, Forget
  <2>2. conv = 0 /\ resumed = 0
    BY <2>1 DEF AtRest, NoQuery
  <2> QED BY <1>1, <1>2, <2>1, <2>2
<1>8. CASE OpenQuery
  <2>1. cont' = cont /\ saved' = saved /\ cleared' = cleared /\ conv' = conv /\ resumed' = cont /\ convs' = convs
    BY <1>8 DEF OpenQuery
  <2> QED BY <1>1, <1>2, <2>1
<1>9. CASE QueryInit
  <2>1. /\ conv' = (IF resumed # 0 THEN resumed ELSE convs + 1) /\ convs' = IF resumed # 0 THEN convs ELSE convs + 1
        /\ saved' = conv' /\ cont' = cont /\ resumed' = resumed /\ cleared' = cleared
    BY <1>9 DEF QueryInit, NamedConversation
  <2>2. CASE resumed # 0
    BY <1>1, <1>2, <2>1, <2>2
  <2>3. CASE resumed = 0
    BY <1>1, <1>2, <2>1, <2>3
  <2> QED BY <2>2, <2>3
<1>10. CASE QueryEnds
  BY <1>1, <1>2, <1>10 DEF QueryEnds, DropQuery
<1>11. ASSUME NEW invalid \in BOOLEAN, QueryFails(invalid) PROVE ConvInv'
  BY <1>1, <1>2, <1>11 DEF QueryFails, DropQuery
<1> QED BY <1>3, <1>4, <1>5, <1>6, <1>7, <1>8, <1>9, <1>10, <1>11 DEF NextTurn

-----------------------------------------------------------------------------
(* The rows of a turn.                                                     *)

\* What was written stays, and what comes is of this turn.
LEMMA RowsAfter ==
  ASSUME out \in Seq(Row), NEW rows, StepAppends(rows)
  PROVE  /\ Len(out') = Len(out) + Len(rows) /\ Len(out) \in Nat /\ Len(rows) \in Nat
         /\ \A i \in 1 .. Len(out) : i \in 1 .. Len(out') /\ out'[i] = out[i]
         /\ \A i \in 1 .. Len(out') :
              \/ i <= Len(out)
              \/ \E j \in 1 .. Len(rows) : i = Len(out) + j /\ out'[i] = rows[j]
         /\ \A j \in 1 .. Len(rows) :
              /\ rows[j].of = turns /\ rows[j].at = at
              /\ Len(out) + j \in 1 .. Len(out') /\ out'[Len(out) + j] = rows[j]
<1>1. Appends(rows) /\ Now(rows, Doors)
  BY DEF StepAppends
<1>2. /\ Len(out') = Len(out) + Len(rows) /\ Len(out) \in Nat /\ Len(rows) \in Nat
      /\ \A i \in 1 .. Len(out) : i \in 1 .. Len(out') /\ out'[i] = out[i]
      /\ \A i \in 1 .. Len(rows) : Len(out) + i \in 1 .. Len(out') /\ out'[Len(out) + i] = rows[i]
  BY <1>1, RowsGrow
<1>3. ASSUME NEW i \in 1 .. Len(out'), ~(i <= Len(out))
      PROVE  \E j \in 1 .. Len(rows) : i = Len(out) + j /\ out'[i] = rows[j]
  <2> DEFINE j == i - Len(out)
  <2>1. j \in 1 .. Len(rows) /\ i = Len(out) + j
    BY <1>2, <1>3
  <2> HIDE DEF j
  <2>2. out'[i] = rows[j]
    BY <1>2, <2>1
  <2> QED BY <2>1, <2>2
<1>4. \A j \in 1 .. Len(rows) : rows[j].of = turns /\ rows[j].at = at
  BY <1>1 DEF Now
<1> QED BY <1>2, <1>3, <1>4

\* The rows above the mark are those of the turn.
LEMMA RowsInvStep ==
  ASSUME TurnShape, AtRest, RowsInv, [NextTurn]_turnVars
  PROVE  RowsInv'
<1>1. out \in Seq(Row) /\ mark \in 0 .. Len(out) /\ sent \in Nat /\ at \in Nat /\ turns \in Nat
  BY DEF TurnShape, RowShape
<1>2. PICK rows : RowsMove(rows)
  BY StepRows
<1>3. StepAppends(rows)
  BY <1>2 DEF RowsMove
<1> DEFINE n == Len(out)
<1>4. /\ Len(out') = n + Len(rows) /\ n \in Nat /\ Len(rows) \in Nat
      /\ \A i \in 1 .. n : i \in 1 .. Len(out') /\ out'[i] = out[i]
      /\ \A i \in 1 .. Len(out') : i <= n \/ \E j \in 1 .. Len(rows) : i = n + j /\ out'[i] = rows[j]
      /\ \A j \in 1 .. Len(rows) : rows[j].of = turns /\ rows[j].at = at
  BY <1>1, <1>3, RowsAfter
<1>5. /\ \A i \in 1 .. n : out[i].of <= turns /\ out[i].of \in Nat /\ out[i].at \in Nat
      /\ sent > 0 => n > mark
      /\ loop = "query" => /\ \A i \in 1 .. n : out[i].of = turns <=> i > mark
                           /\ \A i \in mark + 1 .. n : out[i].at <= at
  <2>1. \A i \in 1 .. n : out[i].of \in Nat /\ out[i].at \in Nat
    <3>1. ASSUME NEW i \in 1 .. n PROVE out[i].of \in Nat /\ out[i].at \in Nat
      <4>1. out[i] \in Row
        BY <1>1
      <4> QED BY <4>1 DEF Row
    <3> QED BY <3>1
  <2> QED BY <2>1 DEF RowsInv
<1> HIDE DEF n
<1>6. ASSUME NEW i \in 1 .. Len(out') PROVE out'[i].of <= turns /\ out'[i].of \in Nat
  <2>1. CASE i <= n
    <3>1. i \in 1 .. n
      BY <1>4, <2>1
    <3> QED BY <1>4, <1>5, <3>1
  <2>2. ASSUME NEW j \in 1 .. Len(rows), out'[i] = rows[j] PROVE out'[i].of <= turns /\ out'[i].of \in Nat
    <3>1. rows[j].of = turns
      BY <1>4
    <3> QED BY <1>1, <2>2, <3>1
  <2> QED BY <1>4, <2>1, <2>2
<1>7. CASE GoesOn(rows)
  <2>1. /\ mark' = mark /\ turns' = turns /\ (loop' = "query" => loop = "query")
        /\ at' \in Nat /\ at' >= at /\ sent' \in Nat /\ (sent' = sent \/ sent' = sent + Len(rows))
    BY <1>7 DEF GoesOn
  <2>2. ASSUME loop' = "query", NEW i \in 1 .. Len(out')
        PROVE  (out'[i].of = turns <=> i > mark) /\ (i > mark => out'[i].at <= at')
    <3>1. CASE i <= n
      <4>1. i \in 1 .. n /\ out'[i] = out[i]
        BY <1>4, <3>1
      <4>2. out[i].of = turns <=> i > mark
        BY <1>5, <2>1, <2>2, <4>1
      <4>3. ASSUME i > mark PROVE out[i].at <= at'
        <5>1. i \in mark + 1 .. n
          BY <1>1, <1>4, <4>1, <4>3
        <5>2. out[i].at <= at /\ out[i].at \in Nat
          BY <1>5, <2>1, <2>2, <4>1, <5>1
        <5> QED BY <1>1, <2>1, <5>2
      <4> QED BY <4>1, <4>2, <4>3
    <3>2. ASSUME NEW j \in 1 .. Len(rows), i = n + j, out'[i] = rows[j]
          PROVE  (out'[i].of = turns <=> i > mark) /\ (i > mark => out'[i].at <= at')
      <4>1. rows[j].of = turns /\ rows[j].at = at
        BY <1>4
      <4>2. i > mark
        BY <1>1, <1>4, <3>2 DEF n
      <4> QED BY <1>1, <2>1, <3>2, <4>1, <4>2
    <3> QED BY <1>4, <3>1, <3>2
  <2>3. \A i \in 1 .. Len(out') : out'[i].of <= turns'
    BY <1>6, <2>1
  <2>4. sent' > 0 => Len(out') > mark'
    BY <1>1, <1>4, <1>5, <2>1 DEF n
  <2>5. ASSUME loop' = "query", NEW i \in mark' + 1 .. Len(out') PROVE out'[i].at <= at'
    <3>1. i \in 1 .. Len(out') /\ i > mark
      BY <1>1, <1>4, <2>1
    <3> QED BY <2>2, <2>5, <3>1
  <2>6. loop' = "query" => \A i \in 1 .. Len(out') : out'[i].of = turns' <=> i > mark'
    BY <2>1, <2>2
  <2> QED BY <2>3, <2>4, <2>5, <2>6 DEF RowsInv
<1>8. CASE IsOver
  <2>1. loop' # "query" /\ turns' = turns /\ sent' = 0
    BY <1>8 DEF IsOver
  <2>2. \A i \in 1 .. Len(out') : out'[i].of <= turns'
    BY <1>6, <2>1
  <2> QED BY <2>1, <2>2 DEF RowsInv
<1>9. CASE NextIs
  <2>1. mark' = Len(out') /\ turns' = turns + 1 /\ sent' = 0
    BY <1>9 DEF NextIs
  <2>2. Len(out') \in Nat
    BY <1>4
  <2>3. \A i \in 1 .. Len(out') : out'[i].of <= turns' /\ out'[i].of # turns' /\ ~(i > mark')
    BY <1>1, <1>6, <2>1, <2>2
  <2>4. \A i \in mark' + 1 .. Len(out') : FALSE
    BY <2>1, <2>2
  <2> QED BY <2>1, <2>3, <2>4 DEF RowsInv
<1> QED BY <1>2, <1>7, <1>8, <1>9 DEF RowsMove

\* The streaming door sends nothing twice in a turn.
LEMMA DoorStep ==
  ASSUME TurnShape, AtRest, RowsInv, DoorSendsOnce, [NextTurn]_turnVars
  PROVE  DoorSendsOnce'
<1>1. out \in Seq(Row) /\ mark \in 0 .. Len(out) /\ at \in Nat /\ turns \in Nat
  BY DEF TurnShape, RowShape
<1>2. PICK rows : RowsMove(rows)
  BY StepRows
<1>3. StepAppends(rows)
  BY <1>2 DEF RowsMove
<1> DEFINE n == Len(out)
<1>4. /\ Len(out') = n + Len(rows) /\ n \in Nat /\ Len(rows) \in Nat
      /\ \A i \in 1 .. n : i \in 1 .. Len(out') /\ out'[i] = out[i]
      /\ \A i \in 1 .. Len(out') : i <= n \/ \E j \in 1 .. Len(rows) : i = n + j /\ out'[i] = rows[j]
      /\ \A j \in 1 .. Len(rows) : rows[j].of = turns /\ rows[j].at = at
  BY <1>1, <1>3, RowsAfter
<1>5. loop = "query" => \A i \in 1 .. n : out[i].of = turns <=> i > mark
  BY DEF RowsInv
<1>6. \A i, j \in 1 .. n :
        i < j /\ out[j].by = "door" /\ out[i].of = out[j].of /\ out[i].at < out[j].at => out[i].body # out[j].body
  BY DEF DoorSendsOnce
<1>7. \A i \in mark + 1 .. n : out[i].body \in Echoes
  BY DEF Echoes, n
<1>8. \/ \A i \in 1 .. Len(rows) : rows[i].by # "door"
      \/ loop = "query" /\ \A i \in 1 .. Len(rows) : rows[i].body \notin Echoes
  BY <1>3 DEF StepAppends
<1> HIDE DEF n
<1>9. ASSUME NEW i \in 1 .. Len(out'), NEW j \in 1 .. Len(out'), i < j, out'[j].by = "door",
             out'[i].of = out'[j].of, out'[i].at < out'[j].at
      PROVE  out'[i].body # out'[j].body
  <2>1. CASE j <= n
    <3>1. i \in 1 .. n /\ j \in 1 .. n
      BY <1>4, <1>9, <2>1
    <3>2. out'[i] = out[i] /\ out'[j] = out[j]
      BY <1>4, <3>1
    <3> QED BY <1>6, <1>9, <3>1, <3>2
  <2>2. ASSUME NEW y \in 1 .. Len(rows), j = n + y, out'[j] = rows[y] PROVE out'[i].body # out'[j].body
    <3>1. rows[y].by = "door" /\ rows[y].of = turns /\ rows[y].at = at
      BY <1>4, <1>9, <2>2
    <3>2. loop = "query" /\ rows[y].body \notin Echoes
      BY <1>8, <3>1
    <3>3. CASE i <= n
      <4>1. i \in 1 .. n /\ out'[i] = out[i]
        BY <1>4, <3>3
      <4>2. out[i].of = turns
        BY <1>9, <2>2, <3>1, <4>1
      <4>3. i > mark
        BY <1>5, <3>2, <4>1, <4>2
      <4>4. i \in mark + 1 .. n
        BY <1>1, <1>4, <4>1, <4>3
      <4>5. out[i].body \in Echoes
        BY <1>7, <4>4
      <4> QED BY <2>2, <3>2, <4>1, <4>5
    <3>4. ASSUME NEW x \in 1 .. Len(rows), out'[i] = rows[x] PROVE FALSE
      BY <1>1, <1>4, <1>9, <2>2, <3>1, <3>4
    <3> QED BY <1>4, <3>3, <3>4
  <2> QED BY <1>4, <2>1, <2>2
<1> QED BY <1>9 DEF DoorSendsOnce

\* Whatever the scans of a turn found is among its rows.
LEMMA FoundStep ==
  ASSUME TurnShape, AtRest, FoundIsSent, [NextTurn]_turnVars
  PROVE  FoundIsSent'
<1>1. /\ out \in Seq(Row) /\ mark \in 0 .. Len(out) /\ at \in Nat /\ turns \in Nat
      /\ TextShape /\ plan \in Plans /\ found \in Seq(BlockRec)
  BY DEF TurnShape, RowShape, TextShape
<1>2. \A i \in 1 .. Len(found) : \E j \in mark + 1 .. Len(out) : out[j].body = found[i].body
  BY DEF FoundIsSent
<1>3. ASSUME found' = <<>> PROVE FoundIsSent'
  BY <1>3 DEF FoundIsSent
<1>4. ASSUME found' = found, mark' = mark PROVE FoundIsSent'
  <2>1. PICK rows : RowsMove(rows)
    BY StepRows
  <2>2. /\ Len(out') = Len(out) + Len(rows) /\ Len(out) \in Nat /\ Len(rows) \in Nat
        /\ \A i \in 1 .. Len(out) : i \in 1 .. Len(out') /\ out'[i] = out[i]
    BY <1>1, <2>1, RowsAfter DEF RowsMove
  <2>3. ASSUME NEW i \in 1 .. Len(found) PROVE \E j \in mark + 1 .. Len(out') : out'[j].body = found[i].body
    <3>1. PICK j \in mark + 1 .. Len(out) : out[j].body = found[i].body
      BY <1>2
    <3>2. j \in 1 .. Len(out) /\ j \in mark + 1 .. Len(out')
      BY <1>1, <2>2
    <3> QED BY <2>2, <3>1, <3>2
  <2> QED BY <1>4, <2>3 DEF FoundIsSent
<1>5. UNCHANGED turnVars \/ BootTurns \/ ClearTurns \/ QueryInit \/ TurnBegins \/ HostDenies \/ PushFollowUp
      \/ (\E text \in plan.says : ToolBegins(text)) \/ (\E ok \in BOOLEAN : ToolEnds(ok))
      => found' = found /\ mark' = mark
  BY DEF turnVars, textVars, BootTurns, ClearTurns, QueryInit, TurnBegins, HostDenies, PushFollowUp, ToolBegins, ToolEnds
<1>6. TurnsCrash \/ QueryEnds \/ (\E invalid \in BOOLEAN : QueryFails(invalid)) \/ (\E r \in Results : TurnResult(r))
      => found' = <<>>
  BY DEF TurnsCrash, QueryEnds, QueryFails, DropQuery, TurnResult
<1>7. OpenQuery \/ ResultRepeated => found' = <<>>
  BY DEF OpenQuery, ResultRepeated, AtRest, NoQuery
<1>8. ASSUME NEW text \in plan.says, TurnText(text) PROVE FoundIsSent'
  <2>1. mark' = mark
    BY <1>8 DEF TurnText
  <2>2. CASE plan.midturn /\ ~plan.task
    <3>1. text \in Seq(Tokens) /\ said \in Seq(Tokens) /\ tail \in Seq(Tokens)
      BY <1>1, <1>8, SaysAre DEF TextShape
    <3> DEFINE blocks == Sendable(Resolved(Join(tail, text)))
    <3>2. blocks \in Seq(BlockRec) /\ found' = found \o blocks /\ \E rows \in Seq(Row) : ScanRows(rows, blocks)
      BY <1>1, <1>8, <2>2, <3>1, ScanIs
    <3> HIDE DEF blocks
    <3>3. PICK rows \in Seq(Row) : ScanRows(rows, blocks)
      BY <3>2
    <3>4. /\ out' = out \o rows
          /\ \A j \in 1 .. Len(blocks) :
               blocks[j].body \in Echoes \/ \E i \in 1 .. Len(rows) : rows[i].body = blocks[j].body
      BY <3>3 DEF ScanRows
    <3>5. /\ Len(out') = Len(out) + Len(rows) /\ Len(out) \in Nat /\ Len(rows) \in Nat
          /\ \A i \in 1 .. Len(out) : i \in 1 .. Len(out') /\ out'[i] = out[i]
          /\ \A i \in 1 .. Len(rows) : Len(out) + i \in 1 .. Len(out') /\ out'[Len(out) + i] = rows[i]
      BY <1>1, <3>4, RowsGrow DEF Appends
    <3>6. ASSUME NEW j \in mark + 1 .. Len(out) PROVE j \in mark + 1 .. Len(out') /\ out'[j] = out[j]
      <4>1. j \in 1 .. Len(out)
        BY <1>1
      <4> QED BY <3>5, <4>1
    <3>7. ASSUME NEW body, body \in Echoes PROVE \E j \in mark + 1 .. Len(out') : out'[j].body = body
      <4>1. PICK j \in mark + 1 .. Len(out) : out[j].body = body
        BY <3>7 DEF Echoes
      <4> QED BY <3>6, <4>1
    <3>8. ASSUME NEW j \in 1 .. Len(blocks) PROVE \E k \in mark + 1 .. Len(out') : out'[k].body = blocks[j].body
      <4>1. CASE blocks[j].body \in Echoes
        BY <3>7, <4>1
      <4>2. ASSUME NEW i \in 1 .. Len(rows), rows[i].body = blocks[j].body
            PROVE  \E k \in mark + 1 .. Len(out') : out'[k].body = blocks[j].body
        <5> DEFINE k == Len(out) + i
        <5>1. k \in mark + 1 .. Len(out') /\ out'[k] = rows[i]
          BY <1>1, <3>5
        <5> HIDE DEF k
        <5> QED BY <4>2, <5>1
      <4> QED BY <3>4, <4>1, <4>2
    <3>9. /\ Len(found') = Len(found) + Len(blocks) /\ Len(found) \in Nat /\ Len(blocks) \in Nat
          /\ \A i \in 1 .. Len(found') : found'[i] = IF i <= Len(found) THEN found[i] ELSE blocks[i - Len(found)]
      BY <1>1, <3>2, ConcatProperties
    <3>10. ASSUME NEW i \in 1 .. Len(found') PROVE \E j \in mark' + 1 .. Len(out') : out'[j].body = found'[i].body
      <4>1. CASE i <= Len(found)
        <5>1. i \in 1 .. Len(found) /\ found'[i] = found[i]
          BY <3>9, <4>1
        <5>2. PICK j \in mark + 1 .. Len(out) : out[j].body = found[i].body
          BY <1>2, <5>1
        <5> QED BY <2>1, <3>6, <5>1, <5>2
      <4>2. CASE ~(i <= Len(found))
        <5> DEFINE j == i - Len(found)
        <5>1. j \in 1 .. Len(blocks) /\ found'[i] = blocks[j]
          BY <3>9, <4>2
        <5> HIDE DEF j
        <5> QED BY <2>1, <3>8, <5>1
      <4> QED BY <4>1, <4>2
    <3> QED BY <3>10 DEF FoundIsSent
  <2>3. CASE ~(plan.midturn /\ ~plan.task)
    <3>1. found' = found
      BY <1>8, <2>3 DEF TurnText
    <3> QED BY <1>4, <2>1, <3>1
  <2> QED BY <2>2, <2>3
<1> QED BY <1>3, <1>4, <1>5, <1>6, <1>7, <1>8 DEF NextTurn

\* The scans of a turn.
LEMMA ScanStarts == Scanned(<<>>, <<>>, <<>>, <<>>)
<1>1. <<>> \in Seq(Tokens) /\ Len(<<>>) = 0 /\ <<>> \o <<>> = <<>>
  BY EmptySeq, ConcatEmptySeq
<1>2. Spans(<<>>).held = <<>> /\ Spans(<<>>).kept = <<>>
  BY SpanAppend DEF NoSpan
<1>3. PreIs(<<>>, <<>>, <<>>)
  BY <1>1, <1>2 DEF PreIs
<1>4. Resolved(<<>>) = <<>>
  <2> DEFINE r == Resolved(<<>>)  u == Unresolved(<<>>)
  <2>1. r \in Seq(Tokens) /\ u \in Seq(Tokens) /\ <<>> = r \o u
    BY <1>1, ResolvedIs
  <2> HIDE DEF r, u
  <2>2. Len(r \o u) = Len(r) + Len(u) /\ Len(r) \in Nat /\ Len(u) \in Nat
    BY <2>1, ConcatProperties
  <2>3. Len(r) = 0
    <3>1. Len(r \o u) = Len(<<>>)
      BY <2>1, Zenon
    <3>2. Len(r) + Len(u) = 0
      BY <1>1, <2>2, <3>1
    <3> QED BY <2>2, <3>2
  <2>4. r = <<>>
    BY <2>1, <2>3, EmptySeq
  <2> QED BY <2>4 DEF r
<1>5. Sendable(<<>>) = <<>>
  <2>1. Visible(<<>>) = <<>>
    BY <1>1, <1>2 DEF Visible
  <2>2. Blocks(<<>>).sends = <<>>
    BY BlockAppend DEF NoBlock
  <2>3. Sendable(<<>>) = Blocks(Visible(<<>>)).sends
    BY <1>1, SendableIs
  <2> QED BY <2>1, <2>2, <2>3
<1> QED BY <1>1, <1>3, <1>4, <1>5 DEF Scanned, FoundStands, FoundIsAll

\* The scans keep to the whole text.
LEMMA ScanInvStep ==
  ASSUME TurnShape, AtRest, ScanInv, [NextTurn]_turnVars
  PROVE  ScanInv'
<1>1. /\ TextShape /\ plan \in Plans /\ at \in Nat /\ turns \in Nat
      /\ said \in Seq(Tokens) /\ tail \in Seq(Tokens) /\ found \in Seq(BlockRec)
  BY DEF TurnShape, TextShape, RowShape
<1>2. SamePlan
  BY <1>1, PlanStep
<1>3. ASSUME answering' = answering, said' = said, tail' = tail, found' = found PROVE ScanInv'
  BY <1>2, <1>3 DEF ScanInv, SamePlan
<1>4. UNCHANGED turnVars \/ BootTurns \/ ClearTurns \/ OpenQuery \/ QueryInit \/ HostDenies \/ PushFollowUp
      \/ (\E text \in plan.says : ToolBegins(text)) \/ (\E ok \in BOOLEAN : ToolEnds(ok))
      => answering' = answering /\ said' = said /\ tail' = tail /\ found' = found
  BY DEF turnVars, queueVars, textVars, BootTurns, ClearTurns, OpenQuery, QueryInit, HostDenies, PushFollowUp,
         ToolBegins, ToolEnds
<1>5. TurnsCrash \/ QueryEnds \/ (\E invalid \in BOOLEAN : QueryFails(invalid)) \/ ResultRepeated
      \/ (\E r \in Results : TurnResult(r))
      => answering' = NoTurn
  BY DEF TurnsCrash, QueryEnds, QueryFails, DropQuery, ResultRepeated, TurnResult
<1>6. answering' = NoTurn => ScanInv'
  BY DEF ScanInv
<1>7. CASE TurnBegins
  <2>1. answering = NoTurn /\ said' = said /\ tail' = tail /\ found' = found
    BY <1>7 DEF TurnBegins, textVars
  <2>2. said = <<>> /\ tail = <<>> /\ found = <<>>
    BY <2>1 DEF AtRest
  <2> QED BY <2>1, <2>2, ScanStarts DEF ScanInv
<1>8. ASSUME NEW text \in plan.says, TurnText(text) PROVE ScanInv'
  <2>1. CASE plan.midturn /\ ~plan.task
    <3>1. text \in Seq(Tokens) /\ answering # NoTurn
      BY <1>1, <1>8, SaysAre DEF TurnText
    <3>2. PICK pre : Scanned(said, tail, found, pre)
      BY <2>1, <3>1 DEF ScanInv
    <3> DEFINE input == Join(tail, text)  p == pre \o Resolved(input)
    <3>3. /\ tail' = Unresolved(input) /\ found' = found \o Sendable(Resolved(input)) /\ said' = Join(said, text)
      BY <1>1, <1>8, <2>1, <3>1, ScanIs
    <3>4. Scanned(Join(said, text), Unresolved(input), found \o Sendable(Resolved(input)), p)
      BY <1>1, <3>1, <3>2, ScanStep
    <3> HIDE DEF p, input
    <3>5. Scanned(said', tail', found', p)
      BY <3>3, <3>4
    <3> QED BY <3>5 DEF ScanInv
  <2>2. CASE ~(plan.midturn /\ ~plan.task)
    BY <1>2, <2>2 DEF ScanInv, SamePlan
  <2> QED BY <2>1, <2>2
<1> QED BY <1>3, <1>4, <1>5, <1>6, <1>7, <1>8 DEF NextTurn

-----------------------------------------------------------------------------
(* Exchanges and nudges.                                                   *)

\* What happened stays on record.
LEMMA OdditiesGrow ==
  ASSUME [NextTurn]_turnVars PROVE oddities \subseteq oddities'
<1>1. UNCHANGED turnVars \/ BootTurns \/ TurnsCrash \/ ClearTurns \/ OpenQuery \/ QueryInit \/ QueryEnds
      \/ (\E invalid \in BOOLEAN : QueryFails(invalid)) \/ TurnBegins
      \/ (\E text \in plan.says : TurnText(text) \/ ToolBegins(text))
      => oddities' = oddities
  BY DEF turnVars, auditVars, BootTurns, TurnsCrash, ClearTurns, OpenQuery, QueryInit, QueryEnds, QueryFails,
         TurnBegins, TurnText, ToolBegins
<1>2. HostDenies \/ PushFollowUp \/ ResultRepeated \/ (\E ok \in BOOLEAN : ToolEnds(ok)) \/ (\E r \in Results : TurnResult(r))
      => oddities \subseteq oddities'
  BY DEF HostDenies, PushFollowUp, ResultRepeated, ToolEnds, TurnResult
<1> QED BY <1>1, <1>2 DEF NextTurn

\* The result of a turn that was answered alone.
LEMMA AloneAnswered ==
  ASSUME TurnShape, AtRest, ExchangeInv, NEW r \in Results, TurnResult(r), oddities' \cap Odd = {}
  PROVE  /\ loop = "query" /\ inputs = <<>> /\ prompts = <<answering.of>> /\ OldestPrompt = answering.of
         /\ answering \in Input /\ r.text \notin seen /\ r \in ResultRec /\ answering' = NoTurn
         /\ oddities' = oddities /\ Taken(r, answering.of)
<1>1. answering # NoTurn /\ answering' = NoTurn /\ Taken(r, answering.of)
      /\ oddities' = IF r.text \in seen THEN oddities \cup {"swallowed"} ELSE oddities
  BY DEF TurnResult
<1>2. "swallowed" \in Odd
  BY DEF Odd
<1>3. r.text \notin seen /\ oddities' = oddities
  BY <1>1, <1>2
<1>4. loop = "query"
  BY <1>1 DEF AtRest, NoQuery
<1>5. OneExchange
  BY <1>3, <1>4 DEF ExchangeInv
<1>6. inputs = <<>> /\ prompts = <<answering.of>>
  BY <1>1, <1>5 DEF OneExchange
<1>7. OldestPrompt = answering.of
  BY <1>6 DEF OldestPrompt
<1>8. answering \in Input /\ TextShape
  BY <1>1 DEF TurnShape, QueueShape
<1>9. r \in ResultRec
  BY <1>8, ResultsAre
<1> QED BY <1>1, <1>3, <1>4, <1>6, <1>7, <1>8, <1>9

\* The types a dispatch depends on.
LEMMA TakenShape ==
  ASSUME TurnShape
  PROVE  /\ at \in Nat /\ turns \in Nat /\ plan.midturn \in BOOLEAN /\ plan.task \in BOOLEAN
         /\ nudged \in BOOLEAN /\ taskNudged \in BOOLEAN /\ flag \in BOOLEAN /\ inputs \in Seq(Input)
         /\ out \in Seq(Row)
BY DEF TurnShape, RowShape, FlagShape, QueueShape, Plans

\* What it does to the queue and to the dedup.
LEMMA AloneTaken ==
  ASSUME TurnShape, AtRest, ExchangeInv, NEW r \in Results, TurnResult(r), oddities' \cap Odd = {}
  PROVE  /\ OneExchange' /\ (mixed' => mixed)
         /\ \A i \in 1 .. Len(inputs') : inputs'[i].retry
<1> DEFINE of == answering.of  retry == [of |-> of, retry |-> TRUE]
<1>1. /\ inputs = <<>> /\ prompts = <<of>> /\ OldestPrompt = of /\ answering \in Input /\ r.text \notin seen
      /\ r \in ResultRec /\ answering' = NoTurn /\ Taken(r, of)
  BY AloneAnswered
<1>2. of \in Nat /\ retry.of = of /\ retry.retry
  BY <1>1 DEF Input
<1> HIDE DEF of, retry
<1>3. ASSUME inputs' = <<>>, prompts' = <<>>, mixed' => mixed
      PROVE  OneExchange' /\ (mixed' => mixed) /\ \A i \in 1 .. Len(inputs') : inputs'[i].retry
  BY <1>1, <1>3 DEF OneExchange
<1>4. CASE r.text = NoText
  <2>1. prompts' = (IF prompts = <<>> THEN <<>> ELSE Tail(prompts)) /\ inputs' = inputs /\ mixed' = mixed
    BY <1>1, <1>4 DEF Taken, DispatchEmpty
  <2>2. prompts # <<>> /\ Tail(prompts) = <<>>
    BY <1>1
  <2> QED BY <1>1, <1>3, <2>1, <2>2
<1>5. CASE r.text # NoText
  <2>1. \E rows \in Seq(Row) : \E rewrap, again \in BOOLEAN : Dispatched(r.text, of, rows, rewrap, again)
    BY <1>1, <1>2, <1>5, TakenIs, TakenShape
  <2>2. PICK rows \in Seq(Row), rewrap \in BOOLEAN, again \in BOOLEAN : Dispatched(r.text, of, rows, rewrap, again)
    BY <2>1
  <2>3. /\ inputs' = IF rewrap \/ again THEN Append(inputs, retry) ELSE inputs
        /\ prompts' = IF ~rewrap /\ ~again /\ prompts # <<>> THEN Tail(prompts) ELSE prompts
        /\ mixed' = (mixed \/ of # OldestPrompt)
    BY <2>2 DEF Dispatched, retry
  <2>4. mixed' = (mixed \/ FALSE)
    BY <1>1, <2>3
  <2>5. prompts # <<>> /\ Tail(prompts) = <<>>
    BY <1>1
  <2>6. CASE rewrap \/ again
    <3>1. inputs' = <<retry>> /\ prompts' = <<of>>
      BY <1>1, <2>3, <2>6
    <3>2. inputs' = <<inputs'[1]>> /\ inputs'[1] = retry /\ Len(inputs') = 1
      BY <3>1
    <3>3. prompts' = <<inputs'[1].of>>
      BY <1>2, <3>1, <3>2
    <3>4. \A i \in 1 .. Len(inputs') : inputs'[i].retry
      BY <1>2, <3>2
    <3>5. OneExchange'
      BY <1>1, <3>2, <3>3 DEF OneExchange
    <3>6. mixed' => mixed
      BY <2>4
    <3> QED BY <3>4, <3>5, <3>6
  <2>7. CASE ~(rewrap \/ again)
    <3>1. inputs' = <<>> /\ prompts' = <<>>
      BY <1>1, <2>3, <2>5, <2>7
    <3>2. mixed' => mixed
      BY <2>4
    <3> QED BY <1>3, <3>1, <3>2
  <2> QED BY <2>6, <2>7
<1> QED BY <1>4, <1>5

\* Unless something odd happened there is one prompt at a time, and it is the oldest.
LEMMA ExchangeStep ==
  ASSUME TurnShape, AtRest, ExchangeInv, [NextTurn]_turnVars
  PROVE  ExchangeInv'
<1>1. /\ loop = "query" /\ oddities \cap Odd = {} => OneExchange
      /\ last # NoTurn /\ ~fresh /\ last.text # NoText => last.text \in seen
      /\ mixed => oddities \cap Odd # {}
  BY DEF ExchangeInv
<1>2. oddities' \cap Odd = {} => oddities \cap Odd = {}
  BY OdditiesGrow
<1>3. \A x \in {"overlap", "repeat", "swallowed"} : x \in Odd
  BY DEF Odd
<1>4. inputs \in Seq(Input) /\ prompts \in Seq(Nat) /\ TextShape
  BY DEF TurnShape, QueueShape
<1>5. ASSUME loop' = "query" => loop = "query", UNCHANGED <<queueVars, doneVars, mixed>> PROVE ExchangeInv'
  <2>1. OneExchange => OneExchange'
    BY <1>5 DEF OneExchange, queueVars
  <2>2. last' = last /\ fresh' = fresh /\ seen' = seen /\ mixed' = mixed
    BY <1>5 DEF doneVars
  <2> QED BY <1>1, <1>2, <1>5, <2>1, <2>2 DEF ExchangeInv
<1>6. UNCHANGED turnVars \/ BootTurns \/ ClearTurns \/ QueryInit \/ HostDenies
      \/ (\E text \in plan.says : TurnText(text) \/ ToolBegins(text)) \/ (\E ok \in BOOLEAN : ToolEnds(ok))
      => (loop' = "query" => loop = "query") /\ UNCHANGED <<queueVars, doneVars, mixed>>
  BY DEF turnVars, auditVars, BootTurns, ClearTurns, QueryInit, HostDenies, TurnText, ToolBegins, ToolEnds
<1>7. ASSUME loop' # "query", last' = NoTurn, mixed' => oddities' \cap Odd # {} PROVE ExchangeInv'
  BY <1>7 DEF ExchangeInv
<1>8. CASE TurnsCrash \/ QueryEnds
  <2>1. loop' # "query" /\ last' = NoTurn /\ mixed' = mixed
    BY <1>8 DEF TurnsCrash, QueryEnds, DropQuery, auditVars
  <2> QED BY <1>1, <1>2, <1>7, <2>1
<1>9. ASSUME NEW invalid \in BOOLEAN, QueryFails(invalid) PROVE ExchangeInv'
  <2>1. loop = "query" /\ loop' # "query" /\ last' = NoTurn /\ mixed' = (mixed \/ Mismatch(OldestPrompt)) /\ oddities' = oddities
    BY <1>9 DEF QueryFails, DropQuery
  <2>2. ASSUME oddities \cap Odd = {} PROVE ~Mismatch(OldestPrompt)
    <3>1. OneExchange
      BY <1>1, <2>1, <2>2
    <3>2. answering # NoTurn => OldestPrompt = answering.of
      BY <3>1 DEF OneExchange, OldestPrompt
    <3> QED BY <3>2 DEF Mismatch
  <2>3. mixed' => oddities' \cap Odd # {}
    BY <1>1, <2>1, <2>2
  <2> QED BY <1>7, <2>1, <2>3
<1>10. CASE OpenQuery
  <2> DEFINE i == [of |-> asked + 1, retry |-> FALSE]
  <2>1. /\ inputs' = <<i>> /\ prompts' = <<asked + 1>> /\ loop = "idle" /\ answering' = answering
        /\ UNCHANGED <<doneVars, auditVars>>
    BY <1>10 DEF OpenQuery
  <2>2. i.of = asked + 1
    OBVIOUS
  <2> HIDE DEF i
  <2>3. answering' = NoTurn
    BY <2>1 DEF AtRest, NoQuery
  <2>4. OneExchange'
    BY <2>1, <2>2, <2>3 DEF OneExchange
  <2>5. last' = last /\ fresh' = fresh /\ seen' = seen /\ mixed' = mixed /\ oddities' = oddities
    BY <2>1 DEF doneVars, auditVars
  <2> QED BY <1>1, <2>4, <2>5 DEF ExchangeInv
<1>11. CASE TurnBegins
  <2>1. /\ loop = "query" /\ answering = NoTurn /\ inputs # <<>> /\ answering' = Head(inputs) /\ inputs' = Tail(inputs)
        /\ prompts' = prompts /\ last' = NoTurn /\ UNCHANGED auditVars
    BY <1>11 DEF TurnBegins
  <2>2. answering' # NoTurn
    <3>1. Head(inputs) \in Input
      BY <1>4, <2>1
    <3>2. NoTurn \notin Input
      BY TurnAssumption DEF Input
    <3> QED BY <2>1, <3>1, <3>2
  <2>3. ASSUME oddities' \cap Odd = {} PROVE OneExchange'
    <3>1. inputs = <<inputs[1]>> /\ prompts = <<inputs[1].of>>
      BY <1>1, <1>2, <2>1, <2>3 DEF OneExchange
    <3>2. Head(inputs) = inputs[1] /\ Tail(inputs) = <<>>
      <4> DEFINE x == inputs[1]
      <4>1. inputs = <<x>>
        BY <3>1
      <4> HIDE DEF x
      <4>2. Head(<<x>>) = x /\ Tail(<<x>>) = <<>>
        OBVIOUS
      <4> QED BY <4>1, <4>2 DEF x
    <3> QED BY <2>1, <2>2, <3>1, <3>2 DEF OneExchange
  <2>4. mixed' = mixed /\ oddities' = oddities
    BY <2>1 DEF auditVars
  <2> QED BY <1>1, <2>1, <2>3, <2>4 DEF ExchangeInv
<1>12. CASE PushFollowUp
  <2> DEFINE i == [of |-> asked + 1, retry |-> FALSE]
  <2>1. /\ loop = "query" /\ inputs' = Append(inputs, i) /\ prompts' = Append(prompts, asked + 1) /\ answering' = answering
        /\ fresh' = TRUE /\ mixed' = mixed
        /\ oddities' = IF answering # NoTurn \/ inputs # <<>> THEN oddities \cup {"overlap"} ELSE oddities
    BY <1>12 DEF PushFollowUp
  <2>2. i.of = asked + 1
    OBVIOUS
  <2> HIDE DEF i
  <2>3. ASSUME oddities' \cap Odd = {} PROVE OneExchange'
    <3>1. answering = NoTurn /\ inputs = <<>>
      BY <1>3, <2>1, <2>3
    <3>2. OneExchange
      BY <1>1, <1>2, <2>1, <2>3
    <3>3. prompts = <<>>
      BY <3>1, <3>2 DEF OneExchange
    <3>4. inputs' = <<i>> /\ prompts' = <<asked + 1>>
      BY <2>1, <3>1, <3>3
    <3>5. inputs' = <<inputs'[1]>> /\ inputs'[1] = i
      BY <3>4
    <3>6. prompts' = <<inputs'[1].of>>
      BY <2>2, <3>4, <3>5
    <3> QED BY <2>1, <3>1, <3>5, <3>6 DEF OneExchange
  <2>4. mixed' => oddities' \cap Odd # {}
    BY <1>1, <1>2, <2>1
  <2> QED BY <2>1, <2>3, <2>4 DEF ExchangeInv
<1>13. ASSUME NEW r \in Results, TurnResult(r) PROVE ExchangeInv'
  <2>1. ASSUME oddities' \cap Odd = {} PROVE OneExchange' /\ ~mixed'
    <3>1. OneExchange' /\ (mixed' => mixed)
      BY <1>13, <2>1, AloneTaken
    <3> QED BY <1>1, <1>2, <2>1, <3>1
  <2>2. last' = r /\ fresh' = (r.text # NoText /\ seen' = {}) /\ answering # NoTurn /\ Taken(r, answering.of)
    BY <1>13 DEF TurnResult
  <2>3. ASSUME ~fresh', r.text # NoText PROVE r.text \in seen'
    <3>1. answering.of \in Nat /\ r \in ResultRec
      BY <1>4, <2>2, ResultsAre DEF TurnShape, QueueShape, Input
    <3>2. CASE r.text \in seen
      BY <2>2, <2>3, <3>2 DEF Taken
    <3>3. CASE r.text \notin seen
      <4>1. \E rows \in Seq(Row) : \E rewrap, again \in BOOLEAN : Dispatched(r.text, answering.of, rows, rewrap, again)
        BY <2>2, <2>3, <3>1, <3>3, TakenIs, TakenShape
      <4>2. PICK rows \in Seq(Row), rewrap \in BOOLEAN, again \in BOOLEAN :
              Dispatched(r.text, answering.of, rows, rewrap, again)
        BY <4>1
      <4>3. seen' = IF rewrap THEN {} ELSE seen \cup {r.text}
        BY <4>2 DEF Dispatched
      <4>4. seen' # {}
        BY <2>2, <2>3
      <4> QED BY <4>3, <4>4
    <3> QED BY <3>2, <3>3
  <2> QED BY <2>1, <2>2, <2>3 DEF ExchangeInv
<1>14. CASE ResultRepeated
  <2>1. /\ loop = "query" /\ loop' = loop /\ answering = NoTurn /\ answering' = answering /\ last # NoTurn
        /\ Taken(last, 0) /\ last' = NoTurn
        /\ oddities' = IF fresh \/ last.text = NoText THEN oddities \cup {"repeat"} ELSE oddities
    BY <1>14 DEF ResultRepeated
  <2>2. ASSUME oddities' \cap Odd = {} PROVE OneExchange' /\ ~mixed'
    <3>1. ~fresh /\ last.text # NoText
      BY <1>3, <2>1, <2>2
    <3>2. last.text \in seen
      BY <1>1, <2>1, <3>1
    <3>3. inputs' = inputs /\ prompts' = prompts /\ mixed' = mixed
      BY <2>1, <3>1, <3>2 DEF Taken
    <3>4. OneExchange
      BY <1>1, <1>2, <2>1, <2>2
    <3>5. OneExchange'
      BY <2>1, <3>3, <3>4 DEF OneExchange
    <3> QED BY <1>1, <1>2, <2>2, <3>3, <3>5
  <2> QED BY <2>1, <2>2 DEF ExchangeInv
<1> QED BY <1>5, <1>6, <1>8, <1>9, <1>10, <1>11, <1>12, <1>13, <1>14 DEF NextTurn

-----------------------------------------------------------------------------
(* Nudges.                                                                 *)

\* No denial stands among the rows of a turn that saw none.
LEMMA NoHostStep ==
  ASSUME TurnShape, AtRest, NoHost, [NextTurn]_turnVars, oddities' = {}
  PROVE  NoHost'
<1>1. out \in Seq(Row) /\ mark \in 0 .. Len(out)
  BY DEF TurnShape, RowShape
<1>2. PICK rows : RowsMove(rows)
  BY StepRows
<1>3. StepAppends(rows)
  BY <1>2 DEF RowsMove
<1>4. /\ Len(out') = Len(out) + Len(rows) /\ Len(out) \in Nat /\ Len(rows) \in Nat
      /\ \A i \in 1 .. Len(out) : i \in 1 .. Len(out') /\ out'[i] = out[i]
      /\ \A i \in 1 .. Len(out') : i <= Len(out) \/ \E j \in 1 .. Len(rows) : i = Len(out) + j /\ out'[i] = rows[j]
  BY <1>1, <1>3, RowsAfter
<1>5. \A j \in 1 .. Len(rows) : rows[j].by # "host"
  BY <1>3 DEF StepAppends
<1>6. loop = "query" => \A j \in mark + 1 .. Len(out) : out[j].by # "host"
  BY DEF NoHost
<1>7. CASE GoesOn(rows)
  <2>1. mark' = mark /\ (loop' = "query" => loop = "query")
    BY <1>7 DEF GoesOn
  <2>2. ASSUME loop' = "query", NEW j \in mark' + 1 .. Len(out') PROVE out'[j].by # "host"
    <3>1. j \in 1 .. Len(out') /\ j > mark
      BY <1>1, <1>4, <2>1
    <3>2. CASE j <= Len(out)
      <4>1. j \in mark + 1 .. Len(out) /\ j \in 1 .. Len(out)
        BY <1>1, <1>4, <3>1, <3>2
      <4>2. out[j].by # "host"
        BY <1>6, <2>1, <2>2, <4>1
      <4> QED BY <1>4, <4>1, <4>2
    <3> QED BY <1>4, <1>5, <3>1, <3>2
  <2> QED BY <2>2 DEF NoHost
<1>8. CASE IsOver
  BY <1>8 DEF IsOver, NoHost
<1>9. CASE NextIs
  <2>1. mark' = Len(out') /\ Len(out') \in Nat
    BY <1>4, <1>9 DEF NextIs
  <2>2. \A j \in mark' + 1 .. Len(out') : FALSE
    BY <2>1
  <2> QED BY <2>2 DEF NoHost
<1> QED BY <1>2, <1>7, <1>8, <1>9 DEF RowsMove

\* A row that was written stays above the mark.
LEMMA TookStays ==
  ASSUME TurnShape, AtRest, TookRow, [NextTurn]_turnVars, mark' = mark
  PROVE  TookRow'
<1>1. out \in Seq(Row) /\ mark \in 0 .. Len(out)
  BY DEF TurnShape, RowShape
<1>2. PICK rows : RowsMove(rows)
  BY StepRows
<1>3. StepAppends(rows)
  BY <1>2 DEF RowsMove
<1>4. /\ Len(out') = Len(out) + Len(rows) /\ Len(out) \in Nat /\ Len(rows) \in Nat
      /\ \A i \in 1 .. Len(out) : i \in 1 .. Len(out') /\ out'[i] = out[i]
  BY <1>1, <1>3, RowsAfter
<1>5. PICK j \in mark + 1 .. Len(out) : out[j].by # "host"
  BY DEF TookRow
<1>6. j \in 1 .. Len(out) /\ j \in mark' + 1 .. Len(out')
  BY <1>1, <1>4
<1>7. out'[j].by # "host"
  BY <1>4, <1>5, <1>6
<1> QED BY <1>6, <1>7 DEF TookRow

\* A tool call that succeeds has written a row.
LEMMA ToolTook ==
  ASSUME TurnShape, ToolEnds(TRUE)
  PROVE  TookRow'
<1>1. out \in Seq(Row) /\ mark \in 0 .. Len(out) /\ TextShape /\ at \in Nat /\ turns \in Nat
  BY DEF TurnShape, RowShape
<1>2. calling \in Seq(Tokens)
  BY <1>1 DEF ToolEnds, TextShape, NoneOrText
<1> DEFINE c == Chat(calling, "tool")
<1>3. out' = Append(out, c) /\ mark' = mark
  BY DEF ToolEnds
<1>4. c \in Row /\ c.by = "tool"
  BY <1>1, <1>2, ChatIs, Doors1
<1> HIDE DEF c
<1>5. Len(out') = Len(out) + 1 /\ out'[Len(out) + 1] = c /\ Len(out) \in Nat
  BY <1>1, <1>3, <1>4, AppendProperties
<1>6. Len(out) + 1 \in mark' + 1 .. Len(out')
  BY <1>1, <1>3, <1>5
<1>7. out'[Len(out) + 1].by # "host"
  BY <1>4, <1>5
<1> QED BY <1>6, <1>7 DEF TookRow

\* A prompt that is no retry has not been nudged for, and its tool call wrote a row.
LEMMA FirstTryStep ==
  ASSUME TurnShape, AtRest, ExchangeInv, FirstTry, NewOnes, [NextTurn]_turnVars, oddities = {}, oddities' = {}
  PROVE  FirstTry' /\ NewOnes'
<1>1. /\ answering # NoTurn /\ ~answering.retry => ~nudged /\ (flag => calling # NoText \/ TookRow)
      /\ \A i \in 1 .. Len(inputs) : ~inputs[i].retry => ~nudged /\ ~flag
  BY DEF FirstTry, NewOnes
<1>2. oddities \cap Odd = {} /\ oddities' \cap Odd = {}
  OBVIOUS
<1>3. inputs \in Seq(Input) /\ plan \in Plans
  BY DEF TurnShape, QueueShape
<1>4. ASSUME UNCHANGED <<answering, inputs, nudged, flag, calling, mark>> PROVE FirstTry' /\ NewOnes'
  <2>1. TookRow => TookRow'
    BY <1>4, TookStays
  <2>2. FirstTry'
    BY <1>1, <1>4, <2>1 DEF FirstTry
  <2>3. NewOnes'
    BY <1>1, <1>4 DEF NewOnes
  <2> QED BY <2>2, <2>3
<1>5. UNCHANGED turnVars \/ BootTurns \/ ClearTurns \/ QueryInit \/ HostDenies \/ (\E text \in plan.says : TurnText(text))
      => UNCHANGED <<answering, inputs, nudged, flag, calling, mark>>
  BY DEF turnVars, queueVars, nudgeVars, BootTurns, ClearTurns, QueryInit, HostDenies, TurnText
<1>6. ASSUME inputs' = <<>>, answering' = NoTurn PROVE FirstTry' /\ NewOnes'
  BY <1>6 DEF FirstTry, NewOnes
<1>7. TurnsCrash \/ QueryEnds \/ (\E invalid \in BOOLEAN : QueryFails(invalid)) => inputs' = <<>> /\ answering' = NoTurn
  BY DEF TurnsCrash, QueryEnds, QueryFails, DropQuery
<1>8. ASSUME ~nudged', ~flag' PROVE FirstTry' /\ NewOnes'
  BY <1>8 DEF FirstTry, NewOnes
<1>9. OpenQuery => ~nudged' /\ ~flag'
  BY DEF OpenQuery, AtRest, NoQuery
<1>10. PushFollowUp => ~nudged' /\ ~flag'
  BY DEF PushFollowUp
<1>11. CASE TurnBegins
  <2>1. inputs # <<>> /\ answering' = Head(inputs) /\ inputs' = Tail(inputs) /\ nudged' = nudged /\ flag' = flag
    BY <1>11 DEF TurnBegins, nudgeVars
  <2>2. /\ Len(inputs) \in Nat \ {0} /\ Head(inputs) = inputs[1] /\ Len(Tail(inputs)) = Len(inputs) - 1
        /\ \A k \in 1 .. Len(Tail(inputs)) : Tail(inputs)[k] = inputs[k + 1]
    BY <1>3, <2>1, EmptySeq, HeadTailProperties
  <2>3. 1 \in 1 .. Len(inputs)
    BY <2>2
  <2>4. ~answering'.retry => ~nudged /\ ~flag
    BY <1>1, <2>1, <2>2, <2>3
  <2>5. ASSUME NEW k \in 1 .. Len(inputs') PROVE ~inputs'[k].retry => ~nudged /\ ~flag
    <3>1. k + 1 \in 1 .. Len(inputs) /\ inputs'[k] = inputs[k + 1]
      BY <2>1, <2>2
    <3> QED BY <1>1, <3>1
  <2>6. FirstTry'
    BY <2>1, <2>4 DEF FirstTry
  <2>7. NewOnes'
    BY <2>1, <2>5 DEF NewOnes
  <2> QED BY <2>6, <2>7
<1>12. ASSUME NEW text \in plan.says, ToolBegins(text) PROVE FirstTry' /\ NewOnes'
  <2>1. /\ answering # NoTurn /\ answering' = answering /\ inputs' = inputs /\ nudged' = nudged /\ calling' = text
    BY <1>12 DEF ToolBegins, queueVars
  <2>2. text # NoText
    BY <1>3, <1>12, SaysAre
  <2>3. loop = "query"
    BY <2>1 DEF AtRest, NoQuery
  <2>4. inputs = <<>>
    BY <1>2, <2>1, <2>3 DEF ExchangeInv, OneExchange
  <2>5. FirstTry'
    BY <1>1, <2>1, <2>2 DEF FirstTry
  <2>6. NewOnes'
    BY <2>1, <2>4 DEF NewOnes
  <2> QED BY <2>5, <2>6
<1>13. ASSUME NEW ok \in BOOLEAN, ToolEnds(ok) PROVE FirstTry' /\ NewOnes'
  <2>1. /\ answering' = answering /\ inputs' = inputs /\ nudged' = nudged /\ flag' = flag
        /\ oddities' = IF ok THEN oddities ELSE oddities \cup {"refused"}
    BY <1>13 DEF ToolEnds, queueVars, nudgeVars
  <2>2. ok = TRUE
    BY <2>1
  <2>3. ToolEnds(TRUE)
    BY <1>13, <2>2
  <2>4. TookRow'
    BY <2>3, ToolTook
  <2>5. FirstTry'
    BY <1>1, <2>1, <2>4 DEF FirstTry
  <2>6. NewOnes'
    BY <1>1, <2>1 DEF NewOnes
  <2> QED BY <2>5, <2>6
<1>14. ASSUME NEW r \in Results, TurnResult(r) PROVE FirstTry' /\ NewOnes'
  <2>1. answering' = NoTurn
    BY <1>14 DEF TurnResult
  <2>2. \A i \in 1 .. Len(inputs') : inputs'[i].retry
    BY <1>2, <1>14, AloneTaken
  <2> QED BY <2>1, <2>2 DEF FirstTry, NewOnes
<1>15. CASE ResultRepeated
  <2>1. /\ answering = NoTurn /\ answering' = answering /\ last # NoTurn /\ flag' = flag /\ Taken(last, 0)
        /\ oddities' = IF fresh \/ last.text = NoText THEN oddities \cup {"repeat"} ELSE oddities
    BY <1>15 DEF ResultRepeated
  <2>2. ~fresh /\ last.text # NoText
    BY <2>1
  <2>3. last.text \in seen
    BY <2>1, <2>2 DEF ExchangeInv
  <2>4. inputs' = inputs /\ nudged' = nudged
    BY <2>1, <2>2, <2>3 DEF Taken
  <2>5. FirstTry'
    BY <2>1 DEF FirstTry
  <2>6. NewOnes'
    BY <1>1, <2>1, <2>4 DEF NewOnes
  <2> QED BY <2>5, <2>6
<1> QED
  BY <1>4, <1>5, <1>6, <1>7, <1>8, <1>9, <1>10, <1>11, <1>12, <1>13, <1>14, <1>15 DEF NextTurn

\* A turn that was answered alone, is no retry and is not asked for again was heard.
LEMMA WordsAreHeard ==
  ASSUME TurnShape, AtRest, RowsInv, ExchangeInv, FirstTry, NoHost, NEW r \in Results, TurnResult(r),
         oddities' = {}, r.text # NoText, Visible(r.text) # <<>>, ~plan.task, ~answering.retry, inputs' = inputs
  PROVE  \E i \in 1 .. Len(out') : out'[i].of = turns /\ out'[i].by # "host"
<1>1. oddities' \cap Odd = {}
  OBVIOUS
<1>2. /\ loop = "query" /\ answering \in Input /\ r.text \notin seen /\ r \in ResultRec /\ Taken(r, answering.of)
      /\ answering # NoTurn /\ calling = NoText
  BY <1>1, AloneAnswered DEF TurnResult
<1>3. answering.of \in Nat
  BY <1>2 DEF Input
<1>4. \E rows \in Seq(Row) : \E rewrap, again \in BOOLEAN : Dispatched(r.text, answering.of, rows, rewrap, again)
  BY <1>2, <1>3, TakenIs, TakenShape
<1>5. PICK rows \in Seq(Row), rewrap \in BOOLEAN, again \in BOOLEAN :
        Dispatched(r.text, answering.of, rows, rewrap, again)
  BY <1>4
<1> DEFINE retry == [of |-> answering.of, retry |-> TRUE]
<1>6. /\ Now(rows, ResultDoors) /\ out' = out \o rows /\ (rewrap \/ Delivered(r.text, rows))
      /\ inputs' = IF rewrap \/ again THEN Append(inputs, retry) ELSE inputs
  BY <1>5 DEF Dispatched
<1>7. ~rewrap
  <2>1. retry \in Input /\ inputs \in Seq(Input)
    BY <1>3 DEF Input, TurnShape, QueueShape
  <2> HIDE DEF retry
  <2>2. Len(Append(inputs, retry)) = Len(inputs) + 1 /\ Len(inputs) \in Nat
    BY <2>1, AppendProperties
  <2>3. Append(inputs, retry) # inputs
    BY <2>2
  <2> QED BY <1>6, <2>3
<1>8. rows # <<>> \/ nudged \/ flag \/ TurnDelivered
  BY <1>6, <1>7 DEF Delivered
<1>9. out \in Seq(Row) /\ mark \in 0 .. Len(out) /\ sent \in Nat
  BY DEF TurnShape, RowShape
<1>10. Appends(rows)
  BY <1>6 DEF Appends
<1>11. /\ Len(out) \in Nat /\ Len(rows) \in Nat
       /\ \A i \in 1 .. Len(out) : i \in 1 .. Len(out') /\ out'[i] = out[i]
       /\ \A i \in 1 .. Len(rows) : Len(out) + i \in 1 .. Len(out') /\ out'[Len(out) + i] = rows[i]
  BY <1>9, <1>10, RowsGrow
<1>12. ASSUME NEW j \in mark + 1 .. Len(out), out[j].by # "host"
       PROVE  \E i \in 1 .. Len(out') : out'[i].of = turns /\ out'[i].by # "host"
  <2>1. j \in 1 .. Len(out) /\ j > mark
    BY <1>9, <1>11
  <2>2. out[j].of = turns
    BY <1>2, <2>1 DEF RowsInv
  <2> QED BY <1>11, <1>12, <2>1, <2>2
<1>13. CASE rows # <<>>
  <2>1. 1 \in 1 .. Len(rows)
    <3>1. Len(rows) # 0
      BY <1>13, EmptySeq
    <3> QED BY <1>11, <3>1
  <2>2. rows[1].of = turns /\ rows[1].by \in ResultDoors
    BY <1>6, <2>1 DEF Now
  <2>3. rows[1].by # "host"
    BY <2>2 DEF ResultDoors
  <2> QED BY <1>11, <2>1, <2>2, <2>3
<1>14. ~nudged /\ (flag => TookRow)
  BY <1>2 DEF FirstTry
<1>15. CASE flag
  BY <1>12, <1>14, <1>15 DEF TookRow
<1>16. CASE TurnDelivered
  <2>1. Len(out) > mark
    BY <1>9, <1>16 DEF TurnDelivered, RowsInv
  <2>2. mark + 1 \in mark + 1 .. Len(out)
    BY <1>9, <1>11, <2>1
  <2>3. out[mark + 1].by # "host"
    BY <1>2, <2>2 DEF NoHost
  <2> QED BY <1>12, <2>2, <2>3
<1> QED BY <1>8, <1>13, <1>14, <1>15, <1>16

\* So no words are lost.
LEMMA NudgeStep ==
  ASSUME TurnShape, AtRest, RowsInv, ExchangeInv, NudgeInv, [NextTurn]_turnVars
  PROVE  NudgeInv'
<1>1. (oddities = {} => FirstTry /\ NewOnes /\ NoHost) /\ (lost => oddities # {})
  BY DEF NudgeInv
<1>2. oddities' = {} => oddities = {}
  BY OdditiesGrow
<1>3. ASSUME oddities' = {} PROVE FirstTry' /\ NewOnes' /\ NoHost'
  BY <1>1, <1>2, <1>3, FirstTryStep, NoHostStep
<1>4. ASSUME lost' = lost PROVE lost' => oddities' # {}
  BY <1>1, <1>2, <1>4
<1>5. UNCHANGED turnVars \/ BootTurns \/ TurnsCrash \/ ClearTurns \/ OpenQuery \/ QueryInit \/ QueryEnds
      \/ (\E invalid \in BOOLEAN : QueryFails(invalid)) \/ TurnBegins \/ HostDenies \/ PushFollowUp \/ ResultRepeated
      \/ (\E text \in plan.says : TurnText(text) \/ ToolBegins(text)) \/ (\E ok \in BOOLEAN : ToolEnds(ok))
      => lost' = lost
  BY DEF turnVars, auditVars, BootTurns, TurnsCrash, ClearTurns, OpenQuery, QueryInit, QueryEnds, QueryFails,
         TurnBegins, HostDenies, PushFollowUp, ResultRepeated, TurnText, ToolBegins, ToolEnds
<1>6. ASSUME NEW r \in Results, TurnResult(r), lost', oddities' = {} PROVE FALSE
  <2>1. FirstTry /\ NoHost /\ ~lost
    BY <1>1, <1>2, <1>6
  <2>2. /\ r.text # NoText /\ Visible(r.text) # <<>> /\ ~plan.task /\ ~answering.retry /\ inputs' = inputs
        /\ ~\E i \in 1 .. Len(out') : out'[i].of = turns /\ out'[i].by # "host"
    BY <1>6, <2>1 DEF TurnResult
  <2> QED BY <1>6, <2>1, <2>2, WordsAreHeard
<1>7. lost' => oddities' # {}
  BY <1>4, <1>5, <1>6 DEF NextTurn
<1> QED BY <1>3, <1>7 DEF NudgeInv

-----------------------------------------------------------------------------
(* What holds from the start on.                                           *)

\* The invariant holds at the start ...
LEMMA TurnsStart ==
  ASSUME InitTurn PROVE TurnInv
<1>1. /\ plan \in Plans /\ loop = "down" /\ cont = 0 /\ saved = 0 /\ convs = 0 /\ cleared = 0 /\ asked = 0 /\ turns = 0
      /\ out = <<>> /\ mark = 0 /\ mixed = FALSE /\ lost = FALSE /\ NoQuery
  BY TurnAssumption DEF InitTurn
<1>2. /\ inputs = <<>> /\ prompts = <<>> /\ first = 0 /\ answering = NoTurn
      /\ said = <<>> /\ segment = NoText /\ at = 0 /\ tail = <<>> /\ found = <<>>
      /\ sent = 0 /\ nudged = FALSE /\ taskNudged = FALSE /\ flag = FALSE
      /\ calling = NoText /\ last = NoTurn /\ fresh = FALSE /\ conv = 0 /\ resumed = 0
  BY <1>1 DEF NoQuery
<1>3. <<>> \in Seq(Row) /\ Len(<<>>) = 0
  OBVIOUS
<1>4. TextShape
  BY <1>2, EmptyShape DEF TextShape, NoneOrText
<1>5. RowShape
  BY <1>1, <1>2, <1>3 DEF RowShape
<1>6. QueueShape
  BY <1>2, EmptyShape DEF QueueShape
<1>7. DoneShape /\ FlagShape
  BY <1>2 DEF DoneShape, FlagShape
<1>8. TurnShape
  BY <1>1, <1>4, <1>5, <1>6, <1>7 DEF TurnShape
<1>9. AskedBefore
  BY <1>1, <1>2 DEF AskedBefore
<1>10. AtRest
  BY <1>1, <1>2 DEF AtRest
<1>11. ConvInv
  BY <1>1, <1>2 DEF ConvInv
<1>12. ScanInv
  BY <1>2 DEF ScanInv
<1>13. RowsInv /\ DoorSendsOnce
  BY <1>1, <1>2, <1>3 DEF RowsInv, DoorSendsOnce
<1>14. FoundIsSent
  BY <1>2 DEF FoundIsSent
<1>15. ExchangeInv
  BY <1>1, <1>2 DEF ExchangeInv
<1>16. NudgeInv
  BY <1>1, <1>2 DEF NudgeInv, FirstTry, NewOnes, NoHost
<1> QED BY <1>8, <1>9, <1>10, <1>11, <1>12, <1>13, <1>14, <1>15, <1>16 DEF TurnInv

\* ... and every step keeps it.
LEMMA TurnInvStep ==
  ASSUME TurnInv, [NextTurn]_turnVars PROVE TurnInv'
<1>1. /\ TurnShape /\ AskedBefore /\ AtRest /\ ConvInv /\ ScanInv
      /\ RowsInv /\ FoundIsSent /\ DoorSendsOnce /\ ExchangeInv /\ NudgeInv
  BY DEF TurnInv
<1>2. TurnShape'
  <2>1. asked \in Nat
    BY <1>1 DEF AskedBefore
  <2> QED BY <1>1, <2>1, TurnShapeStep
<1>3. AskedBefore'
  BY <1>1, PromptsStep
<1>4. AtRest'
  BY <1>1, AtRestStep
<1>5. ConvInv'
  BY <1>1, ConvStep
<1>6. ScanInv'
  BY <1>1, ScanInvStep
<1>7. RowsInv'
  BY <1>1, RowsInvStep
<1>8. FoundIsSent'
  BY <1>1, FoundStep
<1>9. DoorSendsOnce'
  BY <1>1, DoorStep
<1>10. ExchangeInv'
  BY <1>1, ExchangeStep
<1>11. NudgeInv'
  BY <1>1, NudgeStep
<1> QED BY <1>2, <1>3, <1>4, <1>5, <1>6, <1>7, <1>8, <1>9, <1>10, <1>11 DEF TurnInv

\* The parts of the invariant hold in every state of the turns.
THEOREM TurnInvariant == TurnSpec => []TurnInv
<1>1. InitTurn => TurnInv
  BY TurnsStart
<1>2. TurnInv /\ [NextTurn]_turnVars => TurnInv'
  BY TurnInvStep
<1> QED BY <1>1, <1>2, PTL DEF TurnSpec

\* What the invariant says of the types.
LEMMA TurnInvTypes == TurnInv => TurnTypeOK
<1> SUFFICES ASSUME TurnInv PROVE TurnTypeOK
  OBVIOUS
<1>1. TurnShape /\ AskedBefore /\ AtRest /\ ConvInv
  BY DEF TurnInv
<1>2. plan \in Plans /\ mark <= Len(out) /\ answering \in Input \cup {NoTurn}
  <2>1. mark \in 0 .. Len(out) /\ out \in Seq(Row)
    BY <1>1 DEF TurnShape, RowShape
  <2>2. Len(out) \in Nat
    BY <2>1
  <2> QED BY <1>1, <2>1, <2>2 DEF TurnShape, QueueShape
<1>3. loop \in {"down", "idle", "query"}
      /\ (loop # "query" => answering = NoTurn /\ inputs = <<>> /\ sent = 0 /\ tail = <<>>)
  BY <1>1 DEF AtRest, NoQuery
<1>4. {cont, saved, conv, resumed} \subseteq 0 .. convs
  BY <1>1 DEF ConvInv
<1>5. answering # NoTurn => answering.of \in 0 .. asked
  <2>1. ASSUME answering # NoTurn PROVE answering.of \in 0 .. asked
    <3>1. answering.of \in Nat
      BY <1>2, <2>1 DEF Input
    <3>2. asked \in Nat /\ answering.of <= asked
      BY <1>1, <2>1 DEF AskedBefore
    <3> QED BY <3>1, <3>2
  <2> QED BY <2>1
<1> QED BY <1>2, <1>3, <1>4, <1>5 DEF TurnTypeOK

\* The turns keep to their types, and between two queries nothing of one is left.
THEOREM TurnTypes == TurnSpec => []TurnTypeOK
<1>1. TurnInv => TurnTypeOK
  BY TurnInvTypes
<1> QED BY <1>1, TurnInvariant, PTL

\* What it says of the scans ...
LEMMA WholeScan ==
  ASSUME TurnInv PROVE ScanIsWhole
<1>1. TurnShape /\ ScanInv
  BY DEF TurnInv
<1>2. said \in Seq(Tokens) /\ tail \in Seq(Tokens) /\ found \in Seq(BlockRec)
  BY <1>1 DEF TurnShape, TextShape
<1> SUFFICES ASSUME answering # NoTurn, plan.midturn, ~plan.task
             PROVE  /\ ~DraftInBlock(said) => found = Sendable(Resolved(said)) /\ tail = Unresolved(said)
                    /\ \A i \in 1 .. Len(found) : StandsIn(found[i].body, Spans(said).kept)
  BY DEF ScanIsWhole
<1>3. PICK pre : Scanned(said, tail, found, pre)
  BY <1>1 DEF ScanInv
<1> QED BY <1>2, <1>3, ScanShows

\* ... and of what is sent.
LEMMA SentOnce ==
  ASSUME TurnInv PROVE SentOnceATurn
<1>1. TurnShape /\ AtRest /\ RowsInv /\ FoundIsSent /\ DoorSendsOnce
  BY DEF TurnInv
<1>2. mark \in 0 .. Len(out) /\ Len(out) \in Nat
  <2>1. out \in Seq(Row) /\ mark \in 0 .. Len(out)
    BY <1>1 DEF TurnShape, RowShape
  <2> QED BY <2>1
<1>3. ASSUME NEW i \in 1 .. Len(found)
      PROVE  \E j \in 1 .. Len(out) : out[j].of = turns /\ out[j].body = found[i].body
  <2>1. found # <<>>
    <3>1. Len(<<>>) = 0
      OBVIOUS
    <3> QED BY <1>3, <3>1
  <2>2. loop = "query"
    BY <1>1, <2>1 DEF AtRest, NoQuery
  <2>3. PICK j \in mark + 1 .. Len(out) : out[j].body = found[i].body
    BY <1>1 DEF FoundIsSent
  <2>4. j \in 1 .. Len(out) /\ j > mark
    BY <1>2
  <2>5. out[j].of = turns
    BY <1>1, <2>2, <2>4 DEF RowsInv
  <2> QED BY <2>3, <2>4, <2>5
<1> QED BY <1>1, <1>3 DEF SentOnceATurn, DoorSendsOnce

\* What the invariant says of a turn.
LEMMA TurnInvIsSafe == TurnInv => TurnSafety
<1> SUFFICES ASSUME TurnInv PROVE TurnSafety
  OBVIOUS
<1>1. ScanIsWhole /\ SentOnceATurn
  BY WholeScan, SentOnce
<1>2. NoWordsLost
  BY DEF TurnInv, NudgeInv, NoWordsLost
<1>3. ExchangesMatch
  BY DEF TurnInv, ExchangeInv, ExchangesMatch, Odd
<1>4. ClearedIsForgotten
  <2>1. ConvInv
    BY DEF TurnInv
  <2> QED BY <2>1 DEF ConvInv, ClearedIsForgotten
<1> QED BY <1>1, <1>2, <1>3, <1>4 DEF TurnSafety

\* However a turn's text is cut, its blocks are found as in the whole and nothing of a
\* draft is sent; the streaming door sends nothing twice in a turn; words that nobody
\* heard are asked for once more; an exchange is recorded for its own prompt; a
\* conversation that /clear ended is never resumed.
THEOREM TurnsAreSafe == TurnSpec => []TurnSafety
<1>1. TurnInv => TurnSafety
  BY TurnInvIsSafe
<1> QED BY <1>1, TurnInvariant, PTL
=============================================================================
