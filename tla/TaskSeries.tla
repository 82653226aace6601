------------------------------ MODULE TaskSeries ------------------------------
(***************************************************************************)
(* One series of scheduled tasks (src/modules/scheduling, ncl tasks,       *)
(* src/host-sweep.ts).                                                     *)
(*                                                                         *)
(* A series is nothing but its occurrences, rows of one session's          *)
(* messages_in.  The live one is the next run; a finished one that still   *)
(* carries its recurrence is owed a successor, which the sweep inserts.    *)
(* The streak of failures, the pause and the end of the session are all    *)
(* derived from these rows, while commands of ncl rewrite them between any *)
(* two awaits of the sweep and the container works on them unseen.         *)
(***************************************************************************)
EXTENDS Naturals, FiniteSets

CONSTANTS
  MaxOccs,      \* bound: occurrences of the series
  FailCap,      \* SCRIPT_FAIL_PAUSE_CAP
  Orders,       \* bound: commands of ncl, each given once
  MaxTsCrashes  \* bound: crashes of the host

ASSUME SeriesConstants == MaxOccs \in Nat /\ FailCap \in Nat \ {0} /\ MaxTsCrashes \in Nat

Occs == 1 .. MaxOccs  \* in the order of seq
Whats == {"pause", "resume", "cancel", "delete", "run", "recur", "once"}

VARIABLES
  creating,  \* createScheduledTask: "idle", "folder" or "done"
  taskHome,  \* the task session: "none", "bare" (no folder), "active", "closed"
  occ,       \* status of each occurrence's row
  recurs,    \* occurrences whose recurrence is not NULL
  extra,     \* occurrences inserted by `ncl tasks run`
  occAck,    \* processing_ack of the session
  runner,    \* the session's container is up
  sweepAt,   \* where sweepSession is
  snapshot,  \* what getCompletedRecurring returned and the loop has not reached
  order,     \* what each command is doing
  killed,    \* history: the series was cancelled or deleted, and nothing was owed
  doubled,   \* history: two occurrences were given the recurrence
  spins,     \* history: failures since a success or a command that wants a run
  tsCrashes

seriesVars == <<creating, taskHome, occ, recurs, extra, occAck, runner, sweepAt, snapshot,
                order, killed, doubled, spins, tsCrashes>>
hist == <<killed, doubled, spins>>

\* An instance may leave part of the bounds unused: occurrences that start as
\* deleted, and crashes.
InitSeries ==
  /\ creating = "idle"
  /\ taskHome = "none"
  /\ \E room \in Occs : occ = [n \in Occs |-> IF n <= room THEN "none" ELSE "deleted"]
  /\ recurs = {} /\ extra = {}
  /\ occAck = [n \in Occs |-> "none"]
  /\ runner = FALSE
  /\ sweepAt = "idle"
  /\ snapshot = {}
  /\ order = [k \in Orders |-> "idle"]
  /\ killed = FALSE /\ doubled = FALSE /\ spins = 0
  /\ tsCrashes \in 0 .. MaxTsCrashes

Unwritten == {n \in Occs : occ[n] = "none"}
Alive == {n \in Occs : occ[n] \in {"pending", "paused"}}
Finished == {n \in Occs : occ[n] \in {"completed", "failed"}}
Written == Alive \cup Finished \cup {n \in Occs : occ[n] = "cancelled"}
\* The next row: seq grows.
Fresh(n) == n \in Unwritten /\ \A o \in Unwritten : n <= o

-----------------------------------------------------------------------------
(* ncl tasks create. *)

\* resolveTaskSession creates the session's row ...
CreateTaskSession ==
  /\ creating = "idle"
  /\ creating' = "folder"
  /\ taskHome' = "bare"
  /\ UNCHANGED <<occ, recurs, extra, occAck, runner, sweepAt, snapshot, order, hist, tsCrashes>>

\* ... then its folder and the first occurrence, with no call in between that
\* would let the sweep see an empty session.  Templates create theirs paused.
CreateFirst ==
  /\ creating = "folder"
  /\ creating' = "done"
  /\ taskHome' = "active"
  /\ \E st \in {"pending", "paused"} : occ' = [occ EXCEPT ![1] = st]
  /\ recurs' \in {{}, {1}}
  /\ UNCHANGED <<extra, occAck, runner, sweepAt, snapshot, order, hist, tsCrashes>>

-----------------------------------------------------------------------------
(* The container. *)

Claim(n) ==
  /\ runner
  /\ occ[n] = "pending" /\ occAck[n] = "none"
  /\ occAck' = [occAck EXCEPT ![n] = "processing"]
  /\ UNCHANGED <<creating, taskHome, occ, recurs, extra, runner, sweepAt, snapshot, order, hist, tsCrashes>>

\* The turn ends, the script gates it, or the script fails.
FinishRun(n) ==
  /\ runner /\ occAck[n] = "processing"
  /\ \E v \in {"completed", "error"} : occAck' = [occAck EXCEPT ![n] = v]
  /\ UNCHANGED <<creating, taskHome, occ, recurs, extra, runner, sweepAt, snapshot, order, hist, tsCrashes>>

RunnerStops ==
  /\ runner
  /\ runner' = FALSE
  /\ UNCHANGED <<creating, taskHome, occ, recurs, extra, occAck, sweepAt, snapshot, order, hist, tsCrashes>>

-----------------------------------------------------------------------------
(* The sweep. *)

\* Scheduled occurrences that fail in this step, if none succeeds.
Spun(fails, wins) == IF wins # {} THEN 0 ELSE spins + Cardinality(fails \cap recurs)

\* syncProcessingAcks: an ack ends the row whatever a command made of it,
\* unless it has ended already.
SweepSyncsRuns ==
  /\ sweepAt = "idle" /\ taskHome = "active"
  /\ LET open == {n \in Written : n \notin Finished}
         wins == {n \in open : occAck[n] = "completed"}
         fails == {n \in open : occAck[n] = "error"} IN
     /\ occ' = [n \in Occs |-> IF n \in wins THEN "completed" ELSE IF n \in fails THEN "failed" ELSE occ[n]]
     /\ spins' = Spun(fails, wins)
     /\ sweepAt' = IF ~runner /\ \E n \in Occs : occ'[n] = "pending" THEN "wake" ELSE "reset"
  /\ UNCHANGED <<creating, taskHome, recurs, extra, occAck, runner, snapshot, order, killed, doubled, tsCrashes>>

\* wakeContainer succeeds or not; a new container forgets the old claims.
SweepWakesRunner ==
  /\ sweepAt = "wake"
  /\ sweepAt' = "reset"
  /\ \/ UNCHANGED <<runner, occAck>>
     \/ /\ runner' = TRUE
        /\ occAck' = [n \in Occs |-> IF occAck[n] = "processing" THEN "none" ELSE occAck[n]]
  /\ UNCHANGED <<creating, taskHome, occ, recurs, extra, snapshot, order, hist, tsCrashes>>

\* A stuck container is killed; without a container the claims are reset, and
\* a row out of tries fails.  Then the finished rows with a recurrence are
\* read, before the group's time zone is awaited.
SweepResets ==
  /\ sweepAt = "reset"
  /\ \/ runner /\ UNCHANGED <<runner, occ, occAck, spins>>
     \/ /\ runner' = FALSE
        /\ \E spent \in SUBSET {n \in Occs : occ[n] = "pending" /\ occAck[n] = "processing"} :
             /\ occ' = [n \in Occs |-> IF n \in spent THEN "failed" ELSE occ[n]]
             /\ spins' = Spun(spent, {})
        /\ occAck' = [n \in Occs |-> IF occAck[n] = "processing" THEN "none" ELSE occAck[n]]
  /\ snapshot' = {n \in recurs : occ'[n] \in {"completed", "failed"}}
  /\ sweepAt' = "rearm"
  /\ UNCHANGED <<creating, taskHome, recurs, extra, order, killed, doubled, tsCrashes>>

\* trailingFailedRuns: newest first, up to the first success.
Streak == Cardinality({n \in Finished : occ[n] = "failed" /\ \A o \in Finished : o > n => occ[o] = "failed"})

RearmAs == IF Streak >= FailCap THEN "paused" ELSE "pending"
Rearm(n) ==
  /\ sweepAt = "rearm" /\ n \in snapshot
  /\ snapshot' = snapshot \ {n}
  /\ \E new \in Occs :
       /\ Fresh(new)
       /\ occ' = [occ EXCEPT ![new] = RearmAs]
       /\ recurs' = (recurs \ {n}) \cup {new}
  /\ UNCHANGED <<creating, taskHome, extra, occAck, runner, sweepAt, order, hist, tsCrashes>>

SpentBug == ~runner /\ \A n \in Occs : occ[n] # "pending"  \* mutant: paused rows not counted
\* Spent sessions are closed, after the re-arming, on a count of live rows.
SpentSession == ~runner /\ Alive = {}
SweepCollects ==
  /\ sweepAt = "rearm" /\ snapshot = {}
  /\ sweepAt' = IF SpentSession THEN "close" ELSE "idle"
  /\ UNCHANGED <<creating, taskHome, occ, recurs, extra, occAck, runner, snapshot, order, hist, tsCrashes>>

SweepCloses ==
  /\ sweepAt = "close"
  /\ sweepAt' = "idle"
  /\ taskHome' = "closed"
  /\ UNCHANGED <<creating, occ, recurs, extra, occAck, runner, snapshot, order, hist, tsCrashes>>

-----------------------------------------------------------------------------
(* Commands. *)

\* A command finds the session among the active ones, ...
FindSeries(k, what) ==
  /\ order[k] = "idle" /\ taskHome = "active"
  /\ order' = [order EXCEPT ![k] = what]
  /\ UNCHANGED <<creating, taskHome, occ, recurs, extra, occAck, runner, sweepAt, snapshot, hist, tsCrashes>>

Given(k, what) == order[k] = what /\ order' = [order EXCEPT ![k] = "done"]
Restatus(from, to) == occ' = [n \in Occs |-> IF n \in from THEN to ELSE occ[n]]

\* ... and then changes its rows, closed or not.
Pause(k) ==
  /\ Given(k, "pause")
  /\ Restatus({n \in Occs : occ[n] = "pending"}, "paused")
  /\ UNCHANGED <<creating, taskHome, recurs, extra, occAck, runner, sweepAt, snapshot, hist, tsCrashes>>

Resume(k) ==
  /\ Given(k, "resume")
  /\ Restatus({n \in Occs : occ[n] = "paused"}, "pending")
  /\ spins' = 0
  /\ UNCHANGED <<creating, taskHome, recurs, extra, occAck, runner, sweepAt, snapshot, killed, doubled, tsCrashes>>

\* Only live rows: one that has finished and is owed a successor is not
\* touched, so the series goes on.
Cancel(k) ==
  /\ Given(k, "cancel")
  /\ Restatus(Alive, "cancelled")
  /\ recurs' = recurs \ Alive
  /\ killed' = (killed \/ (recurs \cap Alive # {} /\ recurs \cap Finished = {} /\ snapshot = {}))
  /\ UNCHANGED <<creating, taskHome, extra, occAck, runner, sweepAt, snapshot, doubled, spins, tsCrashes>>

\* Every row, but not what the sweep has read.
Delete(k) ==
  /\ Given(k, "delete")
  /\ Restatus(Written, "deleted")
  /\ recurs' = {}
  /\ killed' = (killed \/ snapshot = {})
  /\ spins' = 0
  /\ UNCHANGED <<creating, taskHome, extra, occAck, runner, sweepAt, snapshot, doubled, tsCrashes>>

\* One more occurrence, due now, without a recurrence.
RunNow(k) ==
  /\ Given(k, "run")
  /\ Written # {}
  /\ \E new \in Occs :
       /\ Fresh(new)
       /\ occ' = [occ EXCEPT ![new] = "pending"]
       /\ extra' = extra \cup {new}
  /\ spins' = 0
  /\ UNCHANGED <<creating, taskHome, recurs, occAck, runner, sweepAt, snapshot, killed, doubled, tsCrashes>>

\* updateTask with a recurrence, or with none: every live row of the series.
UpdateRecurrence(k) ==
  \/ /\ Given(k, "recur")
     /\ recurs' = recurs \cup Alive
     /\ doubled' = (doubled \/ (Alive # {} /\ Cardinality(recurs') > 1))
     /\ killed' = (killed /\ Alive = {})
     /\ UNCHANGED <<creating, taskHome, occ, extra, occAck, runner, sweepAt, snapshot, spins, tsCrashes>>
  \/ /\ Given(k, "once")
     /\ recurs' = recurs \ Alive
     /\ UNCHANGED <<creating, taskHome, occ, extra, occAck, runner, sweepAt, snapshot, hist, tsCrashes>>

-----------------------------------------------------------------------------
(* The host crashes: the container ends with it or is adopted.  Between the  *)
(* insert of a successor and the update of its predecessor the crash leaves  *)
(* both with the recurrence.                                                 *)
SeriesCrash ==
  /\ tsCrashes < MaxTsCrashes
  /\ tsCrashes' = tsCrashes + 1
  /\ \/ UNCHANGED <<occ, recurs, doubled>>
     \/ /\ sweepAt = "rearm" /\ snapshot # {}
        /\ \E new \in Occs :
             /\ Fresh(new)
             /\ occ' = [occ EXCEPT ![new] = RearmAs]
             /\ recurs' = recurs \cup {new}
        /\ doubled' = TRUE
  /\ runner' \in {runner, FALSE}
  /\ creating' = IF creating = "folder" THEN "done" ELSE creating
  /\ sweepAt' = "idle"
  /\ snapshot' = {}
  /\ order' = [k \in Orders |-> IF order[k] = "idle" THEN "idle" ELSE "done"]
  /\ UNCHANGED <<taskHome, extra, occAck, killed, spins>>

SeriesSweep ==
  \/ SweepSyncsRuns \/ SweepWakesRunner \/ SweepResets
  \/ (\E n \in Occs : Rearm(n)) \/ SweepCollects \/ SweepCloses
OrderStep(k) ==
  \/ Pause(k) \/ Resume(k) \/ Cancel(k) \/ Delete(k) \/ RunNow(k) \/ UpdateRecurrence(k)

NextSeries ==
  \/ CreateTaskSession \/ CreateFirst
  \/ \E n \in Occs : Claim(n) \/ FinishRun(n)
  \/ RunnerStops
  \/ SeriesSweep
  \/ \E k \in Orders : (\E what \in Whats : FindSeries(k, what)) \/ OrderStep(k)
  \/ SeriesCrash

\* The sweep goes on; tasks are not obliged to run.
FairSeries == WF_seriesVars(SeriesSweep)

SeriesSpec == InitSeries /\ [][NextSeries]_seriesVars /\ FairSeries

-----------------------------------------------------------------------------
(* Properties. *)

\* The values of every variable.
TsTypeOK ==
  /\ creating \in {"idle", "folder", "done"}
  /\ taskHome \in {"none", "bare", "active", "closed"}
  /\ occ \in [Occs -> {"none", "pending", "paused", "completed", "failed", "cancelled", "deleted"}]
  /\ recurs \subseteq Occs /\ extra \subseteq Occs /\ snapshot \subseteq Occs
  /\ occAck \in [Occs -> {"none", "processing", "completed", "error"}]
  /\ runner \in BOOLEAN
  /\ sweepAt \in {"idle", "wake", "reset", "rearm", "close"}
  /\ order \in [Orders -> Whats \cup {"idle", "done"}]
  /\ killed \in BOOLEAN /\ doubled \in BOOLEAN /\ spins \in Nat
  /\ tsCrashes \in 0 .. MaxTsCrashes

Armed == recurs \cap (Alive \cup Finished)

\* A series has one next run, whatever commands, failures and the container do
\* between the sweep's read and its insert.  Two exceptions are in the code:
\* a crash between insertRecurrence and clearRecurrence (recurrence.ts:90-91)
\* and an update of the recurrence while an extra run is live (db.ts:148).
OneNextRun == ~doubled => Cardinality(Armed) <= 1

\* A series that was cancelled while its next run was live, or deleted outside
\* the sweep's window, has no next run again, although the container may be
\* working on the cancelled row and its ack completes it (session-db.ts:181).
StaysDead == killed => Armed = {}

\* A session is closed only when no successor is owed or waiting: a series
\* that recurs, paused ones included, keeps its session (host-sweep.ts:262-278).
NotCollectedEarly == taskHome = "closed" => Armed \subseteq extra

\* A broken series does not spin: scheduled runs that fail in a row are no
\* more than the cap before the series is paused.  A run on demand that
\* succeeded early, though its row is newer, is worth one more
\* (recurrence.ts:68, db.ts:189-203).
FailuresPause == ~doubled => spins <= FailCap + Cardinality(extra)

SeriesSafety == OneNextRun /\ StaysDead /\ NotCollectedEarly /\ FailuresPause

\* A recurring run the container ended is followed by the next, or nobody wants
\* it any more (recurrence.ts:50-91, getCompletedRecurring).
RunOver(n) == n \in recurs /\ occAck[n] \in {"completed", "error"}
Followed(n) == n \notin recurs \/ Unwritten = {}
RunsAreFollowed == \A n \in Occs : RunOver(n) ~> Followed(n)

\* tasks.ts:393-394 says of a run on demand that it "must not be re-armed by
\* handleRecurrence into a phantom series": without a crash a series has one
\* next run.
NoPhantomSeries == tsCrashes = 0 => Cardinality(Armed) <= 1
=============================================================================
