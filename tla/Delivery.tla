------------------------------ MODULE Delivery ------------------------------
(***************************************************************************)
(* The host's outbound side: src/delivery.ts over the per-session          *)
(* outbound.db (rows a container wrote) and the `delivered` table of       *)
(* inbound.db.                                                             *)
(*                                                                         *)
(* Two timer chains, the active poll (about 1s, sessions whose container   *)
(* runs) and the sweep poll (about 60s, every active session), walk        *)
(* sessions and drain each one.  Everything between two awaits of that     *)
(* code is one step here; a host crash may fall between any two steps and  *)
(* loses exactly the in-memory state (attempts, inflight, the pollers).    *)
(*                                                                         *)
(* A row is abstracted to its class:                                       *)
(*   "chat"      goes out through a channel adapter, and is user facing    *)
(*   "internal"  a system action or an agent-to-agent message              *)
(*   "log"       a task_log row: appended to the run log, never sent       *)
(*   "unrouted"  a user-facing row without routing fields: warned about    *)
(*               and dropped                                               *)
(***************************************************************************)
EXTENDS Naturals

CONSTANTS
  Sessions,      \* the sessions of this install
  Rows,          \* the rows containers will ever write to messages_out
  Owner,         \* Owner[r]: the session whose outbound.db holds row r
  Class,         \* Class[r]: the class of row r
  MaxAttempts,   \* MAX_DELIVERY_ATTEMPTS
  MaxCrashes,    \* bound: host crashes in a behaviour
  NoSession      \* what cur[p] holds while poller p is in no session

ASSUME DeliveryAssumption ==
  /\ Owner \in [Rows -> Sessions]
  /\ Class \in [Rows -> {"chat", "internal", "log", "unrouted"}]
  /\ MaxAttempts \in Nat \ {0}
  /\ MaxCrashes \in Nat
  /\ NoSession \notin Sessions

GoesOut(r)    == Class[r] \in {"chat", "internal"}    \* something outside sees it
UserFacing(r) == Class[r] \in {"chat", "unrouted"}    \* hooks and fan run for it

Pollers == {"active", "sweep"}

VARIABLES
  clock,      \* per session, the newest messages_out.timestamp, as a rank
  stamp,      \* messages_out.timestamp of each row, as a rank; 0: not written
  verdict,    \* the `delivered` table: "none", "delivered" or "failed"
  open,       \* sessions with status 'active' in the central DB
  attempts,   \* in memory: deliveryAttempts, 0 standing for no entry
  inflight,   \* in memory: inflightDeliveries
  pc,         \* where each poll chain is suspended
  todo,       \* sessions its loop has still to visit
  cur,        \* the session it is draining
  left,       \* rows of its `undelivered` array not yet settled in this drain
  seen,       \* its local `delivered` set, which decides firstDelivery
  effects,    \* history: how often the outside world took row r
  fans,       \* history: how often row r was fanned into sibling sessions
  flagged,    \* history: rows whose post-delivery hooks saw firstDelivery
  misses,     \* history: failed attempts of r since the last host start
  crashes     \* history: host crashes so far

disk    == <<clock, stamp, verdict, open>>
poller  == <<pc, todo, cur, left, seen>>
history == <<effects, fans, flagged, misses, crashes>>
vars    == <<disk, attempts, inflight, poller, history>>

PCs == {"timer", "loop", "opening", "next", "sending", "taken", "fanning"}

TypeOK ==
  /\ clock \in [Sessions -> Nat]
  /\ stamp \in [Rows -> Nat]
  /\ verdict \in [Rows -> {"none", "delivered", "failed"}]
  /\ open \in SUBSET Sessions
  /\ attempts \in [Rows -> 0 .. MaxAttempts - 1]
  /\ inflight \in SUBSET Sessions
  /\ pc \in [Pollers -> PCs]
  /\ todo \in [Pollers -> SUBSET Sessions]
  /\ cur \in [Pollers -> Sessions \cup {NoSession}]
  /\ left \in [Pollers -> SUBSET Rows]
  /\ seen \in [Pollers -> SUBSET Rows]
  /\ effects \in [Rows -> Nat]
  /\ fans \in [Rows -> Nat]
  /\ flagged \in SUBSET Rows
  /\ misses \in [Rows -> Nat]
  /\ crashes \in 0 .. MaxCrashes

\* Every poll chain between two ticks.
Everywhere(v) == [p \in Pollers |-> v]

Init ==
  /\ clock = [s \in Sessions |-> 0]
  /\ stamp = [r \in Rows |-> 0]
  /\ verdict = [r \in Rows |-> "none"]
  /\ open = Sessions
  /\ attempts = [r \in Rows |-> 0]
  /\ inflight = {}
  /\ pc = Everywhere("timer")
  /\ todo = Everywhere({})
  /\ cur = Everywhere(NoSession)
  /\ left = Everywhere({})
  /\ seen = Everywhere({})
  /\ effects = [r \in Rows |-> 0]
  /\ fans = [r \in Rows |-> 0]
  /\ flagged = {}
  /\ misses = [r \in Rows |-> 0]
  /\ crashes = 0

-----------------------------------------------------------------------------
(* The surroundings: containers, the session registry.                     *)

\* A container inserts row r, newer than every row its outbound.db holds.
Write(r) ==
  /\ stamp[r] = 0
  /\ Owner[r] \in open
  /\ clock' = [clock EXCEPT ![Owner[r]] = @ + 1]
  /\ stamp' = [stamp EXCEPT ![r] = clock'[Owner[r]]]
  /\ UNCHANGED <<verdict, open, attempts, inflight, poller, history>>

\* The host sweep closes a spent session; neither poll looks at it again.
Close(s) ==
  /\ s \in open
  /\ open' = open \ {s}
  /\ UNCHANGED <<clock, stamp, verdict, attempts, inflight, poller, history>>

-----------------------------------------------------------------------------
(* The poll chains.                                                        *)

\* getRunningSessions may return any open session, getActiveSessions all.
ListedBug(p, S) == TRUE    \* mutant: the sweep poll too lists running sessions only
Listed(p, S)    == p = "sweep" => S = open

\* The timer fires and the chain lists its sessions: the active poll those
\* with a running container, whichever they are, the sweep poll all open ones.
Tick(p) ==
  /\ pc[p] = "timer"
  /\ \E S \in SUBSET open :
       /\ Listed(p, S)
       /\ todo' = [todo EXCEPT ![p] = S]
  /\ pc' = [pc EXCEPT ![p] = "loop"]
  /\ UNCHANGED <<disk, attempts, inflight, cur, left, seen, history>>

Rearm(p) ==
  /\ pc[p] = "loop"
  /\ todo[p] = {}
  /\ pc' = [pc EXCEPT ![p] = "timer"]
  /\ UNCHANGED <<disk, attempts, inflight, todo, cur, left, seen, history>>

\* The re-entry guard of deliverSessionMessages.
FreeBug(s) == TRUE         \* mutant: the guard is dropped
Free(s)    == s \notin inflight

\* deliverSessionMessages: take the session, unless a drain holds it already.
Enter(p, s) ==
  /\ pc[p] = "loop"
  /\ s \in todo[p]
  /\ Free(s)
  /\ inflight' = inflight \cup {s}
  /\ cur' = [cur EXCEPT ![p] = s]
  /\ todo' = [todo EXCEPT ![p] = @ \ {s}]
  /\ pc' = [pc EXCEPT ![p] = "opening"]
  /\ UNCHANGED <<disk, attempts, left, seen, history>>

Skip(p, s) ==
  /\ pc[p] = "loop"
  /\ s \in todo[p]
  /\ ~Free(s)
  /\ todo' = [todo EXCEPT ![p] = @ \ {s}]
  /\ UNCHANGED <<disk, attempts, inflight, pc, cur, left, seen, history>>

\* What drainSession reads: the due rows, less those with an outcome.
Written(s)        == {r \in Rows : Owner[r] = s /\ stamp[r] > 0}
UndeliveredBug(s) == Written(s)   \* mutant: the `delivered` table is not consulted
Undelivered(s)    == {r \in Written(s) : verdict[r] = "none"}
DeliveredIdsBug(s) == {}          \* mutant: firstDelivery is judged per drain
DeliveredIds(s)    == {r \in Written(s) : verdict[r] # "none"}

\* Both reads of drainSession fall between the same two awaits.
OpenDbs(p) ==
  /\ pc[p] = "opening"
  /\ left' = [left EXCEPT ![p] = Undelivered(cur[p])]
  /\ seen' = [seen EXCEPT ![p] = DeliveredIds(cur[p])]
  /\ pc' = [pc EXCEPT ![p] = "next"]
  /\ UNCHANGED <<disk, attempts, inflight, todo, cur, history>>

\* ORDER BY timestamp: the row the for loop is at.
IsHeadBug(r, S) == r \in S        \* mutant: the rows come in any order
IsHead(r, S) == r \in S /\ \A q \in S : stamp[r] <= stamp[q]

\* deliverMessage up to its first outside call.
Begin(p) ==
  /\ pc[p] = "next"
  /\ left[p] # {}
  /\ pc' = [pc EXCEPT ![p] = "sending"]
  /\ UNCHANGED <<disk, attempts, inflight, todo, cur, left, seen, history>>

\* The adapter, the action handler or the agent route took the row; its
\* promise has not resolved yet.
Taken(p) ==
  /\ pc[p] = "sending"
  /\ \E r \in left[p] :
       /\ IsHead(r, left[p])
       /\ GoesOut(r)
       /\ effects' = [effects EXCEPT ![r] = @ + 1]
  /\ pc' = [pc EXCEPT ![p] = "taken"]
  /\ UNCHANGED <<disk, attempts, inflight, todo, cur, left, seen,
                 fans, flagged, misses, crashes>>

\* A log or unrouted row needs no outside call.
PassSilently(p) ==
  /\ pc[p] = "sending"
  /\ \E r \in left[p] : IsHead(r, left[p]) /\ ~GoesOut(r)
  /\ pc' = [pc EXCEPT ![p] = "taken"]
  /\ UNCHANGED <<disk, attempts, inflight, todo, cur, left, seen, history>>

\* INSERT OR IGNORE INTO delivered.
Record(r, v) == IF verdict[r] = "none" THEN [verdict EXCEPT ![r] = v] ELSE verdict

\* deliverMessage returned: mark, count towards firstDelivery, forget the
\* attempts, and go on to the fan for a row that is neither system nor agent.
MarkDelivered(p) ==
  /\ pc[p] = "taken"
  /\ \E r \in left[p] :
       /\ IsHead(r, left[p])
       /\ verdict' = Record(r, "delivered")
       /\ seen' = [seen EXCEPT ![p] = @ \cup {r}]
       /\ attempts' = [attempts EXCEPT ![r] = 0]
       /\ IF UserFacing(r)
          THEN /\ flagged' = IF seen[p] = {} THEN flagged \cup {r} ELSE flagged
               /\ pc' = [pc EXCEPT ![p] = "fanning"]
               /\ UNCHANGED left
          ELSE /\ left' = [left EXCEPT ![p] = @ \ {r}]
               /\ pc' = [pc EXCEPT ![p] = "next"]
               /\ UNCHANGED flagged
  /\ UNCHANGED <<clock, stamp, open, inflight, todo, cur, effects, fans, misses, crashes>>

\* fanOutboundMessage and the post-delivery hooks, neither of which throws.
Fan(p) ==
  /\ pc[p] = "fanning"
  /\ \E r \in left[p] :
       /\ IsHead(r, left[p])
       /\ fans' = [fans EXCEPT ![r] = IF Class[r] = "chat" THEN @ + 1 ELSE @]
       /\ left' = [left EXCEPT ![p] = @ \ {r}]
  /\ pc' = [pc EXCEPT ![p] = "next"]
  /\ UNCHANGED <<disk, attempts, inflight, todo, cur, seen,
                 effects, flagged, misses, crashes>>

\* The n-th failure of this life is the last.
LastAttemptBug(n) == n > MaxAttempts     \* mutant: one attempt too many
LastAttempt(n)    == n >= MaxAttempts

\* deliverMessage or markDelivered threw: before the outside world took the
\* row (content that does not parse, a missing or detached destination, a
\* refused call) or after (an answer lost on the way back, a locked database).
\* Count, and give up at the limit; the loop goes on.
Throw(p) ==
  /\ pc[p] \in {"sending", "taken"}
  /\ \E r \in left[p] :
       /\ IsHead(r, left[p])
       /\ misses' = [misses EXCEPT ![r] = @ + 1]
       /\ IF LastAttempt(attempts[r] + 1)
          THEN /\ verdict' = Record(r, "failed")
               /\ attempts' = [attempts EXCEPT ![r] = 0]
          ELSE /\ attempts' = [attempts EXCEPT ![r] = @ + 1]
               /\ UNCHANGED verdict
       /\ left' = [left EXCEPT ![p] = @ \ {r}]
  /\ pc' = [pc EXCEPT ![p] = "next"]
  /\ UNCHANGED <<clock, stamp, open, inflight, todo, cur, seen,
                 effects, fans, flagged, crashes>>

\* The finally of deliverSessionMessages.
ReleasedBug(s) == inflight               \* mutant: the session stays taken
Released(s)    == inflight \ {s}

\* The end of the for loop, and the finally of deliverSessionMessages.
Leave(p) ==
  /\ pc[p] = "next"
  /\ left[p] = {}
  /\ inflight' = Released(cur[p])
  /\ cur' = [cur EXCEPT ![p] = NoSession]
  /\ seen' = [seen EXCEPT ![p] = {}]
  /\ pc' = [pc EXCEPT ![p] = "loop"]
  /\ UNCHANGED <<disk, attempts, todo, left, history>>

\* The host process dies and starts again: only the databases survive.
Crash ==
  /\ crashes < MaxCrashes
  /\ crashes' = crashes + 1
  /\ attempts' = [r \in Rows |-> 0]
  /\ misses' = [r \in Rows |-> 0]
  /\ inflight' = {}
  /\ pc' = Everywhere("timer")
  /\ todo' = Everywhere({})
  /\ cur' = Everywhere(NoSession)
  /\ left' = Everywhere({})
  /\ seen' = Everywhere({})
  /\ UNCHANGED <<disk, effects, fans, flagged>>

-----------------------------------------------------------------------------
Poll(p) ==
  \/ Tick(p) \/ Rearm(p)
  \/ \E s \in Sessions : Enter(p, s) \/ Skip(p, s)
  \/ OpenDbs(p) \/ Begin(p) \/ Taken(p) \/ PassSilently(p)
  \/ MarkDelivered(p) \/ Fan(p) \/ Throw(p) \/ Leave(p)

Next ==
  \/ \E r \in Rows : Write(r)
  \/ \E s \in Sessions : Close(s)
  \/ \E p \in Pollers : Poll(p)
  \/ Crash

Spec == Init /\ [][Next]_vars

\* Every step of a chain is an async function's next segment: the event loop
\* takes it once the awaited promise settled.  Adapter calls and handlers are
\* assumed to settle in the sweep poll (delivery.ts puts no timeout on them);
\* the active poll may hang in one for ever.  Nothing obliges a container to
\* write, a session to close or the host to crash.
FairSpec == Spec /\ WF_vars(Poll("sweep"))

-----------------------------------------------------------------------------
(* Safety.                                                                 *)

\* The two poll chains are never in one session's drain together: what the
\* inflightDeliveries guard of deliverSessionMessages is for.
OneDrainPerSession ==
  \A p, q \in Pollers : p # q /\ cur[p] # NoSession => cur[p] # cur[q]

\* While no crash happened, a row reaches the outside world at most once more
\* than its delivery attempts failed: the polls never send it twice by racing.
NoDuplicateWithoutFault ==
  crashes = 0 => \A r \in Rows : effects[r] <= misses[r] + 1

\* Within one life of the host a row fails at most MaxAttempts times, and is
\* given up as failed at exactly that many, whatever happened in between.
GivesUpAtTheLimit ==
  \A r \in Rows :
    /\ misses[r] <= MaxAttempts
    /\ misses[r] = MaxAttempts => verdict[r] = "failed"

\* A message is fanned into sibling sessions at most once, crashes and
\* retries included, and only after it was recorded as delivered: the fan
\* "runs after markDelivered so a delivery retry never double-fans".
FannedAtMostOnce ==
  \A r \in Rows : fans[r] <= 1 /\ (fans[r] = 1 => verdict[r] = "delivered")

\* No two rows of a session are announced as its first delivery, however the
\* drains interleave with failures and crashes.
FirstDeliveryOnce ==
  \A r, q \in flagged : Owner[r] = Owner[q] => r = q

\* A row overtakes an older one of its session only when the older one has
\* just failed and waits for its retry.
InOrder ==
  [][\A r, q \in Rows :
       /\ effects'[r] # effects[r]
       /\ Owner[q] = Owner[r] /\ stamp[q] \in 1 .. stamp[r] - 1
       => verdict[q] # "none" \/ attempts[q] > 0]_vars

\* What the delivery module promises a row, as a specification of its own.
Promise == INSTANCE OutboundPromise
  WITH Rows <- Rows, NeedsEffect <- {r \in Rows : GoesOut(r)},
       written <- {r \in Rows : stamp[r] > 0}

\* Delivery keeps the promise: nothing goes out before it is written or after
\* its outcome is recorded, and nothing is recorded delivered that did not go.
KeepsPromise == Promise!Spec

-----------------------------------------------------------------------------
(* The inductive invariant behind the safety properties.                   *)

\* A chain that is in a session holds it, and only its own.
SessionsHeld ==
  /\ \A p \in Pollers :
       /\ cur[p] = NoSession <=> pc[p] \in {"timer", "loop"}
       /\ cur[p] # NoSession => cur[p] \in inflight
  /\ OneDrainPerSession

\* Stamps order the written rows of a session.
StampsOrder ==
  /\ \A r \in Rows : stamp[r] <= clock[Owner[r]]
  /\ \A r, q \in Rows :
       Owner[r] = Owner[q] /\ stamp[r] = stamp[q] /\ stamp[r] > 0 => r = q

\* What a drain has left are unsettled rows of its session, but for the one
\* row just delivered and about to be fanned.
Remaining(p, r) ==
  /\ Owner[r] = cur[p] /\ stamp[r] > 0
  /\ IF pc[p] = "fanning" /\ IsHead(r, left[p])
     THEN verdict[r] = "delivered" /\ fans[r] = 0
     ELSE verdict[r] = "none"

LeftUnsettled ==
  \A p \in Pollers :
    /\ pc[p] \in {"timer", "loop", "opening"} => left[p] = {}
    /\ \A r \in left[p] : Remaining(p, r)

\* Row r has been taken by the outside world in p's drain, which does not know
\* the answer yet.
InHand(p, r) == pc[p] = "taken" /\ r \in left[p] /\ IsHead(r, left[p])

\* Every effect of a row is one of a failed attempt, or of its delivery, or of
\* an attempt under way.
EffectsExplained ==
  /\ \A p \in Pollers, r \in Rows : InHand(p, r) /\ GoesOut(r) => effects[r] > 0
  /\ crashes = 0 =>
       \A r \in Rows :
         /\ effects[r] <= misses[r] + 1
         /\ verdict[r] = "none" /\ effects[r] > misses[r] => \E p \in Pollers : InHand(p, r)

\* A row without an outcome failed as often as its counter says; a delivered
\* one failed less often than the limit.
MissesCounted ==
  \A r \in Rows :
    /\ verdict[r] = "none" => misses[r] = attempts[r]
    /\ verdict[r] = "delivered" => misses[r] < MaxAttempts
    /\ misses[r] <= MaxAttempts

\* A drain knows the rows of its session announced before.
AnnouncedSeen ==
  /\ \A r \in flagged : verdict[r] # "none" /\ stamp[r] > 0
  /\ \A p \in Pollers :
       pc[p] \notin {"timer", "loop", "opening"} =>
         \A r \in flagged : Owner[r] = cur[p] => r \in seen[p]
  /\ FirstDeliveryOnce

\* An unsettled row its session's drain is not going to visit any more has just
\* failed, or came too late for this drain.
PassedOver ==
  \A p \in Pollers :
    pc[p] \notin {"timer", "loop", "opening"} =>
      \A q \in Written(cur[p]) \ left[p] :
        verdict[q] = "none" => attempts[q] > 0 \/ \A r \in left[p] : stamp[r] < stamp[q]

IInv ==
  /\ TypeOK
  /\ SessionsHeld
  /\ StampsOrder
  /\ LeftUnsettled
  /\ EffectsExplained
  /\ MissesCounted
  /\ FannedAtMostOnce
  /\ AnnouncedSeen
  /\ PassedOver

-----------------------------------------------------------------------------
(* Liveness.                                                               *)

\* If the active poll's calls settle too, a row of a session that stays open
\* is eventually delivered or given up.
EventuallySettled ==
  WF_vars(Poll("active")) =>
    \A r \in Rows : stamp[r] > 0 ~> verdict[r] # "none" \/ Owner[r] \notin open

\* With an active poll hung in one session, every row of every other session
\* is still settled by the sweep poll alone.
HungPollIsolated ==
  \A r \in Rows :
    ~ <>[](stamp[r] > 0 /\ verdict[r] = "none" /\ Owner[r] \in open
           /\ cur["active"] # Owner[r])
=============================================================================
