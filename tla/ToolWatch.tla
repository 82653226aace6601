------------------------------ MODULE ToolWatch ------------------------------
(* When the host takes a running container for stuck (src/host-sweep.ts:      *)
(* decideStuckAction; container: src/providers/claude.ts, its tool hooks;     *)
(* src/db/connection.ts: heartbeat, container_state, processing acks).  The   *)
(* container touches a file at every event of the agent, and one row names    *)
(* the tool in flight, with the timeout a Bash call declares; an agent may    *)
(* run tools at once.  Time is counted in units of CLAIM_STUCK_MS.            *)
EXTENDS Naturals, FiniteSets, FiniteSetsExt

CONSTANTS
  Tools,            \* calls an agent makes in one life of a container
  Declares,         \* timeout a Bash call declares, 0 for any other call
  Ceiling,          \* ABSOLUTE_CEILING_MS
  NoTool,
  LastMoment        \* bound on time

ASSUME WatchAssumption ==
  /\ Declares \in [Tools -> Nat] /\ NoTool \notin Tools
  /\ Ceiling \in Nat /\ Ceiling > 1 /\ LastMoment \in Nat \ {0}

VARIABLES
  now,
  box,         \* "down", "booting" or "up"
  bornAt,      \* containerStartedAtMs
  beat,        \* mtime of the heartbeat file, 0 if there is none
  claimedAt,   \* status_changed of the one claim, 0 if there is none
  inFlight,    \* container_state: the tool it names, NoTool if none
  running,     \* tools that run
  since,       \* when each began
  undisturbed, \* history: tools during which no other began or ended
  wronged,     \* history: killed inside the time its undisturbed Bash declared
  hasty        \* history: killed though it showed life inside the ceiling and since its claim

twVars == <<now, box, bornAt, beat, claimedAt, inFlight, running, since, undisturbed,
            wronged, hasty>>
history == <<wronged, hasty>>

TwTypeOK ==
  /\ now \in 1 .. LastMoment /\ box \in {"down", "booting", "up"}
  /\ {bornAt, beat, claimedAt} \subseteq 0 .. LastMoment
  /\ inFlight \in Tools \cup {NoTool} /\ running \subseteq Tools /\ undisturbed \subseteq running
  /\ since \in [Tools -> 0 .. LastMoment] /\ wronged \in BOOLEAN /\ hasty \in BOOLEAN

InitWatch ==
  /\ now = 1 /\ box = "down" /\ bornAt = 0 /\ beat = 0 /\ claimedAt = 0
  /\ inFlight = NoTool /\ running = {} /\ since = [t \in Tools |-> 0] /\ undisturbed = {}
  /\ wronged = FALSE /\ hasty = FALSE

Tick ==
  /\ now < LastMoment /\ now' = now + 1
  /\ UNCHANGED <<box, bornAt, beat, claimedAt, inFlight, running, since, undisturbed,
                 history>>

\* A start removes the heartbeat of the container before; its claim and the row
\* about its tool stay in outbound.db.
SpawnBox ==
  /\ box = "down" /\ box' = "booting" /\ bornAt' = now /\ beat' = 0
  /\ UNCHANGED <<now, claimedAt, inFlight, running, since, undisturbed, history>>

\* clearStaleProcessingAcks.
Boots ==
  /\ box = "booting" /\ box' = "up" /\ claimedAt' = 0
  /\ UNCHANGED <<now, bornAt, beat, inFlight, running, since, undisturbed, history>>

ClaimsBatch ==
  /\ box = "up" /\ claimedAt = 0 /\ claimedAt' = now
  /\ UNCHANGED <<now, box, bornAt, beat, inFlight, running, since, undisturbed, history>>

\* touchHeartbeat, at an event of the agent.
Beats == beat' = now
Event ==
  /\ box = "up" /\ claimedAt # 0 /\ Beats
  /\ UNCHANGED <<now, box, bornAt, claimedAt, inFlight, running, since, undisturbed, history>>
\* The result of a turn: the claim is acked.
TurnDone ==
  /\ box = "up" /\ claimedAt # 0 /\ running = {} /\ claimedAt' = 0 /\ Beats
  /\ UNCHANGED <<now, box, bornAt, inFlight, running, since, undisturbed, history>>

\* The one row about a tool in flight.
SetInFlight(t) == inFlight' = t
ClearInFlight == inFlight' = NoTool

\* preToolUseHook and setContainerToolInFlight, after the event with the call.
ToolStarts(t) ==
  /\ box = "up" /\ claimedAt # 0 /\ since[t] = 0
  /\ running' = running \cup {t} /\ since' = [since EXCEPT ![t] = now]
  /\ SetInFlight(t) /\ Beats
  /\ undisturbed' = IF running = {} THEN {t} ELSE {}
  /\ UNCHANGED <<now, box, bornAt, claimedAt, history>>

\* postToolUseHook: the row is cleared, whichever tool it names.
ToolEnds(t) ==
  /\ box = "up" /\ t \in running /\ running' = running \ {t}
  /\ ClearInFlight /\ Beats /\ undisturbed' = {}
  /\ UNCHANGED <<now, box, bornAt, claimedAt, since, history>>

-----------------------------------------------------------------------------
(* The sweep                                                                 *)

\* bashTimeoutMs of the row.
Declared == IF inFlight = NoTool THEN 0 ELSE Declares[inFlight]
AtLeast(n) == IF Declared > n THEN Declared ELSE n

\* Without a file the start of the container counts.
KillCeiling == now - (IF beat # 0 THEN beat ELSE bornAt) > AtLeast(Ceiling)
KillClaim == claimedAt # 0 /\ now - claimedAt > AtLeast(1) /\ ~(beat > claimedAt)

\* The last sign of life, the start included.
SilentFrom == Max({bornAt, beat})

Kill ==
  /\ box' = "down" /\ running' = {} /\ undisturbed' = {}
  /\ wronged' = (wronged \/ \E t \in undisturbed :
                   Declares[t] > 0 /\ now - since[t] <= Declares[t])
  /\ hasty' = (hasty \/ /\ box = "up" /\ now - SilentFrom <= Ceiling
                        /\ claimedAt # 0 => SilentFrom > claimedAt \/ now - claimedAt <= 1)
  /\ UNCHANGED <<now, bornAt, beat, claimedAt, inFlight, since>>

\* enforceRunningContainerSla.  The sweep that woke a container leaves it
\* alone; a container that another part of the host woke may still be booting.
SweepKills ==
  /\ box # "down" /\ (KillCeiling \/ KillClaim) /\ Kill

Exits ==
  /\ box = "up" /\ box' = "down" /\ running' = {} /\ undisturbed' = {}
  /\ UNCHANGED <<now, bornAt, beat, claimedAt, inFlight, since, history>>

NextWatch ==
  \/ Tick \/ SpawnBox \/ Boots \/ ClaimsBatch \/ Event \/ TurnDone \/ SweepKills \/ Exits
  \/ \E t \in Tools : ToolStarts(t) \/ ToolEnds(t)
FairWatch == WF_twVars(SweepKills) /\ WF_twVars(Tick)
WatchSpec == InitWatch /\ [][NextWatch]_twVars /\ FairWatch

-----------------------------------------------------------------------------
(* What a long tool and a silent container can expect                        *)

\* A container is not killed while a Bash call that nothing else ran beside is
\* inside the time it declared.
BashSpared == ~wronged

\* Nor is a container killed that booted and showed life lately, and since it
\* claimed what it works on.
LifeIsSeen == ~hasty

WatchSafety == BashSpared /\ LifeIsSeen

\* One that stays silent past every allowance does not stay up.
Overdue == box # "down" /\ now - SilentFrom > Ceiling + Max({Declares[t] : t \in Tools})
SilenceEnds == Overdue ~> ~Overdue
=============================================================================
