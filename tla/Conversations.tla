--------------------------- MODULE Conversations ---------------------------
(* The sessions of one agent in one conversation with threads: how a message *)
(* finds or makes the session of its thread (src/router.ts,                  *)
(* src/session-manager.ts), and how the sessions come to know of what was    *)
(* said in the others (src/modules/cross-session-context).  Every await of   *)
(* the routing of one message is a point where others move.                  *)
EXTENDS FiniteSets, Naturals, Sequences, Functions

CONSTANTS
  Texts,           \* messages to the agent
  ThreadOf,        \* [Texts -> threads]
  Posts,           \* top-level posts of the agent
  Unborn,          \* no session
  MaxCvFaults

ASSUME ConversationAssumption ==
  /\ Unborn \notin Texts /\ Texts \cap Posts = {} /\ MaxCvFaults \in Nat

VARIABLES
  mode,            \* engage_mode of the wiring
  ignoring,        \* ignored_message_policy of the wiring
  mentions,        \* the messages that mention the agent or match its pattern
  routing,         \* [Texts -> where the routing of the message stands]
  wakes,           \* messages routed with wake = true
  chain,           \* [threads -> queue of sessionCreationLocks]
  born,            \* sessions in the central database, named by their first message
  home,            \* [Texts -> the session resolveSession answered]
  listed,          \* [Texts \cup Posts -> sessions read from the database]
  gathered,        \* [Texts -> rows collected for the backfill, not yet written]
  ownRows,         \* [Texts -> sequence of own rows of that session]
  context,         \* [Texts -> copies (echo or backfill) that session holds]
  posted,          \* [Posts -> where the post stands]
  poster,          \* [Posts -> the session it was written in]
  cvFaults

conversationVars == <<mode, ignoring, mentions, routing, wakes, chain, born, home, listed,
                      gathered, ownRows, context, posted, poster, cvFaults>>

Threads == {ThreadOf[x] : x \in Texts}
Stages == {"never", "new", "engaged", "ambient", "queued", "creating", "gated", "sibling",
           "collect", "seed", "row", "fan", "echo", "done", "dropped", "lost"}
CvTypeOK ==
  /\ mode \in {"sticky", "plain"} /\ ignoring \in {"accumulate", "drop"}
  /\ mentions \subseteq Texts /\ wakes \subseteq Texts /\ born \subseteq Texts
  /\ routing \in [Texts -> Stages]
  /\ chain \in [Threads -> Seq(Texts)] /\ ownRows \in [Texts -> Seq(Texts)]
  /\ home \in [Texts -> Texts \cup {Unborn}]
  /\ listed \in [Texts \cup Posts -> SUBSET born]
  /\ gathered \in [Texts -> SUBSET (Texts \cup Posts)]
  /\ context \in [Texts -> SUBSET (Texts \cup Posts)]
  /\ posted \in [Posts -> {"never", "unsaid", "written", "failed", "sent", "echo", "over"}]
  /\ poster \in [Posts -> Texts \cup {Unborn}]
  /\ cvFaults \in 0 .. MaxCvFaults

InitConversations ==
  /\ mode \in {"sticky", "plain"} /\ ignoring \in {"accumulate", "drop"}
  /\ mentions \in SUBSET Texts
  /\ routing \in [Texts -> {"never", "new"}] /\ wakes = {} /\ born = {}
  /\ chain = [t \in Threads |-> <<>>]
  /\ home = [x \in Texts |-> Unborn] /\ listed = [x \in Texts \cup Posts |-> {}]
  /\ gathered = [x \in Texts |-> {}] /\ ownRows = [s \in Texts |-> <<>>]
  /\ context = [s \in Texts |-> {}]
  /\ posted \in [Posts -> {"never", "unsaid"}] /\ poster = [p \in Posts |-> Unborn]
  /\ cvFaults \in 0 .. MaxCvFaults

(***************************************************************************)
(* Routing a message                                                       *)
(***************************************************************************)
Moves(x, s) == routing' = [routing EXCEPT ![x] = s]

\* findSessionForAgent: the sessions of the message's thread.
SessionsOf(x) == {s \in born : ThreadOf[s] = ThreadOf[x]}

\* evaluateEngage: a mention or a match, or with mention-sticky a session of the thread.
Engaging(x) == x \in mentions \/ (mode = "sticky" /\ SessionsOf(x) # {})

\* The engagement is judged; the access and scope gates may refuse an engaging
\* message, which is then not kept even as context.
EvaluateEngage(x) ==
  /\ routing[x] = "new"
  /\ IF Engaging(x) THEN Moves(x, "engaged") \/ Moves(x, "dropped")
     ELSE Moves(x, IF ignoring = "accumulate" THEN "ambient" ELSE "dropped")
  /\ UNCHANGED <<mode, ignoring, mentions, wakes, chain, born, home, listed, gathered,
                 ownRows, context, posted, poster, cvFaults>>

\* resolveSession: the message takes its place in the creation lock of its thread.
JoinCreation(x) ==
  /\ routing[x] \in {"engaged", "ambient"}
  /\ wakes' = IF routing[x] = "engaged" THEN wakes \cup {x} ELSE wakes
  /\ chain' = [chain EXCEPT ![ThreadOf[x]] = Append(@, x)]
  /\ Moves(x, "queued")
  /\ UNCHANGED <<mode, ignoring, mentions, born, home, listed, gathered, ownRows, context,
                 posted, poster, cvFaults>>

MayResolveBug(x) == x \in Range(chain[ThreadOf[x]])
MayResolve(x) == Head(chain[ThreadOf[x]]) = x
Unlocked(x) == [chain EXCEPT ![ThreadOf[x]] = Tail(@)]

\* The holder of the lock looks for a session of the thread.
FindSession(x) ==
  /\ routing[x] = "queued" /\ MayResolve(x)
  /\ IF SessionsOf(x) = {}
     THEN Moves(x, "creating") /\ UNCHANGED <<home, chain>>
     ELSE /\ \E s \in SessionsOf(x) : home' = [home EXCEPT ![x] = s]
          /\ chain' = Unlocked(x) /\ Moves(x, "gated")
  /\ UNCHANGED <<mode, ignoring, mentions, wakes, born, listed, gathered, ownRows, context,
                 posted, poster, cvFaults>>

\* createSession and the folder; the lock is let go before the backfill.
CreateSession(x) ==
  /\ routing[x] = "creating"
  /\ born' = born \cup {x} /\ home' = [home EXCEPT ![x] = x]
  /\ chain' = Unlocked(x) /\ Moves(x, "gated")
  /\ UNCHANGED <<mode, ignoring, mentions, wakes, listed, gathered, ownRows, context,
                 posted, poster, cvFaults>>

\* The insertion throws: the lock is let go all the same, the message dropped.
CreationFails(x) ==
  /\ routing[x] = "creating" /\ cvFaults < MaxCvFaults /\ cvFaults' = cvFaults + 1
  /\ chain' = Unlocked(x) /\ Moves(x, "dropped")
  /\ UNCHANGED <<mode, ignoring, mentions, wakes, born, home, listed, gathered, ownRows,
                 context, posted, poster>>

Created(x) == home[x] = x

\* gateCommand stops a filtered or denied slash command; a session made for it stays.
PassGate(x) ==
  /\ routing[x] = "gated"
  /\ \/ Moves(x, IF x \in wakes /\ Created(x) THEN "sibling" ELSE "row")
     \/ Moves(x, "dropped")
  /\ UNCHANGED <<mode, ignoring, mentions, wakes, chain, born, home, listed, gathered,
                 ownRows, context, posted, poster, cvFaults>>

\* backfillNewSession reads the list of siblings ...
ListSiblings(x) ==
  /\ routing[x] = "sibling"
  /\ listed' = [listed EXCEPT ![x] = born \ {x}]
  /\ Moves(x, "collect")
  /\ UNCHANGED <<mode, ignoring, mentions, wakes, chain, born, home, gathered, ownRows,
                 context, posted, poster, cvFaults>>

\* collectSiblingTopLevel: the first triggering row of a sibling, and the posts in
\* its messages_out, whether they were delivered or not.
Triggers(s) == {i \in DOMAIN ownRows[s] : ownRows[s][i] \in wakes}
Opener(s) == {ownRows[s][i] : i \in {j \in Triggers(s) : \A k \in Triggers(s) : j <= k}}
PostsOf(s) == {p \in Posts : poster[p] = s}

\* ... and, after the await, collects from their databases in one go.
CollectTopLevel(x) ==
  /\ routing[x] = "collect"
  /\ gathered' = [gathered EXCEPT ![x] = UNION {Opener(s) \cup PostsOf(s) : s \in listed[x]}]
  /\ listed' = [listed EXCEPT ![x] = {}]
  /\ Moves(x, "seed")
  /\ UNCHANGED <<mode, ignoring, mentions, wakes, chain, born, home, ownRows, context,
                 posted, poster, cvFaults>>

\* One backfill row is written, or none is left.
SeedSession(x) ==
  /\ routing[x] = "seed"
  /\ \/ /\ \E r \in gathered[x] :
             /\ context' = [context EXCEPT ![x] = @ \cup {r}]
             /\ gathered' = [gathered EXCEPT ![x] = @ \ {r}]
        /\ UNCHANGED routing
     \/ gathered[x] = {} /\ Moves(x, "row") /\ UNCHANGED <<context, gathered>>
  /\ UNCHANGED <<mode, ignoring, mentions, wakes, chain, born, home, listed, ownRows,
                 posted, poster, cvFaults>>

\* writeSessionMessage: the message's own row; only an engaged one is fanned.
WriteOwnRow(x) ==
  /\ routing[x] = "row"
  /\ ownRows' = [ownRows EXCEPT ![home[x]] = Append(@, x)]
  /\ Moves(x, IF x \in wakes THEN "fan" ELSE "done")
  /\ UNCHANGED <<mode, ignoring, mentions, wakes, chain, born, home, listed, gathered,
                 context, posted, poster, cvFaults>>

\* selectEchoTargets: the other sessions of the conversation.
EchoTargets(s) == born \ {s}

\* fanInboundMessage reads the sessions ...
ListTargets(x) ==
  /\ routing[x] = "fan"
  /\ listed' = [listed EXCEPT ![x] = EchoTargets(home[x])]
  /\ Moves(x, "echo")
  /\ UNCHANGED <<mode, ignoring, mentions, wakes, chain, born, home, gathered, ownRows,
                 context, posted, poster, cvFaults>>

\* ... and writes one echo after another.
EchoText(x) ==
  /\ routing[x] = "echo"
  /\ \/ /\ \E s \in listed[x] :
             /\ context' = [context EXCEPT ![s] = @ \cup {x}]
             /\ listed' = [listed EXCEPT ![x] = @ \ {s}]
        /\ UNCHANGED routing
     \/ listed[x] = {} /\ Moves(x, "done") /\ UNCHANGED <<context, listed>>
  /\ UNCHANGED <<mode, ignoring, mentions, wakes, chain, born, home, gathered, ownRows,
                 posted, poster, cvFaults>>

(***************************************************************************)
(* Top-level posts of the agent                                            *)
(***************************************************************************)
\* A session that was asked writes a post without a thread in its messages_out.
PostTop(p) ==
  /\ posted[p] = "unsaid"
  /\ \E s \in born : Triggers(s) # {} /\ poster' = [poster EXCEPT ![p] = s]
  /\ posted' = [posted EXCEPT ![p] = "written"]
  /\ UNCHANGED <<mode, ignoring, mentions, routing, wakes, chain, born, home, listed,
                 gathered, ownRows, context, cvFaults>>

\* The delivery takes the post, or gives it up.
DeliverPost(p) ==
  /\ posted[p] = "written"
  /\ \E r \in {"sent", "failed"} : posted' = [posted EXCEPT ![p] = r]
  /\ UNCHANGED <<mode, ignoring, mentions, routing, wakes, chain, born, home, listed,
                 gathered, ownRows, context, poster, cvFaults>>

\* fanOutboundMessage: the list, then the echoes.
ListPostTargets(p) ==
  /\ posted[p] = "sent"
  /\ listed' = [listed EXCEPT ![p] = EchoTargets(poster[p])]
  /\ posted' = [posted EXCEPT ![p] = "echo"]
  /\ UNCHANGED <<mode, ignoring, mentions, routing, wakes, chain, born, home, gathered,
                 ownRows, context, poster, cvFaults>>

EchoPost(p) ==
  /\ posted[p] = "echo"
  /\ \/ /\ \E s \in listed[p] :
             /\ context' = [context EXCEPT ![s] = @ \cup {p}]
             /\ listed' = [listed EXCEPT ![p] = @ \ {s}]
        /\ UNCHANGED posted
     \/ listed[p] = {} /\ posted' = [posted EXCEPT ![p] = "over"] /\ UNCHANGED <<context, listed>>
  /\ UNCHANGED <<mode, ignoring, mentions, routing, wakes, chain, born, home, gathered,
                 ownRows, poster, cvFaults>>

\* The host dies: routings, fans and locks live in memory.
ConversationHostDies ==
  /\ cvFaults < MaxCvFaults /\ cvFaults' = cvFaults + 1
  /\ routing' = [x \in Texts |-> IF routing[x] \in {"never", "new", "done", "dropped"} THEN routing[x] ELSE "lost"]
  /\ chain' = [t \in Threads |-> <<>>]
  /\ listed' = [x \in Texts \cup Posts |-> {}] /\ gathered' = [x \in Texts |-> {}]
  /\ posted' = [p \in Posts |-> IF posted[p] \in {"sent", "echo"} THEN "failed" ELSE posted[p]]
  /\ UNCHANGED <<mode, ignoring, mentions, wakes, born, home, ownRows, context, poster>>

Route(x) ==
  \/ EvaluateEngage(x) \/ JoinCreation(x) \/ FindSession(x) \/ CreateSession(x) \/ PassGate(x)
  \/ ListSiblings(x) \/ CollectTopLevel(x) \/ SeedSession(x) \/ WriteOwnRow(x)
  \/ ListTargets(x) \/ EchoText(x)
Voice(p) == PostTop(p) \/ DeliverPost(p) \/ ListPostTargets(p) \/ EchoPost(p)
NextConversations ==
  \/ \E x \in Texts : Route(x) \/ CreationFails(x)
  \/ \E p \in Posts : Voice(p)
  \/ ConversationHostDies
ConversationSpec == InitConversations /\ [][NextConversations]_conversationVars

(***************************************************************************)
(* Properties                                                              *)
(***************************************************************************)
\* However many messages of a new thread arrive at once, it gets one session
\* (withSessionCreationLock; no unique index backs it).
OneSessionPerThread == \A s, t \in born : ThreadOf[s] = ThreadOf[t] => s = t

\* What session t can show its agent: its own rows, echoes and backfill rows.
Knows(t) == Range(ownRows[t]) \cup context[t]

\* Session t was made by an engaged message that is through with its routing.
Grown(t) == t \in born /\ t \in wakes /\ routing[t] = "done"

\* Pushed or pulled, nothing falls between the two: once both routings are over, a
\* session knows the message that opened each of its siblings, whichever was first.
OpenersKnown ==
  \A t \in born : Grown(t) => \A s \in born \ {t} : \A x \in Opener(s) :
    routing[x] = "done" => x \in Knows(t)

\* The same for a top-level post of the agent that was delivered and fanned.
PostsKnown ==
  \A t \in born : Grown(t) => \A p \in Posts :
    posted[p] = "over" /\ poster[p] # t => p \in Knows(t)

\* A message whose routing is over was written exactly once, in a session of its
\* thread, and no session holds a copy of its own message.
WrittenOnce ==
  /\ \A x \in Texts : routing[x] = "done" =>
       {s \in born : x \in Range(ownRows[s])} = {home[x]} /\ ThreadOf[home[x]] = ThreadOf[x]
  /\ \A s \in born : Cardinality(Range(ownRows[s])) = Len(ownRows[s])
                     /\ Range(ownRows[s]) \cap context[s] = {}

\* The lock of a thread's creation is never kept: whoever queues for it gets through
\* its routing, unless the host dies (withSessionCreationLock releases in finally).
Locking(x) == routing[x] = "queued"
Routed(x) == routing[x] \in {"done", "dropped", "lost"}
CreationIsFree == \A x \in Texts : Locking(x) ~> Routed(x)

ConversationSafety == OneSessionPerThread /\ OpenersKnown /\ PostsKnown /\ WrittenOnce
=============================================================================
