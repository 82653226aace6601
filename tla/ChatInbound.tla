----------------------------- MODULE ChatInbound -----------------------------
(* How messages come in from a chat platform (src/channels/chat-sdk-bridge,   *)
(* src/channels/channel-registry, src/state-sqlite, src/webhook-server):      *)
(* adapters start at boot or later, hear by a gateway listener that ends and  *)
(* is started again or by a route of the webhook server, and hand each        *)
(* message to the router once; a reply goes out through the bot that heard.   *)
(* Two bots of one platform share the tables the SDK keeps its marks in.  The *)
(* platform, the SDK that asks those tables, and the router are external.     *)
EXTENDS Naturals, FiniteSets

CONSTANTS
  Bots, NamedBots,     \* registry keys of one platform; the ones with an instance of their own
  Adapters, BotOf,     \* adapter objects: a start of a bot makes one
  Chats, WithFile,     \* messages; those whose file has to be downloaded
  SeenBy,              \* the bots that are in a message's chat
  NoAdapter,
  MaxTrouble           \* bound: crashes, and setups and listeners that fail

ASSUME ChatAssumption ==
  /\ NamedBots \subseteq Bots /\ BotOf \in [Adapters -> Bots] /\ WithFile \subseteq Chats
  /\ SeenBy \in [Chats -> SUBSET Bots]
  /\ \A b, c \in Bots \ NamedBots : b = c  \* the key of the default instance is the platform
  /\ NoAdapter \notin Adapters \cup Bots /\ MaxTrouble \in Nat

VARIABLES
  viaGateway,  \* the platform's adapter listens by itself
  booted,      \* initChannelAdapters has begun (hotStartSetupFn is set)
  adapter,     \* state of each object
  active,      \* activeAdapters
  route,       \* routes of the webhook server
  listener,    \* gateway listener of each object
  marks,       \* chat_sdk_kv: the messages marked as taken, by key
  handling,    \* messages whose handler waits for a download
  context,     \* appContextCache: the bot whose report is kept for a bot's user
  expired,     \* it is older than APP_CONTEXT_TTL_MS
  reports,     \* history: bots that got a report, each at most one
  taken,       \* history: <<bot, message>> a handler of the bot began with
  routed,      \* history: how often the router got a message from a bot
  carried,     \* history: the report a message took along, named by its bot
  stolen,      \* history: a bot dropped a message it had not taken
  chTrouble

chVars == <<viaGateway, booted, adapter, active, route, listener, marks, handling, context,
            expired, reports, taken, routed, carried, stolen, chTrouble>>
hostVars == <<booted, adapter, active, route, listener>>
talkVars == <<handling, taken, routed, carried, stolen>>
viewVars == <<context, expired, reports>>

ChTypeOK ==
  /\ viaGateway \in BOOLEAN /\ booted \in BOOLEAN /\ stolen \in BOOLEAN
  /\ adapter \in [Adapters -> {"new", "setup", "paused", "ready", "up", "gone"}]
  /\ active \in [Bots -> Adapters \cup {NoAdapter}] /\ route \in [Bots -> Adapters \cup {NoAdapter}]
  /\ listener \in [Adapters -> {"off", "running", "waiting", "dead"}]
  /\ marks \subseteq (Bots \cup {NoAdapter}) \X Chats
  /\ handling \subseteq Adapters \X Chats /\ taken \subseteq Bots \X Chats
  /\ context \in [Bots -> Bots \cup {NoAdapter}] /\ expired \subseteq Bots
  /\ reports \subseteq Bots /\ chTrouble \in 0 .. MaxTrouble
  /\ routed \in [Bots -> [Chats -> 0 .. 2]]
  /\ carried \in [Bots -> [Chats -> Bots \cup {NoAdapter}]]

InitChat ==
  /\ viaGateway \in BOOLEAN /\ booted = FALSE /\ stolen = FALSE
  /\ adapter = [a \in Adapters |-> "new"] /\ listener = [a \in Adapters |-> "off"]
  /\ active = [b \in Bots |-> NoAdapter] /\ route = [b \in Bots |-> NoAdapter]
  /\ marks = {} /\ handling = {} /\ taken = {}
  /\ context = [b \in Bots |-> NoAdapter] /\ expired = {} /\ reports = {} /\ chTrouble = MaxTrouble
  /\ routed = [b \in Bots |-> [m \in Chats |-> 0]]
  /\ carried = [b \in Bots |-> [m \in Chats |-> NoAdapter]]

Trouble == chTrouble > 0 /\ chTrouble' = chTrouble - 1

-----------------------------------------------------------------------------
(* Adapters                                                                  *)

\* initChannelAdapters at boot, and startChannelAdapter for one key later:
\* unless an adapter is active under the key, the factory makes one.  The look
\* at the map is before every await, so two starts of a key may overlap.
StartAdapter(a) ==
  /\ adapter[a] = "new" /\ active[BotOf[a]] = NoAdapter
  /\ adapter' = [adapter EXCEPT ![a] = "setup"]
  /\ booted' = TRUE
  /\ UNCHANGED <<viaGateway, active, route, listener, marks, talkVars, viewVars, chTrouble>>

\* bridge.setup: a network error is tried again after a pause, another error
\* ends the start.
SetupFails(a) ==
  /\ adapter[a] = "setup" /\ Trouble
  /\ \E s \in {"paused", "gone"} : adapter' = [adapter EXCEPT ![a] = s]
  /\ UNCHANGED <<viaGateway, booted, active, route, listener, marks, talkVars, viewVars>>
SetupAgain(a) ==
  /\ adapter[a] = "paused" /\ adapter' = [adapter EXCEPT ![a] = "setup"]
  /\ UNCHANGED <<viaGateway, booted, active, route, listener, marks, talkVars, viewVars, chTrouble>>

\* The end of setup: the listener runs, or the route of the instance is this
\* chat's.  It hears from now on, though nothing can be sent through it yet.
Connects(a) ==
  /\ adapter[a] = "setup" /\ adapter' = [adapter EXCEPT ![a] = "ready"]
  /\ IF viaGateway THEN listener' = [listener EXCEPT ![a] = "running"] /\ route' = route
     ELSE route' = [route EXCEPT ![BotOf[a]] = a] /\ listener' = listener
  /\ UNCHANGED <<viaGateway, booted, active, marks, talkVars, viewVars, chTrouble>>

\* activeAdapters.set; an adapter that is there already is overwritten.
Activates(a) ==
  /\ adapter[a] = "ready" /\ adapter' = [adapter EXCEPT ![a] = "up"]
  /\ active' = [active EXCEPT ![BotOf[a]] = a]
  /\ UNCHANGED <<viaGateway, booted, route, listener, marks, talkVars, viewVars, chTrouble>>

\* The gateway listener ends, with an error or after a day; a timer starts it
\* again, unless the adapter was torn down.  One whose start reports no
\* running promise, or is refused, is not started again.
ListenerEnds(a) ==
  /\ listener[a] = "running" /\ Trouble
  /\ listener' = [listener EXCEPT ![a] = "waiting"]
  /\ UNCHANGED <<viaGateway, booted, adapter, active, route, marks, talkVars, viewVars>>
StartGateway(a) ==
  /\ listener[a] = "waiting"
  /\ \/ listener' = [listener EXCEPT ![a] = "running"] /\ UNCHANGED chTrouble
     \/ listener' = [listener EXCEPT ![a] = "dead"] /\ Trouble
  /\ UNCHANGED <<viaGateway, booted, adapter, active, route, marks, talkVars, viewVars>>

\* teardownChannelAdapters, the end of the process, and its next start: what
\* only memory knew is gone, handlers under way are not waited for, the marks
\* stay.
HostRestarts ==
  /\ booted /\ Trouble /\ booted' = FALSE
  /\ adapter' = [a \in Adapters |-> "new"] /\ listener' = [a \in Adapters |-> "off"]
  /\ active' = [b \in Bots |-> NoAdapter] /\ route' = [b \in Bots |-> NoAdapter]
  /\ handling' = {} /\ context' = [b \in Bots |-> NoAdapter] /\ expired' = {}
  /\ UNCHANGED <<viaGateway, marks, reports, taken, routed, carried, stolen>>

-----------------------------------------------------------------------------
(* Messages                                                                  *)

Hears(a) == IF viaGateway THEN listener[a] = "running" ELSE route[BotOf[a]] = a

\* k() of the state adapter: an instance of its own has a namespace, the
\* default one has none.
Key(b, m) == <<IF b \in NamedBots THEN b ELSE NoAdapter, m>>

\* takeAppContext: once, and not an old one.
TakeContext(b) == IF b \in expired THEN NoAdapter ELSE context[b]

\* attachAppContext and onInbound: the router gets the message.
Forwards(b, m) ==
  /\ carried' = [carried EXCEPT ![b][m] = TakeContext(b)]
  /\ context' = [context EXCEPT ![b] = NoAdapter] /\ expired' = expired \ {b}
  /\ routed' = [routed EXCEPT ![b][m] = IF @ < 2 THEN @ + 1 ELSE @]

\* setIfNotExists: whoever sets the mark has the message.
Marked(b, m) == Key(b, m) \in marks

\* The platform tells an adapter of a message, or tells it again.
Arrives(a, m) ==
  LET b == BotOf[a] IN
  /\ Hears(a) /\ b \in SeenBy[m] /\ ~Marked(b, m)
  /\ marks' = marks \cup {Key(b, m)} /\ taken' = taken \cup {<<b, m>>}
  /\ IF m \in WithFile
     THEN handling' = handling \cup {<<a, m>>} /\ UNCHANGED <<routed, carried, context, expired>>
     ELSE Forwards(b, m) /\ UNCHANGED handling
  /\ UNCHANGED <<viaGateway, hostVars, reports, stolen, chTrouble>>
Drops(a, m) ==
  LET b == BotOf[a] IN
  /\ Hears(a) /\ b \in SeenBy[m] /\ Marked(b, m)
  /\ stolen' = (stolen \/ <<b, m>> \notin taken)
  /\ UNCHANGED <<viaGateway, hostVars, marks, handling, taken, routed, carried, viewVars, chTrouble>>

\* messageToInbound has the file, or goes on without it.
Downloaded(a, m) ==
  /\ <<a, m>> \in handling /\ handling' = handling \ {<<a, m>>}
  /\ Forwards(BotOf[a], m)
  /\ UNCHANGED <<viaGateway, hostVars, marks, taken, reports, stolen, chTrouble>>

\* rememberAppContext; a report without entities clears the one kept.
Reports(a) ==
  LET b == BotOf[a] IN
  /\ Hears(a) /\ b \notin reports /\ reports' = reports \cup {b}
  /\ \E c \in {NoAdapter, b} : context' = [context EXCEPT ![b] = c]
  /\ expired' = expired \ {b}
  /\ UNCHANGED <<viaGateway, hostVars, marks, talkVars, chTrouble>>
ContextExpires(b) ==
  /\ context[b] # NoAdapter /\ b \notin expired /\ expired' = expired \cup {b}
  /\ UNCHANGED <<viaGateway, hostVars, marks, talkVars, context, reports, chTrouble>>

\* createChannelDeliveryAdapter: the adapter under the key of the bot that
\* heard, and none in its place; without one the row is tried again.
Through(b) == active[b]

NextChat ==
  \/ \E a \in Adapters :
       \/ StartAdapter(a) \/ SetupFails(a) \/ SetupAgain(a) \/ Connects(a) \/ Activates(a)
       \/ ListenerEnds(a) \/ StartGateway(a) \/ Reports(a)
       \/ \E m \in Chats : Arrives(a, m) \/ Drops(a, m) \/ Downloaded(a, m)
  \/ \E b \in Bots : ContextExpires(b)
  \/ HostRestarts

\* The timer of a listener that ended fires.
FairChat == \A a \in Adapters : WF_chVars(StartGateway(a))
ChatSpec == InitChat /\ [][NextChat]_chVars /\ FairChat

-----------------------------------------------------------------------------
(* What a chat can rely on                                                   *)

\* The router gets a message from a bot once, however many adapters of the
\* bot run, are restarted, or are told of it again.
HeardOnce == \A b \in Bots, m \in Chats : routed[b][m] <= 1

\* No bot loses a message because another bot of the platform took it.
EveryBotHears == ~stolen

\* A reply carries the identity of the bot that heard the message.
OwnVoice == \A b \in Bots : Through(b) # NoAdapter => BotOf[Through(b)] = b

\* What a user was looking at goes with one message, and one of the same bot.
ContextFits ==
  \A b \in Bots, m \in Chats : carried[b][m] # NoAdapter =>
    carried[b][m] = b /\ \A n \in Chats \ {m} : carried[b][n] # b

ChatInSafety == HeardOnce /\ EveryBotHears /\ OwnVoice /\ ContextFits

\* A listener that ended is back, unless it could not be started.
GatewayReturns(a) == listener[a] = "waiting" ~> listener[a] # "waiting"
=============================================================================
