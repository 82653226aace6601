------------------------------ MODULE NclCommands ------------------------------
(* The commands an agent gives with `ncl` inside its container: a row in       *)
(* outbound.db that the drain of its session hands to the dispatcher, an       *)
(* answer in inbound.db that the command polls for, and an approval in between *)
(* for what only an admin may allow.  The guard decides when the command is    *)
(* dispatched, and once more when the approved command is replayed; a row      *)
(* whose handling fails is handled again from its start.                       *)
EXTENDS Naturals, FiniteSets

CONSTANTS
  Calls,             \* runs of the ncl client
  MaxTries,          \* MAX_DELIVERY_ATTEMPTS
  MaxScopes,         \* bound: changes of cli_scope by the operator
  MaxNcFaults        \* bound: host crashes, and inserts that find the file busy

NoReply == "none"
Scopes == {"disabled", "group", "global"}
Copies == 1 .. MaxTries * (MaxNcFaults + 1)

ASSUME NclAssumption ==
  /\ MaxTries \in Nat \ {0} /\ MaxScopes \in Nat /\ MaxNcFaults \in Nat

VARIABLES
  does,              \* what a call does: "read" (open), "edit" or "stop" (approval)
  aim,               \* the group it names: "own", "other" or "blank"
  scope,             \* container_configs.cli_scope of the group
  request,           \* the row of a call: "none", "due", "delivered", "failed"
  tries,             \* deliveryAttempts of that row
  answer,            \* what the row cli-resp-<id> says
  client,            \* the ncl process: "idle", "polling", "answered", "gone"
  heard,             \* what it printed
  dispatches,        \* what is being dispatched: at most one call by the drain,
                     \* and approved cards
  cards,             \* approval cards of a call, by number: none, pending, approved, gone
  filed,             \* the group the command of a card is about, as filled in
  runs,              \* history: how a handler ran: call, card or 0, whose group, scopes meanwhile
  scopeMoves, ncFaults

ncVars == <<does, aim, scope, request, tries, answer, client, heard, dispatches, cards, filed, runs,
            scopeMoves, ncFaults>>

Replies == {NoReply, "done", "pending", "denied", "error"}
Stages  == {"fill", "guard", "ask", "run", "answer", "mark"}

NcTypeOK ==
  /\ does \in [Calls -> {"read", "edit", "stop"}]
  /\ aim \in [Calls -> {"own", "other", "blank"}]
  /\ scope \in Scopes
  /\ request \in [Calls -> {"none", "due", "delivered", "failed"}]
  /\ tries \in [Calls -> 0 .. MaxTries - 1]
  /\ answer \in [Calls -> Replies] /\ heard \in [Calls -> Replies]
  /\ client \in [Calls -> {"idle", "polling", "answered", "gone"}]
  /\ \A d \in dispatches :
       /\ d.call \in Calls /\ d.card \in {0} \cup Copies /\ d.at \in Stages
       /\ d.target \in {"own", "other", "blank"} /\ d.reply \in Replies /\ d.saw \subseteq Scopes
  /\ cards \in [Calls -> [Copies -> {"none", "pending", "approved", "gone"}]]
  /\ filed \in [Calls -> [Copies -> {"own", "other", "blank"}]]
  /\ scopeMoves \in 0 .. MaxScopes /\ ncFaults \in 0 .. MaxNcFaults

InitNcl ==
  /\ does \in [Calls -> {"read", "edit", "stop"}]
  /\ aim \in [Calls -> {"own", "other", "blank"}]
  /\ scope \in {"group", "global"}
  /\ request = [c \in Calls |-> "none"] /\ tries = [c \in Calls |-> 0]
  /\ answer = [c \in Calls |-> NoReply] /\ heard = [c \in Calls |-> NoReply]
  /\ client = [c \in Calls |-> "idle"]
  /\ dispatches = {} /\ cards = [c \in Calls |-> [n \in Copies |-> "none"]]
  /\ filed = [c \in Calls |-> [n \in Copies |-> "blank"]] /\ runs = {}
  /\ scopeMoves = 0 /\ ncFaults = 0

-----------------------------------------------------------------------------
(* The container                                                             *)

Gives(c) ==
  /\ client[c] = "idle" /\ client' = [client EXCEPT ![c] = "polling"]
  /\ request' = [request EXCEPT ![c] = "due"]
  /\ UNCHANGED <<scope, tries, answer, heard, dispatches, cards, filed, runs,
                 scopeMoves, ncFaults>>

PollResponse(c) ==
  /\ client[c] = "polling" /\ answer[c] # NoReply
  /\ client' = [client EXCEPT ![c] = "answered"] /\ heard' = [heard EXCEPT ![c] = answer[c]]
  /\ UNCHANGED <<scope, request, tries, answer, dispatches, cards, filed, runs,
                 scopeMoves, ncFaults>>

\* Thirty seconds have passed, or its container is gone.
TimesOut(c) ==
  /\ client[c] = "polling" /\ client' = [client EXCEPT ![c] = "gone"]
  /\ UNCHANGED <<scope, request, tries, answer, heard, dispatches, cards, filed, runs,
                 scopeMoves, ncFaults>>

-----------------------------------------------------------------------------
(* The dispatcher                                                            *)

ByDrain(d) == d.card = 0
Fresh(c, n) == [call |-> c, card |-> n, at |-> "fill",
                target |-> IF n = 0 THEN aim[c] ELSE filed[c][n],
                reply |-> NoReply, saw |-> {scope}]
MovesTo(d, e) == dispatches' = (dispatches \ {d}) \cup {e}
Host == UNCHANGED <<scope, client, heard, scopeMoves, ncFaults>>

\* The drain of the session takes its rows one at a time.
TakeUp(c) ==
  /\ request[c] = "due" /\ \A d \in dispatches : ~ByDrain(d)
  /\ dispatches' = dispatches \cup {Fresh(c, 0)}
  /\ Host /\ UNCHANGED <<request, tries, answer, cards, filed, runs>>

\* Under the scope of its group a command is about that group.
Fill(d) ==
  /\ d.at = "fill"
  /\ MovesTo(d, [d EXCEPT !.at = "guard",
                          !.target = IF scope = "group" /\ @ = "blank" THEN "own" ELSE @])
  /\ Host /\ UNCHANGED <<request, tries, answer, cards, filed, runs>>

\* commandDecide and guard: what is denied stays denied under a grant; a hold
\* is satisfied by a grant whose row is still there.
Denied(d)   == scope = "disabled" \/ (scope = "group" /\ d.target = "other")
DeniedOnceBug(d) ==  \* mutant: an approved command is not looked at again
  ByDrain(d) /\ (scope = "disabled" \/ (scope = "group" /\ d.target = "other"))
Forbidden(d) == Denied(d)
Held(d) == does[d.call] # "read"
Granted(d) == ~ByDrain(d) /\ cards[d.call][d.card] = "approved"
Guard(d) ==
  /\ d.at = "guard"
  /\ MovesTo(d, IF Forbidden(d) \/ (Held(d) /\ ~ByDrain(d) /\ ~Granted(d))
                THEN [d EXCEPT !.at = "answer", !.reply = "denied"]
                ELSE IF Held(d) /\ ByDrain(d) THEN [d EXCEPT !.at = "ask"]
                ELSE [d EXCEPT !.at = "run"])
  /\ Host /\ UNCHANGED <<request, tries, answer, cards, filed, runs>>

NextCard(c) == CHOOSE n \in Copies : cards[c][n] = "none" /\ \A k \in 1 .. n - 1 : cards[c][k] # "none"
AskAdmin(d) ==
  /\ d.at = "ask" /\ cards' = [cards EXCEPT ![d.call][NextCard(d.call)] = "pending"]
  /\ filed' = [filed EXCEPT ![d.call][NextCard(d.call)] = d.target]
  /\ MovesTo(d, [d EXCEPT !.at = "answer", !.reply = "pending"])
  /\ Host /\ UNCHANGED <<request, tries, answer, runs>>

\* The handler.  An edit without a group to work on is refused; a restart takes
\* the container of its caller down, and with it the clients that wait.
Ran(d) == [call |-> d.call, card |-> d.card, target |-> d.target, saw |-> d.saw,
           time |-> Cardinality({x \in runs : x.call = d.call /\ x.card = d.card})]
Run(d) ==
  /\ d.at = "run" /\ UNCHANGED <<request, tries, answer, cards, filed, scope, heard, scopeMoves, ncFaults>>
  /\ IF d.target = "blank" /\ does[d.call] = "edit"
     THEN MovesTo(d, [d EXCEPT !.at = "answer", !.reply = "error"]) /\ UNCHANGED <<runs, client>>
     ELSE /\ runs' = runs \cup {Ran(d)}
          /\ MovesTo(d, [d EXCEPT !.at = "answer", !.reply = "done"])
          /\ client' = IF does[d.call] = "stop"
                       THEN [c \in Calls |-> IF client[c] = "polling" THEN "gone" ELSE client[c]]
                       ELSE client

\* Bounds: a behaviour has changes of the scope, or failures of the host.
MayMove == scopeMoves < MaxScopes /\ ncFaults = 0
MayFail == ncFaults < MaxNcFaults /\ scopeMoves = 0

\* The drain writes the answer under an id of its own, once; if that throws,
\* the row is tried again from the start, until it is given up.
GiveUp(c) == tries[c] + 1 = MaxTries
AnswerFails(d) ==
  /\ dispatches' = dispatches \ {d}
  /\ tries' = [tries EXCEPT ![d.call] = IF GiveUp(d.call) THEN 0 ELSE @ + 1]
  /\ request' = [request EXCEPT ![d.call] = IF GiveUp(d.call) THEN "failed" ELSE @]
  /\ UNCHANGED answer
Answer(d) ==
  /\ d.at = "answer" /\ ByDrain(d) /\ UNCHANGED <<scope, client, heard, scopeMoves, cards, filed, runs>>
  /\ \/ /\ answer[d.call] = NoReply /\ answer' = [answer EXCEPT ![d.call] = d.reply]
        /\ MovesTo(d, [d EXCEPT !.at = "mark"]) /\ UNCHANGED <<request, tries, ncFaults>>
     \/ answer[d.call] # NoReply /\ AnswerFails(d) /\ UNCHANGED ncFaults
     \/ MayFail /\ ncFaults' = ncFaults + 1 /\ AnswerFails(d)
MarkDelivered(d) ==
  /\ d.at = "mark" /\ dispatches' = dispatches \ {d}
  /\ request' = [request EXCEPT ![d.call] = "delivered"] /\ tries' = [tries EXCEPT ![d.call] = 0]
  /\ Host /\ UNCHANGED <<answer, cards, filed, runs>>

\* The admin decides; the card of an approved command goes once it is replayed.
Decide(c, n, yes) ==
  /\ cards[c][n] = "pending" /\ cards' = [cards EXCEPT ![c][n] = IF yes THEN "approved" ELSE "gone"]
  /\ dispatches' = IF yes THEN dispatches \cup {Fresh(c, n)} ELSE dispatches
  /\ Host /\ UNCHANGED <<request, tries, answer, filed, runs>>
TellResult(d) ==
  /\ d.at = "answer" /\ ~ByDrain(d) /\ dispatches' = dispatches \ {d}
  /\ cards' = [cards EXCEPT ![d.call][d.card] = "gone"]
  /\ Host /\ UNCHANGED <<request, tries, answer, filed, runs>>

SetScope(s) ==
  /\ MayMove /\ scopeMoves' = scopeMoves + 1 /\ s # scope /\ scope' = s
  /\ dispatches' = {[d EXCEPT !.saw = @ \cup {s}] : d \in dispatches}
  /\ UNCHANGED <<request, tries, answer, client, heard, cards, filed, runs, ncFaults>>

HostCrash ==
  /\ MayFail /\ ncFaults' = ncFaults + 1
  /\ dispatches' = {} /\ tries' = [c \in Calls |-> 0]
  /\ UNCHANGED <<scope, request, answer, client, heard, cards, filed, runs, scopeMoves>>

DispatchStep(d) == Fill(d) \/ Guard(d) \/ AskAdmin(d) \/ Run(d) \/ Answer(d) \/ MarkDelivered(d) \/ TellResult(d)
DrainStep ==
  /\ UNCHANGED <<does, aim>>
  /\ (\E c \in Calls : TakeUp(c)) \/ (\E d \in dispatches : DispatchStep(d))

NextNcl ==
  /\ UNCHANGED <<does, aim>>
  /\ \/ \E c \in Calls : Gives(c) \/ PollResponse(c) \/ TimesOut(c)
     \/ DrainStep
     \/ \E c \in Calls, n \in Copies, yes \in BOOLEAN : Decide(c, n, yes)
     \/ \E s \in Scopes : SetScope(s)
     \/ HostCrash

NclSpec == InitNcl /\ [][NextNcl]_ncVars
\* The host goes on with what it has taken up, and takes up what is due.
FairNcl == NclSpec /\ WF_ncVars(DrainStep)

-----------------------------------------------------------------------------
(* Properties                                                                *)

RunsOf(c) == {x \in runs : x.call = c}
CardsOf(c) == {n \in Copies : cards[c][n] # "none"}
Undisturbed == ncFaults = 0

\* What needs an approval runs once for an approved card, and never without.
OncePerApproval ==
  \A x \in runs : does[x.call] # "read" =>
    /\ x.card \in CardsOf(x.call) /\ cards[x.call][x.card] # "pending"
    /\ x.time = 0

\* A command runs under a scope that allows it, at some moment since it was
\* taken up or approved: an approval does not outlive the scope.
RunsWithinScope ==
  \A x \in runs :
    /\ x.saw # {"disabled"}
    /\ x.target = "other" => "global" \in x.saw

\* Unless the host failed in between, a command is asked about or run once, and
\* what the agent reads is what became of it.
AnswersAreTrue ==
  \A c \in Calls :
    /\ heard[c] = "done" => RunsOf(c) # {}
    /\ heard[c] = "pending" => CardsOf(c) # {}
    /\ Undisturbed =>
         /\ Cardinality(CardsOf(c)) <= 1 /\ Cardinality(RunsOf(c)) <= 1
         /\ heard[c] \in {"denied", "error"} => RunsOf(c) = {} /\ CardsOf(c) = {}
         /\ request[c] # "failed"

NclSafety == OncePerApproval /\ RunsWithinScope /\ AnswersAreTrue

\* A command that was given is answered or given up.
CommandSettles == \A c \in Calls : request[c] = "due" ~> request[c] \in {"delivered", "failed"}
=============================================================================
