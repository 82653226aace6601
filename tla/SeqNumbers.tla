----------------------------- MODULE SeqNumbers -----------------------------
(***************************************************************************)
(* Message numbers of one session.  messages_in.seq is assigned by the     *)
(* host (src/db/session-db.ts), messages_out.seq by whoever writes there:  *)
(*   "runner"  the container's poll loop      } writeMessageOut of         *)
(*   "tools"   the container's MCP server     } db/messages-out.ts         *)
(*   "ncl"     the container's CLI client, in a transaction of its own     *)
(*   "gate"    the host, denying a command (writeOutboundDirect)           *)
(* The number is the message id the agent reads and hands back, and the    *)
(* poll loop tells the rows of a turn from earlier ones by it.             *)
(*                                                                         *)
(* The runner is one JavaScript thread and so is the MCP server, but they  *)
(* are two processes: the SELECTs and the INSERT of writeMessageOut are    *)
(* steps of their own.  Rows of "ncl" are system rows, all others stand    *)
(* for chat rows.                                                          *)
(***************************************************************************)
EXTENDS Naturals

CONSTANTS
  Incoming,    \* the rows the host will ever insert into messages_in
  Outgoing,    \* the rows anyone will ever try to insert into messages_out
  Author       \* Author[r]: who writes outgoing row r

Writers == {"runner", "tools"}      \* the processes that call writeMessageOut

ASSUME SeqAssumption ==
  /\ Author \in [Outgoing -> Writers \cup {"ncl", "gate"}]
  /\ Incoming \cap Outgoing = {}

VARIABLES
  seqIn,      \* messages_in.seq; 0: not there
  seqOut,     \* messages_out.seq; 0: not there
  spent,      \* rows that were inserted, or tried, and are not inserted again
  phase,      \* where each writer is in writeMessageOut
  job,        \* the row it is writing
  high,       \* the largest seq it has read so far
  mark,       \* turnStartSeq of the poll loop
  ours,       \* history: rows the container has written since the turn began
  shown       \* history: pairs <<seq, row>> the agent was given

vars == <<seqIn, seqOut, spent, phase, job, high, mark, ours, shown>>

Even == {n \in Nat : n % 2 = 0}
Rows == Incoming \cup Outgoing

TypeOK ==
  /\ seqIn \in [Incoming -> Even]
  /\ seqOut \in [Outgoing -> Nat]
  /\ spent \in SUBSET Rows
  /\ phase \in [Writers -> {"idle", "outRead", "bothRead"}]
  /\ job \in [Writers -> Outgoing \cup {"none"}]
  /\ high \in [Writers -> Nat]
  /\ mark \in Nat
  /\ ours \in SUBSET Outgoing
  /\ shown \in SUBSET (Nat \X Rows)

Init ==
  /\ seqIn = [m \in Incoming |-> 0]
  /\ seqOut = [r \in Outgoing |-> 0]
  /\ spent = {}
  /\ phase = [w \in Writers |-> "idle"]
  /\ job = [w \in Writers |-> "none"]
  /\ high = [w \in Writers |-> 0]
  /\ mark = 0
  /\ ours = {}
  /\ shown = {}

-----------------------------------------------------------------------------
\* COALESCE(MAX(seq), 0) of a table, as a one-element set.
Top(seq) ==
  {n \in {0} \cup {seq[x] : x \in DOMAIN seq} : \A x \in DOMAIN seq : seq[x] <= n}

Larger(a, b) == IF a < b THEN b ELSE a

NextEvenBug(n) == n + 1              \* mutant: the parity is forgotten
NextEven(n)    == n + 2 - (n % 2)

NextOddBug(n) == n + 1               \* mutant: the parity is forgotten
NextOdd(n)    == IF n % 2 = 0 THEN n + 1 ELSE n + 2

Present(seq)  == {x \in DOMAIN seq : seq[x] > 0}

NoRow == "no row"

\* getMessageIdBySeq: the inbound table answers first.
GetBySeqBug(n) ==                    \* mutant: the outbound table answers first
  IF \E r \in Outgoing : seqOut[r] = n THEN CHOOSE r \in Outgoing : seqOut[r] = n
  ELSE IF \E m \in Incoming : seqIn[m] = n THEN CHOOSE m \in Incoming : seqIn[m] = n
  ELSE NoRow
GetBySeq(n) ==
  IF \E m \in Incoming : seqIn[m] = n THEN CHOOSE m \in Incoming : seqIn[m] = n
  ELSE IF \E r \in Outgoing : seqOut[r] = n THEN CHOOSE r \in Outgoing : seqOut[r] = n
  ELSE NoRow

-----------------------------------------------------------------------------
(* The host.                                                               *)

\* insertMessage and insertTaskRow: the next even number over messages_in alone.
HostInsert(m) ==
  /\ m \notin spent
  /\ \E n \in Top(seqIn) : seqIn' = [seqIn EXCEPT ![m] = NextEven(n)]
  /\ spent' = spent \cup {m}
  /\ UNCHANGED <<seqOut, phase, job, high, mark, ours, shown>>

\* deleteTask, and the echo pruning of the sweep.
HostDelete(m) ==
  /\ seqIn[m] > 0
  /\ seqIn' = [seqIn EXCEPT ![m] = 0]
  /\ UNCHANGED <<seqOut, spent, phase, job, high, mark, ours, shown>>

\* writeOutboundDirect: one INSERT with its SELECT inside.
Deny(r) ==
  /\ Author[r] = "gate" /\ r \notin spent
  /\ \E n \in Top(seqOut) : seqOut' = [seqOut EXCEPT ![r] = n + 2]
  /\ spent' = spent \cup {r}
  /\ UNCHANGED <<seqIn, phase, job, high, mark, ours, shown>>

-----------------------------------------------------------------------------
(* The container.                                                          *)

\* The formatter puts a message's number into the prompt.
Show(m) ==
  /\ seqIn[m] > 0
  /\ shown' = shown \cup {<<seqIn[m], m>>}
  /\ UNCHANGED <<seqIn, seqOut, spent, phase, job, high, mark, ours>>

\* writeMessageOut, its first SELECT.
ReadOut(w, r) ==
  /\ phase[w] = "idle"
  /\ Author[r] = w /\ r \notin spent
  /\ \E n \in Top(seqOut) : high' = [high EXCEPT ![w] = n]
  /\ job' = [job EXCEPT ![w] = r]
  /\ phase' = [phase EXCEPT ![w] = "outRead"]
  /\ spent' = spent \cup {r}
  /\ UNCHANGED <<seqIn, seqOut, mark, ours, shown>>

\* Its second SELECT.
ReadIn(w) ==
  /\ phase[w] = "outRead"
  /\ \E n \in Top(seqIn) : high' = [high EXCEPT ![w] = Larger(@, n)]
  /\ phase' = [phase EXCEPT ![w] = "bothRead"]
  /\ UNCHANGED <<seqIn, seqOut, spent, job, mark, ours, shown>>

\* seq INTEGER UNIQUE.
Unused(n) == \A r \in Outgoing : seqOut[r] # n

\* Its INSERT; send_message tells the agent the number.
Insert(w) ==
  /\ phase[w] = "bothRead"
  /\ LET n == NextOdd(high[w]) IN
       /\ Unused(n)
       /\ seqOut' = [seqOut EXCEPT ![job[w]] = n]
       /\ shown' = IF w = "tools" THEN shown \cup {<<n, job[w]>>} ELSE shown
  /\ ours' = ours \cup {job[w]}
  /\ phase' = [phase EXCEPT ![w] = "idle"]
  /\ UNCHANGED <<seqIn, spent, job, high, mark>>

\* The INSERT throws: the row is not written.
Refuse(w) ==
  /\ phase[w] = "bothRead"
  /\ ~Unused(NextOdd(high[w]))
  /\ phase' = [phase EXCEPT ![w] = "idle"]
  /\ UNCHANGED <<seqIn, seqOut, spent, job, high, mark, ours, shown>>

\* writeRequest of ncl: BEGIN IMMEDIATE ... COMMIT.
NclWrite(r) ==
  /\ Author[r] = "ncl" /\ r \notin spent
  /\ \E n \in Top(seqOut) : \E k \in Top(seqIn) :
       seqOut' = [seqOut EXCEPT ![r] = NextOdd(Larger(n, k))]
  /\ spent' = spent \cup {r}
  /\ UNCHANGED <<seqIn, phase, job, high, mark, ours, shown>>

\* What turnStartSeq becomes at a turn boundary: maxOutboundSeq().
NewMarkBug(n) == mark                \* mutant: the mark stays
NewMark(n)    == n

\* The result of a turn: the agent waits for its tools, and the poll loop is
\* the runner, so no write is under way.
EndTurn ==
  /\ \A w \in Writers : phase[w] = "idle"
  /\ \E n \in Top(seqOut) : mark' = NewMark(n)
  /\ ours' = {}
  /\ UNCHANGED <<seqIn, seqOut, spent, phase, job, high, shown>>

\* The container is killed, its processes with it, and a new one starts.
Restart ==
  /\ \E n \in Top(seqOut) : mark' = n
  /\ ours' = {}
  /\ phase' = [w \in Writers |-> "idle"]
  /\ UNCHANGED <<seqIn, seqOut, spent, job, high, shown>>

-----------------------------------------------------------------------------
Next ==
  \/ \E m \in Incoming : HostInsert(m) \/ HostDelete(m) \/ Show(m)
  \/ \E r \in Outgoing : Deny(r) \/ NclWrite(r)
  \/ \E w \in Writers :
       \/ \E r \in Outgoing : ReadOut(w, r)
       \/ ReadIn(w) \/ Insert(w) \/ Refuse(w)
  \/ EndTurn
  \/ Restart

Spec == Init /\ [][Next]_vars

-----------------------------------------------------------------------------
(* Safety.                                                                 *)

\* The row a pair of `shown` names is still there.
Exists(x) == x \in Present(seqIn) \cup Present(seqOut)

\* A number the agent was given, by a prompt or by send_message, resolves to
\* that very message as long as it exists, whoever wrote rows in between: what
\* messages-out.ts calls load-bearing about the disjoint numbers.
IdsResolve == \A e \in shown : Exists(e[2]) => GetBySeq(e[1]) = e[2]

\* The chat rows the container wrote in this turn are exactly those of its rows
\* that lie above the mark: the echo window and the nudge decision see all of
\* the turn and nothing of an earlier one, whatever the two processes, ncl and
\* the host write meanwhile.
WindowIsTheTurn ==
  \A r \in Outgoing :
    Author[r] \in Writers => (r \in ours <=> seqOut[r] > mark)

-----------------------------------------------------------------------------
(* The inductive invariant behind both.                                    *)

\* No number twice in one table; everyone but the gate takes odd ones.
NumbersApart ==
  /\ \A m \in Present(seqIn), n \in Incoming : seqIn[m] = seqIn[n] => m = n
  /\ \A r \in Present(seqOut), q \in Outgoing : seqOut[r] = seqOut[q] => r = q
  /\ \A r \in Present(seqOut) : Author[r] # "gate" => seqOut[r] % 2 = 1

\* A row has a number only once it was written, and its writer writes it once.
WrittenOnce ==
  /\ \A m \in Incoming : m \notin spent => seqIn[m] = 0
  /\ \A r \in Outgoing : r \notin spent => seqOut[r] = 0
  /\ \A w \in Writers : phase[w] # "idle" =>
       /\ job[w] \in spent \cap Outgoing
       /\ Author[job[w]] = w /\ seqOut[job[w]] = 0

\* A writer has read at least the mark, which some row bears or exceeds.
MarkReached ==
  /\ mark > 0 => \E r \in Outgoing : seqOut[r] >= mark
  /\ \A w \in Writers : phase[w] # "idle" => high[w] >= mark

\* What the agent was given was right, and stays right until it is deleted.
ShownWasRight ==
  \A e \in shown :
    /\ e[1] > 0
    /\ e[2] \in Incoming => e[2] \in spent /\ seqIn[e[2]] \in {0, e[1]}
    /\ e[2] \in Outgoing => seqOut[e[2]] = e[1] /\ Author[e[2]] = "tools"

SInv ==
  /\ TypeOK
  /\ NumbersApart
  /\ WrittenOnce
  /\ MarkReached
  /\ ShownWasRight
  /\ WindowIsTheTurn
=============================================================================
