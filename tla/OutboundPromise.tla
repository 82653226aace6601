--------------------------- MODULE OutboundPromise --------------------------
(***************************************************************************)
(* What src/delivery.ts promises for a row of messages_out, without saying *)
(* how: at least one effect before it is called delivered, none after its  *)
(* outcome is recorded, and an outcome that never changes.  Nothing is     *)
(* promised about how often an unsettled row goes out.                     *)
(***************************************************************************)
EXTENDS Naturals

CONSTANTS
  Rows,          \* the rows containers write
  NeedsEffect    \* the rows something outside must have taken

VARIABLES
  written,   \* the rows in some outbound.db
  verdict,   \* their recorded outcome
  effects    \* how often the outside world took each

vars == <<written, verdict, effects>>

Init ==
  /\ written = {}
  /\ verdict = [r \in Rows |-> "none"]
  /\ effects = [r \in Rows |-> 0]

Write(r) ==
  /\ r \notin written
  /\ written' = written \cup {r}
  /\ UNCHANGED <<verdict, effects>>

Unsettled(r) == r \in written /\ verdict[r] = "none"

Take(r) ==
  /\ Unsettled(r)
  /\ effects' = [effects EXCEPT ![r] = @ + 1]
  /\ UNCHANGED <<written, verdict>>

Deliver(r) ==
  /\ Unsettled(r)
  /\ r \in NeedsEffect => effects[r] > 0
  /\ verdict' = [verdict EXCEPT ![r] = "delivered"]
  /\ UNCHANGED <<written, effects>>

GiveUp(r) ==
  /\ Unsettled(r)
  /\ verdict' = [verdict EXCEPT ![r] = "failed"]
  /\ UNCHANGED <<written, effects>>

Next == \E r \in Rows : Write(r) \/ Take(r) \/ Deliver(r) \/ GiveUp(r)

Spec == Init /\ [][Next]_vars
=============================================================================
