----------------------------- MODULE MCDelivery -----------------------------
(* Three instances of Delivery for TLC, in one run.  "rows": a row of one     *)
(* session for each way through the loop.  "crash": two of them and a crash  *)
(* of the host.  "sessions": a row in each of two sessions, for the          *)
(* questions about the poll loops.                                           *)
EXTENDS Delivery, TLC

CONSTANTS s1, s2, r1, r2, r3, r4

VARIABLE scenario

TwoSessions == {s1, s2}
FourRows    == {r1, r2, r3, r4}
Owners      == (r1 :> s1) @@ (r2 :> s1) @@ (r3 :> s1) @@ (r4 :> s2)
Classes     == (r1 :> "chat") @@ (r2 :> "internal") @@ (r3 :> "unrouted") @@ (r4 :> "chat")

\* The rows each of them writes, and whether its host crashes.
RowsOf == [rows |-> {r1, r2, r3}, crash |-> {r1, r2}, sessions |-> {r1, r4}]

MCInit == Init /\ scenario \in DOMAIN RowsOf

\* With rows of one session only, the other is closed before anything else.
MCNext ==
  /\ UNCHANGED scenario
  /\ Next
  /\ scenario # "sessions" /\ s2 \in open => s2 \notin open'
  /\ scenario # "crash" => crashes' = 0
  /\ \A r \in Rows \ RowsOf[scenario] : stamp'[r] = 0

MCSpec == MCInit /\ [][MCNext]_<<scenario, vars>> /\ WF_vars(Poll("sweep"))
=============================================================================
