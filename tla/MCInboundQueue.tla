--------------------------- MODULE MCInboundQueue ---------------------------
(* Instances of InboundQueue for TLC.  One run holds three of them: "chat",   *)
(* two chat rows, and a docker that may refuse; "gated", two rows of a task,  *)
(* a chat and its context, and such a docker; and "mixed", a row each of the  *)
(* other kinds of a chat session, and no such docker.                         *)
EXTENDS InboundQueue, TLC

CONSTANTS m1, m2, m3, m4, m5, m6, m7, c1, c2

VARIABLE scenario

OneContainer  == {c1}
TwoContainers == {c1, c2}
Twins         == Permutations(TwoContainers)

One  == {m1}
Two  == {m1, m2}
Seven == {m1, m2, m3, m4, m5, m6, m7}

Chat     == m1 :> "chat"
ChatChat == (m1 :> "chat") @@ (m2 :> "chat")
EachKind == (m1 :> "chat") @@ (m2 :> "chat") @@ (m3 :> "slash") @@ (m4 :> "clear")
            @@ (m5 :> "context") @@ (m6 :> "system") @@ (m7 :> "task")

\* The rows each of them writes.
RowsOf == [chat |-> {m1, m2}, gated |-> {m1, m5, m7}, mixed |-> {m3, m4, m5, m6}]

MCInit == Init /\ scenario \in DOMAIN RowsOf

MCNext ==
  /\ UNCHANGED scenario
  /\ Next
  /\ \A m \in Messages \ RowsOf[scenario] : status'[m] = "absent"
  /\ scenario = "gated" => \E m \in Messages \cap RowsOf["gated"] : status'[m] = "absent"
  /\ scenario # "chat" => faults' <= 2
  /\ scenario = "mixed" => ~misled'

MCSpec == MCInit /\ [][MCNext]_<<scenario, vars>>
=============================================================================
