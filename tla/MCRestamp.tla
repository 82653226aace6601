------------------------------ MODULE MCRestamp ------------------------------
(* An instance of Restamp for TLC: the second version ships a file less, a   *)
(* skill and a task otherwise, and one server in place of another.           *)
EXTENDS Restamp

TwoVersions ==
  <<[guide |-> 1, skill |-> 1, server |-> 1, tool |-> 0, task |-> 1],
    [guide |-> 0, skill |-> 2, server |-> 0, tool |-> 2, task |-> 2]>>
Listed == <<"guide", "skill">>
=============================================================================
