----------------------------- MODULE MidTurnText -----------------------------
(***************************************************************************)
(* The agent's text as the two delivery doors read it                      *)
(* (container/agent-runner/src/poll-loop.ts).                              *)
(*                                                                         *)
(* A text is a sequence of tokens: "M" opens a <message> block to a known  *)
(* destination, "U" one to an unknown destination, "C" closes a block, "I" *)
(* and "J" open and close an <internal> span, and every other token is a   *)
(* word.  The tag that opens a block can be cut in two, "P" and "Q": they  *)
(* are words until they meet.                                              *)
(***************************************************************************)
EXTENDS Integers, Sequences

Opens == {"M", "U"}

\* carry + text: a tag that was cut comes together.
Join(s, t) ==
  IF s # <<>> /\ t # <<>> /\ s[Len(s)] = "P" /\ t[1] = "Q"
  THEN SubSeq(s, 1, Len(s) - 1) \o <<"M">> \o Tail(t)
  ELSE s \o t

\* A text without its complete <internal> spans: what is held is an open span.
SpanStep(acc, t) ==
  IF acc.held = <<>> /\ t # "I"
  THEN [kept |-> Append(acc.kept, t), masked |-> Append(acc.masked, t), held |-> <<>>]
  ELSE IF acc.held # <<>> /\ t = "J"
  THEN [kept |-> acc.kept, held |-> <<>>,
        masked |-> acc.masked \o [i \in 1 .. Len(acc.held) + 1 |-> "blank"]]
  ELSE [kept |-> acc.kept, masked |-> acc.masked, held |-> Append(acc.held, t)]
NoSpan == [kept |-> <<>>, masked |-> <<>>, held |-> <<>>]
SpanRead(s) ==
  LET read[i \in 0 .. Len(s)] == IF i = 0 THEN NoSpan ELSE SpanStep(read[i - 1], s[i])
  IN read
Spans(s) == SpanRead(s)[Len(s)]
Visible(s) == Spans(s).kept \o Spans(s).held
\* The same with the spans blanked, so that positions stay.
Masked(s) == Spans(s).masked \o Spans(s).held

\* The complete blocks of a text, those of them a scan may send (known destination,
\* body not blank), and whether anything stands outside of blocks.  A block that
\* never closes stands outside.
BlockStep(acc, t) ==
  IF acc.open = <<>>
  THEN [acc EXCEPT !.open = IF t \in Opens THEN <<t>> ELSE <<>>, !.loose = @ \/ t \notin Opens]
  ELSE IF t = "C"
  THEN LET block == [known |-> acc.open[1] = "M", body |-> Tail(acc.open)]
       IN [acc EXCEPT !.open = <<>>, !.blocks = Append(@, block),
                      !.sends = IF block.known /\ block.body # <<>> THEN Append(@, block) ELSE @]
  ELSE [acc EXCEPT !.open = Append(@, t)]
NoBlock == [blocks |-> <<>>, sends |-> <<>>, open |-> <<>>, loose |-> FALSE]
BlockRead(s) ==
  LET read[i \in 0 .. Len(s)] == IF i = 0 THEN NoBlock ELSE BlockStep(read[i - 1], s[i])
  IN read
Blocks(s) == BlockRead(s)[Len(s)]
Parse(s) == [Blocks(s) EXCEPT !.loose = @ \/ Blocks(s).open # <<>>]
Sendable(s) == Parse(Visible(s)).sends

\* The blocks whose bodies are not in a set.
Without(blocks, bodies) ==
  LET pick[i \in 0 .. Len(blocks)] ==
        IF i = 0 THEN <<>>
        ELSE IF blocks[i].body \in bodies THEN pick[i - 1] ELSE Append(pick[i - 1], blocks[i])
  IN pick[Len(blocks)]

Least(S) == CHOOSE x \in S : \A y \in S : x <= y

\* An opened block after which nothing closes.
Growing(m) == {i \in 1 .. Len(m) : m[i] \in Opens /\ \A j \in i .. Len(m) : m[j] # "C"}
Cut(m) == IF m # <<>> /\ m[Len(m)] = "P" THEN Len(m) ELSE Len(m) + 1

\* mutant: only the block that grows is held back
TailStartBug(s) ==
  LET m == Masked(s)
  IN IF Growing(m) # {} THEN Least(Growing(m)) ELSE Cut(m)
\* unresolvedTailStart: an open <internal>, a block that grows, half a tag.
TailStart(s) ==
  LET m == Masked(s)
      candidates == {i \in 1 .. Len(m) : m[i] = "I"} \cup Growing(m)
  IN IF candidates # {} THEN Least(candidates) ELSE Cut(m)

Resolved(s) == SubSeq(s, 1, TailStart(s) - 1)
Unresolved(s) == SubSeq(s, TailStart(s), Len(s))
=============================================================================
