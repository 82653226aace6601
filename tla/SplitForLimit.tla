---------------------------- MODULE SplitForLimit ----------------------------
(* How the bridge cuts a text that is too long for its platform             *)
(* (src/channels/chat-sdk-bridge.ts): a pure function.  A text is a         *)
(* sequence of "w" (a letter), "s" (a space) and "n" (a newline).           *)
EXTENDS Naturals, Sequences, FiniteSetsExt

Letters(t) == {i \in DOMAIN t : t[i] = "w"}
TrimEnd(t) == SubSeq(t, 1, Max(Letters(t) \cup {0}))
TrimStart(t) == SubSeq(t, Min(Letters(t) \cup {Len(t) + 1}), Len(t))

\* Before the last break of a kind at or before the limit; 0 if there is none.
Break(t, b, limit) ==
  Max({p \in 1 .. limit : p + Len(b) <= Len(t) /\ SubSeq(t, p + 1, p + Len(b)) = b} \cup {0})
Breaks == <<<<"n", "n">>, <<"n">>, <<"s">>>>
Cut(t, limit) ==
  LET kinds == {k \in DOMAIN Breaks : Break(t, Breaks[k], limit) > 0}
  IN IF kinds = {} THEN limit ELSE Break(t, Breaks[Min(kinds)], limit)

\* T holds the ends of its texts.
Split(T, limit) ==
  LET split[t \in T] ==
        IF t = <<>> THEN <<>> ELSE IF Len(t) <= limit THEN <<t>>
        ELSE <<TrimEnd(SubSeq(t, 1, Cut(t, limit)))>> \o split[TrimStart(SubSeq(t, Cut(t, limit) + 1, Len(t)))]
  IN split

\* A file without a text is one post.
Chunked(T, limit) == [t \in T |-> IF t = <<>> THEN <<<<>>>> ELSE Split(T, limit)[t]]
=============================================================================
