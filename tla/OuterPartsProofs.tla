--------------------------- MODULE OuterPartsProofs --------------------------
(***************************************************************************)
(* Proofs about the parts at the edges of the host: the message numbers     *)
(* (SeqNumbers), the update transaction (UpdateTransaction), interactive    *)
(* questions (Questions), the watch over running tools (ToolWatch),         *)
(* incoming chat (ChatInbound), the commands of the agents (NclCommands)    *)
(* and replies on their way out (ChatReplies), each with an invariant of    *)
(* its own; and about the composition that is model-checked.                *)
(***************************************************************************)
EXTENDS MCOuterParts, FiniteSetTheorems, SequenceTheorems, TLAPS

-----------------------------------------------------------------------------
(* Message numbers, for any number of rows and any interleaving of their writers. *)

\* The next even number is even, positive and new.
LEMMA NextEvenIs ==
  ASSUME NEW n \in Even PROVE NextEven(n) \in Even /\ NextEven(n) > n
<1>1. n \in Nat /\ n % 2 = 0
  BY DEF Even
<1>2. NextEven(n) = n + 2
  BY <1>1 DEF NextEven
<1>3. (n + 2) % 2 = 0
  BY <1>1
<1> QED
  BY <1>1, <1>2, <1>3 DEF Even

\* The next odd number is odd and new.
LEMMA NextOddIs ==
  ASSUME NEW n \in Nat PROVE NextOdd(n) \in Nat /\ NextOdd(n) > n /\ NextOdd(n) % 2 = 1
  BY DEF NextOdd

\* An element of Top bounds every number of its table.
LEMMA TopIs ==
  ASSUME NEW S, NEW seq \in [S -> Nat], NEW n \in Top(seq)
  PROVE  n \in Nat /\ \A x \in S : seq[x] <= n
  BY DEF Top

\* The same for a table of even numbers.
LEMMA TopInEven ==
  ASSUME NEW S, NEW seq \in [S -> Even], NEW n \in Top(seq)
  PROVE  n \in Even /\ \A x \in S : seq[x] <= n
<1>1. 0 \in Even
  BY DEF Even
<1> QED
  BY <1>1 DEF Top

\* Larger is the larger of two.
LEMMA LargerIs ==
  ASSUME NEW a \in Nat, NEW b \in Nat
  PROVE  Larger(a, b) \in Nat /\ Larger(a, b) >= a /\ Larger(a, b) >= b
  BY DEF Larger

\* Every step of every action keeps the types.
LEMMA TypeStep == SInv /\ [Next]_vars => TypeOK'
<1> SUFFICES ASSUME SInv, [Next]_vars PROVE TypeOK'
  OBVIOUS
<1> USE SeqAssumption DEF SInv, TypeOK, Writers, Rows
<1>1. ASSUME NEW m \in Incoming, HostInsert(m) PROVE TypeOK'
  <2>1. PICK n \in Top(seqIn) : seqIn' = [seqIn EXCEPT ![m] = NextEven(n)]
    BY <1>1 DEF HostInsert
  <2>2. n \in Even
    BY TopInEven
  <2> QED
    BY <1>1, <2>1, <2>2, NextEvenIs DEF HostInsert
<1>2. ASSUME NEW m \in Incoming, HostDelete(m) PROVE TypeOK'
  <2>1. 0 \in Even
    BY DEF Even
  <2> QED
    BY <1>2, <2>1 DEF HostDelete
<1>3. ASSUME NEW m \in Incoming, Show(m) PROVE TypeOK'
  <2>1. seqIn[m] \in Nat
    BY DEF Even
  <2> QED
    BY <1>3, <2>1 DEF Show
<1>4. ASSUME NEW r \in Outgoing, Deny(r) PROVE TypeOK'
  <2>1. PICK n \in Top(seqOut) : seqOut' = [seqOut EXCEPT ![r] = n + 2]
    BY <1>4 DEF Deny
  <2>2. n \in Nat
    BY TopIs
  <2> QED
    BY <1>4, <2>1, <2>2 DEF Deny
<1>5. ASSUME NEW r \in Outgoing, NclWrite(r) PROVE TypeOK'
  <2>1. PICK n \in Top(seqOut), k \in Top(seqIn) :
          seqOut' = [seqOut EXCEPT ![r] = NextOdd(Larger(n, k))]
    BY <1>5 DEF NclWrite
  <2>2. n \in Nat /\ k \in Nat
    BY TopIs, TopInEven DEF Even
  <2>3. NextOdd(Larger(n, k)) \in Nat
    BY <2>2, LargerIs, NextOddIs
  <2> QED
    BY <1>5, <2>1, <2>3 DEF NclWrite
<1>6. ASSUME NEW w \in Writers, NEW r \in Outgoing, ReadOut(w, r) PROVE TypeOK'
  <2>1. PICK n \in Top(seqOut) : high' = [high EXCEPT ![w] = n]
    BY <1>6 DEF ReadOut
  <2>2. n \in Nat
    BY TopIs
  <2> QED
    BY <1>6, <2>1, <2>2 DEF ReadOut
<1>7. ASSUME NEW w \in Writers, ReadIn(w) PROVE TypeOK'
  <2>1. PICK n \in Top(seqIn) : high' = [high EXCEPT ![w] = Larger(@, n)]
    BY <1>7 DEF ReadIn
  <2>2. n \in Nat
    BY TopInEven DEF Even
  <2>3. Larger(high[w], n) \in Nat
    BY <2>2, LargerIs
  <2> QED
    BY <1>7, <2>1, <2>3 DEF ReadIn
<1>8. ASSUME NEW w \in Writers, Insert(w) PROVE TypeOK'
  <2>1. job[w] \in Outgoing
    BY <1>8 DEF Insert, WrittenOnce
  <2>2. NextOdd(high[w]) \in Nat
    BY NextOddIs
  <2> QED
    BY <1>8, <2>1, <2>2 DEF Insert
<1>9. ASSUME NEW w \in Writers, Refuse(w) PROVE TypeOK'
  BY <1>9 DEF Refuse
<1>10. ASSUME EndTurn PROVE TypeOK'
  <2>1. PICK n \in Top(seqOut) : mark' = n
    BY <1>10 DEF EndTurn, NewMark
  <2>2. n \in Nat
    BY TopIs
  <2> QED
    BY <1>10, <2>1, <2>2 DEF EndTurn
<1>11. ASSUME Restart PROVE TypeOK'
  <2>1. PICK n \in Top(seqOut) : mark' = n
    BY <1>11 DEF Restart
  <2>2. n \in Nat
    BY TopIs
  <2> QED
    BY <1>11, <2>1, <2>2 DEF Restart
<1>12. CASE UNCHANGED vars
  BY <1>12 DEF vars
<1> QED
  BY <1>1, <1>2, <1>3, <1>4, <1>5, <1>6, <1>7, <1>8,
     <1>9, <1>10, <1>11, <1>12 DEF Next

\* The host inserts above all of messages_in.
LEMMA HostInsertIs ==
  ASSUME SInv, NEW m \in Incoming, HostInsert(m)
  PROVE  \E n \in Nat :
           /\ n > 0 /\ \A x \in Incoming : seqIn[x] < n
           /\ seqIn' = [seqIn EXCEPT ![m] = n]
<1>1. PICK n \in Top(seqIn) : seqIn' = [seqIn EXCEPT ![m] = NextEven(n)]
  BY DEF HostInsert
<1>2. n \in Even /\ \A x \in Incoming : seqIn[x] <= n
  BY TopInEven DEF SInv, TypeOK
<1>3. PICK k \in Nat : k = NextEven(n) /\ k > n
  BY <1>2, NextEvenIs DEF Even
<1>4. n \in Nat /\ k > 0
  BY <1>2, <1>3 DEF Even
<1>5. ASSUME NEW x \in Incoming PROVE seqIn[x] < k
  <2>1. seqIn[x] \in Nat
    BY DEF SInv, TypeOK, Even
  <2> QED
    BY <1>2, <1>3, <1>4, <2>1
<1> QED
  BY <1>1, <1>3, <1>4, <1>5

\* The gate and ncl insert above all of messages_out, in one step.
LEMMA OutsideWriteIs ==
  ASSUME SInv, NEW r \in Outgoing, Deny(r) \/ NclWrite(r)
  PROVE  /\ Author[r] \notin Writers
         /\ r \notin spent
         /\ \E n \in Nat :
              /\ n > 0 /\ \A x \in Outgoing : seqOut[x] < n
              /\ Author[r] # "gate" => n % 2 = 1
              /\ seqOut' = [seqOut EXCEPT ![r] = n]
<1> USE DEF SInv, TypeOK
<1>1. CASE Deny(r)
  <2>1. PICK n \in Top(seqOut) : seqOut' = [seqOut EXCEPT ![r] = n + 2]
    BY <1>1 DEF Deny
  <2>2. n \in Nat /\ \A x \in Outgoing : seqOut[x] <= n
    BY TopIs
  <2>3. n + 2 \in Nat /\ n + 2 > 0 /\ \A x \in Outgoing : seqOut[x] < n + 2
    BY <2>2
  <2> QED
    BY <1>1, <2>1, <2>3 DEF Deny, Writers
<1>2. CASE NclWrite(r)
  <2>1. PICK n \in Top(seqOut), k \in Top(seqIn) :
          seqOut' = [seqOut EXCEPT ![r] = NextOdd(Larger(n, k))]
    BY <1>2 DEF NclWrite
  <2>2. n \in Nat /\ k \in Nat /\ \A x \in Outgoing : seqOut[x] <= n
    BY TopIs, TopInEven DEF Even
  <2>3. Larger(n, k) \in Nat /\ Larger(n, k) >= n
    BY <2>2, LargerIs
  <2>4. NextOdd(Larger(n, k)) \in Nat /\ NextOdd(Larger(n, k)) > Larger(n, k)
        /\ NextOdd(Larger(n, k)) % 2 = 1
    BY <2>3, NextOddIs
  <2>5. \A x \in Outgoing : seqOut[x] < NextOdd(Larger(n, k))
    BY <2>2, <2>3, <2>4
  <2>6. NextOdd(Larger(n, k)) > 0
    BY <2>2, <2>3, <2>4
  <2> QED
    BY <1>2, <2>1, <2>4, <2>5, <2>6 DEF NclWrite, Writers
<1> QED
  BY <1>1, <1>2

\* writeMessageOut inserts an unused odd number above the mark.
LEMMA InsertIs ==
  ASSUME SInv, NEW w \in Writers, Insert(w)
  PROVE  /\ job[w] \in Outgoing \cap spent /\ Author[job[w]] = w
         /\ \E n \in Nat :
              /\ n > mark /\ n > 0 /\ n % 2 = 1
              /\ \A x \in Outgoing : seqOut[x] # n
              /\ seqOut' = [seqOut EXCEPT ![job[w]] = n]
              /\ shown' = IF w = "tools" THEN shown \cup {<<n, job[w]>>} ELSE shown
<1>1. job[w] \in Outgoing \cap spent /\ Author[job[w]] = w /\ high[w] >= mark
  BY DEF Insert, SInv, WrittenOnce, MarkReached
<1>2. high[w] \in Nat /\ mark \in Nat
  BY DEF SInv, TypeOK
<1>3. NextOdd(high[w]) \in Nat /\ NextOdd(high[w]) > high[w] /\ NextOdd(high[w]) % 2 = 1
  BY <1>2, NextOddIs
<1>4. NextOdd(high[w]) > mark /\ NextOdd(high[w]) > 0
  BY <1>1, <1>2, <1>3
<1> QED
  BY <1>1, <1>3, <1>4 DEF Insert, Unused

\* Every number written is above all of its table, or found unused.
LEMMA NumbersApartStep == SInv /\ [Next]_vars => NumbersApart'
<1> SUFFICES ASSUME SInv, [Next]_vars PROVE NumbersApart'
  OBVIOUS
<1> USE SeqAssumption DEF SInv, TypeOK, NumbersApart, Present
<1> \A x \in Incoming : seqIn[x] \in Nat
  BY DEF Even
<1>1. ASSUME NEW m \in Incoming, HostInsert(m) PROVE NumbersApart'
  <2>1. PICK n \in Nat :
          /\ n > 0 /\ \A x \in Incoming : seqIn[x] < n
          /\ seqIn' = [seqIn EXCEPT ![m] = n]
    BY <1>1, HostInsertIs
  <2> QED
    BY <1>1, <2>1 DEF HostInsert, NumbersApart
<1>2. ASSUME NEW m \in Incoming, HostDelete(m) PROVE NumbersApart'
  BY <1>2 DEF HostDelete
<1>3. ASSUME NEW m \in Incoming, Show(m) PROVE NumbersApart'
  BY <1>3 DEF Show
<1>4. ASSUME NEW r \in Outgoing, Deny(r) PROVE NumbersApart'
  <2>1. Author[r] \notin Writers /\ r \notin spent
    BY <1>4, OutsideWriteIs
  <2>2. PICK n \in Nat :
          /\ n > 0 /\ \A x \in Outgoing : seqOut[x] < n
          /\ Author[r] # "gate" => n % 2 = 1
          /\ seqOut' = [seqOut EXCEPT ![r] = n]
    BY <1>4, OutsideWriteIs
  <2> QED
    BY <1>4, <2>1, <2>2 DEF Deny, NumbersApart
<1>5. ASSUME NEW r \in Outgoing, NclWrite(r) PROVE NumbersApart'
  <2>1. Author[r] \notin Writers /\ r \notin spent
    BY <1>5, OutsideWriteIs
  <2>2. PICK n \in Nat :
          /\ n > 0 /\ \A x \in Outgoing : seqOut[x] < n
          /\ Author[r] # "gate" => n % 2 = 1
          /\ seqOut' = [seqOut EXCEPT ![r] = n]
    BY <1>5, OutsideWriteIs
  <2> QED
    BY <1>5, <2>1, <2>2 DEF NclWrite, NumbersApart
<1>6. ASSUME NEW w \in Writers, NEW r \in Outgoing, ReadOut(w, r) PROVE NumbersApart'
  BY <1>6 DEF ReadOut
<1>7. ASSUME NEW w \in Writers, ReadIn(w) PROVE NumbersApart'
  BY <1>7 DEF ReadIn
<1>8. ASSUME NEW w \in Writers, Insert(w) PROVE NumbersApart'
  <2>1. job[w] \in Outgoing \cap spent /\ Author[job[w]] = w
    BY <1>8, InsertIs
  <2>2. PICK n \in Nat :
          /\ n > mark /\ n > 0 /\ n % 2 = 1
          /\ \A x \in Outgoing : seqOut[x] # n
          /\ seqOut' = [seqOut EXCEPT ![job[w]] = n]
          /\ shown' = IF w = "tools" THEN shown \cup {<<n, job[w]>>} ELSE shown
    BY <1>8, InsertIs
  <2> QED
    BY <1>8, <2>1, <2>2 DEF Insert, NumbersApart
<1>9. ASSUME NEW w \in Writers, Refuse(w) PROVE NumbersApart'
  BY <1>9 DEF Refuse
<1>10. ASSUME EndTurn PROVE NumbersApart'
  BY <1>10 DEF EndTurn
<1>11. ASSUME Restart PROVE NumbersApart'
  BY <1>11 DEF Restart
<1>12. CASE UNCHANGED vars
  BY <1>12 DEF vars
<1> QED
  BY <1>1, <1>2, <1>3, <1>4, <1>5, <1>6, <1>7, <1>8,
     <1>9, <1>10, <1>11, <1>12 DEF Next

\* A row is spent when its writer starts, and numbered when it ends.
LEMMA WrittenOnceStep == SInv /\ [Next]_vars => WrittenOnce'
<1> SUFFICES ASSUME SInv, [Next]_vars PROVE WrittenOnce'
  OBVIOUS
<1> USE SeqAssumption DEF SInv, TypeOK, WrittenOnce
<1>1. ASSUME NEW m \in Incoming, HostInsert(m) PROVE WrittenOnce'
  <2>1. PICK n \in Nat :
          /\ n > 0 /\ \A x \in Incoming : seqIn[x] < n
          /\ seqIn' = [seqIn EXCEPT ![m] = n]
    BY <1>1, HostInsertIs
  <2> QED
    BY <1>1, <2>1 DEF HostInsert, WrittenOnce
<1>2. ASSUME NEW m \in Incoming, HostDelete(m) PROVE WrittenOnce'
  BY <1>2 DEF HostDelete
<1>3. ASSUME NEW m \in Incoming, Show(m) PROVE WrittenOnce'
  BY <1>3 DEF Show
<1>4. ASSUME NEW r \in Outgoing, Deny(r) PROVE WrittenOnce'
  <2>1. Author[r] \notin Writers /\ r \notin spent
    BY <1>4, OutsideWriteIs
  <2>2. PICK n \in Nat :
          /\ n > 0 /\ \A x \in Outgoing : seqOut[x] < n
          /\ Author[r] # "gate" => n % 2 = 1
          /\ seqOut' = [seqOut EXCEPT ![r] = n]
    BY <1>4, OutsideWriteIs
  <2> QED
    BY <1>4, <2>1, <2>2 DEF Deny, WrittenOnce
<1>5. ASSUME NEW r \in Outgoing, NclWrite(r) PROVE WrittenOnce'
  <2>1. Author[r] \notin Writers /\ r \notin spent
    BY <1>5, OutsideWriteIs
  <2>2. PICK n \in Nat :
          /\ n > 0 /\ \A x \in Outgoing : seqOut[x] < n
          /\ Author[r] # "gate" => n % 2 = 1
          /\ seqOut' = [seqOut EXCEPT ![r] = n]
    BY <1>5, OutsideWriteIs
  <2> QED
    BY <1>5, <2>1, <2>2 DEF NclWrite, WrittenOnce
<1>6. ASSUME NEW w \in Writers, NEW r \in Outgoing, ReadOut(w, r) PROVE WrittenOnce'
  BY <1>6 DEF ReadOut
<1>7. ASSUME NEW w \in Writers, ReadIn(w) PROVE WrittenOnce'
  BY <1>7 DEF ReadIn
<1>8. ASSUME NEW w \in Writers, Insert(w) PROVE WrittenOnce'
  <2>1. job[w] \in Outgoing \cap spent /\ Author[job[w]] = w
    BY <1>8, InsertIs
  <2>2. PICK n \in Nat :
          /\ n > mark /\ n > 0 /\ n % 2 = 1
          /\ \A x \in Outgoing : seqOut[x] # n
          /\ seqOut' = [seqOut EXCEPT ![job[w]] = n]
          /\ shown' = IF w = "tools" THEN shown \cup {<<n, job[w]>>} ELSE shown
    BY <1>8, InsertIs
  <2> QED
    BY <1>8, <2>1, <2>2 DEF Insert, WrittenOnce
<1>9. ASSUME NEW w \in Writers, Refuse(w) PROVE WrittenOnce'
  BY <1>9 DEF Refuse
<1>10. ASSUME EndTurn PROVE WrittenOnce'
  BY <1>10 DEF EndTurn
<1>11. ASSUME Restart PROVE WrittenOnce'
  BY <1>11 DEF Restart
<1>12. CASE UNCHANGED vars
  BY <1>12 DEF vars
<1> QED
  BY <1>1, <1>2, <1>3, <1>4, <1>5, <1>6, <1>7, <1>8,
     <1>9, <1>10, <1>11, <1>12 DEF Next

\* The numbers of messages_out only grow in, so every later read is above the mark.
LEMMA MarkReachedStep == SInv /\ [Next]_vars => MarkReached'
<1> SUFFICES ASSUME SInv, [Next]_vars PROVE MarkReached'
  OBVIOUS
<1> USE SeqAssumption DEF SInv, TypeOK, MarkReached
<1>1. ASSUME NEW m \in Incoming, HostInsert(m) PROVE MarkReached'
  BY <1>1 DEF HostInsert
<1>2. ASSUME NEW m \in Incoming, HostDelete(m) PROVE MarkReached'
  BY <1>2 DEF HostDelete
<1>3. ASSUME NEW m \in Incoming, Show(m) PROVE MarkReached'
  BY <1>3 DEF Show
<1>4. ASSUME NEW r \in Outgoing, Deny(r) PROVE MarkReached'
  <2>1. Author[r] \notin Writers /\ r \notin spent
    BY <1>4, OutsideWriteIs
  <2>2. PICK n \in Nat :
          /\ n > 0 /\ \A x \in Outgoing : seqOut[x] < n
          /\ Author[r] # "gate" => n % 2 = 1
          /\ seqOut' = [seqOut EXCEPT ![r] = n]
    BY <1>4, OutsideWriteIs
  <2> QED
    BY <1>4, <2>1, <2>2 DEF Deny, MarkReached, WrittenOnce
<1>5. ASSUME NEW r \in Outgoing, NclWrite(r) PROVE MarkReached'
  <2>1. Author[r] \notin Writers /\ r \notin spent
    BY <1>5, OutsideWriteIs
  <2>2. PICK n \in Nat :
          /\ n > 0 /\ \A x \in Outgoing : seqOut[x] < n
          /\ Author[r] # "gate" => n % 2 = 1
          /\ seqOut' = [seqOut EXCEPT ![r] = n]
    BY <1>5, OutsideWriteIs
  <2> QED
    BY <1>5, <2>1, <2>2 DEF NclWrite, MarkReached, WrittenOnce
<1>6. ASSUME NEW w \in Writers, NEW r \in Outgoing, ReadOut(w, r) PROVE MarkReached'
  <2>1. PICK n \in Top(seqOut) : high' = [high EXCEPT ![w] = n]
    BY <1>6 DEF ReadOut
  <2>2. n \in Nat /\ \A x \in Outgoing : seqOut[x] <= n
    BY TopIs
  <2>3. n >= mark
    BY <2>2
  <2> QED
    BY <1>6, <2>1, <2>2, <2>3 DEF ReadOut
<1>7. ASSUME NEW w \in Writers, ReadIn(w) PROVE MarkReached'
  <2>1. PICK n \in Top(seqIn) : high' = [high EXCEPT ![w] = Larger(@, n)]
    BY <1>7 DEF ReadIn
  <2>2. n \in Nat
    BY TopInEven DEF Even
  <2>3. Larger(high[w], n) \in Nat /\ Larger(high[w], n) >= high[w]
    BY <2>2, LargerIs
  <2>4. Larger(high[w], n) >= mark
    BY <1>7, <2>3 DEF ReadIn
  <2> QED
    BY <1>7, <2>1, <2>3, <2>4 DEF ReadIn
<1>8. ASSUME NEW w \in Writers, Insert(w) PROVE MarkReached'
  <2>1. job[w] \in Outgoing \cap spent /\ Author[job[w]] = w
    BY <1>8, InsertIs
  <2>2. PICK n \in Nat :
          /\ n > mark /\ n > 0 /\ n % 2 = 1
          /\ \A x \in Outgoing : seqOut[x] # n
          /\ seqOut' = [seqOut EXCEPT ![job[w]] = n]
          /\ shown' = IF w = "tools" THEN shown \cup {<<n, job[w]>>} ELSE shown
    BY <1>8, InsertIs
  <2> QED
    BY <1>8, <2>1, <2>2 DEF Insert, MarkReached, WrittenOnce
<1>9. ASSUME NEW w \in Writers, Refuse(w) PROVE MarkReached'
  BY <1>9 DEF Refuse
<1>10. ASSUME EndTurn PROVE MarkReached'
  <2>1. PICK n \in Top(seqOut) : mark' = n
    BY <1>10 DEF EndTurn, NewMark
  <2>2. n > 0 => \E x \in Outgoing : seqOut[x] >= n
    BY <2>1 DEF Top
  <2> QED
    BY <1>10, <2>1, <2>2 DEF EndTurn
<1>11. ASSUME Restart PROVE MarkReached'
  <2>1. PICK n \in Top(seqOut) : mark' = n
    BY <1>11 DEF Restart
  <2>2. n > 0 => \E x \in Outgoing : seqOut[x] >= n
    BY <2>1 DEF Top
  <2> QED
    BY <1>11, <2>1, <2>2 DEF Restart
<1>12. CASE UNCHANGED vars
  BY <1>12 DEF vars
<1> QED
  BY <1>1, <1>2, <1>3, <1>4, <1>5, <1>6, <1>7, <1>8,
     <1>9, <1>10, <1>11, <1>12 DEF Next

\* A number is given out once its row bears it, and no row is renumbered.
LEMMA ShownWasRightStep == SInv /\ [Next]_vars => ShownWasRight'
<1> SUFFICES ASSUME SInv, [Next]_vars PROVE ShownWasRight'
  OBVIOUS
<1> USE SeqAssumption DEF SInv, TypeOK, ShownWasRight
<1>1. ASSUME NEW m \in Incoming, HostInsert(m) PROVE ShownWasRight'
  <2>1. PICK n \in Nat :
          /\ n > 0 /\ \A x \in Incoming : seqIn[x] < n
          /\ seqIn' = [seqIn EXCEPT ![m] = n]
    BY <1>1, HostInsertIs
  <2> QED
    BY <1>1, <2>1 DEF HostInsert, WrittenOnce
<1>2. ASSUME NEW m \in Incoming, HostDelete(m) PROVE ShownWasRight'
  BY <1>2 DEF HostDelete
<1>3. ASSUME NEW m \in Incoming, Show(m) PROVE ShownWasRight'
  <2>1. m \in spent /\ m \notin Outgoing
    BY <1>3 DEF Show, WrittenOnce
  <2>2. shown' = shown \cup {<<seqIn[m], m>>} /\ seqIn[m] > 0
    BY <1>3 DEF Show
  <2> QED
    BY <1>3, <2>1, <2>2 DEF Show
<1>4. ASSUME NEW r \in Outgoing, Deny(r) PROVE ShownWasRight'
  <2>1. Author[r] \notin Writers /\ r \notin spent
    BY <1>4, OutsideWriteIs
  <2>2. PICK n \in Nat :
          /\ n > 0 /\ \A x \in Outgoing : seqOut[x] < n
          /\ Author[r] # "gate" => n % 2 = 1
          /\ seqOut' = [seqOut EXCEPT ![r] = n]
    BY <1>4, OutsideWriteIs
  <2> QED
    BY <1>4, <2>1, <2>2 DEF Deny, WrittenOnce, Writers
<1>5. ASSUME NEW r \in Outgoing, NclWrite(r) PROVE ShownWasRight'
  <2>1. Author[r] \notin Writers /\ r \notin spent
    BY <1>5, OutsideWriteIs
  <2>2. PICK n \in Nat :
          /\ n > 0 /\ \A x \in Outgoing : seqOut[x] < n
          /\ Author[r] # "gate" => n % 2 = 1
          /\ seqOut' = [seqOut EXCEPT ![r] = n]
    BY <1>5, OutsideWriteIs
  <2> QED
    BY <1>5, <2>1, <2>2 DEF NclWrite, WrittenOnce, Writers
<1>6. ASSUME NEW w \in Writers, NEW r \in Outgoing, ReadOut(w, r) PROVE ShownWasRight'
  BY <1>6 DEF ReadOut
<1>7. ASSUME NEW w \in Writers, ReadIn(w) PROVE ShownWasRight'
  BY <1>7 DEF ReadIn
<1>8. ASSUME NEW w \in Writers, Insert(w) PROVE ShownWasRight'
  <2>1. job[w] \in Outgoing \cap spent /\ Author[job[w]] = w
    BY <1>8, InsertIs
  <2>2. PICK n \in Nat :
          /\ n > mark /\ n > 0 /\ n % 2 = 1
          /\ \A x \in Outgoing : seqOut[x] # n
          /\ seqOut' = [seqOut EXCEPT ![job[w]] = n]
          /\ shown' = IF w = "tools" THEN shown \cup {<<n, job[w]>>} ELSE shown
    BY <1>8, InsertIs
  <2>3. seqOut[job[w]] = 0
    BY <1>8 DEF Insert, WrittenOnce
  <2> QED
    BY <1>8, <2>1, <2>2, <2>3 DEF Insert, ShownWasRight
<1>9. ASSUME NEW w \in Writers, Refuse(w) PROVE ShownWasRight'
  BY <1>9 DEF Refuse
<1>10. ASSUME EndTurn PROVE ShownWasRight'
  BY <1>10 DEF EndTurn
<1>11. ASSUME Restart PROVE ShownWasRight'
  BY <1>11 DEF Restart
<1>12. CASE UNCHANGED vars
  BY <1>12 DEF vars
<1> QED
  BY <1>1, <1>2, <1>3, <1>4, <1>5, <1>6, <1>7, <1>8,
     <1>9, <1>10, <1>11, <1>12 DEF Next

\* The container writes above the mark; a turn ends with the mark above all rows.
LEMMA WindowStep == SInv /\ [Next]_vars => WindowIsTheTurn'
<1> SUFFICES ASSUME SInv, [Next]_vars PROVE WindowIsTheTurn'
  OBVIOUS
<1> USE SeqAssumption DEF SInv, TypeOK, WindowIsTheTurn
<1>1. ASSUME NEW m \in Incoming, HostInsert(m) PROVE WindowIsTheTurn'
  BY <1>1 DEF HostInsert
<1>2. ASSUME NEW m \in Incoming, HostDelete(m) PROVE WindowIsTheTurn'
  BY <1>2 DEF HostDelete
<1>3. ASSUME NEW m \in Incoming, Show(m) PROVE WindowIsTheTurn'
  BY <1>3 DEF Show
<1>4. ASSUME NEW r \in Outgoing, Deny(r) PROVE WindowIsTheTurn'
  <2>1. Author[r] \notin Writers /\ r \notin spent
    BY <1>4, OutsideWriteIs
  <2>2. PICK n \in Nat :
          /\ n > 0 /\ \A x \in Outgoing : seqOut[x] < n
          /\ Author[r] # "gate" => n % 2 = 1
          /\ seqOut' = [seqOut EXCEPT ![r] = n]
    BY <1>4, OutsideWriteIs
  <2> QED
    BY <1>4, <2>1, <2>2 DEF Deny, WindowIsTheTurn
<1>5. ASSUME NEW r \in Outgoing, NclWrite(r) PROVE WindowIsTheTurn'
  <2>1. Author[r] \notin Writers /\ r \notin spent
    BY <1>5, OutsideWriteIs
  <2>2. PICK n \in Nat :
          /\ n > 0 /\ \A x \in Outgoing : seqOut[x] < n
          /\ Author[r] # "gate" => n % 2 = 1
          /\ seqOut' = [seqOut EXCEPT ![r] = n]
    BY <1>5, OutsideWriteIs
  <2> QED
    BY <1>5, <2>1, <2>2 DEF NclWrite, WindowIsTheTurn
<1>6. ASSUME NEW w \in Writers, NEW r \in Outgoing, ReadOut(w, r) PROVE WindowIsTheTurn'
  BY <1>6 DEF ReadOut
<1>7. ASSUME NEW w \in Writers, ReadIn(w) PROVE WindowIsTheTurn'
  BY <1>7 DEF ReadIn
<1>8. ASSUME NEW w \in Writers, Insert(w) PROVE WindowIsTheTurn'
  <2>1. job[w] \in Outgoing \cap spent /\ Author[job[w]] = w
    BY <1>8, InsertIs
  <2>2. PICK n \in Nat :
          /\ n > mark /\ n > 0 /\ n % 2 = 1
          /\ \A x \in Outgoing : seqOut[x] # n
          /\ seqOut' = [seqOut EXCEPT ![job[w]] = n]
          /\ shown' = IF w = "tools" THEN shown \cup {<<n, job[w]>>} ELSE shown
    BY <1>8, InsertIs
  <2> QED
    BY <1>8, <2>1, <2>2 DEF Insert, WindowIsTheTurn
<1>9. ASSUME NEW w \in Writers, Refuse(w) PROVE WindowIsTheTurn'
  BY <1>9 DEF Refuse
<1>10. ASSUME EndTurn PROVE WindowIsTheTurn'
  <2>1. PICK n \in Top(seqOut) : mark' = n
    BY <1>10 DEF EndTurn, NewMark
  <2>2. n \in Nat /\ \A x \in Outgoing : seqOut[x] <= n
    BY TopIs
  <2> QED
    BY <1>10, <2>1, <2>2 DEF EndTurn
<1>11. ASSUME Restart PROVE WindowIsTheTurn'
  <2>1. PICK n \in Top(seqOut) : mark' = n
    BY <1>11 DEF Restart
  <2>2. n \in Nat /\ \A x \in Outgoing : seqOut[x] <= n
    BY TopIs
  <2> QED
    BY <1>11, <2>1, <2>2 DEF Restart
<1>12. CASE UNCHANGED vars
  BY <1>12 DEF vars
<1> QED
  BY <1>1, <1>2, <1>3, <1>4, <1>5, <1>6, <1>7, <1>8,
     <1>9, <1>10, <1>11, <1>12 DEF Next

\* The empty session is numbered.
LEMMA InitSInv == Init => SInv
<1>1. 0 \in Even
  BY DEF Even
<1> QED
  BY <1>1, SeqAssumption DEF Init, SInv, TypeOK, NumbersApart, Present, WrittenOnce,
       MarkReached, ShownWasRight, WindowIsTheTurn, Writers

\* Every step keeps the numbering.
LEMMA SInvStep == SInv /\ [Next]_vars => SInv'
BY TypeStep, NumbersApartStep, WrittenOnceStep, MarkReachedStep,
   ShownWasRightStep, WindowStep DEF SInv

\* The numbering of a session: SInv holds in every reachable state, for any
\* number of rows of any authors.
THEOREM Numbered == Spec => []SInv
BY InitSInv, SInvStep, PTL DEF Spec

\* The numbers are typed.
LEMMA TypedNumbers == SInv => TypeOK
BY DEF SInv

\* The types of SeqNumbers, the even numbers of the host among them.
THEOREM TypeCorrect == Spec => []TypeOK
<1>1. SInv => TypeOK
  BY TypedNumbers
<1> QED
  BY <1>1, Numbered, PTL

\* A number that was shown names one message.
LEMMA ResolvedIds == SInv => IdsResolve
<1> SUFFICES ASSUME SInv, NEW e \in shown, Exists(e[2]) PROVE GetBySeq(e[1]) = e[2]
  BY DEF IdsResolve
<1> USE SeqAssumption DEF SInv, TypeOK, Rows
<1>1. CASE e[2] \in Incoming
  <2>1. seqIn[e[2]] > 0 /\ seqIn[e[2]] = e[1]
    BY <1>1 DEF ShownWasRight, Exists, Present
  <2>2. \A m \in Incoming : seqIn[m] = e[1] => m = e[2]
    BY <1>1, <2>1 DEF NumbersApart, Present
  <2> QED
    BY <1>1, <2>1, <2>2 DEF GetBySeq
<1>2. CASE e[2] \in Outgoing
  <2>1. seqOut[e[2]] = e[1] /\ e[1] > 0 /\ Author[e[2]] = "tools" /\ e[2] \in Present(seqOut)
    BY <1>2 DEF ShownWasRight, Present
  <2>2. e[1] % 2 = 1
    BY <1>2, <2>1 DEF NumbersApart
  <2>3. \A m \in Incoming : seqIn[m] # e[1]
    BY <2>2 DEF Even
  <2>4. \A r \in Outgoing : seqOut[r] = e[1] => r = e[2]
    BY <1>2, <2>1 DEF NumbersApart
  <2> QED
    BY <1>2, <2>1, <2>3, <2>4 DEF GetBySeq
<1> QED
  BY <1>1, <1>2

\* The ids of messages-out.ts are unambiguous: whatever was given to the agent
\* resolves to the same message as long as that exists.
THEOREM IdsUnambiguous == Spec => []IdsResolve
<1>1. SInv => IdsResolve
  BY ResolvedIds
<1> QED
  BY <1>1, Numbered, PTL

\* The window is part of the invariant.
LEMMA ExactWindow == SInv => WindowIsTheTurn
BY DEF SInv

\* The window above turnStartSeq is the turn: poll-loop.ts decides by it.
THEOREM WindowExact == Spec => []WindowIsTheTurn
<1>1. SInv => WindowIsTheTurn
  BY ExactWindow
<1> QED
  BY <1>1, Numbered, PTL

-----------------------------------------------------------------------------
(* The update, for any number of migrations and deaths of the tool. *)

\* Where the update command may be.
CutoverSteps == {"drain", "copy", "copying", "restart"}
TargetSteps == {"reset", "build", "building"}
UndoSteps == {"undo", "unreset", "restore", "restoring", "rebuild", "resume"}
Stopping == {"unreset", "restore", "restoring", "rebuild", "resume"}
UpTypes ==
  UpTypeOK /\ relapsed \in BOOLEAN
  /\ tool \in {"idle", "merge", "start"} \cup CutoverSteps \cup TargetSteps \cup UndoSteps

\* A snapshot is recorded with the service's state, and from a checkout that was
\* the original one, unless a cutover was accepted over an earlier snapshot.
SnapSound ==
  /\ hasSnap => captured # "unset" /\ copy # "none" /\ (copy = "old" \/ relapsed)
  /\ copy # "new"

\* Before it the live checkout is the original one.
LiveUntouched ==
  ~hasSnap /\ upPhase # "pruned" => head = "old" /\ dist = "old" /\ files = "old" /\ marker = "old"

\* What the tool does belongs to the phase, and the tool remembers what state.json does.
ToolKnows ==
  /\ upPhase \in {"cutover", "complete", "rolledback"} => hasSnap
  /\ tool = "merge" => upPhase = "prepared"
  /\ tool \in CutoverSteps => upPhase = "validated" /\ target # "none" /\ (relapsed \/ ~hasSnap)
  /\ tool \in TargetSteps => upPhase = "validated" /\ target # "none"
  /\ tool = "start" => upPhase = "cutover"
  /\ tool \in TargetSteps \cup UndoSteps \cup {"start"} => hasSnap /\ was = captured

\* The rollback, step by step.
UndoSound ==
  /\ tool \in Stopping => (was = "up" => service = "down")
  /\ tool \in {"restore", "restoring", "rebuild", "resume"} => head = "old"
  /\ tool \in {"rebuild", "resume"} => files # "new" /\ (files = "old" \/ relapsed)
  /\ tool = "restoring" => files = "torn"
  /\ tool = "resume" => dist = "old"

\* The new version has run only where it was built and its marker stamped; torn
\* files have no marker.
FilesSound ==
  /\ upPhase \in {"none", "conflict", "prepared", "validated"} => dist # "new" /\ files # "new"
  /\ dist = "old" => files # "new"
  /\ files = "torn" => marker = "none" \/ relapsed
  /\ RestoredAtRest

UpInv == UpTypes /\ SnapSound /\ LiveUntouched /\ ToolKnows /\ UndoSound /\ FilesSound

\* An update that has not begun.
LEMMA InitUpInv == InitUpdate => UpInv
<1> SUFFICES ASSUME InitUpdate PROVE UpInv
  OBVIOUS
<1>0. hasSnap \in BOOLEAN /\ refs \in BOOLEAN /\ botched \in BOOLEAN /\ relapsed \in BOOLEAN
  BY Zenon DEF InitUpdate
<1>1. UpTypes
  BY <1>0, UpdateConstants DEF InitUpdate, UpTypes, UpTypeOK
<1>2. SnapSound /\ LiveUntouched
  BY DEF InitUpdate, SnapSound, LiveUntouched
<1>3. ToolKnows /\ UndoSound
  BY DEF InitUpdate, ToolKnows, UndoSound, CutoverSteps, TargetSteps, UndoSteps, Stopping
<1>4. FilesSound
  BY DEF InitUpdate, FilesSound, RestoredAtRest
<1> QED
  BY <1>1, <1>2, <1>3, <1>4 DEF UpInv

\* One case for every command, every step of the tool, its death and the service's start.
LEMMA UpInvStep == UpInv /\ [NextUpdate]_updateVars => UpInv'
<1> SUFFICES ASSUME UpInv, [NextUpdate]_updateVars PROVE UpInv'
  OBVIOUS
<1> USE UpdateConstants DEF UpInv, UpTypes, UpTypeOK, SnapSound, LiveUntouched, ToolKnows, UndoSound, FilesSound, RestoredAtRest, CutoverSteps, TargetSteps, UndoSteps, Stopping, stateFile, worktree, live, At, Goes
<1>1. CASE MergeUpstream
  BY <1>1 DEF MergeUpstream, RefreshPrepared
<1>2. CASE DrainContainers
  BY <1>2 DEF DrainContainers, CutoverFails
<1>3. CASE CopyBegins
  BY <1>3 DEF CopyBegins
<1>4. CASE CopyEnds
  <2>0. (hasSnap \in BOOLEAN /\ refs \in BOOLEAN /\ botched \in BOOLEAN /\ relapsed \in BOOLEAN)'
    BY <1>4, Zenon DEF CopyEnds, CutoverFails
  <2>1. UpTypes'
    BY <1>4, <2>0 DEF CopyEnds, CutoverFails
  <2>2. SnapSound'
    BY <1>4 DEF CopyEnds, CutoverFails
  <2>3. LiveUntouched'
    BY <1>4 DEF CopyEnds, CutoverFails
  <2>4. ToolKnows'
    BY <1>4 DEF CopyEnds, CutoverFails
  <2>5. UndoSound'
    BY <1>4 DEF CopyEnds, CutoverFails
  <2>6. FilesSound'
    BY <1>4 DEF CopyEnds, CutoverFails
  <2> QED
    BY <2>1, <2>2, <2>3, <2>4, <2>5, <2>6 DEF UpInv
<1>5. CASE RestartService
  <2>0. (hasSnap \in BOOLEAN /\ refs \in BOOLEAN /\ botched \in BOOLEAN /\ relapsed \in BOOLEAN)'
    BY <1>5, Zenon DEF RestartService, Runnable, UpgradeCurrent
  <2>1. UpTypes'
    BY <1>5, <2>0 DEF RestartService, Runnable, UpgradeCurrent
  <2>2. SnapSound'
    BY <1>5 DEF RestartService, Runnable, UpgradeCurrent
  <2>3. LiveUntouched'
    BY <1>5 DEF RestartService, Runnable, UpgradeCurrent
  <2>4. ToolKnows'
    BY <1>5 DEF RestartService, Runnable, UpgradeCurrent
  <2>5. UndoSound'
    BY <1>5 DEF RestartService, Runnable, UpgradeCurrent
  <2>6. FilesSound'
    BY <1>5 DEF RestartService, Runnable, UpgradeCurrent
  <2> QED
    BY <2>1, <2>2, <2>3, <2>4, <2>5, <2>6 DEF UpInv
<1>6. CASE ResetToTarget
  BY <1>6 DEF ResetToTarget
<1>7. CASE BuildTarget
  BY <1>7 DEF BuildTarget
<1>8. CASE TargetBuilt
  BY <1>8 DEF TargetBuilt
<1>9. CASE StopForRollback
  <2>0. (hasSnap \in BOOLEAN /\ refs \in BOOLEAN /\ botched \in BOOLEAN /\ relapsed \in BOOLEAN)'
    BY <1>9, Zenon DEF StopForRollback, Stopped
  <2>1. UpTypes'
    BY <1>9, <2>0 DEF StopForRollback, Stopped
  <2>2. SnapSound'
    BY <1>9 DEF StopForRollback, Stopped
  <2>3. LiveUntouched'
    BY <1>9 DEF StopForRollback, Stopped
  <2>4. ToolKnows'
    BY <1>9 DEF StopForRollback, Stopped
  <2>5. UndoSound'
    BY <1>9 DEF StopForRollback, Stopped
  <2>6. FilesSound'
    BY <1>9 DEF StopForRollback, Stopped
  <2> QED
    BY <2>1, <2>2, <2>3, <2>4, <2>5, <2>6 DEF UpInv
<1>10. CASE ResetToOriginal
  BY <1>10 DEF ResetToOriginal
<1>11. CASE RestoreBegins
  BY <1>11 DEF RestoreBegins
<1>12. CASE RestoreEnds
  BY <1>12 DEF RestoreEnds
<1>13. CASE Rebuild
  <2>0. (hasSnap \in BOOLEAN /\ refs \in BOOLEAN /\ botched \in BOOLEAN /\ relapsed \in BOOLEAN)'
    BY <1>13, Zenon DEF Rebuild
  <2>1. UpTypes'
    BY <1>13, <2>0 DEF Rebuild
  <2>2. SnapSound'
    BY <1>13 DEF Rebuild
  <2>3. LiveUntouched'
    BY <1>13 DEF Rebuild
  <2>4. ToolKnows'
    BY <1>13 DEF Rebuild
  <2>5. UndoSound'
    BY <1>13 DEF Rebuild
  <2>6. FilesSound'
    BY <1>13 DEF Rebuild
  <2> QED
    BY <2>1, <2>2, <2>3, <2>4, <2>5, <2>6 DEF UpInv
<1>14. CASE ResumeService
  <2>0. (hasSnap \in BOOLEAN /\ refs \in BOOLEAN /\ botched \in BOOLEAN /\ relapsed \in BOOLEAN)'
    BY <1>14, Zenon DEF ResumeService, Runnable, UpgradeCurrent
  <2>1. UpTypes'
    BY <1>14, <2>0 DEF ResumeService, Runnable, UpgradeCurrent
  <2>2. SnapSound'
    BY <1>14 DEF ResumeService, Runnable, UpgradeCurrent
  <2>3. LiveUntouched'
    BY <1>14 DEF ResumeService, Runnable, UpgradeCurrent
  <2>4. ToolKnows'
    BY <1>14 DEF ResumeService, Runnable, UpgradeCurrent
  <2>5. UndoSound'
    BY <1>14 DEF ResumeService, Runnable, UpgradeCurrent
  <2>6. FilesSound'
    BY <1>14 DEF ResumeService, Runnable, UpgradeCurrent
  <2> QED
    BY <2>1, <2>2, <2>3, <2>4, <2>5, <2>6 DEF UpInv
<1>15. CASE StartUpdated
  BY <1>15 DEF StartUpdated, Runnable, UpgradeCurrent
<1>16. CASE Prepare
  BY <1>16 DEF Prepare
<1>17. CASE ResolveConflict
  BY <1>17 DEF ResolveConflict
<1>18. CASE ResumePrepared
  BY <1>18 DEF ResumePrepared, CleanStage, RefreshPrepared
<1>19. CASE Validate
  BY <1>19 DEF Validate, CleanStage, RefreshPrepared
<1>20. CASE StopForCutover
  BY <1>20 DEF StopForCutover
<1>21. CASE RollbackCommand
  BY <1>21 DEF RollbackCommand
<1>22. CASE StampMarker
  <2>0. (hasSnap \in BOOLEAN /\ refs \in BOOLEAN /\ botched \in BOOLEAN /\ relapsed \in BOOLEAN)'
    BY <1>22, Zenon DEF StampMarker
  <2>1. UpTypes'
    BY <1>22, <2>0 DEF StampMarker
  <2>2. SnapSound'
    BY <1>22 DEF StampMarker
  <2>3. LiveUntouched'
    BY <1>22 DEF StampMarker
  <2>4. ToolKnows'
    BY <1>22 DEF StampMarker
  <2>5. UndoSound'
    BY <1>22 DEF StampMarker
  <2>6. FilesSound'
    BY <1>22 DEF StampMarker
  <2> QED
    BY <2>1, <2>2, <2>3, <2>4, <2>5, <2>6 DEF UpInv
<1>23. CASE Cleanup
  BY <1>23 DEF Cleanup
<1>24. CASE Abandon
  <2>0. (hasSnap \in BOOLEAN /\ refs \in BOOLEAN /\ botched \in BOOLEAN /\ relapsed \in BOOLEAN)'
    BY <1>24, Zenon DEF Abandon
  <2>1. UpTypes'
    BY <1>24, <2>0 DEF Abandon
  <2>2. SnapSound'
    BY <1>24 DEF Abandon
  <2>3. LiveUntouched'
    BY <1>24 DEF Abandon
  <2>4. ToolKnows'
    BY <1>24 DEF Abandon
  <2>5. UndoSound'
    BY <1>24 DEF Abandon
  <2>6. FilesSound'
    BY <1>24 DEF Abandon
  <2> QED
    BY <2>1, <2>2, <2>3, <2>4, <2>5, <2>6 DEF UpInv
<1>25. CASE Prune
  <2>0. (hasSnap \in BOOLEAN /\ refs \in BOOLEAN /\ botched \in BOOLEAN /\ relapsed \in BOOLEAN)'
    BY <1>25, Zenon DEF Prune, Terminal
  <2>1. UpTypes'
    BY <1>25, <2>0 DEF Prune, Terminal
  <2>2. SnapSound'
    BY <1>25 DEF Prune, Terminal
  <2>3. LiveUntouched'
    BY <1>25 DEF Prune, Terminal
  <2>4. ToolKnows'
    BY <1>25 DEF Prune, Terminal
  <2>5. UndoSound'
    BY <1>25 DEF Prune, Terminal
  <2>6. FilesSound'
    BY <1>25 DEF Prune, Terminal
  <2> QED
    BY <2>1, <2>2, <2>3, <2>4, <2>5, <2>6 DEF UpInv
<1>26. CASE ServiceStarts
  <2>0. (hasSnap \in BOOLEAN /\ refs \in BOOLEAN /\ botched \in BOOLEAN /\ relapsed \in BOOLEAN)'
    BY <1>26, Zenon DEF ServiceStarts, Runnable, UpgradeCurrent
  <2>1. UpTypes'
    BY <1>26, <2>0 DEF ServiceStarts, Runnable, UpgradeCurrent
  <2>2. SnapSound'
    BY <1>26 DEF ServiceStarts, Runnable, UpgradeCurrent
  <2>3. LiveUntouched'
    BY <1>26 DEF ServiceStarts, Runnable, UpgradeCurrent
  <2>4. ToolKnows'
    BY <1>26 DEF ServiceStarts, Runnable, UpgradeCurrent
  <2>5. UndoSound'
    BY <1>26 DEF ServiceStarts, Runnable, UpgradeCurrent
  <2>6. FilesSound'
    BY <1>26 DEF ServiceStarts, Runnable, UpgradeCurrent
  <2> QED
    BY <2>1, <2>2, <2>3, <2>4, <2>5, <2>6 DEF UpInv
<1>27. CASE ToolDies
  BY <1>27 DEF ToolDies
<1>28. CASE \E r \in Migrations : Acknowledge(r)
  BY <1>28 DEF Acknowledge
<1>29. CASE UNCHANGED updateVars
  BY <1>29 DEF updateVars
<1> QED
  BY <1>1, <1>2, <1>3, <1>4, <1>5, <1>6, <1>7, <1>8, <1>9, <1>10, <1>11, <1>12, <1>13, <1>14, <1>15, <1>16, <1>17, <1>18, <1>19, <1>20, <1>21, <1>22, <1>23, <1>24, <1>25, <1>26, <1>27, <1>28, <1>29 DEF NextUpdate, ToolStep

\* The inductive invariant of the update (transaction.ts).
THEOREM UpdateInvariant == UpdateSpec => []UpInv
BY InitUpInv, UpInvStep, PTL DEF UpdateSpec

\* The invariant of the update types its variables.
LEMMA UpInvTypes == UpInv => UpTypeOK
BY DEF UpInv, UpTypes

\* The values of the update's variables: state.json, the disk, the processes.
THEOREM UpdateTypes == UpdateSpec => []UpTypeOK
<1>1. UpInv => UpTypeOK
  BY UpInvTypes
<1> QED
  BY <1>1, UpdateInvariant, PTL

\* What the invariant of the update says of files, versions and snapshots.
LEMMA UpInvIsSafe == UpInv => UpdateSafety
<1> SUFFICES ASSUME UpInv PROVE UpdateSafety
  OBVIOUS
<1>1. OldNeverOnNew
  BY DEF UpInv, FilesSound, OldNeverOnNew
<1>2. RestoredAtRest
  BY DEF UpInv, FilesSound
<1>3. Undoable
  BY DEF UpInv, UpTypes, UpTypeOK, SnapSound, LiveUntouched, Undoable
<1> QED
  BY <1>1, <1>2, <1>3 DEF UpdateSafety

\* The old version never runs on migrated files, no files are replaced under a
\* running service, and what is to be rolled back has its snapshot.
THEOREM UpdateIsSafe == UpdateSpec => []UpdateSafety
<1>1. UpInv => UpdateSafety
  BY UpInvIsSafe
<1> QED
  BY <1>1, UpdateInvariant, PTL

\* Only the last step of a rollback reports it.
LEMMA OnlyResumeReports ==
  ASSUME UpInv, NextUpdate, upPhase' = "rolledback", upPhase # "rolledback"
  PROVE  ResumeService
<1> USE DEF stateFile, worktree, live, At, Goes
<1>1. ~ToolStep \/ ResumeService
  BY DEF ToolStep, MergeUpstream, RefreshPrepared, DrainContainers, CutoverFails, CopyBegins, CopyEnds,
         RestartService, ResetToTarget, BuildTarget, TargetBuilt, StopForRollback, ResetToOriginal,
         RestoreBegins, RestoreEnds, Rebuild, StartUpdated
<1>2. ~Prepare /\ ~ResolveConflict /\ ~ResumePrepared /\ ~Validate /\ ~StopForCutover
  BY DEF Prepare, ResolveConflict, ResumePrepared, CleanStage, RefreshPrepared, Validate, StopForCutover
<1>3. ~RollbackCommand /\ ~(\E r \in Migrations : Acknowledge(r)) /\ ~StampMarker /\ ~Cleanup
  BY DEF RollbackCommand, Acknowledge, StampMarker, Cleanup
<1>4. ~Abandon /\ ~Prune /\ ~ServiceStarts /\ ~ToolDies
  BY DEF Abandon, Prune, ServiceStarts, ToolDies
<1> QED
  BY <1>1, <1>2, <1>3, <1>4 DEF NextUpdate

\* The step that reports a rollback.
LEMMA RollbackStep == UpInv /\ [NextUpdate]_updateVars =>
      [upPhase' = "rolledback" /\ upPhase # "rolledback" =>
         /\ head = "old" /\ dist = "old"
         /\ files = "old" \/ relapsed
         /\ captured = "up" => service' = "up"]_updateVars
<1> SUFFICES ASSUME UpInv, NextUpdate, upPhase' = "rolledback", upPhase # "rolledback"
             PROVE  /\ head = "old" /\ dist = "old"
                    /\ files = "old" \/ relapsed
                    /\ captured = "up" => service' = "up"
  OBVIOUS
<1>1. ResumeService
  BY OnlyResumeReports
<1>2. head = "old" /\ dist = "old" /\ (files = "old" \/ relapsed) /\ was = captured
  BY <1>1 DEF ResumeService, At, UpInv, ToolKnows, UndoSound, UndoSteps
<1>3. captured = "up" => service' = "up"
  BY <1>1, <1>2 DEF ResumeService
<1> QED
  BY <1>2, <1>3

\* A rollback that is reported has restored checkout, build, files and service
\* (transaction.ts:412-428).
THEOREM RollbackIsWhole == UpdateSpec => RolledBackWhole
<1>1. UpInv /\ [NextUpdate]_updateVars =>
        [upPhase' = "rolledback" /\ upPhase # "rolledback" =>
           /\ head = "old" /\ dist = "old"
           /\ files = "old" \/ relapsed
           /\ captured = "up" => service' = "up"]_updateVars
  BY RollbackStep
<1> QED
  BY <1>1, UpdateInvariant, PTL DEF UpdateSpec, RolledBackWhole

-----------------------------------------------------------------------------
(* Questions, for any number of questions, taps and failures. *)

\* The way of a tap.
TapSteps == {"pressed", "read", "shown", "claimed", "wrote", "done", "lost"}
TapRecords == [q : Asked, c : Nat, o : Options, known : BOOLEAN, at : TapSteps]

\* The types, with what every sequence and tap is made of.
QuTypes ==
  /\ asker \in [Asked -> {"idle", "waits", "told", "late", "dead"}]
  /\ told \in [Asked -> Picked \cup {Nothing}]
  /\ card \in [Asked -> {"none", "due", "sent", "failed"}]
  /\ attempts \in [Asked -> 0 .. MaxAttempts - 1] /\ posting \in [Asked -> {"no", "row", "up"}]
  /\ qRow \in [Asked -> BOOLEAN]
  /\ faces \in [Asked -> Seq(Picked \cup {Buttons})] /\ replies \in [Asked -> Seq(Picked)]
  /\ tap \in [Taps -> TapRecords \cup {NoTap}]
  /\ acked \subseteq Asked \X {1}
  /\ sessionGone \in BOOLEAN /\ quFaults \in 0 .. MaxQuFaults

Answered(q) == replies[q] # <<>>
Answerable(q) == qRow[q] \/ Answered(q) \/ sessionGone

\* A card exists for a question that was asked, a copy of it for a card, and an answer for a copy.
QuestionOrder ==
  \A q \in Asked :
    /\ asker[q] = "idle" => card[q] = "none"
    /\ card[q] = "none" => posting[q] = "no" /\ faces[q] = <<>>
    /\ faces[q] = <<>> => ~Answered(q)

\* A card that is about to go up or is up has its row, an answer, or no group.
CardsAnswerable == \A q \in Asked : posting[q] # "no" \/ faces[q] # <<>> => Answerable(q)

\* A deleted group has no rows.
GoneIsGone == sessionGone => \A q \in Asked : ~qRow[q]

\* A tap is on a copy of its card; one that did not find the row came after an
\* answer, or its group is gone; one that is through has left an answer.
TapSound(k) ==
  tap[k] # NoTap =>
    /\ tap[k].c \in DOMAIN faces[tap[k].q]
    /\ tap[k].at \notin {"pressed", "lost"} /\ ~tap[k].known => Answered(tap[k].q) \/ sessionGone
    /\ tap[k].at = "claimed" /\ ~tap[k].known => Answered(tap[k].q)
    /\ tap[k].at = "wrote" => Answered(tap[k].q)
    /\ tap[k].at = "done" => Answered(tap[k].q) \/ sessionGone
TapsSound == \A k \in Taps : TapSound(k)

\* The first answer is an option, and it is the one the tool has taken.
FirstIsOption ==
  \A q \in Asked :
    /\ Answered(q) => ~replies[q][1].raw
    /\ asker[q] = "told" => ~told[q].raw /\ <<q, 1>> \in acked

QuInv == QuTypes /\ QuestionOrder /\ CardsAnswerable /\ GoneIsGone /\ TapsSound /\ FirstIsOption

\* The first element of a sequence.
LEMMA FirstIs ==
  ASSUME NEW S, NEW s \in Seq(S), s # <<>> PROVE Head(s) = s[1] /\ s[1] \in S /\ 1 \in DOMAIN s
  OBVIOUS

\* A sequence with an element added keeps its first one.
LEMMA AppendedIs ==
  ASSUME NEW S, NEW s \in Seq(S), NEW e \in S
  PROVE  /\ Append(s, e) \in Seq(S) /\ Append(s, e) # <<>> /\ DOMAIN s \subseteq DOMAIN Append(s, e)
         /\ Append(s, e)[1] = IF s = <<>> THEN e ELSE s[1]
  OBVIOUS

\* A sequence with one element replaced.
LEMMA ReplacedIs ==
  ASSUME NEW S, NEW s \in Seq(S), NEW i \in DOMAIN s, NEW e \in S
  PROVE  /\ [s EXCEPT ![i] = e] \in Seq(S)
         /\ DOMAIN [s EXCEPT ![i] = e] = DOMAIN s /\ [s EXCEPT ![i] = e] # <<>>
<1>1. s \in [1 .. Len(s) -> S] /\ Len(s) \in Nat
  OBVIOUS
<1>2. [s EXCEPT ![i] = e] \in [1 .. Len(s) -> S]
  BY <1>1
<1> QED
  BY <1>1, <1>2

\* The types as the model states them.
LEMMA QuTypesAre == QuTypes => QuTypeOK
  BY DEF QuTypes, QuTypeOK, TapRecords, TapSteps

\* What a tap on its way is, and what it chooses.
LEMMA TapIs ==
  ASSUME QuTypes, NEW k \in Taps, tap[k] # NoTap
  PROVE  /\ tap[k] \in TapRecords /\ tap[k].q \in Asked /\ tap[k].c \in Nat /\ tap[k].o \in Options
         /\ tap[k].known \in BOOLEAN /\ tap[k].at \in TapSteps
         /\ Chosen(k) \in Picked /\ (tap[k].known => ~Chosen(k).raw)
<1>1. tap[k] \in TapRecords
  BY DEF QuTypes
<1>2. tap[k].q \in Asked /\ tap[k].c \in Nat /\ tap[k].o \in Options /\ tap[k].known \in BOOLEAN
      /\ tap[k].at \in TapSteps
  BY <1>1 DEF TapRecords
<1>3. Chosen(k) \in Picked /\ (tap[k].known => ~Chosen(k).raw)
  BY <1>2 DEF Chosen, Picked, Value, Index
<1> QED
  BY <1>1, <1>2, <1>3

\* A step of a tap: where it is on its way, and nothing else.
LEMMA TapGoesIs ==
  ASSUME QuTypes, NEW k \in Taps, tap[k] # NoTap, NEW s \in TapSteps, TapGoes(k, s)
  PROVE  /\ tap' \in [Taps -> TapRecords \cup {NoTap}] /\ \A l \in Taps \ {k} : tap'[l] = tap[l]
         /\ tap'[k].q = tap[k].q /\ tap'[k].c = tap[k].c /\ tap'[k].known = tap[k].known /\ tap'[k].at = s
<1>1. tap[k] \in TapRecords
  BY TapIs
<1>2. [tap[k] EXCEPT !.at = s] \in TapRecords
  BY <1>1 DEF TapRecords
<1>3. tap \in [Taps -> TapRecords \cup {NoTap}] /\ tap' = [tap EXCEPT ![k] = [tap[k] EXCEPT !.at = s]]
  BY DEF QuTypes, TapGoes
<1>4. tap'[k] = [tap[k] EXCEPT !.at = s] /\ \A l \in Taps \ {k} : tap'[l] = tap[l]
  BY <1>3
<1> QED
  BY <1>1, <1>2, <1>3, <1>4 DEF TapRecords

\* What a failed post leaves of the attempts.
LEMMA PostFailsIs ==
  ASSUME QuTypes, NEW q \in Asked, PostFails(q) PROVE attempts' \in [Asked -> 0 .. MaxAttempts - 1]
<1>1. MaxAttempts \in Nat /\ MaxAttempts > 0
  BY QuestionConstants
<1>2. attempts \in [Asked -> 0 .. MaxAttempts - 1] /\ attempts[q] \in 0 .. MaxAttempts - 1
  BY DEF QuTypes
<1>3. \/ attempts' = [attempts EXCEPT ![q] = 0]
      \/ attempts[q] + 1 < MaxAttempts /\ attempts' = [attempts EXCEPT ![q] = attempts[q] + 1]
  <2>1. CASE attempts[q] + 1 >= MaxAttempts
    BY <2>1 DEF PostFails
  <2>2. CASE ~(attempts[q] + 1 >= MaxAttempts)
    <3>1. attempts[q] + 1 < MaxAttempts
      BY <1>1, <1>2, <2>2
    <3>2. attempts' = [attempts EXCEPT ![q] = attempts[q] + 1]
      BY <2>2 DEF PostFails
    <3> QED
      BY <3>1, <3>2
  <2> QED
    BY <2>1, <2>2
<1> QED
  BY <1>1, <1>2, <1>3

\* A choice that is shown changes a copy of the card, and no card has more or fewer of them.
LEMMA ShowChoiceIs ==
  ASSUME QuTypes, NEW k \in Taps, tap[k] # NoTap, tap[k].c \in DOMAIN faces[tap[k].q], ShowChoice(k)
  PROVE  /\ faces' \in [Asked -> Seq(Picked \cup {Buttons})]
         /\ \A q \in Asked : DOMAIN faces'[q] = DOMAIN faces[q] /\ (faces'[q] = <<>> <=> faces[q] = <<>>)
<1> DEFINE S == Picked \cup {Buttons}
           q == tap[k].q
           new == [faces[q] EXCEPT ![tap[k].c] = Chosen(k)]
<1>1. q \in Asked /\ Chosen(k) \in S /\ faces \in [Asked -> Seq(S)]
  BY TapIs DEF QuTypes
<1>2. faces' = faces \/ faces' = [faces EXCEPT ![q] = new]
  BY DEF ShowChoice
<1>3. tap[k].c \in DOMAIN faces[q]
  OBVIOUS
<1> HIDE DEF S, q
<1>4. faces[q] \in Seq(S)
  BY <1>1
<1>5. new \in Seq(S) /\ DOMAIN new = DOMAIN faces[q] /\ new # <<>>
  BY <1>1, <1>3, <1>4, ReplacedIs
<1>6. faces[q] # <<>>
  BY <1>3, <1>4
<1> HIDE DEF new
<1>7. faces' \in [Asked -> Seq(S)]
  BY <1>1, <1>2, <1>5
<1>8. ASSUME NEW x \in Asked PROVE DOMAIN faces'[x] = DOMAIN faces[x] /\ (faces'[x] = <<>> <=> faces[x] = <<>>)
  BY <1>1, <1>2, <1>5, <1>6
<1> QED
  BY <1>7, <1>8 DEF S

\* An answer is appended to those of its question, if it is written at all.
LEMMA WriteAnswerIs ==
  ASSUME QuTypes, NEW k \in Taps, WriteAnswer(k)
  PROVE  /\ replies' \in [Asked -> Seq(Picked)]
         /\ \A q \in Asked : Answered(q) => replies'[q] # <<>> /\ replies'[q][1] = replies[q][1]
         /\ \A q \in Asked : ~Answered(q) /\ replies'[q] # <<>> => q = tap[k].q /\ replies'[q][1] = Chosen(k)
         /\ replies'[tap[k].q] # <<>> \/ (sessionGone /\ tap'[k].at = "done")
<1> DEFINE q == tap[k].q
           more == Append(replies[q], Chosen(k))
<1>1. tap[k] # NoTap /\ q \in Asked /\ Chosen(k) \in Picked /\ replies \in [Asked -> Seq(Picked)]
  BY TapIs DEF WriteAnswer, TapAt, QuTypes
<1>2. \/ replies' = replies /\ sessionGone /\ TapGoes(k, "done")
      \/ replies' = replies /\ replies[q] # <<>>
      \/ replies' = [replies EXCEPT ![q] = more]
  BY DEF WriteAnswer
<1>3. TapGoes(k, "done") => tap'[k].at = "done"
  BY <1>1, TapGoesIs DEF TapSteps
<1> HIDE DEF q
<1>4. replies[q] \in Seq(Picked)
  BY <1>1
<1>5. more \in Seq(Picked) /\ more # <<>> /\ more[1] = IF replies[q] = <<>> THEN Chosen(k) ELSE replies[q][1]
  BY <1>1, <1>4, AppendedIs
<1> HIDE DEF more
<1>6. replies' \in [Asked -> Seq(Picked)]
  BY <1>1, <1>2, <1>5
<1>7. \A x \in Asked : Answered(x) => replies'[x] # <<>> /\ replies'[x][1] = replies[x][1]
  BY <1>1, <1>2, <1>5 DEF Answered
<1>8. \A x \in Asked : ~Answered(x) /\ replies'[x] # <<>> => x = q /\ replies'[x][1] = Chosen(k)
  BY <1>1, <1>2, <1>5 DEF Answered
<1>9. replies'[q] # <<>> \/ (sessionGone /\ tap'[k].at = "done")
  BY <1>1, <1>2, <1>3, <1>5
<1> QED
  BY <1>6, <1>7, <1>8, <1>9 DEF q

\* A crash loses the taps that are on their way.
LEMMA HostCrashesIs ==
  ASSUME QuTypes, HostCrashes
  PROVE  /\ tap' \in [Taps -> TapRecords \cup {NoTap}]
         /\ \A k \in Taps : tap'[k] = tap[k]
              \/ (tap[k] # NoTap /\ tap'[k].c = tap[k].c /\ tap'[k].q = tap[k].q /\ tap'[k].at = "lost")
<1>1. ASSUME NEW k \in Taps, tap[k] # NoTap
      PROVE  /\ [tap[k] EXCEPT !.at = "lost"] \in TapRecords
             /\ [tap[k] EXCEPT !.at = "lost"].c = tap[k].c /\ [tap[k] EXCEPT !.at = "lost"].q = tap[k].q
             /\ [tap[k] EXCEPT !.at = "lost"].at = "lost"
  <2>1. tap[k] \in TapRecords
    BY <1>1, TapIs
  <2> QED
    BY <2>1 DEF TapRecords, TapSteps
<1>2. ASSUME NEW k \in Taps
      PROVE  tap'[k] = tap[k] \/ (tap[k] # NoTap /\ tap'[k] = [tap[k] EXCEPT !.at = "lost"])
  BY DEF HostCrashes
<1>3. DOMAIN tap' = Taps /\ tap' = [k \in Taps |-> tap'[k]] /\ tap \in [Taps -> TapRecords \cup {NoTap}]
  BY DEF HostCrashes, QuTypes
<1>4. \A k \in Taps : tap'[k] \in TapRecords \cup {NoTap}
  BY <1>1, <1>2, <1>3
<1> QED
  BY ZenonT(60), <1>1, <1>2, <1>3, <1>4

\* No question has been asked.
LEMMA InitQuInv == InitQuestions => QuInv
<1> SUFFICES ASSUME InitQuestions PROVE QuInv
  OBVIOUS
<1> USE QuestionConstants DEF InitQuestions, Answered, Answerable
<1>1. QuTypes
  <2>1. attempts \in [Asked -> 0 .. MaxAttempts - 1] /\ quFaults \in 0 .. MaxQuFaults
    BY DEF QuTypes
  <2>2. qRow \in [Asked -> BOOLEAN] /\ sessionGone \in BOOLEAN
    BY DEF QuTypes
  <2>3. faces \in [Asked -> Seq(Picked \cup {Buttons})] /\ replies \in [Asked -> Seq(Picked)]
    BY DEF QuTypes
  <2> QED
    BY <2>1, <2>2, <2>3 DEF QuTypes
<1>2. QuestionOrder /\ CardsAnswerable /\ GoneIsGone
  BY DEF QuestionOrder, CardsAnswerable, GoneIsGone
<1>3. TapsSound /\ FirstIsOption
  BY DEF TapsSound, TapSound, FirstIsOption
<1> QED
  BY <1>1, <1>2, <1>3 DEF QuInv

\* One case for every step of the tool, the delivery, a tap and the host.
LEMMA QuInvStep == QuInv /\ [NextQuestions]_questionVars => QuInv'
<1> SUFFICES ASSUME QuInv, [NextQuestions]_questionVars PROVE QuInv'
  OBVIOUS
<1> USE QuestionConstants DEF QuInv, QuTypes, QuestionOrder, CardsAnswerable, GoneIsGone, TapsSound, TapSound,
                              FirstIsOption, delivery, agentSide, QuFault, TapAt, TapGoes, Answered, Answerable
<1>1. ASSUME NEW q \in Asked, Ask(q) PROVE QuInv'
  <2>1. QuTypes'
    BY <1>1 DEF Ask
  <2>2. QuestionOrder'
    BY <1>1 DEF Ask
  <2>3. CardsAnswerable'
    BY <1>1 DEF Ask
  <2>4. GoneIsGone'
    BY <1>1 DEF Ask
  <2>5. TapsSound'
    BY <1>1 DEF Ask
  <2>6. FirstIsOption'
    BY <1>1 DEF Ask
  <2> QED
    BY <2>1, <2>2, <2>3, <2>4, <2>5, <2>6 DEF QuInv
<1>2. ASSUME NEW q \in Asked, TakeAnswer(q) PROVE QuInv'
  <2>a. replies[q] \in Seq(Picked) /\ replies[q] # <<>>
    BY <1>2 DEF TakeAnswer, AnswerThere
  <2>b. Head(replies[q]) = replies[q][1] /\ replies[q][1] \in Picked
    BY <2>a, FirstIs
  <2>1. QuTypes'
    BY <1>2, <2>b DEF TakeAnswer
  <2>2. QuestionOrder'
    BY <1>2 DEF TakeAnswer
  <2>3. CardsAnswerable'
    BY <1>2 DEF TakeAnswer
  <2>4. GoneIsGone'
    BY <1>2 DEF TakeAnswer
  <2>5. TapsSound'
    BY <1>2 DEF TakeAnswer
  <2>6. FirstIsOption'
    BY <1>2, <2>a, <2>b DEF TakeAnswer
  <2> QED
    BY <2>1, <2>2, <2>3, <2>4, <2>5, <2>6 DEF QuInv
<1>3. ASSUME NEW q \in Asked, GivesUp(q) PROVE QuInv'
  <2>1. QuTypes'
    BY <1>3 DEF GivesUp
  <2>2. QuestionOrder'
    BY <1>3 DEF GivesUp
  <2>3. CardsAnswerable'
    BY <1>3 DEF GivesUp
  <2>4. GoneIsGone'
    BY <1>3 DEF GivesUp
  <2>5. TapsSound'
    BY <1>3 DEF GivesUp
  <2>6. FirstIsOption'
    BY <1>3 DEF GivesUp
  <2> QED
    BY <2>1, <2>2, <2>3, <2>4, <2>5, <2>6 DEF QuInv
<1>4. ASSUME NEW q \in Asked, Record(q) PROVE QuInv'
  <2>1. QuTypes'
    BY <1>4 DEF Record
  <2>2. QuestionOrder'
    BY <1>4 DEF Record
  <2>3. CardsAnswerable'
    BY <1>4 DEF Record
  <2>4. GoneIsGone'
    BY <1>4 DEF Record
  <2>5. TapsSound'
    BY <1>4 DEF Record
  <2>6. FirstIsOption'
    BY <1>4 DEF Record
  <2> QED
    BY <2>1, <2>2, <2>3, <2>4, <2>5, <2>6 DEF QuInv
<1>5. ASSUME NEW q \in Asked, Post(q) PROVE QuInv'
  <2>1. QuTypes'
    BY <1>5 DEF Post
  <2>2. QuestionOrder'
    BY <1>5 DEF Post
  <2>3. CardsAnswerable'
    BY <1>5 DEF Post
  <2>4. GoneIsGone'
    BY <1>5 DEF Post
  <2>5. TapsSound'
    BY <1>5 DEF Post
  <2>6. FirstIsOption'
    BY <1>5 DEF Post
  <2> QED
    BY <2>1, <2>2, <2>3, <2>4, <2>5, <2>6 DEF QuInv
<1>6. ASSUME NEW q \in Asked, Sent(q) PROVE QuInv'
  <2>1. QuTypes'
    BY <1>6 DEF Sent
  <2>2. QuestionOrder'
    BY <1>6 DEF Sent
  <2>3. CardsAnswerable'
    BY <1>6 DEF Sent
  <2>4. GoneIsGone'
    BY <1>6 DEF Sent
  <2>5. TapsSound'
    BY <1>6 DEF Sent
  <2>6. FirstIsOption'
    BY <1>6 DEF Sent
  <2> QED
    BY <2>1, <2>2, <2>3, <2>4, <2>5, <2>6 DEF QuInv
<1>7. ASSUME NEW q \in Asked, PostFails(q) PROVE QuInv'
  <2>a. attempts' \in [Asked -> 0 .. MaxAttempts - 1]
    BY <1>7, PostFailsIs
  <2>b. card' \in [Asked -> {"none", "due", "sent", "failed"}]
    BY <1>7 DEF PostFails
  <2>c. quFaults' \in 0 .. MaxQuFaults
    BY <1>7 DEF PostFails
  <2>d. posting' \in [Asked -> {"no", "row", "up"}]
    BY <1>7 DEF PostFails
  <2>1. QuTypes'
    BY <1>7, <2>a, <2>b, <2>c, <2>d DEF PostFails
  <2>2. QuestionOrder'
    BY <1>7 DEF PostFails
  <2>3. CardsAnswerable'
    BY <1>7 DEF PostFails
  <2>4. GoneIsGone'
    BY <1>7 DEF PostFails
  <2>5. TapsSound'
    BY <1>7 DEF PostFails
  <2>6. FirstIsOption'
    BY <1>7 DEF PostFails
  <2> QED
    BY <2>1, <2>2, <2>3, <2>4, <2>5, <2>6 DEF QuInv
<1>8. ASSUME NEW k \in Taps, NEW q \in Asked, NEW o \in Options, NEW c \in DOMAIN faces[q], Press(k, q, c, o) PROVE QuInv'
  <2>a. c \in Nat
    BY <1>8
  <2>b. [q |-> q, c |-> c, o |-> o, known |-> FALSE, at |-> "pressed"] \in TapRecords
    BY <1>8, <2>a DEF TapRecords, TapSteps
  <2>c. tap' \in [Taps -> TapRecords \cup {NoTap}]
    BY <1>8, <2>b DEF Press
  <2>1. QuTypes'
    BY <1>8, <2>c DEF Press
  <2>2. QuestionOrder'
    BY <1>8 DEF Press
  <2>3. CardsAnswerable'
    BY <1>8 DEF Press
  <2>4. GoneIsGone'
    BY <1>8 DEF Press
  <2>5. TapsSound'
    BY <1>8 DEF Press
  <2>6. FirstIsOption'
    BY <1>8 DEF Press
  <2> QED
    BY <2>1, <2>2, <2>3, <2>4, <2>5, <2>6 DEF QuInv
<1>9. ASSUME NEW k \in Taps, Resolve(k) PROVE QuInv'
  <2>a. tap[k] # NoTap /\ tap[k] \in TapRecords /\ tap[k].q \in Asked /\ tap[k].c \in Nat /\ tap[k].known \in BOOLEAN
    BY <1>9, TapIs DEF Resolve
  <2>b. [tap[k] EXCEPT !.known = qRow[tap[k].q], !.at = "read"] \in TapRecords
    BY <2>a DEF TapRecords, TapSteps
  <2>c. tap' = [tap EXCEPT ![k] = [tap[k] EXCEPT !.known = qRow[tap[k].q], !.at = "read"]]
    BY <1>9 DEF Resolve
  <2>d. /\ tap' \in [Taps -> TapRecords \cup {NoTap}] /\ \A l \in Taps \ {k} : tap'[l] = tap[l]
        /\ tap'[k].q = tap[k].q /\ tap'[k].c = tap[k].c /\ tap'[k].known = qRow[tap[k].q] /\ tap'[k].at = "read"
    BY <2>a, <2>b, <2>c DEF TapRecords
  <2>e. faces[tap[k].q] # <<>>
    BY <2>a
  <2>1. QuTypes'
    BY <1>9, <2>d DEF Resolve
  <2>2. QuestionOrder'
    BY <1>9 DEF Resolve
  <2>3. CardsAnswerable'
    BY <1>9 DEF Resolve
  <2>4. GoneIsGone'
    BY <1>9 DEF Resolve
  <2>5. TapsSound'
    <3>1. ASSUME NEW l \in Taps \ {k} PROVE TapSound(l)'
      BY <1>9, <2>d, <3>1 DEF Resolve
    <3>2. TapSound(k)'
      BY <1>9, <2>a, <2>d, <2>e DEF Resolve
    <3> QED
      BY <3>1, <3>2
  <2>6. FirstIsOption'
    BY <1>9 DEF Resolve
  <2> QED
    BY <2>1, <2>2, <2>3, <2>4, <2>5, <2>6 DEF QuInv
<1>10. ASSUME NEW k \in Taps, ShowChoice(k) PROVE QuInv'
  <2>a. tap[k] # NoTap /\ tap[k] \in TapRecords /\ tap[k].q \in Asked /\ tap[k].c \in Nat /\ tap[k].known \in BOOLEAN
    BY <1>10, TapIs DEF ShowChoice
  <2>b. PICK s \in {"shown"} : TapGoes(k, s) /\ s \in TapSteps
    BY <1>10 DEF ShowChoice, TapSteps
  <2>c. /\ tap' \in [Taps -> TapRecords \cup {NoTap}] /\ \A l \in Taps \ {k} : tap'[l] = tap[l]
        /\ tap'[k].q = tap[k].q /\ tap'[k].c = tap[k].c /\ tap'[k].known = tap[k].known /\ tap'[k].at = s
    BY <2>a, <2>b, TapGoesIs
  <2>g. /\ faces' \in [Asked -> Seq(Picked \cup {Buttons})]
        /\ \A x \in Asked : DOMAIN faces'[x] = DOMAIN faces[x] /\ (faces'[x] = <<>> <=> faces[x] = <<>>)
    BY <1>10, <2>a, ShowChoiceIs
  <2>h. tap[k].at = "read" /\ UNCHANGED <<replies, sessionGone>>
    BY <1>10 DEF ShowChoice
  <2>1. QuTypes'
    BY SMTT(60), <1>10, <2>c, <2>g DEF ShowChoice
  <2>2. QuestionOrder'
    BY SMTT(60), <1>10 DEF ShowChoice
  <2>3. CardsAnswerable'
    BY <1>10 DEF ShowChoice
  <2>4. GoneIsGone'
    BY <1>10 DEF ShowChoice
  <2>5. TapsSound'
    <3> SUFFICES ASSUME NEW l \in Taps, tap'[l] # NoTap PROVE TapSound(l)'
      BY DEF TapsSound, TapSound
    <3>1. tap[l] # NoTap /\ tap[l].q \in Asked /\ tap[l].known \in BOOLEAN /\ TapSound(l)
      BY <2>a, <2>c, TapIs
    <3>2. tap'[l].q = tap[l].q /\ tap'[l].c = tap[l].c /\ tap'[l].known = tap[l].known
      BY <2>c
    <3>3. DOMAIN faces'[tap[l].q] = DOMAIN faces[tap[l].q] /\ UNCHANGED <<replies, sessionGone>>
      BY <3>1, <2>g, <2>h
    <3>4. CASE l = k
      BY <2>a, <2>b, <2>c, <3>1, <3>2, <3>3, <3>4, <2>g, <2>h
    <3>5. CASE l # k
      <4>1. tap'[l] = tap[l]
        BY <2>c, <3>5
      <4> QED
        BY <3>1, <3>3, <4>1
    <3> QED
      BY <3>4, <3>5
  <2>6. FirstIsOption'
    BY <1>10 DEF ShowChoice
  <2> QED
    BY <2>1, <2>2, <2>3, <2>4, <2>5, <2>6 DEF QuInv
<1>11. ASSUME NEW k \in Taps, Claim(k) PROVE QuInv'
  <2>a. tap[k] # NoTap /\ tap[k] \in TapRecords /\ tap[k].q \in Asked /\ tap[k].c \in Nat /\ tap[k].known \in BOOLEAN
    BY <1>11, TapIs DEF Claim
  <2>b. PICK s \in {"claimed", "done"} : TapGoes(k, s) /\ s \in TapSteps
    BY <1>11 DEF Claim, TapSteps
  <2>c. /\ tap' \in [Taps -> TapRecords \cup {NoTap}] /\ \A l \in Taps \ {k} : tap'[l] = tap[l]
        /\ tap'[k].q = tap[k].q /\ tap'[k].c = tap[k].c /\ tap'[k].known = tap[k].known /\ tap'[k].at = s
    BY <2>a, <2>b, TapGoesIs
  <2>d. (s = "claimed") = qRow[tap[k].q] /\ faces[tap[k].q] # <<>>
    BY <1>11, <2>a, <2>c DEF Claim
  <2>1. QuTypes'
    BY <1>11, <2>c DEF Claim
  <2>2. QuestionOrder'
    BY <1>11 DEF Claim
  <2>3. CardsAnswerable'
    BY <1>11 DEF Claim
  <2>4. GoneIsGone'
    BY <1>11 DEF Claim
  <2>5. TapsSound'
    BY <1>11, <2>a, <2>b, <2>c, <2>d DEF Claim
  <2>6. FirstIsOption'
    BY <1>11 DEF Claim
  <2> QED
    BY <2>1, <2>2, <2>3, <2>4, <2>5, <2>6 DEF QuInv
<1>12. ASSUME NEW k \in Taps, WriteAnswer(k) PROVE QuInv'
  <2>a. tap[k] # NoTap /\ tap[k] \in TapRecords /\ tap[k].q \in Asked /\ tap[k].c \in Nat /\ tap[k].known \in BOOLEAN
    BY <1>12, TapIs DEF WriteAnswer
  <2>b. PICK s \in {"done", "wrote"} : TapGoes(k, s) /\ s \in TapSteps
    BY <1>12 DEF WriteAnswer, TapSteps
  <2>c. /\ tap' \in [Taps -> TapRecords \cup {NoTap}] /\ \A l \in Taps \ {k} : tap'[l] = tap[l]
        /\ tap'[k].q = tap[k].q /\ tap'[k].c = tap[k].c /\ tap'[k].known = tap[k].known /\ tap'[k].at = s
    BY <2>a, <2>b, TapGoesIs
  <2>d. tap[k].known => ~Chosen(k).raw
    BY <2>a, TapIs
  <2>f. qRow' \in [Asked -> BOOLEAN]
    BY <1>12 DEF WriteAnswer
  <2>g. /\ replies' \in [Asked -> Seq(Picked)]
        /\ \A x \in Asked : Answered(x) => replies'[x] # <<>> /\ replies'[x][1] = replies[x][1]
        /\ \A x \in Asked : ~Answered(x) /\ replies'[x] # <<>> => x = tap[k].q /\ replies'[x][1] = Chosen(k)
        /\ replies'[tap[k].q] # <<>> \/ (sessionGone /\ tap'[k].at = "done")
    BY <1>12, WriteAnswerIs
  <2>i. tap[k].at = "claimed" /\ UNCHANGED <<faces, asker, told, acked, sessionGone>>
    BY <1>12 DEF WriteAnswer
  <2>1. QuTypes'
    BY <1>12, <2>c, <2>f, <2>g DEF WriteAnswer
  <2>2. QuestionOrder'
    BY <1>12 DEF WriteAnswer
  <2>3. CardsAnswerable'
    BY <1>12 DEF WriteAnswer
  <2>4. GoneIsGone'
    BY <1>12 DEF WriteAnswer
  <2>5. TapsSound'
    <3> SUFFICES ASSUME NEW l \in Taps, tap'[l] # NoTap PROVE TapSound(l)'
      BY DEF TapsSound, TapSound
    <3>1. tap[l] # NoTap /\ tap[l].q \in Asked /\ tap[l].known \in BOOLEAN /\ TapSound(l)
      BY <2>a, <2>c, TapIs
    <3>2. tap'[l].q = tap[l].q /\ tap'[l].c = tap[l].c /\ tap'[l].known = tap[l].known
      BY <2>c
    <3>3. UNCHANGED <<faces, sessionGone>> /\ (Answered(tap[l].q) => replies'[tap[l].q] # <<>>)
      BY <3>1, <2>g, <2>i
    <3>4. CASE l = k
      BY <2>a, <2>b, <2>c, <3>1, <3>2, <3>3, <3>4, <2>g, <2>i
    <3>5. CASE l # k
      <4>1. tap'[l] = tap[l]
        BY <2>c, <3>5
      <4> QED
        BY <3>1, <3>3, <4>1
    <3> QED
      BY <3>4, <3>5
  <2>6. FirstIsOption'
    <3> SUFFICES ASSUME NEW x \in Asked
                 PROVE  /\ replies'[x] # <<>> => ~replies'[x][1].raw
                        /\ asker'[x] = "told" => ~told'[x].raw /\ <<x, 1>> \in acked'
      BY DEF FirstIsOption, Answered
    <3>1. asker'[x] = "told" => ~told'[x].raw /\ <<x, 1>> \in acked'
      BY <2>i
    <3>2. ASSUME Answered(x) PROVE replies'[x][1] = replies[x][1] /\ ~replies[x][1].raw
      BY <2>g, <3>2
    <3>3. ASSUME ~Answered(x), replies'[x] # <<>> PROVE x = tap[k].q /\ replies'[x][1] = Chosen(k) /\ ~Chosen(k).raw
      <4>1. x = tap[k].q /\ replies'[x][1] = Chosen(k)
        BY <2>g, <3>3
      <4>2. tap[k].known
        BY <2>a, <2>i, <3>3, <4>1
      <4> QED
        BY <2>d, <4>1, <4>2
    <3> QED
      BY <3>1, <3>2, <3>3
  <2> QED
    BY <2>1, <2>2, <2>3, <2>4, <2>5, <2>6 DEF QuInv
<1>13. ASSUME NEW k \in Taps, DropRow(k) PROVE QuInv'
  <2>a. tap[k] # NoTap /\ tap[k] \in TapRecords /\ tap[k].q \in Asked /\ tap[k].c \in Nat /\ tap[k].known \in BOOLEAN
    BY <1>13, TapIs DEF DropRow
  <2>b. PICK s \in {"done"} : TapGoes(k, s) /\ s \in TapSteps
    BY <1>13 DEF DropRow, TapSteps
  <2>c. /\ tap' \in [Taps -> TapRecords \cup {NoTap}] /\ \A l \in Taps \ {k} : tap'[l] = tap[l]
        /\ tap'[k].q = tap[k].q /\ tap'[k].c = tap[k].c /\ tap'[k].known = tap[k].known /\ tap'[k].at = s
    BY <2>a, <2>b, TapGoesIs
  <2>1. QuTypes'
    BY <1>13, <2>c DEF DropRow
  <2>2. QuestionOrder'
    BY <1>13 DEF DropRow
  <2>3. CardsAnswerable'
    BY <1>13 DEF DropRow
  <2>4. GoneIsGone'
    BY <1>13 DEF DropRow
  <2>5. TapsSound'
    BY <1>13 DEF DropRow
  <2>6. FirstIsOption'
    BY <1>13 DEF DropRow
  <2> QED
    BY <2>1, <2>2, <2>3, <2>4, <2>5, <2>6 DEF QuInv
<1>14. ASSUME HostCrashes PROVE QuInv'
  <2>b. /\ tap' \in [Taps -> TapRecords \cup {NoTap}]
        /\ \A k \in Taps : tap'[k] = tap[k]
              \/ (tap[k] # NoTap /\ tap'[k].c = tap[k].c /\ tap'[k].q = tap[k].q /\ tap'[k].at = "lost")
    BY <1>14, HostCrashesIs
  <2>c. attempts' \in [Asked -> 0 .. MaxAttempts - 1]
    BY <1>14 DEF HostCrashes
  <2>d. posting' \in [Asked -> {"no", "row", "up"}] /\ quFaults' \in 0 .. MaxQuFaults
    BY <1>14 DEF HostCrashes
  <2>1. QuTypes'
    BY <1>14, <2>b, <2>c, <2>d DEF HostCrashes
  <2>2. QuestionOrder'
    BY <1>14 DEF HostCrashes
  <2>3. CardsAnswerable'
    BY <1>14 DEF HostCrashes
  <2>4. GoneIsGone'
    BY <1>14 DEF HostCrashes
  <2>5. TapsSound'
    BY <1>14, <2>b DEF HostCrashes
  <2>6. FirstIsOption'
    BY <1>14 DEF HostCrashes
  <2> QED
    BY <2>1, <2>2, <2>3, <2>4, <2>5, <2>6 DEF QuInv
<1>15. ASSUME DeleteGroup PROVE QuInv'
  <2>1. QuTypes'
    BY <1>15 DEF DeleteGroup
  <2>2. QuestionOrder'
    BY <1>15 DEF DeleteGroup
  <2>3. CardsAnswerable'
    BY <1>15 DEF DeleteGroup
  <2>4. GoneIsGone'
    BY <1>15 DEF DeleteGroup
  <2>5. TapsSound'
    BY <1>15 DEF DeleteGroup
  <2>6. FirstIsOption'
    BY <1>15 DEF DeleteGroup
  <2> QED
    BY <2>1, <2>2, <2>3, <2>4, <2>5, <2>6 DEF QuInv
<1>16. CASE UNCHANGED questionVars
  BY <1>16 DEF questionVars
<1> HIDE DEF QuInv
<1> QED
  BY <1>1, <1>2, <1>3, <1>4, <1>5, <1>6, <1>7, <1>8, <1>9, <1>10, <1>11, <1>12, <1>13, <1>14, <1>15, <1>16 DEF NextQuestions, TapStep

\* The inductive invariant of a question holds (mcp-tools/interactive.ts,
\* src/delivery.ts, modules/interactive).
THEOREM QuestionInvariant == QuestionSpec => []QuInv
<1> QED
  BY InitQuInv, QuInvStep, PTL DEF QuestionSpec

\* The invariant of the questions types their variables.
LEMMA QuInvTypes == QuInv => QuTypeOK
BY QuTypesAre DEF QuInv

\* Every variable of a question keeps its type.
THEOREM QuestionTypes == QuestionSpec => []QuTypeOK
<1>1. QuInv => QuTypeOK
  BY QuInvTypes
<1> QED
  BY <1>1, QuestionInvariant, PTL

\* What the invariant says of cards, choices and answers.
LEMMA QuInvIsSafe == QuInv => QuestionSafety
<1> SUFFICES ASSUME QuInv PROVE QuestionSafety
  OBVIOUS
<1> USE DEF QuInv, Answered, Answerable
<1>1. ButtonsAnswerable
  BY DEF ButtonsAnswerable, CardsAnswerable, QuTypes
<1>2. ToldIsOption
  BY DEF ToldIsOption, FirstIsOption
<1>3. ChoiceIsPassedOn
  BY DEF ChoiceIsPassedOn, TapAt, TapsSound, TapSound
<1>4. StrayAnswers
  BY DEF StrayAnswers, FirstIsOption, QuestionOrder, QuTypes
<1> QED
  BY <1>1, <1>2, <1>3, <1>4 DEF QuestionSafety

\* Whatever taps, failed posts, crashes and deletions race: buttons on the
\* screen lead somewhere, the tool returns an option, a choice that found its
\* question leaves an answer, and an answer nobody takes is not one a waiting
\* tool should have had (chat-sdk-bridge.ts, modules/interactive).
THEOREM QuestionsAreSafe == QuestionSpec => []QuestionSafety
<1>1. QuInv => QuestionSafety
  BY QuInvIsSafe
<1> QED
  BY <1>1, QuestionInvariant, PTL

-----------------------------------------------------------------------------
(* The tools in flight, for any number of tools and moments. *)

\* The moments are those of the clock, and nothing runs in a container that is not up.
WatchTypes ==
  /\ TwTypeOK
  /\ bornAt <= now /\ beat <= now /\ claimedAt <= now /\ \A t \in Tools : since[t] <= now
  /\ box # "up" => running = {}

\* Since its start a container has shown life, and claimed what it works on.
LifeOfTheBox ==
  /\ box # "down" /\ beat # 0 => beat >= bornAt
  /\ box = "up" /\ claimedAt # 0 => claimedAt >= bornAt

\* A tool beside which nothing else ran is the one the row names; it began after
\* the claim it belongs to, and with a sign of life.
NamedAlone ==
  \A t \in undisturbed :
    /\ inFlight = t /\ claimedAt # 0 /\ claimedAt <= since[t] /\ since[t] <= beat /\ beat # 0

WatchInv == WatchTypes /\ LifeOfTheBox /\ NamedAlone /\ WatchSafety

\* The greater of two moments.
LEMMA LaterOfTwo ==
  ASSUME NEW m \in Nat, NEW n \in Nat PROVE Max({m, n}) = IF m >= n THEN m ELSE n
<1> DEFINE w == IF m >= n THEN m ELSE n
<1>1. w \in {m, n} /\ \A y \in {m, n} : w >= y
  OBVIOUS
<1>2. \A x \in {m, n} : (\A y \in {m, n} : x >= y) => x = w
  OBVIOUS
<1> QED
  BY <1>1, <1>2 DEF Max

\* What the timeouts come to.
LEMMA AllowanceIs ==
  ASSUME WatchTypes, NEW n \in Nat
  PROVE  Declared \in Nat /\ AtLeast(n) \in Nat /\ AtLeast(n) >= n /\ AtLeast(n) >= Declared
<1>1. Declared \in Nat
  BY WatchAssumption DEF Declared, WatchTypes, TwTypeOK
<1> QED
  BY <1>1 DEF AtLeast

\* What the sweep kills has neither a Bash call inside its time nor a late sign of life.
LEMMA KilledForCause ==
  ASSUME WatchInv, KillCeiling \/ KillClaim
  PROVE  /\ ~\E t \in undisturbed : Declares[t] > 0 /\ now - since[t] <= Declares[t]
         /\ ~(/\ box = "up" /\ now - SilentFrom <= Ceiling
              /\ claimedAt # 0 => SilentFrom > claimedAt \/ now - claimedAt <= 1)
<1>1. now \in Nat /\ bornAt \in Nat /\ beat \in Nat /\ claimedAt \in Nat /\ Ceiling \in Nat
  BY WatchAssumption DEF WatchInv, WatchTypes, TwTypeOK
<1>2. /\ Declared \in Nat /\ AtLeast(Ceiling) \in Nat /\ AtLeast(1) \in Nat
      /\ AtLeast(Ceiling) >= Ceiling /\ AtLeast(Ceiling) >= Declared /\ AtLeast(1) >= 1 /\ AtLeast(1) >= Declared
  BY <1>1, AllowanceIs DEF WatchInv
<1>3. ASSUME NEW t \in undisturbed, now - since[t] <= Declares[t] PROVE FALSE
  <2>1. inFlight = t /\ t \in Tools /\ since[t] \in Nat /\ claimedAt # 0 /\ claimedAt <= since[t]
        /\ since[t] <= beat /\ beat # 0 /\ since[t] <= now
    BY DEF WatchInv, WatchTypes, TwTypeOK, NamedAlone
  <2>2. Declared = Declares[t]
    BY <2>1, WatchAssumption DEF Declared
  <2> QED
    BY <1>1, <1>2, <1>3, <2>1, <2>2 DEF KillCeiling, KillClaim
<1>4. ASSUME box = "up", now - SilentFrom <= Ceiling, claimedAt # 0 => SilentFrom > claimedAt \/ now - claimedAt <= 1
      PROVE  FALSE
  <2>1. SilentFrom = IF beat # 0 THEN beat ELSE bornAt
    BY <1>1, <1>4, LaterOfTwo DEF SilentFrom, WatchInv, LifeOfTheBox
  <2>2. claimedAt # 0 => claimedAt >= bornAt
    BY <1>4 DEF WatchInv, LifeOfTheBox
  <2> QED
    BY <1>1, <1>2, <1>4, <2>1, <2>2 DEF KillCeiling, KillClaim
<1> QED
  BY <1>3, <1>4

\* A container that was never started.
LEMMA InitWatchInv == InitWatch => WatchInv
<1> SUFFICES ASSUME InitWatch PROVE WatchInv
  OBVIOUS
<1> USE WatchAssumption DEF InitWatch
<1>1. wronged \in BOOLEAN /\ hasty \in BOOLEAN /\ WatchSafety
  BY Zenon DEF WatchSafety, BashSpared, LifeIsSeen
<1>2. now \in 1 .. LastMoment /\ \A t \in Tools : since[t] = 0
  OBVIOUS
<1>3. since \in [Tools -> 0 .. LastMoment]
  OBVIOUS
<1>4. WatchTypes
  BY <1>1, <1>2, <1>3 DEF WatchTypes, TwTypeOK
<1>5. LifeOfTheBox /\ NamedAlone
  BY DEF LifeOfTheBox, NamedAlone
<1> QED
  BY <1>1, <1>4, <1>5 DEF WatchInv

\* One case for every step of the container, its tools and the sweep.
LEMMA WatchInvStep == WatchInv /\ [NextWatch]_twVars => WatchInv'
<1> SUFFICES ASSUME WatchInv, [NextWatch]_twVars PROVE WatchInv'
  OBVIOUS
<1> USE WatchAssumption DEF WatchInv, WatchTypes, TwTypeOK, LifeOfTheBox, NamedAlone, WatchSafety,
        BashSpared, LifeIsSeen, history, Beats, SetInFlight, ClearInFlight
<1>1. CASE Tick
  BY <1>1 DEF Tick
<1>2. CASE SpawnBox
  BY <1>2 DEF SpawnBox
<1>3. CASE Boots
  BY <1>3 DEF Boots
<1>4. CASE ClaimsBatch
  BY <1>4 DEF ClaimsBatch
<1>5. CASE Event
  BY <1>5 DEF Event
<1>6. CASE TurnDone
  BY <1>6 DEF TurnDone
<1>7. CASE SweepKills
  <2>1. wronged' = FALSE /\ hasty' = FALSE
    BY <1>7, KilledForCause DEF SweepKills, Kill
  <2> QED
    BY <1>7, <2>1 DEF SweepKills, Kill
<1>8. CASE Exits
  BY <1>8 DEF Exits
<1>9. ASSUME NEW t \in Tools, ToolStarts(t) PROVE WatchInv'
  BY <1>9 DEF ToolStarts
<1>10. ASSUME NEW t \in Tools, ToolEnds(t) PROVE WatchInv'
  BY <1>10 DEF ToolEnds
<1>11. CASE UNCHANGED twVars
  BY <1>11 DEF twVars
<1> HIDE DEF WatchInv
<1> QED
  BY <1>1, <1>2, <1>3, <1>4, <1>5, <1>6, <1>7, <1>8, <1>9, <1>10, <1>11 DEF NextWatch

\* The inductive invariant of the watch (host-sweep.ts, providers/claude.ts).
THEOREM WatchInvariant == WatchSpec => []WatchInv
BY InitWatchInv, WatchInvStep, PTL DEF WatchSpec

\* The invariant of the watch types its variables.
LEMMA WatchInvTypes == WatchInv => TwTypeOK
BY DEF WatchInv, WatchTypes

\* The values of every variable of the watch.
THEOREM WatchVariables == WatchSpec => []TwTypeOK
<1>1. WatchInv => TwTypeOK
  BY WatchInvTypes
<1> QED
  BY <1>1, WatchInvariant, PTL

\* What the invariant says of the containers that are spared.
LEMMA WatchInvIsSafe == WatchInv => WatchSafety
BY DEF WatchInv

\* A container is not killed during a Bash call that runs alone and is inside its
\* time, nor when it showed life lately (decideStuckAction in host-sweep.ts).
THEOREM WatchIsSafe == WatchSpec => []WatchSafety
<1>1. WatchInv => WatchSafety
  BY WatchInvIsSafe
<1> QED
  BY <1>1, WatchInvariant, PTL

-----------------------------------------------------------------------------
(* What comes in from the chats, for any number of bots, adapters and messages. *)

\* Without the limits on what is counted.
ChTypes ==
  /\ viaGateway \in BOOLEAN /\ booted \in BOOLEAN /\ stolen \in BOOLEAN
  /\ adapter \in [Adapters -> {"new", "setup", "paused", "ready", "up", "gone"}]
  /\ active \in [Bots -> Adapters \cup {NoAdapter}] /\ route \in [Bots -> Adapters \cup {NoAdapter}]
  /\ listener \in [Adapters -> {"off", "running", "waiting", "dead"}]
  /\ marks \subseteq (Bots \cup {NoAdapter}) \X Chats
  /\ handling \subseteq Adapters \X Chats /\ taken \subseteq Bots \X Chats
  /\ context \in [Bots -> Bots \cup {NoAdapter}] /\ expired \subseteq Bots
  /\ reports \subseteq Bots /\ chTrouble \in 0 .. MaxTrouble
  /\ routed \in [Bots -> [Chats -> 0 .. 2]]
  /\ carried \in [Bots -> [Chats -> Bots \cup {NoAdapter}]]

\* A mark stands for one bot's handler that began: the marks of two bots differ.
MarksAreTaken == \A b \in Bots, m \in Chats : Marked(b, m) <=> <<b, m>> \in taken

\* What a handler holds was taken by its bot, by this handler alone, and has not
\* been routed; what was routed was taken.
TakenOnce ==
  /\ \A a \in Adapters, m \in Chats : <<a, m>> \in handling =>
       /\ <<BotOf[a], m>> \in taken /\ routed[BotOf[a]][m] = 0
       /\ \A z \in Adapters : BotOf[z] = BotOf[a] /\ <<z, m>> \in handling => z = a
  /\ \A b \in Bots, m \in Chats : <<b, m>> \notin taken => routed[b][m] = 0

\* A report is a bot's own, and is with it, with one message, or gone.
ReportIsSomewhere ==
  \A b \in Bots :
    /\ context[b] \in {b, NoAdapter}
    /\ context[b] = b => b \in reports
    /\ \A m \in Chats :
         carried[b][m] # NoAdapter =>
           /\ carried[b][m] = b /\ b \in reports /\ context[b] = NoAdapter
           /\ \A n \in Chats \ {m} : carried[b][n] = NoAdapter

ChInv ==
  /\ ChTypes /\ MarksAreTaken /\ TakenOnce /\ ReportIsSomewhere
  /\ HeardOnce /\ EveryBotHears /\ OwnVoice

\* A listener that is started has one of its states.
LEMMA ListenerIs ==
  ASSUME ChTypes, NEW a \in Adapters, Connects(a) \/ StartGateway(a)
  PROVE  listener' \in [Adapters -> {"off", "running", "waiting", "dead"}]
<1> DEFINE T == {"off", "running", "waiting", "dead"}
<1>1. listener \in [Adapters -> T] /\ "running" \in T /\ "dead" \in T
  BY DEF ChTypes
<1>2. \/ listener' = listener
      \/ listener' = [listener EXCEPT ![a] = "running"]
      \/ listener' = [listener EXCEPT ![a] = "dead"]
  BY DEF Connects, StartGateway
<1> HIDE DEF T
<1>3. listener' \in [Adapters -> T]
  BY <1>1, <1>2
<1> QED
  BY <1>3 DEF T

\* Two bots of a platform have keys of their own.
LEMMA KeysApart ==
  ASSUME NEW b \in Bots, NEW c \in Bots, NEW m \in Chats, NEW n \in Chats, Key(b, m) = Key(c, n)
  PROVE  b = c /\ m = n
  BY ChatAssumption DEF Key

\* What the router is given: the message once more, and the report if there is one.
LEMMA ForwardsIs ==
  ASSUME ChTypes, ReportIsSomewhere, NEW b \in Bots, NEW m \in Chats, routed[b][m] = 0, Forwards(b, m)
  PROVE  /\ routed' \in [Bots -> [Chats -> 0 .. 2]] /\ routed'[b][m] = 1
         /\ \A c \in Bots, n \in Chats : <<c, n>> # <<b, m>> => routed'[c][n] = routed[c][n]
         /\ carried' \in [Bots -> [Chats -> Bots \cup {NoAdapter}]]
         /\ \A c \in Bots, n \in Chats : <<c, n>> # <<b, m>> => carried'[c][n] = carried[c][n]
         /\ carried'[b][m] \in {NoAdapter, context[b]}
         /\ context' \in [Bots -> Bots \cup {NoAdapter}] /\ context'[b] = NoAdapter
         /\ \A c \in Bots \ {b} : context'[c] = context[c]
         /\ expired' \subseteq Bots
<1>1. routed \in [Bots -> [Chats -> 0 .. 2]] /\ carried \in [Bots -> [Chats -> Bots \cup {NoAdapter}]]
      /\ context \in [Bots -> Bots \cup {NoAdapter}]
  BY DEF ChTypes
<1>2. TakeContext(b) \in {NoAdapter, context[b]} /\ TakeContext(b) \in Bots \cup {NoAdapter}
  BY <1>1 DEF TakeContext
<1>3. routed' = [routed EXCEPT ![b][m] = 1]
  BY <1>1 DEF Forwards
<1>4. carried' = [carried EXCEPT ![b][m] = TakeContext(b)]
  BY DEF Forwards
<1>5. context' = [context EXCEPT ![b] = NoAdapter] /\ expired' = expired \ {b}
  BY DEF Forwards
<1>6. routed' \in [Bots -> [Chats -> 0 .. 2]] /\ routed'[b][m] = 1
      /\ \A c \in Bots, n \in Chats : <<c, n>> # <<b, m>> => routed'[c][n] = routed[c][n]
  BY <1>1, <1>3
<1>7. /\ carried' \in [Bots -> [Chats -> Bots \cup {NoAdapter}]] /\ carried'[b][m] = TakeContext(b)
      /\ \A c \in Bots, n \in Chats : <<c, n>> # <<b, m>> => carried'[c][n] = carried[c][n]
  BY <1>1, <1>2, <1>4
<1>8. /\ context' \in [Bots -> Bots \cup {NoAdapter}] /\ context'[b] = NoAdapter
      /\ \A c \in Bots \ {b} : context'[c] = context[c]
      /\ expired' \subseteq Bots
  BY <1>1, <1>5 DEF ChTypes
<1> QED
  BY <1>2, <1>6, <1>7, <1>8

\* A message that is routed takes the report of its bot along, or there is none.
LEMMA ReportStep ==
  ASSUME ChTypes, ReportIsSomewhere, NEW b \in Bots, NEW m \in Chats, routed[b][m] = 0, Forwards(b, m),
         UNCHANGED reports
  PROVE  ReportIsSomewhere'
<1> USE ChatAssumption DEF ReportIsSomewhere
<1>1. /\ carried'[b][m] \in {NoAdapter, context[b]} /\ context'[b] = NoAdapter
      /\ \A c \in Bots, n \in Chats : <<c, n>> # <<b, m>> => carried'[c][n] = carried[c][n]
      /\ \A c \in Bots \ {b} : context'[c] = context[c]
  BY ForwardsIs
<1> SUFFICES ASSUME NEW c \in Bots
             PROVE  /\ context'[c] \in {c, NoAdapter}
                    /\ context'[c] = c => c \in reports
                    /\ \A n \in Chats :
                         carried'[c][n] # NoAdapter =>
                           /\ carried'[c][n] = c /\ c \in reports /\ context'[c] = NoAdapter
                           /\ \A k \in Chats \ {n} : carried'[c][k] = NoAdapter
  OBVIOUS
<1>2. CASE c # b
  BY <1>1, <1>2
<1>3. CASE c = b /\ context[b] = NoAdapter
  BY <1>1, <1>3
<1>4. CASE c = b /\ context[b] = b
  <2>1. b \in reports /\ \A n \in Chats : carried[b][n] = NoAdapter
    BY <1>4
  <2> QED
    BY <1>1, <1>4, <2>1
<1> QED
  BY <1>2, <1>3, <1>4

\* No adapter was started and nothing heard.
LEMMA InitChInv == InitChat => ChInv
<1> SUFFICES ASSUME InitChat PROVE ChInv
  OBVIOUS
<1> USE ChatAssumption DEF InitChat
<1>1. viaGateway \in BOOLEAN /\ booted \in BOOLEAN /\ stolen \in BOOLEAN /\ EveryBotHears
  BY Zenon DEF EveryBotHears
<1>2. ChTypes
  BY <1>1 DEF ChTypes
<1>3. MarksAreTaken /\ TakenOnce /\ ReportIsSomewhere /\ HeardOnce /\ OwnVoice
  BY DEF MarksAreTaken, Marked, TakenOnce, ReportIsSomewhere, HeardOnce, OwnVoice, Through
<1> QED
  BY <1>1, <1>2, <1>3 DEF ChInv

\* One case for every step of an adapter, a message and the host.
LEMMA ChInvStep == ChInv /\ [NextChat]_chVars => ChInv'
<1> SUFFICES ASSUME ChInv, [NextChat]_chVars PROVE ChInv'
  OBVIOUS
<1> USE ChatAssumption DEF ChInv, ChTypes, MarksAreTaken, Marked, TakenOnce, ReportIsSomewhere, HeardOnce,
        EveryBotHears, OwnVoice, Through, Trouble, hostVars, talkVars, viewVars
<1>1. ASSUME NEW a \in Adapters, StartAdapter(a) PROVE ChInv'
  BY <1>1 DEF StartAdapter
<1>2. ASSUME NEW a \in Adapters, SetupFails(a) PROVE ChInv'
  BY <1>2 DEF SetupFails
<1>3. ASSUME NEW a \in Adapters, SetupAgain(a) PROVE ChInv'
  BY <1>3 DEF SetupAgain
<1>4. ASSUME NEW a \in Adapters, Connects(a) PROVE ChInv'
  <2>0. (viaGateway \in BOOLEAN /\ booted \in BOOLEAN /\ stolen \in BOOLEAN)'
    BY <1>4, Zenon DEF Connects
  <2>1. ChTypes'
    <3>1. adapter' \in [Adapters -> {"new", "setup", "paused", "ready", "up", "gone"}]
      BY <1>4 DEF Connects
    <3>2. listener' \in [Adapters -> {"off", "running", "waiting", "dead"}]
      BY <1>4, ListenerIs
    <3>3. route' \in [Bots -> Adapters \cup {NoAdapter}]
      BY <1>4 DEF Connects
    <3>4. UNCHANGED <<viaGateway, booted, active, marks, talkVars, viewVars, chTrouble>>
      BY <1>4 DEF Connects
    <3> QED
      BY <2>0, <3>1, <3>2, <3>3, <3>4
  <2>2. MarksAreTaken'
    BY <1>4 DEF Connects
  <2>3. TakenOnce' /\ ReportIsSomewhere'
    BY <1>4 DEF Connects
  <2>4. HeardOnce' /\ EveryBotHears'
    BY <1>4 DEF Connects
  <2>5. OwnVoice'
    BY <1>4 DEF Connects
  <2> QED
    BY <2>1, <2>2, <2>3, <2>4, <2>5
<1>5. ASSUME NEW a \in Adapters, Activates(a) PROVE ChInv'
  BY <1>5 DEF Activates
<1>6. ASSUME NEW a \in Adapters, ListenerEnds(a) PROVE ChInv'
  BY <1>6 DEF ListenerEnds
<1>7. ASSUME NEW a \in Adapters, StartGateway(a) PROVE ChInv'
  <2>0. (viaGateway \in BOOLEAN /\ booted \in BOOLEAN /\ stolen \in BOOLEAN)'
    BY <1>7, Zenon DEF StartGateway
  <2>1. ChTypes'
    <3>1. listener' \in [Adapters -> {"off", "running", "waiting", "dead"}]
      BY <1>7, ListenerIs
    <3>2. chTrouble' \in 0 .. MaxTrouble
      BY <1>7 DEF StartGateway
    <3>3. UNCHANGED <<viaGateway, booted, adapter, active, route, marks, talkVars, viewVars>>
      BY <1>7 DEF StartGateway
    <3> QED
      BY <2>0, <3>1, <3>2, <3>3
  <2>2. MarksAreTaken'
    BY <1>7 DEF StartGateway
  <2>3. TakenOnce' /\ ReportIsSomewhere'
    BY <1>7 DEF StartGateway
  <2>4. HeardOnce' /\ EveryBotHears'
    BY <1>7 DEF StartGateway
  <2>5. OwnVoice'
    BY <1>7 DEF StartGateway
  <2> QED
    BY <2>1, <2>2, <2>3, <2>4, <2>5
<1>8. ASSUME NEW a \in Adapters, Reports(a) PROVE ChInv'
  BY <1>8 DEF Reports
<1>9. ASSUME NEW a \in Adapters, NEW m \in Chats, Arrives(a, m) PROVE ChInv'
  <2> DEFINE b == BotOf[a]
  <2>1. b \in Bots /\ ~Marked(b, m) /\ <<b, m>> \notin taken /\ routed[b][m] = 0
    BY <1>9 DEF Arrives
  <2>2. /\ marks' = marks \cup {Key(b, m)} /\ taken' = taken \cup {<<b, m>>}
        /\ UNCHANGED <<viaGateway, hostVars, reports, stolen, chTrouble>>
    BY <1>9 DEF Arrives
  <2>3. MarksAreTaken'
    <3> SUFFICES ASSUME NEW c \in Bots, NEW n \in Chats PROVE Key(c, n) \in marks' <=> <<c, n>> \in taken'
      BY DEF Key
    <3>1. Key(c, n) = Key(b, m) <=> <<c, n>> = <<b, m>>
      BY <2>1, KeysApart
    <3>2. Key(c, n) \in marks <=> <<c, n>> \in taken
      OBVIOUS
    <3> QED
      BY <2>2, <3>1, <3>2
  <2>4. Key(b, m) \in (Bots \cup {NoAdapter}) \X Chats
    BY <2>1 DEF Key
  <2>5. CASE m \in WithFile
    <3>1. handling' = handling \cup {<<a, m>>} /\ UNCHANGED <<routed, carried, context, expired>>
      BY <1>9, <2>5 DEF Arrives
    <3>2. TakenOnce'
      BY <2>1, <2>2, <3>1
    <3> QED
      BY <2>1, <2>2, <2>3, <2>4, <3>1, <3>2
  <2>6. CASE m \notin WithFile
    <3>1. Forwards(b, m) /\ UNCHANGED handling
      BY <1>9, <2>6 DEF Arrives
    <3>2. ReportIsSomewhere'
      BY <2>1, <2>2, <3>1, ReportStep
    <3>3. /\ routed'[b][m] = 1
          /\ \A c \in Bots, n \in Chats : <<c, n>> # <<b, m>> => routed'[c][n] = routed[c][n]
      BY <2>1, <2>2, <3>1, ForwardsIs
    <3>5. HeardOnce'
      <4> SUFFICES ASSUME NEW c \in Bots, NEW n \in Chats PROVE routed'[c][n] <= 1
        OBVIOUS
      <4>1. CASE <<c, n>> = <<b, m>>
        BY <3>3, <4>1
      <4>2. CASE <<c, n>> # <<b, m>>
        <5>1. routed'[c][n] = routed[c][n] /\ routed[c][n] <= 1
          BY <3>3, <4>2
        <5> QED
          BY <5>1
      <4> QED
        BY <4>1, <4>2
    <3>6. TakenOnce'
      <4>1. \A z \in Adapters, n \in Chats : <<z, n>> \in handling' => <<BotOf[z], n>> # <<b, m>> /\ <<z, n>> \in handling
        BY <2>1, <2>2, <3>1
      <4> QED
        BY <2>1, <2>2, <3>1, <3>3, <4>1
    <3>4. ChTypes'
      BY <2>1, <2>2, <2>4, <3>1, ForwardsIs
    <3> QED
      BY <2>2, <2>3, <3>1, <3>2, <3>4, <3>5, <3>6
  <2> QED
    BY <2>5, <2>6
<1>10. ASSUME NEW a \in Adapters, NEW m \in Chats, Drops(a, m) PROVE ChInv'
  <2>0. stolen' \in BOOLEAN
    BY <1>10, Zenon DEF Drops
  <2>6. UNCHANGED <<viaGateway, hostVars, marks, handling, taken, routed, carried, viewVars, chTrouble>>
    BY <1>10 DEF Drops
  <2>1. ChTypes'
    BY <2>0, <2>6
  <2>2. MarksAreTaken'
    BY <1>10 DEF Drops
  <2>3. TakenOnce' /\ ReportIsSomewhere'
    BY <1>10 DEF Drops
  <2>4. HeardOnce' /\ EveryBotHears'
    BY <1>10 DEF Drops
  <2>5. OwnVoice'
    BY <1>10 DEF Drops
  <2> QED
    BY <2>1, <2>2, <2>3, <2>4, <2>5
<1>11. ASSUME NEW a \in Adapters, NEW m \in Chats, Downloaded(a, m) PROVE ChInv'
  <2> DEFINE b == BotOf[a]
  <2>1. b \in Bots /\ <<b, m>> \in taken /\ routed[b][m] = 0 /\ <<a, m>> \in handling
    BY <1>11 DEF Downloaded
  <2>2. /\ handling' = handling \ {<<a, m>>} /\ Forwards(b, m)
        /\ UNCHANGED <<viaGateway, hostVars, marks, taken, reports, stolen, chTrouble>>
    BY <1>11 DEF Downloaded
  <2>3. ReportIsSomewhere'
    BY <2>1, <2>2, ReportStep
  <2>4. TakenOnce' /\ HeardOnce'
    <3>3. /\ routed'[b][m] = 1
          /\ \A c \in Bots, n \in Chats : <<c, n>> # <<b, m>> => routed'[c][n] = routed[c][n]
      BY <2>1, <2>2, ForwardsIs
    <3>4. \A z \in Adapters, n \in Chats : <<z, n>> \in handling' => <<BotOf[z], n>> # <<b, m>> /\ <<z, n>> \in handling
      BY <2>1, <2>2
    <3>5. HeardOnce'
      <4> SUFFICES ASSUME NEW c \in Bots, NEW n \in Chats PROVE routed'[c][n] <= 1
        OBVIOUS
      <4>1. CASE <<c, n>> = <<b, m>>
        BY <3>3, <4>1
      <4>2. CASE <<c, n>> # <<b, m>>
        <5>1. routed'[c][n] = routed[c][n] /\ routed[c][n] <= 1
          BY <3>3, <4>2
        <5> QED
          BY <5>1
      <4> QED
        BY <4>1, <4>2
    <3>6. TakenOnce'
      <4>1. \A z \in Adapters, n \in Chats : <<z, n>> \in handling' => routed'[BotOf[z]][n] = routed[BotOf[z]][n]
        BY <3>3, <3>4
      <4>2. \A c \in Bots, n \in Chats : <<c, n>> \notin taken => routed'[c][n] = routed[c][n]
        BY <2>1, <3>3
      <4> QED
        BY <2>2, <3>4, <4>1, <4>2
    <3> QED
      BY <3>5, <3>6
  <2>5. ChTypes'
    BY <2>1, <2>2, ForwardsIs
  <2> QED
    BY <2>2, <2>3, <2>4, <2>5
<1>12. ASSUME NEW b \in Bots, ContextExpires(b) PROVE ChInv'
  BY <1>12 DEF ContextExpires
<1>13. CASE HostRestarts
  <2>0. (viaGateway \in BOOLEAN /\ booted \in BOOLEAN /\ stolen \in BOOLEAN)'
    BY <1>13, Zenon DEF HostRestarts
  <2>1. ChTypes'
    BY <1>13, <2>0 DEF HostRestarts
  <2>2. MarksAreTaken'
    BY <1>13 DEF HostRestarts
  <2>3. TakenOnce' /\ ReportIsSomewhere'
    BY <1>13 DEF HostRestarts
  <2>4. HeardOnce' /\ EveryBotHears'
    BY <1>13 DEF HostRestarts
  <2>5. OwnVoice'
    BY <1>13 DEF HostRestarts
  <2> QED
    BY <2>1, <2>2, <2>3, <2>4, <2>5
<1>14. CASE UNCHANGED chVars
  BY <1>14 DEF chVars
<1> HIDE DEF ChInv
<1> QED
  BY <1>1, <1>2, <1>3, <1>4, <1>5, <1>6, <1>7, <1>8, <1>9, <1>10, <1>11, <1>12, <1>13, <1>14 DEF NextChat

\* The inductive invariant of a chat's inbound side (chat-sdk-bridge.ts,
\* channel-registry.ts, state-sqlite.ts).
THEOREM ChatInvariant == ChatSpec => []ChInv
BY InitChInv, ChInvStep, PTL DEF ChatSpec

\* The invariant of the inbound side types its variables.
LEMMA ChInvTypes == ChInv => ChTypeOK
BY DEF ChInv, ChTypes, ChTypeOK

\* The values of every variable of the inbound side.
THEOREM ChatVariables == ChatSpec => []ChTypeOK
<1>1. ChInv => ChTypeOK
  BY ChInvTypes
<1> QED
  BY <1>1, ChatInvariant, PTL

\* What the invariant says of what comes in.
LEMMA ChInvIsSafe == ChInv => ChatInSafety
<1>1. ChInv => ContextFits
  BY ChatAssumption DEF ChInv, ReportIsSomewhere, ContextFits
<1> QED
  BY <1>1 DEF ChInv, ChatInSafety

\* The router gets a message from a bot once, no bot loses one to another, a reply
\* speaks as the bot that heard, and a report goes with one message.
THEOREM ChatIsHeard == ChatSpec => []ChatInSafety
<1>1. ChInv => ChatInSafety
  BY ChInvIsSafe
<1> QED
  BY <1>1, ChatInvariant, PTL

-----------------------------------------------------------------------------
(* Commands of the agent, for any number of callers, commands and failures. *)

\* What the dispatches are made of.
DispatchRecords ==
  [call : Calls, card : {0} \cup Copies, at : Stages, target : {"own", "other", "blank"},
   reply : Replies, saw : SUBSET Scopes]
NcTypes ==
  /\ does \in [Calls -> {"read", "edit", "stop"}] /\ aim \in [Calls -> {"own", "other", "blank"}]
  /\ scope \in Scopes
  /\ request \in [Calls -> {"none", "due", "delivered", "failed"}]
  /\ tries \in [Calls -> 0 .. MaxTries - 1]
  /\ answer \in [Calls -> Replies] /\ heard \in [Calls -> Replies]
  /\ client \in [Calls -> {"idle", "polling", "answered", "gone"}]
  /\ dispatches \subseteq DispatchRecords
  /\ cards \in [Calls -> [Copies -> {"none", "pending", "approved", "gone"}]]
  /\ filed \in [Calls -> [Copies -> {"own", "other", "blank"}]]
  /\ \A x \in runs : x.call \in Calls /\ x.card \in {0} \cup Copies
  /\ scopeMoves \in 0 .. MaxScopes /\ ncFaults \in 0 .. MaxNcFaults

AfterEffect == {"answer", "mark"}

\* The calls something was run for or asked about, and those the drain is about to answer.
RunCalls == {x.call : x \in runs}
CardCalls == {c \in Calls : \E n \in Copies : cards[c][n] # "none"}
Answering == {c \in Calls : \E d \in dispatches : d.call = c /\ ByDrain(d) /\ d.at \in AfterEffect}

\* The drain is at one command, and an approved card at one place.
OneAtATime ==
  \A d, e \in dispatches :
    /\ ByDrain(d) /\ ByDrain(e) => d = e
    /\ d.call = e.call /\ d.card = e.card => d = e

\* Where a dispatch may be.
StagesSound ==
  \A d \in dispatches :
    /\ ByDrain(d) => request[d.call] = "due"
    /\ ~ByDrain(d) => cards[d.call][d.card] = "approved" /\ d.at \notin {"ask", "mark"}
    /\ d.at = "ask" => Held(d)
    /\ d.at = "run" /\ ByDrain(d) => ~Held(d)
    /\ d.at \in AfterEffect => d.reply # NoReply

\* A call was given when its client is idle no more.
GivenOnce == \A c \in Calls : request[c] = "none" <=> client[c] = "idle"

\* Only what is held has cards, none before it was given.
CardsAreAsked == \A c \in CardCalls : does[c] # "read" /\ request[c] # "none"

\* Cards are used in order, no more than the drain asked; it asks once more only
\* after a try that failed.
Asks(c) == MaxTries * ncFaults + tries[c] + (IF c \in Answering THEN 1 ELSE 0)
CardsInOrder ==
  \A c \in Calls : \E k \in {0} \cup Copies :
    /\ \A n \in Copies : cards[c][n] # "none" <=> n <= k
    /\ request[c] = "due" => k <= Asks(c)

\* A run is that of a read, or of a card that was approved and which no dispatch
\* is about to run.
RunsSound ==
  \A x \in runs :
    /\ x.card = 0 => does[x.call] = "read"
    /\ x.card # 0 => cards[x.call][x.card] \in {"approved", "gone"} /\ x.time = 0
    /\ request[x.call] # "none"
    /\ \A d \in dispatches : ~ByDrain(d) /\ d.call = x.call /\ d.card = x.card => d.at = "answer"

\* A dispatch has seen the scope of now, and one that runs a scope that lets it.
Lets(saw, group) == saw # {"disabled"} /\ (group = "other" => "global" \in saw)
ScopeSeen ==
  /\ \A d \in dispatches : scope \in d.saw /\ (d.at = "run" => Lets(d.saw, d.target))
  /\ \A x \in runs : Lets(x.saw, x.target)

\* What is said about a call is what became of it.
Told(c, r) ==
  /\ r = "done" => c \in RunCalls
  /\ r = "pending" => c \in CardCalls
  /\ Undisturbed /\ r \in {"denied", "error"} => c \notin RunCalls /\ c \notin CardCalls
RepliesTrue ==
  /\ \A d \in dispatches : ByDrain(d) /\ d.at \in AfterEffect => Told(d.call, d.reply)
  /\ \A c \in Calls : Told(c, answer[c]) /\ heard[c] \in {NoReply, answer[c]}

\* While the host does not fail, nothing comes of a call before it is answered
\* or asked about, and then one thing.
OnceUndisturbed ==
  Undisturbed =>
    /\ \A c \in Calls :
         /\ tries[c] = 0 /\ request[c] # "failed"
         /\ request[c] = "none" \/ (request[c] = "due" /\ c \notin Answering) =>
              answer[c] = NoReply /\ c \notin RunCalls /\ c \notin CardCalls
         /\ \A m, n \in Copies : cards[c][m] # "none" /\ cards[c][n] # "none" => m = n
    /\ \A x, y \in runs : x.call = y.call => x = y
    /\ \A d \in dispatches : d.at = "answer" /\ ByDrain(d) => answer[d.call] = NoReply

NcInv ==
  /\ NcTypes /\ OneAtATime /\ StagesSound /\ GivenOnce /\ CardsAreAsked /\ CardsInOrder /\ RunsSound
  /\ ScopeSeen /\ RepliesTrue /\ OnceUndisturbed

\* The values of the dispatches.
LEMMA DispatchesAre ==
  ASSUME NcTypes
  PROVE  \A d \in dispatches :
           /\ d \in DispatchRecords /\ d.call \in Calls /\ d.card \in {0} \cup Copies /\ d.at \in Stages
           /\ d.target \in {"own", "other", "blank"} /\ d.reply \in Replies /\ d.saw \subseteq Scopes
           /\ ~ByDrain(d) => d.card \in Copies
<1>1. \A d \in dispatches : d \in DispatchRecords
  BY DEF NcTypes
<1> QED
  BY <1>1 DEF DispatchRecords, ByDrain

\* No card has the number that stands for the drain.
LEMMA CopiesAre == Copies \subseteq Nat \ {0}
  BY NclAssumption DEF Copies

\* A new dispatch.
LEMMA FreshIs ==
  ASSUME NcTypes, NEW c \in Calls, NEW n \in {0} \cup Copies
  PROVE  /\ Fresh(c, n) \in DispatchRecords /\ Fresh(c, n).call = c /\ Fresh(c, n).card = n
         /\ Fresh(c, n).at = "fill" /\ Fresh(c, n).reply = NoReply /\ Fresh(c, n).saw = {scope}
<1>1. (IF n = 0 THEN aim[c] ELSE filed[c][n]) \in {"own", "other", "blank"}
  BY DEF NcTypes
<1> QED
  BY <1>1 DEF Fresh, DispatchRecords, NcTypes, Stages, Replies

\* A dispatch that goes on is the same otherwise.
LEMMA StageIs ==
  ASSUME NEW d \in DispatchRecords, NEW a \in Stages
  PROVE  LET e == [d EXCEPT !.at = a] IN
         /\ e \in DispatchRecords /\ e.call = d.call /\ e.card = d.card /\ e.target = d.target
         /\ e.saw = d.saw /\ e.at = a /\ e.reply = d.reply
  BY DEF DispatchRecords

\* Whom the drain is about to answer follows from where it is.
LEMMA AnsweringIs ==
  ASSUME NcTypes, OneAtATime, NEW d \in dispatches, ByDrain(d)
  PROVE  Answering = IF d.at \in AfterEffect THEN {d.call} ELSE {}
<1>1. d.call \in Calls /\ \A x \in dispatches : ByDrain(x) => x = d
  BY DispatchesAre DEF OneAtATime
<1> QED
  BY <1>1 DEF Answering

\* What becomes of it when a dispatch goes on.
LEMMA AnsweringMoves ==
  ASSUME NcTypes, OneAtATime, NEW d \in dispatches, NEW e, e.call = d.call, e.card = d.card,
         dispatches' = (dispatches \ {d}) \cup {e}
  PROVE  /\ ByDrain(d) => Answering' = IF e.at \in AfterEffect THEN {d.call} ELSE {}
         /\ ~ByDrain(d) => Answering' = Answering
<1>1. d.call \in Calls /\ \A x \in dispatches : ByDrain(d) /\ ByDrain(x) => x = d
  BY DispatchesAre DEF OneAtATime
<1>2. ByDrain(e) <=> ByDrain(d)
  BY DEF ByDrain
<1>3. ASSUME ByDrain(d) PROVE Answering' = IF e.at \in AfterEffect THEN {d.call} ELSE {}
  BY <1>1, <1>2, <1>3 DEF Answering, ByDrain
<1>4. ASSUME ~ByDrain(d) PROVE Answering' = Answering
  BY <1>2, <1>4 DEF Answering, ByDrain
<1> QED
  BY <1>3, <1>4

\* And when it ends.
LEMMA AnsweringEnds ==
  ASSUME NcTypes, OneAtATime, NEW d \in dispatches, dispatches' = dispatches \ {d}
  PROVE  /\ ByDrain(d) => Answering' = {}
         /\ ~ByDrain(d) => Answering' = Answering
  BY DEF Answering, ByDrain, OneAtATime

\* A dispatch that goes on stays the only one of its kind.
LEMMA OneMoves ==
  ASSUME OneAtATime, NEW d \in dispatches, NEW e, e.call = d.call, e.card = d.card,
         dispatches' = (dispatches \ {d}) \cup {e}
  PROVE  OneAtATime'
  BY DEF OneAtATime, ByDrain

\* Products of numbers.
LEMMA TimesIs ==
  ASSUME NEW m \in Nat, NEW n \in Nat, NEW l \in Nat, l <= n
  PROVE  m * n \in Nat /\ m * l \in Nat /\ m * l <= m * n
OBVIOUS

\* One product.
LEMMA TimesIsNat ==
  ASSUME NEW m \in Nat, NEW n \in Nat PROVE m * n \in Nat
OBVIOUS

\* The budget of cards is a number.
LEMMA AsksIs ==
  ASSUME NcTypes, NEW c \in Calls
  PROVE  /\ Asks(c) \in Nat /\ MaxTries * ncFaults \in Nat /\ tries[c] \in 0 .. MaxTries - 1
         /\ Asks(c) = MaxTries * ncFaults + tries[c] + (IF c \in Answering THEN 1 ELSE 0)
<1>1. MaxTries \in Nat /\ ncFaults \in Nat /\ tries[c] \in 0 .. MaxTries - 1
  BY NclAssumption DEF NcTypes
<1>2. MaxTries * ncFaults \in Nat
  BY <1>1
<1> QED
  BY <1>1, <1>2 DEF Asks

\* The cards stay in order while none is added and the budget does not shrink.
LEMMA OrderKept ==
  ASSUME NcTypes, NcTypes', CardsInOrder,
         \A c \in Calls, n \in Copies : cards'[c][n] = "none" <=> cards[c][n] = "none",
         \A c \in Calls : request'[c] = "due" => request[c] = "due" /\ Asks(c)' >= Asks(c)
  PROVE  CardsInOrder'
<1> SUFFICES ASSUME NEW c \in Calls
             PROVE  \E k \in {0} \cup Copies :
                      /\ \A n \in Copies : cards'[c][n] # "none" <=> n <= k
                      /\ request'[c] = "due" => k <= Asks(c)'
  BY DEF CardsInOrder
<1>1. Asks(c) \in Nat
  BY AsksIs
<1>2. Asks(c)' \in Nat
  <2>1. MaxTries \in Nat /\ ncFaults' \in Nat /\ tries'[c] \in 0 .. MaxTries - 1
    BY NclAssumption DEF NcTypes
  <2>2. MaxTries * ncFaults' \in Nat
    BY <2>1, TimesIsNat
  <2> QED
    BY <2>1, <2>2 DEF Asks
<1>3. PICK k \in {0} \cup Copies :
        /\ \A n \in Copies : cards[c][n] # "none" <=> n <= k
        /\ request[c] = "due" => k <= Asks(c)
  BY DEF CardsInOrder
<1>4. k \in Nat
  BY CopiesAre
<1> QED
  BY <1>1, <1>2, <1>3, <1>4

\* The calls with a card are the same while no card is added or wiped out.
LEMMA CardCallsKept ==
  ASSUME \A c \in Calls, n \in Copies : cards'[c][n] = "none" <=> cards[c][n] = "none"
  PROVE  CardCalls' = CardCalls
  BY DEF CardCalls

\* The client gives the command, reads its answer, or gives it up.
LEMMA GivesKeeps ==
  ASSUME NcInv, NEW c \in Calls, Gives(c), UNCHANGED <<does, aim>>
  PROVE  NcInv'
<1>1. /\ client[c] = "idle" /\ client' = [client EXCEPT ![c] = "polling"]
      /\ request' = [request EXCEPT ![c] = "due"]
      /\ UNCHANGED <<does, aim, scope, tries, answer, heard, dispatches, cards, filed, runs, scopeMoves, ncFaults>>
  BY DEF Gives
<1>2. /\ client' \in [Calls -> {"idle", "polling", "answered", "gone"}] /\ client'[c] = "polling"
      /\ \A x \in Calls \ {c} : client'[x] = client[x]
  BY <1>1 DEF NcInv, NcTypes
<1>3. /\ request' \in [Calls -> {"none", "due", "delivered", "failed"}] /\ request'[c] = "due"
      /\ \A x \in Calls \ {c} : request'[x] = request[x]
  BY <1>1 DEF NcInv, NcTypes
<1>4. Answering' = Answering /\ RunCalls' = RunCalls /\ CardCalls' = CardCalls
  BY <1>1 DEF Answering, RunCalls, CardCalls, ByDrain
<1>5. request[c] = "none" /\ c \notin CardCalls /\ \A n \in Copies : cards[c][n] = "none"
  BY <1>1 DEF NcInv, GivenOnce, CardsAreAsked, CardCalls
<1>6. \A d \in dispatches : d.call \in Calls
  BY DispatchesAre DEF NcInv
<1>11. NcTypes'
  BY <1>1, <1>2, <1>3 DEF NcInv, NcTypes
<1>12. OneAtATime'
  BY <1>1 DEF NcInv, OneAtATime, ByDrain
<1>13. StagesSound'
  BY <1>1, <1>3, <1>6 DEF NcInv, StagesSound, ByDrain, Held
<1>14. GivenOnce'
  BY <1>2, <1>3 DEF NcInv, GivenOnce
<1>15. CardsAreAsked'
  BY <1>1, <1>3, <1>4, <1>5 DEF NcInv, CardsAreAsked
<1>16. CardsInOrder'
  <2> SUFFICES ASSUME NEW x \in Calls
               PROVE  \E k \in {0} \cup Copies :
                        /\ \A n \in Copies : cards[x][n] # "none" <=> n <= k
                        /\ request'[x] = "due" => k <= Asks(x)
    BY <1>1, <1>4 DEF CardsInOrder, Asks
  <2>1. CASE x # c
    BY <1>3, <2>1 DEF NcInv, CardsInOrder
  <2>2. CASE x = c
    <3>1. Asks(c) \in Nat
      BY AsksIs DEF NcInv
    <3>2. /\ \A n \in Copies : cards[c][n] # "none" <=> n <= 0
          /\ 0 <= Asks(c)
      BY <1>5, <3>1, CopiesAre
    <3> QED
      BY <2>2, <3>2
  <2> QED
    BY <2>1, <2>2
<1>17. RunsSound'
  BY <1>1, <1>3, <1>5 DEF NcInv, RunsSound, NcTypes, ByDrain
<1>18. ScopeSeen'
  BY <1>1 DEF NcInv, ScopeSeen, Lets
<1>19. RepliesTrue'
  BY <1>1, <1>4 DEF NcInv, RepliesTrue, Told, ByDrain, Undisturbed
<1>20. OnceUndisturbed'
  BY <1>1, <1>3, <1>4, <1>5 DEF NcInv, OnceUndisturbed, ByDrain, Undisturbed
<1> QED
  BY <1>11, <1>12, <1>13, <1>14, <1>15, <1>16, <1>17, <1>18, <1>19, <1>20 DEF NcInv

\* What the client does with an answer, or without one, is its own.
LEMMA WaitingKeeps ==
  ASSUME NcInv, NEW c \in Calls, PollResponse(c) \/ TimesOut(c), UNCHANGED <<does, aim>>
  PROVE  NcInv'
<1>1. UNCHANGED <<does, aim, scope, request, tries, answer, dispatches, cards, filed, runs, scopeMoves, ncFaults>>
  BY DEF PollResponse, TimesOut
<1>2. /\ client' \in [Calls -> {"idle", "polling", "answered", "gone"}]
      /\ \A x \in Calls : client'[x] = "idle" <=> client[x] = "idle"
  BY DEF NcInv, NcTypes, PollResponse, TimesOut
<1>3. heard' \in [Calls -> Replies] /\ \A x \in Calls : heard'[x] \in {heard[x], answer[x]}
  BY DEF NcInv, NcTypes, PollResponse, TimesOut
<1>4. Answering' = Answering /\ RunCalls' = RunCalls /\ CardCalls' = CardCalls
  BY <1>1 DEF Answering, RunCalls, CardCalls, ByDrain
<1>11. NcTypes'
  BY <1>1, <1>2, <1>3 DEF NcInv, NcTypes
<1>12. OneAtATime' /\ StagesSound'
  BY <1>1 DEF NcInv, OneAtATime, StagesSound, ByDrain, Held
<1>14. GivenOnce'
  BY <1>1, <1>2 DEF NcInv, GivenOnce
<1>15. CardsAreAsked'
  BY <1>1, <1>4 DEF NcInv, CardsAreAsked
<1>16. CardsInOrder'
  BY <1>1, <1>4 DEF NcInv, CardsInOrder, Asks
<1>17. RunsSound' /\ ScopeSeen'
  BY <1>1 DEF NcInv, RunsSound, ScopeSeen, Lets, ByDrain
<1>19. RepliesTrue'
  BY <1>1, <1>3, <1>4 DEF NcInv, RepliesTrue, Told, ByDrain, Undisturbed
<1>20. OnceUndisturbed'
  BY <1>1, <1>4 DEF NcInv, OnceUndisturbed, ByDrain, Undisturbed
<1> QED
  BY <1>11, <1>12, <1>14, <1>15, <1>16, <1>17, <1>19, <1>20 DEF NcInv

\* The drain takes up a call when it is at no other.
LEMMA TakeUpKeeps ==
  ASSUME NcInv, NEW c \in Calls, TakeUp(c), UNCHANGED <<does, aim>>
  PROVE  NcInv'
<1>1. PICK e \in DispatchRecords :
        /\ dispatches' = dispatches \cup {e} /\ e.call = c /\ e.card = 0 /\ e.at = "fill" /\ e.saw = {scope}
  BY FreshIs DEF TakeUp, NcInv
<1>2. /\ request[c] = "due" /\ \A x \in dispatches : ~ByDrain(x)
      /\ UNCHANGED <<does, aim, scope, client, heard, scopeMoves, ncFaults, request, tries, answer, cards, filed, runs>>
  BY DEF TakeUp, Host
<1>3. ByDrain(e) /\ e.at \notin AfterEffect
  BY <1>1 DEF ByDrain, AfterEffect
<1>4. Answering' = Answering /\ RunCalls' = RunCalls /\ CardCalls' = CardCalls
  BY <1>1, <1>2, <1>3 DEF Answering, RunCalls, CardCalls, ByDrain
<1>5. \A x \in dispatches' : x = e \/ (x \in dispatches /\ ~ByDrain(x))
  BY <1>1, <1>2
<1>11. NcTypes'
  BY <1>1, <1>2 DEF NcInv, NcTypes
<1>12. OneAtATime'
  BY <1>1, <1>3, <1>5 DEF NcInv, OneAtATime, ByDrain
<1>13. StagesSound'
  BY <1>1, <1>2, <1>3, <1>5 DEF NcInv, StagesSound, ByDrain, Held
<1>14. GivenOnce' /\ CardsAreAsked'
  BY <1>2, <1>4 DEF NcInv, GivenOnce, CardsAreAsked
<1>16. CardsInOrder'
  BY <1>2, <1>4 DEF NcInv, CardsInOrder, Asks
<1>17. RunsSound'
  BY <1>2, <1>3, <1>5 DEF NcInv, RunsSound, ByDrain
<1>18. ScopeSeen'
  BY <1>1, <1>2, <1>5 DEF NcInv, ScopeSeen, Lets
<1>19. RepliesTrue'
  BY <1>2, <1>3, <1>4, <1>5 DEF NcInv, RepliesTrue, Told, ByDrain, Undisturbed
<1>20. OnceUndisturbed'
  BY <1>1, <1>2, <1>4, <1>5 DEF NcInv, OnceUndisturbed, ByDrain, Undisturbed
<1> QED
  BY <1>11, <1>12, <1>13, <1>14, <1>16, <1>17, <1>18, <1>19, <1>20 DEF NcInv

\* A dispatch before its effect is filled in.
LEMMA FillKeeps ==
  ASSUME NcInv, NEW d \in dispatches, Fill(d), UNCHANGED <<does, aim>>
  PROVE  NcInv'
<1>d. d \in DispatchRecords /\ d.call \in Calls
  BY DispatchesAre DEF NcInv
<1>1. PICK e \in DispatchRecords :
        /\ dispatches' = (dispatches \ {d}) \cup {e} /\ e.call = d.call /\ e.card = d.card
        /\ e.at = "guard" /\ e.saw = d.saw
  <2> DEFINE t == IF scope = "group" /\ d.target = "blank" THEN "own" ELSE d.target
             f == [d EXCEPT !.at = "guard", !.target = t]
  <2>1. dispatches' = (dispatches \ {d}) \cup {f}
    BY DEF Fill, MovesTo
  <2>2. t \in {"own", "other", "blank"}
    BY <1>d DEF DispatchRecords
  <2>3. f \in DispatchRecords /\ f.call = d.call /\ f.card = d.card /\ f.at = "guard" /\ f.saw = d.saw
    <3> HIDE DEF t
    <3> QED
      BY <1>d, <2>2 DEF DispatchRecords, Stages
  <2> QED
    BY <2>1, <2>3
<1>2. /\ d.at = "fill"
      /\ UNCHANGED <<does, aim, scope, client, heard, scopeMoves, ncFaults, request, tries, answer, cards, filed, runs>>
  BY DEF Fill, Host
<1>3. d.at \notin AfterEffect /\ e.at \notin AfterEffect /\ (ByDrain(e) <=> ByDrain(d))
  BY <1>1, <1>2 DEF ByDrain, AfterEffect
<1>4. Answering' = Answering /\ RunCalls' = RunCalls /\ CardCalls' = CardCalls
  <2>1. Answering' = Answering
    BY <1>1, <1>3, AnsweringIs, AnsweringMoves DEF NcInv
  <2> QED
    BY <1>2, <2>1 DEF RunCalls, CardCalls
<1>5. \A x \in dispatches' : x = e \/ x \in dispatches
  BY <1>1
<1>11. NcTypes'
  BY <1>1, <1>2 DEF NcInv, NcTypes
<1>12. OneAtATime'
  BY <1>1, OneMoves DEF NcInv
<1>13. StagesSound'
  BY <1>1, <1>2, <1>3, <1>5 DEF NcInv, StagesSound, ByDrain, Held
<1>14. GivenOnce' /\ CardsAreAsked'
  BY <1>2, <1>4 DEF NcInv, GivenOnce, CardsAreAsked
<1>16. CardsInOrder'
  BY <1>2, <1>4 DEF NcInv, CardsInOrder, Asks
<1>17. RunsSound'
  BY <1>1, <1>2, <1>3, <1>5 DEF NcInv, RunsSound, ByDrain
<1>18. ScopeSeen'
  BY <1>1, <1>2, <1>5 DEF NcInv, ScopeSeen, Lets
<1>19. RepliesTrue'
  BY <1>2, <1>3, <1>4, <1>5 DEF NcInv, RepliesTrue, Told, ByDrain, Undisturbed
<1>20. OnceUndisturbed'
  BY <1>1, <1>2, <1>4, <1>5 DEF NcInv, OnceUndisturbed, ByDrain, Undisturbed
<1> QED
  BY <1>11, <1>12, <1>13, <1>14, <1>16, <1>17, <1>18, <1>19, <1>20 DEF NcInv

\* The guard refuses only what had no effect.
LEMMA GuardKeeps ==
  ASSUME NcInv, NEW d \in dispatches, Guard(d), UNCHANGED <<does, aim>>
  PROVE  NcInv'
<1>d. d \in DispatchRecords /\ d.call \in Calls /\ d.card \in {0} \cup Copies /\ scope \in d.saw
  BY DispatchesAre DEF NcInv, ScopeSeen
<1>1. PICK e \in DispatchRecords :
        /\ dispatches' = (dispatches \ {d}) \cup {e} /\ e.call = d.call /\ e.card = d.card
        /\ e.target = d.target /\ e.saw = d.saw
        /\ \/ e.at = "answer" /\ e.reply = "denied"
           \/ e.at = "ask" /\ Held(d) /\ ByDrain(d)
           \/ e.at = "run" /\ ~Forbidden(d) /\ (ByDrain(d) => ~Held(d))
  <2> DEFINE no == Forbidden(d) \/ (Held(d) /\ ~ByDrain(d) /\ ~Granted(d))
  <2>0. {"answer", "ask", "run"} \subseteq Stages /\ "denied" \in Replies
    BY DEF Stages, Replies
  <2>1. CASE no
    <3> DEFINE f == [d EXCEPT !.at = "answer", !.reply = "denied"]
    <3>1. dispatches' = (dispatches \ {d}) \cup {f}
      BY <2>1 DEF Guard, MovesTo
    <3>2. f \in DispatchRecords /\ f.call = d.call /\ f.card = d.card /\ f.target = d.target
          /\ f.saw = d.saw /\ f.at = "answer" /\ f.reply = "denied"
      BY <1>d, <2>0 DEF DispatchRecords
    <3> QED
      BY <3>1, <3>2
  <2>2. CASE ~no /\ Held(d) /\ ByDrain(d)
    <3> DEFINE f == [d EXCEPT !.at = "ask"]
    <3>1. dispatches' = (dispatches \ {d}) \cup {f}
      BY <2>2 DEF Guard, MovesTo
    <3>2. f \in DispatchRecords /\ f.call = d.call /\ f.card = d.card /\ f.target = d.target
          /\ f.saw = d.saw /\ f.at = "ask"
      BY <1>d, <2>0, StageIs
    <3> QED
      BY <2>2, <3>1, <3>2
  <2>3. CASE ~no /\ ~(Held(d) /\ ByDrain(d))
    <3> DEFINE f == [d EXCEPT !.at = "run"]
    <3>1. dispatches' = (dispatches \ {d}) \cup {f}
      BY <2>3 DEF Guard, MovesTo
    <3>2. f \in DispatchRecords /\ f.call = d.call /\ f.card = d.card /\ f.target = d.target
          /\ f.saw = d.saw /\ f.at = "run"
      BY <1>d, <2>0, StageIs
    <3> QED
      BY <2>3, <3>1, <3>2
  <2> QED
    BY <2>1, <2>2, <2>3
<1>2. /\ d.at = "guard"
      /\ UNCHANGED <<does, aim, scope, client, heard, scopeMoves, ncFaults, request, tries, answer, cards, filed, runs>>
  BY DEF Guard, Host
<1>3. /\ ByDrain(e) <=> ByDrain(d)
      /\ e.at \in AfterEffect <=> e.at = "answer"
      /\ e.at = "answer" => e.reply = "denied"
  BY <1>1 DEF ByDrain, AfterEffect
<1>4. RunCalls' = RunCalls /\ CardCalls' = CardCalls
  BY <1>2 DEF RunCalls, CardCalls
<1>6. /\ ByDrain(d) => d.call \notin Answering /\ request[d.call] = "due"
                       /\ Answering' = IF e.at = "answer" THEN {d.call} ELSE {}
      /\ ~ByDrain(d) => Answering' = Answering
      /\ ByDrain(d) => Answering = {}
      /\ \A x \in dispatches : ByDrain(x) /\ ByDrain(d) => x = d
  <2>1. d.at \notin AfterEffect
    BY <1>2 DEF AfterEffect
  <2>2. ByDrain(d) => Answering = {}
    BY <2>1, AnsweringIs DEF NcInv
  <2>3. /\ ByDrain(d) => Answering' = IF e.at \in AfterEffect THEN {d.call} ELSE {}
        /\ ~ByDrain(d) => Answering' = Answering
    BY <1>1, AnsweringMoves DEF NcInv
  <2> QED
    BY <1>3, <2>2, <2>3 DEF NcInv, StagesSound, OneAtATime
<1>5. \A x \in dispatches' : x = e \/ (x \in dispatches /\ x # d)
  BY <1>1
<1>7. Answering \subseteq Answering'
  BY <1>6
<1>8. Undisturbed /\ ByDrain(d) =>
        answer[d.call] = NoReply /\ d.call \notin RunCalls /\ d.call \notin CardCalls
  BY <1>d, <1>6 DEF NcInv, OnceUndisturbed
<1>11. NcTypes'
  BY <1>1, <1>2 DEF NcInv, NcTypes
<1>12. OneAtATime'
  BY <1>1, OneMoves DEF NcInv
<1>13. StagesSound'
  <2>1. /\ ByDrain(e) => request[e.call] = "due"
        /\ ~ByDrain(e) => cards[e.call][e.card] = "approved" /\ e.at \notin {"ask", "mark"}
        /\ e.at = "ask" => Held(e)
        /\ e.at = "run" /\ ByDrain(e) => ~Held(e)
        /\ e.at \in AfterEffect => e.reply # NoReply
    BY <1>1, <1>2, <1>3, <1>6 DEF NcInv, StagesSound, Held, NoReply
  <2> QED
    BY <1>2, <1>5, <2>1 DEF NcInv, StagesSound, ByDrain, Held
<1>14. GivenOnce' /\ CardsAreAsked'
  BY <1>2, <1>4 DEF NcInv, GivenOnce, CardsAreAsked
<1>16. CardsInOrder'
  <2>1. \A c \in Calls : Asks(c)' >= Asks(c)
    <3> SUFFICES ASSUME NEW c \in Calls PROVE Asks(c)' >= Asks(c)
      OBVIOUS
    <3>1. Asks(c)' = MaxTries * ncFaults + tries[c] + (IF c \in Answering' THEN 1 ELSE 0)
      BY <1>2 DEF Asks
    <3> QED
      BY <1>7, <3>1, AsksIs DEF NcInv
  <2> QED
    BY <1>2, <1>11, <2>1, OrderKept DEF NcInv
<1>17. RunsSound'
  BY <1>1, <1>2, <1>3, <1>5 DEF NcInv, RunsSound, ByDrain
<1>18. ScopeSeen'
  <2>1. e.at = "run" => Lets(e.saw, e.target)
    BY <1>1, <1>d DEF Forbidden, Denied, Lets, NcInv, NcTypes, Scopes
  <2> QED
    BY <1>1, <1>2, <1>5, <2>1 DEF NcInv, ScopeSeen, Lets
<1>19. RepliesTrue'
  <2>1. ByDrain(e) /\ e.at \in AfterEffect => Told(e.call, e.reply)
    BY <1>1, <1>3, <1>8 DEF Told
  <2> QED
    BY <1>2, <1>4, <1>5, <2>1 DEF NcInv, RepliesTrue, Told, ByDrain, Undisturbed
<1>20. OnceUndisturbed'
  BY <1>1, <1>2, <1>3, <1>4, <1>5, <1>7, <1>8 DEF NcInv, OnceUndisturbed, ByDrain, Undisturbed
<1> QED
  BY <1>11, <1>12, <1>13, <1>14, <1>16, <1>17, <1>18, <1>19, <1>20 DEF NcInv

\* A call that is still asked about has a card left.
LEMMA NextCardIs ==
  ASSUME NcInv, NEW d \in dispatches, d.at = "ask", ByDrain(d), request[d.call] = "due"
  PROVE  /\ NextCard(d.call) \in Copies /\ cards[d.call][NextCard(d.call)] = "none"
         /\ \A i \in 1 .. NextCard(d.call) - 1 : cards[d.call][i] # "none"
<1> DEFINE c == d.call
           f == ncFaults
<1>1. c \in Calls
  BY DispatchesAre DEF NcInv
<1>2. c \notin Answering
  BY AnsweringIs DEF NcInv, AfterEffect
<1>3. PICK k \in {0} \cup Copies :
        /\ \A n \in Copies : cards[c][n] # "none" <=> n <= k
        /\ request[c] = "due" => k <= Asks(c)
  BY <1>1 DEF NcInv, CardsInOrder
<1>4. k <= MaxTries * f + tries[c] /\ tries[c] \in 0 .. MaxTries - 1 /\ MaxTries * f \in Nat
  BY <1>1, <1>2, <1>3, AsksIs DEF NcInv
<1>5. MaxTries \in Nat /\ MaxTries > 0 /\ f \in Nat /\ MaxNcFaults \in Nat /\ f <= MaxNcFaults
  BY NclAssumption DEF NcInv, NcTypes
<1>6. k + 1 \in Copies /\ k \in Nat
  <2> HIDE DEF f, c
  <2>1. k \in Nat
    BY <1>3, CopiesAre
  <2>2. MaxTries * (f + 1) <= MaxTries * (MaxNcFaults + 1)
    BY <1>5
  <2>3. MaxTries * (f + 1) = MaxTries * f + MaxTries
    BY <1>5
  <2>4. MaxTries * (MaxNcFaults + 1) \in Nat
    BY <1>5
  <2>5. k + 1 <= MaxTries * (MaxNcFaults + 1)
    BY <1>4, <1>5, <2>1, <2>2, <2>3, <2>4
  <2> QED
    BY <2>1, <2>4, <2>5 DEF Copies
<1>7. cards[c][k + 1] = "none" /\ \A i \in 1 .. k : cards[c][i] # "none"
  <2>1. \A i \in 1 .. k : i \in Copies /\ i <= k
    <3>1. MaxTries * (MaxNcFaults + 1) \in Nat
      BY <1>5
    <3> QED
      BY <1>6, <3>1 DEF Copies
  <2>2. ~(k + 1 <= k)
    BY <1>6
  <2> QED
    BY <1>3, <1>6, <2>1, <2>2
<1>8. \E n \in Copies : cards[c][n] = "none" /\ \A i \in 1 .. n - 1 : cards[c][i] # "none"
  <2>1. (k + 1) - 1 = k
    BY <1>6
  <2> QED
    BY <1>6, <1>7, <2>1
<1> QED
  BY <1>8 DEF NextCard

\* The admin is asked about a call of which nothing has come before, unless the
\* host failed; the card is the next one.
LEMMA AskAdminKeeps ==
  ASSUME NcInv, NEW d \in dispatches, AskAdmin(d), UNCHANGED <<does, aim>>
  PROVE  NcInv'
<1>d. d \in DispatchRecords /\ d.call \in Calls /\ d.target \in {"own", "other", "blank"}
  BY DispatchesAre DEF NcInv
<1>1. PICK e \in DispatchRecords :
        /\ dispatches' = (dispatches \ {d}) \cup {e} /\ e.call = d.call /\ e.card = d.card
        /\ e.target = d.target /\ e.saw = d.saw /\ e.at = "answer" /\ e.reply = "pending"
  <2> DEFINE f == [d EXCEPT !.at = "answer", !.reply = "pending"]
  <2>1. dispatches' = (dispatches \ {d}) \cup {f}
    BY DEF AskAdmin, MovesTo
  <2>2. f \in DispatchRecords /\ f.call = d.call /\ f.card = d.card /\ f.target = d.target
        /\ f.saw = d.saw /\ f.at = "answer" /\ f.reply = "pending"
    BY <1>d DEF DispatchRecords, Stages, Replies
  <2> QED
    BY <2>1, <2>2
<1>2. /\ d.at = "ask" /\ ByDrain(d) /\ request[d.call] = "due" /\ Held(d)
      /\ UNCHANGED <<does, aim, scope, client, heard, scopeMoves, ncFaults, request, tries, answer, runs>>
  BY DEF AskAdmin, Host, NcInv, StagesSound
<1>3. PICK n \in Copies :
        /\ cards[d.call][n] = "none" /\ (\A i \in 1 .. n - 1 : cards[d.call][i] # "none")
        /\ cards' = [cards EXCEPT ![d.call][n] = "pending"] /\ filed' = [filed EXCEPT ![d.call][n] = d.target]
  BY <1>2, NextCardIs DEF AskAdmin
<1>4. /\ cards' \in [Calls -> [Copies -> {"none", "pending", "approved", "gone"}]]
      /\ cards'[d.call][n] = "pending"
      /\ \A c \in Calls, i \in Copies : c # d.call \/ i # n => cards'[c][i] = cards[c][i]
  BY <1>d, <1>3 DEF NcInv, NcTypes
<1>5. filed' \in [Calls -> [Copies -> {"own", "other", "blank"}]]
  BY <1>d, <1>3 DEF NcInv, NcTypes
<1>6. /\ d.call \notin Answering /\ Answering = {} /\ Answering' = {d.call} /\ RunCalls' = RunCalls
      /\ CardCalls' = CardCalls \cup {d.call}
      /\ \A x \in dispatches : ByDrain(x) => x = d
  <2>1. Answering = {}
    BY <1>2, AnsweringIs DEF NcInv, AfterEffect
  <2>2. Answering' = {d.call}
    BY <1>1, <1>2, AnsweringMoves DEF NcInv, AfterEffect
  <2>3. CardCalls' = CardCalls \cup {d.call}
    BY <1>d, <1>4 DEF CardCalls
  <2>4. \A x \in dispatches : ByDrain(x) => x = d
    BY <1>2 DEF NcInv, OneAtATime
  <2> QED
    BY <1>2, <2>1, <2>2, <2>3, <2>4 DEF RunCalls
<1>7. /\ ByDrain(e) /\ e \in dispatches'
      /\ \A x \in dispatches' : x = e \/ (x \in dispatches /\ ~ByDrain(x))
  BY <1>1, <1>2, <1>6 DEF ByDrain
<1>8. Undisturbed => answer[d.call] = NoReply /\ d.call \notin RunCalls /\ d.call \notin CardCalls
  BY <1>d, <1>2, <1>6 DEF NcInv, OnceUndisturbed
<1>9. \A x \in dispatches : /\ x.call \in Calls
                            /\ ~ByDrain(x) => x.card \in Copies /\ cards[x.call][x.card] = "approved"
  BY DispatchesAre DEF NcInv, StagesSound
<1>11. NcTypes'
  BY <1>1, <1>2, <1>4, <1>5 DEF NcInv, NcTypes
<1>12. OneAtATime'
  BY <1>1, OneMoves DEF NcInv
<1>13. StagesSound'
  <2>1. \A x \in dispatches : ~ByDrain(x) => cards'[x.call][x.card] = "approved"
    BY <1>3, <1>4, <1>9
  <2> QED
    BY <1>1, <1>2, <1>7, <2>1 DEF NcInv, StagesSound, ByDrain, Held, NoReply
<1>14. GivenOnce' /\ CardsAreAsked'
  BY <1>2, <1>6 DEF NcInv, GivenOnce, CardsAreAsked, Held
<1>16. CardsInOrder'
  <2> SUFFICES ASSUME NEW c \in Calls
               PROVE  \E k \in {0} \cup Copies :
                        /\ \A i \in Copies : cards'[c][i] # "none" <=> i <= k
                        /\ request[c] = "due" => k <= Asks(c)'
    BY <1>2 DEF CardsInOrder
  <2>1. /\ Asks(c)' = MaxTries * ncFaults + tries[c] + (IF c \in Answering' THEN 1 ELSE 0)
        /\ Asks(c) = MaxTries * ncFaults + tries[c] + (IF c \in Answering THEN 1 ELSE 0)
        /\ MaxTries * ncFaults \in Nat /\ tries[c] \in Nat
    BY <1>2, AsksIs DEF NcInv, Asks
  <2>2. PICK k \in {0} \cup Copies :
          /\ \A i \in Copies : cards[c][i] # "none" <=> i <= k
          /\ request[c] = "due" => k <= Asks(c)
    BY DEF NcInv, CardsInOrder
  <2>3. CASE c # d.call
    BY <1>4, <1>6, <2>1, <2>2, <2>3
  <2>4. CASE c = d.call
    <3>1. Asks(c)' = Asks(c) + 1 /\ Asks(c) \in Nat
      BY <1>6, <2>1, <2>4
    <3>2. n = k + 1 /\ k \in Nat
      <4>1. n \in Nat /\ n > 0 /\ k \in Nat /\ n > k
        BY <1>3, <2>2, <2>4, CopiesAre
      <4>2. CASE n - 1 = 0
        BY <4>1, <4>2
      <4>3. CASE n - 1 > 0
        <5>1. n - 1 \in Copies /\ n - 1 \in 1 .. n - 1
          BY <4>1, <4>3, NclAssumption DEF Copies
        <5>2. n - 1 <= k
          BY <1>3, <2>2, <2>4, <5>1
        <5> QED
          BY <4>1, <5>2
      <4> QED
        BY <4>1, <4>2, <4>3
    <3>3. \A i \in Copies : cards'[c][i] # "none" <=> i <= n
      <4> SUFFICES ASSUME NEW i \in Copies PROVE cards'[c][i] # "none" <=> i <= n
        OBVIOUS
      <4>1. i \in Nat
        BY CopiesAre
      <4> QED
        BY <1>4, <2>2, <2>4, <3>2, <4>1
    <3>4. request[c] = "due" => n <= Asks(c)'
      BY <2>2, <3>1, <3>2
    <3> QED
      BY <3>3, <3>4
  <2> QED
    BY <2>3, <2>4
<1>17. RunsSound'
  <2>1. \A x \in runs : x.card # 0 => x.call \in Calls /\ x.card \in Copies
    BY DEF NcInv, NcTypes
  <2>2. \A x \in runs : x.card # 0 => cards'[x.call][x.card] \in {"approved", "gone"}
    BY <1>3, <1>4, <2>1 DEF NcInv, RunsSound
  <2> QED
    BY <1>2, <1>7, <2>2 DEF NcInv, RunsSound, ByDrain
<1>18. ScopeSeen'
  BY <1>1, <1>2, <1>7 DEF NcInv, ScopeSeen, Lets
<1>19. RepliesTrue'
  <2>1. Told(e.call, e.reply)'
    BY <1>1, <1>6 DEF Told, Undisturbed
  <2>2. \A c \in Calls : Told(c, answer[c])'
    <3> SUFFICES ASSUME NEW c \in Calls PROVE Told(c, answer[c])'
      OBVIOUS
    <3>1. Told(c, answer[c])
      BY DEF NcInv, RepliesTrue
    <3>2. Undisturbed /\ c = d.call => answer[c] \notin {"denied", "error"}
      BY <1>8 DEF NoReply
    <3> QED
      BY <1>2, <1>6, <3>1, <3>2 DEF Told, Undisturbed
  <2> QED
    BY <1>2, <1>7, <2>1, <2>2 DEF NcInv, RepliesTrue, ByDrain, Told, Undisturbed
<1>20. OnceUndisturbed'
  <2> SUFFICES ASSUME Undisturbed
               PROVE  /\ \A c \in Calls :
                           /\ tries[c] = 0 /\ request[c] # "failed"
                           /\ request[c] = "none" \/ (request[c] = "due" /\ c \notin Answering') =>
                                answer[c] = NoReply /\ c \notin RunCalls /\ c \notin CardCalls'
                           /\ \A m, i \in Copies : cards'[c][m] # "none" /\ cards'[c][i] # "none" => m = i
                      /\ \A x, y \in runs : x.call = y.call => x = y
                      /\ \A x \in dispatches' : x.at = "answer" /\ ByDrain(x) => answer[x.call] = NoReply
    BY <1>2, <1>6 DEF OnceUndisturbed, Undisturbed, ByDrain
  <2>1. \A i \in Copies : cards[d.call][i] = "none"
    BY <1>d, <1>8 DEF CardCalls
  <2>2. \A c \in Calls : \A m, i \in Copies : cards'[c][m] # "none" /\ cards'[c][i] # "none" => m = i
    BY <1>4, <2>1 DEF NcInv, OnceUndisturbed
  <2>3. \A x \in dispatches' : x.at = "answer" /\ ByDrain(x) => answer[x.call] = NoReply
    BY <1>1, <1>7, <1>8
  <2>4. \A c \in Calls : request[c] = "none" \/ (request[c] = "due" /\ c \notin Answering') =>
          answer[c] = NoReply /\ c \notin RunCalls /\ c \notin CardCalls'
    BY <1>2, <1>6 DEF NcInv, OnceUndisturbed
  <2> QED
    BY <2>2, <2>3, <2>4 DEF NcInv, OnceUndisturbed
<1> QED
  BY <1>11, <1>12, <1>13, <1>14, <1>16, <1>17, <1>18, <1>19, <1>20 DEF NcInv

\* What runs by a card runs for the first time.
LEMMA RanIs ==
  ASSUME NcInv, NEW d \in dispatches, d.at = "run"
  PROVE  /\ Ran(d).call = d.call /\ Ran(d).card = d.card /\ Ran(d).target = d.target /\ Ran(d).saw = d.saw
         /\ ~ByDrain(d) => Ran(d).time = 0 /\ \A x \in runs : ~(x.call = d.call /\ x.card = d.card)
<1>1. ASSUME ~ByDrain(d) PROVE Ran(d).time = 0 /\ \A x \in runs : ~(x.call = d.call /\ x.card = d.card)
  <2>1. \A x \in runs : ~(x.call = d.call /\ x.card = d.card)
    BY <1>1 DEF NcInv, RunsSound
  <2>2. {x \in runs : x.call = d.call /\ x.card = d.card} = {}
    BY <2>1
  <2>3. Ran(d).time = Cardinality({})
    BY <2>2 DEF Ran
  <2> QED
    BY <2>1, <2>3, FS_EmptySet
<1> QED
  BY <1>1 DEF Ran

\* A handler runs for a read, or once for a card; a restart only ends who waits.
LEMMA RunKeeps ==
  ASSUME NcInv, NEW d \in dispatches, Run(d), UNCHANGED <<does, aim>>
  PROVE  NcInv'
<1>d. d \in DispatchRecords /\ d.call \in Calls /\ d.card \in {0} \cup Copies
      /\ (~ByDrain(d) => d.card \in Copies) /\ (ByDrain(d) <=> d.card = 0)
  BY DispatchesAre DEF NcInv, ByDrain
<1>1. PICK e \in DispatchRecords :
        /\ dispatches' = (dispatches \ {d}) \cup {e} /\ e.call = d.call /\ e.card = d.card
        /\ e.target = d.target /\ e.saw = d.saw /\ e.at = "answer"
        /\ \/ e.reply = "error" /\ runs' = runs
           \/ e.reply = "done" /\ runs' = runs \cup {Ran(d)}
  <2>0. "answer" \in Stages /\ {"error", "done"} \subseteq Replies
    BY DEF Stages, Replies
  <2>1. CASE d.target = "blank" /\ does[d.call] = "edit"
    <3> DEFINE f == [d EXCEPT !.at = "answer", !.reply = "error"]
    <3>1. dispatches' = (dispatches \ {d}) \cup {f} /\ runs' = runs
      BY <2>1 DEF Run, MovesTo
    <3>2. f \in DispatchRecords /\ f.call = d.call /\ f.card = d.card /\ f.target = d.target
          /\ f.saw = d.saw /\ f.at = "answer" /\ f.reply = "error"
      BY <1>d, <2>0 DEF DispatchRecords
    <3> QED
      BY <3>1, <3>2
  <2>2. CASE ~(d.target = "blank" /\ does[d.call] = "edit")
    <3> DEFINE f == [d EXCEPT !.at = "answer", !.reply = "done"]
    <3>1. dispatches' = (dispatches \ {d}) \cup {f} /\ runs' = runs \cup {Ran(d)}
      BY <2>2 DEF Run, MovesTo
    <3>2. f \in DispatchRecords /\ f.call = d.call /\ f.card = d.card /\ f.target = d.target
          /\ f.saw = d.saw /\ f.at = "answer" /\ f.reply = "done"
      BY <1>d, <2>0 DEF DispatchRecords
    <3> QED
      BY <3>1, <3>2
  <2> QED
    BY <2>1, <2>2
<1>2. d.at = "run" /\ UNCHANGED <<does, aim, request, tries, answer, cards, filed, scope, heard, scopeMoves, ncFaults>>
  BY DEF Run
<1>3. /\ client' \in [Calls -> {"idle", "polling", "answered", "gone"}]
      /\ \A c \in Calls : client'[c] = "idle" <=> client[c] = "idle"
  BY DEF Run, NcInv, NcTypes
<1>4. /\ Ran(d).call = d.call /\ Ran(d).card = d.card /\ Ran(d).target = d.target /\ Ran(d).saw = d.saw
      /\ ~ByDrain(d) => Ran(d).time = 0 /\ \A x \in runs : ~(x.call = d.call /\ x.card = d.card)
  BY <1>2, RanIs
<1>5. /\ ByDrain(e) <=> ByDrain(d)
      /\ \A x \in dispatches' : x = e \/ (x \in dispatches /\ x # d)
      /\ e \in dispatches'
  BY <1>1 DEF ByDrain
<1>6. \A x \in runs' : x \in runs \/ (x = Ran(d) /\ e.reply = "done")
  BY <1>1
<1>7. /\ CardCalls' = CardCalls
      /\ e.reply = "error" => RunCalls' = RunCalls
      /\ e.reply = "done" => RunCalls' = RunCalls \cup {d.call}
  BY <1>1, <1>2, <1>4 DEF CardCalls, RunCalls
<1>8. /\ ByDrain(d) => d.call \notin Answering /\ request[d.call] = "due" /\ ~Held(d)
      /\ ByDrain(d) => Answering = {} /\ Answering' = {d.call}
      /\ ~ByDrain(d) => Answering' = Answering
      /\ \A x \in dispatches : ByDrain(x) /\ ByDrain(d) => x = d
  <2>1. ByDrain(d) => Answering = {}
    BY <1>2, AnsweringIs DEF NcInv, AfterEffect
  <2>2. /\ ByDrain(d) => Answering' = {d.call}
        /\ ~ByDrain(d) => Answering' = Answering
    BY <1>1, AnsweringMoves DEF NcInv, AfterEffect
  <2> QED
    BY <1>2, <2>1, <2>2 DEF NcInv, StagesSound, OneAtATime
<1>9. ~ByDrain(d) => /\ cards[d.call][d.card] = "approved" /\ d.call \in CardCalls
                     /\ does[d.call] # "read" /\ request[d.call] # "none"
  BY <1>d DEF NcInv, StagesSound, CardsAreAsked, CardCalls
<1>10. Undisturbed /\ ByDrain(d) =>
         answer[d.call] = NoReply /\ d.call \notin RunCalls /\ d.call \notin CardCalls
  BY <1>d, <1>8 DEF NcInv, OnceUndisturbed
<1>11. NcTypes'
  BY <1>1, <1>2, <1>3, <1>4, <1>6, <1>d DEF NcInv, NcTypes
<1>12. OneAtATime'
  BY <1>1, OneMoves DEF NcInv
<1>13. StagesSound'
  <2>1. e.reply # NoReply
    BY <1>1 DEF NoReply
  <2> QED
    BY <1>1, <1>2, <1>5, <1>8, <1>9, <2>1 DEF NcInv, StagesSound, ByDrain, Held
<1>14. GivenOnce' /\ CardsAreAsked'
  BY <1>2, <1>3, <1>7 DEF NcInv, GivenOnce, CardsAreAsked
<1>16. CardsInOrder'
  <2>1. \A c \in Calls : Asks(c)' >= Asks(c)
    <3> SUFFICES ASSUME NEW c \in Calls PROVE Asks(c)' >= Asks(c)
      OBVIOUS
    <3>1. Asks(c)' = MaxTries * ncFaults + tries[c] + (IF c \in Answering' THEN 1 ELSE 0)
      BY <1>2 DEF Asks
    <3> QED
      BY <1>8, <3>1, AsksIs DEF NcInv
  <2> QED
    BY <1>2, <1>11, <2>1, OrderKept DEF NcInv
<1>17. RunsSound'
  <2>1. /\ d.card = 0 => does[d.call] = "read"
        /\ d.card # 0 => cards[d.call][d.card] \in {"approved", "gone"} /\ Ran(d).time = 0
        /\ request[d.call] # "none"
    BY <1>4, <1>8, <1>9, <1>d DEF Held
  <2>2. \A x \in dispatches' : ~ByDrain(x) /\ x.call = d.call /\ x.card = d.card => x.at = "answer"
    BY <1>1, <1>5 DEF NcInv, OneAtATime
  <2>3. ASSUME NEW x \in runs PROVE \A y \in dispatches' : ~ByDrain(y) /\ y.call = x.call /\ y.card = x.card => y.at = "answer"
    BY <1>1, <1>5, <2>3 DEF NcInv, RunsSound
  <2> QED
    BY <1>2, <1>4, <1>6, <2>1, <2>2, <2>3 DEF NcInv, RunsSound, ByDrain
<1>18. ScopeSeen'
  <2>1. Lets(d.saw, d.target)
    BY <1>2 DEF NcInv, ScopeSeen
  <2> QED
    BY <1>1, <1>2, <1>4, <1>5, <1>6, <2>1 DEF NcInv, ScopeSeen, Lets
<1>19. RepliesTrue'
  <2>1. ByDrain(d) => Told(e.call, e.reply)'
    BY <1>1, <1>2, <1>7, <1>10 DEF Told, Undisturbed
  <2>2. ASSUME NEW c \in Calls, NEW r, Told(c, r), Undisturbed /\ ByDrain(d) /\ c = d.call => r = NoReply
        PROVE  Told(c, r)'
    BY <1>1, <1>2, <1>7, <1>9, <2>2 DEF Told, Undisturbed, NoReply
  <2>3. \A c \in Calls : Told(c, answer[c])'
    <3> SUFFICES ASSUME NEW c \in Calls PROVE Told(c, answer[c])'
      OBVIOUS
    <3>1. Told(c, answer[c]) /\ (Undisturbed /\ ByDrain(d) /\ c = d.call => answer[c] = NoReply)
      BY <1>10 DEF NcInv, RepliesTrue
    <3> QED
      BY <1>2, <2>2, <3>1 DEF Told, Undisturbed
  <2>4. \A x \in dispatches' : ByDrain(x) /\ x.at \in AfterEffect => Told(x.call, x.reply)'
    <3> SUFFICES ASSUME NEW x \in dispatches', ByDrain(x), x.at \in AfterEffect PROVE Told(x.call, x.reply)'
      OBVIOUS
    <3>1. CASE x = e
      BY <1>1, <1>5, <2>1, <3>1
    <3>2. CASE x # e
      <4>1. x \in dispatches /\ x # d /\ x.call \in Calls /\ Told(x.call, x.reply) /\ ~ByDrain(d)
        BY <1>5, <1>8, <3>2, DispatchesAre DEF NcInv, RepliesTrue
      <4> QED
        BY <2>2, <4>1
    <3> QED
      BY <3>1, <3>2
  <2>5. \A c \in Calls : heard[c] \in {NoReply, answer[c]}
    BY DEF NcInv, RepliesTrue
  <2> QED
    BY <1>2, <2>3, <2>4, <2>5 DEF RepliesTrue, ByDrain, Told, Undisturbed
<1>20. OnceUndisturbed'
  <2> SUFFICES ASSUME Undisturbed
               PROVE  /\ \A c \in Calls :
                           request[c] = "none" \/ (request[c] = "due" /\ c \notin Answering') =>
                             answer[c] = NoReply /\ c \notin RunCalls' /\ c \notin CardCalls
                      /\ \A x, y \in runs' : x.call = y.call => x = y
                      /\ \A x \in dispatches' : x.at = "answer" /\ ByDrain(x) => answer[x.call] = NoReply
    BY <1>2, <1>7 DEF NcInv, OnceUndisturbed, Undisturbed, ByDrain
  <2>1. \A c \in Calls : request[c] = "none" \/ (request[c] = "due" /\ c \notin Answering') =>
          c # d.call /\ answer[c] = NoReply /\ c \notin RunCalls /\ c \notin CardCalls
    BY <1>8, <1>9 DEF NcInv, OnceUndisturbed
  <2>2. \A x \in runs : x.call # d.call
    <3>1. CASE ByDrain(d)
      BY <1>10, <3>1 DEF RunCalls
    <3>2. CASE ~ByDrain(d)
      <4> SUFFICES ASSUME NEW x \in runs, x.call = d.call PROVE FALSE
        OBVIOUS
      <4>1. x.card # 0 /\ x.card \in Copies /\ cards[d.call][x.card] # "none"
        BY <1>9, <3>2 DEF NcInv, RunsSound, NcTypes
      <4>2. x.card = d.card
        BY <1>9, <1>d, <3>2, <4>1 DEF NcInv, OnceUndisturbed
      <4> QED
        BY <1>4, <3>2, <4>2
    <3> QED
      BY <3>1, <3>2
  <2>3. \A x, y \in runs' : x.call = y.call => x = y
    BY <1>4, <1>6, <2>2 DEF NcInv, OnceUndisturbed
  <2>4. \A x \in dispatches' : x.at = "answer" /\ ByDrain(x) => answer[x.call] = NoReply
    BY <1>1, <1>5, <1>10 DEF NcInv, OnceUndisturbed
  <2> QED
    BY <1>1, <1>7, <2>1, <2>3, <2>4
<1> QED
  BY <1>11, <1>12, <1>13, <1>14, <1>16, <1>17, <1>18, <1>19, <1>20 DEF NcInv

\* A try that fails is counted, or was the last.
LEMMA AnswerFailsIs ==
  ASSUME NcTypes, NEW d \in dispatches, AnswerFails(d)
  PROVE  /\ dispatches' = dispatches \ {d} /\ answer' = answer
         /\ tries' \in [Calls -> 0 .. MaxTries - 1]
         /\ request' \in [Calls -> {"none", "due", "delivered", "failed"}]
         /\ \A c \in Calls \ {d.call} : tries'[c] = tries[c] /\ request'[c] = request[c]
         /\ \/ request'[d.call] = "failed"
            \/ tries'[d.call] = tries[d.call] + 1 /\ request'[d.call] = request[d.call]
<1>1. d.call \in Calls /\ tries \in [Calls -> 0 .. MaxTries - 1] /\ MaxTries \in Nat \ {0}
      /\ request \in [Calls -> {"none", "due", "delivered", "failed"}]
  BY DispatchesAre, NclAssumption DEF NcTypes
<1>2. CASE GiveUp(d.call)
  <2>1. tries' = [tries EXCEPT ![d.call] = 0] /\ request' = [request EXCEPT ![d.call] = "failed"]
    BY <1>2 DEF AnswerFails
  <2>2. tries' \in [Calls -> 0 .. MaxTries - 1] /\ \A c \in Calls \ {d.call} : tries'[c] = tries[c]
    BY <1>1, <2>1
  <2>3. /\ request' \in [Calls -> {"none", "due", "delivered", "failed"}] /\ request'[d.call] = "failed"
        /\ \A c \in Calls \ {d.call} : request'[c] = request[c]
    BY <1>1, <2>1
  <2> QED
    BY <2>2, <2>3 DEF AnswerFails
<1>3. CASE ~GiveUp(d.call)
  <2>1. tries[d.call] + 1 \in 0 .. MaxTries - 1
    BY <1>1, <1>3 DEF GiveUp
  <2>2. request' = [request EXCEPT ![d.call] = request[d.call]] /\ tries' = [tries EXCEPT ![d.call] = tries[d.call] + 1]
    BY <1>3 DEF AnswerFails
  <2>3. request' = request
    BY <1>1, <2>2
  <2>4. /\ tries' \in [Calls -> 0 .. MaxTries - 1] /\ tries'[d.call] = tries[d.call] + 1
        /\ \A c \in Calls \ {d.call} : tries'[c] = tries[c]
    BY <1>1, <2>1, <2>2
  <2> QED
    BY <1>1, <2>3, <2>4 DEF AnswerFails
<1> QED
  BY <1>2, <1>3

\* An answer that is written is the first, unless the host failed.
LEMMA AnswerWrittenKeeps ==
  ASSUME NcInv, NEW d \in dispatches, d.at = "answer", ByDrain(d),
         answer[d.call] = NoReply, answer' = [answer EXCEPT ![d.call] = d.reply],
         MovesTo(d, [d EXCEPT !.at = "mark"]),
         UNCHANGED <<does, aim, scope, client, heard, scopeMoves, cards, filed, runs, request, tries, ncFaults>>
  PROVE  NcInv'
<1>d. d \in DispatchRecords /\ d.call \in Calls /\ d.reply \in Replies
  BY DispatchesAre DEF NcInv
<1>1. PICK e \in DispatchRecords :
        /\ dispatches' = (dispatches \ {d}) \cup {e} /\ e.call = d.call /\ e.card = d.card
        /\ e.target = d.target /\ e.saw = d.saw /\ e.at = "mark" /\ e.reply = d.reply
  <2> DEFINE f == [d EXCEPT !.at = "mark"]
  <2>1. dispatches' = (dispatches \ {d}) \cup {f}
    BY DEF MovesTo
  <2>2. f \in DispatchRecords /\ f.call = d.call /\ f.card = d.card /\ f.target = d.target
        /\ f.saw = d.saw /\ f.at = "mark" /\ f.reply = d.reply
    BY <1>d, StageIs DEF Stages
  <2> QED
    BY <2>1, <2>2
<1>2. /\ answer' \in [Calls -> Replies] /\ answer'[d.call] = d.reply
      /\ \A c \in Calls \ {d.call} : answer'[c] = answer[c]
  BY <1>d DEF NcInv, NcTypes
<1>3. /\ ByDrain(e) /\ e \in dispatches'
      /\ \A x \in dispatches' : x = e \/ (x \in dispatches /\ ~ByDrain(x))
  BY <1>1 DEF ByDrain, NcInv, OneAtATime
<1>4. Answering' = {d.call} /\ Answering = {d.call} /\ RunCalls' = RunCalls /\ CardCalls' = CardCalls
  <2>1. Answering = {d.call}
    BY AnsweringIs DEF NcInv, AfterEffect
  <2>2. Answering' = {d.call}
    BY <1>1, AnsweringMoves DEF NcInv, AfterEffect
  <2> QED
    BY <2>1, <2>2 DEF RunCalls, CardCalls
<1>5. Told(d.call, d.reply) /\ d.reply # NoReply /\ request[d.call] = "due"
  BY DEF NcInv, RepliesTrue, StagesSound, AfterEffect
<1>11. NcTypes'
  BY <1>1, <1>2 DEF NcInv, NcTypes
<1>12. OneAtATime'
  BY <1>1, OneMoves DEF NcInv
<1>13. StagesSound'
  BY <1>1, <1>3, <1>5 DEF NcInv, StagesSound, ByDrain, Held
<1>14. GivenOnce' /\ CardsAreAsked'
  BY <1>4 DEF NcInv, GivenOnce, CardsAreAsked
<1>16. CardsInOrder'
  BY <1>4 DEF NcInv, CardsInOrder, Asks
<1>17. RunsSound'
  BY <1>3 DEF NcInv, RunsSound, ByDrain
<1>18. ScopeSeen'
  BY <1>1, <1>3 DEF NcInv, ScopeSeen, Lets
<1>19. RepliesTrue'
  BY <1>1, <1>2, <1>3, <1>4, <1>5 DEF NcInv, RepliesTrue, Told, ByDrain, Undisturbed
<1>20. OnceUndisturbed'
  <2>1. \A x \in dispatches' : ~(x.at = "answer" /\ ByDrain(x))
    BY <1>1, <1>3
  <2>2. \A c \in Calls : request[c] = "none" \/ (request[c] = "due" /\ c \notin Answering') => answer'[c] = answer[c]
    BY <1>2, <1>4, <1>5
  <2> QED
    BY <1>4, <2>1, <2>2 DEF NcInv, OnceUndisturbed, ByDrain, Undisturbed
<1> QED
  BY <1>11, <1>12, <1>13, <1>14, <1>16, <1>17, <1>18, <1>19, <1>20 DEF NcInv

\* An answer that fails has a fault of the host behind it.
LEMMA AnswerFailsKeeps ==
  ASSUME NcInv, NEW d \in dispatches, d.at = "answer", ByDrain(d), AnswerFails(d),
         ncFaults' \in 0 .. MaxNcFaults, ncFaults' >= ncFaults, ncFaults' # ncFaults \/ answer[d.call] # NoReply,
         UNCHANGED <<does, aim, scope, client, heard, scopeMoves, cards, filed, runs>>
  PROVE  NcInv'
<1>d. d.call \in Calls /\ request[d.call] = "due"
  BY DispatchesAre DEF NcInv, StagesSound
<1>1. /\ dispatches' = dispatches \ {d} /\ answer' = answer
      /\ tries' \in [Calls -> 0 .. MaxTries - 1]
      /\ request' \in [Calls -> {"none", "due", "delivered", "failed"}]
      /\ \A c \in Calls \ {d.call} : tries'[c] = tries[c] /\ request'[c] = request[c]
      /\ \/ request'[d.call] = "failed"
         \/ tries'[d.call] = tries[d.call] + 1 /\ request'[d.call] = request[d.call]
  BY AnswerFailsIs DEF NcInv
<1>2. \A x \in dispatches' : x \in dispatches /\ ~ByDrain(x)
  BY <1>1 DEF NcInv, OneAtATime
<1>3. Answering = {d.call} /\ Answering' = {} /\ RunCalls' = RunCalls /\ CardCalls' = CardCalls
  <2>1. Answering = {d.call}
    BY AnsweringIs DEF NcInv, AfterEffect
  <2>2. Answering' = {}
    BY <1>1, AnsweringEnds DEF NcInv
  <2> QED
    BY <2>1, <2>2 DEF RunCalls, CardCalls
<1>4. ncFaults \in Nat /\ ncFaults' \in Nat
  BY NclAssumption DEF NcInv, NcTypes
<1>5. ~Undisturbed'
  <2>1. CASE ncFaults' # ncFaults
    BY <1>4, <2>1 DEF Undisturbed
  <2>2. CASE ncFaults' = ncFaults
    BY <2>2 DEF NcInv, OnceUndisturbed, Undisturbed
  <2> QED
    BY <2>1, <2>2
<1>6. \A c \in Calls : request'[c] = "none" <=> request[c] = "none"
  BY <1>1, <1>d
<1>11. NcTypes'
  BY <1>1, <1>2 DEF NcInv, NcTypes
<1>12. OneAtATime'
  BY <1>2 DEF NcInv, OneAtATime, ByDrain
<1>13. StagesSound'
  BY <1>2 DEF NcInv, StagesSound, ByDrain, Held
<1>14. GivenOnce' /\ CardsAreAsked'
  <2>1. CardCalls \subseteq Calls
    BY DEF CardCalls
  <2> QED
    BY <1>3, <1>6, <2>1 DEF NcInv, GivenOnce, CardsAreAsked
<1>16. CardsInOrder'
  <2>1. ASSUME NEW c \in Calls, request'[c] = "due" PROVE request[c] = "due" /\ Asks(c)' >= Asks(c)
    <3>1. Asks(c)' = MaxTries * ncFaults' + tries'[c]
      <4>1. MaxTries * ncFaults' \in Nat /\ tries'[c] \in Nat
        <5>1. MaxTries \in Nat /\ tries'[c] \in 0 .. MaxTries - 1
          BY <1>1, NclAssumption
        <5>2. tries'[c] \in Nat
          BY <5>1
        <5>3. MaxTries * ncFaults' \in Nat
          <6>1. MaxTries \in Nat /\ ncFaults' \in Nat
            BY <1>4, <5>1
          <6> QED
            BY <6>1, TimesIsNat
        <5> QED
          BY <5>2, <5>3
      <4> QED
        BY <1>3, <4>1 DEF Asks
    <3>2. MaxTries * ncFaults' >= MaxTries * ncFaults /\ MaxTries * ncFaults' \in Nat
      <4>1. ncFaults <= ncFaults'
        BY <1>4
      <4> QED
        BY <1>4, <4>1, NclAssumption, TimesIs
    <3>3. /\ Asks(c) = MaxTries * ncFaults + tries[c] + (IF c = d.call THEN 1 ELSE 0)
          /\ MaxTries * ncFaults \in Nat /\ tries[c] \in Nat
      BY <1>3, AsksIs DEF NcInv
    <3>4. request[c] = "due" /\ tries'[c] = tries[c] + (IF c = d.call THEN 1 ELSE 0)
      BY <1>1, <1>d, <2>1, <3>3
    <3> QED
      BY <3>1, <3>2, <3>3, <3>4
  <2> QED
    BY <1>11, <2>1, OrderKept DEF NcInv
<1>17. RunsSound'
  <2>1. \A x \in runs : x.call \in Calls
    BY DEF NcInv, NcTypes
  <2> QED
    BY <1>2, <1>6, <2>1 DEF NcInv, RunsSound, ByDrain
<1>18. ScopeSeen'
  BY <1>2 DEF NcInv, ScopeSeen, Lets
<1>19. RepliesTrue'
  BY <1>1, <1>2, <1>3, <1>5 DEF NcInv, RepliesTrue, Told, ByDrain
<1>20. OnceUndisturbed'
  BY <1>5 DEF OnceUndisturbed
<1> QED
  BY <1>11, <1>12, <1>13, <1>14, <1>16, <1>17, <1>18, <1>19, <1>20 DEF NcInv

\* The answer is written, or the row is tried again.
LEMMA AnswerKeeps ==
  ASSUME NcInv, NEW d \in dispatches, Answer(d), UNCHANGED <<does, aim>>
  PROVE  NcInv'
<1>1. d.at = "answer" /\ ByDrain(d) /\ UNCHANGED <<does, aim, scope, client, heard, scopeMoves, cards, filed, runs>>
  BY DEF Answer
<1>2. ncFaults \in 0 .. MaxNcFaults /\ MaxNcFaults \in Nat
  BY NclAssumption DEF NcInv, NcTypes
<1>3. CASE /\ answer[d.call] = NoReply /\ answer' = [answer EXCEPT ![d.call] = d.reply]
           /\ MovesTo(d, [d EXCEPT !.at = "mark"]) /\ UNCHANGED <<request, tries, ncFaults>>
  BY <1>1, <1>3, AnswerWrittenKeeps
<1>4. CASE answer[d.call] # NoReply /\ AnswerFails(d) /\ UNCHANGED ncFaults
  BY <1>1, <1>2, <1>4, AnswerFailsKeeps
<1>5. CASE MayFail /\ ncFaults' = ncFaults + 1 /\ AnswerFails(d)
  <2>1. ncFaults' \in 0 .. MaxNcFaults /\ ncFaults' >= ncFaults /\ ncFaults' # ncFaults
    BY <1>2, <1>5 DEF MayFail
  <2> QED
    BY <1>1, <1>5, <2>1, AnswerFailsKeeps
<1> QED
  BY <1>3, <1>4, <1>5 DEF Answer

\* A call that was answered is due no more.
LEMMA MarkDeliveredKeeps ==
  ASSUME NcInv, NEW d \in dispatches, MarkDelivered(d), UNCHANGED <<does, aim>>
  PROVE  NcInv'
<1>d. d.call \in Calls
  BY DispatchesAre DEF NcInv
<1>1. /\ d.at = "mark" /\ dispatches' = dispatches \ {d} /\ ByDrain(d) /\ request[d.call] = "due"
      /\ request' = [request EXCEPT ![d.call] = "delivered"] /\ tries' = [tries EXCEPT ![d.call] = 0]
      /\ UNCHANGED <<does, aim, scope, client, heard, scopeMoves, ncFaults, answer, cards, filed, runs>>
  BY DEF MarkDelivered, Host, NcInv, StagesSound
<1>2. /\ request' \in [Calls -> {"none", "due", "delivered", "failed"}] /\ request'[d.call] = "delivered"
      /\ \A c \in Calls \ {d.call} : request'[c] = request[c]
  BY <1>1, <1>d DEF NcInv, NcTypes
<1>3. /\ tries' \in [Calls -> 0 .. MaxTries - 1] /\ tries'[d.call] = 0
      /\ \A c \in Calls \ {d.call} : tries'[c] = tries[c]
  BY <1>1, <1>d, NclAssumption DEF NcInv, NcTypes
<1>4. \A x \in dispatches' : x \in dispatches /\ ~ByDrain(x)
  BY <1>1 DEF NcInv, OneAtATime
<1>5. Answering = {d.call} /\ Answering' = {} /\ RunCalls' = RunCalls /\ CardCalls' = CardCalls
  <2>1. Answering = {d.call}
    BY <1>1, AnsweringIs DEF NcInv, AfterEffect
  <2>2. Answering' = {}
    BY <1>1, AnsweringEnds DEF NcInv
  <2> QED
    BY <1>1, <2>1, <2>2 DEF RunCalls, CardCalls
<1>6. \A c \in Calls : request'[c] = "none" <=> request[c] = "none"
  BY <1>1, <1>2
<1>11. NcTypes'
  BY <1>1, <1>2, <1>3 DEF NcInv, NcTypes
<1>12. OneAtATime'
  BY <1>4 DEF NcInv, OneAtATime, ByDrain
<1>13. StagesSound'
  BY <1>1, <1>4 DEF NcInv, StagesSound, ByDrain, Held
<1>14. GivenOnce' /\ CardsAreAsked'
  <2>1. CardCalls \subseteq Calls
    BY DEF CardCalls
  <2> QED
    BY <1>1, <1>5, <1>6, <2>1 DEF NcInv, GivenOnce, CardsAreAsked
<1>16. CardsInOrder'
  <2>1. ASSUME NEW c \in Calls, request'[c] = "due" PROVE request[c] = "due" /\ Asks(c)' >= Asks(c)
    <3>1. c # d.call /\ request[c] = "due"
      BY <1>2, <2>1
    <3>2. Asks(c)' = Asks(c) /\ Asks(c) \in Nat
      BY <1>1, <1>3, <1>5, <3>1, AsksIs DEF NcInv, Asks
    <3> QED
      BY <3>1, <3>2
  <2> QED
    BY <1>1, <1>11, <2>1, OrderKept DEF NcInv
<1>17. RunsSound'
  <2>1. \A x \in runs : x.call \in Calls
    BY DEF NcInv, NcTypes
  <2> QED
    BY <1>1, <1>4, <1>6, <2>1 DEF NcInv, RunsSound, ByDrain
<1>18. ScopeSeen'
  BY <1>1, <1>4 DEF NcInv, ScopeSeen, Lets
<1>19. RepliesTrue'
  BY <1>1, <1>4, <1>5 DEF NcInv, RepliesTrue, Told, ByDrain, Undisturbed
<1>20. OnceUndisturbed'
  BY <1>1, <1>2, <1>3, <1>4, <1>5 DEF NcInv, OnceUndisturbed, ByDrain, Undisturbed
<1> QED
  BY <1>11, <1>12, <1>13, <1>14, <1>16, <1>17, <1>18, <1>19, <1>20 DEF NcInv

\* A decision dispatches the command of its card, which nobody was at.
LEMMA DecideKeeps ==
  ASSUME NcInv, NEW c \in Calls, NEW n \in Copies, NEW yes \in BOOLEAN, Decide(c, n, yes), UNCHANGED <<does, aim>>
  PROVE  NcInv'
<1>d. n # 0 /\ scope \in {scope}
  BY CopiesAre
<1>1. /\ cards[c][n] = "pending" /\ cards' = [cards EXCEPT ![c][n] = IF yes THEN "approved" ELSE "gone"]
      /\ UNCHANGED <<does, aim, scope, client, heard, scopeMoves, ncFaults, request, tries, answer, filed, runs>>
  BY DEF Decide, Host
<1>2. /\ cards' \in [Calls -> [Copies -> {"none", "pending", "approved", "gone"}]]
      /\ cards'[c][n] = IF yes THEN "approved" ELSE "gone"
      /\ \A x \in Calls, i \in Copies : x # c \/ i # n => cards'[x][i] = cards[x][i]
  BY <1>1 DEF NcInv, NcTypes
<1>3. \A x \in Calls, i \in Copies : cards'[x][i] = "none" <=> cards[x][i] = "none"
  BY <1>1, <1>2
<1>4. \A x \in dispatches' : x \in dispatches \/
        /\ yes /\ x \in DispatchRecords /\ x.call = c /\ x.card = n /\ x.at = "fill" /\ x.saw = {scope} /\ ~ByDrain(x)
        /\ x = Fresh(c, n)
  <2>1. /\ Fresh(c, n) \in DispatchRecords /\ Fresh(c, n).call = c /\ Fresh(c, n).card = n
        /\ Fresh(c, n).at = "fill" /\ Fresh(c, n).saw = {scope}
    BY ZenonT(60), FreshIs DEF NcInv
  <2>2. ~ByDrain(Fresh(c, n))
    BY <1>d, <2>1 DEF ByDrain
  <2>3. dispatches' = IF yes THEN dispatches \cup {Fresh(c, n)} ELSE dispatches
    BY DEF Decide
  <2> QED
    BY <2>1, <2>2, <2>3
<1>5. \A x \in dispatches : x.call \in Calls /\ (~ByDrain(x) => x.card \in Copies /\ ~(x.call = c /\ x.card = n))
  BY <1>1, DispatchesAre DEF NcInv, StagesSound
<1>6. dispatches \subseteq dispatches'
  BY DEF Decide
<1>7. Answering' = Answering /\ RunCalls' = RunCalls /\ CardCalls' = CardCalls
  <2>1. CardCalls' = CardCalls
    BY <1>3, CardCallsKept
  <2>2. Answering' = Answering
    BY <1>4, <1>6 DEF Answering, ByDrain
  <2> QED
    BY <1>1, <2>1, <2>2 DEF RunCalls
<1>8. \A x \in runs : x.card # 0 => x.call \in Calls /\ x.card \in Copies /\ ~(x.call = c /\ x.card = n)
  BY <1>1 DEF NcInv, RunsSound, NcTypes
<1>11. NcTypes'
  BY <1>1, <1>2, <1>4 DEF NcInv, NcTypes
<1>12. OneAtATime'
  <2> SUFFICES ASSUME NEW x \in dispatches', NEW y \in dispatches'
               PROVE  /\ ByDrain(x) /\ ByDrain(y) => x = y
                      /\ x.call = y.call /\ x.card = y.card => x = y
    BY DEF OneAtATime, ByDrain
  <2>1. ByDrain(x) /\ ByDrain(y) => x = y
    BY <1>4 DEF NcInv, OneAtATime
  <2>2. x.call = y.call /\ x.card = y.card => x = y
    BY <1>4, <1>5, <1>d DEF NcInv, OneAtATime, ByDrain
  <2> QED
    BY <2>1, <2>2
<1>13. StagesSound'
  <2>1. \A x \in dispatches : ~ByDrain(x) => cards'[x.call][x.card] = cards[x.call][x.card]
    BY <1>2, <1>5
  <2> QED
    BY <1>1, <1>2, <1>4, <2>1 DEF NcInv, StagesSound, ByDrain, Held, AfterEffect
<1>14. GivenOnce' /\ CardsAreAsked'
  BY <1>1, <1>7 DEF NcInv, GivenOnce, CardsAreAsked
<1>16. CardsInOrder'
  <2>1. \A x \in Calls : Asks(x)' >= Asks(x)
    <3> SUFFICES ASSUME NEW x \in Calls PROVE Asks(x)' >= Asks(x)
      OBVIOUS
    <3>1. Asks(x)' = Asks(x)
      BY <1>1, <1>7 DEF Asks
    <3> QED
      BY <3>1, AsksIs DEF NcInv
  <2> QED
    BY <1>1, <1>3, <1>11, <2>1, OrderKept DEF NcInv
<1>17. RunsSound'
  <2>1. \A x \in runs : x.card # 0 => cards'[x.call][x.card] = cards[x.call][x.card]
    BY <1>2, <1>8
  <2>2. \A x \in runs : \A y \in dispatches' : ~ByDrain(y) /\ y.call = x.call /\ y.card = x.card => y.at = "answer"
    BY <1>4, <1>8, <1>d DEF NcInv, RunsSound
  <2> QED
    BY <1>1, <2>1, <2>2 DEF NcInv, RunsSound, ByDrain
<1>18. ScopeSeen'
  BY <1>1, <1>4, <1>d DEF NcInv, ScopeSeen, Lets
<1>19. RepliesTrue'
  BY <1>1, <1>4, <1>7 DEF NcInv, RepliesTrue, Told, ByDrain, Undisturbed
<1>20. OnceUndisturbed'
  BY <1>1, <1>3, <1>4, <1>7 DEF NcInv, OnceUndisturbed, ByDrain, Undisturbed
<1> QED
  BY <1>11, <1>12, <1>13, <1>14, <1>16, <1>17, <1>18, <1>19, <1>20 DEF NcInv

\* The card of a command that was replayed goes.
LEMMA TellResultKeeps ==
  ASSUME NcInv, NEW d \in dispatches, TellResult(d), UNCHANGED <<does, aim>>
  PROVE  NcInv'
<1>1. /\ d.at = "answer" /\ ~ByDrain(d) /\ dispatches' = dispatches \ {d}
      /\ cards' = [cards EXCEPT ![d.call][d.card] = "gone"]
      /\ UNCHANGED <<does, aim, scope, client, heard, scopeMoves, ncFaults, request, tries, answer, filed, runs>>
  BY DEF TellResult, Host
<1>d. d.call \in Calls /\ d.card \in Copies /\ cards[d.call][d.card] = "approved"
  BY <1>1, DispatchesAre DEF NcInv, StagesSound
<1>2. /\ cards' \in [Calls -> [Copies -> {"none", "pending", "approved", "gone"}]]
      /\ cards'[d.call][d.card] = "gone"
      /\ \A x \in Calls, i \in Copies : x # d.call \/ i # d.card => cards'[x][i] = cards[x][i]
  BY <1>1, <1>d DEF NcInv, NcTypes
<1>3. \A x \in Calls, i \in Copies : cards'[x][i] = "none" <=> cards[x][i] = "none"
  BY <1>d, <1>2
<1>4. \A x \in dispatches' : /\ x \in dispatches /\ x.call \in Calls
                             /\ ~ByDrain(x) => x.card \in Copies /\ ~(x.call = d.call /\ x.card = d.card)
  BY <1>1, DispatchesAre DEF NcInv, OneAtATime
<1>7. Answering' = Answering /\ RunCalls' = RunCalls /\ CardCalls' = CardCalls
  <2>1. CardCalls' = CardCalls
    BY <1>3, CardCallsKept
  <2>2. Answering' = Answering
    BY <1>1, AnsweringEnds DEF NcInv
  <2> QED
    BY <1>1, <2>1, <2>2 DEF RunCalls
<1>11. NcTypes'
  BY <1>1, <1>2 DEF NcInv, NcTypes
<1>12. OneAtATime'
  BY <1>4 DEF NcInv, OneAtATime, ByDrain
<1>13. StagesSound'
  <2>1. \A x \in dispatches' : ~ByDrain(x) => cards'[x.call][x.card] = cards[x.call][x.card]
    BY <1>2, <1>4
  <2> QED
    BY <1>1, <1>4, <2>1 DEF NcInv, StagesSound, ByDrain, Held
<1>14. GivenOnce' /\ CardsAreAsked'
  BY <1>1, <1>7 DEF NcInv, GivenOnce, CardsAreAsked
<1>16. CardsInOrder'
  <2>1. \A x \in Calls : Asks(x)' >= Asks(x)
    <3> SUFFICES ASSUME NEW x \in Calls PROVE Asks(x)' >= Asks(x)
      OBVIOUS
    <3>1. Asks(x)' = Asks(x)
      BY <1>1, <1>7 DEF Asks
    <3> QED
      BY <3>1, AsksIs DEF NcInv
  <2> QED
    BY <1>1, <1>3, <1>11, <2>1, OrderKept DEF NcInv
<1>17. RunsSound'
  <2>1. \A x \in runs : x.card # 0 => cards'[x.call][x.card] \in {cards[x.call][x.card], "gone"}
    <3>1. \A x \in runs : x.card # 0 => x.call \in Calls /\ x.card \in Copies
      BY DEF NcInv, NcTypes
    <3> QED
      BY <1>2, <3>1
  <2> QED
    BY <1>1, <1>4, <2>1 DEF NcInv, RunsSound, ByDrain
<1>18. ScopeSeen'
  BY <1>1, <1>4 DEF NcInv, ScopeSeen, Lets
<1>19. RepliesTrue'
  BY <1>1, <1>4, <1>7 DEF NcInv, RepliesTrue, Told, ByDrain, Undisturbed
<1>20. OnceUndisturbed'
  BY <1>1, <1>3, <1>4, <1>7 DEF NcInv, OnceUndisturbed, ByDrain, Undisturbed
<1> QED
  BY <1>11, <1>12, <1>13, <1>14, <1>16, <1>17, <1>18, <1>19, <1>20 DEF NcInv

\* The operator changes the scope under what is being dispatched.
LEMMA SetScopeKeeps ==
  ASSUME NcInv, NEW s \in Scopes, SetScope(s), UNCHANGED <<does, aim>>
  PROVE  NcInv'
<1> DEFINE Sees(x) == [x EXCEPT !.saw = @ \cup {s}]
<1>1. \A x \in dispatches :
        /\ Sees(x) \in DispatchRecords /\ Sees(x).call = x.call /\ Sees(x).card = x.card /\ Sees(x).at = x.at
        /\ Sees(x).reply = x.reply /\ Sees(x).target = x.target /\ Sees(x).saw = x.saw \cup {s}
  <2> SUFFICES ASSUME NEW x \in dispatches
               PROVE  /\ Sees(x) \in DispatchRecords /\ Sees(x).call = x.call /\ Sees(x).card = x.card
                      /\ Sees(x).at = x.at /\ Sees(x).reply = x.reply /\ Sees(x).target = x.target
                      /\ Sees(x).saw = x.saw \cup {s}
    OBVIOUS
  <2>1. x \in DispatchRecords
    BY DispatchesAre DEF NcInv
  <2> QED
    BY <2>1 DEF DispatchRecords
<1>2. dispatches' = {Sees(x) : x \in dispatches}
  BY DEF SetScope
<1> HIDE DEF Sees
<1>3. /\ scope' = s /\ scopeMoves' \in 0 .. MaxScopes
      /\ UNCHANGED <<does, aim, request, tries, answer, client, heard, cards, filed, runs, ncFaults>>
  BY NclAssumption DEF SetScope, MayMove, NcInv, NcTypes
<1>4. Answering' = Answering /\ RunCalls' = RunCalls /\ CardCalls' = CardCalls
  <2>1. ASSUME NEW c \in Calls
        PROVE  (\E x \in dispatches' : x.call = c /\ ByDrain(x) /\ x.at \in AfterEffect) <=>
               (\E x \in dispatches : x.call = c /\ ByDrain(x) /\ x.at \in AfterEffect)
    BY <1>1, <1>2 DEF ByDrain
  <2> QED
    BY <1>3, <2>1 DEF Answering, RunCalls, CardCalls, ByDrain
<1>5. \A y \in dispatches' : \E x \in dispatches :
        /\ y = Sees(x) /\ y \in DispatchRecords /\ y.call = x.call /\ y.card = x.card /\ y.at = x.at
        /\ y.reply = x.reply /\ y.target = x.target /\ y.saw = x.saw \cup {s} /\ (ByDrain(y) <=> ByDrain(x))
  BY <1>1, <1>2 DEF ByDrain
<1>11. NcTypes'
  BY <1>3, <1>5 DEF NcInv, NcTypes
<1>12. OneAtATime'
  <2> SUFFICES ASSUME NEW x \in dispatches', NEW y \in dispatches'
               PROVE  /\ ByDrain(x) /\ ByDrain(y) => x = y
                      /\ x.call = y.call /\ x.card = y.card => x = y
    BY DEF OneAtATime, ByDrain
  <2>1. PICK v \in dispatches : x = Sees(v) /\ x.call = v.call /\ x.card = v.card /\ (ByDrain(x) <=> ByDrain(v))
    BY <1>5
  <2>2. PICK w \in dispatches : y = Sees(w) /\ y.call = w.call /\ y.card = w.card /\ (ByDrain(y) <=> ByDrain(w))
    BY <1>5
  <2> QED
    BY <2>1, <2>2 DEF NcInv, OneAtATime
<1>13. StagesSound'
  <2> SUFFICES ASSUME NEW y \in dispatches'
               PROVE  /\ ByDrain(y) => request[y.call] = "due"
                      /\ ~ByDrain(y) => cards[y.call][y.card] = "approved" /\ y.at \notin {"ask", "mark"}
                      /\ y.at = "ask" => Held(y)
                      /\ y.at = "run" /\ ByDrain(y) => ~Held(y)
                      /\ y.at \in AfterEffect => y.reply # NoReply
    BY <1>3 DEF StagesSound, ByDrain, Held
  <2>1. PICK x \in dispatches :
          /\ y.call = x.call /\ y.card = x.card /\ y.at = x.at /\ y.reply = x.reply /\ (ByDrain(y) <=> ByDrain(x))
    BY <1>5
  <2> QED
    BY <2>1 DEF NcInv, StagesSound, Held
<1>14. GivenOnce' /\ CardsAreAsked'
  BY <1>3, <1>4 DEF NcInv, GivenOnce, CardsAreAsked
<1>16. CardsInOrder'
  BY <1>3, <1>4 DEF NcInv, CardsInOrder, Asks
<1>17. RunsSound'
  <2>1. \A x \in runs : \A y \in dispatches' : ~ByDrain(y) /\ y.call = x.call /\ y.card = x.card => y.at = "answer"
    BY <1>5 DEF NcInv, RunsSound
  <2> QED
    BY <1>3, <2>1 DEF NcInv, RunsSound, ByDrain
<1>18. ScopeSeen'
  <2>1. \A y \in dispatches' : s \in y.saw /\ (y.at = "run" => Lets(y.saw, y.target))
    <3> SUFFICES ASSUME NEW y \in dispatches' PROVE s \in y.saw /\ (y.at = "run" => Lets(y.saw, y.target))
      OBVIOUS
    <3>1. PICK x \in dispatches : y.at = x.at /\ y.target = x.target /\ y.saw = x.saw \cup {s}
      BY <1>5
    <3>2. scope \in x.saw /\ (x.at = "run" => Lets(x.saw, x.target))
      BY DEF NcInv, ScopeSeen
    <3>3. x.saw # {"disabled"} => y.saw # {"disabled"}
      BY <3>1, <3>2
    <3> QED
      BY <3>1, <3>2, <3>3 DEF Lets
  <2> QED
    BY <1>3, <2>1 DEF NcInv, ScopeSeen, Lets
<1>19. RepliesTrue'
  <2>1. \A y \in dispatches' : ByDrain(y) /\ y.at \in AfterEffect => Told(y.call, y.reply)
    BY <1>5 DEF NcInv, RepliesTrue
  <2> QED
    BY <1>3, <1>4, <2>1 DEF NcInv, RepliesTrue, Told, ByDrain, Undisturbed
<1>20. OnceUndisturbed'
  <2>1. Undisturbed => \A y \in dispatches' : y.at = "answer" /\ ByDrain(y) => answer[y.call] = NoReply
    BY <1>5 DEF NcInv, OnceUndisturbed
  <2> QED
    BY <1>3, <1>4, <2>1 DEF NcInv, OnceUndisturbed, ByDrain, Undisturbed
<1> QED
  BY <1>11, <1>12, <1>13, <1>14, <1>16, <1>17, <1>18, <1>19, <1>20 DEF NcInv

\* A host that died starts every row over.
LEMMA HostCrashKeeps ==
  ASSUME NcInv, HostCrash, UNCHANGED <<does, aim>>
  PROVE  NcInv'
<1>1. /\ ncFaults < MaxNcFaults /\ ncFaults' = ncFaults + 1 /\ dispatches' = {} /\ tries' = [c \in Calls |-> 0]
      /\ UNCHANGED <<does, aim, scope, request, answer, client, heard, cards, filed, runs, scopeMoves>>
  BY DEF HostCrash, MayFail
<1>2. ncFaults \in Nat /\ ncFaults' \in 0 .. MaxNcFaults /\ MaxTries \in Nat \ {0} /\ ncFaults + 1 \in Nat
  BY <1>1, NclAssumption DEF NcInv, NcTypes
<1>3. ~Undisturbed'
  BY <1>1, <1>2 DEF Undisturbed
<1>4. Answering' = {} /\ RunCalls' = RunCalls /\ CardCalls' = CardCalls
  BY <1>1 DEF Answering, RunCalls, CardCalls
<1>11. NcTypes'
  <2>1. tries' \in [Calls -> 0 .. MaxTries - 1]
    BY <1>1, <1>2
  <2> QED
    BY <1>1, <1>2, <2>1 DEF NcInv, NcTypes
<1>12. OneAtATime' /\ StagesSound'
  BY <1>1 DEF OneAtATime, StagesSound
<1>14. GivenOnce' /\ CardsAreAsked'
  BY <1>1, <1>4 DEF NcInv, GivenOnce, CardsAreAsked
<1>16. CardsInOrder'
  <2>1. \A c \in Calls : Asks(c)' >= Asks(c)
    <3> SUFFICES ASSUME NEW c \in Calls PROVE Asks(c)' >= Asks(c)
      OBVIOUS
    <3>1. Asks(c)' = MaxTries * (ncFaults + 1) + 0 + 0
      BY <1>1, <1>4 DEF Asks
    <3>2. MaxTries * (ncFaults + 1) = MaxTries * ncFaults + MaxTries /\ MaxTries * (ncFaults + 1) \in Nat
      BY <1>2
    <3>3. /\ Asks(c) \in Nat /\ MaxTries * ncFaults \in Nat /\ tries[c] \in 0 .. MaxTries - 1
          /\ Asks(c) <= MaxTries * ncFaults + tries[c] + 1
      BY AsksIs DEF NcInv
    <3> QED
      BY <1>2, <3>1, <3>2, <3>3
  <2> QED
    BY <1>1, <1>11, <2>1, OrderKept DEF NcInv
<1>17. RunsSound' /\ ScopeSeen'
  BY <1>1 DEF NcInv, RunsSound, ScopeSeen, Lets
<1>19. RepliesTrue'
  BY <1>1, <1>3, <1>4 DEF NcInv, RepliesTrue, Told
<1>20. OnceUndisturbed'
  BY <1>3 DEF OnceUndisturbed
<1> QED
  BY <1>11, <1>12, <1>14, <1>16, <1>17, <1>19, <1>20 DEF NcInv

\* No command was given.
LEMMA InitNcInv == InitNcl => NcInv
<1> SUFFICES ASSUME InitNcl PROVE NcInv
  OBVIOUS
<1>1. MaxTries \in Nat \ {0} /\ MaxScopes \in Nat /\ MaxNcFaults \in Nat
  BY NclAssumption
<1>2. NcTypes
  BY <1>1 DEF InitNcl, NcTypes, NoReply, Scopes, Replies
<1>3. Answering = {} /\ RunCalls = {} /\ CardCalls = {}
  BY DEF InitNcl, Answering, RunCalls, CardCalls
<1>4. CardsInOrder
  <2> SUFFICES ASSUME NEW c \in Calls
               PROVE  \E k \in {0} \cup Copies :
                        /\ \A n \in Copies : cards[c][n] # "none" <=> n <= k
                        /\ request[c] = "due" => k <= Asks(c)
    BY DEF CardsInOrder
  <2>1. \A n \in Copies : cards[c][n] # "none" <=> n <= 0
    BY CopiesAre DEF InitNcl
  <2> QED
    BY <2>1 DEF InitNcl
<1>5. OneAtATime /\ StagesSound /\ GivenOnce /\ CardsAreAsked /\ RunsSound /\ ScopeSeen
  BY <1>3 DEF InitNcl, OneAtATime, StagesSound, GivenOnce, CardsAreAsked, RunsSound, ScopeSeen
<1>6. RepliesTrue /\ OnceUndisturbed
  BY <1>3 DEF InitNcl, RepliesTrue, OnceUndisturbed, Told, NoReply
<1> QED
  BY <1>2, <1>4, <1>5, <1>6 DEF NcInv

\* One case for every step of the client, the host, the admin and the operator.
LEMMA NcInvStep == NcInv /\ [NextNcl]_ncVars => NcInv'
<1> SUFFICES ASSUME NcInv, [NextNcl]_ncVars PROVE NcInv'
  OBVIOUS
<1>1. CASE UNCHANGED ncVars
  BY <1>1 DEF ncVars, NcInv, NcTypes, OneAtATime, StagesSound, GivenOnce, CardsAreAsked, CardsInOrder, RunsSound,
     ScopeSeen, RepliesTrue, OnceUndisturbed, RunCalls, CardCalls, Answering, Asks, Told, ByDrain, Held, Undisturbed
<1>2. CASE UNCHANGED <<does, aim>> /\ \E c \in Calls : Gives(c) \/ PollResponse(c) \/ TimesOut(c)
  BY <1>2, GivesKeeps, WaitingKeeps
<1>3. CASE DrainStep
  <2>1. CASE \E c \in Calls : TakeUp(c)
    BY <1>3, <2>1, TakeUpKeeps DEF DrainStep
  <2>2. CASE \E d \in dispatches : DispatchStep(d)
    BY <1>3, <2>2, FillKeeps, GuardKeeps, AskAdminKeeps, RunKeeps, AnswerKeeps, MarkDeliveredKeeps, TellResultKeeps
       DEF DrainStep, DispatchStep
  <2> QED
    BY <1>3, <2>1, <2>2 DEF DrainStep
<1>4. CASE UNCHANGED <<does, aim>> /\ \E c \in Calls, n \in Copies, yes \in BOOLEAN : Decide(c, n, yes)
  BY <1>4, DecideKeeps
<1>5. CASE UNCHANGED <<does, aim>> /\ \E s \in Scopes : SetScope(s)
  BY <1>5, SetScopeKeeps
<1>6. CASE UNCHANGED <<does, aim>> /\ HostCrash
  BY <1>6, HostCrashKeeps
<1> QED
  BY <1>1, <1>2, <1>3, <1>4, <1>5, <1>6 DEF NextNcl

\* The invariant of the commands holds always.
THEOREM CommandInvariant == NclSpec => []NcInv
BY InitNcInv, NcInvStep, PTL DEF NclSpec

\* The invariant of the commands types their variables.
LEMMA NcInvTypes == NcInv => NcTypeOK
<1> SUFFICES ASSUME NcInv PROVE NcTypeOK
  OBVIOUS
<1>1. \A d \in dispatches : d.call \in Calls /\ d.card \in {0} \cup Copies /\ d.at \in Stages
        /\ d.target \in {"own", "other", "blank"} /\ d.reply \in Replies /\ d.saw \subseteq Scopes
  BY DispatchesAre DEF NcInv
<1> QED
  BY <1>1 DEF NcInv, NcTypes, NcTypeOK

\* Every variable of the commands keeps its type.
THEOREM CommandTypes == NclSpec => []NcTypeOK
<1>1. NcInv => NcTypeOK
  BY NcInvTypes
<1> QED
  BY <1>1, CommandInvariant, PTL

\* A set all of whose elements are equal has one element or none.
LEMMA AtMostOne ==
  ASSUME NEW S, \A x, y \in S : x = y
  PROVE  Cardinality(S) <= 1
<1>1. CASE S = {}
  BY <1>1, FS_EmptySet
<1>2. CASE S # {}
  <2>1. PICK x \in S : TRUE
    BY <1>2
  <2>2. S = {x}
    BY <2>1
  <2> QED
    BY <2>2, FS_Singleton
<1> QED
  BY <1>1, <1>2

\* What the invariant says of runs, cards and answers.
LEMMA NcInvIsSafe == NcInv => NclSafety
<1> SUFFICES ASSUME NcInv PROVE NclSafety
  OBVIOUS
<1>1. OncePerApproval
  <2> SUFFICES ASSUME NEW x \in runs, does[x.call] # "read"
               PROVE  /\ x.card \in CardsOf(x.call) /\ cards[x.call][x.card] # "pending" /\ x.time = 0
    BY DEF OncePerApproval
  <2>1. x.card # 0 /\ x.card \in Copies /\ cards[x.call][x.card] \in {"approved", "gone"} /\ x.time = 0
    BY NcInv DEF NcInv, RunsSound, NcTypes
  <2> QED
    BY <2>1 DEF CardsOf
<1>2. RunsWithinScope
  BY NcInv DEF RunsWithinScope, NcInv, ScopeSeen, Lets
<1>3. AnswersAreTrue
  <2> SUFFICES ASSUME NEW c \in Calls
               PROVE  /\ heard[c] = "done" => RunsOf(c) # {}
                      /\ heard[c] = "pending" => CardsOf(c) # {}
                      /\ Undisturbed =>
                           /\ Cardinality(CardsOf(c)) <= 1 /\ Cardinality(RunsOf(c)) <= 1
                           /\ heard[c] \in {"denied", "error"} => RunsOf(c) = {} /\ CardsOf(c) = {}
                           /\ request[c] # "failed"
    BY DEF AnswersAreTrue
  <2>1. (c \in RunCalls <=> RunsOf(c) # {}) /\ (c \in CardCalls <=> CardsOf(c) # {})
    BY DEF RunCalls, RunsOf, CardCalls, CardsOf
  <2>2. Told(c, heard[c])
    BY NcInv DEF NcInv, RepliesTrue, Told, NoReply
  <2>3. ASSUME Undisturbed PROVE Cardinality(CardsOf(c)) <= 1 /\ Cardinality(RunsOf(c)) <= 1 /\ request[c] # "failed"
    <3>1. \A m, n \in CardsOf(c) : m = n
      BY NcInv, <2>3 DEF NcInv, OnceUndisturbed, CardsOf
    <3>2. \A x, y \in RunsOf(c) : x = y
      BY NcInv, <2>3 DEF NcInv, OnceUndisturbed, RunsOf
    <3> QED
      BY NcInv, <2>3, <3>1, <3>2, AtMostOne DEF NcInv, OnceUndisturbed
  <2> QED
    BY <2>1, <2>2, <2>3 DEF Told
<1> QED
  BY <1>1, <1>2, <1>3 DEF NclSafety

\* A command that needs an approval runs once for an approved card, under a scope
\* that let it at some moment; what the agent reads is what became of its command.
THEOREM CommandsAreSafe == NclSpec => []NclSafety
<1>1. NcInv => NclSafety
  BY NcInvIsSafe
<1> QED
  BY <1>1, CommandInvariant, PTL

-----------------------------------------------------------------------------
(* Replies, for any texts, cut in any way that loses nothing, and any number of failures. *)

\* The posts a screen is made of.
Posts == [chunk : Nat, form : {"markdown", "plain", "stub"}, file : BOOLEAN, edited : BOOLEAN]
CrTypes == CrTypeOK /\ IsCut(text, chunks) /\ screen \in Seq(Posts) /\ edit \in [at : {"none", "due", "done", "failed"}, target : Nat]

\* From post h on the screen s shows the first k chunks, the first of them at h.
ShownOn(s, k, h) ==
  \E p \in [1 .. k -> h .. Len(s)] :
    /\ p[1] = h /\ \A c \in 1 .. k : s[p[c]].chunk = c
    /\ \A c, d \in 1 .. k : c < d => p[c] < p[d]

\* A pass is one of a row that is due, and the file is where the row says.
RowSound ==
  /\ replyRow = "none" => chunk = 0 /\ screen = <<>> /\ outbox # "cleared"
  /\ chunk # 0 => replyRow = "due"
  /\ withFile /\ replyRow # "none" => outbox # "none"
  /\ ~withFile => outbox = "none"
  /\ text = <<>> => withFile

\* A pass has shown every chunk before its own, from its head on, and the head has
\* the file, if the pass has it.  One that has not found the file comes after
\* another that had sent it.
Posted == IF chunk - 1 <= Len(chunks) THEN chunk - 1 ELSE Len(chunks)
PassSound ==
  chunk # 0 =>
    /\ withFile /\ ~carry => outbox = "cleared"
    /\ chunk = 1 => headId = 0
    /\ text = <<>> /\ ~carry => headId = 0
    /\ chunk > 1 /\ (text # <<>> \/ carry) =>
         /\ headId # 0 /\ ShownOn(screen, Posted, headId)
         /\ carry => screen[headId].file \/ screen[headId].form = "stub"

\* A reply that was sent, or whose file was cleared away, is on the screen.
FileUp == \E i \in DOMAIN screen : screen[i].chunk = 1 /\ (screen[i].file \/ screen[i].form = "stub")
WholeThen ==
  /\ outbox = "cleared" => WholeFrom(1) /\ FileUp
  /\ replyRow = "sent" => WholeFrom(1) /\ (withFile => FileUp)

\* What the delivery recorded, what an edit is for and what was edited are heads.
IsHead(i) == screen[i].chunk = 1 /\ WholeFrom(i)
HeadsKnown ==
  \A i \in DOMAIN screen : i \in {storedId, edit.target} \/ screen[i].edited => IsHead(i)

\* A chunk was shown once for every fault, and once more in this pass or the last.
PostsOf(c) == {i \in DOMAIN screen : screen[i].chunk = c}
PostsPaid ==
  \A c \in DOMAIN chunks :
    Cardinality(PostsOf(c)) <= crFaults + (IF c < chunk \/ replyRow = "sent" THEN 1 ELSE 0)

CrInv == CrTypes /\ RowSound /\ PassSound /\ WholeThen /\ HeadsKnown /\ PostsPaid

\* The text stays what it is, and what is on the screen stays there.
Grows ==
  /\ UNCHANGED message /\ Len(screen') >= Len(screen) /\ screen' \in Seq(Posts)
  /\ \A i \in 1 .. Len(screen) :
       screen'[i].chunk = screen[i].chunk /\ screen'[i].form = screen[i].form /\ screen'[i].file = screen[i].file

\* What the chunks are.
LEMMA ChunksAre ==
  ASSUME CrTypes
  PROVE  /\ Len(chunks) \in Nat \ {0} /\ DOMAIN chunks = 1 .. Len(chunks)
         /\ Len(screen) \in Nat /\ DOMAIN screen = 1 .. Len(screen)
         /\ \A i \in 1 .. Len(screen) : screen[i] \in Posts /\ screen[i].chunk \in 1 .. Len(chunks)
         /\ \A c \in 1 .. Len(chunks) : chunks[c] = <<>> => c = 1
<1>1. chunks \in Seq(Seq(Characters)) /\ chunks # <<>> /\ screen \in Seq(Posts)
  BY DEF CrTypes, IsCut
<1>2. Len(chunks) \in Nat \ {0} /\ DOMAIN chunks = 1 .. Len(chunks)
  BY <1>1, EmptySeq
<1>3. Len(screen) \in Nat /\ DOMAIN screen = 1 .. Len(screen)
  BY <1>1
<1>4. \A i \in 1 .. Len(screen) : screen[i] \in Posts
  BY <1>1, <1>3
<1>5. \A i \in 1 .. Len(screen) : screen[i].chunk \in 1 .. Len(chunks)
  BY <1>2, <1>3 DEF CrTypes, CrTypeOK
<1>6. \A c \in 1 .. Len(chunks) : chunks[c] = <<>> => c = 1
  BY <1>2 DEF CrTypes, IsCut
<1> QED
  BY <1>2, <1>3, <1>4, <1>5, <1>6

\* What was whole stays whole.
LEMMA WholeStays ==
  ASSUME CrTypes, Grows, NEW i \in Nat \ {0}, WholeFrom(i)
  PROVE  WholeFrom(i)'
<1>1. PICK p \in [DOMAIN chunks -> i .. Len(screen)] :
        /\ \A c \in DOMAIN chunks : screen[p[c]].chunk = c
        /\ \A c, d \in DOMAIN chunks : c < d => p[c] < p[d]
  BY DEF WholeFrom
<1>2. chunks' = chunks /\ Len(screen) \in Nat /\ Len(screen') \in Nat /\ Len(screen') >= Len(screen)
  BY ChunksAre DEF Grows, message
<1>3. p \in [DOMAIN chunks -> i .. Len(screen')]
  BY <1>2
<1>4. \A c \in DOMAIN chunks : screen'[p[c]].chunk = c
  <2> SUFFICES ASSUME NEW c \in DOMAIN chunks PROVE screen'[p[c]].chunk = c
    OBVIOUS
  <2>1. p[c] \in 1 .. Len(screen)
    BY <1>2
  <2> QED
    BY <1>1, <2>1 DEF Grows
<1> QED
  BY <1>1, <1>2, <1>3, <1>4 DEF WholeFrom

\* What was shown stays so.
LEMMA ShownStays ==
  ASSUME CrTypes, Grows, NEW k \in Nat, NEW h \in Nat \ {0}, ShownOn(screen, k, h)
  PROVE  ShownOn(screen', k, h)
<1>1. PICK p \in [1 .. k -> h .. Len(screen)] :
        /\ p[1] = h /\ \A c \in 1 .. k : screen[p[c]].chunk = c
        /\ \A c, d \in 1 .. k : c < d => p[c] < p[d]
  BY DEF ShownOn
<1>2. Len(screen) \in Nat /\ Len(screen') \in Nat /\ Len(screen') >= Len(screen)
  BY ChunksAre DEF Grows
<1>3. p \in [1 .. k -> h .. Len(screen')]
  BY <1>2
<1>4. \A c \in 1 .. k : screen'[p[c]].chunk = c
  <2> SUFFICES ASSUME NEW c \in 1 .. k PROVE screen'[p[c]].chunk = c
    OBVIOUS
  <2>1. p[c] \in 1 .. Len(screen)
    BY <1>2
  <2> QED
    BY <1>1, <2>1 DEF Grows
<1> QED
  BY <1>1, <1>3, <1>4 DEF ShownOn

\* All chunks shown from a post are the whole reply, from there and from the first post.
LEMMA ShownIsWhole ==
  ASSUME CrTypes, NEW h \in 1 .. Len(screen), ShownOn(screen, Len(chunks), h)
  PROVE  WholeFrom(1) /\ IsHead(h)
<1>1. PICK p \in [1 .. Len(chunks) -> h .. Len(screen)] :
        /\ p[1] = h /\ \A c \in 1 .. Len(chunks) : screen[p[c]].chunk = c
        /\ \A c, d \in 1 .. Len(chunks) : c < d => p[c] < p[d]
  BY DEF ShownOn
<1>2. Len(chunks) \in Nat \ {0} /\ DOMAIN chunks = 1 .. Len(chunks) /\ Len(screen) \in Nat
  BY ChunksAre
<1>3. p \in [DOMAIN chunks -> 1 .. Len(screen)] /\ p \in [DOMAIN chunks -> h .. Len(screen)]
  BY <1>1, <1>2
<1>4. screen[h].chunk = 1
  BY <1>1, <1>2
<1> QED
  BY <1>1, <1>2, <1>3, <1>4 DEF WholeFrom, IsHead

\* A post that goes up continues what the pass has shown.
LEMMA ShownMore ==
  ASSUME CrTypes, NEW x \in Posts, screen' = Append(screen, x), NEW k \in Nat, NEW h \in Nat \ {0},
         x.chunk = k + 1, k = 0 => h = Len(screen) + 1, k # 0 => ShownOn(screen, k, h)
  PROVE  ShownOn(screen', k + 1, h)
<1>1. /\ Len(screen) \in Nat /\ Len(screen') = Len(screen) + 1 /\ screen'[Len(screen) + 1] = x
      /\ \A i \in 1 .. Len(screen) : screen'[i] = screen[i]
  BY DEF CrTypes
<1> DEFINE n == Len(screen) + 1
<1>2. CASE k = 0
  <2> DEFINE q == [c \in 1 .. 1 |-> n]
  <2>1. q \in [1 .. k + 1 -> h .. Len(screen')] /\ q[1] = h /\ \A c \in 1 .. k + 1 : screen'[q[c]].chunk = c
    BY <1>1, <1>2
  <2>2. \A c, d \in 1 .. k + 1 : c < d => q[c] < q[d]
    BY <1>2
  <2> QED
    BY <2>1, <2>2 DEF ShownOn
<1>3. CASE k # 0
  <2>1. PICK p \in [1 .. k -> h .. Len(screen)] :
          /\ p[1] = h /\ \A c \in 1 .. k : screen[p[c]].chunk = c
          /\ \A c, d \in 1 .. k : c < d => p[c] < p[d]
    BY <1>3 DEF ShownOn
  <2>2. h \in 1 .. Len(screen) /\ \A c \in 1 .. k : p[c] \in 1 .. Len(screen) /\ p[c] >= h
    BY <1>1, <1>3, <2>1
  <2> DEFINE q == [c \in 1 .. k + 1 |-> IF c = k + 1 THEN n ELSE p[c]]
  <2>3. \A c \in 1 .. k : q[c] = p[c]
    OBVIOUS
  <2>4. q[k + 1] = n
    OBVIOUS
  <2>5. q \in [1 .. k + 1 -> h .. Len(screen')]
    BY <1>1, <2>2
  <2>6. \A c \in 1 .. k + 1 : screen'[q[c]].chunk = c
    BY <1>1, <2>1, <2>2, <2>3, <2>4
  <2>7. \A c, d \in 1 .. k + 1 : c < d => q[c] < q[d]
    BY <1>1, <2>1, <2>2, <2>3, <2>4
  <2>8. q[1] = h
    BY <1>3, <2>1, <2>3
  <2> QED
    BY <2>5, <2>6, <2>7, <2>8 DEF ShownOn
<1> QED
  BY <1>2, <1>3

\* The screen grows by a post, or one of its posts is edited.
LEMMA AppendGrows ==
  ASSUME CrTypes, UNCHANGED message, NEW x \in Posts, screen' = Append(screen, x)
  PROVE  Grows
  BY DEF Grows, CrTypes

\* How often a chunk was shown when a post went up.
LEMMA PostsCounted ==
  ASSUME CrTypes, NEW x \in Posts, screen' = Append(screen, x), NEW c \in Nat
  PROVE  /\ Cardinality(PostsOf(c)) \in Nat /\ Cardinality(PostsOf(c)') \in Nat
         /\ Cardinality(PostsOf(c)') = Cardinality(PostsOf(c)) + (IF x.chunk = c THEN 1 ELSE 0)
<1>1. Len(screen) \in Nat /\ screen \in Seq(Posts) /\ DOMAIN screen = 1 .. Len(screen)
  BY DEF CrTypes
<1>2. DOMAIN screen' = 1 .. Len(screen) + 1 /\ screen'[Len(screen) + 1] = x
      /\ \A i \in 1 .. Len(screen) : screen'[i] = screen[i]
  BY <1>1
<1>3. IsFiniteSet(PostsOf(c)) /\ Cardinality(PostsOf(c)) \in Nat
  <2>1. PostsOf(c) \subseteq 1 .. Len(screen) /\ IsFiniteSet(1 .. Len(screen))
    BY <1>1, FS_Interval DEF PostsOf
  <2> QED
    BY <2>1, FS_Subset, FS_CardinalityType
<1>4. PostsOf(c)' = IF x.chunk = c THEN PostsOf(c) \cup {Len(screen) + 1} ELSE PostsOf(c)
  BY <1>1, <1>2 DEF PostsOf
<1>5. Len(screen) + 1 \notin PostsOf(c)
  BY <1>1 DEF PostsOf
<1>6. Cardinality(PostsOf(c) \cup {Len(screen) + 1}) = Cardinality(PostsOf(c)) + 1
  BY <1>3, <1>5, FS_AddElement
<1> QED
  BY <1>3, <1>4, <1>6

\* A count is a number.
LEMMA PostsCount ==
  ASSUME CrTypes, NEW c PROVE Cardinality(PostsOf(c)) \in Nat
<1>1. PostsOf(c) \subseteq 1 .. Len(screen) /\ Len(screen) \in Nat
  BY ChunksAre DEF PostsOf
<1>2. IsFiniteSet(1 .. Len(screen))
  BY <1>1, FS_Interval
<1> QED
  BY <1>1, <1>2, FS_Subset, FS_CardinalityType

\* What was shown whole, and the heads, are not touched by a screen that grows.
LEMMA HeadStays ==
  ASSUME CrTypes, Grows, NEW i \in 1 .. Len(screen), IsHead(i)
  PROVE  IsHead(i)'
  BY WholeStays DEF IsHead, Grows

\* A file that is up stays up.
LEMMA FileStays ==
  ASSUME CrTypes, Grows, FileUp PROVE FileUp'
<1>1. Len(screen) \in Nat /\ DOMAIN screen = 1 .. Len(screen) /\ DOMAIN screen' = 1 .. Len(screen')
      /\ Len(screen') \in Nat /\ Len(screen') >= Len(screen)
  BY ChunksAre DEF Grows
<1> QED
  BY <1>1 DEF FileUp, Grows

\* What a post shows.
LEMMA ShownIs ==
  ASSUME CrTypes, Posting
  PROVE  /\ Shown \in Posts /\ Shown.chunk = chunk /\ Shown.form = form /\ Shown.edited = FALSE
         /\ Shown.file = (chunk = 1 /\ carry /\ form # "stub")
         /\ chunk \in 1 .. Len(chunks)
<1>1. chunk \in 1 .. Len(chunks) /\ Len(chunks) \in Nat /\ form \in {"markdown", "plain", "stub"}
  BY ChunksAre DEF Posting, CrTypes, CrTypeOK
<1>2. chunk \in Nat
  BY <1>1
<1> DEFINE f == chunk = 1 /\ carry /\ form # "stub"
<1>3. Shown = [chunk |-> chunk, form |-> form, file |-> f, edited |-> FALSE]
  BY DEF Shown
<1>4. f \in BOOLEAN
  OBVIOUS
<1>5. \A b \in BOOLEAN : [chunk |-> chunk, form |-> form, file |-> b, edited |-> FALSE] \in Posts
  BY <1>1, <1>2 DEF Posts
<1>6. Shown \in Posts
  BY <1>3, <1>4, <1>5
<1>7. Shown.chunk = chunk /\ Shown.form = form /\ Shown.edited = FALSE /\ Shown.file = f
  BY <1>3
<1> QED
  BY <1>1, <1>6, <1>7

\* How a step changes the screen.
PostUp == Posting /\ screen' = Append(screen, Shown)
EditUp ==
  /\ edit.target # 0 /\ chunk = 0 /\ UNCHANGED <<message, outbox, replyRow, chunk, carry, headId, storedId, crFaults>>
  /\ screen' = [screen EXCEPT ![edit.target].edited = TRUE]
LEMMA ScreenSteps ==
  ASSUME CrTypes, NextReplies
  PROVE  UNCHANGED message /\ (UNCHANGED screen \/ PostUp \/ EditUp)
<1>1. CASE PutFile BY <1>1 DEF PutFile
<1>2. CASE WriteReply BY <1>2 DEF WriteReply
<1>3. CASE BeginPass BY <1>3 DEF BeginPass
<1>4. CASE NothingToPost BY <1>4 DEF NothingToPost
<1>5. CASE Accepted BY <1>5 DEF Accepted, PostUp
<1>6. CASE Refused BY <1>6 DEF Refused
<1>7. CASE PlainFails BY <1>7 DEF PlainFails, PostUp
<1>8. CASE PassFails BY <1>8 DEF PassFails, PostUp
<1>9. CASE ClearOutbox BY <1>9 DEF ClearOutbox
<1>10. CASE MarkSent BY <1>10 DEF MarkSent
<1>11. CASE ReplyHostCrashes BY <1>11 DEF ReplyHostCrashes
<1>12. CASE RequestEdit BY <1>12 DEF RequestEdit
<1>13. CASE CarryEdit BY <1>13 DEF CarryEdit, EditUp
<1> QED
  BY <1>1, <1>2, <1>3, <1>4, <1>5, <1>6, <1>7, <1>8, <1>9, <1>10, <1>11, <1>12, <1>13 DEF NextReplies, PassStep

\* The posts after a step.
LEMMA EditIs ==
  ASSUME CrTypes, EditUp
  PROVE  /\ edit.target \in 1 .. Len(screen) /\ screen' \in Seq(Posts) /\ Len(screen') = Len(screen)
         /\ \A i \in 1 .. Len(screen) :
              /\ screen'[i].chunk = screen[i].chunk /\ screen'[i].form = screen[i].form
              /\ screen'[i].file = screen[i].file
              /\ i # edit.target => screen'[i] = screen[i]
<1>1. edit.target \in 1 .. Len(screen) /\ Len(screen) \in Nat /\ screen \in [1 .. Len(screen) -> Posts]
  <2>1. edit.target \in 0 .. Len(screen) /\ Len(screen) \in Nat /\ edit.target # 0
    BY ChunksAre DEF CrTypes, CrTypeOK, EditUp
  <2>2. screen \in [1 .. Len(screen) -> Posts]
    BY DEF CrTypes
  <2> QED
    BY <2>1, <2>2
<1> DEFINE t == edit.target
           x == [screen[t] EXCEPT !.edited = TRUE]
<1>2. screen' = [screen EXCEPT ![t] = x]
  BY DEF EditUp
<1>3. screen[t] \in Posts
  BY <1>1
<1>4. x \in Posts /\ x.chunk = screen[t].chunk /\ x.form = screen[t].form /\ x.file = screen[t].file
  BY <1>3 DEF Posts
<1> HIDE DEF x
<1>5. screen' \in [1 .. Len(screen) -> Posts]
  BY <1>1, <1>2, <1>4
<1>6. \A i \in 1 .. Len(screen) : screen'[i] = IF i = t THEN x ELSE screen[i]
  BY <1>1, <1>2
<1>7. screen' \in Seq(Posts) /\ Len(screen') = Len(screen)
  <2>1. screen' \in Seq(Posts)
    BY <1>1, <1>5
  <2>2. DOMAIN screen' = 1 .. Len(screen)
    BY <1>5
  <2> QED
    BY <1>1, <2>1, <2>2
<1>8. \A i \in 1 .. Len(screen) :
        /\ screen'[i].chunk = screen[i].chunk /\ screen'[i].form = screen[i].form
        /\ screen'[i].file = screen[i].file
        /\ i # edit.target => screen'[i] = screen[i]
  BY <1>4, <1>6
<1> QED
  BY <1>1, <1>7, <1>8

LEMMA StepGrows ==
  ASSUME CrTypes, NextReplies
  PROVE  Grows /\ \A i \in DOMAIN screen' : screen'[i].chunk \in DOMAIN chunks'
<1>1. CASE UNCHANGED <<message, screen>>
  <2>1. Grows
    BY <1>1, ChunksAre DEF Grows, CrTypes
  <2>2. UNCHANGED <<chunks, screen>>
    BY <1>1 DEF message
  <2>3. \A i \in DOMAIN screen : screen[i].chunk \in DOMAIN chunks
    BY DEF CrTypes, CrTypeOK
  <2> QED
    BY <2>1, <2>2, <2>3
<1>2. CASE UNCHANGED message /\ PostUp
  <2>1. Shown \in Posts /\ Shown.chunk \in 1 .. Len(chunks) /\ screen' = Append(screen, Shown)
    BY <1>2, ShownIs DEF PostUp
  <2>2. Grows
    BY <1>2, <2>1, AppendGrows
  <2>3. chunks' = chunks /\ DOMAIN chunks = 1 .. Len(chunks)
    BY <1>2, ChunksAre DEF message
  <2>4. /\ Len(screen) \in Nat /\ DOMAIN screen' = 1 .. Len(screen) + 1 /\ screen'[Len(screen) + 1] = Shown
        /\ \A i \in 1 .. Len(screen) : screen'[i] = screen[i] /\ screen[i].chunk \in 1 .. Len(chunks)
    BY <2>1, ChunksAre DEF CrTypes
  <2>5. \A i \in DOMAIN screen' : screen'[i].chunk \in 1 .. Len(chunks)
    BY <2>1, <2>4
  <2> QED
    BY <2>2, <2>3, <2>5
<1>3. CASE UNCHANGED message /\ EditUp
  <2>1. Grows
    BY <1>3, EditIs, ChunksAre DEF Grows
  <2>2. chunks' = chunks /\ DOMAIN chunks = 1 .. Len(chunks) /\ DOMAIN screen' = 1 .. Len(screen)
    BY <1>3, EditIs, ChunksAre DEF message
  <2> QED
    BY <1>3, <2>1, <2>2, EditIs, ChunksAre
<1> QED
  BY <1>1, <1>2, <1>3, ScreenSteps

\* The pass budget.
LEMMA GivenBack ==
  ASSUME CrTypes, GiveBack(passes + 1)
  PROVE  /\ chunk' = 0 /\ replyRow' \in {replyRow, "failed"} /\ passes' \in 0 .. MaxPasses - 1
  BY ReplyConstants DEF CrTypes, CrTypeOK, GiveBack

\* The places of posts on a screen that grows.
LEMMA PlacesStay ==
  ASSUME CrTypes, Grows, NEW i \in 0 .. Len(screen)
  PROVE  i \in 0 .. Len(screen')
<1>1. Len(screen) \in Nat /\ Len(screen') \in Nat /\ Len(screen') >= Len(screen)
  BY ChunksAre DEF Grows
<1> QED
  BY <1>1

\* The small variables keep their types.
SmallTypes ==
  /\ outbox \in {"none", "here", "cleared"} /\ replyRow \in {"none", "due", "sent", "failed"}
  /\ passes \in 0 .. MaxPasses - 1 /\ chunk \in 0 .. Len(chunks) + 2
  /\ form \in {"markdown", "plain", "stub"} /\ carry \in BOOLEAN
  /\ crFaults \in 0 .. MaxCrFaults
LEMMA SmallTypesStay ==
  ASSUME CrTypes, NextReplies PROVE SmallTypes'
<1>1. SmallTypes /\ Len(chunks) \in Nat \ {0} /\ UNCHANGED message
  BY ChunksAre, ScreenSteps DEF SmallTypes, CrTypes, CrTypeOK
<1> USE <1>1 DEF SmallTypes
<1>2. chunks' = chunks
  BY DEF message
<1>a. MaxPasses \in Nat \ {0} /\ MaxCrFaults \in Nat
  BY ReplyConstants
<1>b. Posting => chunk \in 1 .. Len(chunks)
  BY DEF Posting
<1>3. CASE PutFile BY <1>3, <1>2 DEF PutFile
<1>4. CASE WriteReply BY <1>4, <1>2 DEF WriteReply
<1>5. CASE BeginPass
  <2>1. (outbox = "here") \in BOOLEAN
    OBVIOUS
  <2>2. carry' \in BOOLEAN
    BY <1>5, <2>1, Zenon DEF BeginPass
  <2> QED
    BY <1>5, <1>2, <2>2 DEF BeginPass
<1>6. CASE NothingToPost BY <1>6, <1>2 DEF NothingToPost
<1>7. CASE Accepted BY <1>7, <1>2, <1>b DEF Accepted
<1>8. CASE Refused BY <1>8, <1>2 DEF Refused
<1>9. CASE PlainFails BY <1>9, <1>2, <1>a DEF PlainFails, CrFault
<1>10. CASE PassFails BY <1>10, <1>2, <1>a, GivenBack DEF PassFails, CrFault
<1>11. CASE ClearOutbox BY <1>11, <1>2 DEF ClearOutbox
<1>12. CASE MarkSent BY <1>12, <1>2, <1>a DEF MarkSent
<1>13. CASE ReplyHostCrashes BY <1>13, <1>2, <1>a DEF ReplyHostCrashes, CrFault
<1>14. CASE RequestEdit BY <1>14, <1>2 DEF RequestEdit
<1>15. CASE CarryEdit BY <1>15, <1>2 DEF CarryEdit
<1> QED
  BY <1>3, <1>4, <1>5, <1>6, <1>7, <1>8, <1>9, <1>10, <1>11, <1>12, <1>13, <1>14, <1>15 DEF NextReplies, PassStep

\* The ids stay posts of the screen.
Edits == [at : {"none", "due", "done", "failed"}, target : Nat]
LEMMA IdsStay ==
  ASSUME CrTypes, NextReplies
  PROVE  /\ headId' \in 0 .. Len(screen') /\ storedId' \in 0 .. Len(screen')
         /\ edit' \in Edits /\ edit'.target \in 0 .. Len(screen') /\ edit'.target \in {edit.target, storedId}
<1>1. /\ headId \in 0 .. Len(screen) /\ storedId \in 0 .. Len(screen) /\ edit \in Edits
      /\ edit.target \in 0 .. Len(screen) /\ Len(screen) \in Nat
  BY ChunksAre DEF CrTypes, CrTypeOK, Edits
<1>2. headId \in 0 .. Len(screen') /\ storedId \in 0 .. Len(screen') /\ edit.target \in 0 .. Len(screen')
  BY <1>1, PlacesStay, StepGrows
<1>3. 0 \in 0 .. Len(screen')
  BY <1>1, PlacesStay, StepGrows
<1>4. headId' \in 0 .. Len(screen')
  <2>1. CASE Accepted
    <3>1. Len(screen') = Len(screen) + 1 /\ headId' \in {Len(screen) + 1, headId}
      BY <2>1, ShownIs DEF Accepted, NewHead, CrTypes
    <3> QED
      BY <1>1, <1>2, <3>1
  <2>2. CASE ~Accepted
    <3>1. headId' \in {headId, 0}
      BY <2>2 DEF NextReplies, PassStep, PutFile, WriteReply, BeginPass, NothingToPost, Refused, PlainFails,
                  PassFails, ClearOutbox, MarkSent, ReplyHostCrashes, RequestEdit, CarryEdit
    <3> QED
      BY <1>2, <1>3, <3>1
  <2> QED
    BY <2>1, <2>2
<1>5. storedId' \in 0 .. Len(screen')
  <2>1. storedId' \in {storedId, headId}
    BY DEF NextReplies, PassStep, PutFile, WriteReply, BeginPass, NothingToPost, Refused, PlainFails,
           Accepted, PassFails, ClearOutbox, MarkSent, ReplyHostCrashes, RequestEdit, CarryEdit
  <2> QED
    BY <1>2, <2>1
<1>6. edit' \in Edits /\ edit'.target \in {edit.target, storedId}
  <2>1. CASE RequestEdit
    <3>1. storedId \in Nat /\ edit' = [at |-> "due", target |-> storedId]
      BY <1>1, <2>1 DEF RequestEdit
    <3> QED
      BY <3>1 DEF Edits
  <2>2. CASE CarryEdit
    <3>1. edit' \in {[edit EXCEPT !.at = "failed"], [edit EXCEPT !.at = "done"]}
      BY <2>2 DEF CarryEdit
    <3> QED
      BY <1>1, <3>1 DEF Edits
  <2>3. CASE ~RequestEdit /\ ~CarryEdit
    <3>1. edit' = edit
      BY <2>3 DEF NextReplies, PassStep, PutFile, WriteReply, BeginPass, NothingToPost, Refused, PlainFails,
                  Accepted, PassFails, ClearOutbox, MarkSent, ReplyHostCrashes
    <3> QED
      BY <1>1, <3>1
  <2> QED
    BY <2>1, <2>2, <2>3
<1> QED
  BY <1>2, <1>4, <1>5, <1>6

\* So every step keeps the types.
LEMMA TypesStay ==
  ASSUME CrTypes, NextReplies PROVE CrTypes'
<1>1. UNCHANGED <<text, withFile, chunks>> /\ screen' \in Seq(Posts)
  BY ScreenSteps, StepGrows DEF Grows, message
<1>2. SmallTypes' /\ \A i \in DOMAIN screen' : screen'[i].chunk \in DOMAIN chunks'
  BY SmallTypesStay, StepGrows
<1>3. CrTypeOK'
  BY <1>1, <1>2, IdsStay DEF CrTypes, CrTypeOK, SmallTypes, Edits
<1>4. IsCut(text, chunks)'
  BY <1>1 DEF CrTypes, IsCut
<1> QED
  BY <1>1, <1>3, <1>4, IdsStay DEF CrTypes, Edits

\* The row, the file and the pass fit.
LEMMA RowStays ==
  ASSUME CrTypes, RowSound, NextReplies PROVE RowSound'
<1> USE DEF RowSound
<1>0. UNCHANGED <<text, withFile, chunks>> /\ chunk \in Nat /\ Len(chunks) \in Nat \ {0}
  BY ScreenSteps, ChunksAre DEF message, CrTypes, CrTypeOK
<1>a. /\ outbox \in {"none", "here", "cleared"} /\ replyRow \in {"none", "due", "sent", "failed"}
      /\ Posting => chunk # 0 /\ replyRow = "due"
  BY <1>0 DEF CrTypes, CrTypeOK, Posting
<1>b. edit.target # 0 => replyRow # "none"
  <2>1. edit.target \in 0 .. Len(screen) /\ Len(<<>>) = 0
    BY DEF CrTypes, CrTypeOK
  <2>2. screen = <<>> => edit.target = 0
    BY <2>1
  <2> QED
    BY <2>2
<1>1. CASE PutFile BY <1>1, <1>0, <1>a DEF PutFile
<1>2. CASE WriteReply BY <1>2, <1>0, <1>a DEF WriteReply
<1>3. CASE BeginPass BY <1>3, <1>0, <1>a DEF BeginPass
<1>4. CASE NothingToPost BY <1>4, <1>0, <1>a DEF NothingToPost
<1>5. CASE Accepted BY <1>5, <1>0, <1>a DEF Accepted
<1>6. CASE Refused BY <1>6, <1>0, <1>a DEF Refused
<1>7. CASE PlainFails BY <1>7, <1>0, <1>a DEF PlainFails
<1>8. CASE PassFails
  BY <1>8, <1>0, <1>a DEF PassFails, GiveBack
<1>9. CASE ClearOutbox BY <1>9, <1>0, <1>a DEF ClearOutbox
<1>10. CASE MarkSent BY <1>10, <1>0, <1>a DEF MarkSent
<1>11. CASE ReplyHostCrashes BY <1>11, <1>0, <1>a DEF ReplyHostCrashes
<1>12. CASE RequestEdit BY <1>12, <1>0, <1>a DEF RequestEdit
<1>13. CASE CarryEdit
  <2>1. CASE edit.target = 0 BY <1>13, <2>1, <1>0, <1>a DEF CarryEdit
  <2>2. CASE edit.target # 0 BY <1>13, <2>2, <1>0, <1>a, <1>b DEF CarryEdit
  <2> QED BY <2>1, <2>2
<1> QED
  BY <1>1, <1>2, <1>3, <1>4, <1>5, <1>6, <1>7, <1>8, <1>9, <1>10, <1>11, <1>12, <1>13 DEF NextReplies, PassStep

\* What the delivery knows are heads, and stays so.
LEMMA HeadsStay ==
  ASSUME CrInv, NextReplies PROVE HeadsKnown'
<1>0. CrTypes /\ Grows /\ CrTypes' /\ Len(screen) \in Nat /\ DOMAIN screen = 1 .. Len(screen)
  BY StepGrows, TypesStay, ChunksAre DEF CrInv
<1>1. \A i \in 1 .. Len(screen) : IsHead(i) => IsHead(i)'
  BY <1>0, HeadStays
<1>2. /\ storedId \in 0 .. Len(screen) /\ edit.target \in 0 .. Len(screen) /\ headId \in 0 .. Len(screen)
      /\ \A i \in 1 .. Len(screen) : i \in {storedId, edit.target} \/ screen[i].edited => IsHead(i)
  BY <1>0 DEF CrInv, HeadsKnown, CrTypes, CrTypeOK
\* What is recorded is the head of the pass that ends.
<1>3. \A i \in 1 .. Len(screen) : i = storedId' => IsHead(i)
  <2>1. CASE MarkSent
    <3>1. storedId' = headId /\ chunk = Len(chunks) + 2 /\ replyRow = "due"
      BY <2>1 DEF MarkSent
    <3>2. ASSUME headId # 0 PROVE IsHead(headId)
      <4>1. Len(chunks) \in Nat \ {0} /\ Posted = Len(chunks) /\ chunk > 1 /\ chunk # 0
        <5>1. Len(chunks) \in Nat \ {0} /\ chunk = Len(chunks) + 2
          BY <1>0, <3>1, ChunksAre
        <5>2. chunk > 1 /\ chunk # 0 /\ ~(chunk - 1 <= Len(chunks))
          BY <5>1
        <5> QED
          BY <5>1, <5>2 DEF Posted
      <4>2. text # <<>> \/ carry
        BY <3>2, <4>1 DEF CrInv, PassSound
      <4>3. ShownOn(screen, Len(chunks), headId)
        BY <4>1, <4>2 DEF CrInv, PassSound
      <4>4. headId \in 1 .. Len(screen)
        BY <1>0, <1>2, <3>2
      <4> QED
        BY <1>0, <4>3, <4>4, ShownIsWhole
    <3> QED
      BY <1>0, <3>1, <3>2
  <2>2. CASE ~MarkSent
    <3>1. storedId' = storedId
      BY <2>2 DEF NextReplies, PassStep, PutFile, WriteReply, BeginPass, NothingToPost, Accepted, Refused,
                  PlainFails, PassFails, ClearOutbox, ReplyHostCrashes, RequestEdit, CarryEdit
    <3> QED
      BY <1>2, <3>1
  <2> QED
    BY <2>1, <2>2
<1>4. \A i \in 1 .. Len(screen) : i = edit'.target => IsHead(i)
  <2>1. edit'.target \in {edit.target, storedId}
    BY <1>0, IdsStay
  <2> QED
    BY <1>2, <2>1
<1>5. \A i \in DOMAIN screen' : screen'[i].edited => i \in 1 .. Len(screen) /\ IsHead(i)
  <2>1. CASE UNCHANGED screen
    BY <1>0, <1>2, <2>1
  <2>2. CASE PostUp
    <3>1. Shown \in Posts /\ Shown.edited = FALSE /\ screen' = Append(screen, Shown) /\ screen \in Seq(Posts)
      BY <1>0, <2>2, ShownIs DEF PostUp, CrTypes
    <3>2. /\ DOMAIN screen' = 1 .. Len(screen) + 1 /\ screen'[Len(screen) + 1] = Shown
          /\ \A i \in 1 .. Len(screen) : screen'[i] = screen[i]
      BY <1>0, <3>1
    <3> QED
      BY <1>0, <1>2, <3>1, <3>2
  <2>3. CASE EditUp
    <3>1. DOMAIN screen' = 1 .. Len(screen)
      BY <1>0, <2>3, EditIs
    <3>2. \A i \in 1 .. Len(screen) : i # edit.target => screen'[i] = screen[i]
      BY <1>0, <2>3, EditIs
    <3>3. edit.target \in 1 .. Len(screen) /\ IsHead(edit.target)
      BY <1>0, <1>2, <2>3, EditIs
    <3> QED
      BY <1>0, <1>2, <3>1, <3>2, <3>3
  <2> QED
    BY <1>0, <2>1, <2>2, <2>3, ScreenSteps
\* An id the step records is one of a post that was there.
<1>6. storedId' \in 0 .. Len(screen) /\ edit'.target \in 0 .. Len(screen)
  <2>1. storedId' \in {storedId, headId}
    BY DEF NextReplies, PassStep, PutFile, WriteReply, BeginPass, NothingToPost, Refused, PlainFails,
           Accepted, PassFails, ClearOutbox, MarkSent, ReplyHostCrashes, RequestEdit, CarryEdit
  <2>2. edit'.target \in {edit.target, storedId}
    BY <1>0, IdsStay
  <2> QED
    BY <1>2, <2>1, <2>2
<1>7. DOMAIN screen' = 1 .. Len(screen')
  BY <1>0 DEF Grows
<1>8. \A i \in DOMAIN screen' :
        i \in {storedId', edit'.target} \/ screen'[i].edited => i \in 1 .. Len(screen) /\ IsHead(i)
  BY <1>0, <1>3, <1>4, <1>5, <1>6, <1>7
<1> QED
  BY <1>1, <1>8 DEF HeadsKnown

\* A pass that has posted every chunk has shown the reply, and its file if there is one.
LEMMA PassShowsAll ==
  ASSUME CrInv, chunk > Len(chunks)
  PROVE  WholeFrom(1) /\ (withFile => FileUp)
<1>0. CrTypes /\ Len(chunks) \in Nat \ {0} /\ chunk \in Nat /\ Len(screen) \in Nat /\ DOMAIN screen = 1 .. Len(screen)
  BY ChunksAre DEF CrInv, CrTypes, CrTypeOK
<1>1. chunk # 0 /\ chunk > 1 /\ Posted = Len(chunks)
  BY <1>0 DEF Posted
<1>2. CASE withFile /\ ~carry
  BY <1>1, <1>2 DEF CrInv, PassSound, WholeThen
<1>3. CASE ~(withFile /\ ~carry)
  <2>1. text # <<>> \/ carry
    BY <1>3 DEF CrInv, RowSound
  <2>2. /\ headId # 0 /\ ShownOn(screen, Len(chunks), headId)
        /\ carry => screen[headId].file \/ screen[headId].form = "stub"
    BY <1>1, <2>1 DEF CrInv, PassSound
  <2>3. headId \in 1 .. Len(screen)
    <3>1. headId \in 0 .. Len(screen)
      BY DEF CrInv, CrTypes, CrTypeOK
    <3> QED
      BY <1>0, <2>2, <3>1
  <2>4. WholeFrom(1) /\ IsHead(headId)
    BY <1>0, <2>2, <2>3, ShownIsWhole
  <2>5. withFile => FileUp
    BY <1>0, <1>3, <2>2, <2>3, <2>4 DEF FileUp, IsHead
  <2> QED
    BY <2>4, <2>5
<1> QED
  BY <1>2, <1>3

LEMMA WholeThenStays ==
  ASSUME CrInv, NextReplies PROVE WholeThen'
<1>0. CrTypes /\ Grows /\ UNCHANGED <<text, withFile, chunks>>
  BY StepGrows, ScreenSteps DEF CrInv, message
<1>1. (WholeFrom(1) => WholeFrom(1)') /\ (FileUp => FileUp')
  BY <1>0, WholeStays, FileStays
<1>2. outbox' = "cleared" => outbox = "cleared" \/ (chunk > Len(chunks) /\ withFile)
  <2>1. CASE ClearOutbox
    <3>1. chunk > Len(chunks)
      BY <2>1, <1>0, ChunksAre DEF ClearOutbox
    <3>2. outbox' = "cleared" => outbox = "cleared" \/ outbox = "here"
      BY <2>1 DEF ClearOutbox
    <3> QED
      BY <3>1, <3>2 DEF CrInv, RowSound
  <2>2. CASE ~ClearOutbox
    BY <2>2 DEF NextReplies, PassStep, PutFile, WriteReply, BeginPass, NothingToPost, Accepted, Refused,
                PlainFails, PassFails, MarkSent, ReplyHostCrashes, RequestEdit, CarryEdit
  <2> QED
    BY <2>1, <2>2
<1>3. replyRow' = "sent" => replyRow = "sent" \/ chunk > Len(chunks)
  <2>1. CASE MarkSent
    BY <2>1, <1>0, ChunksAre DEF MarkSent
  <2>2. CASE ~MarkSent
    BY <2>2 DEF NextReplies, PassStep, PutFile, WriteReply, BeginPass, NothingToPost, Accepted, Refused,
                PlainFails, PassFails, GiveBack, ClearOutbox, ReplyHostCrashes, RequestEdit, CarryEdit
  <2> QED
    BY <2>1, <2>2
<1>4. outbox' = "cleared" => WholeFrom(1) /\ FileUp
  BY <1>2, PassShowsAll DEF CrInv, WholeThen
<1>5. replyRow' = "sent" => WholeFrom(1) /\ (withFile => FileUp)
  BY <1>3, PassShowsAll DEF CrInv, WholeThen
<1> QED
  BY <1>0, <1>1, <1>4, <1>5 DEF WholeThen

\* A repetition is paid for.
Owed(c) == crFaults + (IF c < chunk \/ replyRow = "sent" THEN 1 ELSE 0)
LEMMA SamePosts ==
  ASSUME CrTypes, UNCHANGED screen \/ EditUp, NEW c
  PROVE  PostsOf(c)' = PostsOf(c)
<1>1. CASE UNCHANGED screen
  BY <1>1 DEF PostsOf
<1>2. CASE EditUp
  <2>1. DOMAIN screen' = 1 .. Len(screen) /\ DOMAIN screen = 1 .. Len(screen)
    BY <1>2, EditIs, ChunksAre
  <2>2. \A i \in 1 .. Len(screen) : screen'[i].chunk = screen[i].chunk
    BY <1>2, EditIs
  <2> QED
    BY <2>1, <2>2 DEF PostsOf
<1> QED
  BY <1>1, <1>2

\* What is owed grows with a fault, and with the chunk that goes up.
LEMMA OwedGrows ==
  ASSUME CrInv, NextReplies, NEW c \in 1 .. Len(chunks)
  PROVE  /\ Owed(c) \in Nat /\ Owed(c)' \in Nat /\ Owed(c)' >= Owed(c)
         /\ \/ UNCHANGED screen
            \/ EditUp
            \/ PostUp /\ (c = chunk => Owed(c)' >= Owed(c) + 1)
<1>0. /\ CrTypes /\ Len(chunks) \in Nat \ {0} /\ chunk \in Nat /\ crFaults \in Nat
      /\ replyRow = "sent" => chunk = 0
      /\ Posting => chunk \in 1 .. Len(chunks)
  BY ChunksAre DEF CrInv, CrTypes, CrTypeOK, RowSound, Posting
<1>a. Empty /\ Posting => chunk = 1
  BY <1>0, ChunksAre DEF Empty
<1>b. c \in Nat /\ c >= 1
  BY <1>0
<1>1. CASE PutFile BY <1>1, <1>0, <1>b DEF PutFile, Owed
<1>2. CASE WriteReply BY <1>2, <1>0, <1>b DEF WriteReply, Owed
<1>3. CASE BeginPass BY <1>3, <1>0, <1>b DEF BeginPass, Owed
<1>4. CASE NothingToPost BY <1>4, <1>0, <1>b DEF NothingToPost, Owed
<1>5. CASE Accepted
  BY <1>5, <1>0, <1>b DEF Accepted, PostUp, Owed
<1>6. CASE Refused BY <1>6, <1>0, <1>b DEF Refused, Owed
<1>7. CASE PlainFails
  BY <1>7, <1>0, <1>b DEF PlainFails, PostUp, Owed, CrFault
<1>8. CASE PassFails
  <2>1. chunk \in 1 .. Len(chunks) /\ replyRow # "sent" /\ chunk' = 0
    BY <1>8, <1>0 DEF PassFails, GiveBack
  <2>2. CASE Empty /\ UNCHANGED <<screen, crFaults>>
    BY <1>0, <1>a, <1>b, <1>8, <2>1, <2>2 DEF Owed, PassFails
  <2>3. CASE CrFault /\ UNCHANGED screen
    BY <1>0, <1>b, <2>1, <2>3 DEF Owed, CrFault
  <2>4. CASE CrFault /\ screen' = Append(screen, Shown)
    BY <1>0, <1>b, <1>8, <2>1, <2>4 DEF Owed, CrFault, PassFails, PostUp
  <2> QED
    BY <1>8, <2>2, <2>3, <2>4 DEF PassFails
<1>9. CASE ClearOutbox BY <1>9, <1>0, <1>b DEF ClearOutbox, Owed
<1>10. CASE MarkSent BY <1>10, <1>0, <1>b DEF MarkSent, Owed
<1>11. CASE ReplyHostCrashes
  BY <1>11, <1>0, <1>b DEF ReplyHostCrashes, Owed, CrFault
<1>12. CASE RequestEdit BY <1>12, <1>0, <1>b DEF RequestEdit, Owed
<1>13. CASE CarryEdit
  BY <1>13, <1>0, <1>b DEF CarryEdit, EditUp, Owed
<1> QED
  BY <1>1, <1>2, <1>3, <1>4, <1>5, <1>6, <1>7, <1>8, <1>9, <1>10, <1>11, <1>12, <1>13 DEF NextReplies, PassStep

LEMMA PostsStayPaid ==
  ASSUME CrInv, NextReplies PROVE PostsPaid'
<1> SUFFICES ASSUME NEW c \in DOMAIN chunks' PROVE Cardinality(PostsOf(c)') <= Owed(c)'
  BY DEF PostsPaid, Owed
<1>0. CrTypes /\ chunks' = chunks
  BY ScreenSteps DEF CrInv, message
<1>1. c \in 1 .. Len(chunks) /\ c \in Nat /\ Len(chunks) \in Nat
  BY <1>0, ChunksAre
<1>2. /\ Owed(c) \in Nat /\ Owed(c)' \in Nat /\ Owed(c)' >= Owed(c)
      /\ UNCHANGED screen \/ EditUp \/ (PostUp /\ (c = chunk => Owed(c)' >= Owed(c) + 1))
  BY <1>1, OwedGrows
<1>3. Cardinality(PostsOf(c)) <= Owed(c) /\ Cardinality(PostsOf(c)) \in Nat
  BY <1>0, <1>1, PostsCount, ChunksAre DEF CrInv, PostsPaid, Owed
<1>4. CASE UNCHANGED screen \/ EditUp
  <2>1. Cardinality(PostsOf(c)') = Cardinality(PostsOf(c))
    BY <1>0, <1>4, SamePosts
  <2> QED
    BY <1>2, <1>3, <2>1
<1>5. CASE PostUp /\ (c = chunk => Owed(c)' >= Owed(c) + 1)
  <2>1. Shown \in Posts /\ Shown.chunk = chunk /\ screen' = Append(screen, Shown)
    BY <1>0, <1>5, ShownIs DEF PostUp
  <2>2. Cardinality(PostsOf(c)') = Cardinality(PostsOf(c)) + (IF chunk = c THEN 1 ELSE 0)
    BY <1>0, <1>1, <2>1, PostsCounted
  <2> QED
    BY <1>2, <1>3, <1>5, <2>2
<1> QED
  BY <1>2, <1>4, <1>5

\* What a pass has shown stays shown.
LEMMA PassStays ==
  ASSUME CrInv, NextReplies PROVE PassSound'
<1>0. /\ CrTypes /\ Grows /\ UNCHANGED <<text, withFile, chunks>> /\ Len(chunks) \in Nat \ {0} /\ chunk \in Nat
      /\ headId \in 0 .. Len(screen) /\ Len(screen) \in Nat /\ PassSound /\ RowSound
  BY ScreenSteps, StepGrows, ChunksAre DEF CrInv, message, CrTypes, CrTypeOK
\* A step that leaves the pass where it is.
<1>a. ASSUME UNCHANGED <<chunk, carry, headId>>, outbox' = outbox \/ outbox' = "cleared"
      PROVE  PassSound'
  <2>0. CASE chunk = 0
    BY <1>a, <2>0 DEF PassSound
  <2> SUFFICES ASSUME chunk # 0 PROVE PassSound'
    BY <2>0
  <2>1. Posted' = Posted /\ Posted \in Nat
    BY <1>0, <1>a DEF Posted
  <2>2. headId # 0 /\ ShownOn(screen, Posted, headId) => ShownOn(screen', Posted, headId)
    <3> SUFFICES ASSUME headId # 0, ShownOn(screen, Posted, headId) PROVE ShownOn(screen', Posted, headId)
      OBVIOUS
    <3>1. headId \in Nat \ {0}
      BY <1>0
    <3> QED
      BY <1>0, <2>1, <3>1, ShownStays
  <2>3. headId # 0 => screen'[headId].file = screen[headId].file /\ screen'[headId].form = screen[headId].form
    BY <1>0 DEF Grows
  <2> QED
    BY <1>0, <1>a, <2>1, <2>2, <2>3 DEF PassSound
\* A step that goes on to what follows the posts.
<1>b. ASSUME chunk > Len(chunks), chunk' = chunk + 1, UNCHANGED <<carry, headId>>, outbox' = outbox \/ outbox' = "cleared",
             UNCHANGED screen
      PROVE  PassSound'
  <2>1. chunk > 1 /\ Posted' = Posted
    BY <1>0, <1>b DEF Posted
  <2> QED
    BY <1>0, <1>b, <2>1 DEF PassSound
\* A step that ends the pass.
<1>c. ASSUME chunk' = 0 PROVE PassSound'
  BY <1>c DEF PassSound
<1>1. CASE PutFile
  BY <1>0, <1>1, <1>c DEF PutFile, RowSound
<1>2. CASE WriteReply BY <1>2, <1>a DEF WriteReply
<1>3. CASE BeginPass
  <2>1. chunk' = 1 /\ headId' = 0 /\ (carry' <=> outbox = "here") /\ outbox' = outbox /\ replyRow = "due"
    BY <1>3 DEF BeginPass
  <2>2. withFile /\ ~carry' => outbox = "cleared"
    BY <1>0, <2>1 DEF RowSound, CrTypes, CrTypeOK
  <2> QED
    BY <1>0, <2>1, <2>2 DEF PassSound
<1>4. CASE NothingToPost
  <2>1. chunk = 1 /\ text = <<>> /\ ~carry /\ chunk' = 2 /\ UNCHANGED <<carry, headId, outbox>>
    BY <1>4 DEF NothingToPost
  <2> QED
    BY <1>0, <2>1 DEF PassSound
<1>5. CASE Accepted
  <2>1. /\ chunk \in 1 .. Len(chunks) /\ (text # <<>> \/ carry) /\ chunk' = chunk + 1
        /\ UNCHANGED <<carry, outbox>> /\ headId' = NewHead /\ screen' = Append(screen, Shown)
    BY <1>5 DEF Accepted, Posting
  <2>2. /\ Shown \in Posts /\ Shown.chunk = chunk
        /\ Shown.file = (chunk = 1 /\ carry /\ form # "stub") /\ Shown.form = form
    BY <1>0, <1>5, ShownIs DEF Accepted
  <2>3. /\ Len(screen') = Len(screen) + 1 /\ screen'[Len(screen) + 1] = Shown
        /\ \A i \in 1 .. Len(screen) : screen'[i] = screen[i]
    BY <1>0, <2>1, <2>2 DEF CrTypes
  <2>4. Posted' = chunk /\ chunk' > 1 /\ chunk' # 1 /\ (withFile /\ ~carry => outbox = "cleared")
    BY <1>0, <2>1 DEF Posted, PassSound
  <2>5. /\ headId' # 0 /\ ShownOn(screen', chunk, headId')
        /\ carry => screen'[headId'].file \/ screen'[headId'].form = "stub"
    <3>1. CASE chunk = 1
      <4>1. headId' = Len(screen) + 1 /\ Shown.chunk = 0 + 1 /\ 0 \in Nat /\ Len(screen) + 1 \in Nat \ {0}
        BY <1>0, <2>1, <2>2, <3>1 DEF NewHead
      <4>2. ShownOn(screen', 0 + 1, Len(screen) + 1)
        BY <1>0, <2>1, <2>2, <4>1, ShownMore
      <4>3. 0 + 1 = chunk
        BY <3>1
      <4> QED
        BY <1>0, <2>2, <2>3, <3>1, <4>1, <4>2, <4>3
    <3>2. CASE chunk # 1
      <4>1. chunk > 1 /\ headId' = headId /\ chunk # 0 /\ Posted = chunk - 1 /\ chunk - 1 \in Nat /\ chunk - 1 # 0
        BY <1>0, <2>1, <3>2 DEF NewHead, Posted
      <4>2. /\ headId # 0 /\ ShownOn(screen, chunk - 1, headId)
            /\ carry => screen[headId].file \/ screen[headId].form = "stub"
        BY <1>0, <2>1, <4>1 DEF PassSound
      <4>3. headId \in Nat \ {0} /\ Shown.chunk = (chunk - 1) + 1 /\ (chunk - 1) + 1 = chunk /\ headId \in 1 .. Len(screen)
        BY <1>0, <2>2, <4>1, <4>2
      <4>4. ShownOn(screen', (chunk - 1) + 1, headId)
        BY <1>0, <2>1, <2>2, <4>1, <4>2, <4>3, ShownMore
      <4> QED
        BY <2>3, <4>1, <4>2, <4>3, <4>4
    <3> QED
      BY <3>1, <3>2
  <2> QED
    BY <1>0, <2>1, <2>4, <2>5 DEF PassSound
<1>6. CASE Refused BY <1>6, <1>a DEF Refused
<1>7. CASE PlainFails BY <1>7, <1>a DEF PlainFails
<1>8. CASE PassFails BY <1>8, <1>c DEF PassFails, GiveBack
<1>9. CASE ClearOutbox BY <1>9, <1>0, <1>b DEF ClearOutbox
<1>10. CASE MarkSent BY <1>10, <1>c DEF MarkSent
<1>11. CASE ReplyHostCrashes BY <1>11, <1>c DEF ReplyHostCrashes
<1>12. CASE RequestEdit BY <1>12, <1>a DEF RequestEdit
<1>13. CASE CarryEdit BY <1>13, <1>c DEF CarryEdit
<1> QED
  BY <1>1, <1>2, <1>3, <1>4, <1>5, <1>6, <1>7, <1>8, <1>9, <1>10, <1>11, <1>12, <1>13 DEF NextReplies, PassStep

\* A reply begins with nothing on the screen.
LEMMA InitCrInv == InitReplies => CrInv
<1> SUFFICES ASSUME InitReplies PROVE CrInv
  OBVIOUS
<1> USE DEF InitReplies
<1>0. text \in ReplyTexts /\ IsCut(text, chunks) /\ MaxPasses \in Nat \ {0} /\ MaxCrFaults \in Nat /\ Len(screen) = 0 /\ DOMAIN screen = {}
  BY ReplyConstants
<1>1. Len(chunks) \in Nat
  BY <1>0 DEF IsCut
<1>2. CrTypes
  <2>1. screen \in Seq(Posts) /\ edit \in [at : {"none", "due", "done", "failed"}, target : Nat]
    BY DEF Posts
  <2>2. /\ text \in ReplyTexts /\ withFile \in BOOLEAN /\ outbox \in {"none", "here", "cleared"}
        /\ replyRow \in {"none", "due", "sent", "failed"} /\ passes \in 0 .. MaxPasses - 1
        /\ chunk \in 0 .. Len(chunks) + 2 /\ form \in {"markdown", "plain", "stub"}
    BY <1>0, <1>1
  <2>3. carry \in BOOLEAN
    OBVIOUS
  <2>4. \A i \in DOMAIN screen : screen[i].chunk \in DOMAIN chunks
    BY <1>0
  <2>5. /\ headId \in 0 .. Len(screen) /\ storedId \in 0 .. Len(screen)
        /\ edit.at \in {"none", "due", "done", "failed"} /\ edit.target \in 0 .. Len(screen)
        /\ crFaults \in 0 .. MaxCrFaults
    BY <1>0
  <2> QED
    BY <1>0, <2>1, <2>2, <2>3, <2>4, <2>5 DEF CrTypes, CrTypeOK
<1>3. RowSound /\ PassSound /\ WholeThen /\ HeadsKnown
  BY <1>0 DEF RowSound, PassSound, WholeThen, HeadsKnown
<1>4. PostsPaid
  <2>1. \A c : PostsOf(c) = {}
    BY <1>0 DEF PostsOf
  <2>2. Cardinality({}) = 0 /\ crFaults \in Nat
    BY <1>0, FS_EmptySet
  <2>3. \A c : 0 <= crFaults + (IF c < chunk \/ replyRow = "sent" THEN 1 ELSE 0)
    BY <2>2
  <2> QED
    BY <2>1, <2>2, <2>3 DEF PostsPaid
<1> QED
  BY <1>2, <1>3, <1>4 DEF CrInv

\* An idle step changes nothing the invariant reads.
LEMMA CrIdle ==
  ASSUME CrInv, UNCHANGED replyVars PROVE CrInv'
<1>1. UNCHANGED <<text, withFile, chunks, outbox, replyRow, passes, chunk, form, carry, screen, headId, storedId, edit, crFaults>>
  BY DEF replyVars, message
<1>2. CrTypes' /\ RowSound' /\ PassSound'
  BY <1>1 DEF CrInv, CrTypes, CrTypeOK, IsCut, RowSound, PassSound, Posted
<1>3. WholeThen' /\ HeadsKnown' /\ PostsPaid'
  BY <1>1 DEF CrInv, WholeThen, HeadsKnown, PostsPaid, PostsOf, IsHead, WholeFrom, FileUp
<1> QED
  BY <1>2, <1>3 DEF CrInv

\* The invariant holds at first and is kept.
LEMMA CrInvStep == CrInv /\ [NextReplies]_replyVars => CrInv'
BY TypesStay, RowStays, PassStays, WholeThenStays, HeadsStay, PostsStayPaid, CrIdle DEF CrInv

\* The inductive invariant of a reply on its way to a chat (delivery.ts,
\* chat-sdk-bridge.ts).
THEOREM ReplyInvariant == ReplySpec => []CrInv
BY InitCrInv, CrInvStep, PTL DEF ReplySpec

\* The invariant of a reply types its variables.
LEMMA CrInvTypes == CrInv => CrTypeOK
BY DEF CrInv, CrTypes

\* Every variable of a reply on its way keeps its values.
THEOREM ReplyVariables == ReplySpec => []CrTypeOK
<1>1. CrInv => CrTypeOK
  BY CrInvTypes
<1> QED
  BY <1>1, ReplyInvariant, PTL

\* What the invariant says of the screen.
LEMMA CrInvIsSafe == CrInv => ReplySafety
<1> SUFFICES ASSUME CrInv PROVE ReplySafety
  OBVIOUS
<1>0. CrTypes /\ DOMAIN chunks = 1 .. Len(chunks) /\ Len(chunks) \in Nat /\ crFaults \in Nat
  BY ChunksAre DEF CrInv, CrTypes, CrTypeOK
<1>1. SplitIsFaithful
  BY DEF CrInv, CrTypes, SplitIsFaithful
<1>2. SentIsWhole /\ FileArrives
  BY DEF CrInv, WholeThen, FileUp, SentIsWhole, FileArrives
<1>3. CopiesArePaid
  <2> SUFFICES ASSUME NEW c \in DOMAIN chunks PROVE Cardinality(PostsOf(c)) <= 1 + crFaults
    BY DEF CopiesArePaid, PostsOf
  <2>1. Cardinality(PostsOf(c)) \in Nat
    BY <1>0, PostsCount
  <2>2. Cardinality(PostsOf(c)) <= crFaults + (IF c < chunk \/ replyRow = "sent" THEN 1 ELSE 0)
    BY DEF CrInv, PostsPaid
  <2> QED
    BY <1>0, <2>1, <2>2
<1>4. EditHitsHead
  BY DEF CrInv, HeadsKnown, IsHead, EditHitsHead
<1> QED
  BY <1>1, <1>2, <1>3, <1>4 DEF ReplySafety

\* However passes fail, posts are refused and the host crashes: a reply that
\* counts as sent is on the screen, whole and with its file, what is there twice
\* was paid for by a fault, and an edit changes the head of the reply.
THEOREM RepliesAreWhole == ReplySpec => []ReplySafety
<1>1. CrInv => ReplySafety
  BY CrInvIsSafe
<1> QED
  BY <1>1, ReplyInvariant, PTL

-----------------------------------------------------------------------------
(* The composition: every part keeps its invariant, whichever moves. *)

\* The invariants of all parts; a part that stands still is in an initial state.
OuterInv == SInv /\ UpInv /\ QuInv /\ CrInv /\ NcInv /\ ChInv /\ WatchInv

\* A step of the composition is a step of one part and leaves the others alone.
LEMMA OuterMoves ==
  ASSUME [NextOuter]_<<part, partVars>>
  PROVE  /\ [Next]_vars /\ [NextUpdate]_updateVars /\ [NextQuestions]_questionVars
         /\ [NextReplies]_replyVars /\ [NextNcl]_ncVars /\ [NextChat]_chVars /\ [NextWatch]_twVars
BY DEF NextOuter, partVars

\* At first every part holds its invariant.
LEMMA InitOuterInv == InitOuter => OuterInv
BY InitSInv, InitUpInv, InitQuInv, InitCrInv, InitNcInv, InitChInv, InitWatchInv DEF InitOuter, OuterInv

\* And every step keeps them.
LEMMA OuterInvStep == OuterInv /\ [NextOuter]_<<part, partVars>> => OuterInv'
BY OuterMoves, SInvStep, UpInvStep, QuInvStep, CrInvStep, NcInvStep, ChInvStep, WatchInvStep DEF OuterInv

\* The invariants of the parts hold together in the composition that is
\* model-checked, whatever its constants.
THEOREM OuterInvariant == OuterSpec => []OuterInv
BY InitOuterInv, OuterInvStep, PTL DEF OuterSpec

\* The variables of the part that moves keep their values.
THEOREM OuterTypes == OuterSpec => []OuterTypeOK
<1>1. OuterInv => OuterTypeOK
  BY UpInvTypes, QuInvTypes, CrInvTypes, NcInvTypes, ChInvTypes, WatchInvTypes DEF OuterInv, OuterTypeOK
<1> QED
  BY <1>1, OuterInvariant, PTL

\* Updates, questions, replies, commands, incoming chat and the watch are each
\* as safe in the composition as alone.
THEOREM OuterIsSafe == OuterSpec => []OuterSafety
<1>1. OuterInv => OuterSafety
  BY UpInvIsSafe, QuInvIsSafe, CrInvIsSafe, NcInvIsSafe, ChInvIsSafe, WatchInvIsSafe DEF OuterInv, OuterSafety
<1> QED
  BY <1>1, OuterInvariant, PTL

\* The numbers of a session, in the composition: they are unique and in order, an
\* id that was given resolves to its message, and the window is the turn.
THEOREM OuterNumbers == OuterSpec => [](SInv /\ IdsResolve /\ WindowIsTheTurn)
<1>1. OuterInv => SInv /\ IdsResolve /\ WindowIsTheTurn
  BY ResolvedIds, ExactWindow DEF OuterInv
<1> QED
  BY <1>1, OuterInvariant, PTL

\* A rollback that is reported is whole in the composition as well.
THEOREM OuterRollback == OuterSpec => RolledBackWhole
<1>1. OuterInv /\ [NextOuter]_<<part, partVars>> =>
        [upPhase' = "rolledback" /\ upPhase # "rolledback" =>
           /\ head = "old" /\ dist = "old"
           /\ files = "old" \/ relapsed
           /\ captured = "up" => service' = "up"]_updateVars
  BY OuterMoves, RollbackStep DEF OuterInv
<1> QED
  BY <1>1, OuterInvariant, PTL DEF OuterSpec, RolledBackWhole

=============================================================================
