-------------------------- MODULE EventStreamProofs --------------------------
(***************************************************************************)
(* Proofs about the way of an event to a browser page (EventStream).       *)
(*                                                                         *)
(* The invariant follows a row from the log to the reducer: StreamInv says *)
(* which numbers are given out, that the channel holds published events in *)
(* order, that no frame on the wire skips a row of an existing chat        *)
(* (NoSkip), that the mark of a subscription divides what was sent from    *)
(* what was not (MarksDivide), where each task of the socket stands        *)
(* (TasksPlace, ServerPosition), and that a history page on its way closes *)
(* the gap below the cursor (HistoryHolds).  Each step of the log, of the  *)
(* two tasks, of the browser and of the history requests keeps it.         *)
(*                                                                         *)
(* Hypothesis of the theorems: not both deletions and restarts (NoReuse).  *)
(* A start takes the next number from the rows that are left, so with both *)
(* the numbers of deleted rows are given out again.                        *)
(***************************************************************************)
EXTENDS EventStream, FiniteSetTheorems, SequenceTheorems, TLAPS

-----------------------------------------------------------------------------
(* The invariant.                                                          *)

\* The rows a page may be shown: those of the chats that exist.
Shown == {e \in table : e.chat \in chats}

\* A sequence number that has been given out; 0 is that of the empty log.
Given(n) == n < nextSeq \/ (n = nextSeq /\ saving # NoEvent)

\* The numbers of the log: one row each, and the one being saved is the last.
LogNumbers ==
    /\ \A e \in table : Given(e.seq)
    /\ \A d, e \in table : d.seq = e.seq => d = e
    /\ saving # NoEvent => saving.seq = nextSeq
    /\ saving # NoEvent /\ saving.chat \in chats => saving \in table
    /\ "delete" \notin Faults =>
          \A n \in 1..MaxSeq : Given(n) => \E e \in table : e.seq = n

\* What waits in the channel is published, in order.
ChannelOrder ==
    /\ \A i \in 1..Len(ring) : /\ ring[i].seq < nextSeq
                               /\ ring[i].chat \in chats => ring[i] \in table
    /\ \A i, j \in 1..Len(ring) : i < j => ring[i].seq < ring[j].seq

\* The marks and cursors of both sides lie in the part that was given out.
MarksGiven ==
    /\ \A n \in {last, base, thr, replaySeq} : Given(n)
    /\ cur = 0 \/ Given(cur - 1)

IsEvent(i) == wire[i].kind = "event"
IsMark(i) == wire[i].kind = "subscribed"

\* The row has passed the browser, or one of the first k frames brings it there.
Ahead(e, k) ==
    \/ e.seq <= last
    \/ \E j \in 1..k : \/ IsEvent(j) /\ wire[j].event = e
                       \/ IsMark(j) /\ e.seq <= wire[j].through

\* The wire skips no row: whoever reads a frame has had every row below it.
NoSkip ==
    \A i \in 1..Len(wire) :
        /\ IsEvent(i) => /\ Given(wire[i].event.seq)
                         /\ wire[i].event.chat \in chats => wire[i].event \in table
                         /\ \A e \in Shown : e.seq <= wire[i].event.seq => Ahead(e, i)
        /\ IsMark(i) => /\ Given(wire[i].through)
                        /\ based => \A e \in Shown : e.seq <= wire[i].through => Ahead(e, i - 1)

\* Rows beyond a mark are beyond the browser and beyond all that comes before the mark.
Beyond(e, k) == e.seq > last /\ \A j \in 1..k : IsEvent(j) => e.seq > wire[j].event.seq
MarksDivide ==
    /\ \A i \in 1..Len(wire) : IsMark(i) => \A e \in table : e.seq > wire[i].through => Beyond(e, i)
    /\ \A i, j \in 1..Len(wire) : IsMark(i) /\ IsMark(j) => i = j
    /\ phase \in {"open", "replay"} => \A i \in 1..Len(wire) : ~IsMark(i)
    /\ ~based /\ wire # <<>> => ~IsEvent(1)
    /\ ~based /\ phase \in {"started", "done"} => wire # <<>>

\* Whether the row still comes through the channel, or through the read that
\* follows a lag.
Coming(e) == lagged \/ (\E i \in 1..Len(ring) : ring[i] = e) \/ e = saving

\* Where the two tasks of the socket stand.
TasksPlace ==
    /\ ~online => phase = "none" /\ wire = <<>>
    /\ phase = "none" => ring = <<>> /\ fwd = "arm"
    /\ phase = "open" => wire = <<>> /\ cur = IF based THEN last + 1 ELSE 0
    /\ phase = "replay" => based
    /\ fwd \in {"live", "lag"} => phase \in {"started", "done"}
    /\ fwd = "lag" => cur = replaySeq + 1

\* What the server has sent, and what it will.
ServerPosition ==
    /\ phase = "replay" =>
          /\ \A e \in Shown : e.seq < cur => Ahead(e, Len(wire))
          /\ \A e \in table : e.seq > thr => Beyond(e, Len(wire)) /\ Coming(e)
    /\ phase \in {"started", "done"} =>
          /\ \A e \in Shown : e.seq <= replaySeq => Ahead(e, Len(wire))
          /\ fwd # "lag" => \A e \in Shown : e.seq > replaySeq => Coming(e)
          /\ fwd = "lag" => \A e \in Shown : e.seq > thr => Coming(e)

\* A history page says from where on it is complete.
PageLow(c) == IF answer[c].older THEN Min(answer[c].seqs) ELSE 0

\* The reducers and the pages on their way leave no gap below the cursor.
HistoryHolds ==
    /\ base <= last
    /\ ~based => last = 0 /\ loaded = {} /\ \A c \in Chat : ~answer[c].sent
    /\ \A c \in Chat : low[c] <= last /\ (answer[c].sent => PageLow(c) \in 0..last)
    /\ \A c \in chats : \A n \in Rows(c) : base < n /\ n <= last => n \in view[c]
    /\ \A c \in chats : answer[c].sent =>
          /\ answer[c].seqs \subseteq Rows(c)
          /\ \A n \in answer[c].seqs : n <= last
          /\ \A n \in Rows(c) : PageLow(c) <= n /\ n <= last => n \in view[c] \cup answer[c].seqs

StreamInv ==
    /\ TypeOK /\ LogNumbers /\ ChannelOrder /\ MarksGiven
    /\ NoSkip /\ MarksDivide /\ TasksPlace /\ ServerPosition
    /\ HistoryHolds /\ NoGap

USE LogAssumption, StreamAssumption

-----------------------------------------------------------------------------
(* The order of rows.                                                      *)

\* Rows with different numbers: finitely many, and every rank is taken.
LEMMA Ranks ==
    ASSUME NEW R \in SUBSET Event, \A d, e \in R : d.seq = e.seq => d = e
    PROVE  /\ IsFiniteSet(R) /\ Cardinality(R) \in Nat
           /\ \A d, e \in R : d.seq < e.seq => Cardinality({r \in R : r.seq < d.seq})
                                                 < Cardinality({r \in R : r.seq < e.seq})
           /\ \A i \in 1..Cardinality(R) :
                 \E e \in R : Cardinality({d \in R : d.seq < e.seq}) = i - 1
<1>. DEFINE Below(e) == {d \in R : d.seq < e.seq}
<1>1. \A e \in R : e.seq \in 1..MaxSeq
  BY DEF Event
<1>2. IsFiniteSet(R)
  <2>. DEFINE f == [e \in R |-> e.seq]
  <2>1. f \in Injection(R, 1..MaxSeq)
    BY <1>1 DEF Injection, IsInjective
  <2>2. IsFiniteSet(1..MaxSeq)
    BY FS_Interval
  <2>. QED BY <2>1, <2>2, FS_Injection
<1>3. Cardinality(R) \in Nat
  BY <1>2, FS_CardinalityType
<1>4. ASSUME NEW e \in R
      PROVE  IsFiniteSet(Below(e)) /\ Cardinality(Below(e)) \in 0..(Cardinality(R) - 1)
  <2>1. Below(e) \in SUBSET R /\ e \notin Below(e)
    BY <1>1
  <2>2. /\ IsFiniteSet(Below(e)) /\ Cardinality(Below(e)) <= Cardinality(R)
        /\ Cardinality(R) # Cardinality(Below(e))
    BY <1>2, <2>1, FS_Subset
  <2>. HIDE DEF Below
  <2>. QED BY <1>3, <2>2, FS_CardinalityType
<1>5. ASSUME NEW d \in R, NEW e \in R, d.seq < e.seq
      PROVE  Cardinality(Below(d)) < Cardinality(Below(e))
  <2>1. Below(d) \in SUBSET Below(e) /\ d \in Below(e) /\ d \notin Below(d)
    BY <1>1, <1>5
  <2>2. /\ Cardinality(Below(d)) <= Cardinality(Below(e))
        /\ Cardinality(Below(e)) # Cardinality(Below(d))
    BY <1>4, <2>1, FS_Subset
  <2>. HIDE DEF Below
  <2>. QED BY <1>3, <1>4, <2>2
<1>6. ASSUME NEW i \in 1..Cardinality(R)
      PROVE  \E e \in R : Cardinality(Below(e)) = i - 1
  <2>. DEFINE n == Cardinality(R)
              r == [e \in R |-> Cardinality(Below(e)) + 1]
  <2>1. r \in [R -> 1..n]
    <3>. HIDE DEF Below
    <3>. QED BY <1>3, <1>4
  <2>2. \A d, e \in R : r[d] = r[e] => d = e
    <3>. SUFFICES ASSUME NEW d \in R, NEW e \in R, d # e PROVE r[d] # r[e]
      OBVIOUS
    <3>1. d.seq < e.seq \/ e.seq < d.seq
      BY <1>1
    <3>2. Cardinality(Below(d)) # Cardinality(Below(e))
      <4>. HIDE DEF Below
      <4>. QED BY <1>3, <1>4, <1>5, <3>1
    <3>. HIDE DEF Below
    <3>. QED BY <1>3, <1>4, <3>2
  <2>3. r \in Injection(R, 1..n)
    <3>. HIDE DEF r
    <3>. QED BY <2>1, <2>2 DEF Injection, IsInjective
  <2>4. IsFiniteSet(1..n) /\ Cardinality(1..n) = n
    BY <1>3, FS_Interval
  <2>5. r \in Surjection(R, 1..n)
    <3>. HIDE DEF r
    <3>. QED BY <1>2, <2>3, <2>4, FS_Injection
  <2>6. PICK e \in R : r[e] = i
    <3>. HIDE DEF r
    <3>. QED BY <2>5 DEF Surjection
  <2>. HIDE DEF Below
  <2>. QED BY <1>3, <1>4, <2>6
<1>. QED BY <1>2, <1>3, <1>5, <1>6

\* A set of numbers up to a bound has a least and a greatest one.
LEMMA Extremes ==
    ASSUME NEW n \in Nat, NEW S \in SUBSET (0..n), S # {}
    PROVE  /\ Max(S) \in S /\ \A m \in S : m <= Max(S)
           /\ Min(S) \in S /\ \A m \in S : m >= Min(S)
<1>. DEFINE Least(x) == \A m \in S : m >= x
            Most(x) == \A m \in S : m <= x
            Under(x) == {m \in S : m < x}
            k == Cardinality(S)
            r == [x \in S |-> Cardinality(Under(x)) + 1]
<1>1. IsFiniteSet(S) /\ k \in Nat /\ k # 0
  <2>1. IsFiniteSet(0..n)
    BY FS_Interval
  <2>2. IsFiniteSet(S)
    BY <2>1, FS_Subset
  <2>. QED BY <2>2, FS_CardinalityType, FS_EmptySet
<1>2. ASSUME NEW x \in S
      PROVE  /\ IsFiniteSet(Under(x)) /\ Cardinality(Under(x)) \in 0..(k - 1)
             /\ Cardinality(Under(x)) = 0 => Least(x)
             /\ Cardinality(Under(x)) = k - 1 => Most(x)
  <2>1. Under(x) \in SUBSET (S \ {x})
    OBVIOUS
  <2>2. IsFiniteSet(S \ {x}) /\ Cardinality(S \ {x}) = k - 1
    BY <1>1, FS_RemoveElement
  <2>3. /\ IsFiniteSet(Under(x)) /\ Cardinality(Under(x)) <= k - 1
        /\ k - 1 = Cardinality(Under(x)) => S \ {x} = Under(x)
    <3>. HIDE DEF Under, k
    <3>. QED BY <2>1, <2>2, FS_Subset
  <2>4. Cardinality(Under(x)) \in Nat
    <3>. HIDE DEF Under
    <3>. QED BY <2>3, FS_CardinalityType
  <2>5. Cardinality(Under(x)) = 0 => Under(x) = {}
    <3>. HIDE DEF Under
    <3>. QED BY <2>3, FS_EmptySet
  <2>6. Under(x) = {} => Least(x)
    OBVIOUS
  <2>7. S \ {x} = Under(x) => Most(x)
    OBVIOUS
  <2>. HIDE DEF Under, k, Least, Most
  <2>. QED BY <1>1, <2>3, <2>4, <2>5, <2>6, <2>7
<1>3. ASSUME NEW x \in S, NEW y \in S, x < y
      PROVE  Cardinality(Under(x)) < Cardinality(Under(y))
  <2>1. Under(x) \in SUBSET Under(y) /\ x \in Under(y) /\ x \notin Under(x)
    <3>1. x \in Nat /\ y \in Nat /\ \A m \in S : m \in Nat
      OBVIOUS
    <3>2. ASSUME NEW m \in S, m < x PROVE m < y
      <4>1. m \in Nat
        BY <3>1
      <4>. QED BY <1>3, <3>1, <3>2, <4>1
    <3>3. x \in Under(y) /\ x \notin Under(x)
      BY <1>3, <3>1
    <3>. QED BY <3>2, <3>3
  <2>. HIDE DEF Under
  <2>2. /\ Cardinality(Under(x)) <= Cardinality(Under(y))
        /\ Cardinality(Under(y)) # Cardinality(Under(x))
    BY <1>2, <2>1, FS_Subset
  <2>. HIDE DEF k
  <2>. QED BY <1>1, <1>2, <2>2
<1>4. r \in [S -> 1..k]
  <2>. HIDE DEF Under, k
  <2>. QED BY <1>1, <1>2
<1>5. \A x, y \in S : r[x] = r[y] => x = y
  <2>. SUFFICES ASSUME NEW x \in S, NEW y \in S, x # y PROVE r[x] # r[y]
    OBVIOUS
  <2>1. x < y \/ y < x
    OBVIOUS
  <2>. HIDE DEF Under, k
  <2>. QED BY <1>1, <1>2, <1>3, <2>1
<1>6. r \in Surjection(S, 1..k)
  <2>. HIDE DEF r
  <2>1. r \in Injection(S, 1..k)
    BY <1>4, <1>5 DEF Injection, IsInjective
  <2>2. IsFiniteSet(1..k) /\ Cardinality(1..k) = k
    BY <1>1, FS_Interval
  <2>. QED BY <1>1, <2>1, <2>2, FS_Injection
<1>7. (\E x \in S : r[x] = 1) /\ (\E x \in S : r[x] = k)
  <2>. HIDE DEF r
  <2>. QED BY <1>1, <1>6 DEF Surjection
<1>8. (\E x \in S : Least(x)) /\ (\E x \in S : Most(x))
  <2>1. PICK x \in S : r[x] = 1
    BY <1>7
  <2>2. PICK y \in S : r[y] = k
    BY <1>7
  <2>3. Cardinality(Under(x)) = 0 /\ Cardinality(Under(y)) = k - 1
    <3>. HIDE DEF Under, k
    <3>. QED BY <1>1, <1>2, <2>1, <2>2
  <2>4. Least(x)
    BY <1>2, <2>3
  <2>5. Most(y)
    BY <1>2, <2>3
  <2>. QED BY <2>4, <2>5
<1>. QED BY <1>8 DEF Max, Min

-----------------------------------------------------------------------------
(* What the readers of the log get.                                        *)

\* max_seq bounds the rows and is one of them, or 0.
LEMMA MarkOf ==
    ASSUME LogTypeOK
    PROVE  /\ MaxEventSeq \in 0..MaxSeq
           /\ \A e \in table : e.seq \in 1..MaxSeq /\ e.seq <= MaxEventSeq
           /\ MaxEventSeq = 0 \/ \E e \in table : e.seq = MaxEventSeq
<1>. DEFINE S == {e.seq : e \in table} \cup {0}
<1>1. \A e \in table : e.seq \in 1..MaxSeq
  BY DEF LogTypeOK, Event
<1>2. S \in SUBSET (0..MaxSeq) /\ S # {}
  BY <1>1
<1>3. Max(S) \in S /\ \A m \in S : m <= Max(S)
  <2>. HIDE DEF S
  <2>. QED BY <1>2, Extremes
<1>. QED BY <1>1, <1>2, <1>3 DEF MaxEventSeq

\* A page of the replay: rows of the asked range in their order, from the first
\* on, and none only if there are none.
IsPage(page, from, through) ==
    /\ page \in Seq(Event)
    /\ \A i \in 1..Len(page) :
          /\ page[i] \in table /\ from <= page[i].seq /\ page[i].seq <= through
          /\ \A e \in table : from <= e.seq /\ e.seq <= page[i].seq => \E j \in 1..i : page[j] = e
    /\ page = <<>> => \A e \in table : ~(from <= e.seq /\ e.seq <= through)

LEMMA PageOf ==
    ASSUME LogTypeOK, LogNumbers, NEW from \in Nat, NEW through \in Nat
    PROVE  IsPage(ReplayPage(from, through), from, through)
<1>. SUFFICES ASSUME NEW page, page = ReplayPage(from, through)
              PROVE  IsPage(page, from, through)
  OBVIOUS
<1>. DEFINE R == {e \in table : from <= e.seq /\ e.seq <= through}
            Before(e) == Cardinality({d \in R : d.seq < e.seq})
            n == Min({PageSize, Cardinality(R)})
<1>1. \A e \in table : e.seq \in Nat
  BY DEF LogTypeOK, Event
<1>2. R \in SUBSET Event /\ \A d, e \in R : d.seq = e.seq => d = e
  BY DEF LogTypeOK, LogNumbers
<1>3. /\ Cardinality(R) \in Nat /\ IsFiniteSet(R)
      /\ \A d, e \in R : d.seq < e.seq => Before(d) < Before(e)
      /\ \A i \in 1..Cardinality(R) : \E e \in R : Before(e) = i - 1
  <2>. HIDE DEF R
  <2>. QED BY <1>2, Ranks
<1>4. n \in Nat /\ n <= Cardinality(R) /\ (n = 0 => Cardinality(R) = 0)
  <2>. HIDE DEF R
  <2>. DEFINE K == {PageSize, Cardinality(R)}
  <2>1. /\ PageSize + Cardinality(R) \in Nat
        /\ K \in SUBSET (0..(PageSize + Cardinality(R))) /\ K # {}
    BY <1>3
  <2>2. Min(K) \in K /\ \A m \in K : m >= Min(K)
    <3>. HIDE DEF K
    <3>. QED BY <2>1, Extremes
  <2>. QED BY <1>3, <2>2
<1>5. page = [i \in 1..n |-> CHOOSE e \in R : Before(e) = i - 1]
  BY DEF ReplayPage
<1>6. \A i \in 1..n : page[i] \in R /\ Before(page[i]) = i - 1
  <2>. HIDE DEF R, n, Before
  <2>. SUFFICES ASSUME NEW i \in 1..n PROVE page[i] \in R /\ Before(page[i]) = i - 1
    OBVIOUS
  <2>1. page[i] = CHOOSE e \in R : Before(e) = i - 1
    BY <1>5
  <2>2. i \in 1..Cardinality(R)
    BY <1>3, <1>4
  <2>3. \E e \in R : Before(e) = i - 1
    BY <1>3, <2>2
  <2>. QED BY <2>1, <2>3
<1>7. page \in Seq(Event) /\ Len(page) = n
  <2>. HIDE DEF R, n, Before
  <2>. QED BY <1>2, <1>4, <1>5, <1>6
<1>8. ASSUME NEW i \in 1..n, NEW e \in R, e.seq <= page[i].seq
      PROVE  \E j \in 1..i : page[j] = e
  <2>1. page[i] \in R /\ Before(page[i]) = i - 1
    BY <1>6
  <2>2. e = page[i] \/ e.seq < page[i].seq
    BY <1>1, <1>2, <1>8, <2>1
  <2>3. Before(e) \in Nat
    <3>1. {d \in R : d.seq < e.seq} \in SUBSET R
      OBVIOUS
    <3>. HIDE DEF R
    <3>. QED BY <1>3, <3>1, FS_Subset, FS_CardinalityType
  <2>4. CASE e.seq < page[i].seq
    <3>1. Before(e) < i - 1
      <4>. HIDE DEF R, Before
      <4>. QED BY <1>3, <2>1, <2>4
    <3>2. Before(e) + 1 \in 1..i /\ Before(e) + 1 \in 1..n
      <4>. HIDE DEF R, Before, n
      <4>. QED BY <1>4, <2>3, <3>1
    <3>3. page[Before(e) + 1] \in R /\ Before(page[Before(e) + 1]) = Before(e)
      <4>. HIDE DEF R, Before, n
      <4>. QED BY <1>6, <2>3, <3>2
    <3>4. page[Before(e) + 1] = e
      <4>1. \/ page[Before(e) + 1].seq < e.seq \/ e.seq < page[Before(e) + 1].seq
            \/ page[Before(e) + 1] = e
        <5>. HIDE DEF Before
        <5>. QED BY <1>1, <1>2, <3>3
      <4>. HIDE DEF R, Before, n
      <4>. QED BY <1>3, <2>3, <3>3, <4>1
    <3>. HIDE DEF Before
    <3>. QED BY <3>2, <3>4
  <2>. QED BY <2>2, <2>4
<1>9. page = <<>> => R = {}
  <2>. HIDE DEF R
  <2>. QED BY <1>3, <1>4, <1>7, FS_EmptySet
<1>10. \A i \in 1..n, e \in table : from <= e.seq /\ e.seq <= page[i].seq => e \in R
  <2>1. \A i \in 1..n : page[i] \in R
    BY <1>6
  <2>. HIDE DEF n
  <2>. QED BY <1>1, <2>1
<1>. HIDE DEF Before, n
<1>. QED BY <1>6, <1>7, <1>8, <1>9, <1>10 DEF IsPage

\* A history page: rows of the asked set, and all of them from its cursor on.
LEMMA ChatPageOf ==
    ASSUME NEW R \in SUBSET (1..MaxSeq), NEW p, p = ChatPage(R)
    PROVE  /\ p \in [seqs : SUBSET (1..MaxSeq), older : BOOLEAN, sent : BOOLEAN]
           /\ p.sent /\ p.seqs \subseteq R
           /\ p.older => Min(p.seqs) \in p.seqs
           /\ \A n \in R : (p.older => n >= Min(p.seqs)) => n \in p.seqs
<1>. DEFINE Over(n) == {m \in R : m > n}
            Q == {n \in R : Cardinality(Over(n)) < PageSize}
<1>1. IsFiniteSet(R) /\ Cardinality(R) \in Nat
  <2>1. IsFiniteSet(1..MaxSeq)
    BY FS_Interval
  <2>. QED BY <2>1, FS_Subset, FS_CardinalityType
<1>2. p = [seqs |-> Q, older |-> Cardinality(R) > PageSize, sent |-> TRUE]
  BY DEF ChatPage
<1>3. \A n \in R : Over(n) \in SUBSET R /\ n \notin Over(n)
  OBVIOUS
<1>4. \A n \in R : IsFiniteSet(Over(n)) /\ Cardinality(Over(n)) \in 0..(Cardinality(R) - 1)
  <2>. SUFFICES ASSUME NEW n \in R
                PROVE  IsFiniteSet(Over(n)) /\ Cardinality(Over(n)) \in 0..(Cardinality(R) - 1)
    OBVIOUS
  <2>1. Over(n) \in SUBSET R /\ n \notin Over(n)
    BY <1>3
  <2>. HIDE DEF Over
  <2>2. /\ IsFiniteSet(Over(n)) /\ Cardinality(Over(n)) <= Cardinality(R)
        /\ Cardinality(R) # Cardinality(Over(n))
    BY <1>1, <2>1, FS_Subset
  <2>. QED BY <1>1, <2>2, FS_CardinalityType
<1>11. p.older <=> Cardinality(R) > PageSize
  <2>. DEFINE Many == Cardinality(R) > PageSize
  <2>. HIDE DEF Q, Many
  <2>1. p.older = Many
    BY <1>2 DEF Many
  <2>. QED BY <2>1 DEF Many
<1>5. ~p.older => \A n \in R : n \in Q
  <2>. HIDE DEF Over
  <2>1. ~p.older => \A n \in R : Cardinality(Over(n)) < PageSize
    BY <1>1, <1>4, <1>11
  <2>. QED BY <2>1
<1>6. p.older => Min(Q) \in Q
  <2>. SUFFICES ASSUME p.older PROVE Min(Q) \in Q
    OBVIOUS
  <2>1. R # {} /\ R \in SUBSET (0..MaxSeq) /\ \A m \in R : m \in Nat
    BY <1>1, <1>11, FS_EmptySet
  <2>2. Max(R) \in R /\ \A m \in R : m <= Max(R)
    BY <2>1, Extremes
  <2>3. Over(Max(R)) = {}
    <3>1. ASSUME NEW m \in R PROVE ~(m > Max(R))
      <4>1. m \in Nat /\ Max(R) \in Nat /\ m <= Max(R)
        BY <2>1, <2>2
      <4>. QED BY <4>1
    <3>. QED BY <3>1
  <2>4. Max(R) \in Q
    <3>. HIDE DEF Over
    <3>. QED BY <2>2, <2>3, FS_EmptySet
  <2>5. Q \in SUBSET (0..MaxSeq) /\ Q # {}
    BY <2>1, <2>4
  <2>. HIDE DEF Q
  <2>. QED BY <2>5, Extremes
<1>7. ASSUME NEW n \in R, NEW k \in Q, n >= k PROVE n \in Q
  <2>1. Over(n) \in SUBSET Over(k) /\ k \in R
    <3>1. k \in R /\ \A m \in R : m \in Nat
      OBVIOUS
    <3>2. \A m \in R : m > n => m > k
      BY <1>7, <3>1
    <3>. QED BY <3>1, <3>2
  <2>2. Cardinality(Over(k)) < PageSize
    OBVIOUS
  <2>3. Cardinality(Over(n)) <= Cardinality(Over(k))
    <3>. HIDE DEF Over
    <3>. QED BY <1>4, <2>1, FS_Subset
  <2>4. Cardinality(Over(n)) < PageSize
    <3>. HIDE DEF Over
    <3>. QED BY <1>1, <1>4, <2>1, <2>2, <2>3
  <2>. QED BY <2>4
<1>8. p.seqs = Q /\ p.sent /\ p.older \in BOOLEAN
  <2>. HIDE DEF Q
  <2>. QED BY <1>2
<1>9. p \in [seqs : SUBSET (1..MaxSeq), older : BOOLEAN, sent : BOOLEAN]
  <2>1. Q \in SUBSET (1..MaxSeq) /\ Q \subseteq R
    OBVIOUS
  <2>. HIDE DEF Q
  <2>. QED BY <1>2, <2>1
<1>10. Q \subseteq R
  OBVIOUS
<1>. HIDE DEF Q
<1>. QED BY <1>5, <1>6, <1>7, <1>8, <1>9, <1>10

-----------------------------------------------------------------------------
(* Parts of the invariant whose variables a step leaves alone.             *)

LEMMA Untouched ==
    /\ LogNumbers /\ UNCHANGED <<table, chats, nextSeq, saving>> => LogNumbers'
    /\ ChannelOrder /\ UNCHANGED <<ring, nextSeq, chats, table>> => ChannelOrder'
    /\ MarksGiven /\ UNCHANGED <<last, base, cur, thr, replaySeq, nextSeq, saving>> => MarksGiven'
    /\ NoSkip /\ UNCHANGED <<wire, last, based, table, chats, nextSeq, saving>> => NoSkip'
    /\ MarksDivide /\ UNCHANGED <<wire, last, table, phase, based>> => MarksDivide'
    /\ TasksPlace /\ UNCHANGED <<online, phase, wire, ring, fwd, cur, based, last, replaySeq>>
          => TasksPlace'
    /\ ServerPosition /\ UNCHANGED <<phase, cur, thr, replaySeq, fwd, wire, last, table, chats,
                                     lagged, ring, saving>> => ServerPosition'
    /\ HistoryHolds /\ UNCHANGED <<base, last, based, loaded, answer, low, chats, view, table>>
          => HistoryHolds'
    /\ NoGap /\ UNCHANGED <<loaded, chats, table, low, last, view>> => NoGap'
<1>1. LogNumbers /\ UNCHANGED <<table, chats, nextSeq, saving>> => LogNumbers'
  BY DEF LogNumbers, Given
<1>2. ChannelOrder /\ UNCHANGED <<ring, nextSeq, chats, table>> => ChannelOrder'
  BY DEF ChannelOrder
<1>3. MarksGiven /\ UNCHANGED <<last, base, cur, thr, replaySeq, nextSeq, saving>> => MarksGiven'
  BY DEF MarksGiven, Given
<1>4. NoSkip /\ UNCHANGED <<wire, last, based, table, chats, nextSeq, saving>> => NoSkip'
  BY DEF NoSkip, IsEvent, IsMark, Given, Ahead, Shown
<1>5. MarksDivide /\ UNCHANGED <<wire, last, table, phase, based>> => MarksDivide'
  BY DEF MarksDivide, IsEvent, IsMark, Beyond
<1>6. TasksPlace /\ UNCHANGED <<online, phase, wire, ring, fwd, cur, based, last, replaySeq>>
          => TasksPlace'
  BY DEF TasksPlace
<1>7. ServerPosition /\ UNCHANGED <<phase, cur, thr, replaySeq, fwd, wire, last, table, chats,
                                     lagged, ring, saving>> => ServerPosition'
  BY DEF ServerPosition, IsEvent, IsMark, Ahead, Beyond, Coming, Shown
<1>8. HistoryHolds /\ UNCHANGED <<base, last, based, loaded, answer, low, chats, view, table>>
          => HistoryHolds'
  BY DEF HistoryHolds, Rows, PageLow
<1>9. NoGap /\ UNCHANGED <<loaded, chats, table, low, last, view>> => NoGap'
  BY DEF NoGap, Rows
<1>. QED BY <1>1, <1>2, <1>3, <1>4, <1>5, <1>6, <1>7, <1>8, <1>9

-----------------------------------------------------------------------------
(* Frames.                                                                 *)

\* What a frame carries is typed.
LEMMA FrameOf ==
    ASSUME NEW f \in Frame
    PROVE  /\ f.kind = "event" => f.event \in Event
           /\ f.kind = "subscribed" => f.through \in 0..MaxSeq
BY DEF Frame

\* The frames of a page are frames, one for each row.
LEMMA EventFramesOf ==
    ASSUME NEW events \in Seq(Event)
    PROVE  /\ EventFrames(events) \in Seq(Frame)
           /\ Len(EventFrames(events)) = Len(events)
           /\ \A i \in 1..Len(events) : /\ EventFrames(events)[i].kind = "event"
                                        /\ EventFrames(events)[i].event = events[i]
<1>1. EventFrames(events) = [i \in 1..Len(events) |-> [kind |-> "event", event |-> events[i]]]
  BY DEF EventFrames
<1>2. \A i \in 1..Len(events) : [kind |-> "event", event |-> events[i]] \in Frame
  BY DEF Frame
<1>. QED BY <1>1, <1>2

\* Frames that are sent come behind those on the wire.
LEMMA Sent ==
    ASSUME wire \in Seq(Frame), NEW frames \in Seq(Frame), wire' = wire \o frames
    PROVE  /\ wire' \in Seq(Frame)
           /\ Len(wire) \in Nat /\ Len(frames) \in Nat /\ Len(wire') = Len(wire) + Len(frames)
           /\ \A i \in 1..Len(wire) : wire'[i] = wire[i] /\ wire[i] \in Frame
           /\ \A i \in 1..Len(wire') : i \notin 1..Len(wire) =>
                 i - Len(wire) \in 1..Len(frames) /\ wire'[i] = frames[i - Len(wire)]
           /\ \A i \in 1..Len(frames) : wire'[Len(wire) + i] = frames[i]
OBVIOUS

\* The first frame is taken from the wire.
LEMMA Taken ==
    ASSUME wire \in Seq(Frame), wire # <<>>, wire' = Tail(wire)
    PROVE  /\ wire' \in Seq(Frame)
           /\ Len(wire) \in Nat \ {0} /\ Len(wire') = Len(wire) - 1
           /\ \A i \in 1..Len(wire') : wire'[i] = wire[i + 1] /\ i + 1 \in 1..Len(wire)
           /\ wire[1] \in Frame
OBVIOUS

\* Rows that may join n frames: nobody sees a row before all below it.
Joins(events, n) ==
    \A i \in 1..Len(events) :
        /\ Given(events[i].seq)
        /\ events[i].chat \in chats => events[i] \in table
        /\ \A e \in Shown : e.seq <= events[i].seq => Ahead(e, n) \/ \E j \in 1..i : events[j] = e

\* What has joined the wire is ahead of the browser.
Joined(events, n, m) ==
    /\ \A e : Ahead(e, n) => Ahead(e, m)'
    /\ \A j \in 1..Len(events) : Ahead(events[j], m)'
    /\ \A e : Beyond(e, n) /\ (\A j \in 1..Len(events) : e.seq > events[j].seq) => Beyond(e, m)'

\* A page of rows joins the wire without a gap.
LEMMA SendEvents ==
    ASSUME TypeOK, LogNumbers, NoSkip, MarksDivide, NEW events \in Seq(Event),
           NEW n \in Nat, n = Len(wire), NEW m \in Nat, m = Len(wire'),
           wire' = wire \o EventFrames(events), UNCHANGED <<log, last, based, phase>>,
           phase = "open" => events = <<>>,
           ~based => wire # <<>>,
           Joins(events, n)
    PROVE  /\ NoSkip' /\ MarksDivide' /\ wire' \in Seq(Frame)
           /\ Joined(events, n, m)
<1>. DEFINE frames == EventFrames(events)
<1>1. wire \in Seq(Frame)
  BY DEF TypeOK
<1>2. /\ frames \in Seq(Frame) /\ Len(frames) = Len(events)
      /\ \A i \in 1..Len(events) : frames[i].kind = "event" /\ frames[i].event = events[i]
  BY EventFramesOf
<1>. HIDE DEF frames
<1>3. /\ wire' \in Seq(Frame)
      /\ Len(events) \in Nat /\ m = n + Len(events)
      /\ \A i \in 1..n : wire'[i] = wire[i] /\ wire[i] \in Frame
      /\ \A i \in 1..m : i \notin 1..n => \E j \in 1..Len(events) : i = n + j
      /\ \A i \in 1..Len(events) : wire'[n + i].kind = "event" /\ wire'[n + i].event = events[i]
  <2>1. wire' = wire \o frames
    BY DEF frames
  <2>2. /\ wire' \in Seq(Frame)
        /\ Len(frames) \in Nat /\ m = n + Len(frames)
        /\ \A i \in 1..n : wire'[i] = wire[i] /\ wire[i] \in Frame
        /\ \A i \in 1..Len(frames) : wire'[n + i] = frames[i]
    BY <1>1, <1>2, <2>1, Sent
  <2>3. ASSUME NEW i \in 1..m, i \notin 1..n PROVE \E j \in 1..Len(events) : i = n + j
    <3>1. i - n \in 1..Len(events) /\ i = n + (i - n)
      BY <1>2, <2>2, <2>3
    <3>. QED BY <3>1
  <2>. QED BY <1>2, <2>2, <2>3
<1>4. \A e : \A k \in 0..n : Ahead(e, k) => Ahead(e, k)'
  BY <1>3 DEF Ahead, IsEvent, IsMark
<1>5. \A e : \A k \in n..m : Ahead(e, n) => Ahead(e, k)'
  BY <1>3 DEF Ahead, IsEvent, IsMark
<1>6. \A i \in 1..Len(events) : \A j \in 1..i : Ahead(events[j], n + i)'
  <2>. SUFFICES ASSUME NEW i \in 1..Len(events), NEW j \in 1..i PROVE Ahead(events[j], n + i)'
    OBVIOUS
  <2>1. j \in 1..Len(events) /\ n + j \in 1..(n + i)
    BY <1>3
  <2>2. IsEvent(n + j)' /\ wire'[n + j].event = events[j]
    BY <1>3, <2>1 DEF IsEvent
  <2>. QED BY <2>1, <2>2 DEF Ahead
<1>7. \A i \in 1..n : (IsMark(i)' <=> IsMark(i)) /\ (IsEvent(i)' <=> IsEvent(i))
  BY <1>3 DEF IsMark, IsEvent
<1>8. ASSUME NEW i \in 1..m, i \notin 1..n PROVE ~IsMark(i)' /\ IsEvent(i)'
  <2>1. PICK j \in 1..Len(events) : i = n + j
    BY <1>3, <1>8
  <2>. QED BY <1>3, <2>1 DEF IsMark, IsEvent
<1>9. \A k : Given(k)' <=> Given(k)
  BY DEF Given, log
<1>10. NoSkip'
  <2>. SUFFICES ASSUME NEW i \in 1..m
                PROVE  /\ IsEvent(i)' =>
                            /\ Given(wire'[i].event.seq)
                            /\ wire'[i].event.chat \in chats => wire'[i].event \in table
                            /\ \A e \in Shown : e.seq <= wire'[i].event.seq => Ahead(e, i)'
                       /\ IsMark(i)' =>
                            /\ Given(wire'[i].through)
                            /\ based => \A e \in Shown : e.seq <= wire'[i].through => Ahead(e, i - 1)'
    BY <1>9 DEF NoSkip, log, Shown
  <2>1. CASE i \in 1..n
    <3>1. wire'[i] = wire[i] /\ i \in 0..n /\ i - 1 \in 0..n
      BY <1>3, <2>1
    <3>. QED BY <1>4, <1>7, <2>1, <3>1 DEF NoSkip
  <2>2. CASE i \notin 1..n
    <3>1. PICK j \in 1..Len(events) : i = n + j
      BY <1>3, <2>2
    <3>2. wire'[i].event = events[j] /\ i \in n..m
      BY <1>3, <3>1
    <3>3. ~IsMark(i)'
      BY <1>8, <2>2
    <3>4. \A e \in Shown : e.seq <= events[j].seq => Ahead(e, i)'
      BY <1>5, <1>6, <3>1, <3>2 DEF Joins
    <3>. QED BY <3>1, <3>2, <3>3, <3>4 DEF Joins
  <2>. QED BY <2>1, <2>2
<1>11. MarksDivide'
  <2>1. \A e : \A i \in 1..n : Beyond(e, i) => Beyond(e, i)'
    BY <1>3, <1>7 DEF Beyond
  <2>2. \A i \in 1..m : IsMark(i)' => i \in 1..n /\ wire'[i] = wire[i]
    BY <1>3, <1>8
  <2>3. ~based /\ wire' # <<>> => ~IsEvent(1)'
    <3>1. wire # <<>> => 1 \in 1..n
      BY <1>1
    <3>. QED BY <1>7, <3>1 DEF MarksDivide
  <2>4. wire' # <<>> \/ wire = <<>>
    BY <1>3
  <2>. QED BY <1>7, <2>1, <2>2, <2>3, <2>4 DEF MarksDivide, log
<1>12. \A e : Beyond(e, n) /\ (\A j \in 1..Len(events) : e.seq > events[j].seq)
          => Beyond(e, m)'
  <2>. SUFFICES ASSUME NEW e, Beyond(e, n), \A j \in 1..Len(events) : e.seq > events[j].seq,
                       NEW i \in 1..m, IsEvent(i)'
                PROVE  e.seq > wire'[i].event.seq
    BY DEF Beyond
  <2>1. CASE i \in 1..n
    BY <1>3, <1>7, <2>1 DEF Beyond
  <2>2. CASE i \notin 1..n
    <3>1. PICK j \in 1..Len(events) : i = n + j
      BY <1>3, <2>2
    <3>. QED BY <1>3, <3>1
  <2>. QED BY <2>1, <2>2
<1>13. n \in 0..n /\ m \in n..m
  BY <1>3
<1>14. \A e : Ahead(e, n) => Ahead(e, m)'
  BY <1>5, <1>13
<1>15. \A j \in 1..Len(events) : Ahead(events[j], m)'
  <2>. SUFFICES ASSUME NEW j \in 1..Len(events) PROVE Ahead(events[j], m)'
    OBVIOUS
  <2>1. Len(events) \in 1..Len(events) /\ j \in 1..Len(events) /\ n + Len(events) = m
    BY <1>3
  <2>. QED BY <1>6, <2>1
<1>. QED BY <1>3, <1>10, <1>11, <1>12, <1>14, <1>15 DEF Joined

\* The mark of a subscription joins the wire behind all that it covers.
LEMMA SendMark ==
    ASSUME TypeOK, LogNumbers, NoSkip, MarksDivide, NEW through \in 0..MaxSeq,
           NEW n \in Nat, n = Len(wire), NEW m \in Nat, m = Len(wire'),
           wire' = wire \o <<[kind |-> "subscribed", through |-> through]>>,
           UNCHANGED <<log, last, based>>, phase \in {"open", "replay"}, phase' = "started",
           Given(through),
           based => \A e \in Shown : e.seq <= through => Ahead(e, n),
           \A e \in table : e.seq > through => Beyond(e, n),
           ~based => wire = <<>>
    PROVE  /\ NoSkip' /\ MarksDivide' /\ wire' \in Seq(Frame)
           /\ \A e : e.seq <= through => Ahead(e, m)'
<1>. DEFINE mark == [kind |-> "subscribed", through |-> through]
<1>1. wire \in Seq(Frame)
  BY DEF TypeOK
<1>2. mark \in Frame /\ mark.kind = "subscribed" /\ mark.through = through
  BY DEF Frame
<1>3. /\ wire' \in Seq(Frame) /\ m = n + 1
      /\ \A i \in 1..n : wire'[i] = wire[i] /\ wire[i] \in Frame
      /\ wire'[m] = mark
  <2>1. wire' = wire \o <<mark>>
    OBVIOUS
  <2>. HIDE DEF mark
  <2>. QED BY <1>1, <1>2, <2>1
<1>4. \A e : \A k \in 0..n : Ahead(e, k) => Ahead(e, k)'
  BY <1>3 DEF Ahead, IsEvent, IsMark
<1>5. \A e : e.seq <= through => Ahead(e, m)'
  <2>1. m \in 1..m /\ IsMark(m)' /\ wire'[m].through = through
    BY <1>2, <1>3 DEF IsMark
  <2>. QED BY <2>1 DEF Ahead
<1>6. \A i \in 1..n : /\ (IsMark(i)' <=> IsMark(i)) /\ (IsEvent(i)' <=> IsEvent(i))
                      /\ ~IsMark(i) /\ i # m /\ i \in 0..n /\ i - 1 \in 0..n
  BY <1>3 DEF IsMark, IsEvent, MarksDivide
<1>7. /\ ~IsEvent(m)' /\ IsMark(m)' /\ wire'[m].through = through /\ m - 1 = n
      /\ \A i \in 1..m : i = m \/ i \in 1..n
  BY <1>2, <1>3 DEF IsEvent, IsMark
<1>8. \A k : Given(k)' <=> Given(k)
  BY DEF Given, log
<1>9. NoSkip'
  <2>. SUFFICES ASSUME NEW i \in 1..m
                PROVE  /\ IsEvent(i)' =>
                            /\ Given(wire'[i].event.seq)
                            /\ wire'[i].event.chat \in chats => wire'[i].event \in table
                            /\ \A e \in Shown : e.seq <= wire'[i].event.seq => Ahead(e, i)'
                       /\ IsMark(i)' =>
                            /\ Given(wire'[i].through)
                            /\ based => \A e \in Shown : e.seq <= wire'[i].through => Ahead(e, i - 1)'
    BY <1>8 DEF NoSkip, log, Shown
  <2>1. CASE i \in 1..n
    BY <1>3, <1>4, <1>6, <2>1 DEF NoSkip
  <2>2. CASE i = m
    <3>1. based => \A e \in Shown : e.seq <= through => Ahead(e, n)'
      BY <1>4
    <3>. QED BY <1>7, <2>2, <3>1
  <2>. QED BY <1>7, <2>1, <2>2
<1>10. MarksDivide'
  <2>1. \A e : Beyond(e, n) => Beyond(e, m)'
    BY <1>3, <1>6, <1>7 DEF Beyond
  <2>2. ~based => ~IsEvent(1)'
    <3>1. wire = <<>> => n = 0
      OBVIOUS
    <3>. QED BY <1>3, <1>7, <3>1
  <2>3. wire' # <<>>
    BY <1>3
  <2>. QED BY <1>6, <1>7, <2>1, <2>2, <2>3 DEF MarksDivide, log
<1>. QED BY <1>3, <1>5, <1>9, <1>10

\* The error is the last frame of its socket.
LEMMA SendError ==
    ASSUME TypeOK, LogNumbers, NoSkip, MarksDivide, StreamError,
           UNCHANGED <<log, last, based>>
    PROVE  NoSkip' /\ MarksDivide' /\ wire' \in Seq(Frame)
<1>1. PICK n \in Nat : n = Len(wire)
  BY DEF TypeOK
<1>2. PICK m \in Nat : m = n + 1
  OBVIOUS
<1>3. wire \in Seq(Frame) /\ [kind |-> "error"] \in Frame
  BY DEF TypeOK, Frame
<1>4. /\ wire' \in Seq(Frame) /\ m = Len(wire')
      /\ \A i \in 1..n : wire'[i] = wire[i] /\ wire[i] \in Frame
      /\ wire'[m].kind = "error"
  BY <1>1, <1>2, <1>3 DEF StreamError, Send
<1>5. \A e : \A k \in 0..n : Ahead(e, k) => Ahead(e, k)'
  BY <1>2, <1>4 DEF Ahead, IsEvent, IsMark
<1>6. \A i \in 1..m : \/ i = m /\ ~IsMark(i)' /\ ~IsEvent(i)'
                      \/ /\ i \in 1..n /\ (IsMark(i)' <=> IsMark(i)) /\ (IsEvent(i)' <=> IsEvent(i))
                         /\ i \in 0..n /\ i - 1 \in 0..n /\ wire'[i] = wire[i]
  BY <1>2, <1>4 DEF IsMark, IsEvent
<1>7. \A k : Given(k)' <=> Given(k)
  BY DEF Given, log
<1>8. NoSkip'
  <2>. SUFFICES ASSUME NEW i \in 1..m
                PROVE  /\ IsEvent(i)' =>
                            /\ Given(wire'[i].event.seq)
                            /\ wire'[i].event.chat \in chats => wire'[i].event \in table
                            /\ \A e \in Shown : e.seq <= wire'[i].event.seq => Ahead(e, i)'
                       /\ IsMark(i)' =>
                            /\ Given(wire'[i].through)
                            /\ based => \A e \in Shown : e.seq <= wire'[i].through => Ahead(e, i - 1)'
    BY <1>4, <1>7 DEF NoSkip, log, Shown
  <2>. QED BY <1>1, <1>5, <1>6 DEF NoSkip
<1>9. MarksDivide'
  <2>1. \A e : \A i \in 1..n : Beyond(e, i) => Beyond(e, i)'
    BY <1>2, <1>4, <1>6 DEF Beyond
  <2>2. ~based => ~IsEvent(1)'
    <3>1. n # 0 => wire # <<>>
      BY <1>1, <1>3
    <3>. QED BY <1>2, <1>6, <3>1 DEF MarksDivide
  <2>3. phase' = "none" /\ Len(wire') = m
    BY <1>4 DEF StreamError, SocketEnds
  <2>. QED BY <1>1, <1>6, <2>1, <2>2, <2>3 DEF MarksDivide, log
<1>. QED BY <1>4, <1>8, <1>9

\* The browser has read a frame: everything else is one place nearer.
LEMMA Pop ==
    ASSUME TypeOK, NoSkip, MarksDivide, NEW n \in Nat, n + 1 = Len(wire),
           wire' = Tail(wire), UNCHANGED <<log, phase>>,
           last' \in Nat, last' >= last, based',
           IsEvent(1) \/ IsMark(1),
           IsEvent(1) => last' = last \/ last' = wire[1].event.seq,
           IsEvent(1) => last' >= wire[1].event.seq,
           IsMark(1) => last' >= wire[1].through
    PROVE  /\ NoSkip' /\ MarksDivide' /\ wire' \in Seq(Frame)
           /\ \A e \in table : Ahead(e, n + 1) => Ahead(e, n)'
           /\ \A e \in table : Beyond(e, n + 1) /\ ~IsMark(1) => Beyond(e, n)'
<1>1. /\ wire \in Seq(Frame) /\ wire # <<>> /\ last \in Nat
      /\ \A e \in table : e.seq \in Nat
  BY DEF TypeOK, LogTypeOK, Event
<1>2. /\ wire' \in Seq(Frame) /\ Len(wire') = n
      /\ \A i \in 1..n : wire'[i] = wire[i + 1] /\ i + 1 \in 1..(n + 1)
      /\ wire[1] \in Frame /\ 1 \in 1..(n + 1)
  BY <1>1
<1>3. \A i \in 1..n : (IsEvent(i)' <=> IsEvent(i + 1)) /\ (IsMark(i)' <=> IsMark(i + 1))
  BY <1>2 DEF IsEvent, IsMark
<1>4. \A k \in 0..n : \A e \in table : Ahead(e, k + 1) => Ahead(e, k)'
  <2>. SUFFICES ASSUME NEW k \in 0..n, NEW e \in table, Ahead(e, k + 1) PROVE Ahead(e, k)'
    OBVIOUS
  <2>1. CASE e.seq <= last
    BY <1>1, <2>1 DEF Ahead
  <2>2. ASSUME NEW j \in 1..(k + 1),
               \/ IsEvent(j) /\ wire[j].event = e
               \/ IsMark(j) /\ e.seq <= wire[j].through
        PROVE  Ahead(e, k)'
    <3>1. CASE j = 1
      <4>1. IsMark(1) => wire[1].through \in Nat
        BY <1>2, FrameOf DEF IsMark
      <4>2. e.seq <= last'
        BY <1>1, <2>2, <3>1, <4>1
      <4>. QED BY <4>2 DEF Ahead
    <3>2. CASE j # 1
      <4>1. PICK i \in 1..k : j = i + 1
        <5>1. j - 1 \in 1..k /\ j = (j - 1) + 1
          BY <3>2
        <5>. QED BY <5>1
      <4>2. i \in 1..n /\ wire'[i] = wire[j]
        BY <1>2, <4>1
      <4>3. \/ IsEvent(i)' /\ wire'[i].event = e
            \/ IsMark(i)' /\ e.seq <= wire'[i].through
        BY <1>3, <2>2, <4>1, <4>2
      <4>. QED BY <4>3 DEF Ahead
    <3>. QED BY <3>1, <3>2
  <2>. QED BY <2>1, <2>2 DEF Ahead
<1>5. \A k \in 0..n : \A e \in table : Beyond(e, k + 1) /\ ~IsMark(1) => Beyond(e, k)'
  <2>. SUFFICES ASSUME NEW k \in 0..n, NEW e \in table, Beyond(e, k + 1), ~IsMark(1)
                PROVE  Beyond(e, k)'
    OBVIOUS
  <2>1. 1 \in 1..(k + 1) /\ e.seq > last'
    BY DEF Beyond
  <2>2. \A j \in 1..k : IsEvent(j)' => e.seq > wire'[j].event.seq
    <3>. SUFFICES ASSUME NEW j \in 1..k, IsEvent(j)' PROVE e.seq > wire'[j].event.seq
      OBVIOUS
    <3>1. j + 1 \in 1..(k + 1) /\ wire'[j] = wire[j + 1] /\ IsEvent(j + 1)
      BY <1>2, <1>3
    <3>. QED BY <3>1 DEF Beyond
  <2>. QED BY <2>1, <2>2 DEF Beyond
<1>6. \A k : Given(k)' <=> Given(k)
  BY DEF Given, log
<1>7. ASSUME NEW i \in 1..n, IsMark(i)'
      PROVE  IsMark(i + 1) /\ ~IsMark(1) /\ based
  <2>1. IsMark(i + 1) /\ i + 1 \in 1..Len(wire) /\ 1 \in 1..Len(wire) /\ i + 1 # 1
    BY <1>2, <1>3, <1>7
  <2>2. ~IsMark(1)
    BY <2>1 DEF MarksDivide
  <2>. QED BY <1>1, <2>1, <2>2 DEF MarksDivide, TypeOK
<1>8. NoSkip'
  <2>. SUFFICES ASSUME NEW i \in 1..n
                PROVE  /\ IsEvent(i)' =>
                            /\ Given(wire'[i].event.seq)
                            /\ wire'[i].event.chat \in chats => wire'[i].event \in table
                            /\ \A e \in Shown : e.seq <= wire'[i].event.seq => Ahead(e, i)'
                       /\ IsMark(i)' =>
                            /\ Given(wire'[i].through)
                            /\ based' => \A e \in Shown : e.seq <= wire'[i].through => Ahead(e, i - 1)'
    BY <1>2, <1>6 DEF NoSkip, log, Shown
  <2>1. i + 1 \in 1..Len(wire) /\ wire'[i] = wire[i + 1] /\ i \in 0..n /\ i - 1 \in 0..n
        /\ (i - 1) + 1 = i /\ (i + 1) - 1 = i
    BY <1>2
  <2>2. \A e \in Shown : e \in table
    BY DEF Shown
  <2>3. CASE IsEvent(i)'
    <3>1. IsEvent(i + 1) /\ ~IsMark(i)'
      BY <1>3, <2>3 DEF IsEvent, IsMark
    <3>2. \A e \in Shown : e.seq <= wire[i + 1].event.seq => Ahead(e, i + 1)
      BY <2>1, <3>1 DEF NoSkip
    <3>. QED BY <1>4, <2>1, <2>2, <3>1, <3>2 DEF NoSkip
  <2>4. CASE IsMark(i)'
    <3>1. IsMark(i + 1) /\ based /\ ~IsEvent(i)'
      BY <1>7, <2>4 DEF IsEvent, IsMark
    <3>2. \A e \in Shown : e.seq <= wire[i + 1].through => Ahead(e, i)
      BY <2>1, <3>1 DEF NoSkip
    <3>3. \A e \in table : Ahead(e, i) => Ahead(e, i - 1)'
      BY <1>4, <2>1
    <3>. QED BY <2>1, <2>2, <3>1, <3>2, <3>3 DEF NoSkip
  <2>. QED BY <2>3, <2>4
<1>9. MarksDivide'
  <2>1. ASSUME NEW i \in 1..n, IsMark(i)', NEW e \in table, e.seq > wire'[i].through
        PROVE  Beyond(e, i)'
    <3>1. IsMark(i + 1) /\ ~IsMark(1) /\ i \in 0..n
      BY <1>7, <2>1
    <3>2. Beyond(e, i + 1)
      BY <1>2, <2>1, <3>1 DEF MarksDivide
    <3>. QED BY <1>5, <3>1, <3>2
  <2>2. ASSUME NEW i \in 1..n, NEW j \in 1..n, IsMark(i)', IsMark(j)'
        PROVE  i = j
    BY <1>2, <1>7, <2>2 DEF MarksDivide
  <2>3. phase \in {"open", "replay"} => \A i \in 1..n : ~IsMark(i)'
    BY <1>2, <1>7 DEF MarksDivide
  <2>4. based' /\ phase' = phase /\ table' = table /\ Len(wire') = n
    BY <1>2 DEF log
  <2>5. \A i \in 1..n : IsMark(i)' => \A e \in table : e.seq > wire'[i].through => Beyond(e, i)'
    BY <2>1
  <2>. QED BY <2>2, <2>3, <2>4, <2>5 DEF MarksDivide
<1>10. n \in 0..n
  OBVIOUS
<1>11. \A e \in table : Ahead(e, n + 1) => Ahead(e, n)'
  BY <1>4, <1>10
<1>12. \A e \in table : Beyond(e, n + 1) /\ ~IsMark(1) => Beyond(e, n)'
  BY <1>5, <1>10
<1>. QED BY <1>2, <1>8, <1>9, <1>11, <1>12

-----------------------------------------------------------------------------
(* The log moves.                                                          *)

\* Numbers that were given out are smaller than the next one.
LEMMA GivenBelow ==
    ASSUME saving = NoEvent, NEW n, Given(n)
    PROVE  n < nextSeq
BY DEF Given

\* A new row lies beyond all that was given out: what was sent or read stays complete.
LEMMA NewRow ==
    ASSUME StreamInv, NEW c \in Chat \cup {Meta}, SaveEvent(c), owed' \in SUBSET Chat,
           UNCHANGED <<socket, cursor, history>>
    PROVE  StreamInv'
<1>1. PICK e \in Event :
      /\ saving = NoEvent /\ e.seq = nextSeq /\ e.chat = c
      /\ table' = table \cup {e} /\ saving' = e /\ saving' # NoEvent
      /\ UNCHANGED <<chats, nextSeq, failed>> /\ nextSeq \in Nat \ {0}
  <2>1. [seq |-> nextSeq, chat |-> c] \in Event /\ nextSeq \in Nat \ {0} /\ NoEvent \notin Event
    BY DEF StreamInv, TypeOK, LogTypeOK, SaveEvent, Event
  <2>. QED BY <2>1 DEF SaveEvent
<1>2. UNCHANGED <<phase, fwd, woken, ring, lagged, cur, thr, replaySeq, wire, online, fatal,
                  based, base, last, view, loaded, low, answer>>
  BY DEF socket, tasks, channel, replay, cursor, history
<1>3. \A n : Given(n) => n < nextSeq /\ Given(n)'
  BY <1>1, GivenBelow DEF Given
<1>4. /\ TypeOK /\ LogTypeOK /\ \A d \in table : d.seq \in Nat /\ Given(d.seq)
      /\ NoEvent \notin table
  BY DEF StreamInv, TypeOK, LogTypeOK, LogNumbers, Event
<1>5. \A d \in Shown' : d \in Shown \/ d = e
  BY <1>1 DEF Shown
<1>6. TypeOK'
  BY <1>1, <1>2, <1>4 DEF TypeOK, LogTypeOK
<1>7. LogNumbers'
  <2>1. \A d \in table' : Given(d.seq)'
    BY <1>1, <1>3, <1>4 DEF Given
  <2>2. \A d, f \in table' : d.seq = f.seq => d = f
    BY <1>1, <1>3, <1>4 DEF StreamInv, LogNumbers
  <2>3. ASSUME "delete" \notin Faults, NEW n \in 1..MaxSeq, Given(n)'
        PROVE  \E d \in table' : d.seq = n
    <3>1. Given(n) \/ n = nextSeq
      BY <1>1, <2>3 DEF Given
    <3>. QED BY <1>1, <2>3, <3>1 DEF StreamInv, LogNumbers
  <2>. QED BY <1>1, <2>1, <2>2, <2>3 DEF LogNumbers
<1>8. ChannelOrder'
  BY <1>1, <1>2 DEF StreamInv, ChannelOrder
<1>9. MarksGiven'
  BY <1>2, <1>3 DEF StreamInv, MarksGiven
<1>10. \A d, k : Ahead(d, k) <=> Ahead(d, k)'
  BY <1>2 DEF Ahead, IsEvent, IsMark
<1>11. \A i \in 1..Len(wire) : (IsEvent(i)' <=> IsEvent(i)) /\ (IsMark(i)' <=> IsMark(i))
  BY <1>2 DEF IsEvent, IsMark
<1>12. NoSkip'
  <2>. SUFFICES ASSUME NEW i \in 1..Len(wire)
                PROVE  /\ IsEvent(i) =>
                            /\ Given(wire[i].event.seq)'
                            /\ wire[i].event.chat \in chats => wire[i].event \in table'
                            /\ \A d \in Shown' : d.seq <= wire[i].event.seq => Ahead(d, i)
                       /\ IsMark(i) =>
                            /\ Given(wire[i].through)'
                            /\ based => \A d \in Shown' : d.seq <= wire[i].through => Ahead(d, i - 1)
    BY <1>1, <1>2, <1>10, <1>11 DEF NoSkip
  <2>1. wire[i] \in Frame
    BY <1>4 DEF TypeOK
  <2>2. CASE IsEvent(i)
    <3>1. /\ Given(wire[i].event.seq) /\ wire[i].event.seq \in Nat
          /\ wire[i].event.chat \in chats => wire[i].event \in table
          /\ \A d \in Shown : d.seq <= wire[i].event.seq => Ahead(d, i)
      BY <2>1, <2>2, FrameOf DEF StreamInv, NoSkip, IsEvent, Event
    <3>2. ~(e.seq <= wire[i].event.seq)
      BY <1>1, <1>3, <3>1
    <3>3. ~IsMark(i)
      BY <2>2 DEF IsEvent, IsMark
    <3>4. \A d \in Shown' : d.seq <= wire[i].event.seq => Ahead(d, i)
      BY <1>5, <3>1, <3>2
    <3>5. Given(wire[i].event.seq)'
      BY <1>2, <1>3, <3>1
    <3>6. wire[i].event.chat \in chats => wire[i].event \in table'
      BY <1>1, <3>1
    <3>. QED BY <3>3, <3>4, <3>5, <3>6
  <2>3. CASE IsMark(i)
    <3>1. /\ Given(wire[i].through) /\ wire[i].through \in Nat
          /\ based => \A d \in Shown : d.seq <= wire[i].through => Ahead(d, i - 1)
      BY <2>1, <2>3, FrameOf DEF StreamInv, NoSkip, IsMark
    <3>2. ~(e.seq <= wire[i].through)
      BY <1>1, <1>3, <3>1
    <3>3. ~IsEvent(i)
      BY <2>3 DEF IsEvent, IsMark
    <3>4. based => \A d \in Shown' : d.seq <= wire[i].through => Ahead(d, i - 1)
      BY <1>5, <3>1, <3>2
    <3>5. Given(wire[i].through)'
      BY <1>2, <1>3, <3>1
    <3>. QED BY <3>3, <3>4, <3>5
  <2>. QED BY <2>2, <2>3
<1>13. \A k \in Nat : k <= Len(wire) => Beyond(e, k)'
  <2>. SUFFICES ASSUME NEW k \in Nat, k <= Len(wire), NEW j \in 1..k, IsEvent(j)
                PROVE  nextSeq > wire[j].event.seq
    <3>1. nextSeq > last
      BY <1>3, <1>4 DEF StreamInv, MarksGiven, TypeOK
    <3>. QED BY <1>1, <1>2, <3>1 DEF Beyond, IsEvent
  <2>1. j \in 1..Len(wire) /\ wire[j] \in Frame
    BY <1>4 DEF TypeOK
  <2>2. Given(wire[j].event.seq) /\ wire[j].event.seq \in Nat
    BY <2>1, FrameOf DEF StreamInv, NoSkip, IsEvent, Event
  <2>. QED BY <1>1, <1>3, <2>2
<1>14. \A d, k : Beyond(d, k) => Beyond(d, k)'
  BY <1>2 DEF Beyond, IsEvent
<1>15. MarksDivide'
  <2>1. Len(wire) \in Nat
    BY <1>4 DEF TypeOK
  <2>2. ASSUME NEW i \in 1..Len(wire), IsMark(i), NEW d \in table', d.seq > wire[i].through
        PROVE  Beyond(d, i)'
    BY <1>1, <1>13, <1>14, <2>1, <2>2 DEF StreamInv, MarksDivide
  <2>3. \A i \in 1..Len(wire') : IsMark(i)' =>
           \A d \in table' : d.seq > wire'[i].through => Beyond(d, i)'
    BY <1>2, <1>11, <2>2
  <2>4. ~based' /\ wire' # <<>> => ~IsEvent(1)'
    BY <1>2 DEF StreamInv, MarksDivide, IsEvent
  <2>. QED BY <1>2, <1>11, <2>3, <2>4 DEF StreamInv, MarksDivide
<1>16. TasksPlace'
  BY <1>2, Untouched DEF StreamInv
<1>17. \A d : Coming(d) /\ d \in table => Coming(d)'
  BY <1>1, <1>2, <1>4 DEF Coming, LogTypeOK
<1>18. ServerPosition'
  <2>1. Coming(e)'
    BY <1>1 DEF Coming
  <2>2. Len(wire) \in Nat /\ cur \in Nat /\ thr \in Nat /\ replaySeq \in Nat
    BY <1>4 DEF TypeOK
  <2>3. ~(e.seq < cur) /\ ~(e.seq <= replaySeq)
    <3>1. cur = 0 \/ cur - 1 < nextSeq
      BY <1>3 DEF StreamInv, MarksGiven
    <3>2. replaySeq < nextSeq
      BY <1>3 DEF StreamInv, MarksGiven
    <3>. QED BY <1>1, <2>2, <3>1, <3>2
  <2>4. \A d \in Shown : d \in table
    BY DEF Shown
  <2>5. CASE phase = "replay"
    <3>1. \A d \in Shown' : d.seq < cur => Ahead(d, Len(wire))'
      BY <1>2, <1>5, <1>10, <2>3, <2>5 DEF StreamInv, ServerPosition
    <3>2. \A d \in table' : d.seq > thr => Beyond(d, Len(wire))' /\ Coming(d)'
      <4>1. \A d \in table : d.seq > thr => Beyond(d, Len(wire)) /\ Coming(d)
        BY <2>5 DEF StreamInv, ServerPosition
      <4>2. Beyond(e, Len(wire))'
        BY <1>2, <1>13, <2>2
      <4>3. \A d \in table : Beyond(d, Len(wire)) => Beyond(d, Len(wire))'
        BY <1>2, <1>14
      <4>. QED BY <1>1, <1>17, <2>1, <4>1, <4>2, <4>3
    <3>. QED BY <1>2, <2>5, <3>1, <3>2 DEF ServerPosition
  <2>6. CASE phase \in {"started", "done"}
    <3>1. \A d \in Shown' : d.seq <= replaySeq => Ahead(d, Len(wire))'
      BY <1>2, <1>5, <1>10, <2>3, <2>6 DEF StreamInv, ServerPosition
    <3>2. fwd # "lag" => \A d \in Shown' : d.seq > replaySeq => Coming(d)'
      BY <1>5, <1>17, <2>1, <2>4, <2>6 DEF StreamInv, ServerPosition
    <3>3. fwd = "lag" => \A d \in Shown' : d.seq > thr => Coming(d)'
      BY <1>5, <1>17, <2>1, <2>4, <2>6 DEF StreamInv, ServerPosition
    <3>. QED BY <1>2, <2>6, <3>1, <3>2, <3>3 DEF ServerPosition
  <2>. QED BY <1>2, <2>5, <2>6 DEF ServerPosition
<1>19. \A x \in Chat : \A n \in Rows(x)' : n \in Rows(x) \/ n = nextSeq
  BY <1>1 DEF Rows
<1>20. last < nextSeq /\ last \in Nat
  BY <1>3, <1>4 DEF StreamInv, MarksGiven, TypeOK
<1>21. HistoryHolds'
  <2>1. \A x \in Chat : Rows(x) \subseteq Rows(x)'
    BY <1>1 DEF Rows
  <2>2. \A x \in chats : x \in Chat
    BY <1>4 DEF LogTypeOK
  <2>3. \A x \in Chat : \A n \in Rows(x)' : n <= last => n \in Rows(x)
    BY <1>1, <1>19, <1>20
  <2>4. \A x \in Chat : PageLow(x)' = PageLow(x)
    BY <1>2 DEF PageLow
  <2>5. \A x \in chats : \A n \in Rows(x)' : base < n /\ n <= last => n \in view[x]
    BY <2>2, <2>3 DEF StreamInv, HistoryHolds
  <2>6. ASSUME NEW x \in chats, answer[x].sent
        PROVE  /\ answer[x].seqs \subseteq Rows(x)'
               /\ \A n \in answer[x].seqs : n <= last
               /\ \A n \in Rows(x)' : PageLow(x) <= n /\ n <= last
                     => n \in view[x] \cup answer[x].seqs
    BY <2>1, <2>2, <2>3, <2>6 DEF StreamInv, HistoryHolds
  <2>7. \A x \in chats : answer[x].sent =>
               /\ answer'[x].seqs \subseteq Rows(x)'
               /\ \A n \in answer'[x].seqs : n <= last'
               /\ \A n \in Rows(x)' : PageLow(x)' <= n /\ n <= last'
                     => n \in view'[x] \cup answer'[x].seqs
    BY <1>2, <2>2, <2>4, <2>6
  <2>. QED BY <1>1, <1>2, <2>4, <2>5, <2>7 DEF StreamInv, HistoryHolds
<1>22. NoGap'
  <2>1. \A x \in loaded \cap chats : \A n \in Rows(x)' : low[x] <= n /\ n <= last => n \in view[x]
    BY <1>1, <1>4, <1>19, <1>20 DEF StreamInv, NoGap, LogTypeOK
  <2>. QED BY <1>1, <1>2, <2>1 DEF NoGap
<1>. QED BY <1>6, <1>7, <1>8, <1>9, <1>12, <1>15, <1>16, <1>18, <1>21, <1>22 DEF StreamInv

\* A refused row closes the log; a page sees nothing of it yet.
LEMMA KeepAppendFails ==
    ASSUME StreamInv, AppendFails
    PROVE  StreamInv'
<1>1. /\ UNCHANGED <<table, chats, owed, nextSeq, saving>> /\ failed' \in BOOLEAN
      /\ UNCHANGED <<phase, fwd, woken, ring, lagged, cur, thr, replaySeq, wire, online, fatal,
                     based, base, last, view, loaded, low, answer>>
  BY DEF AppendFails, SaveFails, socket, tasks, channel, replay, cursor, history
<1>2. TypeOK'
  BY <1>1 DEF StreamInv, TypeOK, LogTypeOK
<1>. QED BY <1>1, <1>2, Untouched DEF StreamInv

\* A deletion takes the rows of its chat from everybody's sight at once.
LEMMA KeepDeleteChat ==
    ASSUME StreamInv, NEW c \in Chat, DeleteChat(c)
    PROVE  StreamInv'
<1>1. /\ "delete" \in Faults /\ c \in chats
      /\ chats' = chats \ {c} /\ table' = {e \in table : e.chat # c} /\ owed' = owed \cup {c}
      /\ UNCHANGED <<nextSeq, saving, failed>>
  BY DEF DeleteChat, DeleteEvents
<1>2. UNCHANGED <<phase, fwd, woken, ring, lagged, cur, thr, replaySeq, wire, online, fatal,
                  based, base, last, view, loaded, low, answer>>
  BY DEF DeleteChat, socket, tasks, channel, replay, cursor, history
<1>3. /\ \A e \in table' : e \in table
      /\ \A e \in table : e.chat \in chats' => e \in table'
      /\ \A x \in chats' : x \in chats
      /\ \A e \in Shown' : e \in Shown
  BY <1>1 DEF Shown
<1>4. \A x \in chats' : Rows(x)' = Rows(x)
  BY <1>1 DEF Rows
<1>5. \A n : Given(n)' <=> Given(n)
  BY <1>1 DEF Given
<1>6. TypeOK'
  BY <1>1, <1>2 DEF StreamInv, TypeOK, LogTypeOK
<1>7. LogNumbers'
  BY <1>1, <1>3, <1>5 DEF StreamInv, LogNumbers
<1>8. ChannelOrder'
  BY <1>1, <1>2, <1>3 DEF StreamInv, ChannelOrder
<1>9. MarksGiven'
  BY <1>2, <1>5 DEF StreamInv, MarksGiven
<1>10. \A d, k : (Ahead(d, k) <=> Ahead(d, k)') /\ (Beyond(d, k) <=> Beyond(d, k)')
  BY <1>2 DEF Ahead, Beyond, IsEvent, IsMark
<1>11. \A i : (IsEvent(i)' <=> IsEvent(i)) /\ (IsMark(i)' <=> IsMark(i))
  BY <1>2 DEF IsEvent, IsMark
<1>12. NoSkip'
  <2>. SUFFICES ASSUME NEW i \in 1..Len(wire)
                PROVE  /\ IsEvent(i) =>
                            /\ Given(wire[i].event.seq)
                            /\ wire[i].event.chat \in chats' => wire[i].event \in table'
                            /\ \A d \in Shown' : d.seq <= wire[i].event.seq => Ahead(d, i)
                       /\ IsMark(i) =>
                            /\ Given(wire[i].through)
                            /\ based => \A d \in Shown' : d.seq <= wire[i].through => Ahead(d, i - 1)
    BY <1>2, <1>5, <1>10, <1>11 DEF NoSkip
  <2>. QED BY <1>3 DEF StreamInv, NoSkip
<1>13. MarksDivide'
  BY <1>2, <1>3, <1>10, <1>11 DEF StreamInv, MarksDivide
<1>14. TasksPlace'
  BY <1>2, Untouched DEF StreamInv
<1>15. \A d : Coming(d)' <=> Coming(d)
  BY <1>1, <1>2 DEF Coming
<1>16. ServerPosition'
  BY <1>2, <1>3, <1>10, <1>15 DEF StreamInv, ServerPosition
<1>17. \A x : PageLow(x)' = PageLow(x)
  BY <1>2 DEF PageLow
<1>18. HistoryHolds'
  BY <1>2, <1>3, <1>4, <1>17 DEF StreamInv, HistoryHolds
<1>19. NoGap'
  BY <1>2, <1>3, <1>4 DEF StreamInv, NoGap
<1>. QED BY <1>6, <1>7, <1>8, <1>9, <1>12, <1>13, <1>14, <1>16, <1>18, <1>19 DEF StreamInv

\* The broadcast follows the row; a full channel remembers that it lost one.
LEMMA KeepPublish ==
    ASSUME StreamInv, Publish
    PROVE  StreamInv'
<1>1. /\ saving \in Event /\ saving # NoEvent /\ saving.seq = nextSeq /\ saving.seq \in 1..MaxSeq
      /\ nextSeq' = nextSeq + 1 /\ saving' = NoEvent /\ nextSeq \in Nat
      /\ UNCHANGED <<table, chats, owed, failed>>
      /\ saving.chat \in chats => saving \in table
  BY DEF Publish, PublishEvent, StreamInv, TypeOK, LogTypeOK, LogNumbers, Event
<1>2. UNCHANGED <<phase, fwd, woken, cur, thr, replaySeq, wire, online, fatal,
                  based, base, last, view, loaded, low, answer>>
  BY DEF Publish, tasks, replay, cursor, history
<1>3. TypeOK /\ ring \in Seq(Event) /\ Len(ring) <= RingSize /\ lagged \in BOOLEAN
  BY DEF StreamInv, TypeOK
<1>4. \/ ring' = ring /\ lagged' = lagged /\ phase = "none"
      \/ ring' = Append(Tail(ring), saving) /\ lagged' = TRUE /\ ring # <<>>
      \/ ring' = Append(ring, saving) /\ lagged' = lagged /\ Len(ring) < RingSize /\ phase # "none"
  <2>1. RingSize \in Nat /\ RingSize # 0 /\ Len(ring) \in Nat
    BY <1>3, StreamAssumption
  <2>2. /\ Len(ring) = RingSize => ring # <<>>
        /\ Len(ring) # RingSize => Len(ring) < RingSize
    BY <1>3, <2>1
  <2>. QED BY <2>2 DEF Publish, Offer, channel
<1>5. \A n \in Nat : Given(n)' <=> Given(n)
  BY <1>1 DEF Given
<1>6. /\ ring' \in Seq(Event) /\ Len(ring') <= RingSize /\ lagged' \in BOOLEAN
      /\ \/ ring' = ring
         \/ \E k \in {0, 1} : /\ Len(ring') + k = Len(ring) + 1 /\ ring'[Len(ring')] = saving
                              /\ \A i \in 1..Len(ring') : i # Len(ring') =>
                                    ring'[i] = ring[i + k] /\ i + k \in 1..Len(ring)
  <2>1. CASE ring' = Append(Tail(ring), saving) /\ ring # <<>>
    <3>1. /\ Tail(ring) \in Seq(Event) /\ Len(Tail(ring)) + 1 = Len(ring)
          /\ \A i \in 1..Len(Tail(ring)) : Tail(ring)[i] = ring[i + 1] /\ i + 1 \in 1..Len(ring)
      BY <1>3, <2>1
    <3>2. /\ ring' \in Seq(Event) /\ Len(ring') = Len(Tail(ring)) + 1 /\ ring'[Len(ring')] = saving
          /\ \A i \in 1..Len(Tail(ring)) : ring'[i] = Tail(ring)[i]
      BY <1>1, <2>1, <3>1
    <3>3. \A i \in 1..Len(ring') : i # Len(ring') => i \in 1..Len(Tail(ring))
      BY <3>2
    <3>. QED BY <1>3, <1>4, <3>1, <3>2, <3>3
  <2>2. CASE ring' = Append(ring, saving) /\ Len(ring) < RingSize
    <3>1. /\ ring' \in Seq(Event) /\ Len(ring') = Len(ring) + 1 /\ ring'[Len(ring')] = saving
          /\ \A i \in 1..Len(ring) : ring'[i] = ring[i]
      BY <1>1, <1>3, <2>2
    <3>2. \A i \in 1..Len(ring') : i # Len(ring') => i + 0 \in 1..Len(ring) /\ i + 0 = i
      BY <3>1
    <3>3. Len(ring') + 0 = Len(ring) + 1 /\ Len(ring') <= RingSize
      BY <1>3, <2>2, <3>1
    <3>. QED BY <1>3, <1>4, <3>1, <3>2, <3>3
  <2>. QED BY <1>3, <1>4, <2>1, <2>2
<1>7. TypeOK'
  BY <1>1, <1>2, <1>6 DEF StreamInv, TypeOK, LogTypeOK
<1>8. LogNumbers'
  <2>1. \A n \in 1..MaxSeq : n \in Nat
    OBVIOUS
  <2>2. \A e \in table : e.seq \in Nat
    BY <1>3 DEF TypeOK, LogTypeOK, Event
  <2>. QED BY <1>1, <1>5, <2>1, <2>2 DEF StreamInv, LogNumbers
<1>9. ChannelOrder'
  <2>1. \A i \in 1..Len(ring) : /\ ring[i] \in Event /\ ring[i].seq \in Nat
                                /\ ring[i].seq < nextSeq
                                /\ ring[i].chat \in chats => ring[i] \in table
    <3>1. \A i \in 1..Len(ring) : ring[i] \in Event
      BY <1>3
    <3>2. \A e \in Event : e.seq \in Nat
      BY DEF Event
    <3>. QED BY <3>1, <3>2 DEF StreamInv, ChannelOrder
  <2>2. CASE ring' = ring
    BY <1>1, <2>1, <2>2 DEF StreamInv, ChannelOrder
  <2>3. ASSUME NEW k \in {0, 1}, NEW m \in Nat, m = Len(ring'),
               m + k = Len(ring) + 1, ring'[m] = saving,
               \A i \in 1..m : i # m => ring'[i] = ring[i + k] /\ i + k \in 1..Len(ring)
        PROVE  ChannelOrder'
    <3>1. \A i \in 1..m : /\ ring'[i].seq < nextSeq'
                          /\ ring'[i].chat \in chats => ring'[i] \in table
      <4>. SUFFICES ASSUME NEW i \in 1..m
                    PROVE  /\ ring'[i].seq < nextSeq'
                           /\ ring'[i].chat \in chats => ring'[i] \in table
        OBVIOUS
      <4>1. CASE i = m
        BY <1>1, <2>3, <4>1
      <4>2. CASE i # m
        BY <1>1, <2>1, <2>3, <4>2
      <4>. QED BY <4>1, <4>2
    <3>2. ASSUME NEW i \in 1..m, NEW j \in 1..m, i < j
          PROVE  ring'[i].seq < ring'[j].seq
      <4>1. i # m /\ ring'[i] = ring[i + k] /\ i + k \in 1..Len(ring)
        BY <2>3, <3>2
      <4>2. CASE j = m
        BY <1>1, <2>1, <2>3, <4>1, <4>2
      <4>3. CASE j # m
        <5>1. ring'[j] = ring[j + k] /\ j + k \in 1..Len(ring) /\ i + k < j + k
          BY <2>3, <3>2, <4>3
        <5>. QED BY <4>1, <5>1 DEF StreamInv, ChannelOrder
      <4>. QED BY <4>2, <4>3
    <3>. QED BY <1>1, <2>3, <3>1, <3>2 DEF ChannelOrder
  <2>4. Len(ring') \in Nat
    BY <1>6
  <2>. QED BY <1>6, <2>2, <2>3, <2>4
<1>10. MarksGiven'
  <2>1. last \in Nat /\ base \in Nat /\ thr \in Nat /\ replaySeq \in Nat /\ cur \in Nat
    BY <1>3 DEF TypeOK
  <2>2. cur = 0 \/ cur - 1 \in Nat
    BY <2>1
  <2>. QED BY <1>2, <1>5, <2>1, <2>2 DEF StreamInv, MarksGiven
<1>11. NoSkip'
  <2>1. \A d, k : Ahead(d, k) <=> Ahead(d, k)'
    BY <1>2 DEF Ahead, IsEvent, IsMark
  <2>2. \A i : (IsEvent(i)' <=> IsEvent(i)) /\ (IsMark(i)' <=> IsMark(i))
    BY <1>2 DEF IsEvent, IsMark
  <2>3. \A i \in 1..Len(wire) : /\ IsEvent(i) => wire[i].event.seq \in Nat
                                /\ IsMark(i) => wire[i].through \in Nat
    <3>1. \A i \in 1..Len(wire) : wire[i] \in Frame
      BY <1>3 DEF TypeOK
    <3>. QED BY <3>1, FrameOf DEF IsEvent, IsMark, Event
  <2>. QED BY <1>1, <1>2, <1>5, <2>1, <2>2, <2>3 DEF StreamInv, NoSkip, Shown
<1>12. ServerPosition'
  <2>1. \A d, k : (Ahead(d, k) <=> Ahead(d, k)') /\ (Beyond(d, k) <=> Beyond(d, k)')
    BY <1>2 DEF Ahead, Beyond, IsEvent, IsMark
  <2>2. ASSUME phase # "none", NEW d, Coming(d) PROVE Coming(d)'
    <3>1. CASE ring' = Append(Tail(ring), saving) /\ lagged' = TRUE
      BY <3>1 DEF Coming
    <3>2. CASE ring' = Append(ring, saving) /\ lagged' = lagged
      <4>1. /\ \A i \in 1..Len(ring) : ring'[i] = ring[i] /\ i \in 1..Len(ring')
            /\ Len(ring) + 1 \in 1..Len(ring') /\ ring'[Len(ring) + 1] = saving
        BY <1>1, <1>3, <3>2
      <4>. QED BY <2>2, <3>2, <4>1 DEF Coming
    <3>. QED BY <1>4, <2>2, <3>1, <3>2
  <2>3. Shown' = Shown
    BY <1>1 DEF Shown
  <2>. QED BY <1>1, <1>2, <2>1, <2>2, <2>3 DEF StreamInv, ServerPosition
<1>13. TasksPlace'
  BY <1>2, <1>4 DEF StreamInv, TasksPlace
<1>14. MarksDivide' /\ HistoryHolds' /\ NoGap'
  BY <1>1, <1>2, Untouched DEF StreamInv
<1>. QED BY <1>7, <1>8, <1>9, <1>10, <1>11, <1>12, <1>13, <1>14 DEF StreamInv

-----------------------------------------------------------------------------
(* The tasks of the socket.                                                *)

\* The log failed: the error goes out and every task of the socket ends.
LEMMA KeepStreamError ==
    ASSUME StreamInv, phase # "none", StreamError, UNCHANGED <<log, cursor, history>>
    PROVE  StreamInv'
<1>1. UNCHANGED <<table, chats, owed, nextSeq, saving, failed, online, fatal, based, base, last,
                  view, loaded, low, answer>>
  BY DEF log, cursor, history
<1>2. /\ phase' = "none" /\ fwd' = "arm" /\ woken' = FALSE /\ ring' = <<>> /\ lagged' = FALSE
      /\ cur' = 0 /\ thr' = 0 /\ replaySeq' = 0
  BY DEF StreamError, SocketEnds
<1>3. NoSkip' /\ MarksDivide' /\ wire' \in Seq(Frame)
  BY <1>1, SendError DEF StreamInv
<1>4. TypeOK'
  <2>1. <<>> \in Seq(Event) /\ Len(<<>>) <= RingSize
    BY StreamAssumption
  <2>2. 0 \in 0..MaxSeq /\ 0 \in 0..(MaxSeq + 1)
    BY LogAssumption
  <2>3. LogTypeOK'
    BY <1>1 DEF StreamInv, TypeOK, LogTypeOK
  <2>4. /\ ring' \in Seq(Event) /\ Len(ring') <= RingSize
        /\ cur' \in 0..(MaxSeq + 1) /\ thr' \in 0..MaxSeq /\ replaySeq' \in 0..MaxSeq
    BY <1>2, <2>1, <2>2
  <2>. QED BY <1>1, <1>2, <1>3, <2>3, <2>4 DEF StreamInv, TypeOK
<1>5. online
  BY DEF StreamInv, TasksPlace
<1>6. TasksPlace' /\ ServerPosition' /\ ChannelOrder'
  BY <1>1, <1>2, <1>5 DEF TasksPlace, ServerPosition, ChannelOrder
<1>7. MarksGiven'
  <2>1. nextSeq \in Nat \ {0}
    BY DEF StreamInv, TypeOK, LogTypeOK
  <2>. QED BY <1>1, <1>2, <2>1 DEF StreamInv, MarksGiven, Given
<1>8. LogNumbers' /\ HistoryHolds' /\ NoGap'
  BY <1>1, Untouched DEF StreamInv
<1>. QED BY <1>3, <1>4, <1>6, <1>7, <1>8 DEF StreamInv

\* The mark of the log has been given out and no row lies beyond it.
LEMMA MarkGiven ==
    ASSUME StreamInv
    PROVE  /\ HighWatermark \in 0..MaxSeq /\ Given(HighWatermark)
           /\ \A e \in table : ~(e.seq > HighWatermark)
<1>1. LogTypeOK /\ nextSeq \in Nat \ {0}
  BY DEF StreamInv, TypeOK, LogTypeOK
<1>2. /\ MaxEventSeq \in 0..MaxSeq
      /\ \A e \in table : e.seq \in 1..MaxSeq /\ e.seq <= MaxEventSeq
      /\ MaxEventSeq = 0 \/ \E e \in table : e.seq = MaxEventSeq
  BY <1>1, MarkOf
<1>3. Given(MaxEventSeq)
  BY <1>1, <1>2 DEF Given, StreamInv, LogNumbers
<1>4. \A e \in table : ~(e.seq > MaxEventSeq)
  BY <1>2
<1>. QED BY <1>2, <1>3, <1>4 DEF HighWatermark

\* The subscription is over: its mark goes out, live delivery may begin.
LEMMA KeepSubscribed ==
    ASSUME StreamInv, NEW through \in 0..MaxSeq, Subscribed(through),
           phase \in {"open", "replay"}, Given(through),
           based => \A e \in Shown : e.seq <= through => Ahead(e, Len(wire)),
           \A e \in table : e.seq > through => Beyond(e, Len(wire)) /\ Coming(e),
           UNCHANGED <<fwd, woken, channel, log, cursor, history>>
    PROVE  StreamInv'
<1>1. UNCHANGED <<table, chats, owed, nextSeq, saving, failed, online, fatal, based, base, last,
                  view, loaded, low, answer, fwd, woken, ring, lagged>>
  BY DEF log, cursor, history, channel
<1>2. phase' = "started" /\ cur' = 0 /\ thr' = 0 /\ replaySeq' = through
  BY DEF Subscribed
<1>3. /\ TypeOK /\ wire \in Seq(Frame) /\ through \in Nat
      /\ online /\ fwd \notin {"live", "lag"} /\ (~based => wire = <<>>)
  BY DEF StreamInv, TypeOK, TasksPlace
<1>4. wire' = wire \o <<[kind |-> "subscribed", through |-> through]>>
  BY DEF Subscribed, Send
<1>5. PICK n \in Nat : n = Len(wire)
  BY <1>3
<1>6. PICK m \in Nat : m = Len(wire') /\ wire' # <<>>
  <2>1. [kind |-> "subscribed", through |-> through] \in Frame
    BY DEF Frame
  <2>2. wire' \in Seq(Frame) /\ Len(wire') = Len(wire) + 1
    BY <1>3, <1>4, <2>1
  <2>. QED BY <1>5, <2>2
<1>7. /\ NoSkip' /\ MarksDivide' /\ wire' \in Seq(Frame)
      /\ \A e : e.seq <= through => Ahead(e, m)'
  BY <1>1, <1>2, <1>3, <1>4, <1>5, <1>6, SendMark DEF StreamInv
<1>8. TypeOK'
  BY <1>1, <1>2, <1>3, <1>7 DEF TypeOK, LogTypeOK
<1>9. MarksGiven'
  <2>1. \A k : Given(k)' <=> Given(k)
    BY <1>1 DEF Given
  <2>2. Given(0)
    BY <1>3 DEF Given, TypeOK, LogTypeOK
  <2>. QED BY <1>1, <1>2, <2>1, <2>2 DEF StreamInv, MarksGiven
<1>10. TasksPlace'
  BY <1>1, <1>2, <1>3 DEF StreamInv, TasksPlace
<1>11. ServerPosition'
  <2>1. \A e : Coming(e)' <=> Coming(e)
    BY <1>1 DEF Coming
  <2>2. Shown' = Shown /\ \A e \in Shown : e \in table
    BY <1>1 DEF Shown
  <2>3. \A e \in Shown : e.seq > through => Coming(e)
    BY <2>2
  <2>4. \A e \in Shown : e.seq <= through => Ahead(e, m)'
    BY <1>7
  <2>5. \A e \in Shown' : e.seq <= replaySeq' => Ahead(e, Len(wire))'
    BY <1>2, <1>6, <2>2, <2>4
  <2>. QED BY <1>1, <1>2, <1>3, <2>1, <2>2, <2>3, <2>5 DEF ServerPosition
<1>12. LogNumbers' /\ ChannelOrder' /\ HistoryHolds' /\ NoGap'
  BY <1>1, Untouched DEF StreamInv
<1>. QED BY <1>7, <1>8, <1>9, <1>10, <1>11, <1>12 DEF StreamInv

\* A subscription is answered with the mark, or its replay begins.
LEMMA KeepSubscribe ==
    ASSUME StreamInv, Subscribe
    PROVE  StreamInv'
<1>1. /\ phase = "open" /\ wire = <<>> /\ cur = (IF based THEN last + 1 ELSE 0)
      /\ fwd \notin {"live", "lag"} /\ last \in Nat /\ based \in BOOLEAN /\ online
  BY DEF Subscribe, StreamInv, TasksPlace, TypeOK
<1>2. UNCHANGED <<log, cursor, history>>
  BY DEF Subscribe
<1>3. CASE failed
  BY <1>1, <1>2, <1>3, KeepStreamError DEF Subscribe
<1>4. CASE ~failed /\ cur = 0
  <2>1. ~based
    BY <1>1, <1>4
  <2>2. Subscribed(HighWatermark) /\ UNCHANGED <<fwd, woken, channel>>
    BY <1>4 DEF Subscribe
  <2>. QED BY <1>1, <1>2, <2>1, <2>2, MarkGiven, KeepSubscribed
<1>5. CASE ~failed /\ cur # 0
  <2>1. /\ phase' = "replay" /\ thr' = HighWatermark
        /\ UNCHANGED <<cur, replaySeq, wire, fwd, woken, channel>>
    BY <1>5 DEF Subscribe
  <2>2. UNCHANGED <<table, chats, owed, nextSeq, saving, failed, online, fatal, based, base, last,
                    view, loaded, low, answer, fwd, woken, ring, lagged, cur, replaySeq, wire>>
    BY <1>2, <2>1 DEF log, cursor, history, channel
  <2>3. based /\ cur = last + 1
    BY <1>1, <1>5
  <2>4. TypeOK'
    BY <2>1, <2>2, MarkGiven DEF StreamInv, TypeOK, LogTypeOK
  <2>5. MarksGiven'
    <3>1. \A k : Given(k)' <=> Given(k)
      BY <2>2 DEF Given
    <3>. QED BY <2>1, <2>2, <3>1, MarkGiven DEF StreamInv, MarksGiven
  <2>6. MarksDivide'
    <3>1. Len(wire) = 0
      BY <1>1
    <3>. QED BY <1>1, <2>1, <2>2, <2>3, <3>1 DEF MarksDivide
  <2>7. TasksPlace'
    BY <1>1, <2>1, <2>2, <2>3 DEF StreamInv, TasksPlace
  <2>8. ServerPosition'
    <3>1. \A e \in Shown : e \in table /\ e.seq \in Nat
      BY DEF Shown, StreamInv, TypeOK, LogTypeOK, Event
    <3>2. \A e \in Shown : e.seq < cur => e.seq <= last
      BY <1>1, <2>3, <3>1
    <3>3. \A e \in Shown' : e.seq < cur' => Ahead(e, Len(wire))'
      BY <2>2, <3>2 DEF Ahead, Shown
    <3>4. \A e \in table' : ~(e.seq > thr')
      BY <2>1, <2>2, MarkGiven
    <3>. QED BY <2>1, <3>3, <3>4 DEF ServerPosition
  <2>9. LogNumbers' /\ ChannelOrder' /\ NoSkip' /\ HistoryHolds' /\ NoGap'
    BY <2>2, Untouched DEF StreamInv
  <2>. QED BY <2>4, <2>5, <2>6, <2>7, <2>8, <2>9 DEF StreamInv
<1>. QED BY <1>3, <1>4, <1>5

\* What a page of rows from the cursor on is, when all before the cursor went.
LEMMA PageSent ==
    ASSUME StreamInv, phase \notin {"none", "open"}, NEW page, page = ReplayPage(cur, thr),
           page # <<>>, wire' = wire \o EventFrames(page), UNCHANGED <<log, last, based, phase>>,
           \A e \in Shown : e.seq < cur => Ahead(e, Len(wire))
    PROVE  /\ NoSkip' /\ MarksDivide' /\ wire' \in Seq(Frame)
           /\ \E s \in 1..MaxSeq :
                 /\ page[Len(page)].seq = s /\ cur <= s /\ s <= thr /\ Given(s)
                 /\ \A e \in Shown : e.seq <= s => Ahead(e, Len(wire))'
                 /\ \A e \in table : e.seq > thr /\ Beyond(e, Len(wire)) => Beyond(e, Len(wire))'
<1>1. LogTypeOK /\ LogNumbers /\ cur \in Nat /\ thr \in Nat /\ wire \in Seq(Frame)
  BY DEF StreamInv, TypeOK
<1>2. /\ page \in Seq(Event)
      /\ \A i \in 1..Len(page) :
            /\ page[i] \in table /\ cur <= page[i].seq /\ page[i].seq <= thr
            /\ \A e \in table : cur <= e.seq /\ e.seq <= page[i].seq => \E j \in 1..i : page[j] = e
  <2>1. IsPage(page, cur, thr)
    BY <1>1, PageOf
  <2>. QED BY <2>1 DEF IsPage
<1>3. /\ \A e \in Event : e.seq \in 1..MaxSeq /\ e.seq \in Nat
      /\ \A e \in table : e \in Event /\ Given(e.seq)
      /\ \A e \in Shown : e \in table
  BY <1>1 DEF LogTypeOK, LogNumbers, Event, Shown
<1>4. PICK n \in Nat : n = Len(wire)
  BY <1>1
<1>5. PICK m \in Nat : m = Len(wire')
  <2>1. EventFrames(page) \in Seq(Frame)
    BY <1>2, EventFramesOf
  <2>. QED BY <1>1, <2>1
<1>6. ~based => wire # <<>>
  BY DEF StreamInv, MarksDivide, TasksPlace, TypeOK
<1>7. \A i \in 1..Len(page) : \A e \in Shown : e.seq <= page[i].seq =>
         Ahead(e, n) \/ \E j \in 1..i : page[j] = e
  <2>. SUFFICES ASSUME NEW i \in 1..Len(page), NEW e \in Shown, e.seq <= page[i].seq
                PROVE  Ahead(e, n) \/ \E j \in 1..i : page[j] = e
    OBVIOUS
  <2>1. e.seq < cur \/ cur <= e.seq
    BY <1>1, <1>3
  <2>. QED BY <1>2, <1>3, <1>4, <2>1
<1>8. Joins(page, n)
  BY <1>2, <1>3, <1>7 DEF Joins
<1>9. NoSkip' /\ MarksDivide' /\ wire' \in Seq(Frame) /\ Joined(page, n, m)
  <2>1. TypeOK /\ NoSkip /\ MarksDivide /\ (phase = "open" => page = <<>>)
    BY DEF StreamInv
  <2>2. page \in Seq(Event)
    BY <1>2
  <2>. QED BY <1>1, <1>4, <1>5, <1>6, <1>8, <2>1, <2>2, SendEvents
<1>10. Len(page) \in 1..Len(page) /\ Len(page) \in Nat
  BY <1>2
<1>11. PICK s \in 1..MaxSeq : page[Len(page)].seq = s
  BY <1>2, <1>3, <1>10
<1>12. cur <= s /\ s <= thr /\ Given(s)
  BY <1>2, <1>8, <1>10, <1>11 DEF Joins
<1>13. ASSUME NEW e \in Shown, e.seq <= s PROVE Ahead(e, m)'
  <2>1. Ahead(e, n) \/ \E j \in 1..Len(page) : page[j] = e
    BY <1>7, <1>10, <1>11, <1>13
  <2>. QED BY <1>9, <2>1 DEF Joined
<1>14. ASSUME NEW e \in table, e.seq > thr, Beyond(e, n) PROVE Beyond(e, m)'
  <2>1. \A j \in 1..Len(page) : e.seq > page[j].seq
    <3>. SUFFICES ASSUME NEW j \in 1..Len(page) PROVE e.seq > page[j].seq
      OBVIOUS
    <3>1. page[j].seq \in Nat /\ e.seq \in Nat /\ page[j].seq <= thr
      BY <1>2, <1>3
    <3>. QED BY <1>1, <1>14, <3>1
  <2>. QED BY <1>9, <1>14, <2>1 DEF Joined
<1>15. /\ \A e \in Shown : e.seq <= s => Ahead(e, Len(wire))'
       /\ \A e \in table : e.seq > thr /\ Beyond(e, Len(wire)) => Beyond(e, Len(wire))'
  BY <1>4, <1>5, <1>13, <1>14
<1>. QED BY <1>9, <1>11, <1>12, <1>15

\* An empty page, or a cursor beyond the mark, means that all up to the mark went.
LEMMA PagesEnd ==
    ASSUME StreamInv, ~(cur <= thr /\ ReplayPage(cur, thr) # <<>>), NEW e \in table
    PROVE  e.seq <= thr => e.seq < cur
<1>1. LogTypeOK /\ LogNumbers /\ cur \in Nat /\ thr \in Nat /\ e.seq \in Nat
  BY DEF StreamInv, TypeOK, LogTypeOK, Event
<1>2. ReplayPage(cur, thr) = <<>> => ~(cur <= e.seq /\ e.seq <= thr)
  BY <1>1, PageOf DEF IsPage
<1>. QED BY <1>1, <1>2

\* A page of the replay is sent, or the replay is over.
LEMMA KeepReplay ==
    ASSUME StreamInv, Replay
    PROVE  StreamInv'
<1>1. /\ phase = "replay" /\ UNCHANGED <<log, cursor, history>>
      /\ cur \in Nat /\ thr \in 0..MaxSeq /\ based /\ Given(thr) /\ online
      /\ fwd \notin {"live", "lag"}
  BY DEF Replay, StreamInv, TypeOK, TasksPlace, MarksGiven
<1>2. /\ \A e \in Shown : e.seq < cur => Ahead(e, Len(wire))
      /\ \A e \in table : e.seq > thr => Beyond(e, Len(wire)) /\ Coming(e)
      /\ \A e \in Shown : e \in table /\ e.seq \in Nat
  BY <1>1 DEF StreamInv, ServerPosition, Shown, TypeOK, LogTypeOK, Event
<1>3. CASE cur <= thr /\ failed
  BY <1>1, <1>3, KeepStreamError DEF Replay
<1>4. CASE ~(cur <= thr /\ failed) /\ cur <= thr /\ ReplayPage(cur, thr) # <<>>
  <2>1. PICK page : page = ReplayPage(cur, thr)
    OBVIOUS
  <2>2. /\ wire' = wire \o EventFrames(page) /\ cur' = page[Len(page)].seq + 1
        /\ UNCHANGED <<phase, thr, replaySeq, fwd, woken, channel>>
    BY <1>4, <2>1 DEF Replay, Send
  <2>3. UNCHANGED <<table, chats, owed, nextSeq, saving, failed, online, fatal, based, base, last,
                    view, loaded, low, answer, fwd, woken, ring, lagged, phase, thr, replaySeq>>
    BY <1>1, <2>2 DEF log, cursor, history, channel
  <2>4. /\ NoSkip' /\ MarksDivide' /\ wire' \in Seq(Frame)
        /\ \E s \in 1..MaxSeq :
              /\ page[Len(page)].seq = s /\ cur <= s /\ s <= thr /\ Given(s)
              /\ \A e \in Shown : e.seq <= s => Ahead(e, Len(wire))'
              /\ \A e \in table : e.seq > thr /\ Beyond(e, Len(wire)) => Beyond(e, Len(wire))'
    <3>1. phase \notin {"none", "open"} /\ page # <<>>
      BY <1>1, <1>4, <2>1
    <3>. QED BY <1>1, <1>2, <2>1, <2>2, <2>3, <3>1, PageSent
  <2>5. PICK s \in 1..MaxSeq :
          /\ page[Len(page)].seq = s /\ Given(s)
          /\ \A e \in Shown : e.seq <= s => Ahead(e, Len(wire))'
          /\ \A e \in table : e.seq > thr /\ Beyond(e, Len(wire)) => Beyond(e, Len(wire))'
    BY <2>4
  <2>6. cur' = s + 1 /\ s \in Nat
    BY <2>2, <2>5
  <2>7. TypeOK'
    BY <2>3, <2>4, <2>6 DEF StreamInv, TypeOK, LogTypeOK
  <2>8. MarksGiven'
    <3>1. \A k : Given(k)' <=> Given(k)
      BY <2>3 DEF Given
    <3>2. cur' - 1 = s
      BY <2>6
    <3>. QED BY <2>3, <2>5, <3>1, <3>2 DEF StreamInv, MarksGiven
  <2>9. TasksPlace'
    BY <1>1, <2>3 DEF StreamInv, TasksPlace
  <2>10. ServerPosition'
    <3>1. \A e \in Shown : e.seq < s + 1 => e.seq <= s
      BY <1>2, <2>6
    <3>2. \A e \in Shown' : e.seq < cur' => Ahead(e, Len(wire))'
      BY <2>3, <2>5, <2>6, <3>1 DEF Shown
    <3>3. \A e : Coming(e)' <=> Coming(e)
      BY <2>3 DEF Coming
    <3>4. \A e \in table' : e.seq > thr' => Beyond(e, Len(wire))' /\ Coming(e)'
      BY <1>2, <2>3, <2>5, <3>3
    <3>. QED BY <1>1, <2>3, <3>2, <3>4 DEF ServerPosition
  <2>11. LogNumbers' /\ ChannelOrder' /\ HistoryHolds' /\ NoGap'
    BY <2>3, Untouched DEF StreamInv
  <2>. QED BY <2>4, <2>7, <2>8, <2>9, <2>10, <2>11 DEF StreamInv
<1>5. CASE ~(cur <= thr /\ failed) /\ ~(cur <= thr /\ ReplayPage(cur, thr) # <<>>)
  <2>1. Subscribed(thr) /\ UNCHANGED <<fwd, woken, channel>>
    BY <1>5 DEF Replay
  <2>2. \A e \in Shown : e.seq <= thr => Ahead(e, Len(wire))
    BY <1>2, <1>5, PagesEnd
  <2>. QED BY <1>1, <1>2, <2>1, <2>2, KeepSubscribed
<1>. QED BY <1>3, <1>4, <1>5

\* A receiver that lagged reads the log up to its mark.
LEMMA KeepNoticeLag ==
    ASSUME StreamInv, NoticeLag
    PROVE  StreamInv'
<1>1. /\ fwd = "live" /\ lagged /\ UNCHANGED <<log, cursor, history>>
      /\ phase \in {"started", "done"} /\ replaySeq \in 0..MaxSeq /\ Given(replaySeq)
  BY DEF NoticeLag, StreamInv, TypeOK, TasksPlace, MarksGiven
<1>2. CASE failed
  BY <1>1, <1>2, KeepStreamError DEF NoticeLag
<1>3. CASE ~failed
  <2>1. /\ lagged' = FALSE /\ thr' = HighWatermark /\ cur' = replaySeq + 1 /\ fwd' = "lag"
        /\ UNCHANGED <<phase, woken, ring, replaySeq, wire>>
    BY <1>3 DEF NoticeLag
  <2>2. UNCHANGED <<table, chats, owed, nextSeq, saving, failed, online, fatal, based, base, last,
                    view, loaded, low, answer>>
    BY <1>1 DEF log, cursor, history
  <2>3. TypeOK'
    <3>1. thr' \in 0..MaxSeq /\ cur' \in 0..(MaxSeq + 1)
      BY <1>1, <2>1, MarkGiven
    <3>2. LogTypeOK'
      BY <2>2 DEF StreamInv, TypeOK, LogTypeOK
    <3>. QED BY <2>1, <2>2, <3>1, <3>2 DEF StreamInv, TypeOK
  <2>4. MarksGiven'
    <3>1. \A k : Given(k)' <=> Given(k)
      BY <2>2 DEF Given
    <3>2. cur' - 1 = replaySeq
      BY <1>1, <2>1
    <3>. QED BY <1>1, <2>1, <2>2, <3>1, <3>2, MarkGiven DEF StreamInv, MarksGiven
  <2>5. TasksPlace'
    BY <1>1, <2>1, <2>2 DEF StreamInv, TasksPlace
  <2>6. ServerPosition'
    <3>1. \A e, k : Ahead(e, k)' <=> Ahead(e, k)
      BY <2>1, <2>2 DEF Ahead, IsEvent, IsMark
    <3>2. \A e \in Shown : e \in table
      BY DEF Shown
    <3>3. Shown' = Shown
      BY <2>2 DEF Shown
    <3>4. \A e \in Shown : ~(e.seq > thr')
      BY <2>1, <3>2, MarkGiven
    <3>5. \A e \in Shown : e.seq <= replaySeq => Ahead(e, Len(wire))
      BY <1>1 DEF StreamInv, ServerPosition
    <3>6. \A e \in Shown' : e.seq <= replaySeq' => Ahead(e, Len(wire))'
      BY <2>1, <3>1, <3>3, <3>5
    <3>. QED BY <1>1, <2>1, <3>3, <3>4, <3>6 DEF ServerPosition
  <2>7. LogNumbers' /\ ChannelOrder' /\ NoSkip' /\ MarksDivide' /\ HistoryHolds' /\ NoGap'
    BY <2>1, <2>2, Untouched DEF StreamInv
  <2>. QED BY <2>3, <2>4, <2>5, <2>6, <2>7 DEF StreamInv
<1>. QED BY <1>2, <1>3

\* A page of the catch-up is sent, or live delivery goes on.
LEMMA KeepCatchUp ==
    ASSUME StreamInv, CatchUp
    PROVE  StreamInv'
<1>1. /\ fwd = "lag" /\ phase \in {"started", "done"} /\ UNCHANGED <<log, cursor, history>>
      /\ cur = replaySeq + 1 /\ replaySeq \in 0..MaxSeq /\ thr \in 0..MaxSeq
  BY DEF CatchUp, StreamInv, TypeOK, TasksPlace
<1>2. /\ \A e \in Shown : e.seq <= replaySeq => Ahead(e, Len(wire))
      /\ \A e \in Shown : e.seq > thr => Coming(e)
      /\ \A e \in Shown : e \in table /\ e.seq \in Nat
  BY <1>1 DEF StreamInv, ServerPosition, Shown, TypeOK, LogTypeOK, Event
<1>3. CASE cur <= thr /\ failed
  BY <1>1, <1>3, KeepStreamError DEF CatchUp
<1>4. CASE ~(cur <= thr /\ failed) /\ cur <= thr /\ ReplayPage(cur, thr) # <<>>
  <2>1. PICK page : page = ReplayPage(cur, thr)
    OBVIOUS
  <2>2. /\ wire' = wire \o EventFrames(page) /\ cur' = page[Len(page)].seq + 1
        /\ replaySeq' = page[Len(page)].seq
        /\ UNCHANGED <<phase, thr, fwd, woken, channel>>
    BY <1>4, <2>1 DEF CatchUp, Send
  <2>3. UNCHANGED <<table, chats, owed, nextSeq, saving, failed, online, fatal, based, base, last,
                    view, loaded, low, answer, fwd, woken, ring, lagged, phase, thr>>
    BY <1>1, <2>2 DEF log, cursor, history, channel
  <2>4. /\ NoSkip' /\ MarksDivide' /\ wire' \in Seq(Frame)
        /\ \E s \in 1..MaxSeq :
              /\ page[Len(page)].seq = s /\ cur <= s /\ s <= thr /\ Given(s)
              /\ \A e \in Shown : e.seq <= s => Ahead(e, Len(wire))'
              /\ \A e \in table : e.seq > thr /\ Beyond(e, Len(wire)) => Beyond(e, Len(wire))'
    <3>1. phase \notin {"none", "open"} /\ page # <<>>
      BY <1>1, <1>4, <2>1
    <3>2. \A e \in Shown : e.seq < cur => Ahead(e, Len(wire))
      BY <1>1, <1>2
    <3>. QED BY <1>1, <2>1, <2>2, <2>3, <3>1, <3>2, PageSent
  <2>5. PICK s \in 1..MaxSeq :
          /\ page[Len(page)].seq = s /\ cur <= s /\ Given(s)
          /\ \A e \in Shown : e.seq <= s => Ahead(e, Len(wire))'
    BY <2>4
  <2>6. cur' = s + 1 /\ replaySeq' = s /\ s \in Nat
    BY <2>2, <2>5
  <2>7. TypeOK'
    BY <2>3, <2>4, <2>6 DEF StreamInv, TypeOK, LogTypeOK
  <2>8. MarksGiven'
    <3>1. \A k : Given(k)' <=> Given(k)
      BY <2>3 DEF Given
    <3>2. cur' - 1 = s
      BY <2>6
    <3>. QED BY <2>3, <2>5, <2>6, <3>1, <3>2 DEF StreamInv, MarksGiven
  <2>9. TasksPlace'
    BY <1>1, <2>3, <2>6 DEF StreamInv, TasksPlace
  <2>10. ServerPosition'
    <3>1. \A e \in Shown' : e.seq <= replaySeq' => Ahead(e, Len(wire))'
      BY <2>3, <2>5, <2>6 DEF Shown
    <3>2. \A e : Coming(e)' <=> Coming(e)
      BY <2>3 DEF Coming
    <3>3. \A e \in Shown' : e.seq > thr' => Coming(e)'
      BY <1>2, <2>3, <3>2 DEF Shown
    <3>. QED BY <1>1, <2>3, <3>1, <3>3 DEF ServerPosition
  <2>11. LogNumbers' /\ ChannelOrder' /\ HistoryHolds' /\ NoGap'
    BY <2>3, Untouched DEF StreamInv
  <2>. QED BY <2>4, <2>7, <2>8, <2>9, <2>10, <2>11 DEF StreamInv
<1>5. CASE ~(cur <= thr /\ failed) /\ ~(cur <= thr /\ ReplayPage(cur, thr) # <<>>)
  <2>1. /\ fwd' = "live" /\ cur' = 0 /\ thr' = 0
        /\ UNCHANGED <<replaySeq, wire, phase, woken, channel>>
    BY <1>5 DEF CatchUp
  <2>2. UNCHANGED <<table, chats, owed, nextSeq, saving, failed, online, fatal, based, base, last,
                    view, loaded, low, answer, woken, ring, lagged, phase, replaySeq, wire>>
    BY <1>1, <2>1 DEF log, cursor, history, channel
  <2>3. TypeOK'
    BY <2>1, <2>2 DEF StreamInv, TypeOK, LogTypeOK
  <2>4. MarksGiven'
    <3>1. \A k : Given(k)' <=> Given(k)
      BY <2>2 DEF Given
    <3>2. Given(0)
      BY DEF Given, StreamInv, TypeOK, LogTypeOK
    <3>. QED BY <2>1, <2>2, <3>1, <3>2 DEF StreamInv, MarksGiven
  <2>5. TasksPlace'
    BY <1>1, <2>1, <2>2 DEF StreamInv, TasksPlace
  <2>6. ServerPosition'
    <3>1. \A e \in Shown : e.seq > replaySeq => Coming(e)
      <4>. SUFFICES ASSUME NEW e \in Shown, e.seq > replaySeq PROVE Coming(e)
        OBVIOUS
      <4>1. e \in table /\ e.seq \in Nat
        BY <1>2
      <4>2. e.seq <= thr => e.seq < cur
        BY <1>5, <4>1, PagesEnd
      <4>3. e.seq > thr
        BY <1>1, <4>1, <4>2
      <4>. QED BY <1>2, <4>3
    <3>2. \A e, k : Ahead(e, k)' <=> Ahead(e, k)
      BY <2>2 DEF Ahead, IsEvent, IsMark
    <3>3. Shown' = Shown /\ \A e : Coming(e)' <=> Coming(e)
      BY <2>2 DEF Shown, Coming
    <3>4. \A e \in Shown' : e.seq <= replaySeq' => Ahead(e, Len(wire))'
      BY <1>2, <2>2, <3>2, <3>3
    <3>5. \A e \in Shown' : e.seq > replaySeq' => Coming(e)'
      BY <2>2, <3>1, <3>3
    <3>. QED BY <1>1, <2>1, <2>2, <3>4, <3>5 DEF ServerPosition
  <2>7. LogNumbers' /\ ChannelOrder' /\ NoSkip' /\ MarksDivide' /\ HistoryHolds' /\ NoGap'
    BY <2>2, Untouched DEF StreamInv
  <2>. QED BY <2>3, <2>4, <2>5, <2>6, <2>7 DEF StreamInv
<1>. QED BY <1>3, <1>4, <1>5

\* A live event that was already sent is skipped; any other is the next one.
LEMMA KeepForward ==
    ASSUME StreamInv, Forward
    PROVE  StreamInv'
<1>1. /\ fwd = "live" /\ ~lagged /\ ring # <<>> /\ ring' = Tail(ring)
      /\ phase \in {"started", "done"} /\ ring \in Seq(Event) /\ replaySeq \in Nat
      /\ wire \in Seq(Frame) /\ Len(ring) <= RingSize /\ RingSize \in Nat
  BY StreamAssumption DEF Forward, StreamInv, TypeOK, TasksPlace
<1>2. UNCHANGED <<table, chats, owed, nextSeq, saving, failed, online, fatal, based, base, last,
                  view, loaded, low, answer, phase, fwd, woken, lagged, cur, thr>>
  BY DEF Forward, log, cursor, history, tasks
<1>3. PICK e \in Event : e = ring[1]
  BY <1>1
<1>4. /\ ring' \in Seq(Event) /\ Len(ring') + 1 = Len(ring) /\ Len(ring') \in Nat
      /\ \A i \in 1..Len(ring') : ring'[i] = ring[i + 1] /\ i + 1 \in 1..Len(ring)
      /\ 1 \in 1..Len(ring) /\ Len(ring') <= RingSize
  BY <1>1
<1>5. /\ \A d \in Event : d.seq \in Nat /\ d.seq \in 1..MaxSeq
      /\ \A d \in Shown : d \in table /\ d \in Event
      /\ nextSeq \in Nat /\ (saving # NoEvent => saving.seq = nextSeq)
      /\ NoEvent \notin Event
  BY LogAssumption DEF Event, Shown, StreamInv, TypeOK, LogTypeOK, LogNumbers
<1>6. /\ e.seq < nextSeq /\ (e.chat \in chats => e \in table)
      /\ \A i \in 1..Len(ring) : ring[i] \in Event /\ (i # 1 => e.seq < ring[i].seq)
  BY <1>1, <1>3, <1>4 DEF StreamInv, ChannelOrder
<1>7. /\ \A d \in Shown : d.seq <= replaySeq => Ahead(d, Len(wire))
      /\ \A d \in Shown : d.seq > replaySeq => Coming(d)
  BY <1>1 DEF StreamInv, ServerPosition
<1>8. \A d \in Shown : Coming(d) => d = e \/ (d.seq > e.seq /\ Coming(d)')
  <2>. SUFFICES ASSUME NEW d \in Shown, Coming(d), d # e PROVE d.seq > e.seq /\ Coming(d)'
    OBVIOUS
  <2>1. CASE d = saving
    <3>1. d.seq = nextSeq
      BY <1>5, <2>1
    <3>. QED BY <1>2, <1>3, <1>5, <1>6, <2>1, <3>1 DEF Coming
  <2>2. ASSUME NEW i \in 1..Len(ring), ring[i] = d PROVE d.seq > e.seq /\ Coming(d)'
    <3>1. i # 1
      BY <1>3, <2>2
    <3>2. PICK j \in 1..Len(ring') : i = j + 1
      <4>1. i - 1 \in 1..Len(ring') /\ i = (i - 1) + 1
        BY <1>4, <3>1
      <4>. QED BY <4>1
    <3>3. ring'[j] = d
      BY <1>4, <2>2, <3>2
    <3>. QED BY <1>3, <1>5, <1>6, <2>2, <3>1, <3>3 DEF Coming
  <2>. QED BY <1>1, <2>1, <2>2 DEF Coming
<1>9. ChannelOrder'
  <2>1. \A i, j \in 1..Len(ring') : i < j => ring'[i].seq < ring'[j].seq
    <3>. SUFFICES ASSUME NEW i \in 1..Len(ring'), NEW j \in 1..Len(ring'), i < j
                  PROVE  ring'[i].seq < ring'[j].seq
      OBVIOUS
    <3>1. /\ ring'[i] = ring[i + 1] /\ i + 1 \in 1..Len(ring)
          /\ ring'[j] = ring[j + 1] /\ j + 1 \in 1..Len(ring) /\ i + 1 < j + 1
      BY <1>4
    <3>. QED BY <3>1 DEF StreamInv, ChannelOrder
  <2>2. \A i \in 1..Len(ring') : /\ ring'[i].seq < nextSeq
                                 /\ ring'[i].chat \in chats => ring'[i] \in table
    BY <1>4 DEF StreamInv, ChannelOrder
  <2>. QED BY <1>2, <2>1, <2>2 DEF ChannelOrder
<1>10. LogNumbers' /\ HistoryHolds' /\ NoGap'
  BY <1>2, Untouched DEF StreamInv
<1>11. TasksPlace' \/ wire' # wire
  BY <1>1, <1>2 DEF StreamInv, TasksPlace
<1>12. CASE e.seq <= replaySeq
  <2>1. UNCHANGED <<wire, replaySeq>>
    BY <1>3, <1>12 DEF Forward
  <2>2. TypeOK'
    BY <1>2, <1>4, <2>1 DEF StreamInv, TypeOK, LogTypeOK
  <2>3. MarksGiven' /\ NoSkip' /\ MarksDivide'
    BY <1>2, <2>1, Untouched DEF StreamInv
  <2>4. ServerPosition'
    <3>1. \A d, k : Ahead(d, k)' <=> Ahead(d, k)
      BY <1>2, <2>1 DEF Ahead, IsEvent, IsMark
    <3>2. Shown' = Shown
      BY <1>2 DEF Shown
    <3>3. \A d \in Shown : d.seq > replaySeq => Coming(d)'
      BY <1>1, <1>5, <1>7, <1>8, <1>12
    <3>4. \A d \in Shown' : d.seq <= replaySeq' => Ahead(d, Len(wire))'
      BY <1>7, <2>1, <3>1, <3>2
    <3>. QED BY <1>1, <1>2, <2>1, <3>2, <3>3, <3>4 DEF ServerPosition
  <2>. QED BY <1>9, <1>10, <1>11, <2>1, <2>2, <2>3, <2>4 DEF StreamInv
<1>13. CASE ~(e.seq <= replaySeq)
  <2>1. PICK events \in Seq(Event) : events = <<e>>
    <3>1. <<e>> \in Seq(Event)
      OBVIOUS
    <3>. QED BY <3>1
  <2>2. /\ Len(events) = 1 /\ events[1] = e
        /\ wire' = wire \o EventFrames(events) /\ replaySeq' = e.seq
    BY <1>3, <1>13, <2>1 DEF Forward, Send
  <2>3. PICK n \in Nat : n = Len(wire)
    BY <1>1
  <2>4. PICK m \in Nat : m = Len(wire')
    <3>1. EventFrames(events) \in Seq(Frame)
      BY EventFramesOf
    <3>. QED BY <1>1, <2>2, <3>1
  <2>5. \A d \in Shown : d.seq <= e.seq => Ahead(d, n) \/ d = e
    <3>. SUFFICES ASSUME NEW d \in Shown, d.seq <= e.seq, d # e PROVE Ahead(d, n)
      OBVIOUS
    <3>1. d.seq \in Nat /\ e.seq \in Nat
      BY <1>5
    <3>2. ~Coming(d)
      BY <1>8, <3>1
    <3>. QED BY <1>1, <1>7, <2>3, <3>1, <3>2
  <2>6. Given(e.seq)
    BY <1>6 DEF Given
  <2>7. Joins(events, n)
    BY <1>6, <2>2, <2>5, <2>6 DEF Joins
  <2>8. NoSkip' /\ MarksDivide' /\ wire' \in Seq(Frame) /\ Joined(events, n, m)
    <3>1. TypeOK /\ LogNumbers /\ NoSkip /\ MarksDivide /\ (phase = "open" => events = <<>>)
      BY <1>1 DEF StreamInv
    <3>2. ~based => wire # <<>>
      BY <1>1 DEF StreamInv, MarksDivide
    <3>3. UNCHANGED <<log, last, based, phase>>
      BY <1>2 DEF log
    <3>. QED BY <2>2, <2>3, <2>4, <2>7, <3>1, <3>2, <3>3, SendEvents
  <2>9. TypeOK'
    BY <1>2, <1>4, <1>5, <2>2, <2>8 DEF StreamInv, TypeOK, LogTypeOK
  <2>10. MarksGiven'
    <3>1. \A k : Given(k)' <=> Given(k)
      BY <1>2 DEF Given
    <3>. QED BY <1>2, <2>2, <2>6, <3>1 DEF StreamInv, MarksGiven
  <2>11. TasksPlace'
    BY <1>1, <1>2 DEF StreamInv, TasksPlace
  <2>12. ServerPosition'
    <3>1. Shown' = Shown
      BY <1>2 DEF Shown
    <3>2. \A d \in Shown : d.seq <= e.seq => Ahead(d, m)'
      BY <2>2, <2>5, <2>8 DEF Joined
    <3>3. \A d \in Shown : d.seq > e.seq => Coming(d)'
      BY <1>1, <1>5, <1>7, <1>8, <1>13
    <3>4. \A d \in Shown' : d.seq <= replaySeq' => Ahead(d, Len(wire))'
      BY <2>2, <2>4, <3>1, <3>2
    <3>. QED BY <1>1, <1>2, <2>2, <3>1, <3>3, <3>4 DEF ServerPosition
  <2>. QED BY <1>9, <1>10, <2>8, <2>9, <2>10, <2>11, <2>12 DEF StreamInv
<1>. QED BY <1>12, <1>13

\* The send task waits for the replay; nothing that was sent changes.
LEMMA KeepWaiting ==
    ASSUME StreamInv, Notify \/ Arm \/ CheckStarted \/ Wake
    PROVE  StreamInv'
<1>1. UNCHANGED <<table, chats, owed, nextSeq, saving, failed, online, fatal, based, base, last,
                  view, loaded, low, answer, ring, lagged, cur, thr, replaySeq, wire>>
  BY DEF Notify, Arm, CheckStarted, Wake, log, cursor, history, channel, replay
<1>2. /\ \/ phase' = phase
         \/ phase = "started" /\ phase' = "done"
      /\ \/ fwd' = fwd
         \/ fwd' \in {"arm", "check", "wait"} /\ fwd \notin {"live", "lag"} /\ phase # "none"
         \/ fwd' = "live" /\ fwd # "lag" /\ phase' \in {"started", "done"}
      /\ woken' \in BOOLEAN
  BY DEF Notify, Arm, CheckStarted, Wake, StreamInv, TypeOK, TasksPlace
<1>3. TypeOK'
  BY <1>1, <1>2 DEF StreamInv, TypeOK, LogTypeOK
<1>4. \A d, k : (Ahead(d, k) <=> Ahead(d, k)') /\ (Beyond(d, k) <=> Beyond(d, k)')
  BY <1>1 DEF Ahead, Beyond, IsEvent, IsMark
<1>5. Shown' = Shown /\ \A d : Coming(d)' <=> Coming(d)
  BY <1>1 DEF Shown, Coming
<1>6. ServerPosition'
  BY <1>1, <1>2, <1>4, <1>5 DEF StreamInv, ServerPosition
<1>7. TasksPlace'
  BY <1>1, <1>2 DEF StreamInv, TasksPlace
<1>8. MarksDivide'
  BY <1>1, <1>2, <1>4 DEF StreamInv, MarksDivide, IsEvent, IsMark
<1>9. LogNumbers' /\ ChannelOrder' /\ MarksGiven' /\ NoSkip' /\ HistoryHolds' /\ NoGap'
  BY <1>1, Untouched DEF StreamInv
<1>. QED BY <1>3, <1>6, <1>7, <1>8, <1>9 DEF StreamInv

-----------------------------------------------------------------------------
(* The browser's socket.                                                   *)

\* With the socket goes all that was on its way.
LEMMA KeepSocketGone ==
    ASSUME StreamInv, SocketGone, fatal' \in BOOLEAN, UNCHANGED <<log, based, base, last, history>>
    PROVE  StreamInv'
<1>1. UNCHANGED <<table, chats, owed, nextSeq, saving, failed, based, base, last,
                  view, loaded, low, answer>>
  BY DEF log, history
<1>2. /\ phase' = "none" /\ fwd' = "arm" /\ woken' = FALSE /\ ring' = <<>> /\ lagged' = FALSE
      /\ cur' = 0 /\ thr' = 0 /\ replaySeq' = 0 /\ online' = FALSE /\ wire' = <<>>
  BY DEF SocketGone, SocketEnds
<1>3. TypeOK'
  <2>1. /\ <<>> \in Seq(Event) /\ Len(<<>>) <= RingSize /\ <<>> \in Seq(Frame)
    BY StreamAssumption
  <2>2. 0 \in 0..MaxSeq /\ 0 \in 0..(MaxSeq + 1)
    BY LogAssumption
  <2>3. LogTypeOK'
    BY <1>1 DEF StreamInv, TypeOK, LogTypeOK
  <2>4. /\ ring' \in Seq(Event) /\ Len(ring') <= RingSize /\ wire' \in Seq(Frame)
        /\ cur' \in 0..(MaxSeq + 1) /\ thr' \in 0..MaxSeq /\ replaySeq' \in 0..MaxSeq
    BY <1>2, <2>1, <2>2
  <2>. QED BY <1>1, <1>2, <2>3, <2>4 DEF StreamInv, TypeOK
<1>4. Len(wire') = 0 /\ Len(ring') = 0
  BY <1>2
<1>5. NoSkip' /\ MarksDivide' /\ TasksPlace' /\ ServerPosition' /\ ChannelOrder'
  BY <1>2, <1>4 DEF NoSkip, MarksDivide, TasksPlace, ServerPosition, ChannelOrder
<1>6. MarksGiven'
  <2>1. nextSeq \in Nat \ {0}
    BY DEF StreamInv, TypeOK, LogTypeOK
  <2>. QED BY <1>1, <1>2, <2>1 DEF StreamInv, MarksGiven, Given
<1>7. LogNumbers' /\ HistoryHolds' /\ NoGap'
  BY <1>1, Untouched DEF StreamInv
<1>. QED BY <1>3, <1>5, <1>6, <1>7 DEF StreamInv

\* A connection is lost, or the browser has read an error.
LEMMA KeepLoss ==
    ASSUME StreamInv, Drop \/ ReceiveError
    PROVE  StreamInv'
<1>1. fatal \in BOOLEAN
  BY DEF StreamInv, TypeOK
<1>2. SocketGone /\ fatal' \in BOOLEAN /\ UNCHANGED <<log, based, base, last, history>>
  BY <1>1 DEF Drop, ReceiveError
<1>. QED BY <1>2, KeepSocketGone

\* A socket opens at the cursor of the page.
LEMMA KeepConnect ==
    ASSUME StreamInv, Connect
    PROVE  StreamInv'
<1>1. UNCHANGED <<table, chats, owed, nextSeq, saving, failed, fatal, based, base, last,
                  view, loaded, low, answer, fwd, woken, ring, lagged, thr, replaySeq, wire>>
  BY DEF Connect, log, history, channel
<1>2. /\ ~online /\ online' = TRUE /\ phase' = "open" /\ phase = "none" /\ wire = <<>>
      /\ cur' = (IF based THEN last + 1 ELSE 0) /\ last \in 0..MaxSeq /\ based \in BOOLEAN
      /\ fwd = "arm" /\ ring = <<>>
  BY DEF Connect, StreamInv, TasksPlace, TypeOK
<1>3. TypeOK'
  BY <1>1, <1>2 DEF StreamInv, TypeOK, LogTypeOK
<1>4. MarksGiven'
  <2>1. \A k : Given(k)' <=> Given(k)
    BY <1>1 DEF Given
  <2>2. cur' = 0 \/ cur' - 1 = last
    BY <1>2
  <2>. QED BY <1>1, <2>1, <2>2 DEF StreamInv, MarksGiven
<1>5. Len(wire) = 0
  BY <1>2
<1>6. MarksDivide' /\ TasksPlace' /\ ServerPosition'
  BY <1>1, <1>2, <1>5 DEF MarksDivide, TasksPlace, ServerPosition
<1>7. LogNumbers' /\ ChannelOrder' /\ NoSkip' /\ HistoryHolds' /\ NoGap'
  BY <1>1, Untouched DEF StreamInv
<1>. QED BY <1>3, <1>4, <1>6, <1>7 DEF StreamInv

\* What the reading of a frame leaves to the server.
LEMMA ServerAfterRead ==
    ASSUME StreamInv, NoSkip', MarksDivide', NEW n \in Nat, n + 1 = Len(wire), n = Len(wire'),
           UNCHANGED <<log, tasks, channel, replay, online>>, based', last' \in Nat,
           phase # "open", phase = "replay" => ~IsMark(1),
           \A e \in table : Ahead(e, n + 1) => Ahead(e, n)',
           \A e \in table : Beyond(e, n + 1) /\ ~IsMark(1) => Beyond(e, n)'
    PROVE  TasksPlace' /\ ServerPosition'
<1>1. UNCHANGED <<table, chats, owed, nextSeq, saving, failed, phase, fwd, woken, ring, lagged,
                  cur, thr, replaySeq, online>>
  BY DEF log, tasks, channel, replay
<1>2. wire # <<>>
  <2>1. Len(<<>>) = 0
    OBVIOUS
  <2>. QED BY <2>1
<1>3. TasksPlace'
  BY <1>1, <1>2 DEF StreamInv, TasksPlace
<1>4. Shown' = Shown /\ (\A e \in Shown : e \in table) /\ \A e : Coming(e)' <=> Coming(e)
  BY <1>1 DEF Shown, Coming
<1>5. CASE phase = "replay"
  <2>1. \A e \in Shown : e.seq < cur => Ahead(e, n)'
    BY <1>4, <1>5 DEF StreamInv, ServerPosition
  <2>2. \A e \in table : e.seq > thr => Beyond(e, n)' /\ Coming(e)
    BY <1>5 DEF StreamInv, ServerPosition
  <2>3. /\ \A e \in Shown' : e.seq < cur' => Ahead(e, Len(wire))'
        /\ \A e \in table' : e.seq > thr' => Beyond(e, Len(wire))' /\ Coming(e)'
    BY <1>1, <1>4, <2>1, <2>2
  <2>4. phase' = "replay"
    BY <1>1, <1>5
  <2>. QED BY <1>3, <2>3, <2>4 DEF ServerPosition
<1>6. CASE phase \in {"started", "done"}
  <2>1. \A e \in Shown : e.seq <= replaySeq => Ahead(e, n)'
    BY <1>4, <1>6 DEF StreamInv, ServerPosition
  <2>2. \A e \in Shown' : e.seq <= replaySeq' => Ahead(e, Len(wire))'
    BY <1>1, <1>4, <2>1
  <2>3. /\ fwd # "lag" => \A e \in Shown' : e.seq > replaySeq' => Coming(e)'
        /\ fwd = "lag" => \A e \in Shown' : e.seq > thr' => Coming(e)'
    BY <1>1, <1>4, <1>6 DEF StreamInv, ServerPosition
  <2>4. phase' \in {"started", "done"} /\ fwd' = fwd
    BY <1>1, <1>6
  <2>. QED BY <1>3, <2>2, <2>3, <2>4 DEF ServerPosition
<1>. QED BY <1>1, <1>3, <1>5, <1>6 DEF ServerPosition

\* The mark moves the cursor over no row that a based page has not had.
LEMMA KeepReceiveSubscribed ==
    ASSUME StreamInv, ReceiveSubscribed
    PROVE  /\ StreamInv'
           /\ based' /\ last' \in 0..MaxSeq /\ last' >= last
           /\ based => \A e \in Shown : ~(last < e.seq /\ e.seq <= last')
<1>1. /\ TypeOK /\ NoSkip /\ MarksDivide /\ wire \in Seq(Frame) /\ wire # <<>> /\ IsMark(1)
      /\ ~IsEvent(1) /\ wire' = Tail(wire) /\ based' /\ last \in 0..MaxSeq
  BY DEF StreamInv, TypeOK, ReceiveSubscribed, IsMark, IsEvent
<1>2. UNCHANGED <<table, chats, owed, nextSeq, saving, failed, phase, fwd, woken, ring, lagged,
                  cur, thr, replaySeq, online, fatal, view, loaded, low, answer>>
  BY DEF ReceiveSubscribed, log, tasks, channel, replay, history
<1>3. PICK n \in Nat : n + 1 = Len(wire) /\ n = Len(wire') /\ 1 \in 1..Len(wire)
  <2>1. /\ Len(wire) \in Nat /\ 1 <= Len(wire) /\ Len(wire') = Len(wire) - 1
        /\ Len(wire) - 1 \in Nat /\ (Len(wire) - 1) + 1 = Len(wire)
    BY <1>1
  <2>2. 1 \in 1..Len(wire)
    BY <2>1
  <2>. QED BY <2>1, <2>2
<1>4. PICK t \in 0..MaxSeq : t = wire[1].through
  <2>1. wire[1] \in Frame
    BY <1>1, <1>3
  <2>. QED BY <1>1, <2>1, FrameOf DEF IsMark
<1>5. base' = t /\ last' \in {last, t} /\ last' >= last /\ last' >= t /\ last' \in 0..MaxSeq
  <2>1. {last, t} \in SUBSET (0..MaxSeq) /\ {last, t} # {}
    BY <1>1
  <2>2. Max({last, t}) \in {last, t} /\ \A m \in {last, t} : m <= Max({last, t})
    BY <2>1, Extremes
  <2>3. last' = Max({last, t}) /\ base' = t
    BY <1>4 DEF ReceiveSubscribed
  <2>. QED BY <1>1, <2>2, <2>3
<1>6. /\ NoSkip' /\ MarksDivide' /\ wire' \in Seq(Frame)
      /\ \A e \in table : Ahead(e, n + 1) => Ahead(e, n)'
      /\ \A e \in table : Beyond(e, n + 1) /\ ~IsMark(1) => Beyond(e, n)'
  <2>1. UNCHANGED <<log, phase>> /\ last' \in Nat
    BY <1>2, <1>5 DEF log
  <2>. QED BY <1>1, <1>3, <1>4, <1>5, <2>1, Pop
<1>7. Given(t) /\ (based => \A e \in Shown : e.seq <= t => Ahead(e, 0))
  BY <1>1, <1>3, <1>4 DEF NoSkip
<1>8. based => \A e \in Shown : e.seq <= t => e.seq <= last
  BY <1>7 DEF Ahead
<1>9. \A e \in table : e.seq > t => e.seq > last
  BY <1>1, <1>3, <1>4 DEF MarksDivide, Beyond
<1>10. phase \notin {"open", "replay"}
  BY <1>1, <1>3 DEF MarksDivide
<1>11. TasksPlace' /\ ServerPosition'
  <2>1. UNCHANGED <<log, tasks, channel, replay, online>> /\ last' \in Nat
    BY <1>2, <1>5 DEF log, tasks, channel, replay
  <2>. QED BY <1>1, <1>3, <1>6, <1>10, <2>1, ServerAfterRead
<1>12. TypeOK'
  BY <1>1, <1>2, <1>5, <1>6 DEF TypeOK, LogTypeOK
<1>13. MarksGiven'
  <2>1. \A k : Given(k)' <=> Given(k)
    BY <1>2 DEF Given
  <2>. QED BY <1>2, <1>5, <1>7, <2>1 DEF StreamInv, MarksGiven
<1>14. ~based => loaded = {} /\ \A c \in Chat : ~answer[c].sent
  BY DEF StreamInv, HistoryHolds
<1>15. \A c \in chats : \A k \in Rows(c) :
         k \in Nat /\ (k > t => k > last) /\ (based /\ k <= t => k <= last)
  <2>. SUFFICES ASSUME NEW c \in chats, NEW k \in Rows(c)
                PROVE  k \in Nat /\ (k > t => k > last) /\ (based /\ k <= t => k <= last)
    OBVIOUS
  <2>1. PICK e \in table : e.chat = c /\ e.seq = k
    BY DEF Rows
  <2>2. e \in Shown /\ e.seq \in Nat
    BY <1>1, <2>1 DEF Shown, TypeOK, LogTypeOK, Event
  <2>. QED BY <1>8, <1>9, <2>1, <2>2
<1>16. \A c : Rows(c)' = Rows(c) /\ PageLow(c)' = PageLow(c)
  BY <1>2 DEF Rows, PageLow
<1>17. HistoryHolds'
  <2>1. base' <= last' /\ base' = t
    BY <1>5
  <2>2. \A c \in Chat : low[c] <= last' /\ (answer[c].sent => PageLow(c) \in 0..last')
    <3>1. \A c \in Chat : low[c] \in Nat
      BY <1>1 DEF TypeOK
    <3>. QED BY <1>1, <1>5, <3>1 DEF StreamInv, HistoryHolds
  <2>3. \A c \in chats : \A k \in Rows(c) : ~(t < k /\ k <= last')
    BY <1>1, <1>5, <1>15
  <2>4. \A c \in chats : c \in Chat
    BY <1>1 DEF TypeOK, LogTypeOK
  <2>5. ASSUME NEW c \in chats, answer[c].sent
        PROVE  /\ answer[c].seqs \subseteq Rows(c)
               /\ \A k \in answer[c].seqs : k <= last'
               /\ \A k \in Rows(c) : PageLow(c) <= k /\ k <= last' => k \in view[c] \cup answer[c].seqs
    <3>1. based
      BY <1>14, <2>4, <2>5
    <3>2. \A k \in Rows(c) : k \in Nat /\ (k <= last' => k <= last)
      BY <1>1, <1>5, <1>15, <3>1
    <3>3. /\ answer[c].seqs \subseteq Rows(c)
          /\ \A k \in answer[c].seqs : k <= last
          /\ \A k \in Rows(c) : PageLow(c) <= k /\ k <= last => k \in view[c] \cup answer[c].seqs
      BY <2>5 DEF StreamInv, HistoryHolds
    <3>. QED BY <1>1, <1>5, <3>2, <3>3
  <2>. QED BY <1>1, <1>2, <1>16, <2>1, <2>2, <2>3, <2>5 DEF HistoryHolds
<1>18. NoGap'
  <2>. SUFFICES ASSUME NEW c \in loaded \cap chats, NEW k \in Rows(c), low[c] <= k, k <= last'
                PROVE  k \in view[c]
    BY <1>2, <1>16 DEF NoGap
  <2>1. based
    BY <1>14
  <2>2. k <= last
    BY <1>1, <1>5, <1>15, <2>1
  <2>. QED BY <2>2 DEF StreamInv, NoGap
<1>19. LogNumbers' /\ ChannelOrder'
  BY <1>2, Untouched DEF StreamInv
<1>20. based => \A e \in Shown : ~(last < e.seq /\ e.seq <= last')
  <2>1. \A e \in Shown : e.seq \in Nat
    BY <1>1 DEF Shown, TypeOK, LogTypeOK, Event
  <2>. QED BY <1>1, <1>5, <1>8, <2>1
<1>21. StreamInv'
  BY <1>6, <1>11, <1>12, <1>13, <1>17, <1>18, <1>19 DEF StreamInv
<1>. QED BY <1>1, <1>5, <1>20, <1>21

\* An event moves the cursor over itself and over nothing else that exists.
LEMMA KeepReceiveEvent ==
    ASSUME StreamInv, ReceiveEvent
    PROVE  /\ StreamInv'
           /\ based /\ last' \in 0..MaxSeq /\ last' >= last
           /\ wire[1].event.chat \in chats => wire[1].event \in Shown
           /\ wire[1].event \in Event
           /\ \A d \in Shown : last < d.seq /\ d.seq <= wire[1].event.seq => d = wire[1].event
<1>1. /\ TypeOK /\ NoSkip /\ MarksDivide /\ wire \in Seq(Frame) /\ wire # <<>> /\ IsEvent(1)
      /\ ~IsMark(1) /\ wire' = Tail(wire) /\ last \in 0..MaxSeq /\ base \in 0..MaxSeq
  BY DEF StreamInv, TypeOK, ReceiveEvent, IsMark, IsEvent
<1>2. UNCHANGED <<table, chats, owed, nextSeq, saving, failed, phase, fwd, woken, ring, lagged,
                  cur, thr, replaySeq, online, fatal, based, base, loaded, low, answer>>
  BY DEF ReceiveEvent, log, tasks, channel, replay
<1>3. PICK n \in Nat : n + 1 = Len(wire) /\ n = Len(wire') /\ 1 \in 1..Len(wire)
  <2>1. /\ Len(wire) \in Nat /\ 1 <= Len(wire) /\ Len(wire') = Len(wire) - 1
        /\ Len(wire) - 1 \in Nat /\ (Len(wire) - 1) + 1 = Len(wire)
    BY <1>1
  <2>2. 1 \in 1..Len(wire)
    BY <2>1
  <2>. QED BY <2>1, <2>2
<1>4. PICK e \in Event : e = wire[1].event
  <2>1. wire[1] \in Frame
    BY <1>1, <1>3
  <2>. QED BY <1>1, <2>1, FrameOf DEF IsEvent
<1>5. /\ based /\ e.seq \in 1..MaxSeq /\ e.seq \in Nat /\ last \in Nat /\ Given(e.seq)
      /\ e.chat \in chats => e \in table
      /\ \A d \in Shown : d.seq <= e.seq => Ahead(d, 1)
  BY <1>1, <1>3, <1>4 DEF NoSkip, MarksDivide, Event
<1>6. \A d \in Shown : last < d.seq /\ d.seq <= e.seq => d = e
  <2>1. \A d \in Shown : d.seq \in Nat
    BY <1>1 DEF Shown, TypeOK, LogTypeOK, Event
  <2>2. \A d \in Shown : Ahead(d, 1) => d.seq <= last \/ d = e
    BY <1>1, <1>4 DEF Ahead
  <2>. QED BY <1>5, <2>1, <2>2
<1>7. /\ last' \in 0..MaxSeq /\ last' >= last /\ last' >= e.seq /\ (last' = last \/ last' = e.seq)
      /\ Given(last')
      /\ view' \in [Chat -> SUBSET (1..MaxSeq)]
      /\ \A c \in Chat : view[c] \subseteq view'[c]
      /\ \A c \in Chat : last' # last /\ c = e.chat => e.seq \in view'[c]
  <2>1. Given(last)
    BY DEF StreamInv, MarksGiven
  <2>2. view \in [Chat -> SUBSET (1..MaxSeq)]
    BY <1>1 DEF TypeOK
  <2>3. CASE e.seq <= last
    <3>1. last' = last /\ view' = view
      BY <1>4, <2>3 DEF ReceiveEvent
    <3>. QED BY <1>1, <1>5, <2>1, <2>2, <2>3, <3>1
  <2>4. CASE ~(e.seq <= last)
    <3>1. last' = e.seq /\ view' = [c \in Chat |-> view[c] \cup {k \in {e.seq} : c = e.chat}]
      BY <1>4, <2>4 DEF ReceiveEvent
    <3>2. \A c \in Chat : view[c] \cup {k \in {e.seq} : c = e.chat} \in SUBSET (1..MaxSeq)
      BY <1>5, <2>2
    <3>3. view' \in [Chat -> SUBSET (1..MaxSeq)]
      BY <3>1, <3>2
    <3>4. \A c \in Chat : view[c] \subseteq view'[c] /\ (c = e.chat => e.seq \in view'[c])
      BY <3>1
    <3>. QED BY <1>1, <1>5, <2>4, <3>1, <3>3, <3>4
  <2>. QED BY <2>3, <2>4
<1>8. /\ NoSkip' /\ MarksDivide' /\ wire' \in Seq(Frame)
      /\ \A d \in table : Ahead(d, n + 1) => Ahead(d, n)'
      /\ \A d \in table : Beyond(d, n + 1) /\ ~IsMark(1) => Beyond(d, n)'
  <2>1. UNCHANGED <<log, phase>> /\ last' \in Nat /\ based'
    BY <1>2, <1>5, <1>7 DEF log
  <2>. QED BY <1>1, <1>3, <1>4, <1>7, <2>1, Pop
<1>9. phase # "open"
  BY <1>1 DEF StreamInv, TasksPlace
<1>10. TasksPlace' /\ ServerPosition'
  <2>1. UNCHANGED <<log, tasks, channel, replay, online>> /\ last' \in Nat /\ based'
    BY <1>2, <1>5, <1>7 DEF log, tasks, channel, replay
  <2>. QED BY <1>1, <1>3, <1>8, <1>9, <2>1, ServerAfterRead
<1>11. TypeOK'
  BY <1>1, <1>2, <1>7, <1>8 DEF TypeOK, LogTypeOK
<1>12. MarksGiven'
  <2>1. \A k : Given(k)' <=> Given(k)
    BY <1>2 DEF Given
  <2>. QED BY <1>2, <1>7, <2>1 DEF StreamInv, MarksGiven
<1>13. \A c \in chats : c \in Chat
  BY <1>1 DEF TypeOK, LogTypeOK
<1>14. \A c \in chats : \A k \in Rows(c) : k \in Nat /\ (k <= last' => k <= last \/ k \in view'[c])
  <2>. SUFFICES ASSUME NEW c \in chats, NEW k \in Rows(c)
                PROVE  k \in Nat /\ (k <= last' => k <= last \/ k \in view'[c])
    OBVIOUS
  <2>1. PICK d \in table : d.chat = c /\ d.seq = k
    BY DEF Rows
  <2>2. d \in Shown /\ d.seq \in Nat
    BY <1>1, <2>1 DEF Shown, TypeOK, LogTypeOK, Event
  <2>3. k <= last' => k <= last \/ (d = e /\ last' # last)
    BY <1>5, <1>6, <1>7, <2>1, <2>2
  <2>. QED BY <1>7, <1>13, <2>1, <2>2, <2>3
<1>15. \A c : Rows(c)' = Rows(c) /\ PageLow(c)' = PageLow(c)
  BY <1>2 DEF Rows, PageLow
<1>16. HistoryHolds'
  <2>1. base' <= last'
    BY <1>1, <1>2, <1>7 DEF StreamInv, HistoryHolds
  <2>2. \A c \in Chat : low[c] <= last' /\ (answer[c].sent => PageLow(c) \in 0..last')
    <3>1. \A c \in Chat : low[c] \in Nat
      BY <1>1 DEF TypeOK
    <3>. QED BY <1>1, <1>7, <3>1 DEF StreamInv, HistoryHolds
  <2>3. \A c \in chats : \A k \in Rows(c) : base < k /\ k <= last' => k \in view'[c]
    <3>1. \A c \in chats : \A k \in Rows(c) : base < k /\ k <= last => k \in view[c]
      BY DEF StreamInv, HistoryHolds
    <3>. QED BY <1>7, <1>13, <1>14, <3>1
  <2>4. ASSUME NEW c \in chats, answer[c].sent
        PROVE  /\ answer[c].seqs \subseteq Rows(c)
               /\ \A k \in answer[c].seqs : k <= last'
               /\ \A k \in Rows(c) : PageLow(c) <= k /\ k <= last' => k \in view'[c] \cup answer[c].seqs
    <3>1. /\ answer[c].seqs \subseteq Rows(c)
          /\ \A k \in answer[c].seqs : k <= last
          /\ \A k \in Rows(c) : PageLow(c) <= k /\ k <= last => k \in view[c] \cup answer[c].seqs
      BY <2>4 DEF StreamInv, HistoryHolds
    <3>2. \A k \in answer[c].seqs : k <= last'
      <4>1. \A k \in answer[c].seqs : k \in Nat
        BY <1>14, <3>1
      <4>. QED BY <1>5, <1>7, <3>1, <4>1
    <3>3. \A k \in Rows(c) : PageLow(c) <= k /\ k <= last' => k \in view'[c] \cup answer[c].seqs
      BY <1>7, <1>13, <1>14, <3>1
    <3>. QED BY <3>1, <3>2, <3>3
  <2>. QED BY <1>2, <1>5, <1>15, <2>1, <2>2, <2>3, <2>4 DEF HistoryHolds
<1>17. NoGap'
  <2>1. \A c \in loaded \cap chats : \A k \in Rows(c) : low[c] <= k /\ k <= last => k \in view[c]
    BY DEF StreamInv, NoGap
  <2>2. \A c \in loaded \cap chats : \A k \in Rows(c) : low[c] <= k /\ k <= last' => k \in view'[c]
    BY <1>7, <1>13, <1>14, <2>1
  <2>. QED BY <1>2, <1>15, <2>2 DEF NoGap
<1>18. LogNumbers' /\ ChannelOrder'
  BY <1>2, Untouched DEF StreamInv
<1>19. StreamInv'
  BY <1>8, <1>10, <1>11, <1>12, <1>16, <1>17, <1>18 DEF StreamInv
<1>20. wire[1].event.chat \in chats => wire[1].event \in Shown
  BY <1>4, <1>5 DEF Shown
<1>. QED BY <1>4, <1>5, <1>6, <1>7, <1>19, <1>20

\* The faults that do not make numbers come twice: a start reads the next number
\* from the rows, and rows are gone only with their chat.
NoReuse == ~({"delete", "restart"} \subseteq Faults)

\* A start: with all rows there, the next number is the one it was.
LEMMA KeepRestart ==
    ASSUME StreamInv, NoReuse, Restart
    PROVE  StreamInv'
<1>1. /\ "delete" \notin Faults
      /\ UNCHANGED <<table, chats, fatal, based, base, last, view, loaded, low>>
      /\ nextSeq' = MaxEventSeq + 1 /\ saving' = NoEvent /\ failed' = FALSE /\ owed' = {}
      /\ answer' = [c \in Chat |-> NoPage]
  BY DEF NoReuse, Restart, ReopenLog
<1>2. /\ phase' = "none" /\ fwd' = "arm" /\ woken' = FALSE /\ ring' = <<>> /\ lagged' = FALSE
      /\ cur' = 0 /\ thr' = 0 /\ replaySeq' = 0 /\ online' = FALSE /\ wire' = <<>>
  BY DEF Restart, SocketGone, SocketEnds
<1>3. /\ MaxEventSeq \in 0..MaxSeq
      /\ \A e \in table : e.seq \in 1..MaxSeq /\ e.seq <= MaxEventSeq
      /\ MaxEventSeq = 0 \/ \E e \in table : e.seq = MaxEventSeq
  BY MarkOf DEF StreamInv, TypeOK
<1>4. \A k \in 0..MaxSeq : Given(k)' <=> k <= MaxEventSeq
  BY <1>1, <1>3 DEF Given
<1>5. ASSUME NEW k \in 0..MaxSeq, Given(k) PROVE k <= MaxEventSeq
  <2>1. CASE k = 0
    BY <1>3, <2>1
  <2>2. CASE k # 0
    <3>1. k \in 1..MaxSeq
      BY <2>2
    <3>2. \E e \in table : e.seq = k
      BY <1>1, <1>5, <3>1 DEF StreamInv, LogNumbers
    <3>. QED BY <1>3, <3>2
  <2>. QED BY <2>1, <2>2
<1>6. TypeOK'
  <2>1. /\ <<>> \in Seq(Event) /\ Len(<<>>) <= RingSize /\ <<>> \in Seq(Frame)
    BY StreamAssumption
  <2>2. 0 \in 0..MaxSeq /\ 0 \in 0..(MaxSeq + 1)
    BY LogAssumption
  <2>3. LogTypeOK'
    <3>1. nextSeq' \in 1..(MaxSeq + 1)
      BY <1>1, <1>3, LogAssumption
    <3>2. table \in SUBSET Event /\ chats \in SUBSET Chat
      BY DEF StreamInv, TypeOK, LogTypeOK
    <3>. QED BY <1>1, <3>1, <3>2 DEF LogTypeOK
  <2>4. /\ ring' \in Seq(Event) /\ Len(ring') <= RingSize /\ wire' \in Seq(Frame)
        /\ cur' \in 0..(MaxSeq + 1) /\ thr' \in 0..MaxSeq /\ replaySeq' \in 0..MaxSeq
    BY <1>2, <2>1, <2>2
  <2>5. answer' \in [Chat -> [seqs : SUBSET (1..MaxSeq), older : BOOLEAN, sent : BOOLEAN]]
    BY <1>1 DEF NoPage
  <2>. QED BY <1>1, <1>2, <2>3, <2>4, <2>5 DEF StreamInv, TypeOK
<1>7. LogNumbers'
  <2>1. \A e \in table' : Given(e.seq)'
    <3>. SUFFICES ASSUME NEW e \in table PROVE e.seq < nextSeq'
      BY <1>1 DEF Given
    <3>. QED BY <1>1, <1>3
  <2>2. ASSUME NEW k \in 1..MaxSeq, Given(k)' PROVE \E e \in table' : e.seq = k
    <3>1. k <= MaxEventSeq
      BY <1>4, <2>2
    <3>2. PICK e \in table : e.seq = MaxEventSeq
      BY <1>3, <3>1
    <3>3. Given(e.seq) /\ e.seq \in Nat /\ nextSeq \in Nat
      BY <1>3, <3>2 DEF StreamInv, LogNumbers, TypeOK, LogTypeOK
    <3>4. Given(k)
      BY <3>1, <3>2, <3>3 DEF Given
    <3>. QED BY <1>1, <3>4 DEF StreamInv, LogNumbers
  <2>3. \A d, e \in table' : d.seq = e.seq => d = e
    BY <1>1 DEF StreamInv, LogNumbers
  <2>. QED BY <1>1, <2>1, <2>2, <2>3 DEF LogNumbers
<1>8. Len(wire') = 0 /\ Len(ring') = 0
  BY <1>2
<1>9. NoSkip' /\ MarksDivide' /\ TasksPlace' /\ ServerPosition' /\ ChannelOrder'
  BY <1>2, <1>8 DEF NoSkip, MarksDivide, TasksPlace, ServerPosition, ChannelOrder
<1>10. MarksGiven'
  <2>1. last \in 0..MaxSeq /\ base \in 0..MaxSeq /\ 0 \in 0..MaxSeq /\ Given(last) /\ Given(base)
    BY LogAssumption DEF StreamInv, TypeOK, MarksGiven
  <2>2. last <= MaxEventSeq /\ base <= MaxEventSeq /\ 0 <= MaxEventSeq
    BY <1>3, <1>5, <2>1
  <2>3. Given(last)' /\ Given(base)' /\ Given(thr)' /\ Given(replaySeq)'
    BY <1>1, <1>2, <1>3, <2>1, <2>2 DEF Given
  <2>. QED BY <1>2, <2>3 DEF MarksGiven
<1>11. HistoryHolds'
  <2>1. \A c : Rows(c)' = Rows(c)
    BY <1>1 DEF Rows
  <2>2. \A c \in Chat : ~answer'[c].sent
    BY <1>1 DEF NoPage
  <2>3. \A c \in chats : c \in Chat
    BY DEF StreamInv, TypeOK, LogTypeOK
  <2>. QED BY <1>1, <2>1, <2>2, <2>3 DEF StreamInv, HistoryHolds
<1>12. NoGap'
  BY <1>1, Untouched DEF StreamInv
<1>. QED BY <1>6, <1>7, <1>9, <1>10, <1>11, <1>12 DEF StreamInv

-----------------------------------------------------------------------------
(* History pages.                                                          *)

\* What is asked for, and what the page that answers is, when all rows from
\* the asked part on are in the reducer.
LEMMA KeepAsk ==
    ASSUME StreamInv, NEW c \in Chat, based, NEW rows \in SUBSET Rows(c), Ask(c, rows),
           \A n \in rows : n <= last,
           \A n \in Rows(c) : n <= last => n \in rows \cup view[c]
    PROVE  StreamInv'
<1>1. /\ c \in chats /\ answer' = [answer EXCEPT ![c] = ChatPage(rows)]
      /\ UNCHANGED <<table, chats, owed, nextSeq, saving, failed, phase, fwd, woken, ring, lagged,
                     cur, thr, replaySeq, wire, online, fatal, based, base, last, view, loaded, low>>
  BY DEF Ask, log, socket, tasks, channel, replay, cursor
<1>2. /\ TypeOK /\ last \in Nat
      /\ answer \in [Chat -> [seqs : SUBSET (1..MaxSeq), older : BOOLEAN, sent : BOOLEAN]]
  BY DEF StreamInv, TypeOK
<1>3. rows \in SUBSET (1..MaxSeq)
  BY <1>2 DEF Rows, TypeOK, LogTypeOK, Event
<1>4. PICK p : p = ChatPage(rows)
  OBVIOUS
<1>5. /\ p \in [seqs : SUBSET (1..MaxSeq), older : BOOLEAN, sent : BOOLEAN]
      /\ p.sent /\ p.seqs \subseteq rows
      /\ p.older => Min(p.seqs) \in p.seqs
      /\ \A n \in rows : (p.older => n >= Min(p.seqs)) => n \in p.seqs
  BY <1>3, <1>4, ChatPageOf
<1>6. /\ answer' \in [Chat -> [seqs : SUBSET (1..MaxSeq), older : BOOLEAN, sent : BOOLEAN]]
      /\ answer'[c] = p /\ \A x \in Chat : x # c => answer'[x] = answer[x]
  BY <1>1, <1>2, <1>4, <1>5
<1>7. TypeOK'
  BY <1>1, <1>2, <1>6 DEF TypeOK, LogTypeOK
<1>8. \A x : Rows(x)' = Rows(x)
  BY <1>1 DEF Rows
<1>9. \A x \in Chat : x # c => PageLow(x)' = PageLow(x)
  BY <1>6 DEF PageLow
<1>10. PageLow(c)' = IF p.older THEN Min(p.seqs) ELSE 0
  BY <1>6 DEF PageLow
<1>11. PageLow(c)' \in 0..last
  <2>1. CASE p.older
    <3>1. Min(p.seqs) \in rows /\ Min(p.seqs) \in Nat
      BY <1>3, <1>5, <2>1
    <3>. QED BY <1>2, <1>10, <2>1, <3>1
  <2>2. CASE ~p.older
    BY <1>2, <1>10, <2>2
  <2>. QED BY <2>1, <2>2
<1>12. \A n \in Rows(c) : PageLow(c)' <= n /\ n <= last => n \in view[c] \cup p.seqs
  <2>. SUFFICES ASSUME NEW n \in Rows(c), PageLow(c)' <= n, n <= last, n \notin view[c]
                PROVE  n \in p.seqs
    OBVIOUS
  <2>1. n \in rows /\ n \in Nat
    BY <1>3
  <2>2. p.older => n >= Min(p.seqs)
    <3>. SUFFICES ASSUME p.older PROVE n >= Min(p.seqs)
      OBVIOUS
    <3>1. Min(p.seqs) \in Nat /\ Min(p.seqs) <= n
      BY <1>3, <1>5, <1>10
    <3>. QED BY <2>1, <3>1
  <2>. QED BY <1>5, <2>1, <2>2
<1>13. HistoryHolds'
  <2>1. \A x \in chats : x \in Chat
    BY <1>2 DEF TypeOK, LogTypeOK
  <2>2. \A x \in Chat : low[x] <= last /\ (answer'[x].sent => PageLow(x)' \in 0..last)
    BY <1>6, <1>9, <1>11 DEF StreamInv, HistoryHolds
  <2>3. ASSUME NEW x \in chats, answer'[x].sent
        PROVE  /\ answer'[x].seqs \subseteq Rows(x)
               /\ \A n \in answer'[x].seqs : n <= last
               /\ \A n \in Rows(x) : PageLow(x)' <= n /\ n <= last => n \in view[x] \cup answer'[x].seqs
    <3>1. CASE x = c
      <4>1. answer'[x].seqs = p.seqs
        BY <1>6, <3>1
      <4>. QED BY <1>5, <1>12, <3>1, <4>1
    <3>2. CASE x # c
      <4>1. answer'[x] = answer[x] /\ PageLow(x)' = PageLow(x)
        BY <1>6, <1>9, <2>1, <3>2
      <4>. QED BY <2>3, <4>1 DEF StreamInv, HistoryHolds
    <3>. QED BY <3>1, <3>2
  <2>. QED BY <1>1, <1>8, <2>2, <2>3 DEF StreamInv, HistoryHolds
<1>14. /\ LogNumbers' /\ ChannelOrder' /\ MarksGiven' /\ NoSkip' /\ MarksDivide' /\ TasksPlace'
       /\ ServerPosition' /\ NoGap'
  BY <1>1, Untouched DEF StreamInv
<1>. QED BY <1>7, <1>13, <1>14 DEF StreamInv

\* The first page covers what is at or below the mark; the socket has brought
\* the rest.  An older page covers what is below the cursor of the reducer.
LEMMA KeepHistory ==
    ASSUME StreamInv, NEW c \in Chat, AskHistory(c) \/ AskOlder(c)
    PROVE  StreamInv'
<1>1. /\ TypeOK /\ last \in Nat /\ base \in Nat /\ base <= last /\ low[c] \in Nat /\ low[c] <= last
      /\ \A n \in Rows(c) : n \in Nat
  BY DEF StreamInv, TypeOK, HistoryHolds, Rows, LogTypeOK, Event
<1>2. CASE AskHistory(c)
  <2>1. PICK rows \in SUBSET Rows(c) : rows = {n \in Rows(c) : n <= base}
    OBVIOUS
  <2>2. c \in chats /\ based /\ Ask(c, rows)
    BY <1>2, <2>1 DEF AskHistory, Ask
  <2>3. \A n \in rows : n <= last
    BY <1>1, <2>1
  <2>4. \A n \in Rows(c) : n <= last => n \in rows \cup view[c]
    <3>1. \A n \in Rows(c) : base < n /\ n <= last => n \in view[c]
      BY <2>2 DEF StreamInv, HistoryHolds
    <3>2. \A n \in Rows(c) : n <= base \/ base < n
      BY <1>1
    <3>. QED BY <2>1, <3>1, <3>2
  <2>. QED BY <2>2, <2>3, <2>4, KeepAsk
<1>3. CASE AskOlder(c)
  <2>1. PICK rows \in SUBSET Rows(c) : rows = {n \in Rows(c) : n < low[c]}
    OBVIOUS
  <2>2. c \in loaded \cap chats /\ Ask(c, rows)
    BY <1>3, <2>1 DEF AskOlder, Ask
  <2>3. based
    BY <2>2 DEF StreamInv, HistoryHolds
  <2>4. \A n \in rows : n <= last
    BY <1>1, <2>1
  <2>5. \A n \in Rows(c) : n <= last => n \in rows \cup view[c]
    <3>1. \A n \in Rows(c) : low[c] <= n /\ n <= last => n \in view[c]
      BY <2>2 DEF StreamInv, NoGap
    <3>2. \A n \in Rows(c) : n < low[c] \/ low[c] <= n
      BY <1>1
    <3>. QED BY <2>1, <3>1, <3>2
  <2>. QED BY <2>2, <2>3, <2>4, <2>5, KeepAsk
<1>. QED BY <1>2, <1>3

\* A page joins what the socket has brought and moves the cursor of the reducer.
LEMMA KeepTakePage ==
    ASSUME StreamInv, NEW c \in Chat, TakePage(c)
    PROVE  StreamInv'
<1>1. /\ answer[c].sent
      /\ view' = [view EXCEPT ![c] = view[c] \cup answer[c].seqs]
      /\ loaded' = loaded \cup {c}
      /\ low' = [low EXCEPT ![c] = PageLow(c)]
      /\ answer' = [answer EXCEPT ![c] = NoPage]
      /\ UNCHANGED <<table, chats, owed, nextSeq, saving, failed, phase, fwd, woken, ring, lagged,
                     cur, thr, replaySeq, wire, online, fatal, based, base, last>>
  BY DEF TakePage, PageLow, log, socket, tasks, channel, replay, cursor
<1>2. /\ TypeOK /\ last \in 0..MaxSeq /\ NoPage.sent = FALSE
      /\ answer \in [Chat -> [seqs : SUBSET (1..MaxSeq), older : BOOLEAN, sent : BOOLEAN]]
      /\ view \in [Chat -> SUBSET (1..MaxSeq)] /\ low \in [Chat -> 0..MaxSeq]
      /\ NoPage \in [seqs : SUBSET (1..MaxSeq), older : BOOLEAN, sent : BOOLEAN]
  BY DEF StreamInv, TypeOK, NoPage
<1>3. PageLow(c) \in 0..last /\ PageLow(c) \in 0..MaxSeq /\ based
  <2>1. PageLow(c) \in 0..last /\ based
    BY <1>1 DEF StreamInv, HistoryHolds
  <2>. QED BY <1>2, <2>1
<1>4. /\ view' \in [Chat -> SUBSET (1..MaxSeq)] /\ low' \in [Chat -> 0..MaxSeq]
      /\ answer' \in [Chat -> [seqs : SUBSET (1..MaxSeq), older : BOOLEAN, sent : BOOLEAN]]
      /\ view'[c] = view[c] \cup answer[c].seqs /\ low'[c] = PageLow(c) /\ ~answer'[c].sent
      /\ \A x \in Chat : x # c => view'[x] = view[x] /\ low'[x] = low[x] /\ answer'[x] = answer[x]
  <2>1. answer[c].seqs \in SUBSET (1..MaxSeq)
    BY <1>2
  <2>. QED BY <1>1, <1>2, <1>3, <2>1
<1>5. TypeOK'
  BY <1>1, <1>2, <1>4 DEF TypeOK, LogTypeOK
<1>6. \A x : Rows(x)' = Rows(x)
  BY <1>1 DEF Rows
<1>7. \A x \in Chat : x # c => PageLow(x)' = PageLow(x)
  BY <1>4 DEF PageLow
<1>8. \A x \in chats : x \in Chat
  BY <1>2 DEF TypeOK, LogTypeOK
<1>9. \A x \in Chat : view[x] \subseteq view'[x]
  BY <1>4
<1>10. HistoryHolds'
  <2>1. \A x \in Chat : low'[x] <= last /\ (answer'[x].sent => PageLow(x)' \in 0..last)
    BY <1>2, <1>3, <1>4, <1>7 DEF StreamInv, HistoryHolds
  <2>2. \A x \in chats : \A n \in Rows(x) : base < n /\ n <= last => n \in view'[x]
    BY <1>8, <1>9 DEF StreamInv, HistoryHolds
  <2>3. ASSUME NEW x \in chats, answer'[x].sent
        PROVE  /\ answer'[x].seqs \subseteq Rows(x)
               /\ \A n \in answer'[x].seqs : n <= last
               /\ \A n \in Rows(x) : PageLow(x)' <= n /\ n <= last => n \in view'[x] \cup answer'[x].seqs
    <3>1. x # c /\ answer'[x] = answer[x] /\ PageLow(x)' = PageLow(x) /\ view'[x] = view[x]
      BY <1>4, <1>7, <1>8, <2>3
    <3>. QED BY <2>3, <3>1 DEF StreamInv, HistoryHolds
  <2>. QED BY <1>1, <1>3, <1>6, <2>1, <2>2, <2>3 DEF StreamInv, HistoryHolds
<1>11. NoGap'
  <2>. SUFFICES ASSUME NEW x \in loaded' \cap chats, NEW n \in Rows(x), low'[x] <= n, n <= last
                PROVE  n \in view'[x]
    BY <1>1, <1>6 DEF NoGap
  <2>1. CASE x = c
    <3>1. PageLow(c) <= n
      BY <1>4, <2>1
    <3>2. n \in view[c] \cup answer[c].seqs
      BY <1>1, <2>1, <3>1 DEF StreamInv, HistoryHolds
    <3>. QED BY <1>4, <2>1, <3>2
  <2>2. CASE x # c
    BY <1>1, <1>4, <1>8, <2>2 DEF StreamInv, NoGap
  <2>. QED BY <2>1, <2>2
<1>12. /\ LogNumbers' /\ ChannelOrder' /\ MarksGiven' /\ NoSkip' /\ MarksDivide' /\ TasksPlace'
       /\ ServerPosition'
  BY <1>1, Untouched DEF StreamInv
<1>. QED BY <1>5, <1>10, <1>11, <1>12 DEF StreamInv

\* A page that is lost, and a chat whose state the browser drops.
LEMMA KeepForgotten ==
    ASSUME StreamInv, NEW c \in Chat, PageFails(c) \/ RemoveChatState(c)
    PROVE  StreamInv'
<1>1. UNCHANGED <<table, chats, owed, nextSeq, saving, failed, phase, fwd, woken, ring, lagged,
                  cur, thr, replaySeq, wire, online, fatal, based, base, last>>
  BY DEF PageFails, RemoveChatState, log, socket, tasks, channel, replay, cursor
<1>2. /\ TypeOK /\ last \in 0..MaxSeq
      /\ answer \in [Chat -> [seqs : SUBSET (1..MaxSeq), older : BOOLEAN, sent : BOOLEAN]]
      /\ view \in [Chat -> SUBSET (1..MaxSeq)] /\ low \in [Chat -> 0..MaxSeq]
      /\ \A x \in chats : x \in Chat
  BY DEF StreamInv, TypeOK, LogTypeOK
<1>3. /\ NoPage.sent = FALSE
      /\ NoPage \in [seqs : SUBSET (1..MaxSeq), older : BOOLEAN, sent : BOOLEAN]
  BY DEF NoPage
<1>4. \A x : Rows(x)' = Rows(x)
  BY <1>1 DEF Rows
<1>5. /\ LogNumbers' /\ ChannelOrder' /\ MarksGiven' /\ NoSkip' /\ MarksDivide' /\ TasksPlace'
      /\ ServerPosition'
  BY <1>1, Untouched DEF StreamInv
<1>6. CASE PageFails(c)
  <2>1. answer' = [answer EXCEPT ![c] = NoPage] /\ UNCHANGED <<view, loaded, low>>
    BY <1>6 DEF PageFails
  <2>2. /\ answer' \in [Chat -> [seqs : SUBSET (1..MaxSeq), older : BOOLEAN, sent : BOOLEAN]]
        /\ ~answer'[c].sent /\ \A x \in Chat : x # c => answer'[x] = answer[x]
    BY <1>2, <1>3, <2>1
  <2>3. TypeOK'
    BY <1>1, <1>2, <2>1, <2>2 DEF TypeOK, LogTypeOK
  <2>4. \A x \in Chat : answer'[x].sent =>
           answer[x].sent /\ answer'[x] = answer[x] /\ PageLow(x)' = PageLow(x)
    BY <2>2 DEF PageLow
  <2>5. HistoryHolds'
    <3>1. \A x \in Chat : low[x] <= last /\ (answer'[x].sent => PageLow(x)' \in 0..last)
      BY <2>4 DEF StreamInv, HistoryHolds
    <3>2. ASSUME NEW x \in chats, answer'[x].sent
          PROVE  /\ answer'[x].seqs \subseteq Rows(x)
                 /\ \A n \in answer'[x].seqs : n <= last
                 /\ \A n \in Rows(x) : PageLow(x)' <= n /\ n <= last => n \in view[x] \cup answer'[x].seqs
      <4>1. answer[x].sent /\ answer'[x] = answer[x] /\ PageLow(x)' = PageLow(x)
        BY <1>2, <2>4, <3>2
      <4>. QED BY <4>1 DEF StreamInv, HistoryHolds
    <3>3. ~based => \A x \in Chat : ~answer'[x].sent
      BY <2>4 DEF StreamInv, HistoryHolds
    <3>. QED BY <1>1, <1>4, <2>1, <3>1, <3>2, <3>3 DEF StreamInv, HistoryHolds
  <2>6. NoGap'
    BY <1>1, <2>1, Untouched DEF StreamInv
  <2>. QED BY <1>5, <2>3, <2>5, <2>6 DEF StreamInv
<1>7. CASE RemoveChatState(c)
  <2>1. /\ c \notin chats /\ UNCHANGED answer
        /\ view' = [view EXCEPT ![c] = {}] /\ loaded' = loaded \ {c} /\ low' = [low EXCEPT ![c] = 0]
    BY <1>7 DEF RemoveChatState
  <2>2. 0 \in 0..MaxSeq
    BY LogAssumption
  <2>3. /\ view' \in [Chat -> SUBSET (1..MaxSeq)] /\ low' \in [Chat -> 0..MaxSeq]
        /\ low'[c] = 0 /\ \A x \in Chat : x # c => view'[x] = view[x] /\ low'[x] = low[x]
    BY <1>2, <2>1, <2>2
  <2>4. TypeOK'
    BY <1>1, <1>2, <2>1, <2>3 DEF TypeOK, LogTypeOK
  <2>5. \A x : PageLow(x)' = PageLow(x)
    BY <2>1 DEF PageLow
  <2>6. \A x \in chats : view'[x] = view[x] /\ low'[x] = low[x]
    BY <1>2, <2>1, <2>3
  <2>7. HistoryHolds'
    <3>1. \A x \in Chat : low'[x] <= last
      BY <1>2, <2>3 DEF StreamInv, HistoryHolds
    <3>. QED BY <1>1, <1>4, <2>1, <2>5, <2>6, <3>1 DEF StreamInv, HistoryHolds
  <2>8. NoGap'
    BY <1>1, <1>4, <2>1, <2>6 DEF StreamInv, NoGap
  <2>. QED BY <1>5, <2>4, <2>7, <2>8 DEF StreamInv
<1>. QED BY <1>6, <1>7

-----------------------------------------------------------------------------
(* The invariant holds.                                                    *)

\* Nothing was sent, read or given out.
LEMMA StreamInit == Init => StreamInv
<1>. SUFFICES ASSUME Init PROVE StreamInv
  OBVIOUS
<1>1. /\ table = {} /\ chats = Chat /\ owed = {} /\ nextSeq = 1 /\ saving = NoEvent /\ failed = FALSE
      /\ phase = "none" /\ fwd = "arm" /\ woken = FALSE /\ ring = <<>> /\ lagged = FALSE
      /\ cur = 0 /\ thr = 0 /\ replaySeq = 0 /\ wire = <<>>
      /\ online = FALSE /\ fatal = FALSE /\ based = FALSE /\ base = 0 /\ last = 0
      /\ view = [c \in Chat |-> {}] /\ loaded = {} /\ low = [c \in Chat |-> 0]
      /\ answer = [c \in Chat |-> NoPage]
  BY DEF Init, LogInit
<1>2. TypeOK
  <2>1. /\ <<>> \in Seq(Event) /\ Len(<<>>) <= RingSize /\ <<>> \in Seq(Frame)
    BY StreamAssumption
  <2>2. 0 \in 0..MaxSeq /\ 0 \in 0..(MaxSeq + 1) /\ 1 \in 1..(MaxSeq + 1)
    BY LogAssumption
  <2>3. LogTypeOK
    BY <1>1, <2>2 DEF LogTypeOK
  <2>4. NoPage \in [seqs : SUBSET (1..MaxSeq), older : BOOLEAN, sent : BOOLEAN]
    BY DEF NoPage
  <2>5. /\ ring \in Seq(Event) /\ Len(ring) <= RingSize /\ wire \in Seq(Frame)
        /\ cur \in 0..(MaxSeq + 1) /\ thr \in 0..MaxSeq /\ replaySeq \in 0..MaxSeq
        /\ base \in 0..MaxSeq /\ last \in 0..MaxSeq
        /\ view \in [Chat -> SUBSET (1..MaxSeq)] /\ low \in [Chat -> 0..MaxSeq]
    BY <1>1, <2>1, <2>2
  <2>6. answer \in [Chat -> [seqs : SUBSET (1..MaxSeq), older : BOOLEAN, sent : BOOLEAN]]
    BY <1>1, <2>4
  <2>. QED BY <1>1, <2>3, <2>5, <2>6 DEF TypeOK
<1>3. Len(wire) = 0 /\ Len(ring) = 0
  BY <1>1
<1>4. LogNumbers /\ MarksGiven
  BY <1>1 DEF LogNumbers, MarksGiven, Given
<1>5. ChannelOrder /\ NoSkip /\ MarksDivide /\ TasksPlace /\ ServerPosition
  BY <1>1, <1>3 DEF ChannelOrder, NoSkip, MarksDivide, TasksPlace, ServerPosition
<1>6. HistoryHolds /\ NoGap
  BY <1>1 DEF HistoryHolds, NoGap, Rows, NoPage, PageLow
<1>. QED BY <1>2, <1>4, <1>5, <1>6 DEF StreamInv

\* One step per action.
LEMMA StreamNext ==
    ASSUME StreamInv, NoReuse, [Next]_vars
    PROVE  StreamInv'
<1>1. ASSUME NEW c \in Chat, AppendEvent(c) PROVE StreamInv'
  <2>1. SaveEvent(c) /\ UNCHANGED <<owed, socket, cursor, history>> /\ c \in Chat \cup {Meta}
    BY <1>1 DEF AppendEvent, SaveChatEvent
  <2>2. owed' \in SUBSET Chat
    BY <2>1 DEF StreamInv, TypeOK, LogTypeOK
  <2>. QED BY <2>1, <2>2, NewRow
<1>2. ASSUME NEW c \in Chat, AppendDeleted(c) PROVE StreamInv'
  <2>1. SaveEvent(Meta) /\ owed' = owed \ {c} /\ UNCHANGED <<socket, cursor, history>>
    BY <1>2 DEF AppendDeleted, NotifyDeleted
  <2>2. owed' \in SUBSET Chat /\ Meta \in Chat \cup {Meta}
    BY <2>1 DEF StreamInv, TypeOK, LogTypeOK
  <2>. QED BY <2>1, <2>2, NewRow
<1>3. ASSUME NEW c \in Chat, DeleteChat(c) PROVE StreamInv'
  BY <1>3, KeepDeleteChat
<1>4. CASE AppendFails \/ Publish \/ Restart
  BY <1>4, KeepAppendFails, KeepPublish, KeepRestart
<1>5. CASE SendTask
  BY <1>5, KeepWaiting, KeepForward, KeepNoticeLag, KeepCatchUp DEF SendTask
<1>6. CASE ActionTask
  BY <1>6, KeepSubscribe, KeepReplay, KeepWaiting DEF ActionTask
<1>7. CASE Connect \/ Receive \/ Drop
  BY <1>7, KeepConnect, KeepLoss, KeepReceiveSubscribed, KeepReceiveEvent DEF Receive
<1>8. ASSUME NEW c \in Chat,
             AskHistory(c) \/ AskOlder(c) \/ TakePage(c) \/ PageFails(c) \/ RemoveChatState(c)
      PROVE  StreamInv'
  BY <1>8, KeepHistory, KeepTakePage, KeepForgotten
<1>9. CASE UNCHANGED vars
  <2>1. UNCHANGED <<table, chats, owed, nextSeq, saving, failed, phase, fwd, woken, ring, lagged,
                    cur, thr, replaySeq, wire, online, fatal, based, base, last, view, loaded,
                    low, answer>>
    BY <1>9 DEF vars, log, tasks, channel, replay, cursor, history
  <2>2. TypeOK'
    BY <2>1 DEF StreamInv, TypeOK, LogTypeOK
  <2>. QED BY <2>1, <2>2, Untouched DEF StreamInv
<1>. QED BY <1>1, <1>2, <1>3, <1>4, <1>5, <1>6, <1>7, <1>8, <1>9 DEF Next

\* Unless sequence numbers may come twice, the log, the wire and the reducers
\* always fit together: no frame skips a row, marks divide what was sent from
\* what was not, and the pages on their way leave no gap.
THEOREM StreamInvHolds == NoReuse /\ Spec => []StreamInv
<1>1. Init => StreamInv
  BY StreamInit
<1>2. NoReuse /\ StreamInv /\ [Next]_vars => StreamInv'
  BY StreamNext
<1>3. NoReuse /\ Spec => []StreamInv
  <2>1. NoReuse => []NoReuse
    BY DEF NoReuse
  <2>. QED BY <1>1, <1>2, <2>1, PTL DEF Spec
<1>. QED BY <1>3

\* NoGap for every number of chats, events and faults that reuse no number.
THEOREM NoGapHolds == NoReuse /\ Spec => []NoGap
<1>1. StreamInv => NoGap
  BY DEF StreamInv
<1>. QED BY <1>1, StreamInvHolds, PTL

\* A page that reads a mark lacks no row up to it in a chat it has loaded.
THEOREM ReconnectCatchesUpHolds == NoReuse /\ Spec => ReconnectCatchesUp
<1>. DEFINE CatchesUp == \A c \in loaded \cap chats : \A n \in Rows(c) :
                             low[c] <= n /\ n <= base' => n \in view'[c]
<1>1. StreamInv /\ StreamInv' /\ ReceiveSubscribed => CatchesUp
  <2>. SUFFICES ASSUME StreamInv, StreamInv', ReceiveSubscribed,
                       NEW c \in loaded \cap chats, NEW n \in Rows(c), low[c] <= n, n <= base'
                PROVE  n \in view'[c]
    OBVIOUS
  <2>1. UNCHANGED <<table, chats, view, loaded, low>>
    BY DEF ReceiveSubscribed, log, history
  <2>2. Rows(c)' = Rows(c) /\ n \in Nat
    BY <2>1 DEF Rows, StreamInv, TypeOK, LogTypeOK, Event
  <2>3. base' \in Nat /\ last' \in Nat /\ base' <= last'
    BY DEF StreamInv, TypeOK, HistoryHolds
  <2>4. n <= last'
    BY <2>2, <2>3
  <2>5. \A d \in loaded' \cap chats' : \A k \in Rows(d)' : low'[d] <= k /\ k <= last' => k \in view'[d]
    BY DEF StreamInv, NoGap
  <2>. QED BY <2>1, <2>2, <2>4, <2>5
<1>2. StreamInv /\ StreamInv' /\ [Next]_vars => [ReceiveSubscribed => CatchesUp]_vars
  BY <1>1
<1>3. NoReuse /\ Spec => [][ReceiveSubscribed => CatchesUp]_vars
  BY <1>2, StreamInvHolds, PTL DEF Spec
<1>. QED BY <1>3 DEF ReconnectCatchesUp

-----------------------------------------------------------------------------
(* The stream implements the feed.                                         *)

\* What the reducers of the existing chats hold.
Held == UNION {[seq : view[c], chat : {c}] : c \in chats}
FeedMap == <<Shown, based, last, Held>>
FeedStep == Feed!FeedNext \/ UNCHANGED FeedMap

\* A row is held when the reducer of its chat has its number.
LEMMA HeldRows ==
    \A e : e \in Held <=> \E c \in chats : \E n \in view[c] : e = [seq |-> n, chat |-> c]
BY DEF Held

\* Steps that touch none of what the feed is made of.
LEMMA FeedSame ==
    ASSUME UNCHANGED <<table, chats, based, last>>, \A c \in chats : view'[c] = view[c]
    PROVE  FeedStep
<1>1. Held' = Held
  BY DEF Held
<1>2. Shown' = Shown
  BY DEF Shown
<1>. QED BY <1>1, <1>2 DEF FeedStep, FeedMap

\* A row of a chat that exists is beyond all others; a late one is not shown.
LEMMA FeedAppend ==
    ASSUME StreamInv, NEW c \in Chat \cup {Meta}, SaveEvent(c), UNCHANGED <<socket, cursor, history>>
    PROVE  FeedStep
<1>1. PICK e \in Event : /\ e = [seq |-> nextSeq, chat |-> c] /\ table' = table \cup {e}
                         /\ UNCHANGED chats /\ saving = NoEvent
  <2>1. [seq |-> nextSeq, chat |-> c] \in Event
    BY DEF StreamInv, TypeOK, LogTypeOK, SaveEvent, Event
  <2>. QED BY <2>1 DEF SaveEvent
<1>2. UNCHANGED <<based, last, view>>
  BY DEF cursor, history
<1>3. CASE c \notin chats
  <2>1. Shown' = Shown
    BY <1>1, <1>3 DEF Shown
  <2>2. Held' = Held
    BY <1>1, <1>2 DEF Held
  <2>. QED BY <1>2, <2>1, <2>2 DEF FeedStep, FeedMap
<1>4. CASE c \in chats
  <2>1. /\ e.seq > last /\ \A r \in Shown : e.seq > r.seq
    <3>1. last < nextSeq /\ (\A r \in table : r.seq < nextSeq) /\ e.seq = nextSeq
          /\ nextSeq \in Nat /\ last \in Nat /\ \A r \in table : r.seq \in Nat
      BY <1>1, GivenBelow DEF StreamInv, MarksGiven, LogNumbers, TypeOK, LogTypeOK, Event
    <3>. QED BY <3>1 DEF Shown
  <2>2. Shown' = Shown \cup {e} /\ Held' = Held
    BY <1>1, <1>2, <1>4 DEF Shown, Held
  <2>3. c \in Chat
    BY <1>4 DEF StreamInv, TypeOK, LogTypeOK
  <2>4. e \in [seq : 1..MaxSeq, chat : Chat]
    BY <1>1, <2>3 DEF Event
  <2>5. Feed!Add(e)
    BY <1>2, <2>1, <2>2 DEF Feed!Add, Shown, Held
  <2>. QED BY <2>4, <2>5 DEF Feed!FeedNext, FeedStep
<1>. QED BY <1>3, <1>4

\* A chat leaves the feed with its rows and with what was seen of them.
LEMMA FeedRemove ==
    ASSUME StreamInv, NEW c \in Chat, DeleteChat(c)
    PROVE  FeedStep
<1>1. /\ chats' = chats \ {c} /\ table' = {e \in table : e.chat # c}
      /\ UNCHANGED <<based, last, view>>
  BY DEF DeleteChat, DeleteEvents, cursor, history
<1>2. Shown' = {e \in Shown : e.chat # c}
  BY <1>1 DEF Shown
<1>3. Held' = {e \in Held : e.chat # c}
  <2>1. \A e : e \in Held' <=> \E x \in chats' : \E n \in view[x] : e = [seq |-> n, chat |-> x]
    BY <1>1 DEF Held
  <2>2. \A e : e \in Held /\ e.chat # c
                 <=> \E x \in chats \ {c} : \E n \in view[x] : e = [seq |-> n, chat |-> x]
    BY HeldRows
  <2>. QED BY <1>1, <2>1, <2>2
<1>4. Feed!Remove(c)
  BY <1>1, <1>2, <1>3 DEF Feed!Remove, Shown, Held
<1>. QED BY <1>4 DEF Feed!FeedNext, FeedStep

\* The mark is the start, or it passes what was passed before.
LEMMA FeedMark ==
    ASSUME StreamInv, ReceiveSubscribed
    PROVE  FeedStep
<1>1. /\ based' /\ last' \in 0..MaxSeq /\ last' >= last /\ based \in BOOLEAN /\ based' \in BOOLEAN
      /\ based => \A e \in Shown : ~(last < e.seq /\ e.seq <= last')
  BY KeepReceiveSubscribed DEF StreamInv, TypeOK
<1>2. UNCHANGED <<table, chats, view>>
  BY DEF ReceiveSubscribed, log, history
<1>3. Shown' = Shown /\ Held' = Held
  BY <1>2 DEF Shown, Held
<1>4. CASE ~based
  <2>1. Feed!Start(last')
    BY <1>1, <1>3, <1>4 DEF Feed!Start, Shown, Held
  <2>. QED BY <1>1, <2>1 DEF Feed!FeedNext, FeedStep
<1>5. CASE based
  <2>1. Held' = Held \cup {e \in Shown : last < e.seq /\ e.seq <= last'}
    BY <1>1, <1>3, <1>5
  <2>2. PICK n \in 0..MaxSeq : n = last'
    BY <1>1
  <2>3. Feed!Pass(n)
    BY <1>1, <1>3, <1>5, <2>1, <2>2 DEF Feed!Pass, Shown, Held
  <2>4. Feed!FeedNext
    BY <2>3 DEF Feed!FeedNext
  <2>. QED BY <2>4 DEF FeedStep
<1>. QED BY <1>1, <1>4, <1>5

\* An accepted event is the one row the cursor passes.
LEMMA FeedEvent ==
    ASSUME StreamInv, ReceiveEvent
    PROVE  FeedStep
<1>1. /\ based /\ last' \in 0..MaxSeq /\ last' >= last
      /\ wire[1].event.chat \in chats => wire[1].event \in Shown
      /\ wire[1].event \in Event
      /\ \A d \in Shown : last < d.seq /\ d.seq <= wire[1].event.seq => d = wire[1].event
  BY KeepReceiveEvent
<1>2. PICK e \in Event : e = wire[1].event
  BY <1>1
<1>3. UNCHANGED <<table, chats, based>>
  BY DEF ReceiveEvent, log
<1>4. Shown' = Shown /\ \A d \in Shown : d.chat \in chats
  BY <1>3 DEF Shown
<1>5. CASE e.seq <= last
  <2>1. UNCHANGED <<last, view>>
    BY <1>2, <1>5 DEF ReceiveEvent
  <2>. QED BY <1>3, <2>1, FeedSame
<1>6. CASE ~(e.seq <= last)
  <2>1. last' = e.seq /\ view' = [c \in Chat |-> view[c] \cup {n \in {e.seq} : c = e.chat}]
    BY <1>2, <1>6 DEF ReceiveEvent
  <2>2. \A c \in chats : c \in Chat
    BY DEF StreamInv, TypeOK, LogTypeOK
  <2>3. e = [seq |-> e.seq, chat |-> e.chat] /\ e.seq \in Nat /\ last \in Nat
    BY DEF Event, StreamInv, TypeOK
  <2>4. \A d : d \in Held' <=> d \in Held \/ (d = e /\ e.chat \in chats)
    <3>1. \A d : d \in Held' <=> \E c \in chats : \E n \in view'[c] : d = [seq |-> n, chat |-> c]
      BY <1>3 DEF Held
    <3>2. \A c \in chats : \A n : n \in view'[c] <=> n \in view[c] \/ (n = e.seq /\ c = e.chat)
      BY <2>1, <2>2
    <3>. QED BY <2>3, <3>1, <3>2, HeldRows
  <2>5. \A d : d \in Shown /\ last < d.seq /\ d.seq <= last' <=> d = e /\ e.chat \in chats
    BY <1>1, <1>2, <1>4, <1>6, <2>1, <2>3
  <2>6. Held' = Held \cup {d \in Shown : last < d.seq /\ d.seq <= last'}
    BY <2>4, <2>5
  <2>7. PICK n \in 0..MaxSeq : n = last'
    BY <1>1
  <2>8. Feed!Pass(n)
    BY <1>1, <1>3, <1>4, <2>6, <2>7 DEF Feed!Pass, Shown, Held
  <2>9. Feed!FeedNext
    BY <2>8 DEF Feed!FeedNext
  <2>. QED BY <2>9 DEF FeedStep
<1>. QED BY <1>5, <1>6

\* A history page holds rows that were passed.
LEMMA FeedLoad ==
    ASSUME StreamInv, NEW c \in Chat, TakePage(c)
    PROVE  FeedStep
<1>1. /\ answer[c].sent /\ view' = [view EXCEPT ![c] = view[c] \cup answer[c].seqs]
      /\ UNCHANGED <<table, chats, based, last>> /\ view \in [Chat -> SUBSET (1..MaxSeq)]
      /\ \A x \in chats : x \in Chat
  BY DEF TakePage, log, cursor, StreamInv, TypeOK, LogTypeOK
<1>2. view'[c] = view[c] \cup answer[c].seqs /\ \A x \in Chat : x # c => view'[x] = view[x]
  BY <1>1
<1>3. CASE c \notin chats
  <2>1. \A x \in chats : view'[x] = view[x]
    BY <1>1, <1>2, <1>3
  <2>. QED BY <1>1, <2>1, FeedSame
<1>4. CASE c \in chats
  <2>0. PICK old : old = [seq : answer[c].seqs, chat : {c}]
    OBVIOUS
  <2>1. /\ based /\ answer[c].seqs \subseteq Rows(c) /\ \A n \in answer[c].seqs : n <= last
    BY <1>1, <1>4 DEF StreamInv, HistoryHolds
  <2>2. \A e : e \in old <=> \E n \in answer[c].seqs : e = [seq |-> n, chat |-> c]
    BY <2>0
  <2>3. \A n \in answer[c].seqs : [seq |-> n, chat |-> c] \in Shown
    <3>. SUFFICES ASSUME NEW n \in answer[c].seqs PROVE [seq |-> n, chat |-> c] \in Shown
      OBVIOUS
    <3>1. PICK e \in table : e.chat = c /\ e.seq = n
      BY <2>1 DEF Rows
    <3>2. e = [seq |-> e.seq, chat |-> e.chat]
      BY DEF StreamInv, TypeOK, LogTypeOK, Event
    <3>. QED BY <1>4, <3>1, <3>2 DEF Shown
  <2>4. old \in SUBSET Shown /\ \A e \in old : e.seq <= last
    <3>1. \A e \in old : e \in Shown
      BY <2>2, <2>3
    <3>2. \A e \in old : e.seq \in answer[c].seqs
      BY <2>0
    <3>. QED BY <2>1, <3>1, <3>2
  <2>5. \A e : e \in Held' <=> e \in Held \/ e \in old
    <3>1. \A e : e \in Held' <=> \E x \in chats : \E n \in view'[x] : e = [seq |-> n, chat |-> x]
      BY <1>1 DEF Held
    <3>. QED BY <1>1, <1>2, <1>4, <2>2, <3>1, HeldRows
  <2>6. Held' = Held \cup old
    BY <2>5
  <2>7. Shown' = Shown
    BY <1>1 DEF Shown
  <2>8. Feed!Load(old)
    BY <1>1, <2>1, <2>4, <2>6, <2>7 DEF Feed!Load, Shown, Held
  <2>9. Feed!FeedNext
    BY <2>4, <2>8 DEF Feed!FeedNext, Shown
  <2>. QED BY <2>9 DEF FeedStep
<1>. QED BY <1>3, <1>4

\* Every step of the stream is one of the feed or changes nothing of it.
LEMMA FeedSteps ==
    ASSUME StreamInv, [Next]_vars
    PROVE  FeedStep
<1>1. ASSUME NEW c \in Chat, AppendEvent(c) PROVE FeedStep
  <2>1. SaveEvent(c) /\ UNCHANGED <<socket, cursor, history>> /\ c \in Chat \cup {Meta}
    BY <1>1 DEF AppendEvent, SaveChatEvent
  <2>. QED BY <2>1, FeedAppend
<1>2. ASSUME NEW c \in Chat, AppendDeleted(c) PROVE FeedStep
  <2>1. SaveEvent(Meta) /\ UNCHANGED <<socket, cursor, history>> /\ Meta \in Chat \cup {Meta}
    BY <1>2 DEF AppendDeleted, NotifyDeleted
  <2>. QED BY <2>1, FeedAppend
<1>3. ASSUME NEW c \in Chat, DeleteChat(c) PROVE FeedStep
  BY <1>3, FeedRemove
<1>4. CASE ReceiveSubscribed \/ ReceiveEvent
  BY <1>4, FeedMark, FeedEvent
<1>5. ASSUME NEW c \in Chat, TakePage(c) PROVE FeedStep
  BY <1>5, FeedLoad
<1>6. ASSUME NEW c \in Chat, RemoveChatState(c) PROVE FeedStep
  <2>1. UNCHANGED <<table, chats, based, last>> /\ view' = [view EXCEPT ![c] = {}] /\ c \notin chats
    BY <1>6 DEF RemoveChatState, log, cursor
  <2>2. view \in [Chat -> SUBSET (1..MaxSeq)] /\ \A x \in chats : x \in Chat
    BY DEF StreamInv, TypeOK, LogTypeOK
  <2>3. \A x \in chats : view'[x] = view[x]
    BY <2>1, <2>2
  <2>. QED BY <2>1, <2>3, FeedSame
<1>7. ASSUME UNCHANGED <<table, chats, based, last, view>> PROVE FeedStep
  BY <1>7, FeedSame
<1>8. CASE AppendFails \/ Publish \/ Restart \/ Connect \/ Drop \/ ReceiveError
  <2>1. UNCHANGED <<table, chats, based, last, view>>
    BY <1>8 DEF AppendFails, SaveFails, Publish, PublishEvent, Restart, ReopenLog, Connect, Drop,
                ReceiveError, log, cursor, history
  <2>. QED BY <1>7, <2>1
<1>9. CASE SendTask \/ ActionTask
  <2>1. UNCHANGED <<log, cursor, history>>
    BY <1>9 DEF SendTask, ActionTask, Arm, CheckStarted, Wake, Forward, NoticeLag, CatchUp,
                Subscribe, Replay, Notify
  <2>. QED BY <1>7, <2>1 DEF log, cursor, history
<1>10. ASSUME NEW c \in Chat, AskHistory(c) \/ AskOlder(c) \/ PageFails(c) PROVE FeedStep
  <2>1. UNCHANGED <<table, chats, based, last, view>>
    BY <1>10 DEF AskHistory, AskOlder, Ask, PageFails, log, cursor
  <2>. QED BY <1>7, <2>1
<1>11. CASE UNCHANGED vars
  BY <1>7, <1>11 DEF vars, log, cursor, history
<1>. QED BY <1>1, <1>2, <1>3, <1>4, <1>5, <1>6, <1>8, <1>9, <1>10, <1>11 DEF Next, Receive

\* The stream implements the feed: every step of the log, the socket, the browser
\* and the history pages adds, removes, passes or loads rows of the feed or
\* changes nothing of it, and no row is passed unseen.
THEOREM FeedImplemented == NoReuse /\ Spec => ImplementsFeed
<1>1. Init => Feed!FeedInit
  <2>. SUFFICES ASSUME Init PROVE Feed!FeedInit
    OBVIOUS
  <2>1. table = {} /\ chats = Chat /\ based = FALSE /\ last = 0 /\ view = [c \in Chat |-> {}]
    BY DEF Init, LogInit
  <2>2. Held = {} /\ Shown = {}
    BY <2>1 DEF Held, Shown
  <2>. QED BY <2>1, <2>2 DEF Feed!FeedInit, Held, Shown
<1>2. StreamInv /\ [Next]_vars => [Feed!FeedNext]_Feed!feed
  BY FeedSteps DEF FeedStep, FeedMap, Feed!feed, Shown, Held
<1>3. NoReuse /\ Spec => Feed!FeedInit /\ [][Feed!FeedNext]_Feed!feed
  BY <1>1, <1>2, StreamInvHolds, PTL DEF Spec
<1>. QED BY <1>3 DEF ImplementsFeed, Feed!FeedSpec

=============================================================================
