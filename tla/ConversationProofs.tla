-------------------------- MODULE ConversationProofs --------------------------
(***************************************************************************)
(* Proofs about parts of MCConversation: Callbacks, for any finite sets of *)
(* requests and any browsers and cancellations, SessionUpdates, for any    *)
(* sets of titles, tool calls and users, SessionOptions, for any options,  *)
(* values and advertisements, McpServers, for any names and values of      *)
(* secrets and any number of forms, and ConnectionSetup, for any finite    *)
(* set of servers and any projects.                                        *)
(***************************************************************************)
EXTENDS Callbacks, SessionUpdates, SessionOptions, McpServers, ConnectionSetup, FiniteSetTheorems,
        SequenceTheorems, WellFoundedInduction, TLAPS

-----------------------------------------------------------------------------
(* What an agent asks its user.  The channel of a request is used once:    *)
(* whoever answers takes the entry out of the map in the same step, and    *)
(* notes what it sent.  What is noted (recorded, or owed by the one who    *)
(* took the entry) is what the argument follows; the order of the rows     *)
(* matters only for a restart.                                             *)

\* The rows of a sequence, and all rows that are recorded or owed.
On(s) == {s[i] : i \in DOMAIN s}
Due == UNION {On(owed[v]) : v \in Resolver}
Noted == On(rows) \cup Due

\* A channel carries one answer, and what is noted of it is that answer.
Channels ==
    /\ \A r \in pending :
           sent[r] = NoAnswer /\ task[r] \in {"registered", "withdrawing", "waiting"}
    /\ \A r \in Req : task[r] \in {"idle", "queued"} => sent[r] = NoAnswer
    /\ \A x \in Noted :
           x.what = "response" =>
               x.answer = "cancel" \/ (x.answer # NoAnswer /\ x.answer = sent[x.req])
    /\ \A x \in Due : x.what # "request"
    /\ \A b \in Browser : call[b] # NoCall => owed[b] = <<>>

\* A request that was recorded waits for its channel, and passes on what came out.
PassesOn ==
    \A r \in Req : RequestRow(r) \in On(rows) =>
        /\ task[r] \in {"waiting", "done", "lost"}
        /\ task[r] = "done" => sent[r] # NoAnswer /\ told[r] = sent[r]

\* A task that waits, or has waited, has its entry or a row that closes it.
Live(r) == task[r] \in {"registered", "waiting"} \/ (task[r] = "done" /\ RequestRow(r) \in On(rows))
Answerable ==
    Up /\ ~failed => \A r \in Req : Live(r) => r \in pending \/ \E x \in Noted : Closes(x, r)

\* No task outlives its process.
Down ==
    ~Up => /\ restarts < Restarts /\ \A d \in Drainer : drain[d] = "idle"
           /\ \A r \in Req : task[r] \in {"idle", "done", "lost"}

CbInv == CbTypeOK /\ Channels /\ PassesOn /\ Answerable /\ Down /\ RestartClosesRequests

USE CallbacksAssumption

-----------------------------------------------------------------------------
(* Rows.                                                                   *)

LEMMA RowFields ==
    ASSUME NEW r \in Req, NEW a \in Answer PROVE
    /\ RequestRow(r) \in Row /\ ResponseRow(r, a) \in Row /\ CompleteRow(r) \in Row
    /\ \A q \in Req : RequestRow(q) # ResponseRow(r, a) /\ RequestRow(q) # CompleteRow(r)
    /\ \A q \in Req : RequestRow(q) = RequestRow(r) => q = r
    /\ \A q : Closes(ResponseRow(r, a), q) <=> q = r
    /\ \A q : Closes(CompleteRow(r), q) <=> q = r
    /\ \A q : ~Closes(RequestRow(r), q)
    /\ ResponseRow(r, a).what = "response" /\ ResponseRow(r, a).answer = a
    /\ ResponseRow(r, a).req = r
    /\ CompleteRow(r).what = "complete" /\ RequestRow(r).what = "request"
BY DEF Row, RequestRow, ResponseRow, CompleteRow, Closes, Answer

LEMMA AnswerValues == {"allow", "accept", "decline", "cancel"} = Answer /\ NoAnswer \notin Answer
BY DEF Answer

\* The rows of a sequence, of two in a row, and of what is left of one.
LEMMA OnTyped == ASSUME NEW s \in Seq(Row) PROVE On(s) \subseteq Row
BY DEF On

LEMMA OnConcat ==
    ASSUME NEW s \in Seq(Row), NEW t \in Seq(Row)
    PROVE  s \o t \in Seq(Row) /\ On(s \o t) = On(s) \cup On(t)
<1>1. s \o t \in Seq(Row) /\ Len(s \o t) = Len(s) + Len(t)
      /\ \A i \in 1 .. Len(s) + Len(t) : (s \o t)[i] = IF i <= Len(s) THEN s[i] ELSE t[i - Len(s)]
  BY ConcatProperties
<1>2. Len(s) \in Nat /\ Len(t) \in Nat /\ DOMAIN s = 1 .. Len(s) /\ DOMAIN t = 1 .. Len(t)
      /\ DOMAIN (s \o t) = 1 .. Len(s) + Len(t)
  BY <1>1, LenProperties
<1>3. ASSUME NEW x \in On(s) PROVE x \in On(s \o t)
  <2>1. PICK i \in 1 .. Len(s) : x = s[i]
    BY <1>2 DEF On
  <2>2. i \in 1 .. Len(s) + Len(t) /\ (s \o t)[i] = x
    BY <1>1, <1>2, <2>1
  <2>. QED BY <1>2, <2>2 DEF On
<1>4. ASSUME NEW x \in On(t) PROVE x \in On(s \o t)
  <2>1. PICK i \in 1 .. Len(t) : x = t[i]
    BY <1>2 DEF On
  <2>2. Len(s) + i \in 1 .. Len(s) + Len(t) /\ (s \o t)[Len(s) + i] = x
    BY <1>1, <1>2, <2>1
  <2>. QED BY <1>2, <2>2 DEF On
<1>5. ASSUME NEW x \in On(s \o t) PROVE x \in On(s) \cup On(t)
  <2>1. PICK i \in 1 .. Len(s) + Len(t) : x = (s \o t)[i]
    BY <1>2 DEF On
  <2>2. CASE i <= Len(s)
    BY <1>1, <1>2, <2>1, <2>2 DEF On
  <2>3. CASE i > Len(s)
    <3>1. i - Len(s) \in 1 .. Len(t) /\ x = t[i - Len(s)]
      BY <1>1, <1>2, <2>1, <2>3
    <3>. QED BY <1>2, <3>1 DEF On
  <2>. QED BY <1>2, <2>2, <2>3
<1>. QED BY <1>1, <1>3, <1>4, <1>5

LEMMA OnFew ==
    /\ On(<<>>) = {}
    /\ \A x : On(<<x>>) = {x}
    /\ \A x, y : On(<<x, y>>) = {x, y}
<1>1. DOMAIN <<>> = {} 
  BY EmptySeq
<1>2. \A x : <<x>>[1] = x /\ DOMAIN <<x>> = {1}
  OBVIOUS
<1>3. \A x, y : <<x, y>>[1] = x /\ <<x, y>>[2] = y /\ DOMAIN <<x, y>> = {1, 2}
  OBVIOUS
<1>. QED BY <1>1, <1>2, <1>3 DEF On

LEMMA OnTail ==
    ASSUME NEW s \in Seq(Row), s # <<>>
    PROVE  Head(s) \in Row /\ Tail(s) \in Seq(Row) /\ On(s) = {Head(s)} \cup On(Tail(s))
<1>1. Head(s) \in Row /\ Tail(s) \in Seq(Row) /\ Len(Tail(s)) = Len(s) - 1
      /\ \A i \in 1 .. Len(Tail(s)) : Tail(s)[i] = s[i + 1]
  BY HeadTailProperties
<1>2. Len(s) \in Nat \ {0} /\ DOMAIN s = 1 .. Len(s) /\ DOMAIN Tail(s) = 1 .. Len(s) - 1
      /\ Head(s) = s[1]
  BY <1>1, LenProperties, EmptySeq
<1>3. On(s) \subseteq {Head(s)} \cup On(Tail(s))
  <2>1. ASSUME NEW i \in 1 .. Len(s) PROVE s[i] \in {Head(s)} \cup On(Tail(s))
    <3>1. CASE i = 1
      BY <1>2, <3>1
    <3>2. CASE i # 1
      <4>1. i - 1 \in 1 .. Len(s) - 1 /\ Tail(s)[i - 1] = s[i]
        BY <1>1, <1>2, <3>2
      <4>. QED BY <1>2, <4>1 DEF On
    <3>. QED BY <3>1, <3>2
  <2>. QED BY <1>2, <2>1 DEF On
<1>4. On(Tail(s)) \subseteq On(s)
  <2>1. ASSUME NEW i \in 1 .. Len(s) - 1 PROVE Tail(s)[i] \in On(s)
    <3>1. i + 1 \in 1 .. Len(s) /\ Tail(s)[i] = s[i + 1]
      BY <1>1, <1>2
    <3>. QED BY <1>2, <3>1 DEF On
  <2>. QED BY <1>2, <2>1 DEF On
<1>5. Head(s) \in On(s)
  BY <1>2 DEF On
<1>. QED BY <1>1, <1>3, <1>4, <1>5

\* A drain writes one cancellation for each entry.
LEMMA CancelRowsOn ==
    ASSUME NEW R \in SUBSET Req
    PROVE  CancelRows(R) \in Seq(Row) /\ On(CancelRows(R)) = {ResponseRow(r, "cancel") : r \in R}
<1>. DEFINE n == Cardinality(R)
            order == SetToSeq(R)
<1>1. IsFiniteSet(R)
  <2>1. IsFiniteSet(Req)
    BY FS_Union DEF Req
  <2>. QED BY <2>1, FS_Subset
<1>2. n \in Nat /\ ExistsBijection(1 .. n, R)
  BY <1>1, FS_CardinalityType
<1>3. \E f \in [1 .. n -> R] : IsInjective(f)
  BY <1>2 DEF ExistsBijection, Bijection, Injection
<1>4. order \in [1 .. n -> R] /\ IsInjective(order)
  BY <1>3 DEF SetToSeq
<1>5. order \in Surjection(1 .. n, R)
  <2>1. order \in Injection(1 .. n, R)
    BY <1>4 DEF Injection
  <2>2. Cardinality(1 .. n) = n
    BY <1>2, FS_Interval
  <2>. QED BY <1>1, <2>1, <2>2, FS_Injection
<1>6. CancelRows(R) = [i \in 1 .. n |-> ResponseRow(order[i], "cancel")]
  BY <1>4 DEF CancelRows
<1>7. \A r \in R : \E i \in 1 .. n : order[i] = r
  BY <1>5 DEF Surjection
<1>8. \A i \in 1 .. n : order[i] \in R
  BY <1>4
<1>9. CancelRows(R) \in Seq(Row)
  <2>1. \A i \in 1 .. n : ResponseRow(order[i], "cancel") \in Row
    BY <1>8 DEF Row, ResponseRow, Answer
  <2>2. CancelRows(R) \in [1 .. n -> Row]
    BY <1>6, <2>1
  <2>. QED BY <1>2, <2>2
<1>. HIDE DEF n, order
<1>. QED BY <1>6, <1>7, <1>8, <1>9 DEF On

-----------------------------------------------------------------------------
(* What a step does to what is noted, and to what is open.                 *)

LEMMA NotedSame ==
    ASSUME UNCHANGED <<rows, owed>> PROVE  Noted' = Noted /\ Due' = Due /\ On(rows') = On(rows)
BY DEF Noted, Due

LEMMA NotedRecord ==
    ASSUME rows \in Seq(Row), NEW news \in Seq(Row), Record(news), UNCHANGED owed PROVE
    /\ rows' \in Seq(Row) /\ On(rows) \subseteq On(rows') /\ On(rows') \subseteq On(rows) \cup On(news)
    /\ Noted \subseteq Noted' /\ Noted' \subseteq Noted \cup On(news) /\ Due' = Due
    /\ ~failed => On(news) \subseteq Noted'
<1>1. rows' \in Seq(Row) /\ On(rows) \subseteq On(rows') /\ On(rows') \subseteq On(rows) \cup On(news)
      /\ (~failed => On(news) \subseteq On(rows'))
  BY OnConcat DEF Record
<1>. QED BY <1>1 DEF Noted, Due

LEMMA NotedOwes ==
    ASSUME UNCHANGED rows, owed \in [Resolver -> Seq(Row)], NEW v \in Resolver, NEW s \in Seq(Row),
           owed[v] = <<>>, owed' = [owed EXCEPT ![v] = s]
    PROVE  /\ owed' \in [Resolver -> Seq(Row)] /\ On(rows') = On(rows)
           /\ Noted' = Noted \cup On(s) /\ Due' = Due \cup On(s)
<1>1. owed'[v] = s /\ \A u \in Resolver \ {v} : owed'[u] = owed[u]
  OBVIOUS
<1>2. On(owed[v]) = {}
  BY OnFew
<1>3. \A x : x \in Due' => x \in Due \cup On(s)
  BY <1>1 DEF Due
<1>4. \A x : x \in Due \cup On(s) => x \in Due'
  BY <1>1, <1>2 DEF Due
<1>5. Due' = Due \cup On(s) /\ On(rows') = On(rows)
  BY <1>3, <1>4
<1>. QED BY <1>5 DEF Noted

LEMMA NotedTyped == CbTypeOK => Noted \subseteq Row /\ \A x \in Noted : x.req \in Req
<1>1. CbTypeOK => Noted \subseteq Row
  BY OnTyped DEF Noted, Due, CbTypeOK
<1>. QED BY <1>1 DEF Row

\* The one who owes a row appends it, or finds that the log has failed.
LEMMA NotedPaid ==
    ASSUME rows \in Seq(Row), owed \in [Resolver -> Seq(Row)], NEW v \in Resolver, owed[v] # <<>>,
           Record(<<Head(owed[v])>>), owed' = [owed EXCEPT ![v] = Tail(@)]
    PROVE
    /\ rows' \in Seq(Row) /\ owed' \in [Resolver -> Seq(Row)] /\ Head(owed[v]) \in Due
    /\ On(rows) \subseteq On(rows') /\ On(rows') \subseteq On(rows) \cup {Head(owed[v])}
    /\ Due' \subseteq Due /\ Noted' \subseteq Noted /\ (~failed => Noted' = Noted)
<1>1. Head(owed[v]) \in Row /\ Tail(owed[v]) \in Seq(Row)
      /\ On(owed[v]) = {Head(owed[v])} \cup On(Tail(owed[v]))
  BY OnTail
<1>2. owed'[v] = Tail(owed[v]) /\ \A u \in Resolver \ {v} : owed'[u] = owed[u]
  OBVIOUS
<1>3. owed' \in [Resolver -> Seq(Row)]
  BY <1>1
<1>4. <<Head(owed[v])>> \in Seq(Row) /\ On(<<Head(owed[v])>>) = {Head(owed[v])}
  BY <1>1, OnFew
<1>5. rows' \in Seq(Row) /\ On(rows) \subseteq On(rows')
      /\ On(rows') \subseteq On(rows) \cup {Head(owed[v])}
      /\ (~failed => Head(owed[v]) \in On(rows'))
  BY <1>4, OnConcat DEF Record
<1>6. Head(owed[v]) \in Due
  BY <1>1 DEF Due
<1>7. Due' \subseteq Due
  BY <1>1, <1>2 DEF Due
<1>9. Noted' \subseteq Noted
  BY <1>5, <1>6, <1>7 DEF Noted
<1>8. ~failed => \A x : x \in Noted => x \in Noted'
  BY <1>1, <1>2, <1>5 DEF Noted, Due
<1>. QED BY <1>3, <1>5, <1>6, <1>7, <1>8, <1>9

\* Rows that follow do not open a request again.
LEMMA NoReopen ==
    ASSUME rows \in Seq(Row), NEW news \in Seq(Row), rows' = rows \o news,
           NEW r \in Req, RequestRow(r) \notin On(news), Open(r)'
    PROVE  Open(r)
<1>1. Len(rows) \in Nat /\ Len(news) \in Nat /\ DOMAIN rows = 1 .. Len(rows)
      /\ DOMAIN news = 1 .. Len(news)
  BY LenProperties
<1>2. DOMAIN rows' = 1 .. Len(rows) + Len(news)
      /\ \A i \in 1 .. Len(rows) + Len(news) :
             rows'[i] = IF i <= Len(rows) THEN rows[i] ELSE news[i - Len(rows)]
  BY ConcatProperties, LenProperties
<1>3. \A i \in DOMAIN rows : i \in DOMAIN rows' /\ rows'[i] = rows[i]
  BY <1>1, <1>2
<1>4. ASSUME NEW i \in DOMAIN rows', rows'[i] = RequestRow(r) PROVE i \in DOMAIN rows
  <2>1. SUFFICES ASSUME i > Len(rows) PROVE FALSE
    BY <1>1, <1>2
  <2>2. i - Len(rows) \in DOMAIN news /\ rows'[i] = news[i - Len(rows)]
    BY <1>1, <1>2, <2>1
  <2>. QED BY <1>4, <2>2 DEF On
<1>. QED BY <1>3, <1>4 DEF Open, Recorded

LEMMA RestartKept ==
    ASSUME RestartClosesRequests, rows \in Seq(Row), NEW news \in Seq(Row), Record(news), Up' => Up,
           \A r \in Req : task'[r] = "lost" => task[r] = "lost" /\ RequestRow(r) \notin On(news)
    PROVE  RestartClosesRequests'
<1>. SUFFICES ASSUME NEW r \in Req, Up', task'[r] = "lost", Open(r)' PROVE Open(r)
  BY DEF RestartClosesRequests
<1>1. CASE failed
  BY <1>1 DEF Record, Open, Recorded
<1>2. CASE ~failed
  BY <1>2, NoReopen DEF Record
<1>. QED BY <1>1, <1>2

LEMMA RestartQuiet ==
    ASSUME RestartClosesRequests, UNCHANGED rows, Up' => Up,
           \A r \in Req : task'[r] = "lost" => task[r] = "lost"
    PROVE  RestartClosesRequests'
BY DEF RestartClosesRequests, Open, Recorded

\* The recovery closes what is open: a request without a later answer gets one.
LEMMA RecoveryCloses ==
    ASSUME rows \in Seq(Row), rows' = rows \o CancelRows({q \in Req : StillPending(q)}),
           NEW r \in Req
    PROVE  ~Open(r)'
<1>. DEFINE news == CancelRows({q \in Req : StillPending(q)})
<1>1. news \in Seq(Row) /\ On(news) = {ResponseRow(q, "cancel") : q \in {q \in Req : StillPending(q)}}
  BY CancelRowsOn
<1>2. RequestRow(r) \notin On(news)
  BY <1>1, RowFields DEF Answer
<1>3. SUFFICES ASSUME Open(r)' PROVE FALSE
  OBVIOUS
<1>4. Open(r)
  BY <1>1, <1>2, <1>3, NoReopen
<1>5. StillPending(r)
  <2>1. PICK i \in DOMAIN rows : rows[i] = RequestRow(r)
    BY <1>4 DEF Open, Recorded
  <2>2. \A j \in DOMAIN rows : Closes(rows[j], r) => j < i
    BY <1>4, <2>1 DEF Open
  <2>3. DOMAIN rows = 1 .. Len(rows) /\ Len(rows) \in Nat
    BY LenProperties
  <2>4. \A j \in i + 1 .. Len(rows) : ~Closes(rows[j], r)
    BY <2>2, <2>3
  <2>. QED BY <2>1, <2>4 DEF StillPending
<1>6. ResponseRow(r, "cancel") \in On(news)
  BY <1>1, <1>5
<1>7. PICK k \in DOMAIN news : news[k] = ResponseRow(r, "cancel")
  BY <1>6 DEF On
<1>8. Len(rows) \in Nat /\ Len(news) \in Nat /\ DOMAIN rows = 1 .. Len(rows)
      /\ DOMAIN news = 1 .. Len(news)
  BY <1>1, LenProperties
<1>9. DOMAIN rows' = 1 .. Len(rows) + Len(news)
      /\ \A i \in 1 .. Len(rows) + Len(news) :
             rows'[i] = IF i <= Len(rows) THEN rows[i] ELSE news[i - Len(rows)]
  BY <1>1, ConcatProperties, LenProperties
<1>. HIDE DEF news
<1>10. PICK i \in DOMAIN rows : rows[i] = RequestRow(r)
  BY <1>4 DEF Open, Recorded
<1>11. i \in DOMAIN rows' /\ rows'[i] = RequestRow(r)
  BY <1>8, <1>9, <1>10
<1>12. Len(rows) + k \in DOMAIN rows' /\ rows'[Len(rows) + k] = ResponseRow(r, "cancel")
  <2>1. k \in 1 .. Len(news) /\ Len(rows) + k \in 1 .. Len(rows) + Len(news)
    BY <1>7, <1>8
  <2>2. ~(Len(rows) + k <= Len(rows)) /\ (Len(rows) + k) - Len(rows) = k
    BY <1>8, <2>1
  <2>3. rows'[Len(rows) + k] = news[(Len(rows) + k) - Len(rows)]
    BY <1>9, <2>1, <2>2
  <2>. QED BY <1>7, <1>9, <2>1, <2>2, <2>3
<1>13. Closes(rows'[Len(rows) + k], r)
  BY <1>12, RowFields DEF Answer
<1>14. Len(rows) + k < i
  BY <1>3, <1>11, <1>12, <1>13 DEF Open
<1>. QED BY <1>7, <1>8, <1>10, <1>14

-----------------------------------------------------------------------------
(* The agent asks.                                                         *)

LEMMA LogFailsKeeps ==
    ASSUME CbInv, LogFails
    PROVE  CbInv'
<1>. USE DEF CbInv, LogFails, handler, calls
<1>0. Noted' = Noted /\ Due' = Due /\ On(rows') = On(rows)
  BY NotedSame
<1>1. CbTypeOK'
  BY DEF CbTypeOK
<1>2. Channels'
  BY <1>0 DEF CbTypeOK, Channels
<1>3. PassesOn'
  BY <1>0 DEF CbTypeOK, Channels, PassesOn
<1>4. Answerable'
  BY DEF Answerable
<1>5. Down'
  BY DEF CbTypeOK, Down, Up
<1>6. RestartClosesRequests'
  BY RestartQuiet DEF CbTypeOK, Up, Down
<1>. QED BY <1>1, <1>2, <1>3, <1>4, <1>5, <1>6

LEMMA AskKeeps ==
    ASSUME CbInv, NEW r \in Req, Ask(r)
    PROVE  CbInv'
<1>. USE DEF CbInv, Ask, store, calls
<1>0. Noted' = Noted /\ Due' = Due /\ On(rows') = On(rows)
  BY NotedSame
<1>1. CbTypeOK'
  BY DEF CbTypeOK
<1>2. Channels'
  BY <1>0 DEF CbTypeOK, Channels
<1>3. PassesOn'
  BY <1>0 DEF CbTypeOK, Channels, PassesOn
<1>4. Answerable'
  BY <1>0 DEF CbTypeOK, Channels, PassesOn, Answerable, Live, Down, Up
<1>5. Down'
  BY DEF CbTypeOK, Down, Up
<1>6. RestartClosesRequests'
  BY RestartQuiet DEF CbTypeOK, Up, Down
<1>. QED BY <1>1, <1>2, <1>3, <1>4, <1>5, <1>6

\* A queued request has a channel nobody has used.
LEMMA RegisterKeeps ==
    ASSUME CbInv, NEW r \in Req, Register(r)
    PROVE  CbInv'
<1>. USE DEF CbInv, Register, store, calls
<1>0. Noted' = Noted /\ Due' = Due /\ On(rows') = On(rows)
  BY NotedSame
<1>1. CbTypeOK'
  BY DEF CbTypeOK
<1>2. Channels'
  BY <1>0 DEF CbTypeOK, Channels
<1>3. PassesOn'
  BY <1>0 DEF CbTypeOK, Channels, PassesOn
<1>4. Answerable'
  BY <1>0 DEF CbTypeOK, Channels, PassesOn, Answerable, Live, Down, Up
<1>5. Down'
  BY DEF CbTypeOK, Down, Up
<1>6. RestartClosesRequests'
  BY RestartQuiet DEF CbTypeOK, Up, Down
<1>. QED BY <1>1, <1>2, <1>3, <1>4, <1>5, <1>6

\* The entry was in the map, or closed, before the request is recorded.
LEMMA RecordRequestKeeps ==
    ASSUME CbInv, NEW r \in Req, RecordRequest(r)
    PROVE  CbInv'
<1>. USE DEF CbInv, RecordRequest, calls
<1>0. /\ rows' \in Seq(Row) /\ On(rows') \subseteq On(rows) \cup {RequestRow(r)}
      /\ Noted \subseteq Noted' /\ Noted' \subseteq Noted \cup {RequestRow(r)} /\ Due' = Due
  <2>1. RequestRow(r) \in Row
    BY RowFields, AnswerValues
  <2>2. <<RequestRow(r)>> \in Seq(Row) /\ On(<<RequestRow(r)>>) = {RequestRow(r)}
    BY <2>1, OnFew
  <2>. QED BY <2>2, NotedRecord DEF CbTypeOK
<1>a. /\ RequestRow(r).what = "request" /\ \A q \in Req : ~Closes(RequestRow(r), q)
      /\ \A q \in Req : RequestRow(q) = RequestRow(r) => q = r
  BY RowFields, AnswerValues
<1>1. CbTypeOK'
  BY <1>0 DEF CbTypeOK
<1>2. Channels'
  BY <1>0, <1>a DEF CbTypeOK, Channels
<1>3. PassesOn'
  BY <1>0, <1>a DEF CbTypeOK, PassesOn
<1>4. Answerable'
  BY <1>0, <1>a DEF CbTypeOK, PassesOn, Answerable, Live, Up
<1>5. Down'
  BY DEF CbTypeOK, Down, Up
<1>6. RestartClosesRequests'
  <2>1. <<RequestRow(r)>> \in Seq(Row) /\ On(<<RequestRow(r)>>) = {RequestRow(r)}
    BY RowFields, AnswerValues, OnFew
  <2>2. \A q \in Req : task'[q] = "lost" => task[q] = "lost" /\ RequestRow(q) # RequestRow(r)
    BY <1>a DEF CbTypeOK
  <2>. QED BY <2>1, <2>2, RestartKept DEF CbTypeOK, Up
<1>. QED BY <1>1, <1>2, <1>3, <1>4, <1>5, <1>6

LEMMA RequestRefusedKeeps ==
    ASSUME CbInv, NEW r \in Req, RequestRefused(r)
    PROVE  CbInv'
<1>. USE DEF CbInv, RequestRefused, store, calls
<1>0. Noted' = Noted /\ Due' = Due /\ On(rows') = On(rows)
  BY NotedSame
<1>1. CbTypeOK'
  BY DEF CbTypeOK
<1>2. Channels'
  BY <1>0 DEF CbTypeOK, Channels
<1>3. PassesOn'
  BY <1>0 DEF CbTypeOK, Channels, PassesOn
<1>4. Answerable'
  BY <1>0 DEF CbTypeOK, Channels, PassesOn, Answerable, Live, Down, Up
<1>5. Down'
  BY DEF CbTypeOK, Down, Up
<1>6. RestartClosesRequests'
  BY RestartQuiet DEF CbTypeOK, Up, Down
<1>. QED BY <1>1, <1>2, <1>3, <1>4, <1>5, <1>6

\* A request that is withdrawn was not recorded.
LEMMA WithdrawKeeps ==
    ASSUME CbInv, NEW r \in Req, Withdraw(r)
    PROVE  CbInv'
<1>. USE DEF CbInv, Withdraw, store, calls
<1>0. Noted' = Noted /\ Due' = Due /\ On(rows') = On(rows)
  BY NotedSame
<1>1. CbTypeOK'
  BY AnswerValues DEF CbTypeOK
<1>2. Channels'
  BY <1>0 DEF CbTypeOK, Channels
<1>3. PassesOn'
  BY <1>0 DEF CbTypeOK, Channels, PassesOn
<1>4. Answerable'
  BY <1>0 DEF CbTypeOK, Channels, PassesOn, Answerable, Live, Down, Up
<1>5. Down'
  BY DEF CbTypeOK, Down, Up
<1>6. RestartClosesRequests'
  BY RestartQuiet DEF CbTypeOK, Up, Down
<1>. QED BY <1>1, <1>2, <1>3, <1>4, <1>5, <1>6

LEMMA ReplyKeeps ==
    ASSUME CbInv, NEW r \in Req, Reply(r)
    PROVE  CbInv'
<1>. USE DEF CbInv, Reply, store, calls
<1>0. Noted' = Noted /\ Due' = Due /\ On(rows') = On(rows)
  BY NotedSame
<1>1. CbTypeOK'
  BY DEF CbTypeOK
<1>2. Channels'
  BY <1>0 DEF CbTypeOK, Channels
<1>3. PassesOn'
  BY <1>0 DEF CbTypeOK, Channels, PassesOn
<1>4. Answerable'
  BY <1>0 DEF CbTypeOK, Channels, PassesOn, Answerable, Live, Down, Up
<1>5. Down'
  BY DEF CbTypeOK, Down, Up
<1>6. RestartClosesRequests'
  BY RestartQuiet DEF CbTypeOK, Up, Down
<1>. QED BY <1>1, <1>2, <1>3, <1>4, <1>5, <1>6

-----------------------------------------------------------------------------
(* The user answers.                                                       *)

\* The entry goes, and what was sent is recorded.
LEMMA RespondPermissionKeeps ==
    ASSUME CbInv, NEW r \in Req, RespondPermission(r)
    PROVE  CbInv'
<1>. USE DEF CbInv, RespondPermission, Resolve, calls
<1>0. /\ rows' \in Seq(Row) /\ On(rows') \subseteq On(rows) \cup {ResponseRow(r, "allow")}
      /\ Noted \subseteq Noted' /\ Noted' \subseteq Noted \cup {ResponseRow(r, "allow")}
      /\ Due' = Due /\ ResponseRow(r, "allow") \in Noted' /\ On(rows) \subseteq On(rows')
  <2>1. ResponseRow(r, "allow") \in Row
    BY RowFields, AnswerValues
  <2>2. <<ResponseRow(r, "allow")>> \in Seq(Row)
        /\ On(<<ResponseRow(r, "allow")>>) = {ResponseRow(r, "allow")}
    BY <2>1, OnFew
  <2>. QED BY <2>2, NotedRecord DEF CbTypeOK
<1>a. /\ ResponseRow(r, "allow").what = "response" /\ ResponseRow(r, "allow").answer = "allow"
      /\ ResponseRow(r, "allow").req = r /\ Closes(ResponseRow(r, "allow"), r)
      /\ \A q \in Req : RequestRow(q) # ResponseRow(r, "allow")
  BY RowFields, AnswerValues
<1>1. CbTypeOK'
  BY <1>0, AnswerValues DEF CbTypeOK
<1>2. Channels'
  <2>1. sent'[r] = "allow" /\ \A q \in Req \ {r} : sent'[q] = sent[q]
    BY DEF CbTypeOK
  <2>2. ASSUME NEW x \in Noted, x.what = "response"
        PROVE  x.answer = "cancel" \/ (x.answer # NoAnswer /\ x.answer = sent'[x.req])
    BY <2>1, <2>2 DEF Channels, CbTypeOK
  <2>. QED BY <1>0, <1>a, <2>1, <2>2, AnswerValues DEF CbTypeOK, Channels
<1>3. PassesOn'
  BY <1>0, <1>a DEF CbTypeOK, Channels, PassesOn
<1>4. Answerable'
  BY <1>0, <1>a DEF CbTypeOK, PassesOn, Answerable, Live, Up
<1>5. Down'
  BY DEF CbTypeOK, Down, Up
<1>6. RestartClosesRequests'
  <2>1. <<ResponseRow(r, "allow")>> \in Seq(Row)
        /\ On(<<ResponseRow(r, "allow")>>) = {ResponseRow(r, "allow")}
    BY RowFields, AnswerValues, OnFew
  <2>. QED BY <1>a, <2>1, RestartKept DEF CbTypeOK, Up
<1>. QED BY <1>1, <1>2, <1>3, <1>4, <1>5, <1>6

\* A browser validates only while it owes nothing.
LEMMA BeginElicitationKeeps ==
    ASSUME CbInv, NEW b \in Browser, NEW r \in Req, NEW a \in {"accept", "decline"}, BeginElicitation(b, r, a)
    PROVE  CbInv'
<1>. USE DEF CbInv, BeginElicitation, handler, store
<1>0. Noted' = Noted /\ Due' = Due /\ On(rows') = On(rows)
  BY NotedSame
<1>1. CbTypeOK'
  BY AnswerValues DEF CbTypeOK
<1>2. Channels'
  BY <1>0 DEF CbTypeOK, Channels
<1>3. PassesOn'
  BY <1>0 DEF CbTypeOK, Channels, PassesOn
<1>4. Answerable'
  BY <1>0 DEF CbTypeOK, Channels, PassesOn, Answerable, Live, Down, Up
<1>5. Down'
  BY DEF CbTypeOK, Down, Up
<1>6. RestartClosesRequests'
  BY RestartQuiet DEF CbTypeOK, Up, Down
<1>. QED BY <1>1, <1>2, <1>3, <1>4, <1>5, <1>6

\* What answers a request that is in the map: its channel gets the answer, which is noted.
LEMMA ResolveKeeps ==
    ASSUME CbInv, Up, NEW r \in pending, NEW a \in Answer, Resolve(r, a),
           UNCHANGED <<task, told, rows, failed>>, Up' = Up,
           Noted \subseteq Noted', ResponseRow(r, a) \in Noted',
           Noted' \subseteq Noted \cup {ResponseRow(r, a), CompleteRow(r)}
    PROVE
    /\ pending' \in SUBSET Req /\ sent' \in [Req -> Answer \cup {NoAnswer}]
    /\ \A q \in pending' :
           sent'[q] = NoAnswer /\ task'[q] \in {"registered", "withdrawing", "waiting"}
    /\ \A q \in Req : task'[q] \in {"idle", "queued"} => sent'[q] = NoAnswer
    /\ \A x \in Noted' :
           x.what = "response" =>
               x.answer = "cancel" \/ (x.answer # NoAnswer /\ x.answer = sent'[x.req])
    /\ PassesOn' /\ Answerable'
<1>. USE DEF CbInv, Resolve
<1>0. r \in Req
  BY DEF CbTypeOK
<1>1. sent' = [sent EXCEPT ![r] = a] /\ pending' = pending \ {r} /\ sent'[r] = a
      /\ \A q \in Req \ {r} : sent'[q] = sent[q]
  BY <1>0 DEF CbTypeOK
<1>2. pending' \in SUBSET Req /\ sent' \in [Req -> Answer \cup {NoAnswer}]
  BY <1>1 DEF CbTypeOK
<1>3. \A q \in pending' :
          sent'[q] = NoAnswer /\ task'[q] \in {"registered", "withdrawing", "waiting"}
  BY <1>1 DEF CbTypeOK, Channels
<1>4. \A q \in Req : task'[q] \in {"idle", "queued"} => sent'[q] = NoAnswer
  BY <1>1 DEF Channels
<1>5. ASSUME NEW x \in Noted', x.what = "response"
      PROVE  x.answer = "cancel" \/ (x.answer # NoAnswer /\ x.answer = sent'[x.req])
  <2>1. CASE x \in Noted
    BY <1>1, <1>5, <2>1 DEF Channels, CbTypeOK
  <2>2. CASE x = ResponseRow(r, a)
    BY <1>0, <1>1, <2>2, RowFields, AnswerValues
  <2>3. CASE x = CompleteRow(r)
    BY <1>0, <1>5, <2>3, RowFields, AnswerValues
  <2>. QED BY <2>1, <2>2, <2>3
<1>6. PassesOn'
  BY <1>1 DEF CbTypeOK, Channels, PassesOn
<1>7. Closes(ResponseRow(r, a), r)
  BY <1>0, RowFields
<1>8. Answerable'
  BY <1>1, <1>7 DEF Answerable, Live
<1>. QED BY <1>2, <1>3, <1>4, <1>5, <1>6, <1>8

LEMMA ResolveElicitationKeeps ==
    ASSUME CbInv, NEW b \in Browser, ResolveElicitation(b)
    PROVE  CbInv'
<1>. USE DEF CbInv, ResolveElicitation, store
<1>. DEFINE r == call[b].req
            a == call[b].answer
<1>0. r \in Elicitation /\ r \in Req /\ a \in Answer /\ b \in Resolver /\ owed[b] = <<>>
  <2>1. call[b] \in [req : Elicitation, answer : Answer]
    BY DEF CbTypeOK
  <2>. QED BY <2>1 DEF CbTypeOK, Channels, Req, Resolver
<1>1. call' \in [Browser -> {NoCall} \cup [req : Elicitation, answer : Answer]]
      /\ call'[b] = NoCall /\ \A d \in Browser \ {b} : call'[d] = call[d]
  BY DEF CbTypeOK
<1>2. CASE r \in pending
  <2>1. Resolve(r, a) /\ owed' = [owed EXCEPT ![b] = <<ResponseRow(r, a)>>]
    BY <1>2
  <2>2. <<ResponseRow(r, a)>> \in Seq(Row) /\ On(<<ResponseRow(r, a)>>) = {ResponseRow(r, a)}
    BY <1>0, RowFields, OnFew
  <2>3. owed' \in [Resolver -> Seq(Row)] /\ On(rows') = On(rows)
        /\ Noted' = Noted \cup {ResponseRow(r, a)} /\ Due' = Due \cup {ResponseRow(r, a)}
    BY <1>0, <2>1, <2>2, NotedOwes DEF CbTypeOK
  <2>4. ResponseRow(r, a).what = "response"
    BY <1>0, RowFields
  <2>. HIDE DEF r, a
  <2>5. /\ pending' \in SUBSET Req /\ sent' \in [Req -> Answer \cup {NoAnswer}]
        /\ \A q \in pending' :
               sent'[q] = NoAnswer /\ task'[q] \in {"registered", "withdrawing", "waiting"}
        /\ \A q \in Req : task'[q] \in {"idle", "queued"} => sent'[q] = NoAnswer
        /\ \A x \in Noted' :
               x.what = "response" =>
                   x.answer = "cancel" \/ (x.answer # NoAnswer /\ x.answer = sent'[x.req])
        /\ PassesOn' /\ Answerable'
    BY <1>0, <1>2, <2>1, <2>3, ResolveKeeps DEF Up
  <2>6. CbTypeOK'
    BY <1>1, <2>3, <2>5 DEF CbTypeOK
  <2>7. Channels'
    BY <1>0, <1>1, <2>1, <2>3, <2>4, <2>5 DEF CbTypeOK, Channels
  <2>8. Down' /\ RestartClosesRequests'
    BY RestartQuiet DEF Down, Up
  <2>. QED BY <2>5, <2>6, <2>7, <2>8
<1>3. CASE r \notin pending
  <2>1. UNCHANGED <<pending, sent, owed>>
    BY <1>3
  <2>2. Noted' = Noted /\ Due' = Due /\ On(rows') = On(rows)
    BY <2>1, NotedSame
  <2>3. CbTypeOK'
    BY <1>1, <2>1 DEF CbTypeOK
  <2>4. Channels'
    BY <1>1, <2>1, <2>2 DEF CbTypeOK, Channels
  <2>5. PassesOn' /\ Answerable'
    BY <2>1, <2>2 DEF PassesOn, Answerable, Live, Up
  <2>6. Down' /\ RestartClosesRequests'
    BY <2>1, RestartQuiet DEF Down, Up
  <2>. QED BY <2>3, <2>4, <2>5, <2>6
<1>. QED BY <1>2, <1>3

\* What is owed was noted when the entry was taken: the append adds nothing new.
LEMMA RecordOwedKeeps ==
    ASSUME CbInv, NEW v \in Resolver, RecordOwed(v)
    PROVE  CbInv'
<1>. USE DEF CbInv, RecordOwed, handler
<1>0. /\ rows' \in Seq(Row) /\ owed' \in [Resolver -> Seq(Row)] /\ Head(owed[v]) \in Due
      /\ On(rows) \subseteq On(rows') /\ On(rows') \subseteq On(rows) \cup {Head(owed[v])}
      /\ Due' \subseteq Due /\ Noted' \subseteq Noted /\ (~failed => Noted' = Noted)
  BY NotedPaid DEF CbTypeOK
<1>a. Head(owed[v]) \in Row /\ \A q \in Req : RequestRow(q) # Head(owed[v])
  <2>1. Head(owed[v]).what # "request" /\ Head(owed[v]) \in Row
    BY <1>0, OnTail DEF Channels, CbTypeOK
  <2>2. \A q \in Req : RequestRow(q).what = "request"
    BY DEF RequestRow
  <2>. QED BY <2>1, <2>2
<1>1. CbTypeOK'
  BY <1>0 DEF CbTypeOK
<1>2. Channels'
  <2>1. \A b \in Browser : call'[b] # NoCall => owed'[b] = <<>>
    BY DEF CbTypeOK, Channels, Resolver
  <2>. QED BY <1>0, <2>1 DEF Channels
<1>3. PassesOn'
  BY <1>0, <1>a DEF PassesOn
<1>4. Answerable'
  BY <1>0, <1>a DEF Answerable, Live, Up
<1>5. Down'
  BY DEF Down, Up
<1>6. RestartClosesRequests'
  <2>1. <<Head(owed[v])>> \in Seq(Row) /\ On(<<Head(owed[v])>>) = {Head(owed[v])}
    BY <1>a, OnFew
  <2>. QED BY <1>a, <2>1, RestartKept DEF CbTypeOK, Up
<1>. QED BY <1>1, <1>2, <1>3, <1>4, <1>5, <1>6

-----------------------------------------------------------------------------
(* The agent completes, the user cancels, the chat stops.                  *)

LEMMA CompleteElicitationKeeps ==
    ASSUME CbInv, NEW r \in Req, CompleteElicitation(r)
    PROVE  CbInv'
<1>. USE DEF CbInv, CompleteElicitation, store
<1>0. "reader" \in Resolver /\ "cancel" \in Answer
  BY DEF Resolver, Answer
<1>a. CompleteRow(r) \in Row /\ ResponseRow(r, "cancel") \in Row
      /\ CompleteRow(r).what = "complete" /\ ResponseRow(r, "cancel").what = "response"
  BY <1>0, RowFields
<1>b. UNCHANGED <<rows, failed, task, told, client, call, drain, restarts>>
  OBVIOUS
<1>1. CASE r \in pending
  <2>1. Resolve(r, "cancel")
        /\ owed' = [owed EXCEPT !["reader"] = <<ResponseRow(r, "cancel"), CompleteRow(r)>>]
    BY <1>1
  <2>2. <<ResponseRow(r, "cancel"), CompleteRow(r)>> \in Seq(Row)
        /\ On(<<ResponseRow(r, "cancel"), CompleteRow(r)>>)
               = {ResponseRow(r, "cancel"), CompleteRow(r)}
    BY <1>a, OnFew
  <2>3. /\ owed' \in [Resolver -> Seq(Row)] /\ On(rows') = On(rows)
        /\ Noted' = Noted \cup {ResponseRow(r, "cancel"), CompleteRow(r)}
        /\ Due' = Due \cup {ResponseRow(r, "cancel"), CompleteRow(r)}
    BY <1>0, <2>1, <2>2, NotedOwes DEF CbTypeOK
  <2>5. /\ pending' \in SUBSET Req /\ sent' \in [Req -> Answer \cup {NoAnswer}]
        /\ \A q \in pending' :
               sent'[q] = NoAnswer /\ task'[q] \in {"registered", "withdrawing", "waiting"}
        /\ \A q \in Req : task'[q] \in {"idle", "queued"} => sent'[q] = NoAnswer
        /\ \A x \in Noted' :
               x.what = "response" =>
                   x.answer = "cancel" \/ (x.answer # NoAnswer /\ x.answer = sent'[x.req])
        /\ PassesOn' /\ Answerable'
    BY <1>0, <1>1, <1>b, <2>1, <2>3, ResolveKeeps DEF Up
  <2>6. CbTypeOK'
    BY <1>b, <2>3, <2>5 DEF CbTypeOK
  <2>7. Channels'
    <3>1. \A b \in Browser : owed'[b] = owed[b]
      BY <2>1 DEF CbTypeOK, Resolver
    <3>. QED BY <1>a, <1>b, <2>3, <2>5, <3>1 DEF Channels
  <2>8. Down' /\ RestartClosesRequests'
    BY <1>b, RestartQuiet DEF Down, Up
  <2>. QED BY <2>5, <2>6, <2>7, <2>8
<1>2. CASE r \notin pending
  <2>1. UNCHANGED <<pending, sent>> /\ owed' = [owed EXCEPT !["reader"] = <<CompleteRow(r)>>]
    BY <1>2
  <2>2. <<CompleteRow(r)>> \in Seq(Row) /\ On(<<CompleteRow(r)>>) = {CompleteRow(r)}
    BY <1>a, OnFew
  <2>3. /\ owed' \in [Resolver -> Seq(Row)] /\ On(rows') = On(rows)
        /\ Noted' = Noted \cup {CompleteRow(r)} /\ Due' = Due \cup {CompleteRow(r)}
    BY <1>0, <2>1, <2>2, NotedOwes DEF CbTypeOK
  <2>4. CbTypeOK'
    BY <1>b, <2>1, <2>3 DEF CbTypeOK
  <2>5. Channels'
    <3>1. \A b \in Browser : owed'[b] = owed[b]
      BY <2>1 DEF CbTypeOK, Resolver
    <3>. QED BY <1>a, <1>b, <2>1, <2>3, <3>1 DEF Channels
  <2>6. PassesOn' /\ Answerable'
    BY <1>b, <2>1, <2>3 DEF PassesOn, Answerable, Live, Up
  <2>7. Down' /\ RestartClosesRequests'
    BY <1>b, RestartQuiet DEF Down, Up
  <2>. QED BY <2>4, <2>5, <2>6, <2>7
<1>. QED BY <1>1, <1>2

LEMMA CancelKeeps ==
    ASSUME CbInv, NEW c \in Canceller, Cancel(c)
    PROVE  CbInv'
<1>. USE DEF CbInv, Cancel, handler, store
<1>0. Noted' = Noted /\ Due' = Due /\ On(rows') = On(rows)
  BY NotedSame
<1>1. CbTypeOK'
  BY DEF CbTypeOK, Drainer
<1>2. Channels'
  BY <1>0 DEF CbTypeOK, Channels
<1>3. PassesOn'
  BY <1>0 DEF CbTypeOK, Channels, PassesOn
<1>4. Answerable'
  BY <1>0 DEF CbTypeOK, Channels, PassesOn, Answerable, Live, Down, Up
<1>5. Down'
  BY DEF CbTypeOK, Down, Up
<1>6. RestartClosesRequests'
  BY RestartQuiet DEF CbTypeOK, Up, Down
<1>. QED BY <1>1, <1>2, <1>3, <1>4, <1>5, <1>6

LEMMA StopKeeps ==
    ASSUME CbInv, Stop
    PROVE  CbInv'
<1>. USE DEF CbInv, Stop, handler, store
<1>0. Noted' = Noted /\ Due' = Due /\ On(rows') = On(rows)
  BY NotedSame
<1>1. CbTypeOK'
  BY DEF CbTypeOK, Drainer
<1>2. Channels'
  BY <1>0 DEF CbTypeOK, Channels
<1>3. PassesOn'
  BY <1>0 DEF CbTypeOK, Channels, PassesOn
<1>4. Answerable'
  BY <1>0 DEF CbTypeOK, Channels, PassesOn, Answerable, Live, Down, Up
<1>5. Down'
  BY DEF CbTypeOK, Down, Up
<1>6. RestartClosesRequests'
  BY RestartQuiet DEF CbTypeOK, Up, Down
<1>. QED BY <1>1, <1>2, <1>3, <1>4, <1>5, <1>6

\* A drain answers what is in its map, and records it while the log works.
LEMMA EmptyKeeps ==
    ASSUME CbInv, NEW M \in SUBSET Req, Empty(M), Up, Up',
           UNCHANGED <<task, told, failed, call, owed, restarts>>
    PROVE  /\ pending' \in SUBSET Req /\ sent' \in [Req -> Answer \cup {NoAnswer}]
           /\ rows' \in Seq(Row)
           /\ Channels' /\ PassesOn' /\ Answerable' /\ Down' /\ RestartClosesRequests'
<1>. USE DEF CbInv, Empty
<1>. DEFINE D == M \cap pending
            news == CancelRows(D)
<1>0. D \in SUBSET Req /\ "cancel" \in Answer
  BY DEF Answer
<1>1. news \in Seq(Row) /\ On(news) = {ResponseRow(q, "cancel") : q \in D}
  BY <1>0, CancelRowsOn
<1>. HIDE DEF news
<1>2. /\ rows' \in Seq(Row) /\ On(rows) \subseteq On(rows') /\ On(rows') \subseteq On(rows) \cup On(news)
      /\ Noted \subseteq Noted' /\ Noted' \subseteq Noted \cup On(news) /\ Due' = Due
      /\ ~failed => On(news) \subseteq Noted'
  BY <1>1, NotedRecord DEF CbTypeOK, news
<1>3. \A x \in On(news) : x.what = "response" /\ x.answer = "cancel" /\ \A q \in Req : RequestRow(q) # x
  BY <1>0, <1>1, RowFields
<1>4. /\ pending' = pending \ M /\ sent' \in [Req -> Answer \cup {NoAnswer}]
      /\ \A q \in D : sent'[q] = "cancel"
      /\ \A q \in Req \ D : sent'[q] = sent[q]
  BY <1>0 DEF CbTypeOK
<1>. HIDE DEF D
<1>5. pending' \in SUBSET Req /\ pending' \cap D = {} /\ pending' \subseteq pending
      /\ \A q \in pending : q \in pending' \/ q \in D
  BY <1>4 DEF CbTypeOK, D
<1>6. Channels'
  <2>1. ASSUME NEW x \in Noted, x.what = "response"
        PROVE  x.answer = "cancel" \/ (x.answer # NoAnswer /\ x.answer = sent'[x.req])
    <3>1. CASE x.answer # "cancel"
      <4>1. x.answer # NoAnswer /\ x.answer = sent[x.req]
        BY <2>1, <3>1 DEF Channels
      <4>2. x.req \in Req
        BY NotedTyped
      <4>3. x.req \notin pending
        BY <4>1 DEF Channels
      <4>. QED BY <1>4, <4>1, <4>2, <4>3 DEF D
    <3>. QED BY <3>1
  <2>2. \A q \in pending' :
            sent'[q] = NoAnswer /\ task'[q] \in {"registered", "withdrawing", "waiting"}
    BY <1>4, <1>5 DEF Channels, CbTypeOK
  <2>3. \A q \in Req : task'[q] \in {"idle", "queued"} => sent'[q] = NoAnswer
    BY <1>4 DEF Channels, D
  <2>. QED BY <1>2, <1>3, <2>1, <2>2, <2>3 DEF Channels
<1>7. PassesOn'
  BY <1>2, <1>3, <1>4 DEF PassesOn, Channels, D
<1>8. Answerable'
  <2>1. SUFFICES ASSUME ~failed, NEW q \in Req, Live(q)'
                 PROVE  q \in pending' \/ \E x \in Noted' : Closes(x, q)
    BY DEF Answerable
  <2>2. Live(q)
    BY <1>2, <1>3, <2>1 DEF Live
  <2>3. CASE q \in D
    <3>1. ResponseRow(q, "cancel") \in Noted' /\ Closes(ResponseRow(q, "cancel"), q)
      BY <1>0, <1>1, <1>2, <2>1, <2>3, RowFields
    <3>. QED BY <3>1
  <2>4. CASE q \notin D
    BY <1>2, <1>5, <2>1, <2>2, <2>4 DEF Answerable
  <2>. QED BY <2>3, <2>4
<1>9. RestartClosesRequests'
  BY <1>1, <1>3, RestartKept DEF CbTypeOK, news, D
<1>. QED BY <1>2, <1>4, <1>5, <1>6, <1>7, <1>8, <1>9 DEF Down

LEMMA CancelPendingPermissionsKeeps ==
    ASSUME CbInv, NEW d \in Drainer, CancelPendingPermissions(d)
    PROVE  CbInv'
<1>1. Empty(Permission) /\ Permission \in SUBSET Req /\ Up'
      /\ UNCHANGED <<task, told, failed, client, call, owed, restarts>>
  BY DEF CancelPendingPermissions, Req, Up
<1>2. drain' \in [Drainer -> {"idle", "permissions", "elicitations", "kill"}] /\ Up
  BY DEF CancelPendingPermissions, CbInv, CbTypeOK
<1>. QED BY <1>1, <1>2, EmptyKeeps DEF CbInv, CbTypeOK

LEMMA CancelPendingElicitationsKeeps ==
    ASSUME CbInv, NEW d \in Drainer, CancelPendingElicitations(d)
    PROVE  CbInv'
<1>1. Empty(Elicitation) /\ Elicitation \in SUBSET Req /\ Up'
      /\ UNCHANGED <<task, told, failed, client, call, owed, restarts>>
  BY DEF CancelPendingElicitations, Req, Up
<1>2. drain' \in [Drainer -> {"idle", "permissions", "elicitations", "kill"}] /\ Up
  BY DEF CancelPendingElicitations, CbInv, CbTypeOK
<1>. QED BY <1>1, <1>2, EmptyKeeps DEF CbInv, CbTypeOK

LEMMA KillKeeps ==
    ASSUME CbInv, Kill
    PROVE  CbInv'
<1>. USE DEF CbInv, Kill, handler, store
<1>0. Noted' = Noted /\ Due' = Due /\ On(rows') = On(rows)
  BY NotedSame
<1>1. CbTypeOK'
  BY DEF CbTypeOK, Drainer
<1>2. Channels'
  BY <1>0 DEF CbTypeOK, Channels
<1>3. PassesOn'
  BY <1>0 DEF CbTypeOK, Channels, PassesOn
<1>4. Answerable'
  BY <1>0 DEF CbTypeOK, Answerable, Live, Down, Up, Drainer
<1>5. Down'
  BY DEF CbTypeOK, Down, Up, Drainer
<1>6. RestartClosesRequests'
  BY RestartQuiet DEF CbTypeOK, Up, Down, Drainer
<1>. QED BY <1>1, <1>2, <1>3, <1>4, <1>5, <1>6

-----------------------------------------------------------------------------
(* The server goes down, and is started again.                             *)

\* Nothing is owed after a crash, and every task that had not ended is lost.
LEMMA CrashKeeps ==
    ASSUME CbInv, Crash
    PROVE  CbInv'
<1>. USE DEF CbInv, Crash
<1>0. Noted' \subseteq Noted /\ Due' = {} /\ On(rows') = On(rows)
  <2>1. \A v \in Resolver : On(owed'[v]) = {}
    BY OnFew
  <2>. QED BY <2>1 DEF Noted, Due
<1>a. \A r \in Req : task'[r] = IF task[r] \in {"idle", "done"} THEN task[r] ELSE "lost"
  OBVIOUS
<1>1. CbTypeOK'
  <2>1. <<>> \in Seq(Row)
    BY EmptySeq
  <2>2. \A v \in Resolver : owed'[v] = <<>>
    OBVIOUS
  <2>3. owed' \in [Resolver -> Seq(Row)]
    BY <2>1
  <2>. QED BY <2>3 DEF CbTypeOK
<1>2. Channels'
  BY <1>0, <1>a DEF Channels
<1>3. PassesOn'
  BY <1>0, <1>a DEF PassesOn
<1>4. Answerable' /\ Down' /\ RestartClosesRequests'
  BY <1>a DEF Answerable, Down, RestartClosesRequests, Up, CbTypeOK
<1>. QED BY <1>1, <1>2, <1>3, <1>4

LEMMA RecoverKeeps ==
    ASSUME CbInv, Recover
    PROVE  CbInv'
<1>. USE DEF CbInv, Recover, handler, calls
<1>. DEFINE S == {q \in Req : StillPending(q)}
            news == CancelRows(S)
<1>0. S \in SUBSET Req /\ "cancel" \in Answer
  BY DEF Answer
<1>1. news \in Seq(Row) /\ On(news) = {ResponseRow(q, "cancel") : q \in S}
  BY <1>0, CancelRowsOn
<1>2. rows' \in Seq(Row) /\ On(rows') = On(rows) \cup On(news) /\ Due' = Due
      /\ Noted' = Noted \cup On(news)
  <2>1. rows' \in Seq(Row) /\ On(rows') = On(rows) \cup On(news)
    BY <1>1, OnConcat DEF CbTypeOK
  <2>2. Due' = Due
    BY DEF Due
  <2>. QED BY <2>1, <2>2 DEF Noted
<1>3. \A x \in On(news) : x.what = "response" /\ x.answer = "cancel" /\ \A q \in Req : RequestRow(q) # x
  BY <1>0, <1>1, RowFields
<1>4. CbTypeOK'
  BY <1>2 DEF CbTypeOK, Down, Up
<1>5. Channels'
  BY <1>2, <1>3 DEF Channels
<1>6. PassesOn'
  BY <1>2, <1>3 DEF PassesOn
<1>7. Answerable'
  <2>1. SUFFICES ASSUME NEW q \in Req, Live(q)' PROVE \E x \in Noted' : Closes(x, q)
    BY DEF Answerable
  <2>2. RequestRow(q) \in On(rows)
    BY <1>2, <1>3, <2>1 DEF Live, Down
  <2>3. CASE StillPending(q)
    <3>1. ResponseRow(q, "cancel") \in On(news) /\ Closes(ResponseRow(q, "cancel"), q)
      BY <1>0, <1>1, <2>3, RowFields
    <3>. QED BY <1>2, <3>1
  <2>4. CASE ~StillPending(q)
    <3>1. \E j \in DOMAIN rows : Closes(rows[j], q)
      BY <2>2, <2>4, LenProperties DEF StillPending, On, CbTypeOK
    <3>. QED BY <1>2, <3>1 DEF Noted, On
  <2>. QED BY <2>3, <2>4
<1>8. Down'
  BY DEF Down, Up
<1>9. RestartClosesRequests'
  BY RecoveryCloses DEF RestartClosesRequests, CbTypeOK
<1>. QED BY <1>4, <1>5, <1>6, <1>7, <1>8, <1>9

-----------------------------------------------------------------------------
(* The theorems.                                                           *)

LEMMA CbInvInit == CbInit => CbInv
<1>. SUFFICES ASSUME CbInit PROVE CbInv
  OBVIOUS
<1>1. <<>> \in Seq(Row) /\ On(rows) = {} /\ \A v \in Resolver : On(owed[v]) = {}
  BY EmptySeq, OnFew DEF CbInit
<1>2. Noted = {} /\ Due = {}
  BY <1>1 DEF Noted, Due
<1>3. CbTypeOK
  <2>1. owed \in [Resolver -> Seq(Row)] /\ rows \in Seq(Row)
    BY <1>1 DEF CbInit
  <2>2. restarts \in 0..Restarts
    BY DEF CbInit
  <2>. QED BY <2>1, <2>2 DEF CbInit, CbTypeOK
<1>. QED
  BY <1>1, <1>2, <1>3 DEF CbInit, CbInv, Channels, PassesOn, Answerable, Live, Down, Up,
         RestartClosesRequests

LEMMA CbInvNext == CbInv /\ [CbNext]_cbVars => CbInv'
<1>. SUFFICES ASSUME CbInv, [CbNext]_cbVars PROVE CbInv'
  OBVIOUS
<1>1. ASSUME LogFails \/ Stop \/ Kill \/ Crash \/ Recover PROVE CbInv'
  BY <1>1, LogFailsKeeps, StopKeeps, KillKeeps, CrashKeeps, RecoverKeeps
<1>2. ASSUME NEW r \in Req,
             \/ Ask(r) \/ Register(r) \/ RecordRequest(r) \/ RequestRefused(r)
             \/ Withdraw(r) \/ Reply(r) \/ RespondPermission(r) \/ CompleteElicitation(r)
             \/ \E b \in Browser, a \in {"accept", "decline"} : BeginElicitation(b, r, a)
      PROVE  CbInv'
  BY <1>2, AskKeeps, RegisterKeeps, RecordRequestKeeps, RequestRefusedKeeps, WithdrawKeeps,
     ReplyKeeps, RespondPermissionKeeps, CompleteElicitationKeeps, BeginElicitationKeeps
<1>3. ASSUME \/ \E b \in Browser : ResolveElicitation(b)
             \/ \E v \in Resolver : RecordOwed(v)
             \/ \E c \in Canceller : Cancel(c)
             \/ \E d \in Drainer : CancelPendingPermissions(d) \/ CancelPendingElicitations(d)
      PROVE  CbInv'
  BY <1>3, ResolveElicitationKeeps, RecordOwedKeeps, CancelKeeps, CancelPendingPermissionsKeeps,
     CancelPendingElicitationsKeeps
<1>4. CASE UNCHANGED cbVars
  <2>. USE <1>4 DEF cbVars, handler, store, calls, CbInv
  <2>1. Noted' = Noted /\ Due' = Due /\ On(rows') = On(rows)
    BY NotedSame
  <2>2. CbTypeOK' /\ Down'
    BY DEF CbTypeOK, Down, Up
  <2>3. Channels' /\ PassesOn' /\ Answerable'
    BY <2>1 DEF Channels, PassesOn, Answerable, Live, Up
  <2>4. RestartClosesRequests'
    BY RestartQuiet DEF Up
  <2>. QED BY <2>2, <2>3, <2>4
<1>. QED BY <1>1, <1>2, <1>3, <1>4 DEF CbNext

\* Types, what a channel carried and what is noted of it, for every finite set of requests
\* (callbacks.rs, respond_permission and resolve_elicitation): the inductive invariant.
THEOREM CbInvHolds == CbSpec => []CbInv
BY CbInvInit, CbInvNext, PTL DEF CbSpec

\* An answer that the event log records is the answer the agent was told, whatever
\* cancellation, completion or second browser comes between (callbacks.rs,
\* resolve_elicitation).
THEOREM RecordedAnswerWasToldHolds == CbSpec => []RecordedAnswerWasTold
<1>1. CbInv => RecordedAnswerWasTold
  <2>. SUFFICES ASSUME CbInv, NEW i \in DOMAIN rows, rows[i].what = "response",
                       rows[i].answer # "cancel", Recorded(rows[i].req), task[rows[i].req] = "done"
                PROVE  told[rows[i].req] = rows[i].answer
    BY DEF RecordedAnswerWasTold
  <2>. DEFINE r == rows[i].req
  <2>1. rows[i] \in Noted /\ r \in Req
    BY NotedTyped DEF CbInv, Noted, On
  <2>2. rows[i].answer = sent[r]
    BY <2>1 DEF CbInv, Channels
  <2>3. RequestRow(r) \in On(rows)
    BY DEF Recorded, On
  <2>. QED BY <2>1, <2>2, <2>3 DEF CbInv, PassesOn
<1>. QED BY <1>1, CbInvHolds, PTL

\* A request that the browsers see open can be answered, a restart leaves none open, and
\* a recorded answer was told (callbacks.rs, cancel_pending_permissions; events.rs, the
\* recovery).
THEOREM RequestsSettleHolds == CbSpec => []RequestsSettle
<1>1. CbInv => OpenIsAnswerable
  <2>. SUFFICES ASSUME CbInv, NEW r \in Req, Up, ~failed, Recorded(r), task[r] # "lost",
                       \A i \in DOMAIN rows : ~Closes(rows[i], r)
                PROVE  r \in pending \/ Owes(r)
    BY DEF OpenIsAnswerable
  <2>1. RequestRow(r) \in On(rows)
    BY DEF Recorded, On
  <2>2. Live(r)
    BY <2>1 DEF Live, CbInv, PassesOn
  <2>3. r \in pending \/ \E x \in Noted : Closes(x, r)
    BY <2>2 DEF CbInv, Answerable
  <2>4. \A x \in Noted : Closes(x, r) => Owes(r)
    BY DEF Noted, Due, On, Owes
  <2>. QED BY <2>3, <2>4
<1>2. CbInv => CbTypeOK /\ RestartClosesRequests
  BY DEF CbInv
<1>. QED BY <1>1, <1>2, CbInvHolds, RecordedAnswerWasToldHolds, PTL DEF RequestsSettle

-----------------------------------------------------------------------------
(* The updates of an agent and the title of its chat.  Three writers of    *)
(* one row tell the pages in a step of their own: who has changed it and   *)
(* not said so is part of the property, what the reader and the query have *)
(* in hand meanwhile is what the invariant adds.                           *)

UpdatesSpec == SuInit /\ [][SuNext]_suVars

\* What the reader has in hand: a tool call whose command the tracker knows, or an
\* info update.
ReaderHolds ==
    /\ reading.step = "ingested" =>
        reading.line \in Updates /\ (OfCommand(reading.line) => reading.line.id \in tasks)
    /\ reading.step = "retitled" =>
        reading = [step |-> "retitled", line |-> reading.line, changed |-> reading.changed]
            /\ reading.line.is = "info" /\ reading.changed \in BOOLEAN

QueryHolds == query.step = "listed" => query.title \in Title

UpdatesInv == UpdatesHold /\ ReaderHolds /\ QueryHolds

\* An event is logged for a command that is known, or for none.
LEMMA LogKeeps ==
    ASSUME UpdatesInv, NEW u, Log(u), OfCommand(u) => u.id \in tasks, tasks \subseteq tasks'
    PROVE  history' \subseteq tasks'
BY DEF UpdatesInv, UpdatesHold, TaskBeforeEvent, Log

\* A reader that goes from rest to rest or ends, with the row as it was.
LEMMA ReadRests ==
    ASSUME UpdatesInv, reading.step \in {"idle", "ingested"}, reading' \in {reading, Rest, [step |-> "ended"]},
           reading' = reading => tasks' = tasks,
           UNCHANGED <<row, accepts, query, edit, chosen, announced>>,
           tasks \subseteq tasks', tasks' \subseteq ToolCall,
           history' \subseteq tasks'
    PROVE  UpdatesInv'
BY DEF UpdatesInv, UpdatesHold, SuTypeOK, TitlesHold, TaskBeforeEvent, Owing, ReaderHolds, QueryHolds, Rest, OfCommand


LEMMA ReadKeeps ==
    ASSUME UpdatesInv, NEW u \in Updates, reading = Rest,
           ReadDynamic(u) \/ ReadDropped(u) \/ ReadPlain(u) \/ ReadTool(u) \/ ReadInfo(u),
           UNCHANGED <<replayed, accepts, query, edit, chosen>>
    PROVE  UpdatesInv'
<1>1. /\ reading.step = "idle" /\ history \subseteq tasks /\ tasks \subseteq ToolCall
      /\ row \in [title : Title \cup {Default}, over : BOOLEAN]
  BY DEF Rest, UpdatesInv, UpdatesHold, SuTypeOK, TaskBeforeEvent
<1>2. CASE ReadDynamic(u)
  <2>1. history' \subseteq tasks
    BY <1>1, <1>2, LogKeeps DEF ReadDynamic, Dynamic, OfCommand
  <2>. QED BY <1>1, <1>2, <2>1, ReadRests DEF ReadDynamic, ReaderEnds
<1>3. CASE ReadDropped(u)
  BY <1>1, <1>3, ReadRests DEF ReadDropped
<1>4. CASE ReadPlain(u)
  <2>1. history' \subseteq tasks
    BY <1>1, <1>4, LogKeeps DEF ReadPlain, Records, OfCommand
  <2>. QED BY <1>1, <1>4, <2>1, ReadRests DEF ReadPlain, Records, ReaderEnds
<1>5. CASE ReadTool(u)
  <2>1. /\ u.is = "tool" /\ reading' = [step |-> "ingested", line |-> u] /\ row' = row
        /\ tasks' = IF OfCommand(u) THEN tasks \cup {u.id} ELSE tasks
        /\ history' = history
        /\ announced' = announced \/ announced' = row.title
        /\ accepts => announced' = row.title \/ (announced' = announced)
    BY <1>5 DEF ReadTool, Tell, Untold
  <2>2. u.id \in ToolCall
    BY <2>1 DEF Updates
  <2>3. reading'.step = "ingested" /\ reading'.line = u
    BY <2>1
  <2>. QED BY <1>1, <2>1, <2>2, <2>3
           DEF UpdatesInv, UpdatesHold, SuTypeOK, TitlesHold, TaskBeforeEvent, Owing,
               ReaderHolds, QueryHolds, OfCommand
<1>6. CASE ReadInfo(u)
  <2>1. /\ u.is = "info" /\ UNCHANGED <<history, tasks, announced>>
        /\ reading' = [step |-> "retitled", line |-> u, changed |-> row' # row]
        /\ row' = row \/ (~row.over /\ \E t \in Title : row' = [row EXCEPT !.title = t])
    BY <1>6 DEF ReadInfo, AgentRetitles, Retitled
  <2>2. /\ reading'.step = "retitled" /\ reading'.line = u /\ reading'.changed = (row' # row)
        /\ (row' # row) \in BOOLEAN
    BY <2>1
  <2>3. /\ row' \in [title : Title \cup {Default}, over : BOOLEAN]
        /\ row'.over => row' = row
    BY <1>1, <2>1
  <2>. QED BY <1>1, <2>1, <2>2, <2>3
           DEF UpdatesInv, UpdatesHold, SuTypeOK, TitlesHold, TaskBeforeEvent, Owing,
               ReaderHolds, QueryHolds
<1>. QED BY <1>2, <1>3, <1>4, <1>5, <1>6

LEMMA RecordKeeps ==
    ASSUME UpdatesInv, RecordTool \/ RecordInfo, UNCHANGED <<replayed, accepts, query, edit, chosen>>
    PROVE  UpdatesInv'
<1>1. CASE RecordTool
  <2>1. history' \subseteq tasks'
    BY <1>1, LogKeeps DEF RecordTool, Records, UpdatesInv, UpdatesHold, TaskBeforeEvent, ReaderHolds
  <2>. QED BY <1>1, <2>1, ReadRests
           DEF RecordTool, Records, ReaderEnds, UpdatesInv, UpdatesHold, SuTypeOK
<1>2. CASE RecordInfo
  <2>1. /\ reading.step = "retitled" /\ UNCHANGED <<row, tasks>>
        /\ reading = [step |-> "retitled", line |-> reading.line, changed |-> reading.changed]
        /\ reading.line.is = "info" /\ history \subseteq tasks /\ tasks \subseteq ToolCall
        /\ row.title \in Title \cup {Default}
    BY <1>2 DEF RecordInfo, UpdatesInv, UpdatesHold, SuTypeOK, ReaderHolds, TaskBeforeEvent
  <2>2. CASE reading.changed /\ Tell(row.title) /\ reading' = [reading EXCEPT !.changed = FALSE]
    <3>1. /\ reading' = [step |-> "retitled", line |-> reading.line, changed |-> FALSE]
          /\ announced' = row.title /\ history' = history
      BY <2>1, <2>2 DEF Tell
    <3>. QED BY <2>1, <3>1
             DEF UpdatesInv, UpdatesHold, SuTypeOK, TitlesHold, TaskBeforeEvent, Owing,
                 ReaderHolds, QueryHolds
  <2>3. CASE ~reading.changed /\ Log(reading.line) /\ reading' = Rest /\ UNCHANGED announced
    <3>1. history' = history
      BY <2>1, <2>3 DEF Log, OfCommand
    <3>. QED BY <2>1, <2>3, <3>1
             DEF UpdatesInv, UpdatesHold, SuTypeOK, TitlesHold, TaskBeforeEvent, Owing,
                 ReaderHolds, QueryHolds, Rest
  <2>4. CASE Untold /\ ReaderEnds
    BY <2>1, <2>4
       DEF Untold, ReaderEnds, UpdatesInv, UpdatesHold, SuTypeOK, TitlesHold, TaskBeforeEvent, Owing,
           ReaderHolds, QueryHolds
  <2>. QED BY <1>2, <2>2, <2>3, <2>4 DEF RecordInfo
<1>. QED BY <1>1, <1>2

\* The query after a turn, which may be asked long before its title is stored.
LEMMA QueryKeeps ==
    ASSUME UpdatesInv, QueryTitle \/ ListTitle \/ StoreTitle \/ TellTitle
    PROVE  UpdatesInv'
<1>1. /\ row \in [title : Title \cup {Default}, over : BOOLEAN]
      /\ \A w \in Writer : edit[w] \in {"idle", "stored"}
  BY DEF UpdatesInv, UpdatesHold, SuTypeOK
<1>2. CASE QueryTitle
  BY <1>2 DEF QueryTitle, UpdatesInv, UpdatesHold, SuTypeOK, TitlesHold, TaskBeforeEvent, Owing,
              ReaderHolds, QueryHolds, Rest
<1>3. CASE ListTitle
  <2>1. /\ query.step = "asked" /\ query'.step \in {"idle", "listed"}
        /\ query'.step = "listed" => query'.title \in Title
        /\ UNCHANGED <<reading, replayed, row, history, accepts, edit, tasks, announced, chosen>>
    BY <1>3 DEF ListTitle, Rest
  <2>. QED BY <2>1 DEF UpdatesInv, UpdatesHold, SuTypeOK, TitlesHold, TaskBeforeEvent, Owing,
                       ReaderHolds, QueryHolds
<1>4. CASE StoreTitle
  <2>1. /\ query.step = "listed" /\ query'.step = (IF row' # row THEN "stored" ELSE "idle")
        /\ UNCHANGED <<reading, replayed, history, accepts, edit, tasks, announced, chosen>>
        /\ row' = row \/ (~row.over /\ row' = [row EXCEPT !.title = query.title])
        /\ query.title \in Title
    BY <1>4 DEF StoreTitle, AgentRetitles, Retitled, Rest, UpdatesInv, QueryHolds
  <2>2. /\ row' \in [title : Title \cup {Default}, over : BOOLEAN]
        /\ row'.over => row' = row
    BY <1>1, <2>1
  <2>. QED BY <2>1, <2>2 DEF UpdatesInv, UpdatesHold, SuTypeOK, TitlesHold, TaskBeforeEvent, Owing,
                             ReaderHolds, QueryHolds
<1>5. CASE TellTitle
  BY <1>1, <1>5
     DEF TellTitle, Tell, Untold, Rest, UpdatesInv, UpdatesHold, SuTypeOK, TitlesHold,
         TaskBeforeEvent, Owing, ReaderHolds, QueryHolds
<1>. QED BY <1>2, <1>3, <1>4, <1>5

LEMMA EditKeeps ==
    ASSUME UpdatesInv, NEW w \in Writer, EditTitle(w) \/ TellEdit(w)
    PROVE  UpdatesInv'
<1>1. /\ row \in [title : Title \cup {Default}, over : BOOLEAN]
      /\ edit \in [Writer -> {"idle", "stored"}]
  BY DEF UpdatesInv, UpdatesHold, SuTypeOK
<1>2. CASE EditTitle(w)
  <2>1. PICK t \in Title : row' = [title |-> t, over |-> TRUE] /\ chosen' = t
    BY <1>2 DEF EditTitle
  <2>2. /\ edit' = [edit EXCEPT ![w] = "stored"]
        /\ UNCHANGED <<reading, replayed, history, accepts, query, tasks, announced>>
    BY <1>2 DEF EditTitle
  <2>3. edit'[w] = "stored"
    BY <1>1, <2>2
  <2>. QED BY <1>1, <2>1, <2>2, <2>3
           DEF UpdatesInv, UpdatesHold, SuTypeOK, TitlesHold, TaskBeforeEvent, Owing, ReaderHolds, QueryHolds
<1>3. CASE TellEdit(w)
  BY <1>1, <1>3
     DEF TellEdit, Tell, Untold, UpdatesInv, UpdatesHold, SuTypeOK, TitlesHold,
         TaskBeforeEvent, Owing, ReaderHolds, QueryHolds
<1>. QED BY <1>2, <1>3

LEMMA UpdatesInit == SuInit => UpdatesInv
BY DEF SuInit, UpdatesInv, UpdatesHold, SuTypeOK, TitlesHold, TaskBeforeEvent, Owing, ReaderHolds,
       QueryHolds, Rest

LEMMA UpdatesStep == UpdatesInv /\ [SuNext]_suVars => UpdatesInv'
<1>. SUFFICES ASSUME UpdatesInv, [SuNext]_suVars PROVE UpdatesInv'
  OBVIOUS
<1>1. CASE Read
  BY <1>1, ReadKeeps, RecordKeeps DEF Read
<1>2. CASE Reopens \/ LogCloses \/ UNCHANGED suVars
  BY <1>2 DEF Reopens, LogCloses, suVars, UpdatesInv, UpdatesHold, SuTypeOK, TitlesHold,
              TaskBeforeEvent, Owing, ReaderHolds, QueryHolds, OfCommand
<1>. QED BY <1>1, <1>2, QueryKeeps, EditKeeps DEF SuNext

\* However the reader, the query after a turn and users interleave, the title a user gave
\* stays, pages hear of every change, and a command is known before its event: an
\* invariant that is inductive with what the reader and the query have in hand
\* (acp/mod.rs, session/mod.rs:1376-1426, service/chats.rs:609-618).
THEOREM UpdatesHoldAlways == UpdatesSpec => []UpdatesHold
<1>1. UpdatesInv => UpdatesHold
  BY DEF UpdatesInv
<1>. QED BY <1>1, UpdatesInit, UpdatesStep, PTL DEF UpdatesSpec

-----------------------------------------------------------------------------
(* The options and the mode of a session, of which there are four copies.  *)
(* The argument follows the one answer that may be awaited at a time: it   *)
(* is a request with the agent, the last line on its way, a reply in the   *)
(* channel of its caller, or in the hand of the request under turn_guard;  *)
(* while it is in one of these places the copies it will settle may lag,   *)
(* and otherwise they say what the agent has.                              *)

OptionsSpec == SoInit /\ [][SoNext]_soVars

Confs == [Option -> Value \cup {Unset}]
Modes == Value \cup {Unset}
Snapshots == [conf : Confs, mode : Modes]
Lines == [what : Replies \cup {"config", "mode"}, conf : Confs, mode : Modes, late : BOOLEAN]
SetRequests == [what : {"set"}, o : Option, v : Value, late : BOOLEAN]
ModeRequests == [what : {"mode"}, v : Value, late : BOOLEAN]
AskedFor == [step : {"want", "wait"}, what : {"set"}, o : Option, v : Value]
    \cup [step : {"want", "wait"}, what : {"mode"}, v : Value]
Answered == [step : {"reply"}, what : {"set"}, o : Option, v : Value, hand : Confs]
    \cup [step : {"saved"}, what : {"set"}, hand : Confs]
    \cup [step : {"saved"}, what : {"mode"}, hand : Value]

\* Types that the properties leave out.
Typed ==
    /\ agent \in [offers : [Option -> SUBSET Value], conf : Confs, mode : Modes]
    /\ inbox \in Seq([what : {"open"}] \cup SetRequests \cup ModeRequests)
    /\ out \in Seq(Lines) /\ reply \in {NoReply} \cup Lines
    /\ snap \in Snapshots /\ saved \in Confs /\ logged \in Snapshots
    /\ proc = "publishing" => plan \in Snapshots
    /\ proc # "publishing" => plan \in Confs
    /\ req \in {Free, [step |-> "turn"]} \cup AskedFor \cup Answered
    /\ verdict \in {[is |-> "none"], Retry} \cup [is : {"reset"}, o : Option]
    /\ session \in BOOLEAN /\ crossed \in BOOLEAN
    /\ SoTypeOK

\* Who waits in a phase, and for what.
Phases ==
    /\ proc = "stopped" => inbox = <<>> /\ out = <<>> /\ reply = NoReply
    /\ req.step = "wait" => proc = "running"
    /\ proc # "opening" => \A i \in DOMAIN inbox : inbox[i].what # "open"
    /\ \A i \in DOMAIN out : out[i].what \in {"opened", "error"} => proc = "opening"
         /\ ~out[i].late
    /\ reply.what \in {"opened", "error"} => proc = "opening"

IsAnswer(line) == line.what \in Replies
Tells(what) == \E i \in DOMAIN out : out[i].what \in what
InHandOf(what) == Tells(what) \/ reply.what \in what

\* What somebody waits for: a request that has not timed out, its answer.
AwaitedRequest(i) == i \in DOMAIN inbox /\ (inbox[i].what = "open" \/ ~inbox[i].late)
AwaitedAnswer(i) == i \in DOMAIN out /\ IsAnswer(out[i]) /\ ~out[i].late

\* One thing is awaited at a time.
OneAwaited ==
    /\ \A i, j \in DOMAIN inbox : AwaitedRequest(i) /\ AwaitedRequest(j) => i = j
    /\ \A i, j \in DOMAIN out : AwaitedAnswer(i) /\ AwaitedAnswer(j) => i = j
    /\ \A i \in DOMAIN out : AwaitedAnswer(i) => reply = NoReply
         /\ \A j \in DOMAIN inbox : ~AwaitedRequest(j)
    /\ reply # NoReply => IsAnswer(reply) /\ \A j \in DOMAIN inbox : ~AwaitedRequest(j)

\* In a running session the request under turn_guard awaits it.
OwnAnswer ==
    proc = "running" =>
        /\ \A i \in DOMAIN inbox :
            AwaitedRequest(i) =>
                /\ req.step = "wait" /\ req.what = inbox[i].what /\ req.v = inbox[i].v
                /\ req.what = "set" => req.o = inbox[i].o
        /\ \A i \in DOMAIN out :
            AwaitedAnswer(i) =>
                /\ req.step = "wait"
                /\ out[i].what = "set" => req.what = "set"
                /\ out[i].what = "moded" => req.what = "mode"
        /\ reply # NoReply =>
                /\ req.step = "wait"
                /\ reply.what = "set" => req.what = "set"
                /\ reply.what = "moded" => req.what = "mode"

\* Before it runs, nobody but the start awaits anything.
PublishesAlone ==
    proc = "publishing" =>
        inbox = <<>> /\ reply = NoReply /\ \A i \in DOMAIN out : ~IsAnswer(out[i])

\* Without a timeout, and unless the agent spoke meanwhile, an answer that is under way
\* is the last line and says what the agent has.
Uncrossed ==
    /\ \A i \in DOMAIN inbox : AwaitedRequest(i)
    /\ \A i \in DOMAIN out :
        IsAnswer(out[i]) =>
            ~out[i].late /\ i = Len(out) /\ out[i].conf = agent.conf /\ out[i].mode = agent.mode
    /\ reply # NoReply => out = <<>> /\ reply.conf = agent.conf /\ reply.mode = agent.mode
    /\ (proc = "running" /\ InHandOf({"moded"})) => agent.mode = req.v

HandHolds ==
    (proc # "stopped" /\ req.step \in {"reply", "saved"}) =>
        /\ proc = "running" /\ inbox = <<>> /\ out = <<>> /\ reply = NoReply
        /\ req.hand = IF req.what = "set" THEN agent.conf ELSE agent.mode

\* The last that was said of the options and of the mode is so.
LastWord ==
    \A i \in DOMAIN out :
        /\ (out[i].what = "config"
             /\ \A j \in DOMAIN out : j > i => out[j].what \notin {"config", "set", "opened"})
            => out[i].conf = agent.conf
        /\ (out[i].what = "mode"
             /\ \A j \in DOMAIN out : j > i => out[j].what \notin {"mode", "moded", "opened"})
            => out[i].mode = agent.mode

SnapHolds ==
    proc \notin {"stopped", "opening"} =>
        /\ ~Tells({"config"}) /\ ~InHandOf({"set", "opened"}) => snap.conf = agent.conf
        /\ ~Tells({"mode"}) /\ ~InHandOf({"moded", "opened"}) => snap.mode = agent.mode

PublishHolds == proc = "publishing" => out = <<>> /\ plan = snap

LogHolds ==
    proc = "running" =>
        /\ (~Tells({"config"}) /\ ~InHandOf({"set"}) /\ ~(req.step \in {"reply", "saved"}
             /\ req.what = "set"))
            => logged.conf = agent.conf
        /\ (~Tells({"mode"}) /\ ~InHandOf({"moded"}) /\ ~(req.step = "saved"
             /\ req.what = "mode") /\ agent.mode # Unset)
            => logged.mode = agent.mode

Asked(o) == \E i \in DOMAIN inbox : inbox[i].what = "set" /\ inbox[i].o = o

SavedHolds ==
    /\ proc = "applying" =>
        /\ \A o \in Option : plan[o] # Unset => saved[o] \in {Unset, plan[o]}
        /\ \A i \in DOMAIN inbox : inbox[i].what = "set" => saved[inbox[i].o] \in {Unset, inbox[i].v}
        /\ \A o \in Option \ own :
            plan[o] = Unset /\ ~Asked(o)
                /\ ~InHandOf({"refused"}) => saved[o] \in {Unset, agent.conf[o]}
    /\ proc \in {"publishing", "running"} =>
        \A o \in Option \ own :
            \/ saved[o] \in {Unset, agent.conf[o]}
            \/ /\ req.step = "reply" \/ (req.step = "wait" /\ InHandOf({"set"}))
               /\ req.what = "set" /\ req.o = o

InStep ==
    ~crossed => Uncrossed /\ HandHolds /\ LastWord /\ SnapHolds /\ PublishHolds /\ LogHolds
        /\ SavedHolds

SoInv == Typed /\ Phases /\ OneAwaited /\ OwnAnswer /\ PublishesAlone /\ InStep /\ ResetIsGenuine

\* An empty copy has every copy's type.
LEMMA Blanks ==
    /\ Unsaved \in Confs /\ Blank \in Snapshots /\ \A o \in Option : Unsaved[o] = Unset
    /\ \A S : <<>> \in Seq(S)
BY DEF Unsaved, Confs, Blank, Snapshots, Modes

LEMMA SoInitial == SoInit => SoInv
<1>. SUFFICES ASSUME SoInit PROVE SoInv
  OBVIOUS
<1>1. Typed
  <2>1. agent \in [offers : [Option -> SUBSET Value], conf : Confs, mode : Modes]
    BY Blanks DEF SoInit, Modes
  <2>2. \A o \in Option : saved[o] \in Value \cup {Unset} /\ snap.conf[o] \in Value \cup {Unset}
    BY Blanks DEF SoInit, Blank
  <2>3. req.step = "idle" /\ Len(inbox) = 0
    BY DEF SoInit, Free
  <2>4. inbox \in Seq([what : {"open"}] \cup SetRequests \cup ModeRequests) /\ out \in Seq(Lines)
    BY DEF SoInit
  <2>5. SoTypeOK
    BY <2>2, <2>3 DEF SoInit, SoTypeOK
  <2>. QED BY <2>1, <2>4, <2>5, Blanks DEF SoInit, Typed
<1>2. Phases /\ OneAwaited /\ OwnAnswer /\ PublishesAlone /\ ResetIsGenuine
  BY DEF SoInit, Phases, OneAwaited, OwnAnswer, PublishesAlone, ResetIsGenuine, Free,
         AwaitedRequest, AwaitedAnswer, NoReply
<1>3. InStep
  BY DEF SoInit, InStep, Uncrossed, HandHolds, LastWord, SnapHolds, PublishHolds, LogHolds,
         SavedHolds, Tells, InHandOf, NoReply, Free
<1>. QED BY <1>1, <1>2, <1>3 DEF SoInv

\* What the properties say follows from the invariant.
LEMMA SoInvSays == SoInv => OptionsHold
<1>. SUFFICES ASSUME SoInv PROVE OptionsHold
  OBVIOUS
<1>1. ASSUME proc = "running", req = Free, inbox = <<>>, out = <<>>, ~crossed
      PROVE  /\ snap = State /\ logged.conf = agent.conf
             /\ agent.mode # Unset => logged.mode = agent.mode
             /\ \A o \in Option \ own : saved[o] \in {Unset, agent.conf[o]}
  <2>1. req.step = "idle" /\ reply = NoReply
    BY <1>1 DEF Free, SoInv, OwnAnswer
  <2>2. ~InHandOf({"set", "opened"}) /\ ~InHandOf({"moded", "opened"}) /\ ~InHandOf({"set"})
        /\ ~InHandOf({"moded"}) /\ ~Tells({"config"}) /\ ~Tells({"mode"})
    BY <1>1, <2>1 DEF InHandOf, Tells, NoReply
  <2>3. snap.conf = agent.conf /\ snap.mode = agent.mode
    BY <1>1, <2>2 DEF SoInv, InStep, SnapHolds
  <2>4. snap = State
    BY <2>3 DEF SoInv, Typed, Snapshots, State
  <2>. QED BY <1>1, <2>1, <2>2, <2>4 DEF SoInv, InStep, LogHolds, SavedHolds
<1>. QED BY <1>1 DEF SoInv, Typed, OptionsHold, CopiesAgree

\* The end of a process leaves nothing under way.
LEMMA EndsKeep ==
    ASSUME SoInv, proc' = "stopped", inbox' = <<>>, out' = <<>>, reply' = NoReply,
           plan' = Unsaved, snap' = Blank, own' = {}, crossed' = FALSE,
           agent' = [agent EXCEPT !.conf = Unsaved, !.mode = Unset],
           req' = Free \/ (req' = req /\ req.step # "wait"),
           UNCHANGED <<saved, logged, refused>>, session' \in BOOLEAN,
           verdict' \in {[is |-> "none"], Retry} \cup [is : {"reset"}, o : Option], ResetIsGenuine'
    PROVE  SoInv'
<1>1. Typed'
  <2>1. agent' \in [offers : [Option -> SUBSET Value], conf : Confs, mode : Modes]
    BY Blanks DEF SoInv, Typed, Modes
  <2>2. \A o \in Option : saved'[o] \in Value \cup {Unset} /\ snap'.conf[o] \in Value \cup {Unset}
    BY Blanks DEF Blank, SoInv, Typed, SoTypeOK
  <2>3. req'.step \in {"idle", "want", "wait", "reply", "saved", "turn"} /\ Len(inbox') = 0
    BY DEF Free, SoInv, Typed, SoTypeOK
  <2>4. /\ req' \in {Free, [step |-> "turn"]} \cup AskedFor \cup Answered
        /\ saved' \in Confs /\ logged' \in Snapshots /\ refused' \subseteq Option
    BY DEF SoInv, Typed, SoTypeOK
  <2>5. SoTypeOK'
    BY <2>2, <2>3, <2>4 DEF SoTypeOK
  <2>6. inbox' \in Seq([what : {"open"}] \cup SetRequests \cup ModeRequests)
            /\ out' \in Seq(Lines)
    OBVIOUS
  <2>. QED BY <2>1, <2>4, <2>5, <2>6, Blanks DEF Typed
<1>2. Phases' /\ OneAwaited' /\ OwnAnswer' /\ PublishesAlone'
  BY DEF SoInv, Phases, OneAwaited, OwnAnswer, PublishesAlone, Free,
         AwaitedRequest, AwaitedAnswer, NoReply
<1>3. InStep'
  BY DEF SoInv, InStep, Uncrossed, HandHolds, LastWord, SnapHolds, PublishHolds, LogHolds,
         SavedHolds, Tells, InHandOf, NoReply, Free
<1>. QED BY <1>1, <1>2, <1>3 DEF SoInv

LEMMA DiesKeeps ==
    ASSUME SoInv, Dies \/ OpenFails \/ HubDies
    PROVE  SoInv'
<1>1. /\ proc' = "stopped" /\ inbox' = <<>> /\ out' = <<>> /\ reply' = NoReply
      /\ plan' = Unsaved /\ snap' = Blank /\ own' = {} /\ crossed' = FALSE
      /\ agent' = [agent EXCEPT !.conf = Unsaved, !.mode = Unset]
      /\ req' = Free \/ (req' = req /\ req.step # "wait")
      /\ UNCHANGED <<saved, session, logged, refused>>
      /\ verdict' \in {[is |-> "none"], Retry, verdict}
  BY DEF Dies, OpenFails, HubDies, Ends
<1>2. ResetIsGenuine'
  BY <1>1 DEF SoInv, Typed, ResetIsGenuine, Retry
<1>. QED BY <1>1, <1>2, EndsKeep DEF SoInv, Typed

LEMMA StartKeeps ==
    ASSUME SoInv, Start
    PROVE  SoInv'
<1>1. PICK advert \in Adverts, conf \in [Option -> Value \cup {Unset}] :
        agent' = [offers |-> advert[1], conf |-> conf, mode |-> advert[2]]
  BY DEF Start
<1>2. /\ proc' = "opening" /\ snap' = Blank /\ proc = "stopped"
      /\ inbox' = <<[what |-> "open"]>> /\ out' = <<>> /\ reply' = NoReply
      /\ own' = {} /\ refused' = {} /\ crossed' = (req.step \in {"reply", "saved"})
      /\ verdict' = [is |-> "none"] /\ UNCHANGED <<saved, session, logged, plan, req>>
  BY DEF Start
<1>3. Typed'
  <2>1. inbox' \in Seq([what : {"open"}] \cup SetRequests \cup ModeRequests) /\ Len(inbox') = 1
    BY <1>2
  <2>2. agent' \in [offers : [Option -> SUBSET Value], conf : Confs, mode : Modes]
    BY <1>1, OptionsAssumption DEF Confs, Modes
  <2>. QED BY <1>2, <2>1, <2>2 DEF SoInv, Typed, SoTypeOK, Confs, Modes, Snapshots, Unsaved,
          Blank, Free
<1>4. Phases' /\ OneAwaited' /\ OwnAnswer' /\ PublishesAlone' /\ ResetIsGenuine'
  BY <1>2 DEF SoInv, Phases, OneAwaited, OwnAnswer, PublishesAlone, Free, ResetIsGenuine,
         AwaitedRequest, AwaitedAnswer, NoReply
<1>5. InStep'
  <2>1. SUFFICES ASSUME ~crossed' PROVE InStep'
    BY DEF InStep
  <2>3. ~(req.step \in {"reply", "saved"}) /\ req' = req
    BY <1>2, <2>1, Zenon
  <2>2. req'.step \notin {"reply", "saved"} /\ \A i \in DOMAIN inbox' : inbox'[i].what = "open"
    BY <1>2, <2>3
  <2>. QED BY <1>2, <2>2 DEF InStep, Uncrossed, HandHolds, LastWord, SnapHolds, PublishHolds,
          LogHolds,
         SavedHolds, Tells, InHandOf, NoReply, AwaitedRequest
<1>. QED BY <1>3, <1>4, <1>5 DEF SoInv

\* A request that has not begun, or is over, awaits nothing.
LEMMA AskingKeeps ==
    ASSUME SoInv, AskConfig \/ AskMode \/ TurnBegins \/ TurnEnds \/ GivesUp
    PROVE  SoInv'
<1>1. /\ req.step \in {"idle", "turn", "want"} /\ req'.step \in {"idle", "turn", "want"}
      /\ req' \in {Free, [step |-> "turn"]} \cup AskedFor
      /\ UNCHANGED <<proc, link, copies, plan, verdict, own, refused, crossed>>
  BY DEF AskConfig, AskMode, TurnBegins, TurnEnds, GivesUp, Asks, Free, AskedFor, SoInv, Typed,
     SoTypeOK
<1>2. Typed'
  BY <1>1 DEF SoInv, Typed, SoTypeOK, link, copies
<1>3. Phases' /\ OneAwaited' /\ OwnAnswer' /\ PublishesAlone' /\ ResetIsGenuine'
  BY <1>1 DEF SoInv, Phases, OneAwaited, OwnAnswer, PublishesAlone, ResetIsGenuine,
              AwaitedRequest, AwaitedAnswer, link, copies
<1>4. InStep'
  <2>1. ~crossed => OneAwaited /\ Uncrossed /\ LastWord /\ SnapHolds /\ PublishHolds
            /\ LogHolds /\ SavedHolds
    BY DEF SoInv, InStep
  <2>2. (proc = "running" /\ InHandOf(Replies)) => req.step = "wait" \/ crossed
    BY <2>1 DEF SoInv, Typed, OwnAnswer, InHandOf, Tells, Uncrossed, AwaitedAnswer, IsAnswer,
       NoReply, Replies
  <2>3. ~(proc = "running" /\ InHandOf({"moded"})) \/ crossed
    BY <1>1, <2>2 DEF InHandOf, Tells, Replies
  <2>. QED BY <1>1, <2>1, <2>3
       DEF InStep, Uncrossed, HandHolds, LastWord, SnapHolds, PublishHolds, LogHolds,
           SavedHolds, Tells, InHandOf, AwaitedRequest, Asked, IsAnswer, link, copies
<1>. QED BY <1>2, <1>3, <1>4 DEF SoInv

\* Where the elements of joined sequences, and of a tail, come from.
LEMMA Joins ==
    ASSUME NEW S, NEW s \in Seq(S), NEW t \in Seq(S)
    PROVE  /\ s \o t \in Seq(S)
           /\ \A i \in DOMAIN s : i \in DOMAIN (s \o t) /\ (s \o t)[i] = s[i] /\ i <= Len(s)
           /\ \A k \in DOMAIN t : Len(s) + k \in DOMAIN (s \o t) /\ (s \o t)[Len(s) + k] = t[k]
           /\ \A i \in DOMAIN (s \o t) :
                i \in DOMAIN s \/ \E k \in DOMAIN t : i = Len(s) + k
<1>1. Len(s \o t) = Len(s) + Len(t) /\ s \o t \in Seq(S)
  OBVIOUS
<1>2. DOMAIN (s \o t) = 1 .. Len(s) + Len(t) /\ DOMAIN s = 1 .. Len(s) /\ DOMAIN t = 1 .. Len(t)
      /\ Len(s) \in Nat /\ Len(t) \in Nat
  BY <1>1
<1>3. ASSUME NEW i \in DOMAIN (s \o t), i \notin DOMAIN s PROVE i - Len(s) \in DOMAIN t
          /\ i = Len(s) + (i - Len(s))
  BY <1>2, <1>3
<1>. QED BY <1>1, <1>2, <1>3

LEMMA Tails ==
    ASSUME NEW S, NEW s \in Seq(S), s # <<>>
    PROVE  /\ Tail(s) \in Seq(S) /\ Len(Tail(s)) = Len(s) - 1 /\ Len(s) \in Nat \ {0}
           /\ 1 \in DOMAIN s /\ Head(s) = s[1] /\ Head(s) \in S
           /\ \A i \in DOMAIN Tail(s) : i \in Nat \ {0} /\ i + 1 \in DOMAIN s
                /\ Tail(s)[i] = s[i + 1]
           /\ \A i \in DOMAIN s : i # 1 => i - 1 \in DOMAIN Tail(s) /\ Tail(s)[i - 1] = s[i]
OBVIOUS

\* What ends with y.
LEMMA Ending ==
    ASSUME NEW S, NEW s \in Seq(S), NEW y \in S
    PROVE  /\ Append(s, y) \in Seq(S) /\ Len(Append(s, y)) = Len(s) + 1
           /\ DOMAIN Append(s, y) = 1 .. Len(s) + 1
           /\ Append(s, y)[Len(Append(s, y))] = y
           /\ \A i \in DOMAIN Append(s, y) :
                i = Len(Append(s, y)) \/ (i \in DOMAIN s /\ Append(s, y)[i] = s[i])
<1>1. Len(s) \in Nat /\ DOMAIN s = 1 .. Len(s)
  OBVIOUS
<1>. QED BY <1>1, AppendProperties

LEMMA JustOne ==
    ASSUME NEW S, NEW x \in S
    PROVE  Len(<<x>>) = 1 /\ <<x>>[1] = x /\ DOMAIN <<x>> = {1} /\ <<x>> \in Seq(S)
               /\ <<x>> # <<>>
           /\ \A i \in DOMAIN <<x>> : <<x>>[i] = x
OBVIOUS

Agents == [offers : [Option -> SUBSET Value], conf : Confs, mode : Modes]
Requests == [what : {"open"}] \cup SetRequests \cup ModeRequests

\* The agent handles a request with some lines, of which only the last answers it.
Final(lines) == lines[Len(lines)].what
Handles(lines) ==
    /\ inbox # <<>> /\ inbox' = Tail(inbox) /\ out' = out \o lines /\ reply' = reply
    /\ UNCHANGED <<proc, copies, plan, req, verdict, crossed>>
    /\ own' \subseteq Option /\ refused' \subseteq Option /\ agent' \in Agents
    /\ lines \in Seq(Lines)
    /\ \A i \in DOMAIN lines : lines[i].conf = agent'.conf /\ lines[i].mode = agent'.mode
    /\ \A i \in DOMAIN lines : IsAnswer(lines[i]) =>
        /\ i = Len(lines)
        /\ ~lines[i].late => Head(inbox).what = "open" \/ ~Head(inbox).late
        /\ (Head(inbox).what = "open" \/ ~Head(inbox).late) => ~lines[i].late
        /\ lines[i].what \in {"opened", "error"} => Head(inbox).what = "open"
        /\ lines[i].what = "set" => Head(inbox).what = "set"
        /\ lines[i].what = "moded" => Head(inbox).what = "mode" /\ agent'.mode = Head(inbox).v

LEMMA SaidTyped ==
    ASSUME SoInv, NEW lines, Handles(lines)
    PROVE  Typed' /\ Phases'
<1>1. inbox \in Seq(Requests) /\ out \in Seq(Lines) /\ lines \in Seq(Lines) /\ inbox # <<>>
  BY DEF SoInv, Typed, Requests, Handles
<1>2. inbox' \in Seq(Requests) /\ Len(inbox') <= 2
  BY <1>1, Tails DEF Handles, SoInv, Typed, SoTypeOK
<1>3. out' \in Seq(Lines)
  BY <1>1, Joins DEF Handles
<1>4. agent' \in Agents /\ own' \subseteq Option /\ refused' \subseteq Option
      /\ UNCHANGED <<proc, snap, saved, session, logged, plan, req, verdict, crossed, reply>>
  BY DEF Handles, copies
<1>5. SoTypeOK'
  BY <1>2, <1>4 DEF SoInv, Typed, SoTypeOK
<1>6. Typed'
  BY <1>2, <1>3, <1>4, <1>5 DEF SoInv, Typed, Requests, Agents
<1>7. Phases'
  <2>1. \A i \in DOMAIN inbox' : i + 1 \in DOMAIN inbox /\ inbox'[i] = inbox[i + 1]
    BY <1>1, Tails DEF Handles
  <2>2. \A i \in DOMAIN out' :
          \/ i \in DOMAIN out /\ out'[i] = out[i]
          \/ \E k \in DOMAIN lines : out'[i] = lines[k]
    BY <1>1, Joins DEF Handles
  <2>3. 1 \in DOMAIN inbox /\ Head(inbox) = inbox[1]
    BY <1>1, Tails
  <2>4. \A k \in DOMAIN lines : lines[k].what \in {"opened", "error"} => proc = "opening"
            /\ ~lines[k].late
    BY <2>3 DEF SoInv, Phases, Handles, IsAnswer, Replies
  <2>5. \A i \in DOMAIN out' : out'[i].what \in {"opened", "error"} => proc' = "opening"
            /\ ~out'[i].late
    BY <1>4, <2>2, <2>4 DEF SoInv, Phases
  <2>. QED BY <1>1, <1>4, <2>1, <2>5 DEF SoInv, Phases
<1>. QED BY <1>6, <1>7

LEMMA SaidAwaits ==
    ASSUME SoInv, NEW lines, Handles(lines)
    PROVE  OneAwaited' /\ OwnAnswer' /\ PublishesAlone'
<1>1. inbox \in Seq(Requests) /\ out \in Seq(Lines) /\ lines \in Seq(Lines) /\ inbox # <<>>
  BY DEF SoInv, Typed, Requests, Handles
<1>2. inbox' = Tail(inbox) /\ out' = out \o lines /\ UNCHANGED <<proc, req, reply>>
  BY DEF Handles
<1>3. \A i \in DOMAIN inbox' : AwaitedRequest(i)' => AwaitedRequest(i + 1)
          /\ inbox'[i] = inbox[i + 1] /\ i \in Nat \ {0}
  BY <1>1, <1>2, Tails DEF AwaitedRequest
<1>4. /\ \A i \in DOMAIN out : i \in DOMAIN out' /\ out'[i] = out[i] /\ i <= Len(out)
      /\ \A k \in DOMAIN lines : Len(out) + k \in DOMAIN out' /\ out'[Len(out) + k] = lines[k]
      /\ \A i \in DOMAIN out' : i \in DOMAIN out \/ \E k \in DOMAIN lines : i = Len(out) + k
  BY <1>1, <1>2, Joins
<1>5. \A i \in DOMAIN out' : AwaitedAnswer(i)' =>
        \/ AwaitedAnswer(i) /\ i \in DOMAIN out /\ out'[i] = out[i]
        \/ /\ AwaitedRequest(1) /\ i = Len(out) + Len(lines) /\ i = Len(out')
           /\ out'[i].what = "set" => inbox[1].what = "set"
           /\ out'[i].what = "moded" => inbox[1].what = "mode"
  <2>1. Len(out') = Len(out) + Len(lines) /\ Head(inbox) = inbox[1] /\ 1 \in DOMAIN inbox
    BY <1>1, <1>2
  <2>2. ASSUME NEW i \in DOMAIN out', AwaitedAnswer(i)', i \in DOMAIN out
        PROVE  AwaitedAnswer(i) /\ out'[i] = out[i]
    BY <1>4, <2>2 DEF AwaitedAnswer, IsAnswer
  <2>3. ASSUME NEW i \in DOMAIN out', AwaitedAnswer(i)', NEW k \in DOMAIN lines, i = Len(out) + k
        PROVE  /\ AwaitedRequest(1) /\ i = Len(out) + Len(lines)
               /\ out'[i].what = "set" => inbox[1].what = "set"
               /\ out'[i].what = "moded" => inbox[1].what = "mode"
    <3>1. out'[i] = lines[k] /\ IsAnswer(lines[k]) /\ ~lines[k].late
      BY <1>4, <2>3 DEF AwaitedAnswer, IsAnswer
    <3>. QED BY <2>1, <2>3, <3>1 DEF Handles, AwaitedRequest
  <2>. QED BY <1>4, <2>1, <2>2, <2>3
<1>6. OneAwaited'
  <2>1. \A i, j \in DOMAIN inbox' : AwaitedRequest(i)' /\ AwaitedRequest(j)' => i = j
    BY <1>3 DEF SoInv, OneAwaited, AwaitedRequest
  <2>2. \A i \in DOMAIN out : AwaitedAnswer(i) => ~AwaitedRequest(1) /\ reply = NoReply
        /\ \A j \in DOMAIN inbox : ~AwaitedRequest(j)
    BY DEF SoInv, OneAwaited, AwaitedRequest
  <2>3. \A i, j \in DOMAIN out' : AwaitedAnswer(i)' /\ AwaitedAnswer(j)' => i = j
    BY <1>5, <2>2 DEF SoInv, OneAwaited
  <2>4. AwaitedRequest(1) => reply = NoReply /\ \A j \in DOMAIN inbox' : ~AwaitedRequest(j)'
    BY <1>3 DEF SoInv, OneAwaited, AwaitedRequest
  <2>5. ASSUME NEW i \in DOMAIN out', AwaitedAnswer(i)'
        PROVE  reply' = NoReply /\ \A j \in DOMAIN inbox' : ~AwaitedRequest(j)'
    BY <1>2, <1>3, <1>5, <2>2, <2>4, <2>5 DEF AwaitedRequest
  <2>6. reply' # NoReply => IsAnswer(reply') /\ \A j \in DOMAIN inbox' : ~AwaitedRequest(j)'
    BY <1>2, <1>3 DEF SoInv, OneAwaited, AwaitedRequest
  <2>. QED BY <2>1, <2>3, <2>5, <2>6 DEF OneAwaited, IsAnswer
<1>7. OwnAnswer'
  BY <1>2, <1>3, <1>5 DEF SoInv, OwnAnswer, AwaitedRequest
<1>8. PublishesAlone'
  BY <1>1, <1>2 DEF SoInv, PublishesAlone
<1>. QED BY <1>6, <1>7, <1>8

\* What is handled without a timeout is answered, in the last line: of the options by
\* "set", of the mode by "moded".
AnswersLast(lines) ==
    (Head(inbox).what = "open" \/ ~Head(inbox).late) =>
        /\ lines # <<>> /\ Final(lines) \in Replies
        /\ agent'.conf # agent.conf => Final(lines) = "set"
        /\ agent'.mode # agent.mode => Final(lines) = "moded"
        /\ Final(lines) = "set" => Head(inbox).what = "set"
        /\ \A o \in Option \ own' :
            \/ /\ Final(lines) = "set" /\ Head(inbox).o = o
               /\ proc = "applying" => agent'.conf[o] = Head(inbox).v
            \/ /\ o \notin own /\ agent'.conf[o] = agent.conf[o]
               /\ Head(inbox).what = "set" => Head(inbox).o # o \/ Final(lines) = "refused"

LEMMA SaidInStep ==
    ASSUME SoInv, NEW lines, Handles(lines), AnswersLast(lines)
    PROVE  InStep'
<1>. SUFFICES ASSUME ~crossed' PROVE (Uncrossed /\ HandHolds /\ LastWord /\ SnapHolds
         /\ PublishHolds /\ LogHolds /\ SavedHolds)'
  BY DEF InStep
<1>1. inbox \in Seq(Requests) /\ out \in Seq(Lines) /\ lines \in Seq(Lines) /\ inbox # <<>>
  BY DEF SoInv, Typed, Requests, Handles
<1>2. inbox' = Tail(inbox) /\ out' = out \o lines
      /\ UNCHANGED <<proc, req, reply, snap, saved, logged, plan, crossed>>
  BY DEF Handles, copies
<1>3. Uncrossed /\ HandHolds /\ LastWord /\ SnapHolds /\ PublishHolds /\ LogHolds /\ SavedHolds
  BY <1>2 DEF SoInv, InStep
<1>4. 1 \in DOMAIN inbox /\ Head(inbox) = inbox[1] /\ AwaitedRequest(1)
  BY <1>1, <1>3, Tails DEF Uncrossed
<1>5. reply = NoReply /\ \A i \in DOMAIN out : out[i].what \notin Replies
  BY <1>3, <1>4 DEF SoInv, OneAwaited, Uncrossed, AwaitedAnswer, IsAnswer
<1>6. inbox' = <<>> /\ \A i \in DOMAIN inbox : i = 1
  <2>1. \A i \in DOMAIN inbox : i = 1
    BY <1>3, <1>4 DEF SoInv, OneAwaited, Uncrossed
  <2>. QED BY <1>1, <1>2, <2>1, Tails
<1>7. AnswersLast(lines) /\ (Head(inbox).what = "open" \/ ~Head(inbox).late)
  BY <1>4 DEF AwaitedRequest
<1>8. /\ lines # <<>> /\ Final(lines) \in Replies /\ Len(lines) \in DOMAIN lines
      /\ agent'.conf # agent.conf => Final(lines) = "set"
      /\ agent'.mode # agent.mode => Final(lines) = "moded"
  BY <1>1, <1>7 DEF AnswersLast
<1>9. /\ \A i \in DOMAIN out : i \in DOMAIN out' /\ out'[i] = out[i] /\ i <= Len(out)
      /\ \A k \in DOMAIN lines : Len(out) + k \in DOMAIN out' /\ out'[Len(out) + k] = lines[k]
      /\ \A i \in DOMAIN out' : i \in DOMAIN out \/ \E k \in DOMAIN lines : i = Len(out) + k
      /\ Len(out') = Len(out) + Len(lines) /\ Len(out) \in Nat /\ Len(lines) \in Nat \ {0}
  BY <1>1, <1>2, <1>8, Joins
<1>10. /\ Len(out') \in DOMAIN out' /\ out'[Len(out')] = lines[Len(lines)]
            /\ out'[Len(out')].what = Final(lines)
       /\ \A i \in DOMAIN out' : i # Len(out') => i < Len(out') /\ out'[i].what \notin Replies
  <2>1. ASSUME NEW i \in DOMAIN out', i # Len(out') PROVE i < Len(out')
            /\ out'[i].what \notin Replies
    <3>1. CASE i \in DOMAIN out
      BY <1>5, <1>9, <3>1, <1>1
    <3>2. ASSUME NEW k \in DOMAIN lines, i = Len(out) + k
          PROVE  i < Len(out') /\ out'[i].what \notin Replies
      <4>3. k # Len(lines)
        BY <1>9, <2>1, <3>2
      <4>1. k \in 1 .. Len(lines) /\ k # Len(lines)
        BY <1>1, <4>3
      <4>2. out'[i] = lines[k] /\ ~IsAnswer(lines[k])
        BY <1>9, <3>2, <4>1 DEF Handles
      <4>. QED BY <1>9, <3>2, <4>1, <4>2 DEF IsAnswer
    <3>. QED BY <1>9, <3>1, <3>2
  <2>. QED BY <1>8, <1>9, <2>1 DEF Final
<1>11. \A i \in DOMAIN out' : ~(i \in DOMAIN out) => out'[i].conf = agent'.conf
           /\ out'[i].mode = agent'.mode
  BY <1>9 DEF Handles
<1>12. ~out'[Len(out')].late /\ out'[Len(out')].conf = agent'.conf
           /\ out'[Len(out')].mode = agent'.mode
  BY <1>7, <1>8, <1>10 DEF Handles, IsAnswer, Final
<1>13. \A what : Tells({what}) => Tells({what})'
  BY <1>9 DEF Tells
<1>20. Uncrossed'
  <2>1. (proc' = "running" /\ InHandOf({"moded"})') => agent'.mode = req'.v
    <3>. SUFFICES ASSUME proc = "running", InHandOf({"moded"})' PROVE agent'.mode = req.v
      BY <1>2
    <3>1. Final(lines) = "moded"
      BY <1>2, <1>5, <1>10 DEF InHandOf, Tells, NoReply, Replies
    <3>2. agent'.mode = Head(inbox).v
      BY <1>8, <3>1 DEF Handles, IsAnswer, Replies, Final
    <3>. QED BY <1>4, <3>2 DEF SoInv, OwnAnswer
  <2>2. \A i \in DOMAIN out' : IsAnswer(out'[i]) => i = Len(out')
    BY <1>10 DEF IsAnswer
  <2>. QED BY <1>2, <1>5, <1>6, <1>12, <2>1, <2>2 DEF Uncrossed, IsAnswer
<1>21. HandHolds'
  BY <1>1, <1>2, <1>3 DEF HandHolds, SoInv, Phases
<1>22. LastWord'
  <2>1. ASSUME NEW i \in DOMAIN out', out'[i].what = "config",
               \A j \in DOMAIN out' : j > i => out'[j].what \notin {"config", "set", "opened"}
        PROVE  out'[i].conf = agent'.conf
    <3>1. i # Len(out') /\ Len(out') > i /\ Final(lines) # "set"
      BY <1>8, <1>10, <2>1 DEF Replies
    <3>2. agent'.conf = agent.conf
      BY <1>8, <3>1
    <3>3. CASE i \in DOMAIN out
      BY <1>3, <1>9, <2>1, <3>2, <3>3 DEF LastWord
    <3>. QED BY <1>11, <3>3
  <2>2. ASSUME NEW i \in DOMAIN out', out'[i].what = "mode",
               \A j \in DOMAIN out' : j > i => out'[j].what \notin {"mode", "moded", "opened"}
        PROVE  out'[i].mode = agent'.mode
    <3>1. i # Len(out') /\ Len(out') > i /\ Final(lines) # "moded"
      BY <1>8, <1>10, <2>2 DEF Replies
    <3>2. agent'.mode = agent.mode
      BY <1>8, <3>1
    <3>3. CASE i \in DOMAIN out
      BY <1>3, <1>9, <2>2, <3>2, <3>3 DEF LastWord
    <3>. QED BY <1>11, <3>3
  <2>. QED BY <2>1, <2>2 DEF LastWord
<1>23. ~InHandOf(Replies) /\ (Final(lines) \in {"set", "moded"} => InHandOf({Final(lines)})')
  BY <1>5, <1>10 DEF InHandOf, Tells, NoReply, Replies
<1>24. /\ ~InHandOf({"set"}) /\ ~InHandOf({"moded"}) /\ ~InHandOf({"set", "opened"})
            /\ ~InHandOf({"moded", "opened"})
       /\ InHandOf({"set"})' => InHandOf({"set", "opened"})'
       /\ InHandOf({"moded"})' => InHandOf({"moded", "opened"})'
  BY <1>23 DEF InHandOf, Tells, Replies
<1>25. SnapHolds'
  BY <1>2, <1>3, <1>8, <1>13, <1>23, <1>24 DEF SnapHolds
<1>26. PublishHolds'
  BY <1>1, <1>2 DEF SoInv, PublishesAlone, PublishHolds
<1>27. LogHolds'
  BY <1>2, <1>3, <1>8, <1>13, <1>23, <1>24 DEF LogHolds
<1>28. SavedHolds'
  <2>1. ASSUME proc = "applying", NEW o \in Option \ own', plan[o] = Unset, ~InHandOf({"refused"})'
        PROVE  saved[o] \in {Unset, agent'.conf[o]}
    <3>1. Final(lines) # "refused"
      BY <1>10, <2>1 DEF InHandOf, Tells
    <3>2. CASE Final(lines) = "set" /\ Head(inbox).o = o /\ agent'.conf[o] = Head(inbox).v
      BY <1>3, <1>4, <1>7, <2>1, <3>2 DEF SavedHolds, AnswersLast
    <3>3. CASE o \notin own /\ agent'.conf[o] = agent.conf[o]
              /\ (Head(inbox).what = "set" => Head(inbox).o # o)
      <4>1. ~Asked(o) /\ ~InHandOf({"refused"})
        BY <1>4, <1>6, <1>23, <3>3 DEF Asked, InHandOf, Tells, Replies
      <4>. QED BY <1>3, <2>1, <3>3, <4>1 DEF SavedHolds
    <3>. QED BY <1>7, <2>1, <3>1, <3>2, <3>3 DEF AnswersLast
  <2>2. ASSUME proc \in {"publishing", "running"}, NEW o \in Option \ own'
        PROVE  \/ saved[o] \in {Unset, agent'.conf[o]}
               \/ /\ req.step = "reply" \/ (req.step = "wait" /\ InHandOf({"set"})')
                  /\ req.what = "set" /\ req.o = o
    <3>1. proc = "running" /\ req.step = "wait" /\ req.what = Head(inbox).what
          /\ (req.what = "set" => req.o = Head(inbox).o)
      BY <1>1, <1>4, <2>2 DEF SoInv, PublishesAlone, OwnAnswer
    <3>2. CASE Final(lines) = "set" /\ Head(inbox).o = o
      BY <1>7, <1>23, <3>1, <3>2 DEF AnswersLast
    <3>3. CASE o \notin own /\ agent'.conf[o] = agent.conf[o]
      BY <1>3, <1>24, <3>1, <3>3 DEF SavedHolds
    <3>. QED BY <1>7, <3>2, <3>3 DEF AnswersLast
  <2>3. \A i \in DOMAIN inbox' : FALSE
    BY <1>6
  <2>4. proc = "applying" => \A o \in Option : plan[o] # Unset => saved[o] \in {Unset, plan[o]}
    BY <1>3 DEF SavedHolds
  <2>. QED BY <1>2, <2>1, <2>2, <2>3, <2>4 DEF SavedHolds
<1>. QED BY <1>20, <1>21, <1>22, <1>25, <1>26, <1>27, <1>28

LEMMA SaidKeeps ==
    ASSUME SoInv, NEW lines, Handles(lines), AnswersLast(lines), ResetIsGenuine'
    PROVE  SoInv'
BY SaidTyped, SaidAwaits, SaidInStep DEF SoInv

\* What is in a queue.
LEMMA Requested ==
    ASSUME SoInv, inbox # <<>>
    PROVE  /\ Head(inbox) \in Requests /\ 1 \in DOMAIN inbox /\ Head(inbox) = inbox[1]
           /\ Head(inbox).what = "set" => Head(inbox) \in SetRequests
           /\ Head(inbox).what = "mode" => Head(inbox) \in ModeRequests
           /\ Head(inbox).what \in {"open", "set", "mode"}
<1>1. inbox \in Seq(Requests)
  BY DEF SoInv, Typed, Requests
<1>2. Head(inbox) \in Requests /\ 1 \in DOMAIN inbox /\ Head(inbox) = inbox[1]
  BY <1>1, Tails
<1>. QED BY <1>2 DEF Requests, SetRequests, ModeRequests

LEMMA OpensKeeps ==
    ASSUME SoInv, AgentOpens
    PROVE  SoInv'
<1>1. PICK what \in {"opened", "error"} : Says(<<Line(what, FALSE)>>)
  BY DEF AgentOpens
<1>. DEFINE lines == <<Line(what, FALSE)>>
<1>2. /\ inbox # <<>> /\ Head(inbox).what = "open" /\ agent' = agent
      /\ UNCHANGED <<proc, copies, plan, req, verdict, own, refused, crossed>>
      /\ inbox' = Tail(inbox) /\ out' = out \o lines /\ reply' = reply
  BY <1>1 DEF AgentOpens, Says
<1>3. Line(what, FALSE) \in Lines /\ Line(what, FALSE).what = what /\ ~Line(what, FALSE).late
      /\ Line(what, FALSE).conf = agent'.conf /\ Line(what, FALSE).mode = agent'.mode
  BY <1>2 DEF Line, Lines, Replies, SoInv, Typed
<1>4. Len(lines) = 1 /\ lines[1] = Line(what, FALSE) /\ DOMAIN lines = {1} /\ lines \in Seq(Lines)
  BY <1>3, JustOne
<1>5. Handles(lines)
  BY <1>2, <1>3, <1>4 DEF Handles, IsAnswer, SoInv, Typed, SoTypeOK, Agents
<1>6. AnswersLast(lines)
  BY <1>2, <1>3, <1>4 DEF AnswersLast, Final, Replies
<1>. QED BY <1>2, <1>5, <1>6, SaidKeeps DEF SoInv, ResetIsGenuine

LEMMA SetsKeeps ==
    ASSUME SoInv, AgentSets
    PROVE  SoInv'
<1>. DEFINE ask == Head(inbox)
<1>1. PICK v \in agent.offers[ask.o], before \in {<<>>, <<Line("config", FALSE)>>} :
        /\ agent' = [agent EXCEPT !.conf[ask.o] = v]
        /\ own' = IF proc = "applying" /\ v # ask.v THEN own \cup {ask.o} ELSE own \ {ask.o}
        /\ Says(Append(before, Line("set", ask.late)))
  BY DEF AgentSets
<1>. DEFINE lines == Append(before, Line("set", ask.late))
<1>2. /\ inbox # <<>> /\ ask.what = "set" /\ ask \in SetRequests
      /\ UNCHANGED <<proc, copies, plan, req, verdict, refused, crossed>>
      /\ inbox' = Tail(inbox) /\ out' = out \o lines /\ reply' = reply
  BY <1>1, Requested DEF AgentSets, Says
<1>3. ask.o \in Option /\ ask.late \in BOOLEAN /\ v \in Value
  BY <1>2 DEF SetRequests, SoInv, Typed
<1>4. /\ agent' \in Agents /\ agent'.offers = agent.offers /\ agent'.mode = agent.mode
      /\ agent'.conf[ask.o] = v /\ \A o \in Option : o # ask.o => agent'.conf[o] = agent.conf[o]
  BY <1>1, <1>3 DEF SoInv, Typed, Agents, Confs
<1>5. /\ Line("set", ask.late) \in Lines /\ Line("set", ask.late).what = "set"
      /\ Line("set", ask.late).late = ask.late /\ Line("set", ask.late).conf = agent'.conf
      /\ Line("set", ask.late).mode = agent'.mode
      /\ Line("config", FALSE) \in Lines /\ Line("config", FALSE).what = "config"
      /\ Line("config", FALSE).conf = agent'.conf /\ Line("config", FALSE).mode = agent'.mode
  BY <1>3, <1>4 DEF Line, Lines, Replies, Agents
<1>6. /\ lines \in Seq(Lines) /\ Len(lines) \in {1, 2} /\ DOMAIN lines = 1 .. Len(lines)
      /\ lines[Len(lines)] = Line("set", ask.late)
      /\ \A i \in DOMAIN lines : i = Len(lines) \/ lines[i] = Line("config", FALSE)
  <2>1. PICK x \in Lines, y \in Lines : x = Line("config", FALSE) /\ y = Line("set", ask.late)
    BY <1>5
  <2>2. (before = <<>> \/ before = <<x>>) /\ lines = Append(before, y)
    BY <1>1, <2>1
  <2>4. before \in Seq(Lines) /\ Len(before) \in {0, 1} /\ \A i \in DOMAIN before : before[i] = x
    <3>1. CASE before = <<>>
      BY <3>1
    <3>2. CASE before = <<x>>
      <4>. HIDE DEF lines
      <4>1. <<x>> \in Seq(Lines) /\ Len(<<x>>) = 1 /\ \A i \in DOMAIN <<x>> : <<x>>[i] = x
        BY JustOne
      <4>. QED BY <3>2, <4>1
    <3>. QED BY <2>2, <3>1, <3>2
  <2>3. /\ lines \in Seq(Lines) /\ Len(lines) \in {1, 2} /\ DOMAIN lines = 1 .. Len(lines)
        /\ lines[Len(lines)] = y
        /\ \A i \in DOMAIN lines : i = Len(lines) \/ lines[i] = x
    <3>. HIDE DEF lines
    <3>. QED BY <2>2, <2>4, Ending
  <2>. QED BY <2>1, <2>3
<1>7. Handles(lines)
  <2>1. \A i \in DOMAIN lines : lines[i].conf = agent'.conf /\ lines[i].mode = agent'.mode
    BY <1>5, <1>6
  <2>2. \A i \in DOMAIN lines : IsAnswer(lines[i]) => i = Len(lines)
            /\ lines[i].late = ask.late /\ lines[i].what = "set"
    BY <1>5, <1>6 DEF IsAnswer, Replies
  <2>3. own' \subseteq Option /\ refused' \subseteq Option
    BY <1>1, <1>2, <1>3 DEF SoInv, Typed, SoTypeOK
  <2>. QED BY <1>2, <1>4, <1>6, <2>1, <2>2, <2>3 DEF Handles
<1>8. AnswersLast(lines)
  <2>1. lines # <<>> /\ Final(lines) = "set"
    BY <1>5, <1>6 DEF Final
  <2>2. ASSUME NEW o \in Option \ own', o = ask.o, proc = "applying" PROVE agent'.conf[o] = ask.v
    BY <1>1, <1>4, <2>2
  <2>3. ASSUME NEW o \in Option \ own', o # ask.o PROVE o \notin own
            /\ agent'.conf[o] = agent.conf[o]
    BY <1>1, <1>4, <2>3
  <2>. QED BY <1>2, <1>4, <2>1, <2>2, <2>3 DEF AnswersLast, Replies
<1>9. ResetIsGenuine'
  BY <1>2, <1>4 DEF SoInv, ResetIsGenuine
<1>. QED BY <1>7, <1>8, <1>9, SaidKeeps

LEMMA SetsModeKeeps ==
    ASSUME SoInv, AgentSetsMode
    PROVE  SoInv'
<1>. DEFINE ask == Head(inbox)
<1>1. PICK before \in {<<>>, <<Line("mode", FALSE)>>} : Says(Append(before, Line("moded", ask.late)))
  BY DEF AgentSetsMode
<1>. DEFINE lines == Append(before, Line("moded", ask.late))
<1>2. /\ inbox # <<>> /\ ask.what = "mode" /\ ask \in ModeRequests
      /\ agent' = [agent EXCEPT !.mode = ask.v]
      /\ UNCHANGED <<proc, copies, plan, req, verdict, own, refused, crossed>>
      /\ inbox' = Tail(inbox) /\ out' = out \o lines /\ reply' = reply
  BY <1>1, Requested DEF AgentSetsMode, Says
<1>3. ask.late \in BOOLEAN /\ ask.v \in Value
  BY <1>2 DEF ModeRequests
<1>4. agent' \in Agents /\ agent'.offers = agent.offers /\ agent'.conf = agent.conf
          /\ agent'.mode = ask.v
  BY <1>2, <1>3 DEF SoInv, Typed, Agents, Modes
<1>5. /\ Line("moded", ask.late) \in Lines /\ Line("moded", ask.late).what = "moded"
      /\ Line("moded", ask.late).late = ask.late /\ Line("moded", ask.late).conf = agent'.conf
      /\ Line("moded", ask.late).mode = agent'.mode
      /\ Line("mode", FALSE) \in Lines /\ Line("mode", FALSE).what = "mode"
      /\ Line("mode", FALSE).conf = agent'.conf /\ Line("mode", FALSE).mode = agent'.mode
  BY <1>3, <1>4 DEF Line, Lines, Replies, Agents
<1>6. /\ lines \in Seq(Lines) /\ Len(lines) \in {1, 2} /\ DOMAIN lines = 1 .. Len(lines)
      /\ lines[Len(lines)] = Line("moded", ask.late)
      /\ \A i \in DOMAIN lines : i = Len(lines) \/ lines[i] = Line("mode", FALSE)
  <2>1. PICK x \in Lines, y \in Lines : x = Line("mode", FALSE) /\ y = Line("moded", ask.late)
    BY <1>5
  <2>2. (before = <<>> \/ before = <<x>>) /\ lines = Append(before, y)
    BY <1>1, <2>1
  <2>4. before \in Seq(Lines) /\ Len(before) \in {0, 1} /\ \A i \in DOMAIN before : before[i] = x
    <3>1. CASE before = <<>>
      BY <3>1
    <3>2. CASE before = <<x>>
      <4>. HIDE DEF lines
      <4>1. <<x>> \in Seq(Lines) /\ Len(<<x>>) = 1 /\ \A i \in DOMAIN <<x>> : <<x>>[i] = x
        BY JustOne
      <4>. QED BY <3>2, <4>1
    <3>. QED BY <2>2, <3>1, <3>2
  <2>3. /\ lines \in Seq(Lines) /\ Len(lines) \in {1, 2} /\ DOMAIN lines = 1 .. Len(lines)
        /\ lines[Len(lines)] = y
        /\ \A i \in DOMAIN lines : i = Len(lines) \/ lines[i] = x
    <3>. HIDE DEF lines
    <3>. QED BY <2>2, <2>4, Ending
  <2>. QED BY <2>1, <2>3
<1>7. Handles(lines)
  <2>1. \A i \in DOMAIN lines : lines[i].conf = agent'.conf /\ lines[i].mode = agent'.mode
    BY <1>5, <1>6
  <2>2. \A i \in DOMAIN lines : IsAnswer(lines[i]) => i = Len(lines)
            /\ lines[i].late = ask.late /\ lines[i].what = "moded"
    BY <1>5, <1>6 DEF IsAnswer, Replies
  <2>3. own' \subseteq Option /\ refused' \subseteq Option
    BY <1>2 DEF SoInv, Typed, SoTypeOK
  <2>. QED BY <1>2, <1>4, <1>6, <2>1, <2>2, <2>3 DEF Handles
<1>8. AnswersLast(lines)
  <2>1. lines # <<>> /\ Final(lines) = "moded"
    BY <1>5, <1>6 DEF Final
  <2>. QED BY <1>2, <1>4, <2>1 DEF AnswersLast, Replies
<1>9. ResetIsGenuine'
  BY <1>2, <1>4 DEF SoInv, ResetIsGenuine
<1>. QED BY <1>7, <1>8, <1>9, SaidKeeps

LEMMA RefusesKeeps ==
    ASSUME SoInv, AgentRefuses
    PROVE  SoInv'
<1>. DEFINE ask == Head(inbox)  line == Line("refused", ask.late)
<1>1. /\ inbox # <<>> /\ ask.what \in {"set", "mode"} /\ agent' = agent
      /\ UNCHANGED <<proc, copies, plan, req, verdict, own, crossed>>
      /\ ask \in SetRequests \cup ModeRequests
  BY Requested DEF AgentRefuses
<1>2. refused' \subseteq Option /\ refused \subseteq refused' /\ own' \subseteq Option
  BY <1>1, Requested DEF AgentRefuses, SetRequests, SoInv, Typed, SoTypeOK
<1>3. agent' \in Agents
  BY <1>1 DEF SoInv, Typed, Agents
<1>4. ResetIsGenuine'
  BY <1>1, <1>2 DEF SoInv, ResetIsGenuine
<1>5. CASE ask.late /\ Says(<<>>)
  <2>3. <<>> \in Seq(Lines) /\ \A i \in DOMAIN <<>> : FALSE
    OBVIOUS
  <2>1. Handles(<<>>)
    BY <1>1, <1>2, <1>3, <1>5, <2>3 DEF Handles, Says
  <2>2. AnswersLast(<<>>)
    BY <1>1, <1>5 DEF AnswersLast
  <2>. QED BY <1>4, <2>1, <2>2, SaidKeeps
<1>6. CASE Says(<<line>>)
  <2>1. line \in Lines /\ line.what = "refused" /\ line.late = ask.late
            /\ line.conf = agent'.conf /\ line.mode = agent'.mode
    BY <1>1, <1>3 DEF Line, Lines, Replies, Agents, SetRequests, ModeRequests
  <2>2. Len(<<line>>) = 1 /\ <<line>>[1] = line /\ DOMAIN <<line>> = {1}
            /\ <<line>> \in Seq(Lines)
    BY <2>1, JustOne
  <2>5. \A i \in DOMAIN <<line>> :
          /\ <<line>>[i].conf = agent'.conf /\ <<line>>[i].mode = agent'.mode
          /\ i = Len(<<line>>) /\ <<line>>[i].late = ask.late /\ <<line>>[i].what = "refused"
    BY <2>1, <2>2
  <2>3. Handles(<<line>>)
    BY <1>1, <1>2, <1>3, <1>6, <2>2, <2>5 DEF Handles, Says
  <2>4. AnswersLast(<<line>>)
    BY <1>1, <2>1, <2>2 DEF AnswersLast, Final, Replies
  <2>. QED BY <1>4, <2>3, <2>4, SaidKeeps
<1>. QED BY <1>5, <1>6 DEF AgentRefuses

\* The agent speaks up unasked: what it says is the only line on its way.
LEMMA ChangesKeeps ==
    ASSUME SoInv, AgentChanges
    PROVE  SoInv'
<1>1. /\ proc # "stopped" /\ out = <<>> /\ crossed' = (crossed \/ InHand)
      /\ UNCHANGED <<proc, inbox, reply, snap, saved, session, logged, plan, req, verdict,
                     refused>>
  BY DEF AgentChanges, copies
<1>2. PICK what \in {"config", "mode"} :
        /\ out' = <<Line(what, FALSE)>> /\ agent' \in Agents /\ agent'.offers = agent.offers
        /\ own' \subseteq Option /\ own \subseteq own'
        /\ what = "mode" => agent'.conf = agent.conf
        /\ what = "config" =>
            agent'.mode = agent.mode /\ \A o \in Option \ own' : agent'.conf[o] = agent.conf[o]
  <2>1. CASE \E o \in Option : \E v \in agent.offers[o] \ {agent.conf[o]} :
                /\ agent' = [agent EXCEPT !.conf[o] = v]
                /\ own' = own \cup {o} /\ out' = <<Line("config", FALSE)>>
    <3>1. PICK o \in Option : \E v \in agent.offers[o] \ {agent.conf[o]} :
                /\ agent' = [agent EXCEPT !.conf[o] = v]
                /\ own' = own \cup {o} /\ out' = <<Line("config", FALSE)>>
      BY <2>1
    <3>2. PICK v \in agent.offers[o] :
                /\ agent' = [agent EXCEPT !.conf[o] = v]
                /\ own' = own \cup {o} /\ out' = <<Line("config", FALSE)>>
      BY <3>1
    <3>3. v \in Value /\ agent \in Agents
      BY DEF SoInv, Typed, Agents
    <3>4. agent' \in Agents /\ agent'.offers = agent.offers /\ agent'.mode = agent.mode
          /\ \A p \in Option : p # o => agent'.conf[p] = agent.conf[p]
      BY <3>2, <3>3 DEF Agents, Confs
    <3>. QED BY <3>2, <3>4 DEF SoInv, Typed, SoTypeOK
  <2>2. CASE \E m \in Value \ {agent.mode} :
                /\ agent.mode # Unset /\ agent' = [agent EXCEPT !.mode = m]
                /\ UNCHANGED own /\ out' = <<Line("mode", FALSE)>>
    <3>1. agent' \in Agents /\ agent'.offers = agent.offers /\ agent'.conf = agent.conf
      BY <2>2 DEF SoInv, Typed, Agents, Modes
    <3>. QED BY <2>2, <3>1 DEF SoInv, Typed, SoTypeOK
  <2>. QED BY <2>1, <2>2 DEF AgentChanges
<1>3. /\ Line(what, FALSE) \in Lines /\ Line(what, FALSE).what = what /\ what \notin Replies
      /\ Line(what, FALSE).conf = agent'.conf /\ Line(what, FALSE).mode = agent'.mode
  BY <1>2 DEF Line, Lines, Agents, Replies
<1>4. /\ out' \in Seq(Lines) /\ Len(out') = 1 /\ DOMAIN out' = {1} /\ out'[1].what = what
      /\ out'[1].conf = agent'.conf /\ out'[1].mode = agent'.mode
  BY <1>2, <1>3, JustOne
<1>5. Typed'
  <2>1. crossed' \in BOOLEAN
    BY <1>1 DEF SoInv, Typed, InHand
  <2>2. SoTypeOK'
    BY <1>1, <1>2 DEF SoInv, Typed, SoTypeOK
  <2>. QED BY <1>1, <1>2, <1>4, <2>1, <2>2 DEF SoInv, Typed, Agents
<1>6. Phases' /\ PublishesAlone' /\ ResetIsGenuine'
  BY <1>1, <1>2, <1>3, <1>4 DEF SoInv, Phases, PublishesAlone, ResetIsGenuine, IsAnswer, Replies
<1>7. OneAwaited' /\ OwnAnswer'
  BY <1>1, <1>3, <1>4 DEF SoInv, OneAwaited, OwnAnswer, AwaitedRequest, AwaitedAnswer, IsAnswer
<1>8. InStep'
  <2>. SUFFICES ASSUME ~crossed' PROVE InStep'
    BY DEF InStep
  <2>1. ~crossed /\ ~InHand
    BY <1>1, Zenon
  <2>2. reply = NoReply /\ req.step \notin {"reply", "saved"} /\ proc # "publishing"
    BY <2>1 DEF InHand
  <2>3. Uncrossed /\ SnapHolds /\ LogHolds /\ SavedHolds
    BY <2>1 DEF SoInv, InStep
  <2>4. \A s : s \subseteq Replies => ~InHandOf(s) /\ ~InHandOf(s)'
    BY <1>1, <1>3, <1>4, <2>2 DEF InHandOf, Tells, NoReply, Replies
  <2>5. /\ ~Tells({"config"}) /\ ~Tells({"mode"})
        /\ what = "config" => Tells({"config"})'
        /\ what = "mode" => Tells({"mode"})'
    BY <1>1, <1>4 DEF Tells
  <2>6. /\ ~InHandOf({"set"}) /\ ~InHandOf({"moded"}) /\ ~InHandOf({"refused"})
        /\ ~InHandOf({"set", "opened"}) /\ ~InHandOf({"moded", "opened"})
        /\ ~InHandOf({"moded"})' /\ ~InHandOf({"set"})' /\ ~InHandOf({"refused"})'
    BY <2>4 DEF Replies
  <2>7. Uncrossed' /\ HandHolds' /\ PublishHolds'
    BY <1>1, <1>3, <1>4, <2>2, <2>3, <2>6 DEF Uncrossed, HandHolds, PublishHolds,
       AwaitedRequest, IsAnswer
  <2>8. LastWord'
    BY <1>4 DEF LastWord
  <2>12. /\ UNCHANGED <<proc, snap, logged, req>>
         /\ ~Tells({"config"})' => agent'.conf = agent.conf
         /\ ~Tells({"mode"})' => agent'.mode = agent.mode
    <3>1. UNCHANGED <<proc, snap, logged, req>>
      BY <1>1
    <3>2. what = "config" \/ what = "mode"
      OBVIOUS
    <3>3. CASE what = "config"
      BY <1>2, <2>5, <3>1, <3>3
    <3>4. CASE what = "mode"
      BY <1>2, <2>5, <3>1, <3>4
    <3>. QED BY <3>2, <3>3, <3>4
  <2>9. SnapHolds'
    <3>1. proc \notin {"stopped", "opening"} => snap.conf = agent.conf /\ snap.mode = agent.mode
      BY <2>3, <2>5, <2>6 DEF SnapHolds
    <3>. QED BY <2>12, <3>1 DEF SnapHolds
  <2>10. LogHolds'
    <3>1. proc = "running" => logged.conf = agent.conf
              /\ (agent.mode # Unset => logged.mode = agent.mode)
      BY <2>2, <2>3, <2>5, <2>6 DEF LogHolds
    <3>. QED BY <2>12, <3>1 DEF LogHolds
  <2>11. SavedHolds'
    <3>1. \A o \in Option \ own' : o \notin own /\ agent'.conf[o] = agent.conf[o]
      BY <1>2
    <3>. QED BY <1>1, <2>2, <2>3, <2>6, <3>1 DEF SavedHolds, Asked
  <2>. QED BY <2>7, <2>8, <2>9, <2>10, <2>11 DEF InStep
<1>. QED BY <1>5, <1>6, <1>7, <1>8 DEF SoInv

\* A line is taken: what is left are the others, in their order.
LEMMA Taken ==
    ASSUME SoInv, out # <<>>, out' = Tail(out)
    PROVE  /\ out' \in Seq(Lines) /\ 1 \in DOMAIN out /\ Head(out) = out[1] /\ Head(out) \in Lines
           /\ Len(out') = Len(out) - 1 /\ Len(out) \in Nat \ {0}
           /\ \A i \in DOMAIN out' : i \in Nat \ {0} /\ i + 1 \in DOMAIN out
                /\ out'[i] = out[i + 1]
           /\ \A i \in DOMAIN out : i = 1 \/ (i - 1 \in DOMAIN out' /\ out'[i - 1] = out[i]
                /\ i \in Nat \ {0})
<1>1. out \in Seq(Lines)
  BY DEF SoInv, Typed
<1>. QED BY <1>1, Tails

LEMMA ReadStateKeeps ==
    ASSUME SoInv, ReadState
    PROVE  SoInv'
<1>. DEFINE line == Head(out)
<1>1. /\ out # <<>> /\ line.what \in {"config", "mode"} /\ out' = Tail(out)
      /\ UNCHANGED <<proc, agent, inbox, reply, saved, session, plan, req, verdict, own,
                     refused, crossed>>
      /\ snap' = IF line.what = "config" THEN [snap EXCEPT !.conf = line.conf] ELSE [snap EXCEPT !.mode = line.mode]
      /\ logged' = IF Replaying THEN logged
                   ELSE IF line.what = "config" THEN [logged EXCEPT !.conf = line.conf]
                   ELSE [logged EXCEPT !.mode = line.mode]
  BY DEF ReadState
<1>2. /\ out' \in Seq(Lines) /\ 1 \in DOMAIN out /\ line = out[1] /\ line \in Lines
      /\ Len(out') = Len(out) - 1 /\ Len(out) \in Nat \ {0}
      /\ \A i \in DOMAIN out' : i \in Nat \ {0} /\ i + 1 \in DOMAIN out /\ out'[i] = out[i + 1]
      /\ \A i \in DOMAIN out : i = 1 \/ (i - 1 \in DOMAIN out' /\ out'[i - 1] = out[i]
           /\ i \in Nat \ {0})
  BY <1>1, Taken
<1>3. line.conf \in Confs /\ line.mode \in Modes /\ line.what \notin Replies
  BY <1>1, <1>2 DEF Lines, Replies
<1>4. /\ snap' \in Snapshots /\ logged' \in Snapshots
      /\ line.what = "config" => snap'.conf = line.conf /\ snap'.mode = snap.mode
                                 /\ (proc = "running" => logged'.conf = line.conf
                                      /\ logged'.mode = logged.mode)
      /\ line.what = "mode" => snap'.mode = line.mode /\ snap'.conf = snap.conf
                                 /\ (proc = "running" => logged'.mode = line.mode
                                      /\ logged'.conf = logged.conf)
  BY <1>1, <1>3 DEF SoInv, Typed, Snapshots, Replaying
<1>5. Typed'
  <2>1. SoTypeOK'
    BY <1>1, <1>4 DEF SoInv, Typed, SoTypeOK, Snapshots, Confs
  <2>. QED BY <1>1, <1>2, <1>4, <2>1 DEF SoInv, Typed
<1>6. \A i \in DOMAIN out' : AwaitedAnswer(i)' => AwaitedAnswer(i + 1) /\ out'[i] = out[i + 1]
          /\ i + 1 \in DOMAIN out /\ i \in Nat
  BY <1>2 DEF AwaitedAnswer, IsAnswer
<1>7. OneAwaited' /\ OwnAnswer'
  BY <1>1, <1>6 DEF SoInv, OneAwaited, OwnAnswer, AwaitedRequest, IsAnswer
<1>8. Phases' /\ PublishesAlone' /\ ResetIsGenuine'
  BY <1>1, <1>2 DEF SoInv, Phases, PublishesAlone, ResetIsGenuine, IsAnswer
<1>9. InStep'
  <2>. SUFFICES ASSUME ~crossed' PROVE InStep'
    BY DEF InStep
  <2>1. Uncrossed /\ HandHolds /\ LastWord /\ SnapHolds /\ PublishHolds /\ LogHolds /\ SavedHolds
    BY <1>1 DEF SoInv, InStep
  <2>2. reply = NoReply /\ reply' = NoReply
    BY <1>1, <2>1 DEF Uncrossed
  <2>3. \A s : s \subseteq Replies => (InHandOf(s) <=> InHandOf(s)')
    BY <1>1, <1>2, <1>3 DEF InHandOf, Tells
  <2>4. \A s \in {{"set"}, {"moded"}, {"refused"}, {"set", "opened"}, {"moded", "opened"}} : (InHandOf(s) <=> InHandOf(s)')
    BY <2>3 DEF Replies
  <2>5. /\ line.what = "config" => (Tells({"mode"}) <=> Tells({"mode"})')
        /\ line.what = "mode" => (Tells({"config"}) <=> Tells({"config"})')
    BY <1>2 DEF Tells
  <2>6. Uncrossed'
    <3>1. \A i \in DOMAIN out' : IsAnswer(out'[i]) => ~out'[i].late /\ i = Len(out')
              /\ out'[i].conf = agent'.conf /\ out'[i].mode = agent'.mode
      BY <1>1, <1>2, <2>1 DEF Uncrossed, IsAnswer
    <3>2. (proc' = "running" /\ InHandOf({"moded"})') => agent'.mode = req'.v
      BY <1>1, <2>1, <2>4 DEF Uncrossed
    <3>. QED BY <1>1, <2>1, <2>2, <3>1, <3>2 DEF Uncrossed, AwaitedRequest, IsAnswer
  <2>7. HandHolds' /\ PublishHolds'
    BY <1>1, <2>1 DEF HandHolds, PublishHolds
  <2>8. LastWord'
    <3>2. ASSUME NEW i \in DOMAIN out', out'[i].what = "config",
                 \A j \in DOMAIN out' : j > i => out'[j].what \notin {"config", "set", "opened"}
          PROVE  out'[i].conf = agent'.conf
      <4>1. i + 1 \in DOMAIN out /\ out[i + 1] = out'[i]
        BY <1>2
      <4>2. ASSUME NEW j \in DOMAIN out, j > i + 1 PROVE out[j].what \notin {"config", "set", "opened"}
        <5>1. j # 1 /\ j - 1 \in DOMAIN out' /\ out'[j - 1] = out[j] /\ j - 1 > i
          BY <1>2, <4>2
        <5>. QED BY <3>2, <5>1
      <4>. QED BY <1>1, <2>1, <3>2, <4>1, <4>2 DEF LastWord
    <3>3. ASSUME NEW i \in DOMAIN out', out'[i].what = "mode",
                 \A j \in DOMAIN out' : j > i => out'[j].what \notin {"mode", "moded", "opened"}
          PROVE  out'[i].mode = agent'.mode
      <4>1. i + 1 \in DOMAIN out /\ out[i + 1] = out'[i]
        BY <1>2
      <4>2. ASSUME NEW j \in DOMAIN out, j > i + 1 PROVE out[j].what \notin {"mode", "moded", "opened"}
        <5>1. j # 1 /\ j - 1 \in DOMAIN out' /\ out'[j - 1] = out[j] /\ j - 1 > i
          BY <1>2, <4>2
        <5>. QED BY <3>3, <5>1
      <4>. QED BY <1>1, <2>1, <3>3, <4>1, <4>2 DEF LastWord
    <3>. QED BY <3>2, <3>3 DEF LastWord
  <2>9. proc # "opening" => \A i \in DOMAIN out : out[i].what # "opened"
    BY DEF SoInv, Phases
  <2>10. ASSUME proc # "opening", line.what = "config", ~Tells({"config"})', ~InHandOf({"set"})'
         PROVE  line.conf = agent.conf
    <3>1. \A j \in DOMAIN out : j > 1 => out[j].what \notin {"config", "set", "opened"}
      <4>1. \A k \in DOMAIN out' : out'[k].what \notin {"config", "set"}
        BY <2>10 DEF Tells, InHandOf
      <4>2. \A j \in DOMAIN out : j > 1 => j - 1 \in DOMAIN out' /\ out'[j - 1] = out[j]
        BY <1>2
      <4>. QED BY <2>10, <2>9, <4>1, <4>2
    <3>. QED BY <1>2, <2>1, <2>10, <3>1 DEF LastWord
  <2>11. ASSUME proc # "opening", line.what = "mode", ~Tells({"mode"})', ~InHandOf({"moded"})'
         PROVE  line.mode = agent.mode
    <3>1. \A j \in DOMAIN out : j > 1 => out[j].what \notin {"mode", "moded", "opened"}
      <4>1. \A k \in DOMAIN out' : out'[k].what \notin {"mode", "moded"}
        BY <2>11 DEF Tells, InHandOf
      <4>2. \A j \in DOMAIN out : j > 1 => j - 1 \in DOMAIN out' /\ out'[j - 1] = out[j]
        BY <1>2
      <4>. QED BY <2>11, <2>9, <4>1, <4>2
    <3>. QED BY <1>2, <2>1, <2>11, <3>1 DEF LastWord
  <2>12. (InHandOf({"set"})' => InHandOf({"set", "opened"})')
             /\ (InHandOf({"moded"})' => InHandOf({"moded", "opened"})')
    BY DEF InHandOf, Tells
  <2>13. SnapHolds'
    BY <1>1, <1>4, <2>1, <2>4, <2>5, <2>10, <2>11, <2>12 DEF SnapHolds
  <2>14. LogHolds'
    BY <1>1, <1>4, <2>1, <2>4, <2>5, <2>10, <2>11 DEF LogHolds
  <2>15. SavedHolds'
    BY <1>1, <2>1, <2>4 DEF SavedHolds, Asked
  <2>. QED BY <2>6, <2>7, <2>8, <2>13, <2>14, <2>15 DEF InStep
<1>. QED BY <1>5, <1>7, <1>8, <1>9 DEF SoInv

LEMMA ReadReplyKeeps ==
    ASSUME SoInv, ReadReply
    PROVE  SoInv'
<1>. DEFINE line == Head(out)
<1>1. /\ out # <<>> /\ line.what \in Replies /\ out' = Tail(out)
      /\ reply' = IF line.late THEN reply ELSE line
      /\ UNCHANGED <<proc, agent, inbox, snap, saved, session, logged, plan, req, verdict, own,
                     refused, crossed>>
  BY DEF ReadReply, copies
<1>2. /\ out' \in Seq(Lines) /\ 1 \in DOMAIN out /\ line = out[1] /\ line \in Lines
      /\ Len(out') = Len(out) - 1 /\ Len(out) \in Nat \ {0}
      /\ \A i \in DOMAIN out' : i \in Nat \ {0} /\ i + 1 \in DOMAIN out /\ out'[i] = out[i + 1]
      /\ \A i \in DOMAIN out : i = 1 \/ (i - 1 \in DOMAIN out' /\ out'[i - 1] = out[i]
           /\ i \in Nat \ {0})
  BY <1>1, Taken
<1>3. proc # "stopped" /\ proc # "publishing"
  BY <1>1, <1>2 DEF SoInv, Phases, PublishesAlone, IsAnswer
<1>4. Typed'
  <2>1. SoTypeOK'
    BY <1>1 DEF SoInv, Typed, SoTypeOK
  <2>2. reply' \in {NoReply} \cup Lines
    BY <1>1, <1>2 DEF SoInv, Typed
  <2>. QED BY <1>1, <1>2, <2>1, <2>2 DEF SoInv, Typed
<1>5. Phases' /\ PublishesAlone' /\ ResetIsGenuine'
  BY <1>1, <1>2, <1>3 DEF SoInv, Phases, PublishesAlone, ResetIsGenuine
<1>6. \A i \in DOMAIN out' : AwaitedAnswer(i)' => AwaitedAnswer(i + 1) /\ out'[i] = out[i + 1]
          /\ i + 1 \in DOMAIN out /\ i \in Nat \ {0}
  BY <1>2 DEF AwaitedAnswer, IsAnswer
<1>7. ~line.late =>
        /\ AwaitedAnswer(1) /\ reply = NoReply /\ \A j \in DOMAIN inbox : ~AwaitedRequest(j)
        /\ \A i \in DOMAIN out' : ~AwaitedAnswer(i)'
        /\ reply' = line
  <2>1. ~line.late => AwaitedAnswer(1)
    BY <1>1, <1>2 DEF AwaitedAnswer, IsAnswer
  <2>. QED BY <1>1, <1>2, <1>6, <2>1 DEF SoInv, OneAwaited
<1>8. OneAwaited'
  <2>1. CASE line.late
    BY <1>1, <1>6, <2>1 DEF SoInv, OneAwaited, AwaitedRequest, IsAnswer
  <2>2. CASE ~line.late
    BY <1>1, <1>7, <2>2 DEF SoInv, OneAwaited, AwaitedRequest, IsAnswer
  <2>. QED BY <2>1, <2>2
<1>9. OwnAnswer'
  <2>1. CASE line.late
    BY <1>1, <1>6, <2>1 DEF SoInv, OwnAnswer, AwaitedRequest
  <2>2. CASE ~line.late
    BY <1>1, <1>2, <1>7, <2>2 DEF SoInv, OwnAnswer, AwaitedRequest
  <2>. QED BY <2>1, <2>2
<1>10. InStep'
  <2>. SUFFICES ASSUME ~crossed' PROVE InStep'
    BY DEF InStep
  <2>1. Uncrossed /\ HandHolds /\ LastWord /\ SnapHolds /\ PublishHolds /\ LogHolds /\ SavedHolds
    BY <1>1 DEF SoInv, InStep
  <2>2. ~line.late /\ Len(out) = 1 /\ line.conf = agent.conf /\ line.mode = agent.mode
    BY <1>1, <1>2, <2>1 DEF Uncrossed, IsAnswer
  <2>3. out' = <<>> /\ reply' = line /\ reply = NoReply
    BY <1>2, <1>7, <2>2
  <2>4. \A i \in DOMAIN out : i = 1
    BY <1>2, <2>2, <2>3
  <2>5. \A s : s \subseteq Replies => (InHandOf(s) <=> InHandOf(s)')
    BY <1>2, <2>3, <2>4 DEF InHandOf, Tells, NoReply, Replies
  <2>6. \A s \in {{"set"}, {"moded"}, {"refused"}, {"set", "opened"}, {"moded", "opened"}} : (InHandOf(s) <=> InHandOf(s)')
    BY <2>5 DEF Replies
  <2>7. ~Tells({"config"}) /\ ~Tells({"mode"})
    BY <1>1, <1>2, <2>4 DEF Tells, Replies
  <2>8. Uncrossed'
    BY <1>1, <2>1, <2>2, <2>3, <2>6 DEF Uncrossed, AwaitedRequest
  <2>9. HandHolds' /\ PublishHolds' /\ LastWord'
    BY <1>1, <1>3, <2>1, <2>3 DEF HandHolds, PublishHolds, LastWord
  <2>10. SnapHolds'
    BY <1>1, <2>1, <2>6, <2>7 DEF SnapHolds
  <2>11. LogHolds'
    BY <1>1, <2>1, <2>6, <2>7 DEF LogHolds
  <2>12. SavedHolds'
    BY <1>1, <2>1, <2>6 DEF SavedHolds, Asked
  <2>. QED BY <2>8, <2>9, <2>10, <2>11, <2>12 DEF InStep
<1>. QED BY <1>4, <1>5, <1>8, <1>9, <1>10 DEF SoInv

\* A reply in the channel of the start, or of a request, says what the agent has.
LEMMA Replied ==
    ASSUME SoInv, reply # NoReply
    PROVE  /\ reply \in Lines /\ \A j \in DOMAIN inbox : ~AwaitedRequest(j)
           /\ \A i \in DOMAIN out : ~AwaitedAnswer(i)
           /\ ~crossed => out = <<>> /\ inbox = <<>> /\ reply.conf = agent.conf
                /\ reply.mode = agent.mode
<1>1. reply \in Lines /\ (\A j \in DOMAIN inbox : ~AwaitedRequest(j))
          /\ \A i \in DOMAIN out : ~AwaitedAnswer(i)
  BY DEF SoInv, Typed, OneAwaited
<1>2. ASSUME ~crossed PROVE out = <<>> /\ inbox = <<>> /\ reply.conf = agent.conf
          /\ reply.mode = agent.mode
  <2>1. \A i \in DOMAIN inbox : FALSE
    BY <1>1, <1>2 DEF SoInv, InStep, Uncrossed
  <2>2. inbox \in Seq(Requests)
    BY DEF SoInv, Typed, Requests
  <2>3. inbox = <<>>
    <3>. SUFFICES ASSUME inbox # <<>> PROVE FALSE
      OBVIOUS
    <3>. QED BY <2>1, <2>2, Tails
  <2>. QED BY <1>2, <2>3 DEF SoInv, InStep, Uncrossed
<1>. QED BY <1>1, <1>2

LEMMA OpenedKeeps ==
    ASSUME SoInv, Opened
    PROVE  SoInv'
<1>1. /\ proc = "opening" /\ reply.what = "opened" /\ reply' = NoReply
      /\ snap' = [conf |-> reply.conf, mode |-> reply.mode]
      /\ session' = TRUE /\ proc' = "applying" /\ plan' = saved
      /\ UNCHANGED <<agent, inbox, out, saved, logged, req, verdict, own, refused, crossed>>
  BY DEF Opened, ValuesToApply
<1>2. /\ reply # NoReply /\ reply \in Lines /\ \A j \in DOMAIN inbox : ~AwaitedRequest(j)
      /\ \A i \in DOMAIN out : ~AwaitedAnswer(i)
      /\ ~crossed => out = <<>> /\ inbox = <<>> /\ reply.conf = agent.conf
           /\ reply.mode = agent.mode
  BY <1>1, Replied DEF NoReply
<1>3. Typed'
  <2>1. snap' \in Snapshots
    BY <1>1, <1>2 DEF Lines, Snapshots
  <2>2. SoTypeOK'
    BY <1>1, <2>1 DEF SoInv, Typed, SoTypeOK, Snapshots, Confs
  <2>. QED BY <1>1, <2>1, <2>2 DEF SoInv, Typed
<1>4. Phases'
  BY <1>1, <1>2 DEF SoInv, Phases, AwaitedRequest, AwaitedAnswer, IsAnswer, Replies, NoReply
<1>5. OneAwaited' /\ OwnAnswer' /\ PublishesAlone' /\ ResetIsGenuine'
  BY <1>1, <1>2 DEF SoInv, OneAwaited, OwnAnswer, PublishesAlone, ResetIsGenuine,
     AwaitedRequest, AwaitedAnswer, IsAnswer
<1>6. InStep'
  <2>. SUFFICES ASSUME ~crossed' PROVE InStep'
    BY DEF InStep
  <2>1. out = <<>> /\ inbox = <<>> /\ snap'.conf = agent.conf /\ snap'.mode = agent.mode
            /\ HandHolds
    BY <1>1, <1>2 DEF SoInv, InStep
  <2>2. req.step \notin {"reply", "saved"}
    BY <1>1, <2>1 DEF HandHolds
  <2>. QED BY <1>1, <2>1, <2>2
       DEF InStep, Uncrossed, HandHolds, LastWord, SnapHolds, PublishHolds, LogHolds, SavedHolds
<1>. QED BY <1>3, <1>4, <1>5, <1>6 DEF SoInv

LEMMA AppliedKeeps ==
    ASSUME SoInv, Applied
    PROVE  SoInv'
<1>1. /\ proc = "applying" /\ reply.what = "set" /\ reply' = NoReply
      /\ snap' = [snap EXCEPT !.conf = reply.conf]
      /\ UNCHANGED <<proc, agent, inbox, out, saved, session, logged, plan, req, verdict, own,
                     refused, crossed>>
  BY DEF Applied
<1>2. /\ reply # NoReply /\ reply \in Lines /\ \A j \in DOMAIN inbox : ~AwaitedRequest(j)
      /\ \A i \in DOMAIN out : ~AwaitedAnswer(i)
      /\ ~crossed => out = <<>> /\ inbox = <<>> /\ reply.conf = agent.conf
           /\ reply.mode = agent.mode
  BY <1>1, Replied DEF NoReply
<1>7. snap' \in Snapshots /\ snap'.conf = reply.conf /\ snap'.mode = snap.mode
  BY <1>1, <1>2 DEF Lines, Snapshots, SoInv, Typed
<1>3. Typed'
  <2>2. SoTypeOK'
    BY <1>1, <1>7 DEF SoInv, Typed, SoTypeOK, Snapshots, Confs
  <2>. QED BY <1>1, <1>7, <2>2 DEF SoInv, Typed
<1>4. Phases'
  BY <1>1, <1>2 DEF SoInv, Phases, NoReply
<1>5. OneAwaited' /\ OwnAnswer' /\ PublishesAlone' /\ ResetIsGenuine'
  BY <1>1, <1>2 DEF SoInv, OneAwaited, OwnAnswer, PublishesAlone, ResetIsGenuine,
     AwaitedRequest, AwaitedAnswer, IsAnswer
<1>6. InStep'
  <2>. SUFFICES ASSUME ~crossed' PROVE InStep'
    BY DEF InStep
  <2>1. /\ out = <<>> /\ inbox = <<>> /\ snap'.conf = agent.conf
        /\ HandHolds /\ SnapHolds /\ SavedHolds
    BY <1>1, <1>2, <1>7 DEF SoInv, InStep
  <2>2. req.step \notin {"reply", "saved"}
    BY <1>1, <2>1 DEF HandHolds
  <2>3. snap.mode = agent.mode
    BY <1>1, <2>1 DEF SnapHolds, Tells, InHandOf
  <2>4. ~InHandOf({"refused"})
    BY <1>1, <2>1 DEF Tells, InHandOf
  <2>5. SavedHolds'
    BY <1>1, <2>1, <2>4 DEF SavedHolds, Asked
  <2>. QED BY <1>1, <1>7, <2>1, <2>2, <2>3, <2>5
       DEF InStep, Uncrossed, HandHolds, LastWord, SnapHolds, PublishHolds, LogHolds
<1>. QED BY <1>3, <1>4, <1>5, <1>6 DEF SoInv

LEMMA ApplyNextKeeps ==
    ASSUME SoInv, ApplyNext
    PROVE  SoInv'
<1>1. PICK o \in Option :
        /\ plan[o] # Unset
        /\ IF plan[o] \in agent.offers[o]
           THEN /\ inbox' = <<[what |-> "set", o |-> o, v |-> plan[o], late |-> FALSE]>>
                /\ plan' = [plan EXCEPT ![o] = Unset]
                /\ UNCHANGED <<proc, agent, out, reply, snap, logged, req, verdict, own,
                               refused, crossed, counts>>
           ELSE Ends(Reset(o))
  BY DEF ApplyNext
<1>2. /\ proc = "applying" /\ UNCHANGED <<saved, session>> /\ inbox = <<>> /\ reply = NoReply
      /\ \A i \in DOMAIN out : out[i].what \notin Replies
      /\ req.step # "wait" /\ plan \in Confs /\ agent \in Agents
  BY DEF ApplyNext, Waits, SoInv, Phases, Typed, Agents
<1>3. CASE plan[o] \in agent.offers[o]
  <2>. DEFINE ask == [what |-> "set", o |-> o, v |-> plan[o], late |-> FALSE]
  <2>1. /\ inbox' = <<ask>> /\ plan' = [plan EXCEPT ![o] = Unset]
        /\ UNCHANGED <<proc, agent, out, reply, snap, saved, session, logged, req, verdict, own,
                       refused, crossed>>
    BY <1>1, <1>2, <1>3
  <2>2. ask \in SetRequests /\ ask \in Requests /\ ask.what = "set" /\ ask.o = o
            /\ ask.v = plan[o] /\ ~ask.late
    BY <1>2, <1>3 DEF SetRequests, Requests, Agents
  <2>3. inbox' \in Seq(Requests) /\ Len(inbox') = 1 /\ DOMAIN inbox' = {1} /\ inbox'[1] = ask
    BY <2>1, <2>2, JustOne
  <2>4. plan' \in Confs /\ plan'[o] = Unset /\ \A p \in Option : p # o => plan'[p] = plan[p]
    BY <1>2, <2>1 DEF Confs
  <2>5. Typed'
    <3>1. SoTypeOK'
      BY <2>1, <2>3 DEF SoInv, Typed, SoTypeOK
    <3>. QED BY <1>2, <2>1, <2>3, <2>4, <3>1 DEF SoInv, Typed, Requests
  <2>6. Phases' /\ OwnAnswer' /\ PublishesAlone' /\ ResetIsGenuine'
    BY <1>2, <2>1, <2>2, <2>3 DEF SoInv, Phases, OwnAnswer, PublishesAlone, ResetIsGenuine
  <2>7. OneAwaited'
    BY <1>2, <2>1, <2>3 DEF OneAwaited, AwaitedRequest, AwaitedAnswer, IsAnswer
  <2>8. InStep'
    <3>. SUFFICES ASSUME ~crossed' PROVE InStep'
      BY DEF InStep
    <3>1. Uncrossed /\ HandHolds /\ LastWord /\ SnapHolds /\ SavedHolds
      BY <2>1 DEF SoInv, InStep
    <3>2. req.step \notin {"reply", "saved"}
      BY <1>2, <3>1 DEF HandHolds
    <3>3. Uncrossed'
      BY <1>2, <2>1, <2>2, <2>3 DEF Uncrossed, AwaitedRequest, IsAnswer
    <3>4. SavedHolds'
      <4>1. \A p \in Option : ~Asked(p)' => p # o
        BY <2>2, <2>3 DEF Asked
      <4>2. \A p \in Option : ~Asked(p)
        BY <1>2 DEF Asked
      <4>3. InHandOf({"refused"}) => InHandOf({"refused"})'
        BY <2>1 DEF InHandOf, Tells
      <4>4. \A p \in Option : plan'[p] # Unset => saved[p] \in {Unset, plan'[p]}
        BY <1>2, <2>4, <3>1 DEF SavedHolds
      <4>5. saved[o] \in {Unset, plan[o]}
        BY <1>1, <1>2, <3>1 DEF SavedHolds
      <4>6. \A i \in DOMAIN inbox' : inbox'[i].what = "set" => saved[inbox'[i].o] \in {Unset, inbox'[i].v}
        BY <2>2, <2>3, <4>5
      <4>7. ASSUME NEW p \in Option \ own, plan'[p] = Unset, ~Asked(p)', ~InHandOf({"refused"})'
            PROVE  saved[p] \in {Unset, agent.conf[p]}
        BY <1>2, <2>4, <3>1, <4>1, <4>2, <4>3, <4>7 DEF SavedHolds
      <4>8. \A p \in Option \ own' :
              plan'[p] = Unset /\ ~Asked(p)'
                  /\ ~InHandOf({"refused"})' => saved'[p] \in {Unset, agent'.conf[p]}
        BY <1>2, <2>1, <4>7
      <4>9. proc' = "applying" /\ saved' = saved
        BY <1>2, <2>1
      <4>. QED BY <4>4, <4>6, <4>8, <4>9 DEF SavedHolds
    <3>5. SnapHolds'
      BY <2>1, <3>1 DEF SnapHolds, InHandOf, Tells
    <3>6. HandHolds' /\ LastWord' /\ PublishHolds' /\ LogHolds'
      BY <1>2, <2>1, <3>1, <3>2 DEF HandHolds, LastWord, PublishHolds, LogHolds
    <3>. QED BY <3>3, <3>4, <3>5, <3>6 DEF InStep
  <2>. QED BY <2>5, <2>6, <2>7, <2>8 DEF SoInv
<1>4. CASE plan[o] \notin agent.offers[o]
  <2>1. /\ proc' = "stopped" /\ inbox' = <<>> /\ out' = <<>> /\ reply' = NoReply
        /\ plan' = Unsaved /\ snap' = Blank /\ own' = {} /\ crossed' = FALSE
        /\ agent' = [agent EXCEPT !.conf = Unsaved, !.mode = Unset]
        /\ req' = Free \/ (req' = req /\ req.step # "wait")
        /\ UNCHANGED <<saved, session, logged, refused>>
        /\ verdict' = [is |-> "reset", o |-> o]
    BY <1>1, <1>2, <1>4 DEF Ends, Reset
  <2>2. ResetIsGenuine'
    <3>1. plan[o] \in Value /\ agent'.offers = agent.offers
      BY <1>1, <1>2, <2>1 DEF Confs, Agents
    <3>. QED BY <1>4, <2>1, <3>1 DEF ResetIsGenuine
  <2>. QED BY <2>1, <2>2, EndsKeep DEF SoInv, Typed
<1>. QED BY <1>3, <1>4

LEMMA ApplyFailsKeeps ==
    ASSUME SoInv, ApplyFails
    PROVE  SoInv'
<1>1. PICK o \in Option :
        \/ reply.what = "refused" /\ o \in refused /\ Ends(Blame(o, TRUE))
        \/ inbox # <<>> /\ o = Head(inbox).o /\ Ends(Blame(o, FALSE))
  BY DEF ApplyFails
<1>2. /\ proc' = "stopped" /\ inbox' = <<>> /\ out' = <<>> /\ reply' = NoReply
      /\ plan' = Unsaved /\ snap' = Blank /\ own' = {} /\ crossed' = FALSE
      /\ agent' = [agent EXCEPT !.conf = Unsaved, !.mode = Unset]
      /\ req' = Free \/ (req' = req /\ req.step # "wait")
      /\ UNCHANGED <<saved, session, logged, refused>>
      /\ verdict' = Retry \/ (o \in refused /\ verdict' = [is |-> "reset", o |-> o])
  BY <1>1 DEF ApplyFails, Ends, Blame, Reset
<1>3. ResetIsGenuine'
  BY <1>2 DEF ResetIsGenuine, Retry
<1>4. verdict' \in {[is |-> "none"], Retry} \cup [is : {"reset"}, o : Option]
  BY <1>2
<1>5. session' \in BOOLEAN
  BY <1>2 DEF SoInv, Typed
<1>. QED BY <1>2, <1>3, <1>4, <1>5, EndsKeep

LEMMA PublishReadsKeeps ==
    ASSUME SoInv, PublishReads
    PROVE  SoInv'
<1>1. /\ proc = "applying" /\ plan = Unsaved /\ proc' = "publishing" /\ plan' = snap
      /\ crossed' = (crossed \/ out # <<>>)
      /\ UNCHANGED <<agent, inbox, out, reply, snap, saved, session, logged, req, verdict, own,
                     refused>>
      /\ inbox = <<>> /\ reply = NoReply /\ \A i \in DOMAIN out : ~IsAnswer(out[i])
  BY DEF PublishReads, Waits, link, copies, IsAnswer
<1>2. Typed'
  <2>1. crossed' \in BOOLEAN
    BY <1>1
  <2>2. SoTypeOK'
    BY <1>1 DEF SoInv, Typed, SoTypeOK
  <2>. QED BY <1>1, <2>1, <2>2 DEF SoInv, Typed
<1>3. Phases' /\ OneAwaited' /\ OwnAnswer' /\ PublishesAlone' /\ ResetIsGenuine'
  BY <1>1 DEF SoInv, Phases, OneAwaited, OwnAnswer, PublishesAlone, ResetIsGenuine,
              AwaitedRequest, AwaitedAnswer, IsAnswer
<1>4. InStep'
  <2>. SUFFICES ASSUME ~crossed' PROVE InStep'
    BY DEF InStep
  <2>1. ~crossed /\ out = <<>>
    BY <1>1, Zenon
  <2>2. HandHolds /\ SnapHolds /\ SavedHolds
    BY <2>1 DEF SoInv, InStep
  <2>3. req.step \notin {"reply", "saved"}
    BY <1>1, <2>2 DEF HandHolds
  <2>4. \A o \in Option : plan[o] = Unset /\ ~Asked(o)
    BY <1>1, Blanks DEF Asked
  <2>5. ~InHandOf({"refused"}) /\ ~InHandOf({"set", "opened"}) /\ ~InHandOf({"moded", "opened"})
        /\ ~Tells({"config"}) /\ ~Tells({"mode"})
    BY <1>1, <2>1 DEF InHandOf, Tells, NoReply
  <2>6. SavedHolds'
    BY <1>1, <2>2, <2>4, <2>5 DEF SavedHolds
  <2>7. SnapHolds'
    BY <1>1, <2>2, <2>5 DEF SnapHolds
  <2>8. UNCHANGED <<out, inbox, reply, req, snap>> /\ proc' = "publishing" /\ plan' = snap
    BY <1>1
  <2>. QED BY <1>1, <2>1, <2>3, <2>6, <2>7, <2>8
       DEF InStep, Uncrossed, HandHolds, LastWord, PublishHolds, LogHolds
<1>. QED BY <1>2, <1>3, <1>4 DEF SoInv

LEMMA PublishAppendsKeeps ==
    ASSUME SoInv, PublishAppends
    PROVE  SoInv'
<1>1. /\ proc = "publishing" /\ proc' = "running" /\ plan' = Unsaved
      /\ logged' = IF plan.mode = Unset THEN [logged EXCEPT !.conf = plan.conf] ELSE plan
      /\ UNCHANGED <<agent, inbox, out, reply, snap, saved, session, req, verdict, own, refused,
                     crossed>>
      /\ inbox = <<>> /\ reply = NoReply /\ \A i \in DOMAIN out : ~IsAnswer(out[i])
      /\ plan \in Snapshots
  BY DEF PublishAppends, link, SoInv, PublishesAlone, Typed
<1>2. /\ logged' \in Snapshots /\ logged'.conf = plan.conf
      /\ plan.mode # Unset => logged'.mode = plan.mode
  BY <1>1 DEF SoInv, Typed, Snapshots
<1>3. Typed'
  <2>2. SoTypeOK'
    BY <1>1 DEF SoInv, Typed, SoTypeOK
  <2>. QED BY <1>1, <1>2, <2>2, Blanks DEF SoInv, Typed
<1>4. Phases' /\ OneAwaited' /\ OwnAnswer' /\ PublishesAlone' /\ ResetIsGenuine'
  BY <1>1 DEF SoInv, Phases, OneAwaited, OwnAnswer, PublishesAlone, ResetIsGenuine,
              AwaitedRequest, AwaitedAnswer, IsAnswer
<1>5. InStep'
  <2>. SUFFICES ASSUME ~crossed' PROVE InStep'
    BY DEF InStep
  <2>1. HandHolds /\ SnapHolds /\ SavedHolds /\ PublishHolds
    BY <1>1 DEF SoInv, InStep
  <2>2. out = <<>> /\ plan = snap
    BY <1>1, <2>1 DEF PublishHolds
  <2>3. req.step \notin {"reply", "saved"}
    BY <1>1, <2>1 DEF HandHolds
  <2>5. ~InHandOf({"set"}) /\ ~InHandOf({"moded"}) /\ ~InHandOf({"set", "opened"})
            /\ ~InHandOf({"moded", "opened"})
        /\ ~Tells({"config"}) /\ ~Tells({"mode"}) /\ ~InHandOf({"moded"})'
    BY <1>1, <2>2 DEF InHandOf, Tells, NoReply
  <2>6. snap.conf = agent.conf /\ snap.mode = agent.mode
    BY <1>1, <2>1, <2>5 DEF SnapHolds
  <2>7. SavedHolds'
    BY <1>1, <2>1, <2>5 DEF SavedHolds
  <2>8. LogHolds' /\ SnapHolds'
    BY <1>1, <1>2, <2>2, <2>6 DEF LogHolds, SnapHolds
  <2>. QED BY <1>1, <2>2, <2>3, <2>5, <2>7, <2>8
       DEF InStep, Uncrossed, HandHolds, LastWord, PublishHolds
<1>. QED BY <1>3, <1>4, <1>5 DEF SoInv

\* Who has not asked awaits nothing in a running session.
LEMMA SendsKeeps ==
    ASSUME SoInv, Sends
    PROVE  SoInv'
<1>. DEFINE ask == IF req.what = "set"
                   THEN [what |-> "set", o |-> req.o, v |-> req.v, late |-> FALSE]
                   ELSE [what |-> "mode", v |-> req.v, late |-> FALSE]
<1>1. /\ req.step = "want" /\ proc = "running" /\ Len(inbox) < 2
      /\ inbox' = Append(inbox, ask) /\ req' = [req EXCEPT !.step = "wait"]
      /\ UNCHANGED <<proc, agent, out, reply, snap, saved, session, logged, plan, verdict, own,
                     refused, crossed>>
  BY DEF Sends, copies
<1>2. /\ req \in AskedFor /\ req.what \in {"set", "mode"}
      /\ ask \in Requests /\ ask.what = req.what /\ ask.v = req.v /\ ~ask.late
      /\ req.what = "set" => ask.o = req.o
      /\ req.what = "set" => ask \in SetRequests
  <2>1. req \in AskedFor
    BY <1>1 DEF SoInv, Typed, AskedFor, Answered, Free
  <2>2. CASE req.what = "set"
    BY <2>1, <2>2 DEF AskedFor, Requests, SetRequests
  <2>3. CASE req.what = "mode"
    BY <2>1, <2>3 DEF AskedFor, Requests, ModeRequests
  <2>. QED BY <2>1, <2>2, <2>3 DEF AskedFor
<1>3. /\ req' \in AskedFor /\ req'.step = "wait" /\ req'.what = req.what /\ req'.v = req.v
      /\ req.what = "set" => req'.o = req.o
  BY <1>1, <1>2 DEF AskedFor
<1>4. inbox \in Seq(Requests)
  BY DEF SoInv, Typed, Requests
<1>5. /\ inbox' \in Seq(Requests) /\ Len(inbox') = Len(inbox) + 1 /\ Len(inbox) \in Nat
      /\ \A i \in DOMAIN inbox' :
            (i \in DOMAIN inbox /\ inbox'[i] = inbox[i]) \/ (i = Len(inbox) + 1
                /\ inbox'[i] = ask)
  <2>. HIDE DEF ask
  <2>4. ask \in Requests /\ inbox' = Append(inbox, ask)
    BY <1>1, <1>2
  <2>1. Len(inbox) \in Nat /\ inbox' \in Seq(Requests) /\ Len(inbox') = Len(inbox) + 1
    BY <1>4, <2>4, Ending
  <2>2. \A i \in DOMAIN inbox' : i = Len(inbox') \/ (i \in DOMAIN inbox /\ inbox'[i] = inbox[i])
    BY <1>4, <2>4, Ending
  <2>3. inbox'[Len(inbox) + 1] = ask
    BY <1>4, <2>1, <2>4, Ending
  <2>. QED BY <2>1, <2>2, <2>3
<1>6. /\ \A i \in DOMAIN inbox : ~AwaitedRequest(i)
      /\ \A i \in DOMAIN out : ~AwaitedAnswer(i)
      /\ reply = NoReply
  BY <1>1 DEF SoInv, OwnAnswer, AwaitedRequest, AwaitedAnswer
<1>7. Typed'
  <2>1. SoTypeOK'
    BY <1>1, <1>3, <1>5 DEF SoInv, Typed, SoTypeOK
  <2>. QED BY <1>1, <1>3, <1>5, <2>1 DEF SoInv, Typed, Requests
<1>8. \A i \in DOMAIN inbox' : AwaitedRequest(i)' => i = Len(inbox) + 1 /\ inbox'[i] = ask
  BY <1>5, <1>6 DEF AwaitedRequest
<1>9. OneAwaited' /\ OwnAnswer' /\ PublishesAlone' /\ ResetIsGenuine'
  <2>. HIDE DEF ask
  <2>1. OneAwaited'
    BY <1>1, <1>6, <1>8 DEF OneAwaited, AwaitedRequest, AwaitedAnswer, IsAnswer
  <2>2. OwnAnswer'
    BY <1>1, <1>2, <1>3, <1>6, <1>8 DEF OwnAnswer, AwaitedRequest, AwaitedAnswer, IsAnswer
  <2>3. PublishesAlone' /\ ResetIsGenuine'
    BY <1>1 DEF PublishesAlone, ResetIsGenuine, SoInv
  <2>. QED BY <2>1, <2>2, <2>3
<1>10. Phases'
  <2>. HIDE DEF ask
  <2>. QED BY <1>1, <1>2, <1>5 DEF SoInv, Phases
<1>11. InStep'
  <2>. HIDE DEF ask
  <2>. SUFFICES ASSUME ~crossed' PROVE InStep'
    BY DEF InStep
  <2>1. Uncrossed /\ LastWord /\ SnapHolds /\ LogHolds /\ SavedHolds
    BY <1>1 DEF SoInv, InStep
  <2>2. \A i \in DOMAIN out : ~IsAnswer(out[i])
    BY <1>6, <2>1 DEF Uncrossed, AwaitedAnswer
  <2>3. \A i \in DOMAIN inbox' : i = Len(inbox) + 1 /\ inbox'[i] = ask
    BY <1>5, <1>6, <2>1 DEF Uncrossed
  <2>4. \A s : s \subseteq Replies => ~InHandOf(s)' /\ ~InHandOf(s)
    BY <1>1, <1>6, <2>2 DEF InHandOf, Tells, NoReply, IsAnswer, Replies
  <2>5. /\ ~InHandOf({"moded"})' /\ ~InHandOf({"set"}) /\ ~InHandOf({"moded"})
        /\ ~InHandOf({"set", "opened"}) /\ ~InHandOf({"moded", "opened"})
    BY <2>4 DEF Replies
  <2>6. Uncrossed'
    BY <1>1, <1>2, <1>6, <2>2, <2>3, <2>5 DEF Uncrossed, AwaitedRequest, IsAnswer
  <2>7. HandHolds' /\ LastWord' /\ PublishHolds'
    BY <1>1, <1>3, <2>1 DEF HandHolds, LastWord, PublishHolds
  <2>8. SnapHolds'
    BY <1>1, <2>1, <2>5 DEF SnapHolds, Tells
  <2>9. LogHolds'
    BY <1>1, <2>1, <2>5 DEF LogHolds, Tells
  <2>10. SavedHolds'
    BY <1>1, <2>1, <2>5 DEF SavedHolds
  <2>. QED BY <2>6, <2>7, <2>8, <2>9, <2>10 DEF InStep
<1>. QED BY <1>7, <1>9, <1>10, <1>11 DEF SoInv

LEMMA TakeReplyKeeps ==
    ASSUME SoInv, TakeReply
    PROVE  SoInv'
<1>1. /\ req.step = "wait" /\ reply # NoReply /\ reply' = NoReply /\ proc = "running"
      /\ UNCHANGED <<proc, agent, inbox, out, saved, session, logged, plan, verdict, own,
                     refused>>
  BY DEF TakeReply, SoInv, Phases
<1>2. /\ reply \in Lines /\ \A j \in DOMAIN inbox : ~AwaitedRequest(j)
      /\ \A i \in DOMAIN out : ~AwaitedAnswer(i)
      /\ ~crossed => out = <<>> /\ inbox = <<>> /\ reply.conf = agent.conf
           /\ reply.mode = agent.mode
  BY <1>1, Replied
<1>3. req \in AskedFor /\ (reply.what = "set" => req.what = "set")
          /\ (reply.what = "moded" => req.what = "mode")
  BY <1>1 DEF SoInv, Typed, AskedFor, Answered, Free, OwnAnswer
<1>4. ASSUME snap' \in Snapshots, crossed' \in BOOLEAN, req' \in {Free} \cup Answered
      PROVE  Typed' /\ Phases' /\ OneAwaited' /\ OwnAnswer' /\ PublishesAlone' /\ ResetIsGenuine'
  <2>1. req'.step \in {"idle", "reply", "saved"}
    BY <1>4 DEF Free, Answered
  <2>2. SoTypeOK'
    BY <1>1, <1>4, <2>1 DEF SoInv, Typed, SoTypeOK, Snapshots, Confs
  <2>3. Typed'
    BY <1>1, <1>4, <2>2 DEF SoInv, Typed
  <2>4. Phases'
    BY <1>1, <2>1 DEF SoInv, Phases, NoReply
  <2>. QED BY <1>1, <1>2, <2>3, <2>4
       DEF SoInv, OneAwaited, OwnAnswer, PublishesAlone, ResetIsGenuine, AwaitedRequest,
           AwaitedAnswer, IsAnswer
<1>5. ASSUME ~crossed
      PROVE  /\ Uncrossed /\ SnapHolds /\ LogHolds /\ SavedHolds
             /\ ~Tells({"config"}) /\ ~Tells({"mode"}) /\ inbox = <<>> /\ out = <<>>
             /\ \A s : InHandOf(s) <=> reply.what \in s
  BY <1>2, <1>5 DEF SoInv, InStep, Tells, InHandOf
<1>6. CASE /\ reply.what = "set" /\ snap' = [snap EXCEPT !.conf = reply.conf]
           /\ req' = [step |-> "reply", what |-> "set", o |-> req.o, v |-> req.v, hand |-> reply.conf]
           /\ UNCHANGED crossed
  <2>1. snap' \in Snapshots /\ snap'.conf = reply.conf /\ snap'.mode = snap.mode
    BY <1>2, <1>6 DEF SoInv, Typed, Snapshots, Lines
  <2>2. req' \in Answered /\ req'.step = "reply" /\ req'.what = "set" /\ req'.o = req.o
            /\ req'.hand = reply.conf
    BY <1>2, <1>3, <1>6 DEF AskedFor, Answered, Lines
  <2>3. InStep'
    <3>. SUFFICES ASSUME ~crossed' PROVE InStep'
      BY DEF InStep
    <3>1. ~crossed
      BY <1>6
    <3>2. /\ out = <<>> /\ inbox = <<>> /\ reply.conf = agent.conf /\ LogHolds /\ SnapHolds
               /\ SavedHolds
          /\ ~InHandOf({"moded"}) /\ ~InHandOf({"moded", "opened"}) /\ ~Tells({"mode"})
      BY <1>2, <1>5, <1>6, <3>1
    <3>3. SavedHolds'
      BY <1>1, <1>3, <2>2, <3>2 DEF SavedHolds
    <3>4. LogHolds'
      BY <1>1, <2>2, <3>2 DEF LogHolds
    <3>5. SnapHolds'
      BY <1>1, <2>1, <3>2 DEF SnapHolds
    <3>6. ~InHandOf({"moded"})'
      BY <1>1, <3>2 DEF InHandOf, Tells, NoReply
    <3>. QED BY <1>1, <2>2, <3>2, <3>3, <3>4, <3>5, <3>6 DEF InStep, Uncrossed, HandHolds,
            LastWord, PublishHolds
  <2>4. crossed' \in BOOLEAN
    BY <1>6 DEF SoInv, Typed
  <2>. QED BY <1>4, <2>1, <2>2, <2>3, <2>4 DEF SoInv
<1>7. CASE /\ reply.what = "moded" /\ snap' = [snap EXCEPT !.mode = req.v]
           /\ req' = [step |-> "saved", what |-> "mode", hand |-> req.v]
           /\ UNCHANGED crossed
  <2>1. req.v \in Value
    BY <1>3 DEF AskedFor
  <2>2. snap' \in Snapshots /\ snap'.mode = req.v /\ snap'.conf = snap.conf
    BY <1>7, <2>1 DEF SoInv, Typed, Snapshots, Modes
  <2>3. req' \in Answered /\ req'.step = "saved" /\ req'.what = "mode" /\ req'.hand = req.v
    BY <1>7, <2>1 DEF Answered
  <2>4. InStep'
    <3>. SUFFICES ASSUME ~crossed' PROVE InStep'
      BY DEF InStep
    <3>1. ~crossed
      BY <1>7
    <3>2. /\ out = <<>> /\ inbox = <<>> /\ LogHolds /\ SnapHolds /\ SavedHolds /\ Uncrossed
          /\ InHandOf({"moded"}) /\ ~InHandOf({"set", "opened"}) /\ ~InHandOf({"set"})
               /\ ~Tells({"config"})
      BY <1>2, <1>5, <1>7, <3>1
    <3>3. agent.mode = req.v
      BY <1>1, <3>2 DEF Uncrossed
    <3>4. SavedHolds'
      BY <1>1, <2>3, <3>2 DEF SavedHolds
    <3>5. LogHolds'
      BY <1>1, <2>3, <3>2 DEF LogHolds
    <3>6. SnapHolds'
      BY <1>1, <2>2, <3>2, <3>3 DEF SnapHolds
    <3>7. ~InHandOf({"moded"})'
      BY <1>1, <3>2 DEF InHandOf, Tells, NoReply
    <3>. QED BY <1>1, <2>3, <3>2, <3>3, <3>4, <3>5, <3>6, <3>7 DEF InStep, Uncrossed, HandHolds,
            LastWord, PublishHolds
  <2>5. crossed' \in BOOLEAN
    BY <1>7 DEF SoInv, Typed
  <2>. QED BY <1>4, <2>2, <2>3, <2>4, <2>5 DEF SoInv
<1>8. CASE reply.what = "refused" /\ req' = Free /\ UNCHANGED <<snap, crossed>>
  <2>1. InStep'
    <3>. SUFFICES ASSUME ~crossed' PROVE InStep'
      BY DEF InStep
    <3>1. ~crossed
      BY <1>8
    <3>2. /\ out = <<>> /\ inbox = <<>> /\ LogHolds /\ SnapHolds /\ SavedHolds
          /\ ~InHandOf({"set", "opened"}) /\ ~InHandOf({"set"}) /\ ~Tells({"config"})
          /\ ~InHandOf({"moded", "opened"}) /\ ~InHandOf({"moded"}) /\ ~Tells({"mode"})
      BY <1>2, <1>5, <1>8, <3>1
    <3>3. req'.step = "idle"
      BY <1>8 DEF Free
    <3>4. SavedHolds'
      BY <1>1, <3>2, <3>3 DEF SavedHolds
    <3>5. LogHolds'
      BY <1>1, <3>2 DEF LogHolds
    <3>6. SnapHolds'
      BY <1>1, <1>8, <3>2 DEF SnapHolds
    <3>7. ~InHandOf({"moded"})'
      BY <1>1, <3>2 DEF InHandOf, Tells, NoReply
    <3>. QED BY <1>1, <3>2, <3>3, <3>4, <3>5, <3>6, <3>7 DEF InStep, Uncrossed, HandHolds,
            LastWord, PublishHolds
  <2>. QED BY <1>4, <1>8, <2>1 DEF SoInv, Typed
<1>9. CASE req' = Free /\ crossed' = TRUE /\ UNCHANGED snap
  BY <1>4, <1>9 DEF SoInv, Typed, InStep
<1>. QED BY <1>6, <1>7, <1>8, <1>9 DEF TakeReply

\* After a timeout nobody awaits what is under way.
LEMMA TimesOutKeeps ==
    ASSUME SoInv, TimesOut
    PROVE  SoInv'
<1>1. /\ proc = "running" /\ reply = NoReply /\ req' = Free /\ crossed' = TRUE
      /\ inbox' = [i \in DOMAIN inbox |-> Late(inbox[i])]
      /\ out' = [i \in DOMAIN out |-> Late(out[i])]
      /\ UNCHANGED <<proc, agent, reply, snap, saved, session, logged, plan, verdict, own,
                     refused>>
  BY DEF TimesOut, copies, SoInv, Phases
<1>2. inbox \in Seq(Requests) /\ out \in Seq(Lines)
  BY DEF SoInv, Typed, Requests
<1>3. ASSUME NEW i \in DOMAIN inbox
      PROVE  Late(inbox[i]) \in SetRequests \cup ModeRequests /\ Late(inbox[i]).late
  <2>1. inbox[i] \in Requests /\ inbox[i].what # "open"
    BY <1>1, <1>2 DEF SoInv, Phases
  <2>2. CASE inbox[i] \in SetRequests
    BY <2>2 DEF Late, SetRequests
  <2>3. CASE inbox[i] \in ModeRequests
    BY <2>3 DEF Late, ModeRequests
  <2>. QED BY <2>1, <2>2, <2>3 DEF Requests
<1>4. ASSUME NEW i \in DOMAIN out
      PROVE  /\ Late(out[i]) \in Lines /\ Late(out[i]).what = out[i].what
             /\ IsAnswer(out[i]) => Late(out[i]).late
  <2>. DEFINE b == out[i].what \notin {"config", "mode"} \/ "v" \in DOMAIN out[i]
  <2>1. b \in BOOLEAN /\ Late(out[i]) = [out[i] EXCEPT !.late = b]
    BY DEF Late
  <2>2. IsAnswer(out[i]) => b
    BY DEF IsAnswer, Replies
  <2>3. out[i] \in Lines
    BY <1>2
  <2>. HIDE DEF b
  <2>4. Late(out[i]) \in Lines /\ Late(out[i]).what = out[i].what
    BY <2>1, <2>3 DEF Lines
  <2>5. b => Late(out[i]).late
    BY <2>1, <2>3 DEF Lines
  <2>. QED BY <2>2, <2>4, <2>5
<1>5. inbox' \in Seq(Requests) /\ Len(inbox') = Len(inbox) /\ DOMAIN inbox' = DOMAIN inbox
  BY <1>1, <1>2, <1>3 DEF Requests
<1>6. out' \in Seq(Lines) /\ DOMAIN out' = DOMAIN out
  BY <1>1, <1>2, <1>4
<1>7. Typed'
  <2>1. SoTypeOK'
    BY <1>1, <1>5 DEF SoInv, Typed, SoTypeOK, Free
  <2>. QED BY <1>1, <1>5, <1>6, <2>1 DEF SoInv, Typed, Requests
<1>8. (\A i \in DOMAIN inbox' : ~AwaitedRequest(i)' /\ inbox'[i].what # "open")
      /\ \A i \in DOMAIN out' : ~AwaitedAnswer(i)' /\ out'[i].what = out[i].what
  BY <1>1, <1>3, <1>4, <1>5, <1>6 DEF AwaitedRequest, AwaitedAnswer, IsAnswer, SetRequests,
     ModeRequests
<1>9. Phases'
  <2>1. \A i \in DOMAIN out' : out'[i].what \notin {"opened", "error"}
    BY <1>1, <1>6, <1>8 DEF SoInv, Phases
  <2>. QED BY <1>1, <1>8, <2>1 DEF SoInv, Phases, Free, NoReply
<1>10. OneAwaited' /\ OwnAnswer' /\ PublishesAlone' /\ ResetIsGenuine' /\ InStep'
  BY <1>1, <1>8 DEF SoInv, OneAwaited, OwnAnswer, PublishesAlone, ResetIsGenuine, InStep,
     AwaitedAnswer
<1>. QED BY <1>7, <1>9, <1>10 DEF SoInv

\* What came back is saved, then published; nothing else moves.
LEMMA AfterwardsKeeps ==
    ASSUME SoInv, req.step \in {"reply", "saved"}, req'.step \in {"idle", "saved"},
           req' \in {Free} \cup Answered,
           UNCHANGED <<proc, agent, inbox, out, reply, snap, session, plan, verdict, own,
                       refused>>,
           saved' \in Confs, logged' \in Snapshots, crossed' \in BOOLEAN, InStep'
    PROVE  SoInv'
<1>1. Typed'
  <2>1. SoTypeOK'
    BY DEF SoInv, Typed, SoTypeOK, Confs
  <2>. QED BY <2>1 DEF SoInv, Typed
<1>2. Phases' /\ OneAwaited' /\ PublishesAlone' /\ ResetIsGenuine'
  BY DEF SoInv, Phases, OneAwaited, PublishesAlone, ResetIsGenuine, AwaitedRequest, AwaitedAnswer
<1>3. OwnAnswer'
  BY DEF SoInv, OwnAnswer, AwaitedRequest, AwaitedAnswer
<1>. QED BY <1>1, <1>2, <1>3 DEF SoInv

LEMMA SaveKeeps ==
    ASSUME SoInv, Save
    PROVE  SoInv'
<1>1. /\ req.step = "reply"
      /\ UNCHANGED <<proc, agent, inbox, out, reply, snap, session, logged, plan, verdict, own,
                     refused>>
  BY DEF Save, link
<1>2. req \in Answered /\ req.what = "set" /\ req.o \in Option /\ req.hand \in Confs
  BY <1>1 DEF SoInv, Typed, AskedFor, Answered, Free
<1>3. CASE /\ saved' = [saved EXCEPT ![req.o] = req.hand[req.o]]
           /\ req' = [step |-> "saved", what |-> "set", hand |-> req.hand] /\ UNCHANGED crossed
  <2>1. saved' \in Confs /\ saved'[req.o] = req.hand[req.o]
            /\ \A o \in Option : o # req.o => saved'[o] = saved[o]
    BY <1>2, <1>3 DEF SoInv, Typed, Confs
  <2>2. req' \in Answered /\ req'.step = "saved" /\ req'.what = "set" /\ req'.hand = req.hand
    BY <1>2, <1>3 DEF Answered
  <2>3. InStep'
    <3>. SUFFICES ASSUME ~crossed' PROVE InStep'
      BY DEF InStep
    <3>1. Uncrossed /\ HandHolds /\ LastWord /\ SnapHolds /\ PublishHolds /\ LogHolds
              /\ SavedHolds
      BY <1>3 DEF SoInv, InStep
    <3>2. proc # "stopped" => proc = "running" /\ req.hand = agent.conf
                              /\ out = <<>> /\ inbox = <<>> /\ reply = NoReply
      BY <1>1, <1>2, <3>1 DEF HandHolds
    <3>3. SavedHolds'
      BY <1>1, <1>2, <2>1, <2>2, <3>1, <3>2 DEF SavedHolds
    <3>4. HandHolds' /\ LogHolds' /\ SnapHolds'
      BY <1>1, <1>2, <2>2, <3>1, <3>2 DEF HandHolds, LogHolds, SnapHolds, InHandOf, Tells
    <3>5. InHandOf({"moded"})' => InHandOf({"moded"})
      BY <1>1 DEF InHandOf, Tells
    <3>6. Uncrossed'
      BY <1>1, <3>1, <3>2 DEF Uncrossed, AwaitedRequest, IsAnswer, InHandOf, Tells, NoReply
    <3>. QED BY <1>1, <3>1, <3>3, <3>4, <3>6 DEF InStep, LastWord, PublishHolds
  <2>4. crossed' \in BOOLEAN /\ logged' \in Snapshots
    BY <1>1, <1>3 DEF SoInv, Typed
  <2>. QED BY <1>1, <2>1, <2>2, <2>3, <2>4, AfterwardsKeeps
<1>4. CASE req' = Free /\ crossed' = TRUE /\ UNCHANGED saved
  <2>1. req'.step = "idle" /\ saved' \in Confs /\ logged' \in Snapshots
            /\ crossed' \in BOOLEAN /\ InStep'
    BY <1>1, <1>4 DEF SoInv, Typed, InStep, Free
  <2>. QED BY <1>1, <1>4, <2>1, AfterwardsKeeps
<1>. QED BY <1>3, <1>4 DEF Save, Authoritative

LEMMA PublishKeeps ==
    ASSUME SoInv, Publish
    PROVE  SoInv'
<1>1. /\ req.step = "saved" /\ req' = Free /\ req'.step = "idle"
      /\ UNCHANGED <<proc, agent, inbox, out, reply, snap, saved, session, plan, verdict, own,
                     refused>>
  BY DEF Publish, link, Free
<1>2. /\ req.what \in {"set", "mode"}
      /\ req.what = "set" => req.hand \in Confs
      /\ req.what = "mode" => req.hand \in Value
  BY <1>1 DEF SoInv, Typed, AskedFor, Answered, Free
<1>3. CASE /\ logged' = IF req.what = "set" THEN [logged EXCEPT !.conf = req.hand]
                     ELSE [logged EXCEPT !.mode = req.hand]
           /\ UNCHANGED crossed
  <2>1. /\ logged' \in Snapshots
        /\ req.what = "set" => logged'.conf = req.hand /\ logged'.mode = logged.mode
        /\ req.what = "mode" => logged'.mode = req.hand /\ logged'.conf = logged.conf
    BY <1>2, <1>3 DEF SoInv, Typed, Snapshots, Modes
  <2>2. InStep'
    <3>. SUFFICES ASSUME ~crossed' PROVE InStep'
      BY DEF InStep
    <3>1. Uncrossed /\ HandHolds /\ LastWord /\ SnapHolds /\ PublishHolds /\ LogHolds
              /\ SavedHolds
      BY <1>3 DEF SoInv, InStep
    <3>2. proc # "stopped" => proc = "running"
              /\ req.hand = (IF req.what = "set" THEN agent.conf ELSE agent.mode)
                              /\ out = <<>> /\ inbox = <<>> /\ reply = NoReply
      BY <1>1, <1>2, <3>1 DEF HandHolds
    <3>3. SavedHolds'
      BY <1>1, <3>1, <3>2 DEF SavedHolds
    <3>4. LogHolds'
      BY <1>1, <1>2, <2>1, <3>1, <3>2 DEF LogHolds, InHandOf, Tells, NoReply
    <3>5. HandHolds' /\ SnapHolds'
      BY <1>1, <3>1 DEF HandHolds, SnapHolds, InHandOf, Tells
    <3>6. Uncrossed'
      BY <1>1, <3>1, <3>2 DEF Uncrossed, AwaitedRequest, IsAnswer, InHandOf, Tells, NoReply
    <3>. QED BY <1>1, <3>1, <3>3, <3>4, <3>5, <3>6 DEF InStep, LastWord, PublishHolds
  <2>4. crossed' \in BOOLEAN /\ saved' \in Confs
    BY <1>1, <1>3 DEF SoInv, Typed
  <2>. QED BY <1>1, <2>1, <2>2, <2>4, AfterwardsKeeps
<1>4. CASE crossed' = TRUE /\ UNCHANGED logged
  <2>1. saved' \in Confs /\ logged' \in Snapshots /\ crossed' \in BOOLEAN /\ InStep'
    BY <1>1, <1>4 DEF SoInv, Typed, InStep
  <2>. QED BY <1>1, <2>1, AfterwardsKeeps
<1>. QED BY <1>3, <1>4 DEF Publish

LEMMA ClearSavedKeeps ==
    ASSUME SoInv, ClearSaved
    PROVE  SoInv'
<1>1. PICK o \in Option : saved' = [saved EXCEPT ![o] = Unset]
  BY DEF ClearSaved
<1>2. UNCHANGED <<proc, agent, inbox, out, reply, snap, session, logged, plan, req, verdict,
                  own, refused, crossed>>
  BY DEF ClearSaved, link
<1>3. saved' \in Confs /\ \A p \in Option : saved'[p] \in {Unset, saved[p]}
  BY <1>1 DEF SoInv, Typed, Confs
<1>4. Typed'
  <2>1. SoTypeOK'
    BY <1>2, <1>3 DEF SoInv, Typed, SoTypeOK, Confs
  <2>. QED BY <1>2, <1>3, <2>1 DEF SoInv, Typed
<1>5. Phases' /\ OneAwaited' /\ OwnAnswer' /\ PublishesAlone' /\ ResetIsGenuine'
  BY <1>2 DEF SoInv, Phases, OneAwaited, OwnAnswer, PublishesAlone, ResetIsGenuine,
     AwaitedRequest, AwaitedAnswer
<1>6. InStep'
  <2>. SUFFICES ASSUME ~crossed' PROVE InStep'
    BY DEF InStep
  <2>1. Uncrossed /\ HandHolds /\ LastWord /\ SnapHolds /\ PublishHolds /\ LogHolds /\ SavedHolds
    BY <1>2 DEF SoInv, InStep
  <2>2. SavedHolds'
    <3>1. ASSUME NEW i \in DOMAIN inbox, inbox[i].what = "set" PROVE inbox[i].o \in Option
      <4>1. inbox[i] \in [what : {"open"}] \cup SetRequests \cup ModeRequests
        BY DEF SoInv, Typed
      <4>. QED BY <3>1, <4>1 DEF SetRequests, ModeRequests
    <3>. QED BY <1>2, <1>3, <2>1, <3>1 DEF SavedHolds, Asked, InHandOf, Tells
  <2>3. Uncrossed' /\ HandHolds' /\ LastWord' /\ SnapHolds' /\ PublishHolds' /\ LogHolds'
    BY <1>2, <2>1 DEF Uncrossed, HandHolds, LastWord, SnapHolds, PublishHolds, LogHolds,
           Tells, InHandOf, AwaitedRequest, IsAnswer
  <2>. QED BY <2>2, <2>3 DEF InStep
<1>. QED BY <1>4, <1>5, <1>6 DEF SoInv

\* One lemma per handler, or per handlers that end alike.
LEMMA OptionsStep == SoInv /\ [SoNext]_soVars => SoInv'
<1>. SUFFICES ASSUME SoInv, [SoNext]_soVars PROVE SoInv'
  OBVIOUS
<1>1. CASE AgentOpens \/ AgentSets \/ AgentSetsMode \/ AgentRefuses \/ AgentChanges
  BY <1>1, OpensKeeps, SetsKeeps, SetsModeKeeps, RefusesKeeps, ChangesKeeps
<1>2. CASE ReadState \/ ReadReply \/ Sends \/ TakeReply \/ TimesOut \/ Save \/ Publish
          \/ ClearSaved
  BY <1>2, ReadStateKeeps, ReadReplyKeeps, SendsKeeps, TakeReplyKeeps, TimesOutKeeps, SaveKeeps,
     PublishKeeps, ClearSavedKeeps
<1>3. CASE Start \/ Opened \/ OpenFails \/ ApplyNext \/ Applied \/ ApplyFails \/ PublishReads
          \/ PublishAppends
  BY <1>3, StartKeeps, OpenedKeeps, DiesKeeps, ApplyNextKeeps, AppliedKeeps, ApplyFailsKeeps,
     PublishReadsKeeps, PublishAppendsKeeps
<1>4. CASE AskConfig \/ AskMode \/ TurnBegins \/ TurnEnds \/ GivesUp \/ Dies \/ HubDies
  BY <1>4, AskingKeeps, DiesKeeps
<1>5. CASE UNCHANGED soVars
  BY <1>5 DEF soVars, link, copies, SoInv, Typed, SoTypeOK, Phases, OneAwaited, OwnAnswer,
     PublishesAlone,
     ResetIsGenuine, InStep, Uncrossed, HandHolds, LastWord, SnapHolds, PublishHolds, LogHolds,
             SavedHolds,
     Tells, InHandOf, AwaitedRequest, AwaitedAnswer, IsAnswer, Asked
<1>. QED BY <1>1, <1>2, <1>3, <1>4, <1>5 DEF SoNext

\* Whatever the agent advertises, changes unasked or refuses, through starts that apply
\* what is saved, timeouts and deaths: once nothing is under way the four copies of the
\* options and of the mode agree, and a user is asked to reset an option only if the agent
\* does not take it; by the invariant of who awaits what and where the answer is
\* (session/mod.rs:505-577, 1318-1360, acp/mod.rs:704-766).
THEOREM OptionsHoldAlways == OptionsSpec => []OptionsHold
BY SoInitial, OptionsStep, SoInvSays, PTL DEF OptionsSpec

-----------------------------------------------------------------------------
(* McpServers.  The row of a server, and the edits of its secrets: what    *)
(* the first edits of a form leave is what the form has said so far.       *)

McSpec == McInit /\ [][McNext]_mcVars

SecretField == [name : Secret, value : Word \cup {""}]
HeldOf(secrets, n) == {v \in Word \cup {""} : Field(n, v) \in secrets}

\* What was stored has passed the check of the form.
TargetChecked == server # NoField => ValidTarget(server.target)

McInv == ServersHold /\ TargetChecked

\* Of a non-empty set of numbers one is the least: how induction is done here.
LEMMA LeastNumber == ASSUME NEW T, T \subseteq Nat, T # {} PROVE \E n \in T : \A m \in T : n <= m
<1>1. IsWellFoundedOn(OpToRel(<, Nat), Nat)
  BY NatLessThanWellFounded
<1>2. PICK n \in T : \A m \in T : ~(<<m, n>> \in OpToRel(<, Nat))
  BY <1>1, WFMin
<1>3. \A m \in T : ~(m < n)
  BY <1>2 DEF OpToRel
<1> QED BY <1>3

\* f is the table of what the first n edits leave.
EditsUpto(f, secrets, inputs, n) ==
    f = [i \in 0 .. n |-> IF i = 0 THEN Edited("ok", secrets)
                          ELSE EditSecret(f[i - 1], inputs[i])]

LEMMA EditsExist ==
    ASSUME NEW secrets, NEW inputs, NEW n \in Nat PROVE \E f : EditsUpto(f, secrets, inputs, n)
<1> DEFINE First == Edited("ok", secrets)
<1> DEFINE Bad == {m \in Nat : ~ \E f : EditsUpto(f, secrets, inputs, m)}
<1>1. SUFFICES ASSUME Bad # {} PROVE FALSE
  OBVIOUS
<1>2. PICK m \in Bad : \A k \in Bad : m <= k
  BY <1>1, LeastNumber
<1>3. m # 0
  <2>1. EditsUpto([i \in 0 .. 0 |-> First], secrets, inputs, 0)
    BY DEF EditsUpto
  <2> QED BY <2>1
<1>4. m - 1 \in Nat /\ m - 1 \notin Bad
  BY <1>2, <1>3
<1>5. PICK f : EditsUpto(f, secrets, inputs, m - 1)
  BY <1>4
<1> DEFINE g == [i \in 0 .. m |-> IF i < m THEN f[i] ELSE EditSecret(f[m - 1], inputs[m])]
<1>6. EditsUpto(g, secrets, inputs, m)
  <2>1. \A i \in 0 .. m : g[i] = IF i = 0 THEN First ELSE EditSecret(g[i - 1], inputs[i])
    <3> TAKE i \in 0 .. m
    <3>1. CASE i = 0
      BY <1>3, <1>5, <3>1 DEF EditsUpto
    <3>2. CASE i # 0 /\ i < m
      <4>1. i \in 0 .. m - 1 /\ i - 1 \in 0 .. m /\ i - 1 < m
        BY <3>2
      <4>2. f[i] = EditSecret(f[i - 1], inputs[i])
        BY <1>5, <3>2, <4>1 DEF EditsUpto
      <4> QED BY <3>2, <4>1, <4>2
    <3>3. CASE i = m
      <4>1. m - 1 \in 0 .. m /\ m - 1 < m
        BY <1>3
      <4> QED BY <1>3, <3>3, <4>1
    <3> QED BY <3>1, <3>2, <3>3
  <2> HIDE DEF g
  <2>2. g = [i \in 0 .. m |-> g[i]]
    BY DEF g
  <2> QED BY <2>1, <2>2 DEF EditsUpto
<1> QED BY <1>2, <1>6

\* What EditSecrets is made of.
LEMMA EditsTable ==
    ASSUME NEW secrets, NEW inputs, Len(inputs) \in Nat
    PROVE  \E f : EditsUpto(f, secrets, inputs, Len(inputs)) /\ EditSecrets(secrets, inputs) = f[Len(inputs)]
<1> DEFINE f == CHOOSE f : f = [i \in 0 .. Len(inputs) |->
                    IF i = 0 THEN Edited("ok", secrets)
                    ELSE EditSecret(f[i - 1], inputs[i])]
<1>1. \E g : g = [i \in 0 .. Len(inputs) |->
                    IF i = 0 THEN Edited("ok", secrets)
                    ELSE EditSecret(g[i - 1], inputs[i])]
  <2>1. PICK g : EditsUpto(g, secrets, inputs, Len(inputs))
    BY EditsExist
  <2> QED BY <2>1 DEF EditsUpto
<1>2. f = [i \in 0 .. Len(inputs) |->
                    IF i = 0 THEN Edited("ok", secrets)
                    ELSE EditSecret(f[i - 1], inputs[i])]
  BY <1>1
<1>3. EditSecrets(secrets, inputs) = f[Len(inputs)]
  BY DEF EditSecrets
<1> HIDE DEF f
<1> QED BY <1>2, <1>3 DEF EditsUpto

\* What the first m entries of a form have said of a secret.
AboutIt(inputs, n, m) ==
    {i \in DOMAIN inputs : i <= m /\ inputs[i].name = n /\ inputs[i].action # "keep"}
SaidSoFar(inputs, n, m) ==
    IF AboutIt(inputs, n, m) = {} THEN given[n]
    ELSE IF inputs[Max(AboutIt(inputs, n, m))].action = "remove" THEN {}
    ELSE {inputs[Max(AboutIt(inputs, n, m))].value}

\* The next entry has the last word if it has one.
LEMMA NextWord ==
    ASSUME NEW inputs \in Seq(SecretInput), NEW m \in 1 .. Len(inputs), NEW n
    PROVE  SaidSoFar(inputs, n, m) =
               IF inputs[m].name # n \/ inputs[m].action = "keep" THEN SaidSoFar(inputs, n, m - 1)
               ELSE IF inputs[m].action = "remove" THEN {} ELSE {inputs[m].value}
<1>1. CASE inputs[m].name # n \/ inputs[m].action = "keep"
  <2>1. AboutIt(inputs, n, m) = AboutIt(inputs, n, m - 1)
    BY <1>1 DEF AboutIt
  <2> QED BY <1>1, <2>1 DEF SaidSoFar
<1>2. CASE inputs[m].name = n /\ inputs[m].action # "keep"
  <2>1. m \in AboutIt(inputs, n, m) /\ AboutIt(inputs, n, m) \subseteq Nat
        /\ \A i \in AboutIt(inputs, n, m) : m >= i
    BY <1>2 DEF AboutIt
  <2>2. Max(AboutIt(inputs, n, m)) = m
    BY <2>1 DEF Max
  <2> QED BY <1>2, <2>1, <2>2 DEF SaidSoFar
<1> QED BY <1>1, <1>2

\* What is left when an entry is applied to a row.
EditedBy(next, held, x) ==
    /\ next = [is |-> next.is, secrets |-> next.secrets]
    /\ next.is \in {"ok", "refused"} /\ next.secrets \subseteq SecretField
    /\ next.is = "ok" =>
        \A n \in Secret : HeldOf(next.secrets, n) =
            IF x.name # n \/ x.action = "keep" THEN HeldOf(held.secrets, n)
            ELSE IF x.action = "remove" THEN {} ELSE {x.value}

\* One edit does to what is held of each secret what its entry says.
LEMMA EditDoes ==
    ASSUME NEW held, held = [is |-> held.is, secrets |-> held.secrets], held.is = "ok",
           held.secrets \subseteq SecretField, NEW x \in SecretInput, ValidSecret(x)
    PROVE  EditedBy(EditSecret(held, x), held, x)
<1> DEFINE next == EditSecret(held, x)
<1> DEFINE others == {s \in held.secrets : s.name # x.name}
<1>1. x.action \in {"replace", "keep", "remove"} /\ x.name \in Secret
  BY DEF SecretInput, ValidSecret
<1>2. others \subseteq SecretField
  OBVIOUS
<1>3. \A n \in Secret : HeldOf(others, n) = IF n = x.name THEN {} ELSE HeldOf(held.secrets, n)
  BY DEF HeldOf, Field
<1>4. CASE x.action = "keep"
  <2>1. next = Edited(IF others = held.secrets THEN "refused" ELSE "ok", held.secrets)
    BY <1>4 DEF EditSecret
  <2>2. next = [is |-> next.is, secrets |-> held.secrets] /\ next.is \in {"ok", "refused"}
    BY <2>1 DEF Edited
  <2> QED BY <1>4, <2>2 DEF EditedBy
<1>5. CASE x.action = "remove"
  <2>1. next = Edited("ok", others)
    BY <1>5 DEF EditSecret
  <2>2. next = [is |-> "ok", secrets |-> others]
    BY <2>1 DEF Edited
  <2> QED BY <1>1, <1>2, <1>3, <1>5, <2>2 DEF EditedBy
<1>6. CASE x.action = "replace"
  <2> DEFINE more == others \cup {Field(x.name, x.value)}
  <2>1. x.value \in Word /\ x.value # NoField
    BY <1>6 DEF ValidSecret, SecretInput
  <2>2. next = Edited("ok", more)
    BY <1>6, <2>1 DEF EditSecret
  <2>3. next = [is |-> "ok", secrets |-> more]
    BY <2>2 DEF Edited
  <2>4. more \subseteq SecretField
    <3>1. Field(x.name, x.value) \in SecretField
      BY <1>1, <2>1 DEF SecretField, Field
    <3> QED BY <1>2, <3>1
  <2>5. \A n \in Secret : HeldOf(more, n) = IF n = x.name THEN {x.value} ELSE HeldOf(held.secrets, n)
    <3>1. \A n \in Secret : HeldOf(more, n) =
              HeldOf(others, n) \cup IF n = x.name THEN {x.value} ELSE {}
      BY <2>1 DEF HeldOf, Field
    <3> QED BY <1>3, <3>1
  <2> HIDE DEF more
  <2> QED BY <1>6, <2>3, <2>4, <2>5 DEF EditedBy
<1> HIDE DEF next, others
<1> QED BY <1>1, <1>4, <1>5, <1>6 DEF next

LEMMA FormOfSecrets ==
    ASSUME NEW inputs \in ValidSecrets
    PROVE  /\ inputs \in Seq(SecretInput) /\ DOMAIN inputs = 1 .. Len(inputs)
           /\ \A i \in DOMAIN inputs : inputs[i] \in SecretInput /\ ValidSecret(inputs[i])
<1>1. PICK m \in 0 .. 2 : inputs \in [1 .. m -> SecretInput]
  BY DEF ValidSecrets, SeqOf
<1>2. inputs \in Seq(SecretInput)
  BY <1>1, IsASeq
<1> QED BY <1>2 DEF ValidSecrets

\* Edits leave of each secret what the form said last, or the request is refused.
LEMMA EditsDo ==
    ASSUME NEW secrets \in SUBSET SecretField, NEW inputs \in ValidSecrets,
           \A n \in Secret : HeldOf(secrets, n) = given[n]
    PROVE  LET edited == EditSecrets(secrets, inputs) IN
           /\ edited.is \in {"ok", "refused"} /\ edited.secrets \subseteq SecretField
           /\ edited.is = "ok" => \A n \in Secret : HeldOf(edited.secrets, n) = SaidLast(inputs, n)
<1>1. inputs \in Seq(SecretInput) /\ DOMAIN inputs = 1 .. Len(inputs) /\ Len(inputs) \in Nat
      /\ \A i \in DOMAIN inputs : inputs[i] \in SecretInput /\ ValidSecret(inputs[i])
  BY FormOfSecrets
<1>2. PICK f : EditsUpto(f, secrets, inputs, Len(inputs)) /\ EditSecrets(secrets, inputs) = f[Len(inputs)]
  BY <1>1, EditsTable
<1> DEFINE Good(n) ==
      /\ f[n] = [is |-> f[n].is, secrets |-> f[n].secrets]
      /\ f[n].is \in {"ok", "refused"} /\ f[n].secrets \subseteq SecretField
      /\ f[n].is = "ok" => \A s \in Secret : HeldOf(f[n].secrets, s) = SaidSoFar(inputs, s, n)
<1> DEFINE Bad == {n \in 0 .. Len(inputs) : ~Good(n)}
<1>3. Bad = {}
  <2>1. SUFFICES ASSUME Bad # {} PROVE FALSE
    OBVIOUS
  <2>2. PICK n \in Bad : \A m \in Bad : n <= m
    <3>1. Bad \subseteq Nat
      OBVIOUS
    <3> HIDE DEF Bad
    <3> QED BY <2>1, <3>1, LeastNumber
  <2>3. n # 0
    <3>1. f[0] = [is |-> "ok", secrets |-> secrets]
      BY <1>1, <1>2 DEF EditsUpto, Edited
    <3>2. \A s : AboutIt(inputs, s, 0) = {}
      BY <1>1 DEF AboutIt
    <3>3. \A s : SaidSoFar(inputs, s, 0) = given[s]
      BY <3>2 DEF SaidSoFar
    <3>4. Good(0)
      BY <3>1, <3>3
    <3> QED BY <3>4
  <2>4. n \in 1 .. Len(inputs) /\ n - 1 \in 0 .. Len(inputs) /\ Good(n - 1)
    <3>1. n \in 0 .. Len(inputs)
      BY <2>2
    <3>2. n - 1 \notin Bad
      <4> HIDE DEF Bad
      <4> QED BY <1>1, <2>2, <3>1
    <3>3. n - 1 \in 0 .. Len(inputs)
      BY <1>1, <2>3, <3>1
    <3> QED BY <1>1, <2>3, <3>1, <3>2, <3>3
  <2>5. f[n] = EditSecret(f[n - 1], inputs[n])
    BY <1>1, <1>2, <2>4 DEF EditsUpto
  <2>6. CASE f[n - 1].is # "ok"
    <3>1. f[n] = f[n - 1]
      BY <2>5, <2>6 DEF EditSecret
    <3>2. Good(n)
      BY <2>4, <2>6, <3>1
    <3> QED BY <2>2, <3>2
  <2>7. CASE f[n - 1].is = "ok"
    <3> DEFINE held == f[n - 1]
               x == inputs[n]
    <3>1. x \in SecretInput /\ ValidSecret(x)
      BY <1>1, <2>4
    <3>2. held = [is |-> held.is, secrets |-> held.secrets] /\ held.secrets \subseteq SecretField
          /\ \A s \in Secret : HeldOf(held.secrets, s) = SaidSoFar(inputs, s, n - 1)
      BY <2>4, <2>7
    <3>3. EditedBy(f[n], held, x)
      <4>1. EditedBy(EditSecret(held, x), held, x)
        <5>1. held.is = "ok"
          BY <2>7
        <5> HIDE DEF held, x
        <5> QED BY <3>1, <3>2, <5>1, EditDoes
      <4> QED BY <2>5, <4>1
    <3>4. \A s \in Secret : SaidSoFar(inputs, s, n) =
               IF x.name # s \/ x.action = "keep" THEN SaidSoFar(inputs, s, n - 1)
               ELSE IF x.action = "remove" THEN {} ELSE {x.value}
      BY <1>1, <2>4, NextWord
    <3> HIDE DEF held, x
    <3>5. ASSUME f[n].is = "ok", NEW s \in Secret
          PROVE  HeldOf(f[n].secrets, s) = SaidSoFar(inputs, s, n)
      <4>1. HeldOf(f[n].secrets, s) =
                IF x.name # s \/ x.action = "keep" THEN HeldOf(held.secrets, s)
                ELSE IF x.action = "remove" THEN {} ELSE {x.value}
        BY <3>3, <3>5 DEF EditedBy
      <4>2. HeldOf(held.secrets, s) = SaidSoFar(inputs, s, n - 1)
        BY <3>2
      <4> QED BY <3>4, <4>1, <4>2
    <3>6. Good(n)
      BY <3>3, <3>5 DEF EditedBy
    <3> QED BY <2>2, <3>6
  <2> QED BY <2>6, <2>7
<1>4. Good(Len(inputs))
  BY <1>1, <1>3
<1>5. \A s : AboutIt(inputs, s, Len(inputs)) =
          {i \in DOMAIN inputs : inputs[i].name = s /\ inputs[i].action # "keep"}
  BY <1>1 DEF AboutIt
<1>6. \A s : SaidSoFar(inputs, s, Len(inputs)) = SaidLast(inputs, s)
  BY <1>5 DEF SaidSoFar, SaidLast
<1> QED BY <1>2, <1>4, <1>6

LEMMA McStarts == McInit => McInv
<1> SUFFICES ASSUME McInit PROVE McInv
  OBVIOUS
<1>1. server = NoField /\ started.is = "nothing" /\ forms = 0
  BY DEF McInit, Outcome
<1>2. given \in [Secret -> SUBSET (Word \cup {""})]
  BY DEF McInit
<1>3. forms \in 0 .. MaxForms
  <2>1. MaxForms \in Nat
    BY ServersAssumption
  <2> QED BY <1>1, <2>1
<1> QED BY <1>1, <1>2, <1>3 DEF McInv, ServersHold, McTypeOK, AcceptedStarts, SecretsAsTold,
        TargetChecked

LEMMA OneMoreForm ==
    ASSUME forms \in 0 .. MaxForms, forms < MaxForms PROVE forms + 1 \in 0 .. MaxForms
<1>1. MaxForms \in Nat
  BY ServersAssumption
<1> QED BY <1>1

LEMMA RowStored ==
    ASSUME McInv, NEW target \in Target, ValidTarget(target), NEW secrets, Stores(target, secrets),
           secrets \subseteq SecretField, forms < MaxForms,
           given' \in [Secret -> SUBSET (Word \cup {""})],
           \A n \in Secret : HeldOf(secrets, n) = given'[n]
    PROVE  McInv'
<1>1. server' = [target |-> target, secrets |-> secrets] /\ started' = started /\ forms' = forms + 1
  BY DEF Stores
<1>2. server' \in [target : Target, secrets : SUBSET SecretField]
  BY <1>1
<1>3. McTypeOK'
  <2>1. forms' \in 0 .. MaxForms
    <3>1. forms \in 0 .. MaxForms
      BY DEF McInv, ServersHold, McTypeOK
    <3>2. forms + 1 \in 0 .. MaxForms
      BY <3>1, OneMoreForm
    <3> QED BY <1>1, <3>2
  <2>2. started'.is \in {"nothing", "started", "failed", "panicked"}
    BY <1>1 DEF McInv, ServersHold, McTypeOK
  <2> QED BY <1>2, <2>1, <2>2 DEF McTypeOK, SecretField
<1>4. SecretsAsTold'
  BY <1>1 DEF SecretsAsTold, HeldOf
<1>5. AcceptedStarts' /\ TargetChecked'
  BY <1>1 DEF McInv, ServersHold, AcceptedStarts, TargetChecked
<1> QED BY <1>3, <1>4, <1>5 DEF McInv, ServersHold

LEMMA ServerCreated == ASSUME McInv, NEW target \in Target, CreateServer(target) PROVE McInv'
<1>1. PICK inputs \in ValidSecrets :
        LET valued == {input \in Range(inputs) : input.value # NoField} IN
        /\ Stores(target, {Field(input.name, input.value) : input \in valued})
        /\ given' = [n \in Secret |-> {input.value : input \in {x \in valued : x.name = n}}]
  BY DEF CreateServer
<1> DEFINE valued == {input \in Range(inputs) : input.value # NoField}
           secrets == {Field(input.name, input.value) : input \in valued}
<1>2. \A x \in valued : x.name \in Secret /\ x.value \in Word \cup {""}
  BY FormOfSecrets DEF Range, SecretInput, ValidSecret
<1>3. given' = [n \in Secret |-> {input.value : input \in {x \in valued : x.name = n}}]
      /\ Stores(target, secrets)
  BY <1>1
<1> HIDE DEF valued
<1>4. secrets \subseteq SecretField
  <2>1. \A x \in valued : Field(x.name, x.value) \in SecretField
    BY <1>2 DEF SecretField, Field
  <2> QED BY <2>1
<1>5. given' \in [Secret -> SUBSET (Word \cup {""})]
  BY <1>2, <1>3
<1>6. \A n \in Secret : HeldOf(secrets, n) = given'[n]
  <2> TAKE n \in Secret
  <2>1. given'[n] = {input.value : input \in {x \in valued : x.name = n}}
    BY <1>3
  <2>2. ASSUME NEW v \in HeldOf(secrets, n) PROVE v \in given'[n]
    <3>1. PICK x \in valued : Field(n, v) = Field(x.name, x.value)
      BY <2>2 DEF HeldOf
    <3>2. x.name = n /\ x.value = v
      BY <3>1 DEF Field
    <3> QED BY <2>1, <3>2
  <2>3. ASSUME NEW v \in given'[n] PROVE v \in HeldOf(secrets, n)
    <3>1. PICK x \in valued : x.name = n /\ v = x.value
      BY <2>1
    <3> QED BY <1>2, <3>1 DEF HeldOf
  <2> QED BY <2>2, <2>3
<1> HIDE DEF secrets
<1> QED BY <1>3, <1>4, <1>5, <1>6, RowStored DEF CreateServer

LEMMA ServerEdited == ASSUME McInv, NEW target \in Target, EditServer(target) PROVE McInv'
<1>1. PICK inputs \in ValidSecrets :
        /\ EditSecrets(server.secrets, inputs).is # "refused"
        /\ EditSecrets(server.secrets, inputs).is = "ok" =>
               /\ Stores(target, EditSecrets(server.secrets, inputs).secrets)
               /\ given' = [n \in Secret |-> SaidLast(inputs, n)]
  BY DEF EditServer
<1> DEFINE edited == EditSecrets(server.secrets, inputs)
<1>2. server.secrets \in SUBSET SecretField /\ \A n \in Secret : HeldOf(server.secrets, n) = given[n]
  BY DEF EditServer, McInv, ServersHold, McTypeOK, SecretsAsTold, HeldOf, SecretField
<1>3. /\ edited.is \in {"ok", "refused"} /\ edited.secrets \subseteq SecretField
      /\ edited.is = "ok" => \A n \in Secret : HeldOf(edited.secrets, n) = SaidLast(inputs, n)
  BY <1>2, EditsDo
<1> HIDE DEF edited
<1>4. Stores(target, edited.secrets) /\ given' = [n \in Secret |-> SaidLast(inputs, n)]
      /\ \A n \in Secret : HeldOf(edited.secrets, n) = SaidLast(inputs, n)
  <2>1. edited.is # "refused" /\ (edited.is = "ok" =>
            Stores(target, edited.secrets) /\ given' = [n \in Secret |-> SaidLast(inputs, n)])
    BY <1>1 DEF edited
  <2>2. edited.is = "ok"
    BY <1>3, <2>1
  <2> QED BY <1>3, <2>1, <2>2
<1>5. given' \in [Secret -> SUBSET (Word \cup {""})]
  BY <1>4 DEF HeldOf
<1>6. \A n \in Secret : HeldOf(edited.secrets, n) = given'[n]
  BY <1>4
<1>7. forms < MaxForms /\ ValidTarget(target)
  BY DEF EditServer
<1> QED BY <1>3, <1>4, <1>5, <1>6, <1>7, RowStored

LEMMA ServerDeleted == McInv /\ DeleteServer => McInv'
BY ServersAssumption DEF McInv, ServersHold, McTypeOK, AcceptedStarts, SecretsAsTold,
        TargetChecked, DeleteServer

LEMMA ServerStarted == ASSUME McInv, StartServer PROVE McInv'
<1>1. server.target \in Target /\ ValidTarget(server.target)
  BY DEF StartServer, McInv, ServersHold, McTypeOK, TargetChecked
<1>2. started'.is = "started"
  BY <1>1, ServersAssumption DEF StartServer, ValidTarget, Target, Outcome
<1> QED BY <1>2 DEF StartServer, McInv, ServersHold, McTypeOK, AcceptedStarts, SecretsAsTold,
        TargetChecked

\* Whatever forms are accepted, an agent starts with its servers and no request panics,
\* and of each secret a server has the values that the forms said last: its row has
\* passed the check of a form, and edits go from first to last
\* (service/chats.rs:40-92, 180-246, acp/mod.rs:1019-1085).
THEOREM ServersHoldAlways == McSpec => []ServersHold
<1>1. McInit => McInv
  BY McStarts
<1>2. McInv /\ [McNext]_mcVars => McInv'
  <2>1. McInv /\ UNCHANGED mcVars => McInv'
    BY DEF mcVars, McInv, ServersHold, McTypeOK, AcceptedStarts, SecretsAsTold,
        TargetChecked
  <2> QED BY <2>1, ServerCreated, ServerEdited, ServerDeleted, ServerStarted DEF McNext
<1>3. McInv => ServersHold
  BY DEF McInv
<1> QED BY <1>1, <1>2, <1>3, PTL DEF McSpec

-----------------------------------------------------------------------------
(* The MCP servers of a chat, in columns that SQLite keeps unique, and its *)
(* additional roots.  A deletion closes the gaps row by row; a reordering  *)
(* goes through a range that starts behind the JSON positions, which is    *)
(* behind the columns too unless the hub died amid a deletion.             *)

CsSpec == CsInit /\ [][CsNext]_csVars

\* What a request has read: a row it will make is not there, nobody else has it in hand,
\* and a position that an edit carries along is still the one the page sees.
TodoFits ==
    /\ todo \in [Editor -> [step : {"idle", "create", "edit", "roots", "project"}, server : Server \cup {NoServer},
                            pos : 0 .. Cardinality(Server), want : SUBSET Other, gone : Other \cup {NoProject}]]
    /\ \A e \in Editor :
        /\ todo[e].step \in {"create", "edit"} <=> todo[e].server # NoServer
        /\ todo[e].step = "create" =>
            /\ todo[e].server \notin Rows /\ todo[e].pos < Cardinality(Server)
            /\ \A other \in Editor : other # e => todo[other].server # todo[e].server
        /\ todo[e].step = "edit" /\ todo[e].server \in Rows => todo[e].pos = shown[todo[e].server]

CsInv == CsTypeOK /\ TodoFits /\ Unique(at) /\ RootsAreProjects

\* No column is beyond both the number of rows and the JSON position of its row.
Compact == \A s \in Rows : at[s] < Cardinality(Rows) \/ at[s] <= shown[s]

LEMMA ServersCount ==
    /\ Cardinality(Server) \in Nat
    /\ \A some \in SUBSET Server : IsFiniteSet(some) /\ Cardinality(some) \in 0 .. Cardinality(Server)
BY SetupAssumption, FS_CardinalityType, FS_Subset

\* The rank of a row: below the number of rows, no larger than its column, the column's order.
LEMMA RankIs ==
    ASSUME CsInv, NEW left \in SUBSET Rows, NEW s \in left
    PROVE  /\ Rank(left, s) \in Nat /\ Rank(left, s) < Cardinality(left)
           /\ Rank(left, s) <= at[s]
           /\ \A t \in left : t # s => Rank(left, t) # Rank(left, s)
<1> DEFINE Before(x) == {t \in left : at[t] < at[x]}
<1>1. IsFiniteSet(left) /\ Cardinality(left) \in Nat
  BY ServersCount, FS_CardinalityType DEF Rows
<1>2. \A x : Before(x) \in SUBSET left
  OBVIOUS
<1>3. \A t \in left : at[t] \in Nat
  BY DEF Rows, CsInv, CsTypeOK
<1>4. ASSUME NEW x \in left, NEW y \in left, at[x] < at[y]
      PROVE  Rank(left, x) < Rank(left, y)
  <2>1. Before(x) \in SUBSET Before(y) /\ x \in Before(y) /\ x \notin Before(x)
    BY <1>3, <1>4
  <2> DEFINE B == Before(y)
             A == Before(x)
  <2> HIDE DEF A, B
  <2>2. IsFiniteSet(B)
    BY <1>1, <1>2, FS_Subset DEF B
  <2>3. A \in SUBSET B /\ A # B
    BY <2>1 DEF A, B
  <2>4. Cardinality(A) <= Cardinality(B) /\ Cardinality(A) # Cardinality(B)
    BY <2>2, <2>3, FS_Subset
  <2>5. Cardinality(A) \in Nat /\ Cardinality(B) \in Nat
    BY <2>2, <2>3, FS_Subset, FS_CardinalityType
  <2>6. Rank(left, x) = Cardinality(A) /\ Rank(left, y) = Cardinality(B)
    BY DEF Rank, A, B
  <2> QED BY <2>4, <2>5, <2>6
<1>5. Rank(left, s) \in Nat /\ Rank(left, s) < Cardinality(left)
  <2> DEFINE B == Before(s)
  <2>1. B \in SUBSET left /\ B # left
    BY <1>3
  <2> HIDE DEF B
  <2>2. Cardinality(B) \in Nat /\ Cardinality(B) <= Cardinality(left) /\ Cardinality(B) # Cardinality(left)
    BY <1>1, <2>1, FS_Subset, FS_CardinalityType
  <2>3. Rank(left, s) = Cardinality(B)
    BY DEF Rank, B
  <2> QED BY <1>1, <2>2, <2>3
<1>6. Rank(left, s) <= at[s]
  <2> DEFINE B == Before(s)
             N == 0 .. at[s] - 1
             col == [t \in B |-> at[t]]
  <2>1. \A t \in B : at[t] \in N
    BY <1>3
  <2>2. \A t, u \in B : at[t] = at[u] => t = u
    BY DEF CsInv, Unique
  <2>3. Rank(left, s) = Cardinality(B)
    BY DEF Rank
  <2>4. at[s] \in Nat
    BY <1>3
  <2>5. IsFiniteSet(N) /\ Cardinality(N) = at[s]
    <3> DEFINE last == at[s] - 1
    <3>1. last \in Int /\ last >= -1 /\ at[s] = last + 1
      BY <2>4
    <3> HIDE DEF last
    <3>2. IsFiniteSet(0 .. last) /\ Cardinality(0 .. last) = IF 0 > last THEN 0 ELSE last - 0 + 1
      BY <3>1, FS_Interval
    <3>3. Cardinality(0 .. last) = last + 1
      BY <3>1, <3>2
    <3> QED BY <3>1, <3>2, <3>3 DEF last
  <2> HIDE DEF B, N
  <2>6. col \in Injection(B, N)
    BY <2>1, <2>2 DEF Injection, IsInjective
  <2>7. Cardinality(B) <= Cardinality(N)
    <3> HIDE DEF col
    <3> QED BY <2>5, <2>6, FS_Injection
  <2> QED BY <2>3, <2>5, <2>7
<1>7. \A t \in left : t # s => at[t] < at[s] \/ at[s] < at[t]
  BY <1>3 DEF CsInv, Unique
<1>8. \A t \in left : Rank(left, t) \in Int
  <2> SUFFICES ASSUME NEW t \in left PROVE Rank(left, t) \in Int
    OBVIOUS
  <2> DEFINE B == Before(t)
  <2>1. B \in SUBSET left
    OBVIOUS
  <2>2. Rank(left, t) = Cardinality(B)
    BY DEF Rank
  <2> HIDE DEF B
  <2> QED BY <1>1, <2>1, <2>2, FS_Subset, FS_CardinalityType
<1>9. \A t \in left : t # s => Rank(left, t) # Rank(left, s)
  BY <1>4, <1>7, <1>8
<1> QED BY <1>5, <1>6, <1>9

\* However far a deletion gets, no two rows have one column: no update of it is refused.
LEMMA RenumberedFits ==
    ASSUME CsInv, NEW s \in Rows, NEW n \in 0 .. Cardinality(Rows) - 1,
           at' = Renumbered(Rows \ {s}, n), shown' = [shown EXCEPT ![s] = 0]
    PROVE  /\ Rows' = Rows \ {s}
           /\ at' \in [Server -> -1 .. Cardinality(Server)] /\ shown' \in [Server -> 0 .. Cardinality(Server)]
           /\ Unique(at)'
           /\ n = Cardinality(Rows) - 1 => Compact'
<1> DEFINE left == Rows \ {s}
<1>1. left \in SUBSET Rows /\ left \in SUBSET Server
  BY DEF Rows
<1>2. Cardinality(left) = Cardinality(Rows) - 1 /\ Cardinality(left) \in 0 .. Cardinality(Server)
  BY <1>1, ServersCount, FS_RemoveElement DEF Rows
<1>3. at' = Renumbered(left, n)
  OBVIOUS
<1> HIDE DEF left
<1>4. \A t \in left : Rank(left, t) \in Nat /\ Rank(left, t) < Cardinality(left) /\ Rank(left, t) <= at[t]
  BY <1>1, RankIs
<1>5. \A t, u \in left : Rank(left, t) = Rank(left, u) => t = u
  BY <1>1, RankIs
<1>6. \A t \in left : at[t] \in 0 .. Cardinality(Server)
  BY <1>1, ServersCount DEF Rows, CsInv, CsTypeOK
<1>7. \A t \in Server : at'[t] = IF t \notin left THEN -1 ELSE IF Rank(left, t) < n THEN Rank(left, t) ELSE at[t]
  BY <1>3 DEF Renumbered
<1>8. \A t \in left : at'[t] \in 0 .. Cardinality(Server)
  <2> SUFFICES ASSUME NEW t \in left PROVE at'[t] \in 0 .. Cardinality(Server)
    OBVIOUS
  <2> DEFINE rank == Rank(left, t)
             N == Cardinality(Server)
  <2>1. rank \in Nat /\ rank <= at[t] /\ at[t] \in 0 .. N /\ N \in Nat
    BY <1>4, <1>6, ServersCount
  <2>2. at'[t] = rank \/ at'[t] = at[t]
    BY <1>1, <1>7
  <2> HIDE DEF rank, N
  <2>3. at'[t] \in 0 .. N
    BY <2>1, <2>2
  <2> QED BY <2>3 DEF N
<1>9. at' \in [Server -> -1 .. Cardinality(Server)]
  <2> DEFINE N == Cardinality(Server)
  <2>1. N \in Nat /\ \A t \in left : at'[t] \in 0 .. N
    BY <1>8, ServersCount
  <2>2. \A t \in Server : t \notin left => at'[t] = -1
    BY <1>7
  <2>3. at' = [t \in Server |-> at'[t]]
    BY <1>3 DEF Renumbered
  <2> HIDE DEF N
  <2>4. \A t \in Server : at'[t] \in -1 .. N
    BY <2>1, <2>2
  <2>5. at' \in [Server -> -1 .. N]
    BY <2>3, <2>4
  <2> QED BY <2>5 DEF N
<1>10. Rows' = left
  BY <1>1, <1>7, <1>8 DEF Rows
<1>11. shown' \in [Server -> 0 .. Cardinality(Server)]
  <2> DEFINE N == Cardinality(Server)
  <2>1. N \in Nat /\ shown \in [Server -> 0 .. N]
    BY ServersCount DEF CsInv, CsTypeOK
  <2> HIDE DEF N
  <2>2. 0 \in 0 .. N
    BY <2>1
  <2>3. shown' \in [Server -> 0 .. N]
    BY <2>1, <2>2
  <2> QED BY <2>3 DEF N
<1>12. Unique(at)'
  <2> SUFFICES ASSUME NEW t \in left, NEW u \in left, at'[t] = at'[u] PROVE t = u
    BY <1>10 DEF Unique
  <2>1. t \in Server /\ u \in Server /\ t \in Rows /\ u \in Rows
    BY <1>1
  <2>2. at[t] = at[u] => t = u
    BY <2>1 DEF CsInv, Unique
  <2>3. Cardinality(Rows) \in Nat
    BY ServersCount DEF Rows
  <2>4. n \in Nat
    BY <2>3
  <2> DEFINE i == Rank(left, t)
             j == Rank(left, u)
  <2>5. i \in Nat /\ j \in Nat /\ i <= at[t] /\ j <= at[u] /\ at[t] \in Nat /\ at[u] \in Nat
    BY <1>4, <1>6
  <2>6. i = j => t = u
    BY <1>5
  <2>7. at'[t] = (IF i < n THEN i ELSE at[t]) /\ at'[u] = (IF j < n THEN j ELSE at[u])
    BY <1>7, <2>1
  <2> HIDE DEF i, j
  <2> DEFINE ct == at[t]
             cu == at[u]
  <2>8. i \in Nat /\ j \in Nat /\ i <= ct /\ j <= cu /\ ct \in Nat /\ cu \in Nat /\ (ct = cu => t = u)
    BY <2>2, <2>5
  <2>9. (IF i < n THEN i ELSE ct) = (IF j < n THEN j ELSE cu)
    BY <2>7
  <2> HIDE DEF ct, cu
  <2>10. i = j \/ ct = cu
    BY <2>4, <2>8, <2>9
  <2> QED BY <2>6, <2>8, <2>10
<1>13. ASSUME n = Cardinality(Rows) - 1 PROVE Compact'
  <2>1. \A t \in left : at'[t] < Cardinality(left)
    BY <1>1, <1>2, <1>4, <1>7, <1>13
  <2> QED BY <1>10, <2>1 DEF Compact
<1> QED BY <1>9, <1>10, <1>11, <1>12, <1>13 DEF left

-----------------------------------------------------------------------------
(* An order of the rows                                                    *)

\* The first pass starts behind every JSON position, and behind every index.
LEMMA TempBaseIs ==
    ASSUME CsInv, NEW ids \in SetToSeqs(Rows)
    PROVE  /\ TempBase(ids) \in Nat /\ TempBase(ids) >= Len(ids)
           /\ \A i \in DOMAIN ids : shown[ids[i]] + Len(ids) < TempBase(ids)
<1> DEFINE N == Cardinality(Server)
           seen == {shown[ids[i]] : i \in DOMAIN ids} \cup {-1}
           away == {N - n : n \in seen}
<1>1. N \in Nat /\ shown \in [Server -> 0 .. N] /\ Cardinality(Rows) \in Nat
  BY ServersCount DEF CsInv, CsTypeOK, Rows
<1>2. ids \in [1 .. Cardinality(Rows) -> Rows]
  BY DEF SetToSeqs
<1>3. ids \in Seq(Rows) /\ Len(ids) = Cardinality(Rows) /\ DOMAIN ids = 1 .. Len(ids)
  BY <1>1, <1>2
<1>4. \A i \in DOMAIN ids : shown[ids[i]] \in 0 .. N
  BY <1>1, <1>2 DEF Rows
<1>5. seen \subseteq -1 .. N /\ -1 \in seen
  BY <1>1, <1>4
<1> HIDE DEF N, seen
<1>6. away \subseteq Nat /\ away # {}
  <2>1. \A n \in seen : N - n \in Nat
    BY <1>1, <1>5
  <2> QED BY <1>5, <2>1
<1> HIDE DEF away
<1>7. PICK k \in away : \A m \in away : k <= m
  BY <1>6, LeastNumber
<1>8. PICK top \in seen : k = N - top
  BY <1>7 DEF away
<1>9. \A n \in seen : top >= n
  <2> SUFFICES ASSUME NEW n \in seen PROVE top >= n
    OBVIOUS
  <2>1. N - n \in away
    BY DEF away
  <2> QED BY <1>1, <1>5, <1>7, <1>8, <2>1
<1>10. Max(seen) \in seen /\ \A n \in seen : Max(seen) >= n
  BY <1>9 DEF Max
<1>11. TempBase(ids) = Max(seen) + Len(ids) + 1
  BY DEF TempBase, seen
<1>12. \A i \in DOMAIN ids : shown[ids[i]] \in seen
  BY DEF seen
<1> DEFINE highest == Max(seen)
<1> HIDE DEF highest
<1>13. highest \in seen /\ (\A n \in seen : highest >= n) /\ TempBase(ids) = highest + Len(ids) + 1
  BY <1>10, <1>11 DEF highest
<1>14. highest \in -1 .. N
  BY <1>5, <1>13
<1>15. highest \in Int /\ highest >= -1
  BY <1>1, <1>14
<1> QED BY <1>1, <1>3, <1>4, <1>12, <1>13, <1>15

\* An order names each row once.
LEMMA OrderIs ==
    ASSUME CsInv, NEW ids \in SetToSeqs(Rows)
    PROVE  /\ Len(ids) = Cardinality(Rows) /\ Len(ids) \in Nat /\ DOMAIN ids = 1 .. Len(ids)
           /\ \A s \in Rows : \E i \in DOMAIN ids : ids[i] = s
           /\ \A i, j \in DOMAIN ids : ids[i] = ids[j] => i = j
           /\ \A i \in DOMAIN ids : ids[i] \in Rows
<1>1. Cardinality(Rows) \in Nat /\ IsFiniteSet(Rows)
  BY ServersCount DEF Rows
<1>2. ids \in [1 .. Cardinality(Rows) -> Rows] /\ \A i, j \in DOMAIN ids : ids[i] = ids[j] => i = j
  BY DEF SetToSeqs
<1>3. Len(ids) = Cardinality(Rows) /\ DOMAIN ids = 1 .. Len(ids)
  BY <1>1, <1>2
<1> DEFINE N == 1 .. Cardinality(Rows)
<1>4. IsFiniteSet(N) /\ Cardinality(N) = Cardinality(Rows)
  BY <1>1, FS_Interval
<1> HIDE DEF N
<1>5. ids \in Injection(N, Rows)
  BY <1>2 DEF N, Injection, IsInjective
<1>6. ids \in Surjection(N, Rows)
  BY <1>1, <1>4, <1>5, FS_Injection
<1>7. \A s \in Rows : \E i \in N : ids[i] = s
  BY <1>6 DEF Surjection
<1> QED BY <1>1, <1>2, <1>3, <1>7 DEF N

\* The column of a row after n updates.
LEMMA UpdatedIs ==
    ASSUME CsInv, NEW ids \in SetToSeqs(Rows), NEW n \in Nat, NEW i \in DOMAIN ids
    PROVE  AfterUpdates(ids, n)[ids[i]] =
               IF n >= Len(ids) + i THEN i - 1 ELSE IF n >= i THEN (TempBase(ids) + i) - 1 ELSE at[ids[i]]
<1> DEFINE s == ids[i]
           k == CHOOSE j \in DOMAIN ids : ids[j] = s
<1>1. k = i
  BY OrderIs
<1>2. s \in Server /\ ~(at[s] < 0)
  BY OrderIs DEF Rows, CsInv, CsTypeOK
<1> HIDE DEF k
<1>3. AfterUpdates(ids, n)[s] =
        IF n >= Len(ids) + k THEN k - 1 ELSE IF n >= k THEN TempBase(ids) + k - 1 ELSE at[s]
  BY <1>2 DEF AfterUpdates, k
<1>4. TempBase(ids) + i - 1 = (TempBase(ids) + i) - 1
  BY TempBaseIs, OrderIs
<1> QED BY <1>1, <1>3, <1>4

\* As long as the columns are compact no update of a reordering is refused, whatever the
\* order.
LEMMA CompactOrders == ASSUME CsInv, Compact PROVE ReorderFits
<1> SUFFICES ASSUME NEW ids \in SetToSeqs(Rows), NEW n \in 1 .. 2 * Len(ids),
                    NEW s \in Rows, NEW t \in Rows, AfterUpdates(ids, n)[s] = AfterUpdates(ids, n)[t]
             PROVE  s = t
  BY DEF ReorderFits, OrderFits, Unique
<1> DEFINE L == Len(ids)
           B == TempBase(ids)
<1>1. PICK i \in 1 .. L : ids[i] = s
  BY OrderIs
<1>2. PICK j \in 1 .. L : ids[j] = t
  BY OrderIs
<1>3. L \in Nat /\ DOMAIN ids = 1 .. L /\ L = Cardinality(Rows)
  BY OrderIs
<1>4. n \in Nat
  BY <1>3
<1>5. B \in Nat /\ B >= L /\ shown[s] + L < B /\ shown[t] + L < B
  BY <1>1, <1>2, <1>3, TempBaseIs
<1>6. at[s] \in Nat /\ at[t] \in Nat /\ shown[s] \in Nat /\ shown[t] \in Nat
  BY ServersCount DEF Rows, CsInv, CsTypeOK
<1>7. (at[s] < L \/ at[s] <= shown[s]) /\ (at[t] < L \/ at[t] <= shown[t])
  BY <1>3 DEF Compact
<1>8. (IF n >= L + i THEN i - 1 ELSE IF n >= i THEN (B + i) - 1 ELSE at[s])
      = (IF n >= L + j THEN j - 1 ELSE IF n >= j THEN (B + j) - 1 ELSE at[t])
  BY <1>1, <1>2, <1>3, <1>4, UpdatedIs
<1>9. at[s] = at[t] => s = t
  BY DEF CsInv, Unique
<1>10. i = j => s = t
  BY <1>1, <1>2
<1> HIDE DEF L, B
<1>11. at[s] < B /\ at[t] < B
  <2>1. \A c, d, k, b \in Nat : (c < k \/ c <= d) /\ k <= b /\ d + k < b => c < b
    OBVIOUS
  <2> QED BY <1>3, <1>5, <1>6, <1>7, <2>1
<1> DEFINE cs == at[s]
           ct == at[t]
<1>12. cs \in Nat /\ ct \in Nat /\ cs < B /\ ct < B /\ (cs = ct => s = t)
  BY <1>6, <1>9, <1>11
<1>13. (IF n >= L + i THEN i - 1 ELSE IF n >= i THEN (B + i) - 1 ELSE cs)
       = (IF n >= L + j THEN j - 1 ELSE IF n >= j THEN (B + j) - 1 ELSE ct)
  BY <1>8
<1> HIDE DEF cs, ct
<1>14. i \in Nat /\ j \in Nat /\ 1 <= i /\ i <= L /\ 1 <= j /\ j <= L
  BY <1>3
<1>15. CASE n >= L + i \/ n >= L + j
  BY <1>3, <1>4, <1>5, <1>10, <1>12, <1>13, <1>14, <1>15
<1>16. CASE ~(n >= L + i \/ n >= L + j)
  BY <1>3, <1>4, <1>5, <1>10, <1>12, <1>13, <1>14, <1>16
<1> QED BY <1>15, <1>16

-----------------------------------------------------------------------------
(* Requests that overlap, step by step                                     *)

LEMMA SetupInit == CsInit => CsInv /\ Compact
<1> SUFFICES ASSUME CsInit PROVE CsInv /\ Compact
  OBVIOUS
<1>1. Rows = {}
  BY DEF Rows, CsInit
<1> DEFINE N == Cardinality(Server)
<1>2. N \in Nat
  BY ServersCount
<1> HIDE DEF N
<1>3. -1 \in -1 .. N /\ 0 \in 0 .. N
  BY <1>2
<1>4. CsTypeOK /\ RootsAreProjects
  BY <1>3 DEF CsInit, CsTypeOK, RootsAreProjects, N
<1>5. TodoFits
  BY <1>3, SetupAssumption DEF CsInit, TodoFits, Idle, N
<1> QED BY <1>1, <1>4, <1>5 DEF CsInv, Unique, Compact

\* What a request reads.
LEMMA ReadFits ==
    ASSUME CsInv, NEW e \in Editor, ReadCreate(e) \/ ReadEdit(e) \/ ReadRoots(e) \/ ReadDeletion(e)
    PROVE  TodoFits' /\ UNCHANGED setup /\ turn' = turn
<1> DEFINE N == Cardinality(Server)
           Todo == [step : {"idle", "create", "edit", "roots", "project"}, server : Server \cup {NoServer},
                    pos : 0 .. N, want : SUBSET Other, gone : Other \cup {NoProject}]
<1>1. UNCHANGED setup /\ turn' = turn
  BY DEF ReadCreate, ReadEdit, ReadRoots, ReadDeletion, Reads
<1>2. Rows' = Rows /\ shown' = shown
  BY <1>1 DEF setup, Rows
<1>3. N \in Nat /\ shown \in [Server -> 0 .. N] /\ todo \in [Editor -> Todo] /\ projects \subseteq Other /\ Rows \subseteq Server
  BY ServersCount DEF CsInv, CsTypeOK, TodoFits, Rows
<1> HIDE DEF N
<1>4. Idle \in Todo
  BY <1>3 DEF Idle
<1>5. PICK r \in Todo :
        /\ todo' = [todo EXCEPT ![e] = r]
        /\ r.step \in {"create", "edit"} <=> r.server # NoServer
        /\ r.step = "create" =>
            r.server \notin Rows /\ r.pos < N /\ \A other \in Editor : todo[other].server # r.server
        /\ r.step = "edit" => r.server \in Rows /\ r.pos = shown[r.server]
  <2>1. CASE ReadCreate(e)
    <3>1. PICK s \in Server :
            /\ at[s] < 0 /\ \A other \in Editor : todo[other].server # s
            /\ todo' = [todo EXCEPT ![e] = [Idle EXCEPT !.step = "create", !.server = s, !.pos = Cardinality(Rows)]]
      BY <2>1 DEF ReadCreate, Reads
    <3>2. s \notin Rows
      BY <1>3, <3>1 DEF Rows, CsInv, CsTypeOK
    <3>3. Cardinality(Rows) \in 0 .. N /\ Cardinality(Rows) < N
      <4>1. IsFiniteSet(Rows) /\ Cardinality(Rows) \in 0 .. N
        BY <1>3, ServersCount DEF N
      <4>2. Cardinality(Rows) # Cardinality(Server)
        BY <1>3, <3>2, SetupAssumption, FS_Subset
      <4> QED BY <1>3, <4>1, <4>2 DEF N
    <3> DEFINE r == [Idle EXCEPT !.step = "create", !.server = s, !.pos = Cardinality(Rows)]
    <3>4. r \in Todo /\ r.step = "create" /\ r.server = s /\ r.pos = Cardinality(Rows)
      BY <1>4, <3>3 DEF Idle
    <3>5. todo' = [todo EXCEPT ![e] = r] /\ s # NoServer
      BY <3>1, SetupAssumption
    <3> HIDE DEF r
    <3> QED BY <3>1, <3>2, <3>3, <3>4, <3>5
  <2>2. CASE ReadEdit(e)
    <3>1. PICK s \in Rows :
            todo' = [todo EXCEPT ![e] = [Idle EXCEPT !.step = "edit", !.server = s, !.pos = shown[s]]]
      BY <2>2 DEF ReadEdit, Reads
    <3> DEFINE r == [Idle EXCEPT !.step = "edit", !.server = s, !.pos = shown[s]]
    <3>2. r \in Todo /\ r.step = "edit" /\ r.server = s /\ r.pos = shown[s]
      BY <1>3, <1>4 DEF Idle
    <3>3. todo' = [todo EXCEPT ![e] = r] /\ s # NoServer
      BY <1>3, <3>1, SetupAssumption
    <3> HIDE DEF r
    <3> QED BY <3>2, <3>3
  <2>3. CASE ReadRoots(e)
    <3>1. PICK want \in SUBSET projects :
            todo' = [todo EXCEPT ![e] = [Idle EXCEPT !.step = "roots", !.want = want]]
      BY <2>3 DEF ReadRoots, Reads
    <3> DEFINE r == [Idle EXCEPT !.step = "roots", !.want = want]
    <3>2. r \in Todo /\ r.step = "roots" /\ r.server = NoServer
      BY <1>3, <1>4 DEF Idle
    <3>3. todo' = [todo EXCEPT ![e] = r]
      BY <3>1
    <3> HIDE DEF r
    <3> QED BY <3>2, <3>3
  <2>4. CASE ReadDeletion(e)
    <3>1. PICK p \in projects \ roots :
            todo' = [todo EXCEPT ![e] = [Idle EXCEPT !.step = "project", !.gone = p]]
      BY <2>4 DEF ReadDeletion, Reads
    <3> DEFINE r == [Idle EXCEPT !.step = "project", !.gone = p]
    <3>2. r \in Todo /\ r.step = "project" /\ r.server = NoServer
      BY <1>3, <1>4 DEF Idle
    <3>3. todo' = [todo EXCEPT ![e] = r]
      BY <3>1
    <3> HIDE DEF r
    <3> QED BY <3>2, <3>3
  <2> QED BY <2>1, <2>2, <2>3, <2>4
<1>6. todo' \in [Editor -> Todo] /\ todo'[e] = r /\ \A f \in Editor : f # e => todo'[f] = todo[f]
  BY <1>3, <1>5
<1>7. \A f, g \in Editor : f # g /\ todo'[f].step = "create" => todo'[g].server # todo'[f].server
  <2> SUFFICES ASSUME NEW f \in Editor, NEW g \in Editor, f # g, todo'[f].step = "create",
                      todo'[g].server = todo'[f].server
               PROVE  FALSE
    OBVIOUS
  <2>1. CASE f = e
    BY <1>5, <1>6, <2>1
  <2>2. CASE f # e /\ g # e
    BY <1>6, <2>2 DEF CsInv, TodoFits
  <2>3. CASE g = e
    <3>1. todo[f].step = "create" /\ todo[f].server \notin Rows /\ todo[f].server # NoServer /\ r.server = todo[f].server
      BY <1>6, <2>3 DEF CsInv, TodoFits
    <3>2. r.step \in {"create", "edit"}
      BY <1>5, <3>1
    <3> QED BY <1>5, <3>1, <3>2
  <2> QED BY <2>1, <2>2, <2>3
<1>8. \A f \in Editor :
        /\ todo'[f].step \in {"create", "edit"} <=> todo'[f].server # NoServer
        /\ todo'[f].step = "create" => todo'[f].server \notin Rows /\ todo'[f].pos < N
        /\ todo'[f].step = "edit" /\ todo'[f].server \in Rows => todo'[f].pos = shown[todo'[f].server]
  <2> SUFFICES ASSUME NEW f \in Editor
               PROVE  /\ todo'[f].step \in {"create", "edit"} <=> todo'[f].server # NoServer
                      /\ todo'[f].step = "create" => todo'[f].server \notin Rows /\ todo'[f].pos < N
                      /\ todo'[f].step = "edit" /\ todo'[f].server \in Rows => todo'[f].pos = shown[todo'[f].server]
    OBVIOUS
  <2>1. CASE f = e
    BY <1>5, <1>6, <2>1
  <2>2. CASE f # e
    <3>1. todo'[f] = todo[f]
      BY <1>6, <2>2
    <3>2. /\ todo[f].step \in {"create", "edit"} <=> todo[f].server # NoServer
          /\ todo[f].step = "create" => todo[f].server \notin Rows /\ todo[f].pos < N
          /\ todo[f].step = "edit" /\ todo[f].server \in Rows => todo[f].pos = shown[todo[f].server]
      BY DEF CsInv, TodoFits, N
    <3> QED BY <3>1, <3>2
  <2> QED BY <2>1, <2>2
<1>9. TodoFits'
  BY <1>2, <1>6, <1>7, <1>8 DEF TodoFits, N
<1> QED BY <1>1, <1>9

\* What the others have in hand stays right when one has finished, the rows that go are
\* gone, and those that come are nobody's.
LEMMA OthersFit ==
    ASSUME CsInv, NEW e \in Editor, todo' = [todo EXCEPT ![e] = Idle] \/ todo' = todo \/ todo' = [f \in Editor |-> Idle],
           at' \in [Server -> -1 .. Cardinality(Server)],
           Rows' \subseteq Rows \/ (todo[e].step = "create" /\ Rows' = Rows \cup {todo[e].server} /\ todo'[e] = Idle),
           \A s \in Rows' \cap Rows : shown'[s] = shown[s]
    PROVE  TodoFits'
<1> DEFINE N == Cardinality(Server)
           Todo == [step : {"idle", "create", "edit", "roots", "project"}, server : Server \cup {NoServer},
                    pos : 0 .. N, want : SUBSET Other, gone : Other \cup {NoProject}]
<1>1. N \in Nat /\ todo \in [Editor -> Todo]
  BY ServersCount DEF CsInv, TodoFits
<1> HIDE DEF N
<1>2. Idle \in Todo
  BY <1>1 DEF Idle
<1>3. todo' \in [Editor -> Todo] /\ \A f \in Editor : todo'[f] = Idle \/ todo'[f] = todo[f]
  BY <1>1, <1>2
<1>4. Idle.step = "idle" /\ Idle.server = NoServer
  BY DEF Idle
<1>5. ASSUME NEW f \in Editor
      PROVE  /\ todo'[f].step \in {"create", "edit"} <=> todo'[f].server # NoServer
             /\ todo'[f].step = "create" =>
                 /\ todo'[f].server \notin Rows' /\ todo'[f].pos < N
                 /\ \A other \in Editor : other # f => todo'[other].server # todo'[f].server
             /\ todo'[f].step = "edit" /\ todo'[f].server \in Rows' =>
                 todo'[f].pos = shown'[todo'[f].server]
  <2>1. CASE todo'[f] = Idle
    BY <1>4, <2>1
  <2>2. CASE todo'[f] = todo[f] /\ todo'[f] # Idle
    <3>1. /\ todo[f].step \in {"create", "edit"} <=> todo[f].server # NoServer
          /\ todo[f].step = "create" =>
              /\ todo[f].server \notin Rows /\ todo[f].pos < N
              /\ \A other \in Editor : other # f => todo[other].server # todo[f].server
          /\ todo[f].step = "edit" /\ todo[f].server \in Rows => todo[f].pos = shown[todo[f].server]
      BY DEF CsInv, TodoFits, N
    <3>2. todo[f].step \in {"create", "edit"} /\ todo[f].server \in Rows' => todo[f].server \in Rows
      <4> SUFFICES ASSUME todo[f].step \in {"create", "edit"}, todo[f].server \in Rows', todo[f].server \notin Rows
                   PROVE  FALSE
        OBVIOUS
      <4>1. todo[e].step = "create" /\ todo[f].server = todo[e].server /\ f # e
        BY <2>2
      <4>2. todo[f].server # todo[e].server
        BY <4>1 DEF CsInv, TodoFits
      <4> QED BY <4>1, <4>2
    <3>3. todo'[f].step = "create" => \A other \in Editor : other # f => todo'[other].server # todo'[f].server
      BY <1>3, <1>4, <2>2, <3>1
    <3> QED BY <2>2, <3>1, <3>2, <3>3
  <2> QED BY <1>3, <2>1, <2>2
<1> QED BY <1>3, <1>5 DEF TodoFits, N

\* Steps that leave the servers alone.
LEMMA SameServersFit ==
    ASSUME CsInv, UNCHANGED <<at, shown>>, TodoFits', turn' \in BOOLEAN,
           roots' \subseteq Other, projects' \subseteq Other, roots' \subseteq projects'
    PROVE  CsInv' /\ (Compact => Compact')
<1>1. Rows' = Rows
  BY DEF Rows
<1>2. CsTypeOK' /\ RootsAreProjects'
  BY DEF CsInv, CsTypeOK, RootsAreProjects
<1>3. Unique(at)' /\ (Compact => Compact')
  BY <1>1 DEF CsInv, Unique, Compact
<1> QED BY <1>2, <1>3 DEF CsInv

\* A row that is inserted is at a column nobody is in.
LEMMA InsertFits == ASSUME CsInv, NEW e \in Editor, Insert(e) PROVE CsInv' /\ (Compact => Compact')
<1> DEFINE N == Cardinality(Server)
           s == todo[e].server
           n == todo[e].pos
<1>1. /\ todo[e].step = "create" /\ todo' = [todo EXCEPT ![e] = Idle] /\ turn' = turn
      /\ roots' = roots /\ projects' = projects
      /\ \/ UNCHANGED <<at, shown>>
         \/ /\ \A t \in Rows : at[t] # n
            /\ at' = [at EXCEPT ![s] = n] /\ shown' = [shown EXCEPT ![s] = n]
  BY DEF Insert, Finishes, setup
<1>2. /\ N \in Nat /\ at \in [Server -> -1 .. N] /\ shown \in [Server -> 0 .. N]
      /\ turn \in BOOLEAN /\ roots \subseteq Other /\ projects \subseteq Other /\ roots \subseteq projects
  BY ServersCount DEF CsInv, CsTypeOK, RootsAreProjects
<1>3. s \in Server /\ n \in 0 .. N /\ s \notin Rows /\ todo[e] \in [step : {"idle", "create", "edit", "roots", "project"}, server : Server \cup {NoServer},
                            pos : 0 .. N, want : SUBSET Other, gone : Other \cup {NoProject}]
  BY <1>1 DEF CsInv, TodoFits
<1>4. todo'[e] = Idle
  BY <1>1 DEF CsInv, TodoFits
<1>5. CASE UNCHANGED <<at, shown>>
  <2>1. Rows' = Rows
    BY <1>5 DEF Rows
  <2>2. TodoFits'
    BY <1>1, <1>2, <1>5, <2>1, OthersFit
  <2> QED BY <1>1, <1>2, <1>5, <2>2, SameServersFit
<1>6. CASE /\ \A t \in Rows : at[t] # n
           /\ at' = [at EXCEPT ![s] = n] /\ shown' = [shown EXCEPT ![s] = n]
  <2> HIDE DEF s, n, N
  <2>1. at' \in [Server -> -1 .. N] /\ shown' \in [Server -> 0 .. N]
    BY <1>2, <1>3, <1>6
  <2>2. at'[s] = n /\ shown'[s] = n /\ \A t \in Server : t # s => at'[t] = at[t] /\ shown'[t] = shown[t]
    BY <1>2, <1>3, <1>6
  <2>3. Rows' = Rows \cup {s}
    BY <1>2, <1>3, <2>2 DEF Rows
  <2>4. TodoFits'
    <3>1. \A t \in Rows' \cap Rows : shown'[t] = shown[t]
      BY <1>3, <2>2 DEF Rows
    <3> QED BY <1>1, <1>4, <2>1, <2>3, <3>1, OthersFit DEF s, N
  <2>5. Unique(at)'
    <3>1. \A t \in Rows : at'[t] = at[t] /\ at[t] # n
      BY <1>3, <1>6, <2>2 DEF Rows
    <3> QED BY <2>2, <2>3, <3>1 DEF CsInv, Unique
  <2>6. Compact => Compact'
    <3>1. IsFiniteSet(Rows) /\ Cardinality(Rows) \in Nat
      BY ServersCount DEF Rows
    <3>2. Cardinality(Rows') = Cardinality(Rows) + 1
      BY <1>3, <2>3, <3>1, FS_AddElement
    <3>3. \A t \in Rows : at'[t] = at[t] /\ shown'[t] = shown[t] /\ at[t] \in Nat
      BY <1>2, <1>3, <2>2 DEF Rows
    <3>4. at'[s] <= shown'[s]
      BY <1>3, <2>2
    <3>5. ASSUME Compact, NEW t \in Rows PROVE at'[t] < Cardinality(Rows') \/ at'[t] <= shown'[t]
      BY <3>1, <3>2, <3>3, <3>5 DEF Compact
    <3> QED BY <2>3, <3>4, <3>5 DEF Compact
  <2>7. CsTypeOK' /\ RootsAreProjects'
    BY <1>1, <1>2, <2>1 DEF CsTypeOK, RootsAreProjects, N
  <2> QED BY <2>4, <2>5, <2>6, <2>7 DEF CsInv
<1> QED BY <1>1, <1>5, <1>6

\* An edit writes the position the page sees already.
LEMMA UpdateFits == ASSUME CsInv, NEW e \in Editor, Update(e) PROVE CsInv' /\ (Compact => Compact')
<1> DEFINE s == todo[e].server
<1>1. /\ todo[e].step = "edit" /\ todo' = [todo EXCEPT ![e] = Idle] /\ turn' = turn
      /\ at' = at /\ roots' = roots /\ projects' = projects
      /\ shown' = IF s \in Rows THEN [shown EXCEPT ![s] = todo[e].pos] ELSE shown
  BY DEF Update, Finishes
<1>2. s \in Rows => todo[e].pos = shown[s]
  BY <1>1 DEF CsInv, TodoFits
<1>3. shown' = shown
  BY <1>1, <1>2 DEF CsInv, CsTypeOK
<1>4. Rows' = Rows
  BY <1>1 DEF Rows
<1>5. TodoFits'
  BY <1>1, <1>3, <1>4, OthersFit DEF CsInv, CsTypeOK
<1> QED BY <1>1, <1>3, <1>5, SameServersFit DEF CsInv, CsTypeOK, RootsAreProjects

\* A deletion that is done leaves the columns compact, whatever they were.
LEMMA DeleteFits == ASSUME CsInv, NEW e \in Editor, Delete(e) PROVE CsInv' /\ Compact'
<1>1. /\ todo' = todo /\ turn' = turn /\ roots' = roots /\ projects' = projects
      /\ \E s \in Rows : at' = Renumbered(Rows \ {s}, Cardinality(Rows) - 1) /\ shown' = [shown EXCEPT ![s] = 0]
  BY DEF Delete
<1>2. PICK s \in Rows : at' = Renumbered(Rows \ {s}, Cardinality(Rows) - 1) /\ shown' = [shown EXCEPT ![s] = 0]
  BY <1>1
<1>3. Cardinality(Rows) - 1 \in 0 .. Cardinality(Rows) - 1
  <2>1. IsFiniteSet(Rows) /\ Cardinality(Rows) \in Nat /\ Rows # {}
    BY ServersCount DEF Rows
  <2>2. Cardinality(Rows) # 0
    BY <2>1, FS_EmptySet
  <2> QED BY <2>1, <2>2
<1>4. /\ Rows' = Rows \ {s}
      /\ at' \in [Server -> -1 .. Cardinality(Server)] /\ shown' \in [Server -> 0 .. Cardinality(Server)]
      /\ Unique(at)' /\ Compact'
  BY <1>2, <1>3, RenumberedFits
<1>5. TodoFits'
  <2>1. \A t \in Rows' \cap Rows : shown'[t] = shown[t]
    BY <1>2, <1>4 DEF CsInv, CsTypeOK, Rows
  <2> QED BY <1>1, <1>4, <2>1, OthersFit
<1> QED BY <1>1, <1>4, <1>5 DEF CsInv, CsTypeOK, RootsAreProjects

LEMMA DieInDeleteFits == ASSUME CsInv, DieInDelete PROVE CsInv'
<1>1. /\ todo' = [e \in Editor |-> Idle] /\ turn' = FALSE /\ roots' = roots /\ projects' = projects
      /\ \E s \in Rows : /\ \E n \in 0 .. Cardinality(Rows) - 1 : at' = Renumbered(Rows \ {s}, n)
                         /\ shown' = [shown EXCEPT ![s] = 0]
  BY DEF DieInDelete
<1>2. PICK s \in Rows, n \in 0 .. Cardinality(Rows) - 1 :
        at' = Renumbered(Rows \ {s}, n) /\ shown' = [shown EXCEPT ![s] = 0]
  BY <1>1
<1>3. /\ Rows' = Rows \ {s}
      /\ at' \in [Server -> -1 .. Cardinality(Server)] /\ shown' \in [Server -> 0 .. Cardinality(Server)]
      /\ Unique(at)'
  BY <1>2, RenumberedFits
<1>4. TodoFits'
  <2> DEFINE N == Cardinality(Server)
  <2>1. N \in Nat
    BY ServersCount
  <2> HIDE DEF N
  <2>2. 0 \in 0 .. N
    BY <2>1
  <2> QED BY <1>1, <2>2 DEF TodoFits, Idle, N
<1> QED BY <1>1, <1>3, <1>4 DEF CsInv, CsTypeOK, RootsAreProjects

\* A reordering ends with the indexes of the order as columns, or changes nothing.
LEMMA ReorderedFits == ASSUME CsInv, NEW e \in Editor, Reorder(e) PROVE CsInv' /\ (Compact => Compact')
<1>1. /\ todo' = todo /\ turn' = turn /\ shown' = shown /\ roots' = roots /\ projects' = projects
      /\ \E ids \in SetToSeqs(Rows) : at' = IF OrderFits(ids) THEN AfterUpdates(ids, 2 * Len(ids)) ELSE at
  BY DEF Reorder
<1>2. PICK ids \in SetToSeqs(Rows) : at' = IF OrderFits(ids) THEN AfterUpdates(ids, 2 * Len(ids)) ELSE at
  BY <1>1
<1> DEFINE N == Cardinality(Server)
           L == Len(ids)
<1>3. N \in Nat /\ at \in [Server -> -1 .. N] /\ L \in Nat /\ L <= N /\ L = Cardinality(Rows) /\ DOMAIN ids = 1 .. L
  BY OrderIs, ServersCount DEF CsInv, CsTypeOK, Rows
<1>4. CASE at' = at
  <2>1. Rows' = Rows
    BY <1>4 DEF Rows
  <2>2. TodoFits'
    BY <1>1, <1>4, <2>1, OthersFit DEF CsInv, CsTypeOK
  <2> QED BY <1>1, <1>4, <2>2, SameServersFit DEF CsInv, CsTypeOK, RootsAreProjects
<1>5. CASE at' = AfterUpdates(ids, 2 * L)
  <2>1. \A i \in 1 .. L : AfterUpdates(ids, 2 * L)[ids[i]] = i - 1
    <3> SUFFICES ASSUME NEW i \in 1 .. L PROVE AfterUpdates(ids, 2 * L)[ids[i]] = i - 1
      OBVIOUS
    <3> DEFINE n == 2 * L
    <3>1. n \in Nat /\ n >= L + i
      BY <1>3
    <3> HIDE DEF n
    <3>2. AfterUpdates(ids, n)[ids[i]] =
            IF n >= L + i THEN i - 1 ELSE IF n >= i THEN (TempBase(ids) + i) - 1 ELSE at[ids[i]]
      BY <1>3, <3>1, UpdatedIs
    <3>3. AfterUpdates(ids, n)[ids[i]] = i - 1
      BY <3>1, <3>2
    <3> QED BY <3>3 DEF n
  <2>2. \A s \in Rows : \E i \in 1 .. L : ids[i] = s
    BY <1>3, OrderIs
  <2>3. \A s \in Rows : at'[s] \in 0 .. L - 1
    <3> SUFFICES ASSUME NEW s \in Rows PROVE at'[s] \in 0 .. L - 1
      OBVIOUS
    <3>1. PICK i \in 1 .. L : ids[i] = s
      BY <2>2
    <3>2. at'[s] = i - 1
      BY <1>5, <2>1, <3>1
    <3> QED BY <1>3, <3>2
  <2>4. \A s \in Server : s \notin Rows => at'[s] = -1
    <3>1. \A s \in Server : s \notin Rows => at[s] < 0
      BY <1>3 DEF Rows
    <3> QED BY <1>5, <3>1 DEF AfterUpdates
  <2>5. DOMAIN at' = Server /\ at' = [s \in Server |-> at'[s]]
    BY <1>5 DEF AfterUpdates
  <2>6. at' \in [Server -> -1 .. N]
    <3>1. \A s \in Server : at'[s] \in -1 .. N
      BY <1>3, <2>3, <2>4
    <3> QED BY <2>5, <3>1
  <2>7. Rows' = Rows
    BY <2>3, <2>4 DEF Rows
  <2>8. TodoFits'
    BY <1>1, <2>6, <2>7, OthersFit
  <2>9. Unique(at)'
    <3>1. \A s, t \in Rows : at'[s] = at'[t] => s = t
      <4> SUFFICES ASSUME NEW s \in Rows, NEW t \in Rows, at'[s] = at'[t] PROVE s = t
        OBVIOUS
      <4>1. PICK i \in 1 .. L : ids[i] = s
        BY <2>2
      <4>2. PICK j \in 1 .. L : ids[j] = t
        BY <2>2
      <4>3. at'[s] = i - 1 /\ at'[t] = j - 1
        BY <1>5, <2>1, <4>1, <4>2
      <4>4. i - 1 = j - 1
        BY <4>3
      <4>5. i \in Int /\ j \in Int
        BY <1>3
      <4>6. i = j
        BY <4>4, <4>5
      <4> QED BY <4>1, <4>2, <4>6
    <3> QED BY <2>7, <3>1 DEF Unique
  <2>10. Compact'
    <3>1. \A s \in Rows : at'[s] < L
      BY <1>3, <2>3
    <3> QED BY <1>3, <2>7, <3>1 DEF Compact
  <2> QED BY <1>1, <2>6, <2>8, <2>9, <2>10 DEF CsInv, CsTypeOK, RootsAreProjects
<1> QED BY <1>2, <1>4, <1>5

\* Every other step, by what it writes.
LEMMA OtherFits ==
    ASSUME CsInv, NEW e \in Editor, Refused(e) \/ ReplaceRoots(e) \/ DropProject(e)
    PROVE  CsInv' /\ (Compact => Compact')
<1>1. todo' = [todo EXCEPT ![e] = Idle] /\ turn' = turn /\ at' = at /\ shown' = shown
  BY DEF Refused, ReplaceRoots, DropProject, Finishes, setup
<1>2. Rows' = Rows
  BY <1>1 DEF Rows
<1>3. TodoFits'
  BY <1>1, <1>2, OthersFit DEF CsInv, CsTypeOK
<1>4. roots \subseteq projects /\ roots \subseteq Other /\ projects \subseteq Other
  BY DEF CsInv, CsTypeOK, RootsAreProjects
<1>5. roots' \subseteq Other /\ projects' \subseteq Other /\ roots' \subseteq projects'
  <2>1. CASE Refused(e)
    BY <1>4, <2>1 DEF Refused, setup
  <2>2. CASE ReplaceRoots(e)
    BY <1>4, <2>2 DEF ReplaceRoots, Known
  <2>3. CASE DropProject(e)
    BY <1>4, <2>3 DEF DropProject, Unreferenced
  <2> QED BY <2>1, <2>2, <2>3
<1> QED BY <1>1, <1>3, <1>5, SameServersFit DEF CsInv, CsTypeOK

\* A step keeps the invariant. Only a death amid a deletion can make the columns less
\* compact, and a deletion that is done makes them compact again.
LEMMA SetupNext ==
    ASSUME CsInv, [CsNext]_csVars
    PROVE  /\ CsInv'
           /\ (Compact /\ ~DieInDelete) \/ (\E e \in Editor : Delete(e)) => Compact'
<1>1. ASSUME NEW e \in Editor, ReadCreate(e) \/ ReadEdit(e) \/ ReadRoots(e) \/ ReadDeletion(e)
      PROVE  CsInv' /\ (Compact => Compact')
  BY <1>1, ReadFits, SameServersFit DEF CsInv, CsTypeOK, RootsAreProjects, setup
<1>2. ASSUME NEW e \in Editor, Delete(e) PROVE CsInv' /\ Compact'
  BY <1>2, DeleteFits
<1>3. ASSUME DieInDelete PROVE CsInv'
  BY <1>3, DieInDeleteFits
<1>4. ASSUME GuardTaken \/ GuardReleased \/ UNCHANGED csVars PROVE CsInv' /\ (Compact => Compact')
  <2>1. UNCHANGED <<setup, todo>> /\ turn' \in BOOLEAN
    BY <1>4 DEF GuardTaken, GuardReleased, csVars, setup, CsInv, CsTypeOK
  <2>2. TodoFits'
    BY <2>1 DEF CsInv, TodoFits, setup, Rows
  <2> QED BY <2>1, <2>2, SameServersFit DEF CsInv, CsTypeOK, RootsAreProjects, setup
<1>5. ASSUME NEW e \in Editor, Insert(e) \/ Update(e) \/ Reorder(e) \/ Refused(e) \/ ReplaceRoots(e) \/ DropProject(e)
      PROVE  CsInv' /\ (Compact => Compact')
  BY <1>5, InsertFits, UpdateFits, ReorderedFits, OtherFits
<1> HIDE DEF CsInv, Compact
<1> QED BY <1>1, <1>2, <1>3, <1>4, <1>5 DEF CsNext

-----------------------------------------------------------------------------
\* Whatever requests overlap and wherever the hub dies: each row has a column of its own,
\* and every root names a project (session_config.rs, mcp_delete; projects.rs,
\* delete_project).
THEOREM SetupKeysHold == CsSpec => [](CsTypeOK /\ Unique(at) /\ RootsAreProjects)
BY SetupInit, SetupNext, PTL DEF CsSpec, CsInv

\* session_config.rs:190-192, "This also keeps UNIQUE(chat_id, position) true throughout
\* the update", for any number of servers: while no column is beyond both the number of
\* rows and its JSON position, no update of any reordering is refused.
THEOREM CompactOrdersFit == CsSpec => [](Compact => ReorderFits)
<1>1. CsInv => (Compact => ReorderFits)
  BY CompactOrders
<1> QED BY <1>1, SetupInit, SetupNext, PTL DEF CsSpec

\* And so the columns stay until the hub dies amid a deletion, however requests overlap;
\* the next deletion that is done closes the gaps (session_config.rs, mcp_delete).
THEOREM CompactStays ==
    CsSpec => /\ Compact
              /\ [][(Compact /\ ~DieInDelete) \/ (\E e \in Editor : Delete(e)) => Compact']_csVars
<1>1. CsInv /\ [CsNext]_csVars =>
        [(Compact /\ ~DieInDelete) \/ (\E e \in Editor : Delete(e)) => Compact']_csVars
  BY SetupNext
<1> QED BY <1>1, SetupInit, SetupNext, PTL DEF CsSpec
==============================================================================
