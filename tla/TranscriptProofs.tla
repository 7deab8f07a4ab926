--------------------------- MODULE TranscriptProofs ---------------------------
(***************************************************************************)
(* Proofs about Transcript, for every log a chat can have, every part of   *)
(* it that a page holds and any answers given on the page.                 *)
(*                                                                         *)
(* A page is built again from its events, in the order of the log. `Right` *)
(* says what it shows after the events up to n: each of the page's events  *)
(* that enters a turn is at one place, parts of one turn have no end of a  *)
(* turn between them, and a request is decided as the answers up to n say. *)
(* Every kind of event keeps it.  What the page shows in the end follows   *)
(* from the least n at which it would not be right.                        *)
(***************************************************************************)
EXTENDS Transcript, WellFoundedInduction, TLAPS

\* Of a non-empty set of numbers one is the least: how induction is done here.
LEMMA LeastNumber == ASSUME NEW T, T \subseteq Nat, T # {} PROVE \E n \in T : \A m \in T : n <= m
<1>1. IsWellFoundedOn(OpToRel(<, Nat), Nat)
  BY NatLessThanWellFounded
<1>2. PICK n \in T : \A m \in T : ~(<<m, n>> \in OpToRel(<, Nat))
  BY <1>1, WFMin
<1>3. \A m \in T : ~(m < n)
  BY <1>2 DEF OpToRel
<1> QED BY <1>3

\* Of a non-empty set of numbers with a bound one is the greatest.
LEMMA GreatestNumber ==
    ASSUME NEW b \in Nat, NEW T, T \subseteq 1 .. b, T # {} PROVE \E n \in T : \A m \in T : n >= m
<1> DEFINE Rest == {b - i : i \in T}
<1>1. Rest \subseteq Nat /\ Rest # {}
  <2>1. \A i \in T : b - i \in Nat
    OBVIOUS
  <2> QED BY <2>1
<1> HIDE DEF Rest
<1>2. PICK r \in Rest : \A s \in Rest : r <= s
  BY <1>1, LeastNumber
<1>3. PICK n \in T : r = b - n
  BY <1>2 DEF Rest
<1>4. \A m \in T : b - m \in Rest
  BY DEF Rest
<1>5. \A m \in T : b - n <= b - m
  BY <1>2, <1>3, <1>4
<1> QED BY <1>5

Requests == {"permission_request", "elicitation_request"}
Entering == TurnScoped \ {"turn_complete", "elicitation_response"}

Said == Choice \cup {Nobody}
Label == Name \cup {Nobody}
EventSet == [kind : Kind, id : Label, choice : Said]
EntrySet == [is : {"chunk", "tool_call", "plan"} \cup Requests, id : Label, parts : Seq(Nat),
             decision : Said]
TurnSet == [is : {"turn"}, seq : Nat, status : {"in_progress", "complete"}, entries : Seq(EntrySet)]
ItemSet == TurnSet \cup [is : {"user_message", "error"}, seq : Nat]
PageSet == [items : Seq(ItemSet), open : Nat, clock : {"none", "user", "state", "inferred"}]

\* Every request has an id of its own, and no answer comes before its request.
LogFits ==
    /\ log \in Seq(EventSet)
    /\ \A i \in DOMAIN log : log[i].kind \in Requests \cup Responses => log[i].id \in Name
    /\ \A i, j \in DOMAIN log :
           log[i].kind \in Requests /\ log[j].kind = log[i].kind /\ log[j].id = log[i].id => i = j
    /\ \A i \in DOMAIN log : log[i].kind \in Responses =>
           \E j \in DOMAIN log : j < i /\ log[j].kind = RequestKind(log[i]) /\ log[j].id = log[i].id

\* Part k of entry j of the turn t is event i; entry j of the turn t asks for something.
At(items, t, j, k, i) ==
    /\ t \in DOMAIN items /\ items[t].is = "turn" /\ j \in DOMAIN items[t].entries
    /\ k \in DOMAIN items[t].entries[j].parts /\ items[t].entries[j].parts[k] = i
Asks(items, t, j) ==
    /\ t \in DOMAIN items /\ items[t].is = "turn" /\ j \in DOMAIN items[t].entries
    /\ items[t].entries[j].is \in Requests

OneOpen(items, open) ==
    /\ open \in 0 .. Len(items)
    /\ open # 0 => items[open].is = "turn"
    /\ \A t \in DOMAIN items : items[t].is = "turn" =>
           /\ open # 0 => t <= open
           /\ items[t].status = "in_progress" => t = open

InOrder(items, n) ==
    \A t \in DOMAIN items :
        items[t].seq <= n /\ \A u \in DOMAIN items : t < u => items[t].seq < items[u].seq

\* Of the events up to n those that enter a turn are there, each once.
Placed(items, events, n) ==
    /\ \A t, j, k, i : At(items, t, j, k, i) => i \in events /\ i <= n /\ log[i].kind \in Entering
    /\ \A i \in events : i <= n /\ log[i].kind \in Entering => \E t, j, k : At(items, t, j, k, i)
    /\ \A t, j, k, u, l, m, i :
           At(items, t, j, k, i) /\ At(items, u, l, m, i) => t = u /\ j = l /\ k = m

Ends(e) == log[e].kind \in {"user_message", "turn_complete"}

\* Nothing that ends a turn is between two parts of it, nor since a part of the open one.
Together(items, open, events, n) ==
    /\ \A t, j, k, i, l, m, h : At(items, t, j, k, i) /\ At(items, t, l, m, h) =>
           ~ \E e \in events : i <= e /\ e < h /\ Ends(e)
    /\ \A j, k, i : At(items, open, j, k, i) => ~ \E e \in events : i <= e /\ e <= n /\ Ends(e)

\* The first part of a request is the event that asked.
Headed(items) ==
    \A t, j : Asks(items, t, j) =>
        /\ 1 \in DOMAIN items[t].entries[j].parts
        /\ log[items[t].entries[j].parts[1]].kind = items[t].entries[j].is
        /\ log[items[t].entries[j].parts[1]].id = items[t].entries[j].id

ToldOf(events, n, kind, id) == {k \in events : k <= n /\ log[k].kind = kind /\ log[k].id = id}
LatestOf(events, n, kind, id) ==
    IF ToldOf(events, n, kind, id) = {} THEN Nobody ELSE log[Max(ToldOf(events, n, kind, id))].choice
Decision(events, n, known, x) ==
    IF x.is = "elicitation_request" THEN LatestOf(events, n, "elicitation_response", x.id)
    ELSE IF known[x.id] # Nobody THEN known[x.id]
    ELSE LatestOf(events, n, "permission_response", x.id)
Decides(items, events, n, known) ==
    \A t, j : Asks(items, t, j) =>
        items[t].entries[j].decision = Decision(events, n, known, items[t].entries[j])

\* The page is right about the events up to n.
Right(p, events, n, known) ==
    /\ p \in PageSet
    /\ OneOpen(p.items, p.open)
    /\ p.open # 0 => p.clock # "none"
    /\ InOrder(p.items, n) /\ Placed(p.items, events, n)
    /\ Together(p.items, p.open, events, n)
    /\ Headed(p.items) /\ Decides(p.items, events, n, known)

-----------------------------------------------------------------------------
\* b shows the same events at the same places as a, and asks for the same.
SameEntries(a, b) ==
    /\ \A t, j, k, i : At(a, t, j, k, i) <=> At(b, t, j, k, i)
    /\ \A t, j : Asks(a, t, j) <=> Asks(b, t, j)
    /\ \A t, j : Asks(a, t, j) =>
           /\ b[t].entries[j].is = a[t].entries[j].is /\ b[t].entries[j].id = a[t].entries[j].id
           /\ b[t].entries[j].parts = a[t].entries[j].parts

SameDecisions(a, b) == \A t, j : Asks(a, t, j) => b[t].entries[j].decision = a[t].entries[j].decision

\* b has the items and entries of a: their states and decisions may differ.
Kin(a, b) ==
    /\ b \in Seq(ItemSet) /\ Len(b) = Len(a)
    /\ \A t \in 1 .. Len(a) :
           /\ b[t].is = a[t].is /\ b[t].seq = a[t].seq
           /\ a[t].is = "turn" =>
                /\ Len(b[t].entries) = Len(a[t].entries)
                /\ \A j \in 1 .. Len(a[t].entries) :
                       /\ b[t].entries[j].is = a[t].entries[j].is
                       /\ b[t].entries[j].id = a[t].entries[j].id
                       /\ b[t].entries[j].parts = a[t].entries[j].parts

\* What an item of a page is.
LEMMA ItemShapes ==
    ASSUME NEW items \in Seq(ItemSet), NEW t \in DOMAIN items
    PROVE  /\ t \in 1 .. Len(items) /\ items[t].seq \in Nat /\ items[t] \in ItemSet
           /\ items[t].is = "turn" => items[t] \in TurnSet /\ items[t].entries \in Seq(EntrySet)
BY DEF ItemSet, TurnSet

\* Marking a request or closing a turn moves no entry.
LEMMA KinSame == ASSUME NEW a \in Seq(ItemSet), NEW b, Kin(a, b) PROVE SameEntries(a, b)
<1>1. DOMAIN a = DOMAIN b
  BY DEF Kin
<1>2. ASSUME NEW t \in DOMAIN a, a[t].is = "turn"
      PROVE  /\ b[t].is = "turn" /\ DOMAIN b[t].entries = DOMAIN a[t].entries
             /\ \A j \in DOMAIN a[t].entries :
                       /\ b[t].entries[j].is = a[t].entries[j].is
                       /\ b[t].entries[j].id = a[t].entries[j].id
                       /\ b[t].entries[j].parts = a[t].entries[j].parts
  <2>1. a[t].entries \in Seq(EntrySet) /\ b[t].is = "turn" /\ t \in 1 .. Len(a)
    BY <1>2, ItemShapes DEF Kin
  <2>2. b[t].entries \in Seq(EntrySet)
    BY <1>1, <2>1, ItemShapes DEF Kin
  <2>3. Len(b[t].entries) = Len(a[t].entries)
    BY <1>2, <2>1 DEF Kin
  <2>4. DOMAIN b[t].entries = 1 .. Len(b[t].entries) /\ DOMAIN a[t].entries = 1 .. Len(a[t].entries)
    BY <2>1, <2>2
  <2>5. \A j \in 1 .. Len(a[t].entries) :
                       /\ b[t].entries[j].is = a[t].entries[j].is
                       /\ b[t].entries[j].id = a[t].entries[j].id
                       /\ b[t].entries[j].parts = a[t].entries[j].parts
    BY <1>2, <2>1 DEF Kin
  <2> HIDE DEF Kin
  <2> QED BY <2>1, <2>3, <2>4, <2>5
<1>3. \A t \in DOMAIN a : b[t].is = a[t].is
  BY DEF Kin
<1>4. ASSUME NEW t, NEW j, NEW k, NEW i PROVE At(a, t, j, k, i) <=> At(b, t, j, k, i)
  BY <1>1, <1>2, <1>3 DEF At
<1>5. ASSUME NEW t, NEW j PROVE Asks(a, t, j) <=> Asks(b, t, j)
  BY <1>1, <1>2, <1>3 DEF Asks
<1>6. ASSUME NEW t, NEW j, Asks(a, t, j)
      PROVE  /\ b[t].entries[j].is = a[t].entries[j].is /\ b[t].entries[j].id = a[t].entries[j].id
             /\ b[t].entries[j].parts = a[t].entries[j].parts
  BY <1>2, <1>6 DEF Asks
<1> QED BY <1>4, <1>5, <1>6 DEF SameEntries

\* An item without entries at the end changes no place.
LEMMA MoreSame ==
    ASSUME NEW a \in Seq(ItemSet), NEW x \in ItemSet, x.is = "turn" => x.entries = <<>>
    PROVE  SameEntries(a, Append(a, x)) /\ SameDecisions(a, Append(a, x))
<1> DEFINE b == Append(a, x)
<1>1. /\ b \in Seq(ItemSet) /\ Len(b) = Len(a) + 1 /\ Len(a) \in Nat /\ b[Len(a) + 1] = x
      /\ \A t \in 1 .. Len(a) : b[t] = a[t]
  OBVIOUS
<1> HIDE DEF b
<1>2. DOMAIN a = 1 .. Len(a) /\ DOMAIN b = 1 .. (Len(a) + 1)
  BY <1>1
<1>3. \A t \in DOMAIN b : t \in DOMAIN a \/ (t = Len(a) + 1 /\ t \notin DOMAIN a)
  BY <1>1, <1>2
<1>4. x.is = "turn" => DOMAIN x.entries = {}
  OBVIOUS
<1>5. ASSUME NEW t, NEW j, NEW k, NEW i PROVE At(a, t, j, k, i) <=> At(b, t, j, k, i)
  BY <1>1, <1>2, <1>3, <1>4 DEF At
<1>6. ASSUME NEW t, NEW j PROVE Asks(a, t, j) <=> Asks(b, t, j)
  BY <1>1, <1>2, <1>3, <1>4 DEF Asks
<1>7. \A t, j : Asks(a, t, j) => b[t] = a[t]
  BY <1>1, <1>2 DEF Asks
<1>8. SameEntries(a, b) /\ SameDecisions(a, b)
  BY <1>5, <1>6, <1>7 DEF SameEntries, SameDecisions
<1> QED BY <1>8 DEF b

\* What the same places have in common.
LEMMA SamePlaced ==
    ASSUME NEW a, NEW b, SameEntries(a, b), NEW events, NEW n, NEW open
    PROVE  /\ Placed(a, events, n) => Placed(b, events, n)
           /\ Together(a, open, events, n) => Together(b, open, events, n)
           /\ Headed(a) => Headed(b)
<1>1. Placed(a, events, n) => Placed(b, events, n)
  BY DEF SameEntries, Placed
<1>2. Together(a, open, events, n) => Together(b, open, events, n)
  BY DEF SameEntries, Together
<1>3. Headed(a) => Headed(b)
  BY DEF SameEntries, Headed
<1> QED BY <1>1, <1>2, <1>3

\* The same requests with the same decisions are as right as before.
LEMMA SameDecides ==
    ASSUME NEW a, NEW b, SameEntries(a, b), SameDecisions(a, b), NEW events, NEW n, NEW known,
           Decides(a, events, n, known)
    PROVE  Decides(b, events, n, known)
BY DEF SameEntries, SameDecisions, Decides, Decision

-----------------------------------------------------------------------------
(* One more event.                                                         *)

\* An event that enters no turn needs no place.
LEMMA PlacedOn ==
    ASSUME NEW items, NEW events, events \subseteq Nat, NEW n \in Nat, Placed(items, events, n),
           n + 1 \in events => log[n + 1].kind \notin Entering
    PROVE  Placed(items, events, n + 1)
<1>1. \A i \in events : i <= n + 1 => i <= n \/ i = n + 1
  OBVIOUS
<1>2. \A i \in events : i <= n => i <= n + 1
  OBVIOUS
<1> QED BY <1>1, <1>2 DEF Placed

\* An event that ends no turn parts nothing.
LEMMA TogetherOn ==
    ASSUME NEW items, NEW open, NEW events, events \subseteq Nat, NEW n \in Nat,
           Together(items, open, events, n), n + 1 \in events => ~Ends(n + 1)
    PROVE  Together(items, open, events, n + 1)
<1>1. \A i \in events : i <= n + 1 => i <= n \/ i = n + 1
  OBVIOUS
<1> QED BY <1>1 DEF Together

\* Nothing can be parted from a turn that is over.
LEMMA TogetherClosed ==
    ASSUME NEW items, NEW open, NEW events, NEW n, NEW m, Together(items, open, events, n),
           0 \notin DOMAIN items
    PROVE  Together(items, 0, events, m)
BY DEF Together, At

\* An event that answers nothing changes no decision.
LEMMA DecidesOn ==
    ASSUME NEW items, NEW events, events \subseteq Nat, NEW n \in Nat, NEW known,
           Decides(items, events, n, known), n + 1 \in events => log[n + 1].kind \notin Responses
    PROVE  Decides(items, events, n + 1, known)
<1>1. ASSUME NEW kind \in Responses, NEW id
      PROVE  ToldOf(events, n + 1, kind, id) = ToldOf(events, n, kind, id)
  <2>1. \A i \in events : i <= n + 1 <=> i <= n \/ i = n + 1
    OBVIOUS
  <2> QED BY <2>1, <1>1 DEF ToldOf
<1>2. \A x : Decision(events, n + 1, known, x) = Decision(events, n, known, x)
  <2>1. "permission_response" \in Responses /\ "elicitation_response" \in Responses
    BY DEF Responses
  <2> QED BY <1>1, <2>1 DEF Decision, LatestOf
<1> QED BY <1>2 DEF Decides

-----------------------------------------------------------------------------
(* Requests and their answers.                                             *)

\* RequestIndex finds the request that is there.
LEMMA RequestFound ==
    ASSUME NEW entries \in Seq(EntrySet), NEW kind, NEW id
    PROVE  LET r == RequestIndex(entries, kind, id) IN
           /\ r \in 0 .. Len(entries)
           /\ r > 0 => entries[r].is = kind /\ entries[r].id = id
           /\ r = 0 => \A j \in DOMAIN entries : ~(entries[j].is = kind /\ entries[j].id = id)
<1> DEFINE I == {j \in 1 .. Len(entries) : entries[j].is = kind /\ entries[j].id = id}
<1>1. RequestIndex(entries, kind, id) = IF I # {} THEN Min(I) ELSE 0
  BY DEF RequestIndex, SelectInSeq
<1>2. I # {} => Min(I) \in I
  <2> SUFFICES ASSUME I # {} PROVE Min(I) \in I
    OBVIOUS
  <2>1. I \subseteq Nat
    OBVIOUS
  <2> HIDE DEF I
  <2>2. \E j \in I : \A m \in I : j <= m
    BY <2>1, LeastNumber
  <2> QED BY <2>2 DEF Min
<1>3. DOMAIN entries = 1 .. Len(entries)
  OBVIOUS
<1>4. CASE I # {}
  BY <1>1, <1>2, <1>4
<1>5. CASE I = {}
  BY <1>1, <1>3, <1>5
<1> QED BY <1>4, <1>5

\* The turn an answer is looked for in.
LEMMA TurnFound ==
    ASSUME NEW items \in Seq(ItemSet), NEW kind, NEW id
    PROVE  LET t == SelectInSeq(items, LAMBDA item :
                        item.is = "turn" /\ RequestIndex(item.entries, kind, id) > 0)
           IN  /\ t \in 0 .. Len(items)
               /\ t > 0 => items[t].is = "turn" /\ RequestIndex(items[t].entries, kind, id) > 0
               /\ t = 0 => \A u \in DOMAIN items :
                     ~(items[u].is = "turn" /\ RequestIndex(items[u].entries, kind, id) > 0)
<1> DEFINE I == {j \in 1 .. Len(items) :
                    items[j].is = "turn" /\ RequestIndex(items[j].entries, kind, id) > 0}
           t == SelectInSeq(items, LAMBDA item :
                        item.is = "turn" /\ RequestIndex(item.entries, kind, id) > 0)
<1>1. t = IF I # {} THEN Min(I) ELSE 0
  BY DEF SelectInSeq
<1>2. I # {} => Min(I) \in I
  <2> SUFFICES ASSUME I # {} PROVE Min(I) \in I
    OBVIOUS
  <2>1. I \subseteq Nat
    OBVIOUS
  <2> HIDE DEF I
  <2>2. \E j \in I : \A m \in I : j <= m
    BY <2>1, LeastNumber
  <2> QED BY <2>2 DEF Min
<1>3. DOMAIN items = 1 .. Len(items)
  OBVIOUS
<1> HIDE DEF t
<1>4. CASE I # {}
  BY <1>1, <1>2, <1>4 DEF t
<1>5. CASE I = {}
  BY <1>1, <1>3, <1>5 DEF t
<1> QED BY <1>4, <1>5

\* A request is shown once.
LEMMA AskedOnce ==
    ASSUME LogFits, NEW items, NEW events, events \subseteq DOMAIN log, NEW n,
           Headed(items), Placed(items, events, n),
           NEW t, NEW j, NEW u, NEW l, Asks(items, t, j), Asks(items, u, l),
           items[t].entries[j].is = items[u].entries[l].is,
           items[t].entries[j].id = items[u].entries[l].id
    PROVE  t = u /\ j = l
<1> DEFINE x == items[t].entries[j]
           y == items[u].entries[l]
<1>1. 1 \in DOMAIN x.parts /\ log[x.parts[1]].kind = x.is /\ log[x.parts[1]].id = x.id
  BY DEF Headed
<1>2. 1 \in DOMAIN y.parts /\ log[y.parts[1]].kind = y.is /\ log[y.parts[1]].id = y.id
  BY DEF Headed
<1>3. At(items, t, j, 1, x.parts[1]) /\ At(items, u, l, 1, y.parts[1])
  BY <1>1, <1>2 DEF At, Asks
<1>4. x.parts[1] \in DOMAIN log /\ y.parts[1] \in DOMAIN log
  BY <1>3 DEF Placed
<1>5. x.is \in Requests /\ y.is = x.is /\ y.id = x.id
  BY DEF Asks
<1> HIDE DEF x, y
<1>6. x.parts[1] = y.parts[1]
  BY <1>1, <1>2, <1>4, <1>5 DEF LogFits
<1> QED BY <1>3, <1>6 DEF Placed

\* What an answer decides.
Verdict(e, known) ==
    IF e.kind = "permission_response" /\ known[e.id] # Nobody THEN known[e.id] ELSE e.choice

\* b is a with the requests that e answers decided.
Marks(a, b, e, known) ==
    /\ Kin(a, b)
    /\ \A t \in DOMAIN a : a[t].is = "turn" => b[t].status = a[t].status
    /\ \A t, j : Asks(a, t, j) =>
           b[t].entries[j].decision =
               IF a[t].entries[j].is = RequestKind(e) /\ a[t].entries[j].id = e.id
               THEN Verdict(e, known) ELSE a[t].entries[j].decision

\* An answer decides for something that was said.
LEMMA VerdictSaid ==
    ASSUME NEW e \in EventSet, e.kind \in Responses, e.id \in Name, NEW known \in [Name -> Said]
    PROVE  Verdict(e, known) \in Said
BY DEF Verdict, EventSet

\* Deciding a request that is found decides what the event answers, and nothing else.
LEMMA MarkOne ==
    ASSUME LogFits, NEW items \in Seq(ItemSet), NEW events, events \subseteq DOMAIN log, NEW n,
           Headed(items), Placed(items, events, n),
           NEW e \in EventSet, e.kind \in Responses, e.id \in Name, NEW known \in [Name -> Said],
           NEW t \in DOMAIN items, items[t].is = "turn",
           NEW r \in DOMAIN items[t].entries,
           items[t].entries[r].is = RequestKind(e), items[t].entries[r].id = e.id
    PROVE  Marks(items, [items EXCEPT ![t].entries = Decided(@, r, e, known)], e, known)
<1> DEFINE entries == items[t].entries
           made == Decided(entries, r, e, known)
           b == [items EXCEPT ![t].entries = Decided(@, r, e, known)]
<1>1. items[t] \in TurnSet /\ entries \in Seq(EntrySet) /\ t \in 1 .. Len(items)
  BY ItemShapes
<1>2. r \in 1 .. Len(entries) /\ entries[r] \in EntrySet
  BY <1>1
<1>3. made = [entries EXCEPT ![r] = [is |-> entries[r].is, id |-> entries[r].id,
                  parts |-> entries[r].parts, decision |-> Verdict(e, known)]]
  <2>1. made = [entries EXCEPT ![r].decision = Verdict(e, known)]
    BY DEF Decided, Verdict
  <2> HIDE DEF made
  <2>2. [entries[r] EXCEPT !.decision = Verdict(e, known)] =
            [is |-> entries[r].is, id |-> entries[r].id, parts |-> entries[r].parts,
             decision |-> Verdict(e, known)]
    BY <1>2 DEF EntrySet
  <2> QED BY <2>1, <2>2
<1>4. Verdict(e, known) \in Said
  BY VerdictSaid
<1> HIDE DEF made
<1>5. made \in Seq(EntrySet) /\ Len(made) = Len(entries)
  BY <1>1, <1>2, <1>3, <1>4 DEF EntrySet
<1>6. \A j \in 1 .. Len(entries) :
          /\ made[j].is = entries[j].is /\ made[j].id = entries[j].id
          /\ made[j].parts = entries[j].parts
          /\ made[j].decision = IF j = r THEN Verdict(e, known) ELSE entries[j].decision
  BY <1>1, <1>2, <1>3
<1>7. b = [items EXCEPT ![t] = [is |-> "turn", seq |-> items[t].seq, status |-> items[t].status,
                                entries |-> made]]
  <2>1. b = [items EXCEPT ![t].entries = made]
    BY DEF made
  <2> HIDE DEF b
  <2>2. [items[t] EXCEPT !.entries = made] = [is |-> "turn", seq |-> items[t].seq,
            status |-> items[t].status, entries |-> made]
    BY <1>1 DEF TurnSet
  <2> QED BY <2>1, <2>2
<1> HIDE DEF b
<1>8. [is |-> "turn", seq |-> items[t].seq, status |-> items[t].status, entries |-> made] \in ItemSet
  BY <1>1, <1>5 DEF ItemSet, TurnSet
<1>9. b \in Seq(ItemSet) /\ Len(b) = Len(items)
  BY <1>1, <1>7, <1>8
<1>10. \A u \in 1 .. Len(items) : b[u] = IF u = t THEN [is |-> "turn", seq |-> items[t].seq,
            status |-> items[t].status, entries |-> made] ELSE items[u]
  BY <1>1, <1>7
<1>11. Kin(items, b)
  BY <1>1, <1>5, <1>6, <1>9, <1>10 DEF Kin
<1>12. \A u \in DOMAIN items : items[u].is = "turn" => b[u].status = items[u].status
  BY <1>10
<1>13. Asks(items, t, r)
  BY DEF Asks, RequestKind, Requests
<1>14. ASSUME NEW u, NEW j, Asks(items, u, j)
       PROVE  b[u].entries[j].decision =
                  IF items[u].entries[j].is = RequestKind(e) /\ items[u].entries[j].id = e.id
                  THEN Verdict(e, known) ELSE items[u].entries[j].decision
  <2>1. u \in 1 .. Len(items) /\ j \in DOMAIN items[u].entries
    BY <1>14 DEF Asks
  <2>2. CASE items[u].entries[j].is = RequestKind(e) /\ items[u].entries[j].id = e.id
    <3>1. u = t /\ j = r
      BY <1>13, <1>14, <2>2, AskedOnce
    <3> QED BY <1>2, <1>6, <1>10, <2>1, <2>2, <3>1
  <2>3. CASE ~(items[u].entries[j].is = RequestKind(e) /\ items[u].entries[j].id = e.id)
    <3>1. CASE u = t
      <4>1. j \in 1 .. Len(entries) /\ j # r
        BY <1>1, <2>1, <2>3, <3>1
      <4> QED BY <1>6, <1>10, <2>1, <2>3, <3>1, <4>1
    <3>2. CASE u # t
      BY <1>10, <2>1, <2>3, <3>2
    <3> QED BY <3>1, <3>2
  <2> QED BY <2>2, <2>3
<1>15. Marks(items, b, e, known)
  BY <1>11, <1>12, <1>14 DEF Marks
<1> QED BY <1>15 DEF b

\* MarkInItems decides what the event answers, in whatever turn it is.
LEMMA MarkAny ==
    ASSUME LogFits, NEW items \in Seq(ItemSet), NEW events, events \subseteq DOMAIN log, NEW n,
           Headed(items), Placed(items, events, n),
           NEW e \in EventSet, e.kind \in Responses, e.id \in Name, NEW known \in [Name -> Said]
    PROVE  Marks(items, MarkInItems(items, e, known), e, known)
<1> DEFINE kind == RequestKind(e)
           t == SelectInSeq(items, LAMBDA item :
                        item.is = "turn" /\ RequestIndex(item.entries, kind, e.id) > 0)
<1>1. MarkInItems(items, e, known) =
          IF t = 0 THEN items
          ELSE [items EXCEPT ![t].entries = Decided(@, RequestIndex(@, kind, e.id), e, known)]
  BY DEF MarkInItems
<1>2. /\ t \in 0 .. Len(items)
      /\ t > 0 => items[t].is = "turn" /\ RequestIndex(items[t].entries, kind, e.id) > 0
      /\ t = 0 => \A u \in DOMAIN items :
                    ~(items[u].is = "turn" /\ RequestIndex(items[u].entries, kind, e.id) > 0)
  BY TurnFound
<1> HIDE DEF t
<1>3. CASE t = 0
  <2>1. ASSUME NEW u, NEW j, Asks(items, u, j)
        PROVE  ~(items[u].entries[j].is = kind /\ items[u].entries[j].id = e.id)
    <3>1. items[u].entries \in Seq(EntrySet) /\ u \in DOMAIN items /\ items[u].is = "turn"
      BY <2>1, ItemShapes DEF Asks
    <3> DEFINE r == RequestIndex(items[u].entries, kind, e.id)
    <3>2. /\ r \in 0 .. Len(items[u].entries)
          /\ r = 0 => \A l \in DOMAIN items[u].entries :
                 ~(items[u].entries[l].is = kind /\ items[u].entries[l].id = e.id)
      BY <3>1, RequestFound
    <3>3. ~(r > 0)
      BY <1>2, <1>3, <3>1
    <3> HIDE DEF r
    <3>4. r = 0
      <4>1. Len(items[u].entries) \in Nat
        BY <3>1
      <4> QED BY <3>2, <3>3, <4>1
    <3> QED BY <2>1, <3>2, <3>4 DEF Asks
  <2>2. Kin(items, items)
    BY DEF Kin
  <2>3. Marks(items, items, e, known)
    BY <2>1, <2>2 DEF Marks
  <2> QED BY <1>1, <1>3, <2>3
<1>4. CASE t # 0
  <2> DEFINE r == RequestIndex(items[t].entries, kind, e.id)
  <2>1. t \in DOMAIN items /\ items[t].is = "turn" /\ r > 0
    BY <1>2, <1>4
  <2>2. items[t].entries \in Seq(EntrySet)
    BY <2>1, ItemShapes
  <2>3. r \in 0 .. Len(items[t].entries) /\ items[t].entries[r].is = kind
        /\ items[t].entries[r].id = e.id
    BY <2>1, <2>2, RequestFound
  <2> HIDE DEF r
  <2>4. r \in DOMAIN items[t].entries
    BY <2>1, <2>2, <2>3
  <2>5. Marks(items, [items EXCEPT ![t].entries = Decided(@, r, e, known)], e, known)
    BY <2>1, <2>3, <2>4, MarkOne
  <2>6. MarkInItems(items, e, known) = [items EXCEPT ![t].entries = Decided(@, r, e, known)]
    BY <1>1, <1>4, <2>1 DEF r
  <2> QED BY <2>5, <2>6
<1> QED BY <1>3, <1>4

\* The event itself is the latest answer of its kind and id ...
LEMMA LatestNew ==
    ASSUME NEW events, events \subseteq Nat, NEW n \in Nat, n + 1 \in events
    PROVE  LatestOf(events, n + 1, log[n + 1].kind, log[n + 1].id) = log[n + 1].choice
<1> DEFINE S == ToldOf(events, n + 1, log[n + 1].kind, log[n + 1].id)
<1>1. n + 1 \in S /\ \A k \in S : k \in Nat /\ k <= n + 1
  BY DEF ToldOf
<1> HIDE DEF S
<1>2. Max(S) = n + 1
  <2>1. \A x \in S : (\A y \in S : x >= y) => x = n + 1
    BY <1>1
  <2>2. \A y \in S : n + 1 >= y
    BY <1>1
  <2> QED BY <1>1, <2>1, <2>2 DEF Max
<1> QED BY <1>1, <1>2 DEF LatestOf, S

\* ... and none of another kind or id.
LEMMA LatestOld ==
    ASSUME NEW events, events \subseteq Nat, NEW n \in Nat, NEW kind, NEW id,
           log[n + 1].kind # kind \/ log[n + 1].id # id
    PROVE  LatestOf(events, n + 1, kind, id) = LatestOf(events, n, kind, id)
<1>1. \A i \in events : i <= n + 1 <=> i <= n \/ i = n + 1
  OBVIOUS
<1>2. ToldOf(events, n + 1, kind, id) = ToldOf(events, n, kind, id)
  BY <1>1 DEF ToldOf
<1> QED BY <1>2 DEF LatestOf

\* An answer is shown with its request from its own event on.
LEMMA MarkedDecides ==
    ASSUME LogFits, NEW items \in Seq(ItemSet), NEW events, events \subseteq DOMAIN log,
           NEW n \in Nat, n + 1 \in events, log[n + 1].kind \in Responses,
           NEW known \in [Name -> Said], Decides(items, events, n, known),
           NEW b, Marks(items, b, log[n + 1], known)
    PROVE  Decides(b, events, n + 1, known)
<1> DEFINE e == log[n + 1]
<1>1. events \subseteq Nat
  BY DEF LogFits
<1>2. SameEntries(items, b)
  BY KinSame DEF Marks
<1> SUFFICES ASSUME NEW t, NEW j, Asks(items, t, j)
             PROVE  b[t].entries[j].decision = Decision(events, n + 1, known, b[t].entries[j])
  BY <1>2 DEF SameEntries, Decides
<1> DEFINE x == items[t].entries[j]
           y == b[t].entries[j]
<1>3. y.is = x.is /\ y.id = x.id
  BY <1>2 DEF SameEntries
<1>4. x.decision = Decision(events, n, known, x) /\ x.is \in Requests
  BY DEF Decides, Asks
<1>5. y.decision = IF x.is = RequestKind(e) /\ x.id = e.id THEN Verdict(e, known) ELSE x.decision
  BY DEF Marks
<1>6. e.kind = "permission_response" \/ e.kind = "elicitation_response"
  BY DEF Responses
<1>7. LatestOf(events, n + 1, e.kind, e.id) = e.choice
  BY <1>1, LatestNew
<1> SUFFICES y.decision = Decision(events, n + 1, known, y)
  OBVIOUS
<1> HIDE DEF x, y
<1>8. CASE x.is = RequestKind(e) /\ x.id = e.id
  <2>1. CASE e.kind = "permission_response"
    <3>1. x.is = "permission_request"
      BY <1>8, <2>1 DEF RequestKind
    <3> QED BY <1>3, <1>5, <1>7, <1>8, <2>1, <3>1 DEF Decision, Verdict
  <2>2. CASE e.kind = "elicitation_response"
    <3>1. x.is = "elicitation_request"
      BY <1>8, <2>2 DEF RequestKind
    <3> QED BY <1>3, <1>5, <1>7, <1>8, <2>2, <3>1 DEF Decision, Verdict
  <2> QED BY <1>6, <2>1, <2>2
<1>9. CASE ~(x.is = RequestKind(e) /\ x.id = e.id)
  <2>1. x.is = "permission_request" =>
            LatestOf(events, n + 1, "permission_response", x.id) =
                LatestOf(events, n, "permission_response", x.id)
    <3>1. x.is = "permission_request" => e.kind # "permission_response" \/ e.id # x.id
      BY <1>9 DEF RequestKind
    <3> QED BY <1>1, <3>1, LatestOld
  <2>2. x.is = "elicitation_request" =>
            LatestOf(events, n + 1, "elicitation_response", x.id) =
                LatestOf(events, n, "elicitation_response", x.id)
    <3>1. x.is = "elicitation_request" => e.kind # "elicitation_response" \/ e.id # x.id
      BY <1>9 DEF RequestKind
    <3> QED BY <1>1, <3>1, LatestOld
  <2>3. Decision(events, n + 1, known, y) = Decision(events, n, known, x)
    <3>1. CASE x.is = "permission_request"
      BY <1>3, <2>1, <3>1 DEF Decision
    <3>2. CASE x.is = "elicitation_request"
      BY <1>3, <2>2, <3>2 DEF Decision
    <3> QED BY <1>4, <3>1, <3>2 DEF Requests
  <2> QED BY <1>4, <1>5, <1>9, <2>3
<1> QED BY <1>8, <1>9

\* After an answer a page is right about one more event.
LEMMA MarkedRight ==
    ASSUME LogFits, NEW events, events \subseteq DOMAIN log, NEW n \in Nat, n + 1 \in events,
           log[n + 1].kind \in Responses, NEW known \in [Name -> Said],
           NEW items \in Seq(ItemSet), NEW open, NEW m, OneOpen(items, open), InOrder(items, m),
           Placed(items, events, n), Together(items, open, events, n), Headed(items),
           Decides(items, events, n, known), NEW b, Marks(items, b, log[n + 1], known)
    PROVE  /\ b \in Seq(ItemSet) /\ OneOpen(b, open) /\ InOrder(b, m)
           /\ Placed(b, events, n + 1) /\ Together(b, open, events, n + 1) /\ Headed(b)
           /\ Decides(b, events, n + 1, known)
<1>1. events \subseteq Nat
  BY DEF LogFits
<1>2. /\ b \in Seq(ItemSet) /\ Len(b) = Len(items) /\ DOMAIN b = DOMAIN items
      /\ \A t \in DOMAIN items : b[t].is = items[t].is /\ b[t].seq = items[t].seq
      /\ \A t \in DOMAIN items : items[t].is = "turn" => b[t].status = items[t].status
  BY DEF Marks, Kin
<1>3. SameEntries(items, b)
  BY KinSame DEF Marks
<1>4. OneOpen(b, open)
  <2>1. open # 0 => open \in DOMAIN items
    BY DEF OneOpen
  <2> QED BY <1>2, <2>1 DEF OneOpen
<1>5. InOrder(b, m)
  BY <1>2 DEF InOrder
<1>6. log[n + 1].kind \notin Entering /\ ~Ends(n + 1)
  BY DEF Responses, Entering, TurnScoped, Ends
<1>7. Placed(b, events, n + 1)
  BY <1>1, <1>3, <1>6, SamePlaced, PlacedOn
<1>8. Together(b, open, events, n + 1)
  BY <1>1, <1>3, <1>6, SamePlaced, TogetherOn
<1>9. Headed(b)
  BY <1>3, SamePlaced
<1>10. Decides(b, events, n + 1, known)
  BY MarkedDecides
<1> QED BY <1>2, <1>4, <1>5, <1>7, <1>8, <1>9, <1>10

-----------------------------------------------------------------------------
(* The events that are no part of a turn.                                  *)

\* Items stay in the order of their events.
LEMMA OrderOn ==
    ASSUME NEW items \in Seq(ItemSet), NEW n \in Nat, InOrder(items, n) PROVE InOrder(items, n + 1)
<1>1. \A t \in DOMAIN items : items[t].seq \in Nat
  BY ItemShapes
<1> QED BY <1>1 DEF InOrder

\* An item for the next event comes last.
LEMMA OrderAppend ==
    ASSUME NEW items \in Seq(ItemSet), NEW n \in Nat, InOrder(items, n), NEW x \in ItemSet,
           x.seq = n + 1
    PROVE  InOrder(Append(items, x), n + 1)
<1> DEFINE b == Append(items, x)
<1>1. /\ b \in Seq(ItemSet) /\ Len(b) = Len(items) + 1 /\ Len(items) \in Nat
      /\ b[Len(items) + 1] = x /\ \A t \in 1 .. Len(items) : b[t] = items[t]
  OBVIOUS
<1> HIDE DEF b
<1>2. DOMAIN items = 1 .. Len(items) /\ DOMAIN b = 1 .. (Len(items) + 1)
  BY <1>1
<1>3. \A t \in DOMAIN items : items[t].seq \in Nat /\ items[t].seq <= n
  BY ItemShapes DEF InOrder
<1>4. \A t \in DOMAIN b : t \in DOMAIN items \/ t = Len(items) + 1
  BY <1>1, <1>2
<1>5. ASSUME NEW t \in DOMAIN b PROVE b[t].seq <= n + 1
  BY <1>1, <1>2, <1>3, <1>4
<1>6. ASSUME NEW t \in DOMAIN b, NEW u \in DOMAIN b, t < u PROVE b[t].seq < b[u].seq
  <2>1. t \in DOMAIN items
    BY <1>1, <1>2, <1>4, <1>6
  <2>2. CASE u \in DOMAIN items
    BY <1>1, <1>2, <1>6, <2>1, <2>2 DEF InOrder
  <2>3. CASE u = Len(items) + 1
    BY <1>1, <1>2, <1>3, <2>1, <2>3
  <2> QED BY <1>4, <2>2, <2>3
<1>7. InOrder(b, n + 1)
  BY <1>5, <1>6 DEF InOrder
<1> QED BY <1>7 DEF b

\* A clock runs from the first event of a turn to its end.
LEMMA ClockTyped ==
    ASSUME NEW p \in PageSet, NEW e
    PROVE  /\ Clock(p, e) \in {"none", "user", "state", "inferred"}
           /\ p.clock # "none" /\ e.kind # "turn_complete" => Clock(p, e) # "none"
           /\ e.kind \in TurnScoped \ {"turn_complete"} => Clock(p, e) # "none"
BY DEF Clock, PageSet, TurnScoped

\* An event that a page does not have, or does not show, leaves it right.
LEMMA QuietRight ==
    ASSUME LogFits, NEW events, events \subseteq DOMAIN log, NEW n \in Nat,
           NEW known \in [Name -> Said], NEW p, Right(p, events, n, known),
           n + 1 \in events => log[n + 1].kind \notin TurnScoped \cup Responses \cup {"user_message"}
    PROVE  Right(p, events, n + 1, known)
<1>1. events \subseteq Nat /\ p.items \in Seq(ItemSet)
  BY DEF LogFits, Right, PageSet
<1>2. InOrder(p.items, n + 1)
  BY <1>1, OrderOn DEF Right
<1>3. Placed(p.items, events, n + 1)
  BY <1>1, PlacedOn DEF Right, Entering
<1>4. n + 1 \in events => ~Ends(n + 1)
  BY DEF Ends, TurnScoped
<1>5. Together(p.items, p.open, events, n + 1)
  BY <1>1, <1>4, TogetherOn DEF Right
<1>6. Decides(p.items, events, n + 1, known)
  BY <1>1, DecidesOn DEF Right
<1> QED BY <1>2, <1>3, <1>5, <1>6 DEF Right

\* Errors and events that are only noted.
LEMMA PlainRight ==
    ASSUME LogFits, NEW events, events \subseteq DOMAIN log, NEW n \in Nat, n + 1 \in events,
           NEW known \in [Name -> Said], NEW p, Right(p, events, n, known),
           log[n + 1].kind \notin TurnScoped \cup Responses \cup {"user_message"}
    PROVE  Right(Ingested(p, log[n + 1], n + 1, known), events, n + 1, known)
<1> DEFINE e == log[n + 1]
<1>1. p \in PageSet /\ p.items \in Seq(ItemSet) /\ p.open \in Nat
  BY DEF Right, PageSet
<1>2. Right(p, events, n + 1, known)
  BY QuietRight
<1>3. e.kind # "turn_complete" /\ e.kind # "permission_response" /\ e.kind # "user_message"
      /\ e.kind \notin TurnScoped
  BY DEF TurnScoped, Responses
<1>4. /\ Clock(p, e) \in {"none", "user", "state", "inferred"}
      /\ p.clock # "none" => Clock(p, e) # "none"
  BY <1>1, <1>3, ClockTyped
<1> DEFINE c == Clock(p, e)
<1> HIDE DEF c
<1>5. CASE e.kind # "error"
  <2>1. Ingested(p, e, n + 1, known) = [items |-> p.items, open |-> p.open, clock |-> c]
    BY <1>1, <1>3, <1>5 DEF Ingested, c, PageSet
  <2> QED BY <1>1, <1>2, <1>4, <2>1 DEF Right, PageSet, c
<1>6. CASE e.kind = "error"
  <2> DEFINE x == Item("error", n + 1)
             b == Append(p.items, x)
  <2>1. x \in ItemSet /\ x.seq = n + 1 /\ x.is = "error"
    BY DEF Item, ItemSet
  <2>2. Ingested(p, e, n + 1, known) = [items |-> b, open |-> p.open, clock |-> c]
    BY <1>1, <1>3, <1>6 DEF Ingested, c, PageSet
  <2> HIDE DEF x
  <2>3. /\ b \in Seq(ItemSet) /\ Len(b) = Len(p.items) + 1 /\ Len(p.items) \in Nat
        /\ b[Len(p.items) + 1] = x /\ \A t \in 1 .. Len(p.items) : b[t] = p.items[t]
    BY <1>1, <2>1
  <2>4. SameEntries(p.items, b) /\ SameDecisions(p.items, b)
    BY <1>1, <2>1, MoreSame
  <2>5. InOrder(b, n + 1)
    BY <1>1, <2>1, OrderAppend DEF Right
  <2> HIDE DEF b
  <2>6. \A t \in DOMAIN b : t \in 1 .. Len(p.items) \/ t = Len(p.items) + 1
    BY <2>3
  <2>7. OneOpen(b, p.open)
    <3>1. OneOpen(p.items, p.open) /\ DOMAIN p.items = 1 .. Len(p.items)
      BY <1>1 DEF Right
    <3>2. p.open \in 0 .. Len(b) /\ (p.open # 0 => p.open \in 1 .. Len(p.items))
      BY <1>1, <2>3, <3>1 DEF OneOpen
    <3> QED BY <2>1, <2>3, <2>6, <3>1, <3>2 DEF OneOpen
  <2>8. Placed(b, events, n + 1) /\ Together(b, p.open, events, n + 1) /\ Headed(b)
    BY <1>2, <2>4, SamePlaced DEF Right
  <2>9. Decides(b, events, n + 1, known)
    BY <1>2, <2>4, SameDecides DEF Right
  <2>10. [items |-> b, open |-> p.open, clock |-> c] \in PageSet
    BY <1>1, <1>4, <2>3 DEF PageSet, c
  <2> QED BY <1>2, <1>4, <2>2, <2>5, <2>7, <2>8, <2>9, <2>10 DEF Right, c
<1> QED BY <1>5, <1>6

\* What an event of the log is.
LEMMA EventShape ==
    ASSUME LogFits, NEW i \in DOMAIN log
    PROVE  /\ log[i] \in EventSet /\ i \in Nat /\ log[i].id \in Label
           /\ log[i].kind \in Requests \cup Responses => log[i].id \in Name
<1>1. log \in Seq(EventSet)
  BY DEF LogFits
<1>2. log[i] \in EventSet /\ i \in Nat
  BY <1>1
<1> QED BY <1>2 DEF LogFits, EventSet

\* The answer to a permission (permission_response).
LEMMA PermissionRight ==
    ASSUME LogFits, NEW events, events \subseteq DOMAIN log, NEW n \in Nat, n + 1 \in events,
           NEW known \in [Name -> Said], NEW p, Right(p, events, n, known),
           log[n + 1].kind = "permission_response"
    PROVE  Right(Ingested(p, log[n + 1], n + 1, known), events, n + 1, known)
<1> DEFINE e == log[n + 1]
           b == MarkInItems(p.items, e, known)
<1>1. /\ p \in PageSet /\ p.items \in Seq(ItemSet) /\ p.open \in Nat
      /\ p.clock \in {"none", "user", "state", "inferred"}
  BY DEF Right, PageSet
<1>2. e \in EventSet /\ e.kind \in Responses /\ e.id \in Name
  <2>1. e.kind \in Responses
    BY DEF Responses
  <2> QED BY <2>1, EventShape
<1>3. Marks(p.items, b, e, known)
  <2>1. Headed(p.items) /\ Placed(p.items, events, n)
    BY DEF Right
  <2> QED BY <1>1, <1>2, <2>1, MarkAny
<1>4. Ingested(p, e, n + 1, known) = [items |-> b, open |-> p.open, clock |-> p.clock]
  BY <1>1 DEF Ingested, PageSet, TurnScoped
<1> HIDE DEF b
<1>5. /\ b \in Seq(ItemSet) /\ OneOpen(b, p.open) /\ InOrder(b, n)
      /\ Placed(b, events, n + 1) /\ Together(b, p.open, events, n + 1) /\ Headed(b)
      /\ Decides(b, events, n + 1, known)
  <2>1. /\ OneOpen(p.items, p.open) /\ InOrder(p.items, n) /\ Placed(p.items, events, n)
        /\ Together(p.items, p.open, events, n) /\ Headed(p.items)
        /\ Decides(p.items, events, n, known)
    BY DEF Right
  <2> QED BY <1>1, <1>2, <1>3, <2>1, MarkedRight
<1>6. InOrder(b, n + 1)
  BY <1>5, OrderOn
<1>7. [items |-> b, open |-> p.open, clock |-> p.clock] \in PageSet
  BY <1>1, <1>5 DEF PageSet
<1>8. p.open # 0 => p.clock # "none"
  BY DEF Right
<1> QED BY <1>4, <1>5, <1>6, <1>7, <1>8 DEF Right

\* Closing the open turn changes its status only.
LEMMA Closed ==
    ASSUME NEW p \in PageSet, OneOpen(p.items, p.open)
    PROVE  /\ CloseTurn(p) \in Seq(ItemSet) /\ OneOpen(CloseTurn(p), 0)
           /\ SameEntries(p.items, CloseTurn(p)) /\ SameDecisions(p.items, CloseTurn(p))
           /\ DOMAIN CloseTurn(p) = DOMAIN p.items
           /\ \A t \in DOMAIN p.items : CloseTurn(p)[t].seq = p.items[t].seq
<1> DEFINE a == p.items
           b == CloseTurn(p)
<1>1. a \in Seq(ItemSet) /\ p.open \in Nat
  BY DEF PageSet
<1> HIDE DEF a
<1>2. CASE p.open = 0
  <2>1. b = a
    BY <1>2 DEF CloseTurn, a
  <2>2. OneOpen(a, 0)
    BY <1>2 DEF a
  <2>3. SameEntries(a, a) /\ SameDecisions(a, a)
    BY DEF SameEntries, SameDecisions
  <2> QED BY <1>1, <2>1, <2>2, <2>3 DEF a
<1>3. CASE p.open # 0
  <2> DEFINE o == p.open
             x == [is |-> "turn", seq |-> a[o].seq, status |-> "complete", entries |-> a[o].entries]
  <2>1. o \in DOMAIN a /\ a[o].is = "turn" /\ DOMAIN a = 1 .. Len(a) /\ Len(a) \in Nat
    BY <1>1, <1>3 DEF OneOpen, a
  <2>2. a[o] \in TurnSet
    BY <1>1, <2>1, ItemShapes
  <2>3. b = [a EXCEPT ![o].status = "complete"]
    BY <1>3 DEF CloseTurn, a
  <2> HIDE DEF b
  <2>4. [a[o] EXCEPT !.status = "complete"] = x
    BY <2>2 DEF TurnSet
  <2>5. x \in ItemSet
    BY <2>2 DEF ItemSet, TurnSet
  <2> DEFINE y == x
  <2>6. y.is = "turn" /\ y.seq = a[o].seq /\ y.status = "complete" /\ y.entries = a[o].entries
    OBVIOUS
  <2>7. b = [a EXCEPT ![o] = y]
    BY <2>3, <2>4
  <2>8. y \in ItemSet
    BY <2>5
  <2> HIDE DEF y
  <2>9. b \in Seq(ItemSet) /\ Len(b) = Len(a) /\ DOMAIN b = DOMAIN a
    BY <1>1, <2>1, <2>7, <2>8
  <2>10. \A t \in DOMAIN a : b[t] = IF t = o THEN y ELSE a[t]
    BY <2>7
  <2>11. \A t \in DOMAIN a : /\ b[t].is = a[t].is /\ b[t].seq = a[t].seq
                             /\ a[t].is = "turn" => b[t].entries = a[t].entries
    BY <2>1, <2>6, <2>10
  <2>12. Kin(a, b)
    BY <2>1, <2>9, <2>11 DEF Kin
  <2>13. SameEntries(a, b)
    BY <1>1, <2>12, KinSame
  <2>14. SameDecisions(a, b)
    BY <2>11 DEF SameDecisions, Asks
  <2>15. OneOpen(b, 0)
    <3>1. \A t \in DOMAIN b : b[t].is = "turn" => b[t].status # "in_progress"
      BY <2>1, <2>6, <2>9, <2>10 DEF OneOpen, a
    <3> QED BY <2>1, <2>9, <3>1 DEF OneOpen
  <2> QED BY <2>9, <2>11, <2>13, <2>14, <2>15 DEF a, b
<1> QED BY <1>2, <1>3

\* A user's message closes the turn that is open.
LEMMA MessageRight ==
    ASSUME LogFits, NEW events, events \subseteq DOMAIN log, NEW n \in Nat, n + 1 \in events,
           NEW known \in [Name -> Said], NEW p, Right(p, events, n, known),
           log[n + 1].kind = "user_message"
    PROVE  Right(Ingested(p, log[n + 1], n + 1, known), events, n + 1, known)
<1> DEFINE e == log[n + 1]
           c == CloseTurn(p)
           x == Item("user_message", n + 1)
           b == Append(c, x)
<1>1. p \in PageSet /\ p.items \in Seq(ItemSet) /\ p.open \in Nat /\ events \subseteq Nat
  BY DEF Right, PageSet, LogFits
<1>2. /\ c \in Seq(ItemSet) /\ OneOpen(c, 0) /\ SameEntries(p.items, c) /\ SameDecisions(p.items, c)
      /\ DOMAIN c = DOMAIN p.items /\ \A t \in DOMAIN p.items : c[t].seq = p.items[t].seq
  BY <1>1, Closed DEF Right
<1>3. x \in ItemSet /\ x.seq = n + 1 /\ x.is = "user_message"
  BY DEF Item, ItemSet
<1>4. Ingested(p, e, n + 1, known) = [items |-> b, open |-> 0, clock |-> "user"]
  BY <1>1 DEF Ingested, PageSet, TurnScoped, Clock
<1> HIDE DEF c, x
<1>5. InOrder(c, n)
  BY <1>2 DEF InOrder, Right
<1>6. InOrder(b, n + 1)
  BY <1>2, <1>3, <1>5, OrderAppend
<1>7. SameEntries(c, b) /\ SameDecisions(c, b)
  BY <1>2, <1>3, MoreSame
<1>8. /\ b \in Seq(ItemSet) /\ Len(b) = Len(c) + 1 /\ Len(c) \in Nat
      /\ b[Len(c) + 1] = x /\ \A t \in 1 .. Len(c) : b[t] = c[t]
  BY <1>2, <1>3
<1> HIDE DEF b
<1>9. OneOpen(b, 0)
  <2>1. \A t \in DOMAIN b : t \in DOMAIN c \/ t = Len(c) + 1
    BY <1>2, <1>8
  <2> QED BY <1>2, <1>3, <1>8, <2>1 DEF OneOpen
<1>10. e.kind \notin Entering /\ e.kind \notin Responses
  BY DEF Entering, TurnScoped, Responses
<1>11. Placed(p.items, events, n + 1)
  BY <1>1, <1>10, PlacedOn DEF Right
<1>12. Together(p.items, 0, events, n + 1)
  <2>1. 0 \notin DOMAIN p.items /\ Together(p.items, p.open, events, n)
    BY <1>1 DEF Right
  <2> QED BY <2>1, TogetherClosed
<1>13. Decides(p.items, events, n + 1, known)
  BY <1>1, <1>10, DecidesOn DEF Right
<1>14. Placed(b, events, n + 1) /\ Together(b, 0, events, n + 1) /\ Headed(b)
  BY <1>2, <1>7, <1>11, <1>12, SamePlaced DEF Right
<1>15. Decides(b, events, n + 1, known)
  BY <1>2, <1>7, <1>13, SameDecides
<1>16. [items |-> b, open |-> 0, clock |-> "user"] \in PageSet
  BY <1>8 DEF PageSet
<1> QED BY <1>4, <1>6, <1>9, <1>14, <1>15, <1>16 DEF Right

-----------------------------------------------------------------------------
(* An event of a turn.                                                     *)

\* The items and the turn an event of a turn goes to.
Begun(p, i) == IF p.open = 0 THEN Append(p.items, [NewTurn EXCEPT !.seq = i]) ELSE p.items
Current(p, i) == IF p.open = 0 THEN Len(Begun(p, i)) ELSE p.open

\* The turn that an event goes to is open, or new and empty.
LEMMA Opened ==
    ASSUME NEW p, NEW events, NEW n \in Nat, NEW known, Right(p, events, n, known)
    PROVE  LET items == Begun(p, n + 1)
               t == Current(p, n + 1)
           IN  /\ items \in Seq(ItemSet) /\ t \in DOMAIN items /\ t \in Nat \ {0} /\ items[t] \in TurnSet
               /\ OneOpen(items, t) /\ InOrder(items, n + 1) /\ Placed(items, events, n)
               /\ Together(items, t, events, n) /\ Headed(items) /\ Decides(items, events, n, known)
<1> DEFINE items == Begun(p, n + 1)
           t == Current(p, n + 1)
<1>1. p \in PageSet /\ p.items \in Seq(ItemSet) /\ p.open \in Nat
  BY DEF Right, PageSet
<1>2. CASE p.open # 0
  <2>1. items = p.items /\ t = p.open
    BY <1>2 DEF Begun, Current
  <2>2. p.open \in DOMAIN p.items /\ p.items[p.open].is = "turn"
    BY <1>1, <1>2 DEF Right, OneOpen
  <2>3. p.items[p.open] \in TurnSet
    BY <1>1, <2>2, ItemShapes
  <2>4. InOrder(p.items, n + 1)
    BY <1>1, OrderOn DEF Right
  <2> HIDE DEF items, t
  <2> QED BY <1>1, <1>2, <2>1, <2>2, <2>3, <2>4 DEF Right, items, t
<1>3. CASE p.open = 0
  <2> DEFINE x == [NewTurn EXCEPT !.seq = n + 1]
             a == p.items
  <2>1. x = [is |-> "turn", seq |-> n + 1, status |-> "in_progress", entries |-> <<>>]
    BY DEF NewTurn
  <2> HIDE DEF x
  <2>2. x \in TurnSet /\ x \in ItemSet /\ x.seq = n + 1 /\ x.entries = <<>> /\ x.is = "turn"
    <3>1. <<>> \in Seq(EntrySet)
      OBVIOUS
    <3>2. x \in TurnSet
      BY <2>1, <3>1 DEF TurnSet
    <3> QED BY <2>1, <3>2 DEF ItemSet
  <2>3. items = Append(a, x) /\ t = Len(items)
    BY <1>3 DEF Begun, Current, x
  <2> HIDE DEF items, t, a
  <2>4. a \in Seq(ItemSet) /\ InOrder(a, n) /\ OneOpen(a, 0)
    <3>1. InOrder(p.items, n) /\ OneOpen(p.items, p.open)
      BY DEF Right
    <3> QED BY <1>1, <1>3, <3>1 DEF a
  <2>5. /\ items \in Seq(ItemSet) /\ Len(items) = Len(a) + 1 /\ Len(a) \in Nat
        /\ items[Len(a) + 1] = x /\ \A u \in 1 .. Len(a) : items[u] = a[u]
    BY <2>2, <2>3, <2>4
  <2>6. SameEntries(a, items) /\ SameDecisions(a, items)
    BY <2>2, <2>3, <2>4, MoreSame
  <2>7. InOrder(items, n + 1)
    BY <2>2, <2>3, <2>4, OrderAppend
  <2>8. DOMAIN items = 1 .. (Len(a) + 1) /\ DOMAIN a = 1 .. Len(a)
    BY <2>4, <2>5
  <2>9. OneOpen(items, t)
    <3>1. \A u \in DOMAIN items : u \in DOMAIN a \/ u = t
      BY <2>3, <2>5, <2>8
    <3> QED BY <2>2, <2>3, <2>4, <2>5, <2>8, <3>1 DEF OneOpen
  <2>10. Placed(items, events, n) /\ Headed(items)
    BY <2>6, SamePlaced DEF Right, a
  <2>11. Decides(items, events, n, known)
    BY <2>6, SameDecides DEF Right, a
  <2>12. Together(items, t, events, n)
    <3>1. Together(items, 0, events, n)
      BY <1>3, <2>6, SamePlaced DEF Right, a
    <3>2. \A j, k, i : ~At(items, t, j, k, i)
      BY <2>2, <2>3, <2>5 DEF At
    <3> QED BY <3>1, <3>2 DEF Together
  <2> QED BY <2>2, <2>3, <2>5, <2>7, <2>8, <2>9, <2>10, <2>11, <2>12 DEF items, t
<1> QED BY <1>2, <1>3

\* The entries b are a with event i: as a part of an entry that is no request, or as an
\* entry, and a request is decided as this page has answered it.
Grows(a, b, e, i, known) ==
    \/ \E j \in DOMAIN a : a[j].is \notin Requests /\ b = Extended(a, j, i)
    \/ \E x \in EntrySet :
          /\ b = Append(a, x) /\ x.parts = <<i>>
          /\ x.is \in Requests =>
               /\ x.is = e.kind /\ x.id = e.id
               /\ x.decision = IF e.kind = "permission_request" THEN known[e.id] ELSE Nobody

\* What a new entry is.
LEMMA EntryNew ==
    ASSUME NEW is \in {"chunk", "tool_call", "plan"} \cup Requests, NEW id \in Label, NEW i \in Nat
    PROVE  /\ Entry(is, id, i) \in EntrySet /\ Entry(is, id, i).is = is
           /\ Entry(is, id, i).id = id /\ Entry(is, id, i).parts = <<i>>
           /\ Entry(is, id, i).decision = Nobody
BY DEF Entry, EntrySet, Said

\* The call an update goes to.
LastCall(entries, e) == SelectLastInSeq(entries, LAMBDA x : x.is = "tool_call" /\ x.id = e.id)

\* LastCall finds a call.
LEMMA LastFound ==
    ASSUME NEW entries \in Seq(EntrySet), NEW e
    PROVE  LET j == LastCall(entries, e) IN
           /\ j \in 0 .. Len(entries)
           /\ j > 0 => entries[j].is = "tool_call"
<1> DEFINE I == {j \in 1 .. Len(entries) : entries[j].is = "tool_call" /\ entries[j].id = e.id}
           r == LastCall(entries, e)
<1>1. r = IF I # {} THEN Max(I) ELSE 0
  BY DEF LastCall, SelectLastInSeq
<1>2. I # {} => Max(I) \in I
  <2> SUFFICES ASSUME I # {} PROVE Max(I) \in I
    OBVIOUS
  <2>1. I \subseteq 1 .. Len(entries) /\ Len(entries) \in Nat
    OBVIOUS
  <2> HIDE DEF I
  <2>2. \E j \in I : \A m \in I : j >= m
    BY <2>1, GreatestNumber
  <2> QED BY <2>2 DEF Max
<1> HIDE DEF r
<1>3. CASE I # {}
  BY <1>1, <1>2, <1>3 DEF r
<1>4. CASE I = {}
  BY <1>1, <1>4 DEF r
<1> QED BY <1>3, <1>4

\* applyTurnEvent adds the event to an entry that is no request, or as an entry.
LEMMA ApplyGrows ==
    ASSUME NEW a \in Seq(EntrySet), NEW e \in EventSet, e.kind \in Entering,
           e.kind \in Requests => e.id \in Name, NEW i \in Nat, NEW known \in [Name -> Said]
    PROVE  Grows(a, ApplyTurnEvent(a, e, i, known), e, i, known)
<1> DEFINE n == Len(a)
           b == ApplyTurnEvent(a, e, i, known)
<1>1. n \in Nat /\ DOMAIN a = 1 .. n /\ e.id \in Label /\ Nobody \in Label
  BY DEF EventSet, Label
<1>2. CASE e.kind = "chunk"
  <2>1. b = Chunk(a, e, i)
    BY <1>2 DEF ApplyTurnEvent
  <2>2. CASE n > 0 /\ a[n].is = "chunk" /\ e.id \in {Nobody, a[n].id}
    <3>1. b = Extended(a, n, i)
      BY <2>1, <2>2 DEF Chunk
    <3> QED BY <1>1, <2>2, <3>1 DEF Grows, Requests
  <2>3. CASE ~(n > 0 /\ a[n].is = "chunk" /\ e.id \in {Nobody, a[n].id})
    <3> DEFINE x == Entry("chunk", e.id, i)
    <3>1. b = Append(a, x)
      BY <2>1, <2>3 DEF Chunk
    <3>2. x \in EntrySet /\ x.parts = <<i>> /\ x.is \notin Requests
      BY <1>1, EntryNew DEF Requests
    <3> QED BY <3>1, <3>2 DEF Grows
  <2> QED BY <2>2, <2>3
<1>3. CASE e.kind = "tool_call"
  <2> DEFINE x == Entry("tool_call", e.id, i)
  <2>1. b = Append(a, x)
    BY <1>3 DEF ApplyTurnEvent
  <2>2. x \in EntrySet /\ x.parts = <<i>> /\ x.is \notin Requests
    BY <1>1, EntryNew DEF Requests
  <2> QED BY <2>1, <2>2 DEF Grows
<1>4. CASE e.kind = "tool_call_update"
  <2> DEFINE j == LastCall(a, e)
             y == Entry("tool_call", e.id, i)
  <2>1. b = IF j > 0 THEN Extended(a, j, i) ELSE Append(a, y)
    BY <1>4 DEF ApplyTurnEvent, ToolUpdate, LastCall
  <2>2. j \in 0 .. n /\ (j > 0 => a[j].is = "tool_call")
    BY LastFound
  <2>3. y \in EntrySet /\ y.parts = <<i>> /\ y.is \notin Requests
    BY <1>1, EntryNew DEF Requests
  <2> HIDE DEF j, y, b
  <2>4. CASE j > 0
    <3>1. j \in DOMAIN a /\ a[j].is \notin Requests /\ b = Extended(a, j, i)
      BY <1>1, <2>1, <2>2, <2>4 DEF Requests
    <3> QED BY <3>1 DEF Grows, b
  <2>5. CASE ~(j > 0)
    BY <2>1, <2>3, <2>5 DEF Grows, b
  <2> QED BY <2>4, <2>5
<1>5. CASE e.kind = "plan"
  <2>1. b = Plan(a, i)
    BY <1>5 DEF ApplyTurnEvent
  <2>2. CASE n > 0 /\ a[n].is = "plan"
    <3>1. b = Extended(a, n, i)
      BY <2>1, <2>2 DEF Plan
    <3> QED BY <1>1, <2>2, <3>1 DEF Grows, Requests
  <2>3. CASE ~(n > 0 /\ a[n].is = "plan")
    <3> DEFINE x == Entry("plan", Nobody, i)
    <3>1. b = Append(a, x)
      BY <2>1, <2>3 DEF Plan
    <3>2. x \in EntrySet /\ x.parts = <<i>> /\ x.is \notin Requests
      BY <1>1, EntryNew DEF Requests
    <3> QED BY <3>1, <3>2 DEF Grows
  <2> QED BY <2>2, <2>3
<1>6. CASE e.kind = "permission_request"
  <2> DEFINE y == Entry("permission_request", e.id, i)
             x == [y EXCEPT !.decision = known[e.id]]
  <2>1. b = Append(a, x)
    BY <1>6 DEF ApplyTurnEvent, PermissionEntry
  <2>2. known[e.id] \in Said
    BY <1>6 DEF Requests
  <2>3. y \in EntrySet /\ y.parts = <<i>> /\ y.is = "permission_request" /\ y.id = e.id
    BY <1>1, EntryNew DEF Requests
  <2> HIDE DEF y
  <2>4. x = [is |-> y.is, id |-> y.id, parts |-> y.parts, decision |-> known[e.id]]
    BY <2>3 DEF EntrySet
  <2> HIDE DEF x
  <2>5. /\ x \in EntrySet /\ x.parts = <<i>> /\ x.is = e.kind /\ x.id = e.id
        /\ x.decision = known[e.id]
    BY <1>6, <2>2, <2>3, <2>4 DEF EntrySet
  <2> HIDE DEF b
  <2> QED BY <1>6, <2>1, <2>5 DEF Grows, b
<1>7. CASE e.kind = "elicitation_request"
  <2> DEFINE x == Entry("elicitation_request", e.id, i)
  <2>1. b = Append(a, x)
    BY <1>7 DEF ApplyTurnEvent
  <2>2. /\ x \in EntrySet /\ x.parts = <<i>> /\ x.is = e.kind /\ x.id = e.id
        /\ x.decision = Nobody
    BY <1>1, <1>7, EntryNew DEF Requests
  <2> HIDE DEF b, x
  <2> QED BY <1>7, <2>1, <2>2 DEF Grows, b
<1> QED BY <1>2, <1>3, <1>4, <1>5, <1>6, <1>7 DEF Entering, TurnScoped

\* Part k of entry j is event h; x is the request that event i is.
PartAt(entries, j, k, h) ==
    j \in DOMAIN entries /\ k \in DOMAIN entries[j].parts /\ entries[j].parts[k] = h
Asked(x, e, i, known) ==
    /\ x.parts = <<i>> /\ x.is = e.kind /\ x.id = e.id
    /\ x.decision = IF e.kind = "permission_request" THEN known[e.id] ELSE Nobody

\* One part more, as part m of entry l; as that of turn t.
MorePart(a, b, l, m, i) ==
    \A j, k, h : PartAt(b, j, k, h) <=> PartAt(a, j, k, h) \/ (j = l /\ k = m /\ h = i)
MoreAt(items, b, t, l, m, i) ==
    \A u, j, k, h : At(b, u, j, k, h) <=> At(items, u, j, k, h) \/ (u = t /\ j = l /\ k = m /\ h = i)

\* The event is one part more.
LEMMA GrownPlaces ==
    ASSUME NEW a \in Seq(EntrySet), NEW e, NEW i \in Nat, NEW known, NEW b,
           Grows(a, b, e, i, known)
    PROVE  /\ b \in Seq(EntrySet)
           /\ \E l, m : MorePart(a, b, l, m, i)
           /\ \A j \in DOMAIN b : b[j].is \in Requests =>
                  (j \in DOMAIN a /\ b[j] = a[j]) \/ Asked(b[j], e, i, known)
<1>1. Len(a) \in Nat /\ DOMAIN a = 1 .. Len(a)
  OBVIOUS
<1>2. ASSUME NEW l \in DOMAIN a, a[l].is \notin Requests, b = Extended(a, l, i)
      PROVE  /\ b \in Seq(EntrySet)
             /\ \E m : MorePart(a, b, l, m, i)
             /\ \A j \in DOMAIN b : b[j].is \in Requests => j \in DOMAIN a /\ b[j] = a[j]
  <2> DEFINE parts == Append(a[l].parts, i)
             x == [is |-> a[l].is, id |-> a[l].id, parts |-> parts, decision |-> a[l].decision]
  <2>1. a[l] \in EntrySet /\ l \in 1 .. Len(a)
    BY <1>1
  <2>2. a[l].parts \in Seq(Nat)
    BY <2>1 DEF EntrySet
  <2>3. /\ parts \in Seq(Nat) /\ Len(parts) = Len(a[l].parts) + 1 /\ Len(a[l].parts) \in Nat
        /\ parts[Len(a[l].parts) + 1] = i /\ \A k \in 1 .. Len(a[l].parts) : parts[k] = a[l].parts[k]
        /\ DOMAIN a[l].parts = 1 .. Len(a[l].parts)
    BY <2>2
  <2>4. b = [a EXCEPT ![l].parts = parts]
    BY <1>2 DEF Extended
  <2> HIDE DEF parts
  <2>5. [a[l] EXCEPT !.parts = parts] = x
    <3>1. a[l] = [is |-> a[l].is, id |-> a[l].id, parts |-> a[l].parts, decision |-> a[l].decision]
      BY <2>1 DEF EntrySet
    <3> QED BY <3>1
  <2>6. b = [a EXCEPT ![l] = x]
    BY <2>4, <2>5
  <2>7. x \in EntrySet
    BY <2>1, <2>3 DEF EntrySet
  <2>8. x.parts = parts /\ x.is = a[l].is
    OBVIOUS
  <2> HIDE DEF x
  <2>9. b \in Seq(EntrySet) /\ DOMAIN b = DOMAIN a /\ \A j \in DOMAIN a : b[j] = IF j = l THEN x ELSE a[j]
    BY <1>1, <2>1, <2>6, <2>7
  <2> DEFINE m == Len(a[l].parts) + 1
  <2>10. \A k : k \in DOMAIN parts <=> k \in DOMAIN a[l].parts \/ k = m
    <3>1. DOMAIN parts = 1 .. (Len(a[l].parts) + 1)
      BY <2>3
    <3> QED BY <2>3, <3>1
  <2>11. \A k \in DOMAIN a[l].parts : parts[k] = a[l].parts[k]
    BY <2>3
  <2>12. parts[m] = i /\ m \notin DOMAIN a[l].parts
    BY <2>3
  <2> HIDE DEF m
  <2>13. ASSUME NEW j, NEW k, NEW h
         PROVE  PartAt(b, j, k, h) <=> PartAt(a, j, k, h) \/ (j = l /\ k = m /\ h = i)
    <3>1. CASE j = l
      BY <2>8, <2>9, <2>10, <2>11, <2>12, <3>1 DEF PartAt
    <3>2. CASE j # l
      BY <2>9, <3>2 DEF PartAt
    <3> QED BY <3>1, <3>2
  <2>14. \A j \in DOMAIN b : b[j].is \in Requests => j \in DOMAIN a /\ b[j] = a[j]
    BY <1>2, <2>8, <2>9
  <2>15. MorePart(a, b, l, m, i)
    BY <2>13 DEF MorePart
  <2> QED BY <2>9, <2>14, <2>15
<1>3. ASSUME NEW x \in EntrySet, b = Append(a, x), x.parts = <<i>>,
             x.is \in Requests =>
               /\ x.is = e.kind /\ x.id = e.id
               /\ x.decision = IF e.kind = "permission_request" THEN known[e.id] ELSE Nobody
      PROVE  /\ b \in Seq(EntrySet)
             /\ \E l : MorePart(a, b, l, 1, i)
             /\ \A j \in DOMAIN b : b[j].is \in Requests =>
                    (j \in DOMAIN a /\ b[j] = a[j]) \/ Asked(b[j], e, i, known)
  <2> DEFINE l == Len(a) + 1
  <2>1. b \in Seq(EntrySet) /\ Len(b) = Len(a) + 1 /\ b[l] = x /\ \A j \in DOMAIN a : b[j] = a[j]
    BY <1>1, <1>3
  <2>2. \A j : j \in DOMAIN b <=> j \in DOMAIN a \/ j = l
    <3>1. DOMAIN b = 1 .. (Len(a) + 1)
      BY <2>1
    <3> QED BY <1>1, <3>1
  <2>3. l \notin DOMAIN a
    BY <1>1
  <2> HIDE DEF l
  <2>4. \A k, h : k \in DOMAIN x.parts /\ x.parts[k] = h <=> k = 1 /\ h = i
    BY <1>3
  <2>5. ASSUME NEW j, NEW k, NEW h
        PROVE  PartAt(b, j, k, h) <=> PartAt(a, j, k, h) \/ (j = l /\ k = 1 /\ h = i)
    <3>1. CASE j = l
      BY <2>1, <2>2, <2>3, <2>4, <3>1 DEF PartAt
    <3>2. CASE j # l
      BY <2>1, <2>2, <3>2 DEF PartAt
    <3> QED BY <3>1, <3>2
  <2>6. x.is \in Requests => Asked(x, e, i, known)
    BY <1>3 DEF Asked
  <2>7. \A j \in DOMAIN b : b[j].is \in Requests =>
            (j \in DOMAIN a /\ b[j] = a[j]) \/ Asked(b[j], e, i, known)
    BY <2>1, <2>2, <2>6
  <2>8. MorePart(a, b, l, 1, i)
    BY <2>5 DEF MorePart
  <2> QED BY <2>1, <2>7, <2>8
<1>4. CASE \E l \in DOMAIN a : a[l].is \notin Requests /\ b = Extended(a, l, i)
  BY <1>2, <1>4
<1>5. CASE \E x \in EntrySet :
          /\ b = Append(a, x) /\ x.parts = <<i>>
          /\ x.is \in Requests =>
               /\ x.is = e.kind /\ x.id = e.id
               /\ x.decision = IF e.kind = "permission_request" THEN known[e.id] ELSE Nobody
  BY <1>3, <1>5
<1> QED BY <1>4, <1>5 DEF Grows

\* The items with the entries and the state of turn t made new.
Remade(items, t, entries, status) ==
    [items EXCEPT ![t] = [is |-> "turn", seq |-> items[t].seq, status |-> status, entries |-> entries]]

\* The page has one place more, that of the event.
LEMMA GrownTurn ==
    ASSUME NEW items \in Seq(ItemSet), NEW t \in DOMAIN items, items[t] \in TurnSet,
           NEW e, NEW i \in Nat, NEW known, NEW more, Grows(items[t].entries, more, e, i, known)
    PROVE  LET b == Remade(items, t, more, items[t].status) IN
           /\ b \in Seq(ItemSet)
           /\ \A open : OneOpen(items, open) => OneOpen(b, open)
           /\ \A n : InOrder(items, n) => InOrder(b, n)
           /\ \E l, m : MoreAt(items, b, t, l, m, i)
           /\ \A u, j : Asks(b, u, j) =>
                  (Asks(items, u, j) /\ b[u].entries[j] = items[u].entries[j])
                    \/ Asked(b[u].entries[j], e, i, known)
<1> DEFINE b == Remade(items, t, more, items[t].status)
           x == [is |-> "turn", seq |-> items[t].seq, status |-> items[t].status, entries |-> more]
           a == items[t].entries
<1>1. a \in Seq(EntrySet) /\ items[t].is = "turn"
  BY DEF TurnSet
<1>2. /\ more \in Seq(EntrySet)
      /\ \E l, m : MorePart(a, more, l, m, i)
      /\ \A j \in DOMAIN more : more[j].is \in Requests =>
             (j \in DOMAIN a /\ more[j] = a[j]) \/ Asked(more[j], e, i, known)
  BY <1>1, GrownPlaces
<1>3. x \in ItemSet
  BY <1>2 DEF TurnSet, ItemSet
<1>4. x.is = "turn" /\ x.seq = items[t].seq /\ x.status = items[t].status /\ x.entries = more
  OBVIOUS
<1>5. b = [items EXCEPT ![t] = x]
  BY DEF Remade
<1> HIDE DEF b, x
<1>6. /\ b \in Seq(ItemSet) /\ Len(b) = Len(items) /\ DOMAIN b = DOMAIN items
      /\ \A u \in DOMAIN items : b[u] = IF u = t THEN x ELSE items[u]
  BY <1>3, <1>5
<1>7. \A u \in DOMAIN items : /\ b[u].is = items[u].is /\ b[u].seq = items[u].seq
                              /\ items[u].is = "turn" => b[u].status = items[u].status
  BY <1>1, <1>4, <1>6
<1>8. ASSUME NEW open, OneOpen(items, open) PROVE OneOpen(b, open)
  <2>1. open # 0 => open \in DOMAIN items
    BY <1>8 DEF OneOpen
  <2> QED BY <1>6, <1>7, <1>8, <2>1 DEF OneOpen
<1>9. ASSUME NEW n, InOrder(items, n) PROVE InOrder(b, n)
  BY <1>6, <1>7, <1>9 DEF InOrder
<1>10. \A u, j, k, h : At(b, u, j, k, h) <=>
          IF u = t THEN PartAt(more, j, k, h) ELSE At(items, u, j, k, h)
  BY <1>1, <1>4, <1>6 DEF At, PartAt
<1>11. \A j, k, h : At(items, t, j, k, h) <=> PartAt(a, j, k, h)
  BY <1>1 DEF At, PartAt
<1>12. \E l, m : MoreAt(items, b, t, l, m, i)
  <2>1. PICK l, m : MorePart(a, more, l, m, i)
    BY <1>2
  <2>2. MoreAt(items, b, t, l, m, i)
    BY <1>10, <1>11, <2>1 DEF MorePart, MoreAt
  <2> QED BY <2>2
<1>13. ASSUME NEW u, NEW j, Asks(b, u, j)
       PROVE  (Asks(items, u, j) /\ b[u].entries[j] = items[u].entries[j])
                \/ Asked(b[u].entries[j], e, i, known)
  <2>1. CASE u = t
    <3>1. j \in DOMAIN more /\ more[j].is \in Requests /\ b[u].entries = more
      BY <1>4, <1>6, <1>13, <2>1 DEF Asks
    <3>2. (j \in DOMAIN a /\ more[j] = a[j]) \/ Asked(more[j], e, i, known)
      BY <1>2, <3>1
    <3> HIDE DEF a
    <3>3. j \in DOMAIN a /\ more[j] = a[j] => Asks(items, u, j) /\ more[j] = items[u].entries[j]
      BY <1>1, <2>1, <3>1 DEF Asks, a
    <3> QED BY <3>1, <3>2, <3>3
  <2>2. CASE u # t
    BY <1>6, <1>13, <2>2 DEF Asks
  <2> QED BY <2>1, <2>2
<1> QED BY <1>6, <1>8, <1>9, <1>12, <1>13 DEF b

-----------------------------------------------------------------------------
(* An event that enters a turn.                                            *)

\* A request that was just made has no answer.
LEMMA NotAnsweredYet ==
    ASSUME LogFits, NEW events, events \subseteq DOMAIN log, NEW n \in Nat, n + 1 \in events,
           NEW kind \in Responses, RequestKind([kind |-> kind]) = log[n + 1].kind,
           log[n + 1].kind \in Requests
    PROVE  LatestOf(events, n + 1, kind, log[n + 1].id) = Nobody
<1>1. ASSUME NEW k \in events, k <= n + 1, log[k].kind = kind, log[k].id = log[n + 1].id PROVE FALSE
  <2>1. PICK j \in DOMAIN log : j < k /\ log[j].kind = RequestKind(log[k]) /\ log[j].id = log[k].id
    BY <1>1 DEF LogFits
  <2>2. log[j].kind = log[n + 1].kind
    BY <1>1, <2>1 DEF RequestKind
  <2>3. j = n + 1
    BY <1>1, <2>1, <2>2 DEF LogFits
  <2>4. k \in Nat
    BY EventShape
  <2> QED BY <1>1, <2>1, <2>3, <2>4
<1>2. ToldOf(events, n + 1, kind, log[n + 1].id) = {}
  BY <1>1 DEF ToldOf
<1> QED BY <1>2 DEF LatestOf

\* What ingesting an event of a turn makes.
LEMMA TurnMade ==
    ASSUME NEW p \in PageSet, NEW e, e.kind \in TurnScoped, NEW i, NEW known,
           Begun(p, i) \in Seq(ItemSet), Current(p, i) \in DOMAIN Begun(p, i),
           Begun(p, i)[Current(p, i)] \in TurnSet
    PROVE  LET items == Begun(p, i)
               t == Current(p, i)
               more == ApplyTurnEvent(items[t].entries, e, i, known)
               with == Remade(items, t, more,
                           IF e.kind = "turn_complete" THEN "complete" ELSE items[t].status)
           IN  Ingested(p, e, i, known) =
                 [items |-> IF e.kind = "elicitation_response" /\ more = items[t].entries
                            THEN MarkInItems(with, e, known) ELSE with,
                  open |-> IF e.kind = "turn_complete" THEN 0 ELSE t,
                  clock |-> Clock(p, e)]
<1> DEFINE items == Begun(p, i)
           t == Current(p, i)
           more == ApplyTurnEvent(items[t].entries, e, i, known)
           status == IF e.kind = "turn_complete" THEN "complete" ELSE items[t].status
           with == Remade(items, t, more, status)
           c == Clock(p, e)
           q == [p EXCEPT !.clock = c]
<1>1. Ingested(p, e, i, known) = InTurn(q, e, i, known)
  BY DEF Ingested, TurnScoped
<1>2. q = [items |-> p.items, open |-> p.open, clock |-> c]
  BY DEF PageSet
<1> DEFINE made == [items EXCEPT ![t] = [items[t] EXCEPT !.entries = more, !.status = status]]
<1> HIDE DEF c, q
<1>3. q.items = p.items /\ q.open = p.open
  BY <1>2
<1>4. InTurn(q, e, i, known) =
         [q EXCEPT !.items = IF e.kind = "elicitation_response" /\ ~(more # items[t].entries)
                             THEN MarkInItems(made, e, known) ELSE made,
                   !.open = IF e.kind = "turn_complete" THEN 0 ELSE t]
  BY <1>3 DEF InTurn, Begun, Current
<1> HIDE DEF more, status, items, t
<1>5. made = with
  <2> DEFINE turn == items[t]
  <2>1. turn \in TurnSet
    BY DEF items, t
  <2> HIDE DEF turn
  <2>2. [turn EXCEPT !.entries = more, !.status = status] =
            [is |-> "turn", seq |-> turn.seq, status |-> status, entries |-> more]
    <3>1. turn = [is |-> "turn", seq |-> turn.seq, status |-> turn.status, entries |-> turn.entries]
      BY <2>1 DEF TurnSet
    <3> DEFINE one == [turn EXCEPT !.entries = more]
    <3>2. one = [is |-> "turn", seq |-> turn.seq, status |-> turn.status, entries |-> more]
      BY <3>1
    <3>3. [turn EXCEPT !.entries = more, !.status = status] = [one EXCEPT !.status = status]
      OBVIOUS
    <3> HIDE DEF one
    <3> QED BY <3>2, <3>3
  <2>3. [items[t] EXCEPT !.entries = more, !.status = status] =
            [is |-> "turn", seq |-> items[t].seq, status |-> status, entries |-> more]
    BY <2>2 DEF turn
  <2> QED BY <2>3 DEF Remade
<1> HIDE DEF made, with
<1>6. InTurn(q, e, i, known) =
         [items |-> IF e.kind = "elicitation_response" /\ more = items[t].entries
                    THEN MarkInItems(with, e, known) ELSE with,
          open |-> IF e.kind = "turn_complete" THEN 0 ELSE t,
          clock |-> c]
  BY <1>2, <1>4, <1>5
<1> QED BY <1>1, <1>6 DEF c, with, more, status, items, t

\* Chunks, calls, plans and requests.
LEMMA EnteringRight ==
    ASSUME LogFits, NEW events, events \subseteq DOMAIN log, NEW n \in Nat, n + 1 \in events,
           NEW known \in [Name -> Said], NEW p, Right(p, events, n, known),
           log[n + 1].kind \in Entering
    PROVE  Right(Ingested(p, log[n + 1], n + 1, known), events, n + 1, known)
<1> DEFINE e == log[n + 1]
           i == n + 1
           items == Begun(p, i)
           t == Current(p, i)
           more == ApplyTurnEvent(items[t].entries, e, i, known)
           b == Remade(items, t, more, items[t].status)
           c == Clock(p, e)
<1>1. p \in PageSet /\ events \subseteq Nat
  BY DEF Right, LogFits
<1>2. /\ items \in Seq(ItemSet) /\ t \in DOMAIN items /\ t \in Nat \ {0} /\ items[t] \in TurnSet
      /\ OneOpen(items, t) /\ InOrder(items, i) /\ Placed(items, events, n)
      /\ Together(items, t, events, n) /\ Headed(items) /\ Decides(items, events, n, known)
  BY Opened
<1>3. /\ e \in EventSet /\ (e.kind \in Requests => e.id \in Name)
      /\ e.kind \in TurnScoped /\ e.kind # "turn_complete" /\ e.kind # "elicitation_response"
      /\ e.kind \notin Responses /\ ~Ends(i)
  <2>1. e \in EventSet /\ (e.kind \in Requests => e.id \in Name)
    BY EventShape
  <2>2. /\ e.kind \in TurnScoped /\ e.kind # "turn_complete" /\ e.kind # "elicitation_response"
        /\ e.kind \notin Responses /\ ~Ends(i)
    BY DEF Entering, TurnScoped, Responses, Ends
  <2> QED BY <2>1, <2>2
<1>4. Ingested(p, e, i, known) = [items |-> b, open |-> t, clock |-> c]
  BY <1>1, <1>2, <1>3, TurnMade
<1>5. c \in {"none", "user", "state", "inferred"} /\ c # "none"
  BY <1>1, <1>3, ClockTyped
<1>6. Grows(items[t].entries, more, e, i, known)
  <2>1. items[t].entries \in Seq(EntrySet)
    BY <1>2 DEF TurnSet
  <2> HIDE DEF items, t
  <2> QED BY <1>3, <2>1, ApplyGrows
<1> HIDE DEF items, t, more, c
<1>7. /\ b \in Seq(ItemSet) /\ OneOpen(b, t) /\ InOrder(b, i)
      /\ \E l, m : MoreAt(items, b, t, l, m, i)
      /\ \A u, j : Asks(b, u, j) =>
             (Asks(items, u, j) /\ b[u].entries[j] = items[u].entries[j])
               \/ Asked(b[u].entries[j], e, i, known)
  <2>1. i \in Nat
    OBVIOUS
  <2> HIDE DEF i
  <2> QED BY <1>2, <1>6, <2>1, GrownTurn
<1> HIDE DEF b
<1>8. PICK l, m : MoreAt(items, b, t, l, m, i)
  BY <1>7
<1>9. \A u, j, k, h : At(b, u, j, k, h) <=> At(items, u, j, k, h) \/ (u = t /\ j = l /\ k = m /\ h = i)
  BY <1>8 DEF MoreAt
<1>10. \A x \in events : x <= i <=> x <= n \/ x = i
  BY <1>1
<1>11. \A u, j, k, h : At(items, u, j, k, h) => h \in events /\ h <= n /\ log[h].kind \in Entering /\ h # i
  <2>1. \A x \in events : x <= n => x # i
    BY <1>1
  <2> QED BY <1>2, <2>1 DEF Placed
<1>12. Placed(b, events, i)
  <2>1. \A u, j, k, h : At(b, u, j, k, h) => h \in events /\ h <= i /\ log[h].kind \in Entering
    BY <1>9, <1>10, <1>11
  <2>2. \A h \in events : h <= i /\ log[h].kind \in Entering => \E u, j, k : At(b, u, j, k, h)
    BY <1>2, <1>9, <1>10 DEF Placed
  <2>3. ASSUME NEW u, NEW j, NEW k, NEW v, NEW q, NEW r, NEW h, At(b, u, j, k, h), At(b, v, q, r, h)
        PROVE  u = v /\ j = q /\ k = r
    <3>1. CASE h = i
      BY <1>9, <1>11, <2>3, <3>1
    <3>2. CASE h # i
      <4>1. At(items, u, j, k, h) /\ At(items, v, q, r, h)
        BY <1>9, <2>3, <3>2
      <4> QED BY <1>2, <4>1 DEF Placed
    <3> QED BY <3>1, <3>2
  <2> QED BY <2>1, <2>2, <2>3 DEF Placed
<1>13. Together(b, t, events, i)
  <2>1. ASSUME NEW u, NEW j, NEW k, NEW g, NEW q, NEW r, NEW h, At(b, u, j, k, g), At(b, u, q, r, h),
               NEW x \in events, g <= x, x < h, Ends(x)
        PROVE  FALSE
    <3>1. CASE At(items, u, j, k, g) /\ At(items, u, q, r, h)
      BY <1>2, <2>1, <3>1 DEF Together
    <3>2. CASE At(items, u, j, k, g) /\ u = t /\ h = i
      <4>1. x <= n
        BY <1>1, <2>1, <3>2
      <4> QED BY <1>2, <2>1, <3>2, <4>1 DEF Together
    <3>3. CASE g = i
      <4>1. h <= i /\ h \in events
        BY <1>12, <2>1 DEF Placed
      <4> QED BY <1>1, <2>1, <3>3, <4>1
    <3> QED BY <1>9, <2>1, <3>1, <3>2, <3>3
  <2>2. ASSUME NEW j, NEW k, NEW g, At(b, t, j, k, g), NEW x \in events, g <= x, x <= i, Ends(x)
        PROVE  FALSE
    <3>1. x # i
      BY <1>3, <2>2
    <3>2. x <= n
      BY <1>10, <2>2, <3>1
    <3>3. CASE g = i
      BY <1>1, <2>2, <3>2, <3>3
    <3>4. CASE At(items, t, j, k, g)
      BY <1>2, <2>2, <3>2, <3>4 DEF Together
    <3> QED BY <1>9, <2>2, <3>3, <3>4
  <2> QED BY <2>1, <2>2 DEF Together
<1>14. Headed(b)
  <2>1. ASSUME NEW u, NEW j, Asks(b, u, j), Asked(b[u].entries[j], e, i, known)
        PROVE  /\ 1 \in DOMAIN b[u].entries[j].parts
               /\ log[b[u].entries[j].parts[1]].kind = b[u].entries[j].is
               /\ log[b[u].entries[j].parts[1]].id = b[u].entries[j].id
    BY <2>1 DEF Asked
  <2>2. ASSUME NEW u, NEW j, Asks(b, u, j)
        PROVE  /\ 1 \in DOMAIN b[u].entries[j].parts
               /\ log[b[u].entries[j].parts[1]].kind = b[u].entries[j].is
               /\ log[b[u].entries[j].parts[1]].id = b[u].entries[j].id
    <3>1. CASE Asks(items, u, j) /\ b[u].entries[j] = items[u].entries[j]
      BY <1>2, <3>1 DEF Headed
    <3>2. CASE Asked(b[u].entries[j], e, i, known)
      BY <2>1, <2>2, <3>2
    <3> QED BY <1>7, <2>2, <3>1, <3>2
  <2> QED BY <2>2 DEF Headed
<1>15. Decides(items, events, i, known)
  BY <1>1, <1>2, <1>3, DecidesOn
<1>16. Decides(b, events, i, known)
  <2>1. ASSUME NEW u, NEW j, Asks(b, u, j), Asked(b[u].entries[j], e, i, known)
        PROVE  b[u].entries[j].decision = Decision(events, i, known, b[u].entries[j])
    <3> DEFINE x == b[u].entries[j]
    <3>1. x.is = e.kind /\ x.id = e.id /\ e.kind \in Requests
          /\ x.decision = IF e.kind = "permission_request" THEN known[e.id] ELSE Nobody
      BY <2>1 DEF Asked, Asks
    <3> HIDE DEF x
    <3> SUFFICES x.decision = Decision(events, i, known, x)
      BY DEF x
    <3>2. CASE e.kind = "permission_request"
      <4>1. LatestOf(events, i, "permission_response", e.id) = Nobody
        <5>1. RequestKind([kind |-> "permission_response"]) = e.kind /\ "permission_response" \in Responses
          BY <3>2 DEF RequestKind, Responses
        <5> QED BY <3>1, <5>1, NotAnsweredYet
      <4> QED BY <3>1, <3>2, <4>1 DEF Decision
    <3>3. CASE e.kind = "elicitation_request"
      <4>1. LatestOf(events, i, "elicitation_response", e.id) = Nobody
        <5>1. RequestKind([kind |-> "elicitation_response"]) = e.kind /\ "elicitation_response" \in Responses
          BY <3>3 DEF RequestKind, Responses
        <5> QED BY <3>1, <5>1, NotAnsweredYet
      <4> QED BY <3>1, <3>3, <4>1 DEF Decision
    <3> QED BY <3>1, <3>2, <3>3 DEF Requests
  <2> QED BY <1>7, <1>15, <2>1 DEF Decides
<1>17. [items |-> b, open |-> t, clock |-> c] \in PageSet
  BY <1>2, <1>5, <1>7 DEF PageSet
<1> QED BY <1>4, <1>5, <1>7, <1>12, <1>13, <1>14, <1>16, <1>17 DEF Right

-----------------------------------------------------------------------------
(* The end of a turn, and an answer within it.                             *)

\* The end of a turn (turn_complete).
LEMMA CompleteRight ==
    ASSUME LogFits, NEW events, events \subseteq DOMAIN log, NEW n \in Nat, n + 1 \in events,
           NEW known \in [Name -> Said], NEW p, Right(p, events, n, known),
           log[n + 1].kind = "turn_complete"
    PROVE  Right(Ingested(p, log[n + 1], n + 1, known), events, n + 1, known)
<1> DEFINE e == log[n + 1]
           i == n + 1
           items == Begun(p, i)
           t == Current(p, i)
           p1 == [items |-> items, open |-> t, clock |-> "none"]
           b == CloseTurn(p1)
           c == Clock(p, e)
<1>1. p \in PageSet /\ events \subseteq Nat
  BY DEF Right, LogFits
<1>2. /\ items \in Seq(ItemSet) /\ t \in DOMAIN items /\ t \in Nat \ {0} /\ items[t] \in TurnSet
      /\ OneOpen(items, t) /\ InOrder(items, i) /\ Placed(items, events, n)
      /\ Together(items, t, events, n) /\ Headed(items) /\ Decides(items, events, n, known)
  BY Opened
<1>3. e.kind \in TurnScoped /\ e.kind \notin Entering /\ e.kind \notin Responses
  BY DEF TurnScoped, Entering, Responses
<1>4. ApplyTurnEvent(items[t].entries, e, i, known) = items[t].entries
  BY DEF ApplyTurnEvent
<1>5. Ingested(p, e, i, known) =
          [items |-> Remade(items, t, items[t].entries, "complete"), open |-> 0, clock |-> c]
  BY <1>1, <1>2, <1>3, <1>4, TurnMade
<1>6. c \in {"none", "user", "state", "inferred"}
  BY <1>1, ClockTyped
<1> HIDE DEF items, t, c
<1>7. b = Remade(items, t, items[t].entries, "complete")
  <2> DEFINE turn == items[t]
  <2>1. b = [items EXCEPT ![t] = [turn EXCEPT !.status = "complete"]]
    BY <1>2 DEF CloseTurn
  <2>2. turn \in TurnSet
    BY <1>2
  <2> HIDE DEF turn
  <2>3. [turn EXCEPT !.status = "complete"] =
            [is |-> "turn", seq |-> turn.seq, status |-> "complete", entries |-> turn.entries]
    BY <2>2 DEF TurnSet
  <2> HIDE DEF b
  <2> QED BY <2>1, <2>3 DEF Remade, turn
<1>8. p1 \in PageSet /\ p1.items = items /\ p1.open = t
  BY <1>2 DEF PageSet
<1> HIDE DEF p1
<1>9. /\ b \in Seq(ItemSet) /\ OneOpen(b, 0) /\ SameEntries(items, b) /\ SameDecisions(items, b)
      /\ DOMAIN b = DOMAIN items /\ \A u \in DOMAIN items : b[u].seq = items[u].seq
  BY <1>2, <1>8, Closed
<1> HIDE DEF b
<1>10. InOrder(b, i)
  BY <1>2, <1>9 DEF InOrder
<1>11. Placed(items, events, i)
  BY <1>1, <1>2, <1>3, PlacedOn
<1>12. Together(items, 0, events, i)
  <2>1. 0 \notin DOMAIN items
    BY <1>2
  <2> QED BY <1>2, <2>1, TogetherClosed
<1>13. Decides(items, events, i, known)
  BY <1>1, <1>2, <1>3, DecidesOn
<1>14. Placed(b, events, i) /\ Together(b, 0, events, i) /\ Headed(b)
  BY <1>2, <1>9, <1>11, <1>12, SamePlaced
<1>15. Decides(b, events, i, known)
  BY <1>9, <1>13, SameDecides
<1>16. [items |-> b, open |-> 0, clock |-> c] \in PageSet
  BY <1>6, <1>9 DEF PageSet
<1> QED BY <1>5, <1>7, <1>9, <1>10, <1>14, <1>15, <1>16 DEF Right

\* The answer to an elicitation, of the open turn or of one that is over.
LEMMA ElicitationRight ==
    ASSUME LogFits, NEW events, events \subseteq DOMAIN log, NEW n \in Nat, n + 1 \in events,
           NEW known \in [Name -> Said], NEW p, Right(p, events, n, known),
           log[n + 1].kind = "elicitation_response"
    PROVE  Right(Ingested(p, log[n + 1], n + 1, known), events, n + 1, known)
<1> DEFINE e == log[n + 1]
           i == n + 1
           items == Begun(p, i)
           t == Current(p, i)
           entries == items[t].entries
           r == RequestIndex(entries, "elicitation_request", e.id)
           more == ApplyTurnEvent(entries, e, i, known)
           with == Remade(items, t, more, items[t].status)
           b == IF more = entries THEN MarkInItems(with, e, known) ELSE with
           c == Clock(p, e)
<1>1. p \in PageSet
  BY DEF Right
<1>2. /\ items \in Seq(ItemSet) /\ t \in DOMAIN items /\ t \in Nat \ {0} /\ items[t] \in TurnSet
      /\ OneOpen(items, t) /\ InOrder(items, i) /\ Placed(items, events, n)
      /\ Together(items, t, events, n) /\ Headed(items) /\ Decides(items, events, n, known)
  BY Opened
<1>3. e \in EventSet /\ e.id \in Name /\ e.kind \in Responses /\ e.kind \in TurnScoped
      /\ e.kind # "turn_complete"
  <2>1. e.kind \in Responses /\ e.kind \in TurnScoped /\ e.kind # "turn_complete"
    BY DEF Responses, TurnScoped
  <2> QED BY <2>1, EventShape
<1>4. Ingested(p, e, i, known) = [items |-> b, open |-> t, clock |-> c]
  BY <1>1, <1>2, <1>3, TurnMade
<1>5. c \in {"none", "user", "state", "inferred"} /\ c # "none"
  BY <1>1, <1>3, ClockTyped
<1>6. more = IF r > 0 THEN Decided(entries, r, e, known) ELSE entries
  BY DEF ApplyTurnEvent
<1>7. entries \in Seq(EntrySet) /\ items[t].is = "turn"
  BY <1>2 DEF TurnSet
<1>8. /\ r \in 0 .. Len(entries) /\ Len(entries) \in Nat /\ DOMAIN entries = 1 .. Len(entries)
      /\ r > 0 => entries[r].is = "elicitation_request" /\ entries[r].id = e.id
  <2> HIDE DEF entries
  <2> QED BY <1>7, RequestFound
<1>9. Marks(items, b, e, known)
  <2> DEFINE turn == items[t]
  <2>1. turn \in TurnSet /\ turn.entries = entries
    BY <1>2
  <2> HIDE DEF r, c
  <2>2. CASE more = entries
    <3>1. with = items
      <4>1. [is |-> "turn", seq |-> turn.seq, status |-> turn.status, entries |-> turn.entries] = turn
        <5> HIDE DEF turn
        <5> QED BY <2>1 DEF TurnSet
      <4>2. with = [items EXCEPT ![t] = turn]
        BY <2>1, <2>2, <4>1 DEF Remade
      <4> HIDE DEF with, more
      <4> QED BY <1>2, <4>2
    <3>2. b = MarkInItems(items, e, known)
      BY <2>2, <3>1
    <3> HIDE DEF b, items, t, turn, entries
    <3> QED BY <1>2, <1>3, <3>2, MarkAny
  <2>3. CASE more # entries
    <3>1. r > 0 /\ more = Decided(entries, r, e, known)
      BY <1>6, <2>3
    <3>2. with = [items EXCEPT ![t].entries = Decided(@, r, e, known)]
      <4> DEFINE decided == Decided(entries, r, e, known)
      <4>1. [items EXCEPT ![t].entries = Decided(@, r, e, known)] =
                [items EXCEPT ![t] = [turn EXCEPT !.entries = decided]]
        OBVIOUS
      <4>2. with = Remade(items, t, decided, turn.status)
        BY <3>1
      <4> HIDE DEF decided
      <4>3. [turn EXCEPT !.entries = decided] =
                [is |-> "turn", seq |-> turn.seq, status |-> turn.status, entries |-> decided]
        <5> HIDE DEF turn
        <5> QED BY <2>1 DEF TurnSet
      <4> HIDE DEF with
      <4> QED BY <4>1, <4>2, <4>3 DEF Remade
    <3>3. r \in DOMAIN items[t].entries
      BY <1>8, <3>1
    <3>4. items[t].entries[r].is = RequestKind(e) /\ items[t].entries[r].id = e.id
      BY <1>8, <3>1 DEF RequestKind
    <3>5. b = with
      BY <2>3
    <3> HIDE DEF b, with, items, t, turn, entries, more
    <3>6. t \in DOMAIN items /\ items[t].is = "turn"
      BY <1>2, <1>7
    <3>7. Marks(items, [items EXCEPT ![t].entries = Decided(@, r, e, known)], e, known)
      BY <1>2, <1>3, <3>3, <3>4, <3>6, MarkOne
    <3> QED BY <3>2, <3>5, <3>7
  <2> QED BY <2>2, <2>3
<1> HIDE DEF b, items, t, c, entries, with, more, r
<1>10. /\ b \in Seq(ItemSet) /\ OneOpen(b, t) /\ InOrder(b, i)
       /\ Placed(b, events, i) /\ Together(b, t, events, i) /\ Headed(b)
       /\ Decides(b, events, i, known)
  BY <1>2, <1>3, <1>9, MarkedRight
<1>11. [items |-> b, open |-> t, clock |-> c] \in PageSet
  BY <1>2, <1>5, <1>10 DEF PageSet
<1> QED BY <1>4, <1>5, <1>10, <1>11 DEF Right

\* Every event keeps the page right.
LEMMA IngestedRight ==
    ASSUME LogFits, NEW events, events \subseteq DOMAIN log, NEW n \in Nat, n + 1 \in events,
           NEW known \in [Name -> Said], NEW p, Right(p, events, n, known)
    PROVE  Right(Ingested(p, log[n + 1], n + 1, known), events, n + 1, known)
<1> DEFINE kind == log[n + 1].kind
<1>1. CASE kind \in Entering
  BY <1>1, EnteringRight
<1>2. CASE kind = "turn_complete"
  BY <1>2, CompleteRight
<1>3. CASE kind = "elicitation_response"
  BY <1>3, ElicitationRight
<1>4. CASE kind = "permission_response"
  BY <1>4, PermissionRight
<1>5. CASE kind = "user_message"
  BY <1>5, MessageRight
<1>6. CASE kind \notin TurnScoped \cup Responses \cup {"user_message"}
  BY <1>6, PlainRight
<1> QED BY <1>1, <1>2, <1>3, <1>4, <1>5, <1>6 DEF Entering, Responses

-----------------------------------------------------------------------------
(* All events of the page.                                                 *)

\* Before the first event there is nothing to show.
LEMMA NothingRight ==
    ASSUME LogFits, NEW events, events \subseteq DOMAIN log, NEW known
    PROVE  Right(Nothing, events, 0, known)
<1>1. Nothing \in PageSet /\ Nothing.items = <<>> /\ Nothing.open = 0
  BY DEF Nothing, PageSet
<1>2. \A i \in events : i \in Nat /\ ~(i <= 0)
  <2>1. DOMAIN log = 1 .. Len(log) /\ Len(log) \in Nat
    BY DEF LogFits
  <2> QED BY <2>1
<1>3. DOMAIN Nothing.items = {}
  BY <1>1
<1>4. (\A t, j, k, i : ~At(Nothing.items, t, j, k, i)) /\ \A t, j : ~Asks(Nothing.items, t, j)
  BY <1>3 DEF At, Asks
<1>5. OneOpen(Nothing.items, 0)
  BY <1>1, <1>3 DEF OneOpen
<1>6. InOrder(Nothing.items, 0)
  BY <1>3 DEF InOrder
<1>7. Placed(Nothing.items, events, 0) /\ Together(Nothing.items, 0, events, 0)
  BY <1>2, <1>4 DEF Placed, Together
<1>8. Headed(Nothing.items) /\ Decides(Nothing.items, events, 0, known)
  BY <1>4 DEF Headed, Decides
<1> QED BY <1>1, <1>5, <1>6, <1>7, <1>8 DEF Right

\* f is the table of the pages after each of the first n events.
Pages(f, events, known, n) ==
    f = [m \in 0 .. n |-> IF m = 0 THEN Nothing
                          ELSE IF m \in events THEN Ingested(f[m - 1], log[m], m, known) ELSE f[m - 1]]

\* There is such a table, however many events.
LEMMA PagesExist ==
    ASSUME NEW events, NEW known, NEW n \in Nat PROVE \E f : Pages(f, events, known, n)
<1> DEFINE Bad == {m \in Nat : ~ \E f : Pages(f, events, known, m)}
<1>1. SUFFICES ASSUME Bad # {} PROVE FALSE
  OBVIOUS
<1>2. PICK m \in Bad : \A k \in Bad : m <= k
  BY <1>1, LeastNumber
<1>3. m # 0
  <2>1. Pages([i \in 0 .. 0 |-> Nothing], events, known, 0)
    BY DEF Pages
  <2> QED BY <2>1
<1>4. m - 1 \in Nat /\ m - 1 \notin Bad
  BY <1>2, <1>3
<1>5. PICK f : Pages(f, events, known, m - 1)
  BY <1>4
<1> DEFINE g == [i \in 0 .. m |-> IF i < m THEN f[i]
                                  ELSE IF m \in events THEN Ingested(f[m - 1], log[m], m, known)
                                  ELSE f[m - 1]]
<1>6. Pages(g, events, known, m)
  <2>1. \A i \in 0 .. m :
            g[i] = IF i = 0 THEN Nothing
                   ELSE IF i \in events THEN Ingested(g[i - 1], log[i], i, known) ELSE g[i - 1]
    <3> TAKE i \in 0 .. m
    <3>1. CASE i = 0
      BY <1>3, <1>5, <3>1 DEF Pages
    <3>2. CASE i # 0 /\ i < m
      <4>1. i \in 0 .. m - 1 /\ i - 1 \in 0 .. m /\ i - 1 < m
        BY <3>2
      <4>2. f[i] = IF i \in events THEN Ingested(f[i - 1], log[i], i, known) ELSE f[i - 1]
        BY <1>5, <3>2, <4>1 DEF Pages
      <4> QED BY <3>2, <4>1, <4>2
    <3>3. CASE i = m
      <4>1. m - 1 \in 0 .. m /\ m - 1 < m
        BY <1>3
      <4> QED BY <1>3, <3>3, <4>1
    <3> QED BY <3>1, <3>2, <3>3
  <2> HIDE DEF g
  <2>2. g = [i \in 0 .. m |-> g[i]]
    BY DEF g
  <2> QED BY <2>1, <2>2 DEF Pages
<1> QED BY <1>2, <1>6

\* What FromNothing is the end of.
LEMMA PagesTable ==
    ASSUME LogFits, NEW events, NEW known
    PROVE  \E f : Pages(f, events, known, Len(log)) /\ FromNothing(events, known) = f[Len(log)]
<1> DEFINE f == CHOOSE f : f = [m \in 0 .. Len(log) |->
                          IF m = 0 THEN Nothing
                          ELSE IF m \in events THEN Ingested(f[m - 1], log[m], m, known) ELSE f[m - 1]]
<1>1. \E g : g = [m \in 0 .. Len(log) |->
                          IF m = 0 THEN Nothing
                          ELSE IF m \in events THEN Ingested(g[m - 1], log[m], m, known) ELSE g[m - 1]]
  <2>1. Len(log) \in Nat
    BY DEF LogFits
  <2>2. PICK g : Pages(g, events, known, Len(log))
    BY <2>1, PagesExist
  <2> QED BY <2>2 DEF Pages
<1>2. f = [m \in 0 .. Len(log) |->
                          IF m = 0 THEN Nothing
                          ELSE IF m \in events THEN Ingested(f[m - 1], log[m], m, known) ELSE f[m - 1]]
  BY <1>1
<1>3. FromNothing(events, known) = f[Len(log)]
  BY DEF FromNothing
<1> HIDE DEF f
<1> QED BY <1>2, <1>3 DEF Pages

\* What is built from nothing is right, whatever events there are.
LEMMA BuiltRight ==
    ASSUME LogFits, NEW events, events \subseteq DOMAIN log, NEW known \in [Name -> Said]
    PROVE  Right(FromNothing(events, known), events, Len(log), known)
<1>1. PICK f : Pages(f, events, known, Len(log)) /\ FromNothing(events, known) = f[Len(log)]
  BY PagesTable
<1>2. Len(log) \in Nat
  BY DEF LogFits
<1> DEFINE Bad == {n \in 0 .. Len(log) : ~Right(f[n], events, n, known)}
<1>3. Bad = {}
  <2>1. SUFFICES ASSUME Bad # {} PROVE FALSE
    OBVIOUS
  <2>2. Bad \subseteq Nat
    BY <1>2
  <2>3. PICK n \in Bad : \A m \in Bad : n <= m
    <3> HIDE DEF Bad
    <3> QED BY <2>1, <2>2, LeastNumber
  <2>4. n \in 0 .. Len(log) /\ ~Right(f[n], events, n, known)
    OBVIOUS
  <2>5. n # 0
    <3>1. f[0] = Nothing
      BY <1>1, <1>2 DEF Pages
    <3> QED BY <2>4, <3>1, NothingRight
  <2>6. n - 1 \in Nat /\ n - 1 \in 0 .. Len(log) /\ n - 1 < n
    BY <1>2, <2>4, <2>5
  <2>7. n - 1 \notin Bad
    <3> HIDE DEF Bad
    <3> QED BY <2>2, <2>3, <2>6
  <2>8. Right(f[n - 1], events, n - 1, known)
    BY <2>6, <2>7
  <2>9. f[n] = IF n \in events THEN Ingested(f[n - 1], log[n], n, known) ELSE f[n - 1]
    BY <1>1, <2>4, <2>5 DEF Pages
  <2> HIDE DEF Bad
  <2> DEFINE m == n - 1
  <2>10. m \in Nat /\ n = m + 1
    BY <1>2, <2>4, <2>6
  <2> HIDE DEF m
  <2>11. CASE n \in events
    <3>1. Right(Ingested(f[m], log[m + 1], m + 1, known), events, m + 1, known)
      BY <2>8, <2>10, <2>11, IngestedRight DEF m
    <3> QED BY <2>4, <2>9, <2>10, <2>11, <3>1 DEF m
  <2>12. CASE n \notin events
    <3>1. Right(f[m], events, m + 1, known)
      BY <2>8, <2>10, <2>12, QuietRight DEF m
    <3> QED BY <2>4, <2>9, <2>10, <2>12, <3>1 DEF m
  <2> QED BY <2>11, <2>12
<1>4. Len(log) \in 0 .. Len(log) /\ Len(log) \notin Bad
  <2> HIDE DEF Bad
  <2> QED BY <1>2, <1>3
<1> QED BY <1>1, <1>4

-----------------------------------------------------------------------------
(* The log and the page.                                                   *)

\* The log is one a chat can have, and the page is right about the events it has.
TrInv ==
    /\ LogFits
    /\ has \subseteq DOMAIN log
    /\ local \in [Name -> Said]
    /\ Right(page, has, Len(log), local)

\* What LogAppends appends is an event.
LEMMA Labelled ==
    ASSUME NEW kind \in Kind, NEW id \in Ids(kind), NEW choice \in Possible(kind)
    PROVE  /\ [kind |-> kind, id |-> id, choice |-> choice] \in EventSet
           /\ kind \in Requests \cup Responses => id \in Name
<1>1. id \in Label
  BY DEF Ids, Label
<1>2. choice \in Said
  BY DEF Possible, Said
<1>3. kind \in Requests \cup Responses => id \in Name
  BY DEF Ids, Requests, Responses
<1> QED BY <1>1, <1>2, <1>3 DEF EventSet

\* A page that is right stays right when the log grows by an event it does not have.
LEMMA RightWhenLogged ==
    ASSUME LogFits, has \subseteq DOMAIN log, Right(page, has, Len(log), local),
           NEW e \in EventSet, log' = Append(log, e), has' = has, page' = page, local' = local
    PROVE  Right(page, has, Len(log), local)'
<1> DEFINE n == Len(log)
           items == page.items
<1>1. /\ n \in Nat /\ DOMAIN log = 1 .. n /\ Len(log') = n + 1
      /\ \A i \in DOMAIN log : log'[i] = log[i]
  BY DEF LogFits
<1>2. page \in PageSet /\ items \in Seq(ItemSet)
  BY DEF Right, PageSet
<1>3. \A i \in has : i \in Nat /\ i <= n /\ i <= n + 1 /\ log'[i] = log[i]
  BY <1>1
<1> HIDE DEF n
<1>4. page' \in PageSet
  BY <1>2
<1>5. OneOpen(page.items, page.open)'
  BY DEF OneOpen, Right
<1>6. (page.open # 0 => page.clock # "none")'
  BY DEF Right
<1>7. InOrder(page.items, Len(log))'
  <2>1. InOrder(items, n + 1)
    BY <1>1, <1>2, OrderOn DEF Right, n
  <2> QED BY <1>1, <2>1 DEF InOrder
<1>8. Placed(items, has, n) /\ Together(items, page.open, has, n) /\ Headed(items)
      /\ Decides(items, has, n, local)
  BY DEF Right, n
<1>9. \A t, j, k, i : At(items, t, j, k, i) => i \in has
  BY <1>8 DEF Placed
<1>10. \A t, j, k, i : At(page.items, t, j, k, i)' <=> At(items, t, j, k, i)
  BY DEF At
<1>11. \A t, j : Asks(page.items, t, j)' <=> Asks(items, t, j)
  BY DEF Asks
<1>12. Placed(page.items, has, Len(log))'
  BY <1>1, <1>3, <1>8, <1>9 DEF Placed, At
<1>13. Together(page.items, page.open, has, Len(log))'
  <2>1. ASSUME NEW t, NEW j, NEW k, NEW i, NEW l, NEW m, NEW h, At(items, t, j, k, i),
               At(items, t, l, m, h), NEW e1 \in has, i <= e1, e1 < h,
               log'[e1].kind \in {"user_message", "turn_complete"}
        PROVE  FALSE
    BY <1>3, <1>8, <2>1 DEF Together, Ends
  <2>2. ASSUME NEW j, NEW k, NEW i, At(items, page.open, j, k, i), NEW e1 \in has, i <= e1,
               log'[e1].kind \in {"user_message", "turn_complete"}
        PROVE  FALSE
    BY <1>3, <1>8, <2>2 DEF Together, Ends
  <2>3. page'.items = items /\ page'.open = page.open
    OBVIOUS
  <2> HIDE DEF items
  <2> QED BY <2>1, <2>2, <2>3 DEF Together, Ends
<1>14. Headed(page.items)'
  <2>1. ASSUME NEW t, NEW j, Asks(page'.items, t, j)
        PROVE  /\ 1 \in DOMAIN page'.items[t].entries[j].parts
               /\ log'[page'.items[t].entries[j].parts[1]].kind = page'.items[t].entries[j].is
               /\ log'[page'.items[t].entries[j].parts[1]].id = page'.items[t].entries[j].id
    <3> DEFINE y == items[t].entries[j]
    <3>1. 1 \in DOMAIN y.parts /\ log[y.parts[1]].kind = y.is /\ log[y.parts[1]].id = y.id
      BY <1>8, <2>1 DEF Headed
    <3>2. At(items, t, j, 1, y.parts[1])
      BY <2>1, <3>1 DEF At, Asks
    <3>3. log'[y.parts[1]] = log[y.parts[1]]
      BY <1>3, <1>9, <3>2
    <3>4. page'.items[t].entries[j] = y
      OBVIOUS
    <3> HIDE DEF y
    <3> QED BY <3>1, <3>3, <3>4
  <2> QED BY <2>1 DEF Headed
<1>15. Decides(page.items, has, Len(log), local)'
  <2>1. \A kind, id : {k \in has : k <= n + 1 /\ log'[k].kind = kind /\ log'[k].id = id}
                        = ToldOf(has, n, kind, id)
    BY <1>3 DEF ToldOf
  <2>2. \A kind, id : ToldOf(has, n, kind, id) \subseteq has
    BY DEF ToldOf
  <2>3. \A kind, id : ToldOf(has, Len(log), kind, id)' = ToldOf(has, n, kind, id)
    BY <1>1, <2>1 DEF ToldOf
  <2>4. ASSUME NEW kind, NEW id
        PROVE  LatestOf(has, Len(log), kind, id)' = LatestOf(has, n, kind, id)
    <3> DEFINE S == ToldOf(has, n, kind, id)
    <3>1. CASE S = {}
      BY <2>3, <3>1 DEF LatestOf
    <3>2. CASE S # {}
      <4>1. S \subseteq 1 .. n /\ S \subseteq has
        <5>1. \A k \in has : k \in 1 .. n
          BY <1>1
        <5> QED BY <5>1, <2>2
      <4> HIDE DEF S
      <4>2. \E k \in S : \A m \in S : k >= m
        BY <1>1, <3>2, <4>1, GreatestNumber
      <4>3. Max(S) \in S
        BY <4>2 DEF Max
      <4>4. log'[Max(S)] = log[Max(S)]
        BY <1>3, <4>1, <4>3
      <4> QED BY <2>3, <3>2, <4>4 DEF LatestOf, S
    <3> QED BY <3>1, <3>2
  <2>5. ASSUME NEW x PROVE Decision(has, Len(log), local, x)' = Decision(has, n, local, x)
    BY <2>4 DEF Decision
  <2>6. ASSUME NEW t, NEW j, Asks(items, t, j)
        PROVE  items[t].entries[j].decision = Decision(has, Len(log), local, items[t].entries[j])'
    <3> DEFINE x == items[t].entries[j]
    <3>1. x.decision = Decision(has, n, local, x)
      BY <1>8, <2>6 DEF Decides
    <3>2. x' = x
      OBVIOUS
    <3> QED BY <2>5, <3>1, <3>2 DEF Decision
  <2> QED BY <1>11, <2>6 DEF Decides
<1> QED BY <1>4, <1>5, <1>6, <1>7, <1>12, <1>13, <1>14, <1>15 DEF Right

\* A page that is right about the log is right about the log that stays.
LEMMA RightAgain ==
    ASSUME log' = log, Right(page', has', Len(log), local')
    PROVE  Right(page, has, Len(log), local)'
<1>1. /\ page' \in PageSet /\ OneOpen(page'.items, page'.open)
      /\ page'.open # 0 => page'.clock # "none"
      /\ InOrder(page'.items, Len(log)) /\ Placed(page'.items, has', Len(log))
      /\ Together(page'.items, page'.open, has', Len(log))
      /\ Headed(page'.items) /\ Decides(page'.items, has', Len(log), local')
  BY DEF Right
<1>2. OneOpen(page.items, page.open)' /\ InOrder(page.items, Len(log))'
  BY <1>1 DEF OneOpen, InOrder
<1>3. Placed(page.items, has, Len(log))'
  BY <1>1 DEF Placed, At
<1>4. Together(page.items, page.open, has, Len(log))'
  BY <1>1 DEF Together, At, Ends
<1>5. Headed(page.items)'
  <2> DEFINE Heads(t, j) ==
        LET x == page'.items[t].entries[j] IN
        1 \in DOMAIN x.parts /\ log[x.parts[1]].kind = x.is /\ log[x.parts[1]].id = x.id
  <2>1. \A t, j : Asks(page'.items, t, j) => Heads(t, j)
    BY <1>1 DEF Headed
  <2>2. \A t, j : Asks(page.items, t, j)' => Heads(t, j)
    BY <2>1 DEF Asks
  <2> QED BY <2>2, SMTT(20) DEF Headed
<1>6. Decides(page.items, has, Len(log), local)'
  <2>1. ASSUME NEW kind, NEW id
        PROVE  LatestOf(has, Len(log), kind, id)' = LatestOf(has', Len(log), kind, id)
    BY DEF LatestOf, ToldOf
  <2>2. ASSUME NEW t, NEW j, Asks(page'.items, t, j)
        PROVE  page'.items[t].entries[j].decision =
                   Decision(has, Len(log), local, page.items[t].entries[j])'
    <3> DEFINE x == page'.items[t].entries[j]
    <3>1. x.decision = Decision(has', Len(log), local', x)
      BY <1>1, <2>2 DEF Decides
    <3> QED BY <2>1, <3>1 DEF Decision
  <2> QED BY <2>2 DEF Decides
<1> QED BY <1>1, <1>2, <1>3, <1>4, <1>5, <1>6 DEF Right

\* The log grows.
LEMMA LogAppendsRight == ASSUME TrInv, LogAppends PROVE TrInv'
<1>0. PICK kind \in Kind : \E id \in Ids(kind), choice \in Possible(kind) :
          LET event == [kind |-> kind, id |-> id, choice |-> choice] IN
          Fits(event) /\ log' = Append(log, event)
  BY DEF LogAppends
<1>1. PICK id \in Ids(kind), choice \in Possible(kind) :
          LET event == [kind |-> kind, id |-> id, choice |-> choice] IN
          Fits(event) /\ log' = Append(log, event)
  BY <1>0
<1> DEFINE e == [kind |-> kind, id |-> id, choice |-> choice]
           n == Len(log)
<1>2. /\ e \in EventSet /\ e.kind = kind /\ e.id = id
      /\ e.kind \in Requests \cup Responses => e.id \in Name
  BY Labelled
<1>3. Fits(e) /\ log' = Append(log, e)
  BY <1>1
<1>4. has' = has /\ local' = local /\ page' = page
  BY DEF LogAppends
<1> HIDE DEF e
<1>5. log \in Seq(EventSet) /\ n \in Nat /\ DOMAIN log = 1 .. n
  BY DEF TrInv, LogFits
<1>6. /\ log' \in Seq(EventSet) /\ log'[n + 1] = e /\ \A i \in DOMAIN log : log'[i] = log[i]
      /\ DOMAIN log' = 1 .. (n + 1)
  BY <1>2, <1>3, <1>5
<1>7. \A i \in DOMAIN log' : i \in DOMAIN log \/ (i = n + 1 /\ \A j \in DOMAIN log : j < i)
  BY <1>5, <1>6
<1>8. \A i \in DOMAIN log : e.kind \in Requests => ~(log[i].kind = e.kind /\ log[i].id = e.id)
  BY <1>3 DEF Fits, AskedFor, Requests
<1>9. e.kind \in Responses =>
          \E j \in DOMAIN log : log[j].kind = RequestKind(e) /\ log[j].id = e.id
  BY <1>3 DEF Fits, AskedFor, Responses, RequestKind
<1> HIDE DEF n
<1>10. LogFits'
  <2>1. \A i \in DOMAIN log' : log'[i].kind \in Requests \cup Responses => log'[i].id \in Name
    BY <1>2, <1>6, <1>7 DEF TrInv, LogFits
  <2>2. \A i, j \in DOMAIN log' :
            log'[i].kind \in Requests /\ log'[j].kind = log'[i].kind /\ log'[j].id = log'[i].id => i = j
    BY <1>6, <1>7, <1>8 DEF TrInv, LogFits
  <2>3. \A i \in DOMAIN log' : log'[i].kind \in Responses =>
            \E j \in DOMAIN log' : j < i /\ log'[j].kind = RequestKind(log'[i]) /\ log'[j].id = log'[i].id
    <3>1. DOMAIN log \subseteq DOMAIN log'
      BY <1>5, <1>6
    <3>2. \A i \in DOMAIN log : log[i].kind \in Responses =>
            \E j \in DOMAIN log : j < i /\ log[j].kind = RequestKind(log[i]) /\ log[j].id = log[i].id
      BY DEF TrInv, LogFits
    <3> QED BY <1>6, <1>7, <1>9, <3>1, <3>2
  <2> QED BY <1>6, <2>1, <2>2, <2>3 DEF LogFits, RequestKind
<1>11. has' \subseteq DOMAIN log'
  BY <1>4, <1>5, <1>6 DEF TrInv
<1>12. Right(page, has, Len(log), local)'
  BY <1>2, <1>3, <1>4, RightWhenLogged DEF TrInv
<1> QED BY <1>4, <1>10, <1>11, <1>12 DEF TrInv

\* An event arrives.
LEMMA IngestRight == ASSUME TrInv, NEW i \in DOMAIN log, Ingest(i) PROVE TrInv'
<1>1. log' = log /\ local' = local /\ has' = has \cup {i} /\ page' = FromNothing(has', local)
  BY DEF Ingest, Rebuilt
<1>2. has' \subseteq DOMAIN log /\ local' \in [Name -> Said]
  BY <1>1 DEF TrInv
<1>3. Right(page', has', Len(log), local')
  BY <1>1, <1>2, BuiltRight DEF TrInv
<1>4. Right(page, has, Len(log), local)'
  BY <1>1, <1>3, RightAgain
<1>5. LogFits'
  BY <1>1 DEF TrInv, LogFits, RequestKind
<1> QED BY <1>1, <1>2, <1>4, <1>5 DEF TrInv

\* A user answers on this page.
LEMMA ResolveRight ==
    ASSUME TrInv, NEW id \in Name, NEW choice \in Choice, ResolvePermission(id, choice) PROVE TrInv'
<1>1. log' = log /\ has' = has /\ local' = [local EXCEPT ![id] = choice]
      /\ page' = FromNothing(has, local')
  BY DEF ResolvePermission
<1>2. local' \in [Name -> Said]
  BY <1>1 DEF TrInv, Said
<1>3. Right(page', has', Len(log), local')
  <2>1. Right(FromNothing(has, local'), has, Len(log), local')
    BY <1>2, BuiltRight DEF TrInv
  <2> QED BY <1>1, <2>1
<1>4. Right(page, has, Len(log), local)'
  BY <1>1, <1>3, RightAgain
<1>5. LogFits'
  BY <1>1 DEF TrInv, LogFits, RequestKind
<1> QED BY <1>1, <1>2, <1>4, <1>5 DEF TrInv

\* What a right page shows.
LEMMA RightShows == ASSUME TrInv PROVE TranscriptFaithful
<1> DEFINE items == page.items
           n == Len(log)
<1>1. /\ items \in Seq(ItemSet) /\ DOMAIN items = 1 .. Len(items) /\ Len(items) \in Nat
      /\ \A i \in has : i \in Nat /\ i <= n
  <2>1. items \in Seq(ItemSet)
    BY DEF TrInv, Right, PageSet
  <2>2. n \in Nat /\ DOMAIN log = 1 .. n
    BY DEF TrInv, LogFits
  <2> QED BY <2>1, <2>2 DEF TrInv
<1>2. /\ OneOpen(items, page.open) /\ (page.open # 0 => page.clock # "none")
      /\ InOrder(items, n) /\ Placed(items, has, n) /\ Together(items, page.open, has, n)
      /\ Decides(items, has, n, local)
  BY DEF TrInv, Right
<1>3. ASSUME NEW t \in Turns, NEW x \in Shown(t) PROVE At(items, t, x[1], x[2], PartOf(t, x))
                                                      /\ x = <<x[1], x[2]>>
  BY DEF Turns, Shown, PartOf, At
<1>4. ASSUME NEW t, NEW j, NEW k, NEW i, At(items, t, j, k, i)
      PROVE  t \in Turns /\ <<j, k>> \in Shown(t) /\ PartOf(t, <<j, k>>) = i
  BY <1>4 DEF Turns, Shown, PartOf, At
<1>5. TurnsAsLogged
  <2>1. ASSUME NEW i \in Entered
        PROVE  \E t \in Turns : \E x \in Shown(t) :
                  /\ PartOf(t, x) = i
                  /\ \A u \in Turns : \A y \in Shown(u) : PartOf(u, y) = i => u = t /\ y = x
                  /\ \A y \in Shown(t) : LET j == PartOf(t, y) IN
                         ~(IF i < j THEN Parted(i, j) ELSE Parted(j, i))
    <3>1. PICK t, j, k : At(items, t, j, k, i)
      BY <1>1, <1>2 DEF Entered, Entering, Placed
    <3> DEFINE x == <<j, k>>
    <3>2. t \in Turns /\ x \in Shown(t) /\ PartOf(t, x) = i
      BY <1>4, <3>1
    <3>3. ASSUME NEW u \in Turns, NEW y \in Shown(u), PartOf(u, y) = i PROVE u = t /\ y = x
      <4>1. At(items, u, y[1], y[2], i) /\ y = <<y[1], y[2]>>
        BY <1>3, <3>3
      <4>2. u = t /\ y[1] = j /\ y[2] = k
        BY <1>2, <3>1, <4>1 DEF Placed
      <4> QED BY <4>1, <4>2
    <3>4. ASSUME NEW y \in Shown(t)
          PROVE  ~(IF i < PartOf(t, y) THEN Parted(i, PartOf(t, y)) ELSE Parted(PartOf(t, y), i))
      <4>1. At(items, t, y[1], y[2], PartOf(t, y))
        BY <1>3, <3>2
      <4>2. ~Parted(i, PartOf(t, y)) /\ ~Parted(PartOf(t, y), i)
        BY <1>2, <3>1, <4>1 DEF Together, Parted, Ends
      <4> QED BY <4>2
    <3> HIDE DEF x
    <3> QED BY <3>2, <3>3, <3>4
  <2>2. \A t, u \in DOMAIN page.items : t < u => page.items[t].seq < page.items[u].seq
    BY <1>2 DEF InOrder
  <2> QED BY <2>1, <2>2 DEF TurnsAsLogged
<1>6. OneOpenTurn
  <2>1. ASSUME NEW t \in Turns, page.items[t].status = "in_progress"
        PROVE  t = page.open /\ (\A u \in Turns : u <= t) /\ page.clock # "none"
    <3>1. t = page.open /\ t # 0
      BY <1>1, <1>2, <2>1 DEF OneOpen, Turns
    <3> QED BY <1>2, <3>1 DEF OneOpen, Turns
  <2> QED BY <2>1 DEF OneOpenTurn
<1>7. AnswersShown
  <2>1. ASSUME NEW kind, NEW id
        PROVE  LET Told == {k \in has : log[k].kind = kind /\ log[k].id = id} IN
               (IF Told = {} THEN Nobody ELSE log[Max(Told)].choice) = LatestOf(has, n, kind, id)
    <3>1. {k \in has : log[k].kind = kind /\ log[k].id = id} = ToldOf(has, n, kind, id)
      BY <1>1 DEF ToldOf
    <3> QED BY <3>1 DEF LatestOf
  <2>2. ASSUME NEW t \in Turns, NEW j \in DOMAIN page.items[t].entries,
               page.items[t].entries[j].is \in Requests
        PROVE  page.items[t].entries[j].decision = Decision(has, n, local, page.items[t].entries[j])
    BY <1>2, <2>2 DEF Decides, Asks, Turns
  <2>3. ASSUME NEW t \in Turns, NEW j \in DOMAIN page.items[t].entries,
               page.items[t].entries[j].is = "permission_request"
        PROVE  page.items[t].entries[j].decision =
                   IF local[page.items[t].entries[j].id] # Nobody THEN local[page.items[t].entries[j].id]
                   ELSE LatestOf(has, n, "permission_response", page.items[t].entries[j].id)
    BY <2>2, <2>3 DEF Decision, Requests
  <2>4. ASSUME NEW t \in Turns, NEW j \in DOMAIN page.items[t].entries,
               page.items[t].entries[j].is = "elicitation_request"
        PROVE  page.items[t].entries[j].decision =
                   LatestOf(has, n, "elicitation_response", page.items[t].entries[j].id)
    BY <2>2, <2>4 DEF Decision, Requests
  <2>5. ASSUME NEW t \in Turns, NEW j \in DOMAIN page.items[t].entries
        PROVE  LET x == page.items[t].entries[j]
                   Told(kind) == {k \in has : log[k].kind = kind /\ log[k].id = x.id}
                   Latest(kind) == IF Told(kind) = {} THEN Nobody ELSE log[Max(Told(kind))].choice
               IN /\ x.is = "permission_request" =>
                       x.decision = IF local[x.id] # Nobody THEN local[x.id] ELSE Latest("permission_response")
                  /\ x.is = "elicitation_request" => x.decision = Latest("elicitation_response")
    <3> DEFINE x == page.items[t].entries[j]
    <3>1. x.is = "permission_request" =>
              x.decision = IF local[x.id] # Nobody THEN local[x.id]
                           ELSE LatestOf(has, n, "permission_response", x.id)
      BY <2>3
    <3>2. x.is = "elicitation_request" => x.decision = LatestOf(has, n, "elicitation_response", x.id)
      BY <2>4
    <3> DEFINE told(kind) == {k \in has : log[k].kind = kind /\ log[k].id = x.id}
               latest(kind) == IF told(kind) = {} THEN Nobody ELSE log[Max(told(kind))].choice
    <3>3. latest("permission_response") = LatestOf(has, n, "permission_response", x.id)
      BY <2>1
    <3>4. latest("elicitation_response") = LatestOf(has, n, "elicitation_response", x.id)
      BY <2>1
    <3> HIDE DEF latest
    <3>5. /\ x.is = "permission_request" =>
               x.decision = IF local[x.id] # Nobody THEN local[x.id] ELSE latest("permission_response")
          /\ x.is = "elicitation_request" => x.decision = latest("elicitation_response")
      BY <3>1, <3>2, <3>3, <3>4
    <3> QED BY <3>5, Zenon DEF latest
  <2> QED BY <2>5 DEF AnswersShown
<1> QED BY <1>5, <1>6, <1>7 DEF TranscriptFaithful

TrSpec == TrInit /\ [][TrNext]_trVars

\* From events in any order, in pieces, with answers known early: a page shows the
\* transcript of the log (event-reducer.ts:20-21, 47-51, 66-72), because after each event
\* it takes from the log it is right about those up to there.
THEOREM TranscriptFaithfulAlways == TrSpec => []TranscriptFaithful
<1>1. TrInit => TrInv
  <2> SUFFICES ASSUME TrInit PROVE TrInv
    OBVIOUS
  <2>1. log = <<>> /\ has = {} /\ local = [m \in Name |-> Nobody] /\ page = Nothing
    BY DEF TrInit
  <2>2. DOMAIN log = {} /\ log \in Seq(EventSet) /\ Len(log) = 0
    BY <2>1
  <2>3. LogFits
    BY <2>2 DEF LogFits
  <2>4. has \subseteq DOMAIN log /\ local \in [Name -> Said]
    BY <2>1, <2>2 DEF Said
  <2>5. Right(page, has, Len(log), local)
    BY <2>1, <2>2, <2>3, <2>4, NothingRight
  <2> QED BY <2>3, <2>4, <2>5 DEF TrInv
<1>2. TrInv /\ [TrNext]_trVars => TrInv'
  <2> SUFFICES ASSUME TrInv, [TrNext]_trVars PROVE TrInv'
    OBVIOUS
  <2>1. CASE UNCHANGED trVars
    <3>1. log' = log /\ has' = has /\ local' = local /\ page' = page
      BY <2>1 DEF trVars
    <3>2. Right(page', has', Len(log), local')
      BY <3>1 DEF TrInv
    <3>3. Right(page, has, Len(log), local)'
      BY <3>1, <3>2, RightAgain
    <3>4. LogFits'
      BY <3>1 DEF TrInv, LogFits, RequestKind
    <3> QED BY <3>1, <3>3, <3>4 DEF TrInv
  <2> QED BY <2>1, LogAppendsRight, IngestRight, ResolveRight DEF TrNext
<1>3. TrInv => TranscriptFaithful
  BY RightShows
<1> QED BY <1>1, <1>2, <1>3, PTL DEF TrSpec
===============================================================================
