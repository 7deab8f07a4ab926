------------------------------ MODULE Transcript ------------------------------
(***************************************************************************)
(* What a page shows of a chat (frontend event-reducer.ts): the events it  *)
(* has, in whatever order history pages and the socket brought them,       *)
(* grouped into user messages, errors and turns with their entries. The    *)
(* answer to a permission may be known from the request that gave it       *)
(* before its event arrives.                                               *)
(*                                                                         *)
(* Texts, titles and outputs are left out: an entry has the sequence       *)
(* numbers (`parts`) of the events it is made of.                          *)
(***************************************************************************)
EXTENDS Naturals, Sequences, FiniteSets, SequencesExt

CONSTANTS
    Kind,       \* the kinds of event that occur
    Name,       \* ids of messages, tool calls and requests
    Choice,     \* options of a permission, actions on an elicitation
    Nobody,     \* no id: an old agent's chunk; no answer yet
    MaxEvents   \* bound: events of the chat

VARIABLES
    log,        \* the chat's events
    has,        \* the sequence numbers in eventsBySeq
    local,      \* localPermissionResponses
    page        \* what is displayed, see Nothing

trVars == <<log, has, local, page>>

TurnScoped == {"chunk", "tool_call", "tool_call_update", "plan", "permission_request",
               "elicitation_request", "elicitation_response", "turn_complete"}
Responses == {"permission_response", "elicitation_response"}

\* items; the index of the open turn, 0 without one; who started its clock.
Nothing == [items |-> <<>>, open |-> 0, clock |-> "none"]

NewTurn == [is |-> "turn", seq |-> 0, status |-> "in_progress", entries |-> <<>>]
Entry(is, id, i) == [is |-> is, id |-> id, parts |-> <<i>>, decision |-> Nobody]

-----------------------------------------------------------------------------
(* Entries                                                                 *)

Extended(entries, j, i) == [entries EXCEPT ![j].parts = Append(@, i)]

\* A chunk continues the last entry if that is one of chunks and of the same message,
\* or if it names none.
Chunk(entries, e, i) ==
    LET n == Len(entries) IN
    IF n > 0 /\ entries[n].is = "chunk" /\ e.id \in {Nobody, entries[n].id}
    THEN Extended(entries, n, i)
    ELSE Append(entries, Entry("chunk", e.id, i))

Plan(entries, i) ==
    LET n == Len(entries) IN
    IF n > 0 /\ entries[n].is = "plan" THEN Extended(entries, n, i)
    ELSE Append(entries, Entry("plan", Nobody, i))

\* An update goes to the last call with its id, or stands for one.
ToolUpdate(entries, e, i) ==
    LET j == SelectLastInSeq(entries, LAMBDA x : x.is = "tool_call" /\ x.id = e.id) IN
    IF j > 0 THEN Extended(entries, j, i) ELSE Append(entries, Entry("tool_call", e.id, i))

\* An answer that this page gave is known before its event.
PermissionEntry(entries, e, i, known) ==
    Append(entries, [Entry("permission_request", e.id, i) EXCEPT !.decision = known[e.id]])

\* The first request with the id; 0 if it is not here.
RequestIndex(entries, kind, id) == SelectInSeq(entries, LAMBDA x : x.is = kind /\ x.id = id)

\* markPermission: the page's own answer wins.
Decided(entries, j, e, known) ==
    [entries EXCEPT ![j].decision =
        IF e.kind = "permission_response" /\ known[e.id] # Nobody THEN known[e.id] ELSE e.choice]

RequestKind(e) == IF e.kind = "permission_response" THEN "permission_request" ELSE "elicitation_request"

\* markPermissionInItems, markElicitationInItems: the first turn that has the request.
MarkInItems(items, e, known) ==
    LET Asked(item) == item.is = "turn" /\ RequestIndex(item.entries, RequestKind(e), e.id) > 0
        t == SelectInSeq(items, Asked)
    IN IF t = 0 THEN items
       ELSE [items EXCEPT ![t].entries = Decided(@, RequestIndex(@, RequestKind(e), e.id), e, known)]

-----------------------------------------------------------------------------
(* Events                                                                  *)

\* applyTurnEvent
ApplyTurnEvent(entries, e, i, known) ==
    CASE e.kind = "chunk" -> Chunk(entries, e, i)
      [] e.kind = "tool_call" -> Append(entries, Entry("tool_call", e.id, i))
      [] e.kind = "tool_call_update" -> ToolUpdate(entries, e, i)
      [] e.kind = "plan" -> Plan(entries, i)
      [] e.kind = "permission_request" -> PermissionEntry(entries, e, i, known)
      [] e.kind = "elicitation_request" -> Append(entries, Entry("elicitation_request", e.id, i))
      [] e.kind = "elicitation_response" /\ RequestIndex(entries, "elicitation_request", e.id) > 0 ->
            Decided(entries, RequestIndex(entries, "elicitation_request", e.id), e, known)
      [] OTHER -> entries

\* ingestTurnEvent: the open turn or a new one, an empty one for the answer to an
\* elicitation of a closed turn.
InTurn(p, e, i, known) ==
    LET items == IF p.open = 0 THEN Append(p.items, [NewTurn EXCEPT !.seq = i]) ELSE p.items
        t == IF p.open = 0 THEN Len(items) ELSE p.open
        turn == items[t]
        more == ApplyTurnEvent(turn.entries, e, i, known)
        with == [items EXCEPT ![t] =
                    [turn EXCEPT !.entries = more,
                                 !.status = IF e.kind = "turn_complete" THEN "complete" ELSE turn.status]]
        here == more # turn.entries
    IN [p EXCEPT !.items = IF e.kind = "elicitation_response" /\ ~here
                           THEN MarkInItems(with, e, known) ELSE with,
                 !.open = IF e.kind = "turn_complete" THEN 0 ELSE t]

\* Fault: the turn before a message stays open.
LeaveTurn(p) == p.items

\* closeCurrentTurn
CloseTurn(p) == IF p.open = 0 THEN p.items ELSE [p.items EXCEPT ![p.open].status = "complete"]

Clock(p, e) ==
    CASE e.kind = "user_message" -> "user"
      [] e.kind = "prompting" /\ p.clock # "user" -> "state"
      [] e.kind = "turn_complete" -> "none"
      [] e.kind \in TurnScoped \ {"turn_complete"} /\ p.clock = "none" -> "inferred"
      [] OTHER -> p.clock

Item(is, i) == [is |-> is, seq |-> i]

\* ingestOrdered
Ingested(p, e, i, known) ==
    LET q == [p EXCEPT !.clock = Clock(p, e)] IN
    CASE e.kind = "permission_response" -> [p EXCEPT !.items = MarkInItems(@, e, known)]
      [] e.kind \in TurnScoped -> InTurn(q, e, i, known)
      [] e.kind = "user_message" -> [q EXCEPT !.items = Append(CloseTurn(p), Item("user_message", i)), !.open = 0]
      [] e.kind = "error" -> [q EXCEPT !.items = Append(@, Item("error", i))]
      [] OTHER -> q

\* rebuild: all events, in the order of the log, from nothing.
FromNothing(events, known) ==
    LET upto[n \in 0 .. Len(log)] ==
            IF n = 0 THEN Nothing
            ELSE IF n \in events THEN Ingested(upto[n - 1], log[n], n, known) ELSE upto[n - 1]
    IN  upto[Len(log)]
Rebuilt(events, i, known) == FromNothing(events, known)

-----------------------------------------------------------------------------
TrInit ==
    /\ log = <<>> /\ has = {} /\ local = [n \in Name |-> Nobody] /\ page = Nothing

AskedFor(id, kind) == \E i \in DOMAIN log : log[i].kind = kind /\ log[i].id = id
Answered(id, kind) == {log[i].choice : i \in {j \in DOMAIN log : log[j].kind = kind /\ log[j].id = id}}

\* What a chat's log may hold next: a request has its own id; a permission is answered
\* once, by the answer the page was told of, if it was told of one; an elicitation may
\* be answered and then completed by the agent.
Fits(e) ==
    CASE e.kind = "permission_request" -> ~AskedFor(e.id, e.kind)
      [] e.kind = "elicitation_request" -> ~AskedFor(e.id, e.kind)
      [] e.kind = "permission_response" ->
            /\ AskedFor(e.id, "permission_request") /\ Answered(e.id, e.kind) = {}
            /\ local[e.id] \in {Nobody, e.choice}
      [] e.kind = "elicitation_response" -> AskedFor(e.id, "elicitation_request")
      [] OTHER -> TRUE

Ids(kind) ==
    CASE kind = "chunk" -> Name \cup {Nobody}
      [] kind \in {"tool_call", "tool_call_update", "permission_request", "elicitation_request"} \cup Responses -> Name
      [] OTHER -> {Nobody}
Possible(kind) == IF kind \in Responses THEN Choice ELSE {Nobody}

LogAppends ==
    /\ Len(log) < MaxEvents
    /\ \E kind \in Kind : \E id \in Ids(kind), choice \in Possible(kind) :
        LET event == [kind |-> kind, id |-> id, choice |-> choice] IN
        Fits(event) /\ log' = Append(log, event)
    /\ UNCHANGED <<has, local, page>>

\* ingest: of a page of the history or of the socket; a second time it is ignored.
Ingest(i) ==
    /\ i \notin has /\ has' = has \cup {i} /\ page' = Rebuilt(has', i, local)
    /\ UNCHANGED <<log, local>>

\* resolvePermission, once the request that answers has returned.
ResolvePermission(id, choice) ==
    /\ \E t \in DOMAIN page.items :
        page.items[t].is = "turn" /\ RequestIndex(page.items[t].entries, "permission_request", id) > 0
    /\ Answered(id, "permission_response") \subseteq {choice} /\ local[id] \in {Nobody, choice}
    /\ local' = [local EXCEPT ![id] = choice]
    /\ page' = FromNothing(has, local')
    /\ UNCHANGED <<log, has>>

TrNext ==
    \/ LogAppends
    \/ \E i \in DOMAIN log : Ingest(i)
    \/ \E id \in Name, choice \in Choice : ResolvePermission(id, choice)

-----------------------------------------------------------------------------
Turns == {t \in DOMAIN page.items : page.items[t].is = "turn"}
Shown(t) ==
    UNION {{j} \X DOMAIN page.items[t].entries[j].parts : j \in DOMAIN page.items[t].entries}
PartOf(t, x) == page.items[t].entries[x[1]].parts[x[2]]

\* Events that are, or become part of, an entry.
Entered == {i \in has : log[i].kind \in TurnScoped \ {"turn_complete", "elicitation_response"}}

\* Something between two events of the page that ends a turn.
Parted(i, j) == \E k \in has : i <= k /\ k < j /\ log[k].kind \in {"user_message", "turn_complete"}

\* In whatever order events arrive, each is shown once, in the turn of its
\* neighbours in the log and not across a prompt or the end of a turn
\* (event-reducer.ts:47-51).
TurnsAsLogged ==
    /\ \A i \in Entered : \E t \in Turns : \E x \in Shown(t) :
        /\ PartOf(t, x) = i
        /\ \A u \in Turns : \A y \in Shown(u) : PartOf(u, y) = i => u = t /\ y = x
        /\ \A y \in Shown(t) : LET j == PartOf(t, y) IN
            ~(IF i < j THEN Parted(i, j) ELSE Parted(j, i))
    /\ \A t, u \in DOMAIN page.items : t < u => page.items[t].seq < page.items[u].seq

\* At most one turn is open, the last one, and its clock runs.
OneOpenTurn ==
    \A t \in Turns : page.items[t].status = "in_progress" =>
        /\ t = page.open /\ \A u \in Turns : u <= t
        /\ page.clock # "none"

\* A request is shown as answered, and with the answer of the log, whenever its
\* answer has arrived or was given here, also when the turn is over or an older page
\* brings the request last (event-reducer.ts:66-72, 20-21).
AnswersShown ==
    \A t \in Turns : \A j \in DOMAIN page.items[t].entries :
        LET x == page.items[t].entries[j]
            Told(kind) == {k \in has : log[k].kind = kind /\ log[k].id = x.id}
            Latest(kind) == IF Told(kind) = {} THEN Nobody ELSE log[Max(Told(kind))].choice
        IN /\ x.is = "permission_request" =>
                x.decision = IF local[x.id] # Nobody THEN local[x.id] ELSE Latest("permission_response")
           /\ x.is = "elicitation_request" => x.decision = Latest("elicitation_response")

\* The transcript a page builds from pieces is the one of the log.
TranscriptFaithful == TurnsAsLogged /\ OneOpenTurn /\ AnswersShown
=============================================================================
