------------------------------ MODULE Callbacks ------------------------------
(***************************************************************************)
(* What an agent asks its user: CallbackHandler in                         *)
(* backend/src/acp/callbacks.rs, with the tasks of the ACP reader that     *)
(* call it (backend/src/acp/mod.rs), the calls of the chat that answer or  *)
(* cancel (backend/src/session/mod.rs) and the recovery of the event log   *)
(* (backend/src/events.rs).                                                *)
(*                                                                         *)
(* A request lives in three places: a map of the handler, the task that    *)
(* waits for the answer, and the rows of the event log the browsers see.   *)
(* Answers, cancellations and the agent's own completion race for the map; *)
(* the rows are appended under its lock for permissions, and after its     *)
(* release for elicitations.  Every elicitation has an id of its own, and  *)
(* there is one agent process per start of the server.                     *)
(***************************************************************************)
EXTENDS Naturals, FiniteSets, SequencesExt

CONSTANTS
    Permission,   \* session/request_permission requests of the agent
    Elicitation,  \* elicitation/create requests of the agent
    Browser,      \* API calls that answer elicitations
    Canceller,    \* API calls that cancel the turn
    Slots,        \* permits of request_semaphore
    Restarts,     \* bound: how often the server is started again
    NoAnswer

ASSUME CallbacksAssumption ==
    /\ Permission \cap Elicitation = {}
    /\ IsFiniteSet(Permission) /\ IsFiniteSet(Elicitation)
    /\ Slots \in Nat \ {0} /\ Restarts \in Nat
    /\ NoAnswer \notin {"allow", "accept", "decline", "cancel"}
    /\ {"reader", "stop"} \cap (Browser \cup Canceller) = {}

Req == Permission \cup Elicitation
Answer == {"allow", "accept", "decline", "cancel"}
Drainer == Canceller \cup {"stop"}
Resolver == Browser \cup {"reader"}

VARIABLES
    task,      \* task[r]: where the reader's task for r stands
    pending,   \* keys of pending_permissions and pending_elicitations
    sent,      \* sent[r]: what went into the oneshot channel of r
    told,      \* told[r]: what the task answers the agent
    rows,      \* the rows of the event log about requests
    failed,    \* persistence_error is set
    client,    \* the AcpClient of the chat: "live", "taken", "stopped", "down"
    drain,     \* drain[d]: which map the cancellation d empties next
    call,      \* call[b]: the answer b has validated and not yet sent, or NoCall
    owed,      \* owed[v]: the rows v appends after it released the map
    restarts

handler == <<task, pending, sent, told>>
store == <<rows, failed>>
calls == <<drain, call, owed>>
cbVars == <<handler, store, client, calls, restarts>>

NoCall == [req |-> NoAnswer, answer |-> NoAnswer]
Row == [what : {"request", "response", "complete"}, req : Req, answer : Answer \cup {NoAnswer}]
RequestRow(r) == [what |-> "request", req |-> r, answer |-> NoAnswer]
ResponseRow(r, a) == [what |-> "response", req |-> r, answer |-> a]
CompleteRow(r) == [what |-> "complete", req |-> r, answer |-> NoAnswer]

\* Every variable keeps its type, and a row is about an answer or it has none.
CbTypeOK ==
    /\ task \in [Req -> {"idle", "queued", "registered", "withdrawing", "waiting", "done", "lost"}]
    /\ pending \in SUBSET Req
    /\ sent \in [Req -> Answer \cup {NoAnswer}] /\ told \in [Req -> Answer \cup {NoAnswer}]
    /\ rows \in Seq(Row) /\ failed \in BOOLEAN
    /\ client \in {"live", "taken", "stopped", "down"}
    /\ drain \in [Drainer -> {"idle", "permissions", "elicitations", "kill"}]
    /\ call \in [Browser -> {NoCall} \cup [req : Elicitation, answer : Answer]]
    /\ owed \in [Resolver -> Seq(Row)]
    /\ restarts \in 0..Restarts

CbInit ==
    /\ task = [r \in Req |-> "idle"]
    /\ pending = {}
    /\ sent = [r \in Req |-> NoAnswer] /\ told = [r \in Req |-> NoAnswer]
    /\ rows = <<>> /\ failed = FALSE
    /\ client = "live"
    /\ drain = [d \in Drainer |-> "idle"]
    /\ call = [b \in Browser |-> NoCall]
    /\ owed = [v \in Resolver |-> <<>>]
    /\ restarts = 0

Up == client # "down"

\* EventLog::append of rows: nothing once the log has failed.
Record(news) == rows' = IF failed THEN rows ELSE rows \o news

\* The log refuses a row for a cause that lasts until the next start.
LogFails == Up /\ ~failed /\ failed' = TRUE /\ UNCHANGED <<handler, rows, client, calls, restarts>>

-----------------------------------------------------------------------------
(* The agent asks: one task per request.                                   *)

\* The reader spawns a task; the kill that ends shutdown aborts the reader.
Ask(r) ==
    /\ task[r] = "idle" /\ client \in {"live", "taken"}
    /\ task' = [task EXCEPT ![r] = "queued"]
    /\ UNCHANGED <<pending, sent, told, store, client, calls, restarts>>

Occupied == {r \in Req : task[r] \in {"registered", "withdrawing", "waiting"}}

\* The task has a permit and inserts its channel into the map.
Register(r) ==
    /\ task[r] = "queued" /\ Up
    /\ Cardinality(Occupied) < Slots
    /\ task' = [task EXCEPT ![r] = "registered"]
    /\ pending' = pending \cup {r}
    /\ UNCHANGED <<sent, told, store, client, calls, restarts>>

\* The request event is appended.
RecordRequest(r) ==
    /\ task[r] = "registered" /\ ~failed
    /\ Record(<<RequestRow(r)>>)
    /\ task' = [task EXCEPT ![r] = "waiting"]
    /\ UNCHANGED <<pending, sent, told, failed, client, calls, restarts>>

\* The append fails: the log has failed, or the event is too large for a row.
RequestRefused(r) ==
    /\ task[r] = "registered"
    /\ task' = [task EXCEPT ![r] = "withdrawing"]
    /\ UNCHANGED <<pending, sent, told, store, client, calls, restarts>>

\* The entry is removed and the agent is answered `cancelled`, whatever is in
\* the channel.
Withdraw(r) ==
    /\ task[r] = "withdrawing"
    /\ pending' = pending \ {r}
    /\ told' = [told EXCEPT ![r] = "cancel"]
    /\ task' = [task EXCEPT ![r] = "done"]
    /\ UNCHANGED <<sent, store, client, calls, restarts>>

\* rx.await returns, and the permit is released.
Reply(r) ==
    /\ task[r] = "waiting" /\ sent[r] # NoAnswer
    /\ told' = [told EXCEPT ![r] = sent[r]]
    /\ task' = [task EXCEPT ![r] = "done"]
    /\ UNCHANGED <<pending, sent, store, client, calls, restarts>>

-----------------------------------------------------------------------------
(* The user answers.                                                       *)

Resolve(r, a) ==
    /\ pending' = pending \ {r}
    /\ sent' = [sent EXCEPT ![r] = a]

\* respond_permission: remove, append and send under the lock of the map, with
\* the client held.  When the append fails the entry is back as it was, as it is
\* when the option is none of the request's.
RespondPermission(r) ==
    /\ r \in Permission \cap pending
    /\ client = "live"
    /\ ~failed
    /\ Record(<<ResponseRow(r, "allow")>>)
    /\ Resolve(r, "allow")
    /\ UNCHANGED <<task, told, failed, client, calls, restarts>>

\* Fault: the entry is removed before the content is validated.
BeginElicitationRemoving(b, r, a) ==
    /\ client = "live"
    /\ call[b] = NoCall /\ owed[b] = <<>>
    /\ r \in Elicitation \cap pending
    /\ call' = [call EXCEPT ![b] = [req |-> r, answer |-> a]]
    /\ pending' = pending \ {r}
    /\ UNCHANGED <<task, sent, told, store, client, drain, owed, restarts>>

\* respond_elicitation with a clone of the client: an acceptance is validated
\* against the pending request.  A call about any other request changes nothing.
BeginElicitation(b, r, a) ==
    /\ client = "live"
    /\ call[b] = NoCall /\ owed[b] = <<>>
    /\ r \in Elicitation \cap pending
    /\ call' = [call EXCEPT ![b] = [req |-> r, answer |-> a]]
    /\ UNCHANGED <<handler, store, client, drain, owed, restarts>>

\* Fault: what was validated is recorded although another answer was sent.
ResolveElicitationBlindly(b) ==
    /\ call[b] # NoCall /\ Up
    /\ LET r == call[b].req
           a == call[b].answer
       IN /\ owed' = [owed EXCEPT ![b] = <<ResponseRow(r, a)>>]
          /\ pending' = pending \ {r}
          /\ sent' = IF r \in pending THEN [sent EXCEPT ![r] = a] ELSE sent
    /\ call' = [call EXCEPT ![b] = NoCall]
    /\ UNCHANGED <<task, told, store, client, drain, restarts>>

\* resolve_elicitation up to the send; nothing when somebody was faster.
ResolveElicitation(b) ==
    /\ call[b] # NoCall /\ Up
    /\ LET r == call[b].req
           a == call[b].answer
       IN IF r \in pending
          THEN Resolve(r, a) /\ owed' = [owed EXCEPT ![b] = <<ResponseRow(r, a)>>]
          ELSE UNCHANGED <<pending, sent, owed>>
    /\ call' = [call EXCEPT ![b] = NoCall]
    /\ UNCHANGED <<task, told, store, client, drain, restarts>>

\* The end of resolve_elicitation, or of the reader's elicitation/complete.
RecordOwed(v) ==
    /\ owed[v] # <<>> /\ Up
    /\ Record(<<Head(owed[v])>>)
    /\ owed' = [owed EXCEPT ![v] = Tail(@)]
    /\ UNCHANGED <<handler, failed, client, drain, call, restarts>>

-----------------------------------------------------------------------------
(* The agent completes, the user cancels, the chat stops.                  *)

\* complete_elicitation: the channel is dropped, which the task reads as a
\* cancellation.  Then the reader appends up to two rows.  An agent completes
\* what it has asked, once.
CompleteElicitation(r) ==
    /\ client \in {"live", "taken"}
    /\ owed["reader"] = <<>>
    /\ r \in Elicitation /\ task[r] \in {"registered", "waiting", "done"}
    /\ CompleteRow(r) \notin {rows[i] : i \in DOMAIN rows}
    /\ r \in pending \/ ~failed
    /\ IF r \in pending
       THEN /\ Resolve(r, "cancel")
            /\ owed' = [owed EXCEPT !["reader"] = <<ResponseRow(r, "cancel"), CompleteRow(r)>>]
       ELSE /\ owed' = [owed EXCEPT !["reader"] = <<CompleteRow(r)>>]
            /\ UNCHANGED <<pending, sent>>
    /\ UNCHANGED <<task, told, store, client, drain, call, restarts>>

\* AcpSession::cancel with a clone of the client.
Cancel(c) ==
    /\ client = "live" /\ drain[c] = "idle"
    /\ drain' = [drain EXCEPT ![c] = "permissions"]
    /\ UNCHANGED <<handler, store, client, call, owed, restarts>>

\* AcpSession::shutdown takes the client out of the chat.
Stop ==
    /\ client = "live"
    /\ client' = "taken"
    /\ drain' = [drain EXCEPT !["stop"] = "permissions"]
    /\ UNCHANGED <<handler, store, call, owed, restarts>>

\* A cancellation row for each drained entry; the order says nothing.
CancelRows(R) ==
    LET order == SetToSeq(R) IN [i \in DOMAIN order |-> ResponseRow(order[i], "cancel")]

\* One map is emptied under its lock; a failed append does not stop it.
Empty(R) ==
    /\ Record(CancelRows(R \cap pending))
    /\ pending' = pending \ R
    /\ sent' = [r \in Req |-> IF r \in R \cap pending THEN "cancel" ELSE sent[r]]

CancelPendingPermissions(d) ==
    /\ drain[d] = "permissions" /\ Up
    /\ Empty(Permission)
    /\ drain' = [drain EXCEPT ![d] = "elicitations"]
    /\ UNCHANGED <<task, told, failed, client, call, owed, restarts>>

CancelPendingElicitations(d) ==
    /\ drain[d] = "elicitations" /\ Up
    /\ Empty(Elicitation)
    /\ drain' = [drain EXCEPT ![d] = IF d = "stop" THEN "kill" ELSE "idle"]
    /\ UNCHANGED <<task, told, failed, client, call, owed, restarts>>

\* AcpClient::shutdown kills the agent and aborts the reader, which has no
\* await between the rows it owes.  The tasks of its requests go on.
Kill ==
    /\ drain["stop"] = "kill" /\ owed["reader"] = <<>>
    /\ client' = "stopped"
    /\ drain' = [drain EXCEPT !["stop"] = "idle"]
    /\ UNCHANGED <<handler, store, call, owed, restarts>>

-----------------------------------------------------------------------------
(* The server goes down, and is started again.                             *)

Crash ==
    /\ Up /\ restarts < Restarts
    /\ client' = "down"
    /\ task' = [r \in Req |-> IF task[r] \in {"idle", "done"} THEN task[r] ELSE "lost"]
    /\ pending' = {}
    /\ drain' = [d \in Drainer |-> "idle"]
    /\ call' = [b \in Browser |-> NoCall]
    /\ owed' = [v \in Resolver |-> <<>>]
    /\ failed' = FALSE
    /\ UNCHANGED <<sent, told, rows, restarts>>

Closes(row, r) == row.req = r /\ row.what \in {"response", "complete"}

\* The scan of the recovery: rows in their order, a request opens, a response
\* or a completion closes.
StillPending(r) ==
    \E i \in DOMAIN rows :
        /\ rows[i] = RequestRow(r)
        /\ \A j \in i + 1 .. Len(rows) : ~Closes(rows[j], r)

\* EventLog::persistent; a new agent is started for the chat.
Recover ==
    /\ ~Up
    /\ rows' = rows \o CancelRows({r \in Req : StillPending(r)})
    /\ client' = "live"
    /\ restarts' = restarts + 1
    /\ UNCHANGED <<handler, failed, calls>>

-----------------------------------------------------------------------------
(* Properties.                                                             *)

Recorded(r) == \E i \in DOMAIN rows : rows[i] = RequestRow(r)
Owes(r) == \E v \in Resolver : \E i \in DOMAIN owed[v] : Closes(owed[v][i], r)

\* A request the browsers see without any answer can still be answered: unless
\* the log has failed, its entry is in the map or its answer is being recorded.
OpenIsAnswerable ==
    \A r \in Req :
        (Up /\ ~failed /\ Recorded(r) /\ task[r] # "lost"
            /\ \A i \in DOMAIN rows : ~Closes(rows[i], r))
        => r \in pending \/ Owes(r)

\* What the transcript says the user answered is what the agent was told, for
\* every request whose own event was recorded: no cancellation, completion or
\* second browser comes between the two.
RecordedAnswerWasTold ==
    \A i \in DOMAIN rows :
        LET r == rows[i].req IN
        (rows[i].what = "response" /\ rows[i].answer # "cancel" /\ Recorded(r) /\ task[r] = "done")
        => told[r] = rows[i].answer

\* The last the browsers hear of r is that it waits for an answer.
Open(r) ==
    /\ Recorded(r)
    /\ \A i, j \in DOMAIN rows : rows[i] = RequestRow(r) /\ Closes(rows[j], r) => j < i

\* After a start no request of an earlier process is open in the transcript,
\* although no task waits for its answer any more.
RestartClosesRequests == \A r \in Req : Up /\ task[r] = "lost" => ~Open(r)

\* A request that is open in the transcript can be answered: it is not left there
\* by a failure, a cancellation, a stop or a restart. And the answer that closes it
\* there is the one the agent got (acp/callbacks.rs:431-620).
RequestsSettle == CbTypeOK /\ OpenIsAnswerable /\ RestartClosesRequests /\ RecordedAnswerWasTold

-----------------------------------------------------------------------------
CbNext ==
    \/ LogFails \/ Stop \/ Kill \/ Crash \/ Recover
    \/ \E r \in Req :
        \/ Ask(r) \/ Register(r) \/ RecordRequest(r) \/ RequestRefused(r)
        \/ Withdraw(r) \/ Reply(r) \/ RespondPermission(r) \/ CompleteElicitation(r)
        \/ \E b \in Browser, a \in {"accept", "decline"} : BeginElicitation(b, r, a)
    \/ \E b \in Browser : ResolveElicitation(b)
    \/ \E v \in Resolver : RecordOwed(v)
    \/ \E c \in Canceller : Cancel(c)
    \/ \E d \in Drainer : CancelPendingPermissions(d) \/ CancelPendingElicitations(d)

CbSpec == CbInit /\ [][CbNext]_cbVars

=============================================================================
