---------------------------- MODULE SessionUpdates ----------------------------
(***************************************************************************)
(* What the reader of an agent's output does with session/update           *)
(* (acp/mod.rs), and the title of the chat, which the reader, the title    *)
(* query after a turn (session/mod.rs) and users (service/chats.rs) write  *)
(* at the same time. The row is changed under the lock of the store; the   *)
(* event that makes pages load it again is a step of its own.              *)
(***************************************************************************)
CONSTANTS
    Title,      \* titles users and agents give
    Default,    \* "New chat N"
    ToolCall,   \* ids of tool calls
    Writer      \* users editing at the same time

VARIABLES
    reading,    \* what the reader is doing: [step, line]
    replayed,   \* the flag `replaying`
    row,        \* the chat's row: [title, over]
    history,    \* the log, reduced to the tool calls that ran a command
    accepts,    \* the log takes events
    query,      \* the title query after a turn: [step, title]
    edit,       \* of each user: "idle" or "stored"
    tasks,      \* tool calls the task tracker knows
    announced,       \* history: the title pages have loaded or are announced to load
    chosen      \* history: the last title a user gave, or Default

suVars == <<reading, replayed, row, history, accepts, query, edit, tasks, announced, chosen>>

Absent == "absent"
Null == "null"
Unfit == "unfit"   \* blank or longer than 200
Rest == [step |-> "idle"]

\* `fit`: content within the limits. `command`: the payload is evidence of a command.
Updates ==
    [is : {"config", "commands", "mode", "usage", "user_chunk", "plan", "other"}]
    \cup [is : {"chunk"}, fit : BOOLEAN]
    \cup [is : {"tool"}, id : ToolCall, command : BOOLEAN, fit : BOOLEAN]
    \cup [is : {"info"}, title : Title \cup {Absent, Null, Unfit}, more : {"value", Absent, Null}]

SuTypeOK ==
    /\ reading.step \in {"idle", "ingested", "retitled", "ended"}
    /\ row \in [title : Title \cup {Default}, over : BOOLEAN]
    /\ query.step \in {"idle", "asked", "listed", "stored"}
    /\ tasks \subseteq ToolCall /\ edit \in [Writer -> {"idle", "stored"}]
    /\ history \subseteq ToolCall /\ announced \in Title \cup {Default}

\* A chat is created with a title of the user's or with the next default one.
SuInit ==
    /\ \E t \in Title \cup {Default} : row = [title |-> t, over |-> t # Default]
    /\ announced = row.title /\ chosen = row.title
    /\ reading = Rest /\ replayed = FALSE /\ history = {} /\ accepts = TRUE
    /\ query = Rest /\ edit = [w \in Writer |-> "idle"]
    /\ tasks = {}

-----------------------------------------------------------------------------
Dynamic == {"config", "commands", "mode", "usage"}

OfCommand(u) == u.is = "tool" /\ u.command
Log(u) == accepts /\ history' = history \cup (IF OfCommand(u) THEN {u.id} ELSE {})

\* The page loads the row after the event: it sees this title or a later one.
Tell(title) == accepts /\ announced' = title /\ UNCHANGED history
Untold == ~accepts /\ UNCHANGED <<history, announced>>

\* A refused event, or content over the limits, ends the reader.
ReaderEnds == reading' = [step |-> "ended"]

\* Snapshots take an update even while the agent replays; the log does not.
ReadDynamic(u) ==
    /\ u.is \in Dynamic
    /\ \/ replayed /\ UNCHANGED <<reading, history>>
       \/ ~replayed /\ Log(u) /\ UNCHANGED reading
       \/ ~replayed /\ ~accepts /\ ReaderEnds /\ UNCHANGED history
    /\ UNCHANGED <<row, tasks, announced>>

\* A user's message comes from the log and not from its echo; an info update
\* without anything in it is dropped, unless it clears something.
Dropped(u) ==
    \/ u.is \in {"user_chunk", "other"}
    \/ /\ u.is = "info" /\ u.title \in {Absent, Unfit} /\ u.more = Absent

ReadDropped(u) ==
    /\ u.is \notin Dynamic /\ (replayed \/ Dropped(u))
    /\ UNCHANGED <<reading, history, row, tasks, announced>>

\* The rest is one event each; content over the limits ends the reader, as a
\* refused event does.
Records(u) ==
    /\ UNCHANGED <<row, tasks, announced>>
    /\ \/ (u.is \in {"chunk", "tool"} => u.fit) /\ Log(u) /\ reading' = Rest
       \/ ((u.is \in {"chunk", "tool"} /\ ~u.fit) \/ ~accepts) /\ ReaderEnds /\ UNCHANGED history

ReadPlain(u) == ~replayed /\ u.is \in {"chunk", "plan"} /\ Records(u)

\* The tracker knows a command before the log does; a task that is new or over is
\* announced.
ReadTool(u) ==
    /\ ~replayed /\ u.is = "tool"
    /\ tasks' = IF OfCommand(u) THEN tasks \cup {u.id} ELSE tasks
    /\ Tell(row.title) \/ Untold \/ (tasks' = tasks /\ UNCHANGED <<history, announced>>)
    /\ reading' = [step |-> "ingested", line |-> u]
    /\ UNCHANGED row

RecordTool == reading.step = "ingested" /\ Records(reading.line)

\* Fault: whether a user has named the chat was looked at before.
RetitledAnyway(t) == [row EXCEPT !.title = t]

\* store::chats::update of an agent's title, by the reader and by the query:
\* whether a user has named the chat is looked at under the lock.
Retitled(t) == IF ~row.over THEN [row EXCEPT !.title = t] ELSE row

AgentRetitles(t) == row' = Retitled(t)

ReadInfo(u) ==
    /\ ~replayed /\ u.is = "info" /\ ~Dropped(u)
    /\ IF u.title \in Title THEN AgentRetitles(u.title) ELSE UNCHANGED row
    /\ reading' = [step |-> "retitled", line |-> u, changed |-> row' # row]
    /\ UNCHANGED <<history, tasks, announced>>

\* metadata_changed if the row changed, and session_info.
RecordInfo ==
    /\ reading.step = "retitled" /\ UNCHANGED <<row, tasks>>
    /\ LET info == reading.line IN
        \/ /\ reading.changed /\ Tell(row.title)
           /\ reading' = [reading EXCEPT !.changed = FALSE]
        \/ /\ ~reading.changed /\ Log(info) /\ reading' = Rest /\ UNCHANGED announced
        \/ Untold /\ ReaderEnds

Read ==
    /\ \/ reading = Rest /\ \E u \in Updates :
            ReadDynamic(u) \/ ReadDropped(u) \/ ReadPlain(u) \/ ReadTool(u) \/ ReadInfo(u)
       \/ RecordTool \/ RecordInfo
    /\ UNCHANGED <<replayed, accepts, query, edit, chosen>>

-----------------------------------------------------------------------------
\* open_session raises the flag for a saved session, and lowers it with the answer.
Reopens ==
    /\ replayed' = ~replayed
    /\ UNCHANGED <<reading, row, history, accepts, query, edit, tasks, announced, chosen>>

\* try_sync_acp_title, after a turn: nothing to do for a chat its user named.
QueryTitle ==
    /\ query = Rest /\ ~row.over /\ reading.step # "ended"
    /\ query' = [step |-> "asked"]
    /\ UNCHANGED <<reading, replayed, row, history, accepts, edit, tasks, announced, chosen>>

\* session/list: the session's title, or none that fits, an error, or 5 s.
ListTitle ==
    /\ query.step = "asked"
    /\ query' \in {Rest} \cup [step : {"listed"}, title : Title]
    /\ UNCHANGED <<reading, replayed, row, history, accepts, edit, tasks, announced, chosen>>

StoreTitle ==
    /\ query.step = "listed"
    /\ AgentRetitles(query.title)
    /\ query' = IF row' # row THEN [step |-> "stored"] ELSE Rest
    /\ UNCHANGED <<reading, replayed, history, accepts, edit, tasks, announced, chosen>>

TellTitle ==
    /\ query.step = "stored" /\ query' = Rest
    /\ Tell(row.title) \/ Untold
    /\ UNCHANGED <<reading, replayed, row, accepts, edit, tasks, chosen>>

\* edit_chat: a title is stored whatever the agent does; then the pages are announced.
EditTitle(w) ==
    /\ edit[w] = "idle"
    /\ \E t \in Title : row' = [title |-> t, over |-> TRUE] /\ chosen' = t
    /\ edit' = [edit EXCEPT ![w] = "stored"]
    /\ UNCHANGED <<reading, replayed, history, accepts, query, tasks, announced>>

TellEdit(w) ==
    /\ edit[w] = "stored" /\ edit' = [edit EXCEPT ![w] = "idle"]
    /\ Tell(row.title) \/ Untold
    /\ UNCHANGED <<reading, replayed, row, accepts, query, tasks, chosen>>

LogCloses ==
    /\ accepts /\ accepts' = FALSE
    /\ UNCHANGED <<reading, replayed, row, history, query, edit, tasks, announced, chosen>>

SuNext ==
    \/ Read \/ Reopens \/ QueryTitle \/ ListTitle \/ StoreTitle \/ TellTitle \/ LogCloses
    \/ \E w \in Writer : EditTitle(w) \/ TellEdit(w)

-----------------------------------------------------------------------------
\* Somebody changed the row and has yet to say so.
Owing ==
    \/ reading.step = "retitled" /\ reading.changed
    \/ query.step = "stored" \/ \E w \in Writer : edit[w] = "stored"

\* The title a user gave is what the chat is called, whatever the agent calls its
\* session and however long ago it was asked; and pages are announced of every change
\* of a title, whoever made it (session/mod.rs:1376-1426, acp/mod.rs:2022-2050,
\* service/chats.rs:609-618).
TitlesHold ==
    /\ row.over => row.title = chosen
    /\ (accepts /\ ~Owing) => announced = row.title

\* A page that fetches the tasks after a tool call's event finds the command
\* (acp/mod.rs:1984-1986).
TaskBeforeEvent == history \subseteq tasks

\* What the agent says of its session reaches the row, the tasks and the pages in
\* the right order, and never over what the user said.
UpdatesHold == SuTypeOK /\ TitlesHold /\ TaskBeforeEvent
=============================================================================
