---------------------------- MODULE AcpConnection ----------------------------
(***************************************************************************)
(* One agent process and its AcpClient (backend/src/acp/mod.rs): the       *)
(* callers that send JSON-RPC requests, the writer task with its bounded   *)
(* queue, the reader task, the task that waits for the exit of the         *)
(* process, and the shutdown.                                              *)
(*                                                                         *)
(* A request is registered in `pending` before its line is queued; whoever *)
(* ends the connection clears `connected` before it fails what is pending. *)
(* The agent numbers its session updates; an answer carries the numbers it *)
(* had reached when it read the request and when it answered.              *)
(***************************************************************************)
EXTENDS Naturals, Sequences, FiniteSets, Functions

CONSTANTS
    Loader,      \* the request of open_session: session/load or session/resume
    Prompt,      \* requests without a deadline: session/prompt
    Config,      \* requests of set_config, which have a deadline as Loader has
    QueueLimit,  \* capacity of the writer's channel (64 in the code)
    MaxUpdate,   \* bound: session updates the agent sends
    Stalls       \* the agent may stop reading its input

ASSUME AcpAssumption ==
    /\ Loader \notin Prompt \cup Config /\ Prompt \cap Config = {}
    /\ QueueLimit \in Nat \ {0} /\ MaxUpdate \in Nat /\ Stalls \in BOOLEAN

Call == {Loader} \cup Prompt \cup Config
Line == [what : {"request", "cancel"}, call : Call] \cup [what : {"shutdown"}]
Answer == [what : {"answer"}, call : Call, version : 0..MaxUpdate, since : 0..MaxUpdate]
Heard == Answer \cup [what : {"update"}, version : 1..MaxUpdate]

VARIABLES
    stage,      \* stage[c]: where the caller of c stands
    pending,    \* the requests whose channel is in the map
    reply,      \* reply[c]: what went into the channel of c
    queue,      \* the lines in the writer's channel
    connected,
    writer,     \* "running" or "ended"
    reader,     \* "running", "ending", "closing", "ended"
    closer,     \* shutdown: "idle", "flagged", "killed", "aborted", "done"
    agent,      \* the process: "running", "stalled", "dead"
    asked,      \* asked[c]: the version at which the agent read c, or Never
    output,     \* the lines of the agent that the reader has not taken
    version,    \* session updates the agent has sent
    replaying,
    rows        \* the updates the event log holds

callers == <<stage, pending, reply>>
tasks == <<queue, connected, writer, reader>>
process == <<agent, asked, output, version>>
memory == <<replaying, rows>>
linkVars == <<callers, tasks, closer, process, memory>>

Never == MaxUpdate + 1
Nothing == [is |-> "nothing"]
Failure == [is |-> "error"]
Success(line) == [is |-> "ok", version |-> line.version, since |-> line.since]

Over == {"idle", "done"}

\* Every variable keeps its type.
LinkTypeOK ==
    /\ stage \in [Call -> {"idle", "checked", "inserted", "sending", "awaiting",
                           "cancelling", "returned", "done"}]
    /\ pending \in SUBSET Call
    /\ reply \in [Call -> {Nothing, Failure} \cup {Success(line) : line \in Answer}]
    /\ queue \in Seq(Line) /\ Len(queue) <= QueueLimit
    /\ connected \in BOOLEAN /\ writer \in {"running", "ended"}
    /\ reader \in {"running", "ending", "closing", "ended"}
    /\ closer \in {"idle", "flagged", "killed", "aborted", "done"}
    /\ agent \in {"running", "stalled", "dead"}
    /\ asked \in [Call -> 0..Never] /\ output \in Seq(Heard)
    /\ version \in 0..MaxUpdate
    /\ replaying \in BOOLEAN /\ rows \in Seq(1..MaxUpdate)

LinkInit ==
    /\ stage = [c \in Call |-> "idle"] /\ pending = {} /\ reply = [c \in Call |-> Nothing]
    /\ queue = <<>> /\ connected = TRUE /\ writer = "running" /\ reader = "running"
    /\ closer = "idle"
    /\ agent = "running" /\ asked = [c \in Call |-> Never] /\ output = <<>> /\ version = 0
    /\ replaying = FALSE /\ rows = <<>>

-----------------------------------------------------------------------------
(* The callers.                                                            *)

Goes(c, there) == stage' = [stage EXCEPT ![c] = there]

\* dispatch_request's first look.  The session is opened before it is used,
\* and a prompt waits for the one before it.
BeginCall(c) ==
    /\ stage[c] = "idle"
    /\ c # Loader => stage[Loader] = "done" /\ reply[Loader].is = "ok"
    /\ c \in Prompt => \A d \in Prompt : stage[d] \in Over
    /\ IF connected
       THEN Goes(c, "checked") /\ UNCHANGED reply
       ELSE Goes(c, "done") /\ reply' = [reply EXCEPT ![c] = Failure]
    /\ replaying' = (replaying \/ (c = Loader /\ connected))
    /\ UNCHANGED <<pending, tasks, closer, process, rows>>

InsertPending(c) ==
    /\ stage[c] = "checked"
    /\ pending' = pending \cup {c}
    /\ Goes(c, "inserted")
    /\ UNCHANGED <<reply, tasks, closer, process, memory>>

\* Fault: dispatch_request does not look at `connected` again.
LookNever(c) ==
    /\ stage[c] = "inserted"
    /\ Goes(c, "sending")
    /\ UNCHANGED <<pending, reply, tasks, closer, process, memory>>
\* The second look: the reader may have failed the others before c was there.
LookAgain(c) ==
    /\ stage[c] = "inserted"
    /\ IF connected
       THEN Goes(c, "sending") /\ UNCHANGED <<pending, reply>>
       ELSE /\ pending' = pending \ {c}
            /\ reply' = [reply EXCEPT ![c] = Failure]
            /\ Goes(c, "returned")
    /\ UNCHANGED <<tasks, closer, process, memory>>

Room == writer = "running" /\ Len(queue) < QueueLimit

\* writer_tx.send waits for room and fails once the writer is gone.
EnqueueCall(c) ==
    /\ stage[c] = "sending"
    /\ \/ /\ Room
          /\ queue' = Append(queue, [what |-> "request", call |-> c])
          /\ Goes(c, "awaiting")
          /\ UNCHANGED <<pending, reply>>
       \/ /\ writer = "ended"
          /\ pending' = pending \ {c}
          /\ reply' = [reply EXCEPT ![c] = Failure]
          /\ Goes(c, "returned")
          /\ UNCHANGED queue
    /\ UNCHANGED <<connected, writer, reader, closer, process, memory>>

\* rx.await returns.
TakeReply(c) ==
    /\ stage[c] = "awaiting" /\ reply[c] # Nothing
    /\ Goes(c, "returned")
    /\ UNCHANGED <<pending, reply, tasks, closer, process, memory>>

\* The deadline passes: the entry is removed, then the agent is told.
Deadline(c) ==
    /\ c \notin Prompt /\ stage[c] = "awaiting" /\ reply[c] = Nothing
    /\ pending' = pending \ {c}
    /\ Goes(c, "cancelling")
    /\ UNCHANGED <<reply, tasks, closer, process, memory>>

\* cancel_request: the notification is queued, or there is no writer.
CancelCall(c) ==
    /\ stage[c] = "cancelling"
    /\ \/ Room /\ queue' = Append(queue, [what |-> "cancel", call |-> c])
       \/ writer = "ended" /\ UNCHANGED queue
    /\ reply' = [reply EXCEPT ![c] = Failure]
    /\ Goes(c, "returned")
    /\ UNCHANGED <<pending, connected, writer, reader, closer, process, memory>>

\* Fault: open_session leaves `replaying` set when it succeeds.
ReplayEndsOnError(c) == replaying' = (replaying /\ (c # Loader \/ reply[c].is = "ok"))
ReplayEnds(c) == replaying' = (replaying /\ c # Loader)

\* The caller goes on; open_session ends the replay, however it ended.
FinishCall(c) ==
    /\ stage[c] = "returned"
    /\ Goes(c, "done")
    /\ ReplayEnds(c)
    /\ UNCHANGED <<pending, reply, tasks, closer, process, rows>>

-----------------------------------------------------------------------------
(* The writer and the process.                                             *)

\* kill_child: whoever takes the child kills it.
KillChild == agent' = "dead"

\* writer_task takes a line: an agent that stalls keeps it waiting, a dead one
\* makes the write fail, and the shutdown line ends the task.
WriteLine ==
    /\ writer = "running" /\ queue # <<>>
    /\ queue' = Tail(queue)
    /\ LET line == Head(queue) IN
       \/ /\ line.what = "shutdown"
          /\ writer' = "ended" /\ connected' = FALSE
          /\ UNCHANGED <<agent, asked>>
       \/ /\ line.what # "shutdown" /\ agent = "running"
          /\ asked' = IF line.what = "request"
                      THEN [asked EXCEPT ![line.call] = version] ELSE asked
          /\ UNCHANGED <<writer, connected, agent>>
       \/ /\ line.what # "shutdown" /\ agent = "dead"
          /\ writer' = "ended" /\ connected' = FALSE
          /\ KillChild
          /\ UNCHANGED asked
    /\ UNCHANGED <<callers, reader, closer, output, version, memory>>

Says(line) == output' = Append(output, line)

AgentAnswers(c) ==
    /\ agent # "dead" /\ asked[c] # Never
    /\ asked' = [asked EXCEPT ![c] = Never]
    /\ Says([what |-> "answer", call |-> c, version |-> version, since |-> asked[c]])
    /\ UNCHANGED <<callers, tasks, closer, agent, version, memory>>

AgentUpdates ==
    /\ agent # "dead" /\ version < MaxUpdate
    /\ version' = version + 1
    /\ Says([what |-> "update", version |-> version'])
    /\ UNCHANGED <<callers, tasks, closer, agent, asked, memory>>

AgentStalls ==
    /\ Stalls /\ agent = "running" /\ agent' = "stalled"
    /\ UNCHANGED <<callers, tasks, closer, asked, output, version, memory>>

AgentDies ==
    /\ agent # "dead" /\ agent' = "dead"
    /\ UNCHANGED <<callers, tasks, closer, asked, output, version, memory>>

\* wait_task sees the exit within half a second.
SeeExit ==
    /\ agent = "dead" /\ connected /\ closer \notin {"done"}
    /\ connected' = FALSE
    /\ UNCHANGED <<callers, queue, writer, reader, closer, process, memory>>

-----------------------------------------------------------------------------
(* The reader.                                                             *)

\* A response finds its channel or is dropped.
ReadAnswer ==
    /\ reader = "running" /\ output # <<>> /\ Head(output).what = "answer"
    /\ LET line == Head(output) IN
       /\ pending' = pending \ {line.call}
       /\ reply' = IF line.call \in pending
                   THEN [reply EXCEPT ![line.call] = Success(line)] ELSE reply
    /\ output' = Tail(output)
    /\ UNCHANGED <<stage, tasks, closer, agent, asked, version, memory>>

\* A session update, outside a replay, is appended.  A
\* log that refuses it ends the reader.
ReadUpdate ==
    /\ reader = "running" /\ output # <<>> /\ Head(output).what = "update"
    /\ output' = Tail(output)
    /\ \/ rows' = (IF replaying THEN rows ELSE Append(rows, Head(output).version))
          /\ UNCHANGED reader
       \/ ~replaying /\ reader' = "ending" /\ UNCHANGED rows
    /\ UNCHANGED <<callers, queue, connected, writer, closer, agent, asked, version, replaying>>

\* End of file, or the failed append: `connected` is cleared first ...
ReaderStops ==
    /\ \/ reader = "running" /\ agent = "dead" /\ output = <<>>
       \/ reader = "ending"
    /\ reader' = "closing" /\ connected' = FALSE
    /\ UNCHANGED <<callers, queue, writer, closer, process, memory>>

\* fail_pending_requests
FailPending ==
    /\ pending' = {}
    /\ reply' = [c \in Call |-> IF c \in pending THEN Failure ELSE reply[c]]

\* ... then the child is killed and what is pending fails.
ReaderFails ==
    /\ reader = "closing"
    /\ reader' = "ended"
    /\ KillChild /\ FailPending
    /\ UNCHANGED <<stage, queue, connected, writer, closer, asked, output, version, memory>>

-----------------------------------------------------------------------------
(* The shutdown, after the callbacks have been stopped.                    *)

ShutFlag ==
    /\ closer = "idle"
    /\ closer' = "flagged" /\ connected' = FALSE
    /\ queue' = IF Room THEN Append(queue, [what |-> "shutdown"]) ELSE queue
    /\ UNCHANGED <<callers, writer, reader, process, memory>>

ShutKill ==
    /\ closer = "flagged"
    /\ closer' = "killed"
    /\ KillChild
    /\ UNCHANGED <<callers, tasks, asked, output, version, memory>>

\* The tasks are aborted; the writer's end of the channel goes with its task.
ShutAbort ==
    /\ closer = "killed"
    /\ closer' = "aborted"
    /\ writer' = "ended" /\ reader' = "ended"
    /\ UNCHANGED <<callers, queue, connected, process, memory>>

ShutFail ==
    /\ closer = "aborted"
    /\ closer' = "done"
    /\ FailPending
    /\ UNCHANGED <<stage, tasks, process, memory>>

\* terminate: without waiting for anything.
Terminate ==
    /\ closer = "idle" /\ connected
    /\ connected' = FALSE
    /\ KillChild
    /\ UNCHANGED <<callers, queue, writer, reader, closer, asked, output, version, memory>>

-----------------------------------------------------------------------------
CallerStep(c) ==
    \/ InsertPending(c) \/ LookAgain(c) \/ EnqueueCall(c) \/ TakeReply(c)
    \/ CancelCall(c) \/ FinishCall(c)

ReaderStep == ReadAnswer \/ ReadUpdate \/ ReaderStops \/ ReaderFails
ShutStep == ShutKill \/ ShutAbort \/ ShutFail

LinkNext ==
    \/ \E c \in Call : BeginCall(c) \/ CallerStep(c) \/ Deadline(c) \/ AgentAnswers(c)
    \/ WriteLine \/ ReaderStep \/ SeeExit \/ ShutFlag \/ ShutStep \/ Terminate
    \/ AgentUpdates \/ AgentStalls \/ AgentDies

\* Tokio runs every task that can run, and timers fire.
LinkFairness ==
    /\ \A c \in Call : WF_linkVars(CallerStep(c)) /\ WF_linkVars(Deadline(c))
    /\ WF_linkVars(WriteLine) /\ WF_linkVars(ReaderStep) /\ WF_linkVars(SeeExit)
    /\ WF_linkVars(ShutStep)

-----------------------------------------------------------------------------
(* What the connection promises.                                           *)

\* When a prompt succeeds, every update the agent sent between reading the
\* prompt and answering it is in the event log: the turn's output is recorded
\* before its caller closes the turn (reader_task handles lines in order).
TurnOutputRecorded ==
    \A c \in Prompt : reply[c].is = "ok" =>
        \A v \in 1..MaxUpdate :
            v \in (reply[c].since + 1)..reply[c].version => v \in Range(rows)

\* Once the connection is lost, every caller gets an answer or an error, also
\* one that registers its request while the reader fails the others
\* (dispatch_request, reader_task, writer_task, shutdown).
LostCallersReleased ==
    ~connected ~> \A c \in Call : stage[c] \in Over
=============================================================================
