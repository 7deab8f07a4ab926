------------------------------ MODULE AuthFlows ------------------------------
(***************************************************************************)
(* The authentication flows of one agent (auth/flow.rs, auth/protocol.rs   *)
(* and the flow requests of auth/service.rs): terminal flows, which run    *)
(* the agent's login command in a terminal, and protocol flows, which run  *)
(* `authenticate` on an agent process of their own and relay the browser's *)
(* callback to it.                                                         *)
(*                                                                         *)
(* A flow is ended by whoever is first: its program or agent, its lifetime *)
(* or idle bound, a cancel, a captured URL that is not valid, or shutdown. *)
(***************************************************************************)
EXTENDS Naturals, FiniteSets

CONSTANTS
    Client,  \* browser requests
    Flow,    \* flow ids; one is handed out again when its flow was pruned
    NoFlow

ASSUME FlowsAssumption == NoFlow \notin Flow

VARIABLES
    kind,      \* kind[f]: "terminal" or "protocol"
    state,     \* its recorded state, "unused" outside the registry
    task,      \* the step of its background task
    agent,     \* its process: "none", "live", "ended"
    prompt,    \* interaction: "none", "shown", "relaying"
    captured,  \* flows that have captured an authorization request
    req, want, on, \* per request: the next step, the kind it starts, the flow it acts on
    stopped    \* shutdown has ended the flows

flow == <<kind, state, task, agent, prompt, captured>>
request == <<req, want, on>>
afVars == <<flow, request, stopped>>

Kind == {"terminal", "protocol"}
Ended == {"succeeded", "failed", "cancelled", "timed_out"}

AfInit ==
    /\ kind = [f \in Flow |-> "terminal"] /\ state = [f \in Flow |-> "unused"]
    /\ task = [f \in Flow |-> "none"] /\ agent = [f \in Flow |-> "none"]
    /\ prompt = [f \in Flow |-> "none"] /\ captured = {}
    /\ req = [c \in Client |-> "idle"] /\ want = [c \in Client |-> "terminal"]
    /\ on = [c \in Client |-> NoFlow]
    /\ stopped = FALSE

-----------------------------------------------------------------------------
Active(k) == {f \in Flow : kind[f] = k /\ state[f] \in {"running", "waiting"}}
Other(k) == IF k = "terminal" THEN "protocol" ELSE "terminal"

\* No flow of this kind records its success now: the hook holds the status lock.
Unlocked(k) == \A f \in Active(k) : task[f] # "publish"

To(c, label) == req' = [req EXCEPT ![c] = label]
Ends(c) ==
    /\ To(c, "idle") /\ want' = [want EXCEPT ![c] = "terminal"]
    /\ on' = [on EXCEPT ![c] = NoFlow]

\* Fault: a flow that has ended takes another outcome.
FinishAgain(f, outcome) ==
    /\ state' = [state EXCEPT ![f] = outcome] /\ prompt' = [prompt EXCEPT ![f] = "none"]

\* finish: the first caller wins; a protocol flow loses its interaction in the
\* same critical section.
Finish(f, outcome) ==
    IF state[f] \in Ended
    THEN UNCHANGED <<state, prompt>>
    ELSE /\ state' = [state EXCEPT ![f] = outcome]
         /\ prompt' = [prompt EXCEPT ![f] = "none"]

-----------------------------------------------------------------------------
(* start_terminal, start_protocol                                          *)

\* The flows of the other kind are looked at, each under its status lock, before
\* the live probe.
StartFlow(c, k) ==
    /\ req[c] = "idle" /\ ~stopped /\ Active(Other(k)) = {}
    /\ To(c, "probe") /\ want' = [want EXCEPT ![c] = k]
    /\ UNCHANGED <<flow, on, stopped>>

ProbeAnswers(c) ==
    /\ req[c] = "probe" /\ To(c, "bounds")
    /\ UNCHANGED <<flow, want, on, stopped>>

\* No agent, no answer in time, or no such method.
ProbeFails(c) ==
    /\ req[c] = "probe" /\ Ends(c)
    /\ UNCHANGED <<flow, stopped>>

\* check_bounds: one unfinished flow of this kind per agent.
Bounds(c) ==
    /\ req[c] = "bounds" /\ Unlocked(want[c])
    /\ IF Active(want[c]) = {} THEN To(c, "insert") /\ UNCHANGED <<want, on>> ELSE Ends(c)
    /\ UNCHANGED <<flow, stopped>>

\* The command is spawned in its terminal, or the driver task starts.
Insert(c) ==
    /\ req[c] = "insert"
    /\ \E f \in Flow :
        /\ state[f] = "unused"
        /\ kind' = [kind EXCEPT ![f] = want[c]] /\ state' = [state EXCEPT ![f] = "running"]
        /\ task' = [task EXCEPT ![f] = IF want[c] = "terminal" THEN "watch" ELSE "connect"]
        /\ agent' = [agent EXCEPT ![f] = IF want[c] = "terminal" THEN "live" ELSE "none"]
    /\ Ends(c)
    /\ UNCHANGED <<prompt, captured, stopped>>

-----------------------------------------------------------------------------
(* supervise: a terminal flow                                              *)

\* The command exits with status 0 and the flow has not ended. The hook that
\* records the evidence runs inside finish, under the status lock.
ExitsWell(f) ==
    /\ task[f] = "watch" /\ agent[f] = "live" /\ state[f] = "running"
    /\ task' = [task EXCEPT ![f] = "publish"]
    /\ UNCHANGED <<kind, state, agent, prompt, captured, request, stopped>>

\* The state changes, the lock goes, the process tree is killed.
PublishSuccess(f) ==
    /\ task[f] = "publish" /\ Finish(f, "succeeded")
    /\ task' = [task EXCEPT ![f] = "done"] /\ agent' = [agent EXCEPT ![f] = "ended"]
    /\ UNCHANGED <<kind, captured, request, stopped>>

\* It exits otherwise; or the lifetime or, without a client, the idle bound ends.
ExitsBadly(f) ==
    /\ task[f] = "watch" /\ agent[f] = "live"
    /\ Finish(f, "failed")
    /\ task' = [task EXCEPT ![f] = "done"] /\ agent' = [agent EXCEPT ![f] = "ended"]
    /\ UNCHANGED <<kind, captured, request, stopped>>

\* The supervisor sees that the flow has ended, or that its time has.
Supervise(f) ==
    /\ task[f] = "watch" /\ Finish(f, "timed_out")
    /\ task' = [task EXCEPT ![f] = "done"] /\ agent' = [agent EXCEPT ![f] = "ended"]
    /\ UNCHANGED <<kind, captured, request, stopped>>

-----------------------------------------------------------------------------
(* drive_protocol_flow                                                     *)

\* The agent process is initialized and handed to the flow, whatever became
\* of the flow meanwhile.
Connected(f) ==
    /\ task[f] = "connect"
    /\ task' = [task EXCEPT ![f] = "select"] /\ agent' = [agent EXCEPT ![f] = "live"]
    /\ UNCHANGED <<kind, state, prompt, captured, request, stopped>>

\* The branches that end the flow and shut its agent down.
Stops(f, outcome) ==
    /\ Finish(f, outcome)
    /\ task' = [task EXCEPT ![f] = "done"] /\ agent' = [agent EXCEPT ![f] = "ended"]
    /\ UNCHANGED <<kind, captured, request, stopped>>

NoConnection(f) == task[f] = "connect" /\ Stops(f, "failed")

\* authenticate answered: the evidence is recorded, then the flow ends.
Authenticated(f) ==
    /\ task[f] = "select" /\ agent[f] = "live"
    /\ task' = [task EXCEPT ![f] = "conclude"]
    /\ UNCHANGED <<kind, state, agent, prompt, captured, request, stopped>>

Conclude(f) == task[f] = "conclude" /\ Stops(f, "succeeded")

\* The agent refused, or the client of the flow was shut down; the lifetime of
\* the flow ended; the captured URL is not an authorization request.
Rejected(f) == task[f] = "select" /\ Stops(f, "failed")
Deadline(f) == task[f] = "select" /\ Stops(f, "timed_out")
BadCapture(f) == task[f] = "select" /\ f \notin captured /\ Stops(f, "failed")

\* The poll finds the flow ended and leaves the client to whoever ended it.
PollEnded(f) ==
    /\ task[f] = "select" /\ state[f] \in Ended /\ task' = [task EXCEPT ![f] = "done"]
    /\ UNCHANGED <<kind, state, agent, prompt, captured, request, stopped>>

\* note_waiting, as elicitations come and go.
NoteWaiting(f) ==
    /\ state[f] \in {"running", "waiting"}
    /\ state' = [state EXCEPT ![f] = IF state[f] = "running" THEN "waiting" ELSE "running"]

Poll(f) ==
    /\ task[f] = "select" /\ NoteWaiting(f)
    /\ UNCHANGED <<kind, task, agent, prompt, captured, request, stopped>>

\* Fault: the end of the flow is not looked at under the status lock.
Installable(f) == f \notin captured

Installs(f) == state[f] \notin Ended /\ f \notin captured

\* A valid URL: set_authorization_request, under the status lock; then waiting.
Capture(f) ==
    /\ task[f] = "select" /\ f \notin captured
    /\ IF Installs(f)
       THEN /\ captured' = captured \cup {f} /\ prompt' = [prompt EXCEPT ![f] = "shown"]
            /\ task' = [task EXCEPT ![f] = "wait"]
       ELSE UNCHANGED <<captured, prompt, task>>
    /\ UNCHANGED <<kind, state, agent, request, stopped>>

CaptureWaits(f) ==
    /\ task[f] = "wait" /\ task' = [task EXCEPT ![f] = "select"]
    /\ state' = [state EXCEPT ![f] = IF @ = "running" THEN "waiting" ELSE @]
    /\ UNCHANGED <<kind, agent, prompt, captured, request, stopped>>

-----------------------------------------------------------------------------
(* cancel, relay, shutdown, prune                                          *)

\* A cancel of a terminal flow waits for its status lock; it kills the tree.
Cancel(c, f) ==
    /\ req[c] = "idle" /\ state[f] # "unused" /\ task[f] # "publish"
    /\ Finish(f, "cancelled")
    /\ IF kind[f] = "terminal"
       THEN /\ agent' = [agent EXCEPT ![f] = IF state[f] = "running" THEN "ended" ELSE @]
            /\ UNCHANGED request
       ELSE /\ To(c, "close") /\ on' = [on EXCEPT ![c] = f]
            /\ UNCHANGED <<agent, want>>
    /\ UNCHANGED <<kind, task, captured, stopped>>

\* cancel_protocol_flow shuts the client down, if the flow has one by now.
CloseClient(c) ==
    /\ req[c] = "close"
    /\ agent' = [agent EXCEPT ![on[c]] = IF @ = "live" THEN "ended" ELSE @]
    /\ Ends(c)
    /\ UNCHANGED <<kind, state, task, prompt, captured, stopped>>

\* relay_protocol_callback: begin_callback looks at the state first ...
BeginCallback(c, f) ==
    /\ req[c] = "idle" /\ state[f] \in {"running", "waiting"} /\ kind[f] = "protocol"
    /\ To(c, "callback") /\ on' = [on EXCEPT ![c] = f]
    /\ UNCHANGED <<flow, want, stopped>>

Relayable(f) == prompt[f] = "shown"

\* ... then, under its own lock, at the interaction, which one relay takes.
TakeCallback(c) ==
    /\ req[c] = "callback"
    /\ IF Relayable(on[c])
       THEN /\ prompt' = [prompt EXCEPT ![on[c]] = "relaying"]
            /\ To(c, "relay") /\ UNCHANGED <<want, on>>
       ELSE Ends(c) /\ UNCHANGED prompt
    /\ UNCHANGED <<kind, state, task, agent, captured, stopped>>

\* finish_callback: a relayed callback ends the interaction, a failed one frees
\* it, if it is still there.
Relayed(c) ==
    /\ req[c] = "relay"
    /\ \E left \in {"none", "shown"} :
        prompt' = [prompt EXCEPT ![on[c]] = IF @ = "none" THEN @ ELSE left]
    /\ Ends(c)
    /\ UNCHANGED <<kind, state, task, agent, captured, stopped>>

\* shutdown ends every flow; terminal flows lose their process tree with it.
Shutdown ==
    /\ ~stopped /\ stopped' = TRUE /\ \A f \in Flow : task[f] # "publish"
    /\ state' = [f \in Flow |-> IF state[f] \in {"running", "waiting"} THEN "cancelled" ELSE state[f]]
    /\ prompt' = [f \in Flow |-> IF state[f] \in {"running", "waiting"} THEN "none" ELSE prompt[f]]
    /\ agent' = [f \in Flow |-> IF f \in Active("terminal") THEN "ended" ELSE agent[f]]
    /\ UNCHANGED <<kind, task, captured, request>>

\* A finished flow leaves the registry after FINISHED_RETENTION, which outlasts
\* every request on it; its client goes with it.
Prune(f) ==
    /\ state[f] \in Ended /\ task[f] = "done" /\ \A c \in Client : on[c] # f
    /\ state' = [state EXCEPT ![f] = "unused"] /\ kind' = [kind EXCEPT ![f] = "terminal"]
    /\ task' = [task EXCEPT ![f] = "none"] /\ agent' = [agent EXCEPT ![f] = "none"]
    /\ captured' = captured \ {f}
    /\ UNCHANGED <<prompt, request, stopped>>

AfNext ==
    \/ \E c \in Client :
        \/ \E k \in Kind : StartFlow(c, k)
        \/ ProbeAnswers(c) \/ ProbeFails(c) \/ Bounds(c) \/ Insert(c)
        \/ \E f \in Flow : Cancel(c, f) \/ BeginCallback(c, f)
        \/ CloseClient(c) \/ TakeCallback(c) \/ Relayed(c)
    \/ \E f \in Flow :
        \/ ExitsWell(f) \/ PublishSuccess(f) \/ ExitsBadly(f) \/ Supervise(f)
        \/ Connected(f) \/ NoConnection(f) \/ Authenticated(f) \/ Conclude(f)
        \/ Rejected(f) \/ Deadline(f) \/ BadCapture(f) \/ PollEnded(f) \/ Poll(f)
        \/ Capture(f) \/ CaptureWaits(f) \/ Prune(f)
    \/ Shutdown

-----------------------------------------------------------------------------
AfTypeOK ==
    /\ kind \in [Flow -> Kind]
    /\ state \in [Flow -> {"unused", "running", "waiting"} \cup Ended]
    /\ task \in [Flow -> {"none", "watch", "publish", "connect", "select", "wait",
                          "conclude", "done"}]
    /\ agent \in [Flow -> {"none", "live", "ended"}]
    /\ prompt \in [Flow -> {"none", "shown", "relaying"}]
    /\ captured \subseteq Flow
    /\ req \in [Client -> {"idle", "probe", "bounds", "insert", "close", "callback", "relay"}]
    /\ want \in [Client -> Kind] /\ on \in [Client -> Flow \cup {NoFlow}]
    /\ stopped \in BOOLEAN

\* The first outcome of a flow is its outcome: a cancel, a bound, a late answer
\* of the agent, an exit and a shutdown may all race (flow.rs:186-222,
\* protocol.rs:375-406).
OutcomeStays ==
    [][\A f \in Flow : state[f] \in Ended => state'[f] \in {state[f], "unused"}]_afVars

\* No authorization URL outlives its flow: not one captured while the flow was
\* cancelled, nor one a failed relay hands back (protocol.rs:378-381, 432-462).
EndedKeepsNoPrompt == \A f \in Flow : state[f] \in Ended \cup {"unused"} => prompt[f] = "none"

\* service.rs:747-749: "One active flow per agent across both kinds, so recovery
\* always finds a single resumable flow instead of stranding one behind a conflict
\* error with no UI path."
OneFlow == Cardinality(Active("terminal") \cup Active("protocol")) <= 1
=============================================================================
