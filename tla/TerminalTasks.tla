---------------------------- MODULE TerminalTasks ----------------------------
(***************************************************************************)
(* The terminal tasks of one chat (backend/src/tasks/mod.rs) and who       *)
(* changes them: the agent's terminal requests and their supervisors       *)
(* (backend/src/acp/callbacks.rs), the reader that turns tool calls into   *)
(* observed tasks (backend/src/acp/mod.rs), and the end of a turn          *)
(* (backend/src/session/mod.rs).                                           *)
(*                                                                         *)
(* A terminal is a process Batey runs; an observed task is a command the   *)
(* agent runs itself and reports.  Every change of a task that may let the *)
(* tracker drop an old one is followed by a pruning, which looks at the    *)
(* tasks first and removes some in a later step.                           *)
(***************************************************************************)
EXTENDS ObservedReport, Naturals, Sequences, FiniteSets, Functions

CONSTANTS
    Terminal,   \* terminals the agent creates
    Observed,   \* tool calls that run a command
    Waiter,     \* terminal/wait_for_exit requests
    MaxTasks    \* tasks the tracker keeps of a chat (50 in the code)

ASSUME TasksAssumption ==
    /\ Terminal \cap Observed = {} /\ MaxTasks \in Nat \ {0}
    /\ {"reader", "turn"} \cap Terminal = {}

Task == Terminal \cup Observed
Pruner == Terminal \cup {"reader", "turn"}

\* Completed, failed and stopped are all final: the tracker treats them alike.
Outcome(s) == IF s = "running" THEN "running" ELSE "final"

VARIABLES
    state,      \* state[x]: its TaskState, "running" or "final"; "none" before it exists
    tracked,    \* tasks_by_chat: the queue; tasks_by_id has the same tasks
    usable,     \* active_terminals of the chat's handler
    birth,      \* birth[t]: "none", "spawned", "registered", "ready"
    proc,       \* proc[t]: "none", "running", "exited"
    signal,     \* signal[t]: kill_tx is "armed", "sent", "taken"
    exit,       \* exit[t]: exit_status is there
    waiter,     \* waiter[w]: [at, on]
    prune,      \* prune[p]: "idle", "due", or the finished tasks p has found
    report,     \* the tool-call update the reader works on
    turn,       \* "idle", "running", "ending", or the queue the end has read
    forced,     \* the last turn ended without the agent's answer
    stopping    \* CallbackHandler::shutdown: "no", the drained ids, "done"

terms == <<usable, birth, proc, signal, exit>>
tasksVars == <<state, tracked, terms, waiter, prune, report, turn, forced, stopping>>

Idle == [at |-> "idle"]
Finished(x) == state[x] = "final"
Indexed(x) == x \in Range(tracked)

\* The elements of s that are in S, in their order.
Kept(s, S) ==
    LET upto[i \in 0 .. Len(s)] ==
            IF i = 0 THEN <<>>
            ELSE IF s[i] \in S THEN Append(upto[i - 1], s[i]) ELSE upto[i - 1]
    IN  upto[Len(s)]

\* Every variable keeps its type, and a task is tracked at most once.
TasksTypeOK ==
    /\ state \in [Task -> {"none", "running", "final"}]
    /\ IsInjective(tracked) /\ Range(tracked) \subseteq Task
    /\ usable \in SUBSET Terminal
    /\ birth \in [Terminal -> {"none", "spawned", "registered", "ready"}]
    /\ proc \in [Terminal -> {"none", "running", "exited"}]
    /\ signal \in [Terminal -> {"armed", "sent", "taken"}]
    /\ exit \in [Terminal -> BOOLEAN]
    /\ \A w \in Waiter : waiter[w].at \in {"idle", "armed", "asleep", "told"}
    /\ \A p \in Pruner : prune[p].at \in {"idle", "due", "found"}
    /\ report.at \in {"idle", "known", "made", "merge"}
    /\ turn.at \in {"idle", "running", "ending", "settling"}
    /\ forced \in BOOLEAN /\ stopping.at \in {"no", "drained", "done"}

TasksInit ==
    /\ state = [x \in Task |-> "none"] /\ tracked = <<>>
    /\ usable = {} /\ birth = [t \in Terminal |-> "none"] /\ proc = [t \in Terminal |-> "none"]
    /\ signal = [t \in Terminal |-> "armed"]
    /\ exit = [t \in Terminal |-> FALSE]
    /\ waiter = [w \in Waiter |-> Idle] /\ prune = [p \in Pruner |-> Idle]
    /\ report = Idle /\ turn = Idle /\ forced = FALSE /\ stopping = [at |-> "no"]

-----------------------------------------------------------------------------
(* prune_chat_tasks                                                        *)

Due(p) == prune' = [prune EXCEPT ![p] = [at |-> "due"]]

\* The read locks: the finished tasks, oldest first, of a queue that is too long.
FindFinished(p) ==
    /\ prune[p].at = "due"
    /\ prune' = [prune EXCEPT ![p] =
           IF Len(tracked) > MaxTasks /\ \E x \in Range(tracked) : Finished(x)
           THEN [at |-> "found", old |-> Kept(tracked, {x \in Task : Finished(x)})] ELSE Idle]
    /\ UNCHANGED <<state, tracked, terms, waiter, report, turn, forced, stopping>>

Surplus(old) ==
    LET here == Kept(old, Range(tracked))
        over == IF Len(tracked) > MaxTasks THEN Len(tracked) - MaxTasks ELSE 0
    IN  IF Len(here) < over THEN Len(here) ELSE over

\* The write lock: the oldest of them go, down to the limit.
RemoveOldest(p) ==
    /\ prune[p].at = "found"
    /\ LET here == Kept(prune[p].old, Range(tracked))
           gone == Range(SubSeq(here, 1, Surplus(prune[p].old)))
       IN  tracked' = Kept(tracked, Task \ gone)
    /\ prune' = [prune EXCEPT ![p] = Idle]
    /\ UNCHANGED <<state, terms, waiter, report, turn, forced, stopping>>

-----------------------------------------------------------------------------
(* Terminals.                                                              *)

\* handle_create_terminal spawns the process, then registers the task ...
SpawnTerminal(t) ==
    /\ birth[t] = "none" /\ stopping.at # "done"
    /\ birth' = [birth EXCEPT ![t] = "spawned"] /\ proc' = [proc EXCEPT ![t] = "running"]
    /\ state' = [state EXCEPT ![t] = "running"]
    /\ UNCHANGED <<tracked, usable, signal, exit, waiter, prune, report, turn, forced,
                   stopping>>

RegisterTask(t) ==
    /\ birth[t] = "spawned"
    /\ birth' = [birth EXCEPT ![t] = "registered"]
    /\ tracked' = Append(tracked, t)
    /\ Due(t)
    /\ UNCHANGED <<state, usable, proc, signal, exit, waiter, report, turn, forced,
                   stopping>>

\* ... and after the pruning makes it usable and starts its supervisor.
UseTerminal(t) ==
    /\ birth[t] = "registered" /\ prune[t] = Idle
    /\ birth' = [birth EXCEPT ![t] = "ready"]
    /\ usable' = usable \cup {t}
    /\ UNCHANGED <<state, tracked, proc, signal, exit, waiter, prune, report, turn,
                   forced, stopping>>

\* ManagedTask::stop of the terminals in T: from the first on, killed_by_user.
StopAll(T) ==
    signal' = [t \in Terminal |-> IF t \in T /\ signal[t] = "armed" THEN "sent" ELSE signal[t]]
ByUser(t) == signal[t] # "armed"

Reachable(t) == t \in usable /\ Indexed(t)

\* terminal/kill
KillTerminal(t) ==
    /\ Reachable(t) /\ ~ByUser(t)
    /\ StopAll({t})
    /\ UNCHANGED <<state, tracked, usable, birth, proc, exit, waiter, prune, report, turn,
                   forced, stopping>>

\* The user stops a task of the list, which may outlive the handler.
StopChatTask(t) ==
    /\ Indexed(t) /\ ~ByUser(t)
    /\ StopAll({t})
    /\ UNCHANGED <<state, tracked, usable, birth, proc, exit, waiter, prune, report, turn,
                   forced, stopping>>

ReleaseTerminal(t) ==
    /\ Reachable(t)
    /\ usable' = usable \ {t}
    /\ StopAll({t})
    /\ UNCHANGED <<state, tracked, birth, proc, exit, waiter, prune, report, turn, forced,
                   stopping>>

\* The supervisor passes the signal on ...
TakeSignal(t) ==
    /\ birth[t] = "ready" /\ signal[t] = "sent" /\ proc[t] = "running"
    /\ signal' = [signal EXCEPT ![t] = "taken"] /\ proc' = [proc EXCEPT ![t] = "exited"]
    /\ UNCHANGED <<state, tracked, usable, birth, exit, waiter, prune, report, turn,
                   forced, stopping>>

\* ... or the process ends by itself.
ProcessEnds(t) ==
    /\ proc[t] = "running"
    /\ proc' = [proc EXCEPT ![t] = "exited"]
    /\ UNCHANGED <<state, tracked, usable, birth, signal, exit, waiter, prune, report,
                   turn, forced, stopping>>

\* Fault: nobody is notified.
WakeNobody(t) == UNCHANGED waiter
WakeWaiters(t) ==
    waiter' = [w \in Waiter |-> IF waiter[w].at = "asleep" /\ waiter[w].on = t
                                THEN [waiter[w] EXCEPT !.at = "armed"] ELSE waiter[w]]

\* Fault: only new tasks lead to a pruning.
NoPruningAfterExit(t) == UNCHANGED prune
PruningAfterExit(t) == Due(t)

\* The supervisor has seen the exit, killed the rest of the tree and read the
\* last output, while a stop may still come: record_exit, then the pruning.
RecordExit(t) ==
    /\ birth[t] = "ready" /\ proc[t] = "exited" /\ ~exit[t]
    /\ state' = [state EXCEPT ![t] = "final"]
    /\ exit' = [exit EXCEPT ![t] = TRUE]
    /\ WakeWaiters(t)
    /\ PruningAfterExit(t)
    /\ UNCHANGED <<tracked, usable, birth, proc, signal, report, turn, forced, stopping>>

\* handle_wait_for_terminal_exit enables the notification, then looks.
ArmWaiter(w, t) ==
    /\ waiter[w] = Idle /\ Reachable(t)
    /\ waiter' = [waiter EXCEPT ![w] = [at |-> "armed", on |-> t]]
    /\ UNCHANGED <<state, tracked, terms, prune, report, turn, forced, stopping>>

LookForExit(w) ==
    /\ waiter[w].at = "armed"
    /\ waiter' = [waiter EXCEPT ![w].at = IF exit[waiter[w].on] THEN "told" ELSE "asleep"]
    /\ UNCHANGED <<state, tracked, terms, prune, report, turn, forced, stopping>>

\* CallbackHandler::shutdown: the set is emptied, then each of its tasks stopped.
DrainTerminals ==
    /\ stopping.at = "no" /\ turn.at # "running"
    /\ stopping' = [at |-> "drained", ids |-> usable] /\ usable' = {}
    /\ UNCHANGED <<state, tracked, birth, proc, signal, exit, waiter, prune, report,
                   turn, forced>>

StopDrained ==
    /\ stopping.at = "drained"
    /\ stopping' = [at |-> "done"]
    /\ StopAll({t \in stopping.ids : Indexed(t)})
    /\ UNCHANGED <<state, tracked, usable, birth, proc, exit, waiter, prune, report, turn, forced>>

-----------------------------------------------------------------------------
(* Observed tasks.                                                         *)

\* record_observed_state, under the lock of the state: fully sticky.
RecordState(x, s) == state' = [state EXCEPT ![x] = IF Finished(x) THEN @ ELSE s]
Settles(x, s) == ~Finished(x) /\ s = "final"

LookedUp(x) == IF Indexed(x) THEN "known" ELSE "made"

\* The agent reports on a tool call while it works on the prompt, and may name a
\* terminal: one that is tracked shows the command already (is_managed_task).
ReadReport(x, r) ==
    /\ report = Idle /\ turn.at = "running" /\ prune["reader"] = Idle
    /\ r.embeds => \E t \in Terminal : birth[t] # "none" /\ ~Indexed(t)
    /\ \/ r.of.does = "upsert"
       \/ r.of.does = "merge" /\ Indexed(x)
    /\ report' = [at |-> IF r.of.does = "merge" THEN "merge"
                         ELSE LookedUp(x),
                  task |-> x, state |-> Outcome(r.of.state)]
    /\ UNCHANGED <<state, tracked, terms, waiter, prune, turn, forced, stopping>>

\* A task that exists is updated.  The merge is not followed by a pruning.
UpdateObserved ==
    /\ report.at \in {"known", "merge"}
    /\ RecordState(report.task, report.state)
    /\ IF report.at = "known" /\ Settles(report.task, report.state)
       THEN Due("reader") ELSE UNCHANGED prune
    /\ report' = Idle
    /\ UNCHANGED <<tracked, terms, waiter, turn, forced, stopping>>

\* A new record takes the reported state and goes into both maps.
InsertObserved ==
    /\ report.at = "made"
    /\ state' = [state EXCEPT ![report.task] = report.state]
    /\ tracked' = Append(tracked, report.task)
    /\ Due("reader")
    /\ report' = Idle
    /\ UNCHANGED <<terms, waiter, turn, forced, stopping>>

-----------------------------------------------------------------------------
(* Turns.                                                                  *)

TurnStarts ==
    /\ turn = Idle /\ stopping.at = "no" /\ prune["turn"] = Idle
    /\ turn' = [at |-> "running"] /\ forced' = FALSE
    /\ UNCHANGED <<state, tracked, terms, waiter, prune, report, stopping>>

\* The reader hands the answer to the turn after the updates before it; a lost
\* connection or a cancellation that gets no answer ends the turn at any time.
TurnEnds ==
    /\ turn.at = "running"
    /\ turn' = [at |-> "ending"]
    /\ forced' \in {f \in BOOLEAN : f \/ (report = Idle /\ prune["reader"] = Idle)}
    /\ UNCHANGED <<state, tracked, terms, waiter, prune, report, stopping>>

\* reconcile_turn_end reads the queue, then settles each observed task of it.
BeginSettle ==
    /\ turn.at = "ending"
    /\ turn' = [at |-> "settling", left |-> Kept(tracked, Observed),
                changed |-> FALSE]
    /\ UNCHANGED <<state, tracked, terms, waiter, prune, report, forced, stopping>>

AnyLeft(left) == left # <<>>

SettleOne ==
    /\ turn.at = "settling" /\ AnyLeft(turn.left)
    /\ LET x == Head(turn.left) IN
       /\ IF state[x] = "running" THEN RecordState(x, "final") ELSE UNCHANGED state
       /\ turn' = [turn EXCEPT !.left = Tail(@), !.changed = @ \/ state[x] = "running"]
    /\ UNCHANGED <<tracked, terms, waiter, prune, report, forced, stopping>>

EndSettle ==
    /\ turn.at = "settling" /\ ~AnyLeft(turn.left)
    /\ IF turn.changed THEN Due("turn") ELSE UNCHANGED prune
    /\ turn' = Idle
    /\ UNCHANGED <<state, tracked, terms, waiter, report, forced, stopping>>

\* forget_chat, when the chat is deleted or leaves the registry.
ForgetChat ==
    /\ stopping.at = "done" /\ tracked # <<>>
    /\ tracked' = <<>>
    /\ UNCHANGED <<state, terms, waiter, prune, report, turn, forced, stopping>>

-----------------------------------------------------------------------------
TerminalStep(t) ==
    RegisterTask(t) \/ UseTerminal(t) \/ TakeSignal(t) \/ RecordExit(t)
TurnStep == BeginSettle \/ SettleOne \/ EndSettle
ReportStep == UpdateObserved \/ InsertObserved

TasksNext ==
    \/ \E t \in Terminal :
           \/ SpawnTerminal(t) \/ TerminalStep(t) \/ ProcessEnds(t)
           \/ KillTerminal(t) \/ StopChatTask(t) \/ ReleaseTerminal(t)
           \/ \E w \in Waiter : ArmWaiter(w, t)
    \/ \E w \in Waiter : LookForExit(w)
    \/ \E p \in Pruner : FindFinished(p) \/ RemoveOldest(p)
    \/ \E x \in Observed, r \in Reports : ReadReport(x, r)
    \/ ReportStep \/ TurnStarts \/ TurnEnds \/ TurnStep
    \/ DrainTerminals \/ StopDrained \/ ForgetChat

\* Tasks that can run do; processes that are not killed may run for ever.
TasksFairness ==
    /\ \A t \in Terminal : WF_tasksVars(TerminalStep(t))
    /\ \A w \in Waiter : WF_tasksVars(LookForExit(w))
    /\ \A p \in Pruner : WF_tasksVars(FindFinished(p) \/ RemoveOldest(p))
    /\ WF_tasksVars(ReportStep) /\ WF_tasksVars(TurnStep) /\ WF_tasksVars(StopDrained)

-----------------------------------------------------------------------------
(* What the tracker promises.                                              *)

\* When no pruning is under way, a queue over the limit holds no finished
\* terminal: what register_task, upsert_observed, supervise_terminal and
\* reconcile_turn_end have left, with their prunings racing, is running.
OnlyRunningOverLimit ==
    (\A p \in Pruner : prune[p] = Idle) /\ Len(tracked) > MaxTasks
        => \A t \in Terminal : Indexed(t) => ~Finished(t)

\* Between turns no observed task is shown as running, after a turn whose
\* answer came (reconcile_turn_end).
TurnLeavesNoneRunning ==
    turn = Idle /\ ~forced => \A x \in Observed : Indexed(x) => Finished(x)

\* However exits, prunings, reports and the ends of turns race, the list a page shows
\* settles (tasks/mod.rs:464-508, 313-353).
TasksSettle == TasksTypeOK /\ OnlyRunningOverLimit /\ TurnLeavesNoneRunning

\* Whoever waits for a terminal that has exited is told.
ExitIsTold ==
    \A w \in Waiter : waiter[w].at \in {"armed", "asleep"} /\ exit[waiter[w].on] ~> waiter[w].at = "told"
=============================================================================
