----------------------------- MODULE ChatSession -----------------------------
(***************************************************************************)
(* The live side of a chat: AcpSession in backend/src/session/mod.rs.      *)
(* A session owns at most one ACP agent process, its process and turn      *)
(* states, and three locks: turn_guard, startup_lock and, when the chat    *)
(* works in a primary Git checkout, the checkout_guard it shares with the  *)
(* other chats of that checkout.                                           *)
(*                                                                         *)
(* A task is one request in flight on the server (or one round of the      *)
(* reaper).  A step of a task is the code between two points where another *)
(* task can run: a lock, a request to the agent, a blocking job, or two    *)
(* writes to different fields of the session.  One call of set_states      *)
(* (process state, turn state, event) is one step.                         *)
(*                                                                         *)
(* A process is killed when its last Arc<AcpClient> goes (Drop), so it is  *)
(* alive exactly while it is referenced and has not exited by itself.      *)
(***************************************************************************)
EXTENDS FiniteSets

CONSTANTS
    Chat,        \* chat rows
    Task,        \* requests that can be in flight at once
    Proc,        \* agent processes that can exist at once
    Checkout,    \* primary Git checkouts
    CheckoutOf,  \* the checkout a direct or legacy chat shares, else NoCheckout
    Resumable,   \* chats whose agent advertises session/load or session/resume
    Requests,    \* bound: the kinds of request that are made
    NoTask, NoProc, NoChat, NoCheckout

Op == {"prompt", "resume", "query", "stop", "delete", "edit", "reap"}

ASSUME SessionAssumption ==
    /\ NoTask \notin Task
    /\ NoProc \notin Proc
    /\ NoChat \notin Chat
    /\ NoCheckout \notin Checkout
    /\ CheckoutOf \in [Chat -> Checkout \cup {NoCheckout}]
    /\ Resumable \subseteq Chat
    /\ Requests \subseteq Op \cup {"archive"}

VARIABLES
    row,       \* row[c]: the durable chat (archived, deleted, saved ACP id)
    turnLog,   \* turnLog[c]: what the durable events say of c's last turn
    logOk,     \* FALSE once the event log has failed closed
    ps, ts,    \* process_state and turn_state, as stored
    client,    \* the session's client, or NoProc
    turnGuard, startupLock, checkoutGuard,
    exited,    \* processes that have exited while still referenced
    stale,     \* processes opened with a configuration edited since
    op, at, pc, own, \* each task's operation, chat, place, and process in hand
    perm       \* tasks whose prompt waits for a permission answer

durable == <<row, turnLog, logOk>>
session == <<ps, ts, client>>
locks   == <<turnGuard, startupLock, checkoutGuard>>
procs   == <<exited, stale>>
vars == <<durable, session, locks, procs, op, at, pc, own, perm>>

\* Places inside ensure_running between taking startup_lock and releasing it.
StartupPc == {"validate", "decide", "prepare", "handshake", "configure",
              "install", "announce"}
\* Places of a prompt after admission.
TurnPc == {"recorded", "send", "waiting", "errcheck", "killing", "marking",
           "finalize", "failed", "syncTitle"}
\* Places inside shutdown and what delete does after it.
ShutdownPc == {"take", "closing", "cleanup"}
OtherPc == {"lockStartup", "ensured", "editCheck", "editStore", "editDecide", "reapGuard"}
Pc == StartupPc \cup TurnPc \cup ShutdownPc \cup OtherPc \cup {"idle"}

Row == [archived: BOOLEAN, deleted: BOOLEAN, saved: BOOLEAN]
Turn == [open: BOOLEAN, prompting: BOOLEAN]
Closed == [open |-> FALSE, prompting |-> FALSE]

\* What each field of the session and of the durable chat can hold; the turn
\* state CANCELLING of the state machine is stored by no path of the server.
TypeOK ==
    /\ row \in [Chat -> Row]
    /\ turnLog \in [Chat -> Turn]
    /\ logOk \in BOOLEAN
    /\ ps \in [Chat -> {"stopped", "starting", "running", "dead"}]
    /\ ts \in [Chat -> {"idle", "prompting"}]
    /\ client \in [Chat -> Proc \cup {NoProc}]
    /\ turnGuard \in [Chat -> Task \cup {NoTask}]
    /\ startupLock \in [Chat -> Task \cup {NoTask}]
    /\ checkoutGuard \in [Checkout -> Task \cup {NoTask}]
    /\ exited \in SUBSET Proc
    /\ stale \in SUBSET Proc
    /\ op \in [Task -> Op \cup {"none"}]
    /\ at \in [Task -> Chat \cup {NoChat}]
    /\ pc \in [Task -> Pc]
    /\ own \in [Task -> Proc \cup {NoProc}]
    /\ perm \in SUBSET Task

Init ==
    /\ row = [c \in Chat |-> [archived |-> FALSE, deleted |-> FALSE,
                              saved |-> FALSE]]
    /\ turnLog = [c \in Chat |-> Closed]
    /\ logOk = TRUE
    /\ ps = [c \in Chat |-> "stopped"]
    /\ ts = [c \in Chat |-> "idle"]
    /\ client = [c \in Chat |-> NoProc]
    /\ turnGuard = [c \in Chat |-> NoTask]
    /\ startupLock = [c \in Chat |-> NoTask]
    /\ checkoutGuard = [k \in Checkout |-> NoTask]
    /\ exited = {}
    /\ stale = {}
    /\ op = [t \in Task |-> "none"]
    /\ at = [t \in Task |-> NoChat]
    /\ pc = [t \in Task |-> "idle"]
    /\ own = [t \in Task |-> NoProc]
    /\ perm = {}

-----------------------------------------------------------------------------
(* What the code reads.                                                    *)

Referenced(p) == (\E c \in Chat : client[c] = p) \/ (\E t \in Task : own[t] = p)
Alive(p) == p \in Proc /\ Referenced(p) /\ p \notin exited

\* client_disconnected: no client, or one whose connection is gone.
Disconnected(c) == client[c] = NoProc \/ client[c] \in exited

\* process_state(): a RUNNING session without a connection reads as DEAD.
ProcessState(c) == IF ps[c] = "running" /\ Disconnected(c) THEN "dead" ELSE ps[c]
IsRunning(c) == ProcessState(c) \in {"starting", "running"}
CanStart(c) == ps[c] \in {"stopped", "dead"}
SupportsResume(c) == client[c] # NoProc /\ c \in Resumable

-----------------------------------------------------------------------------
(* Building blocks.                                                        *)

SetStates(c, p, u) ==
    /\ ps' = [ps EXCEPT ![c] = p]
    /\ ts' = [ts EXCEPT ![c] = u]

Goto(t, place) ==
    /\ pc' = [pc EXCEPT ![t] = place]
    /\ UNCHANGED <<op, at>>

ReleaseLocks(t) ==
    /\ turnGuard' = [c \in Chat |-> IF turnGuard[c] = t THEN NoTask ELSE turnGuard[c]]
    /\ startupLock' = [c \in Chat |-> IF startupLock[c] = t THEN NoTask ELSE startupLock[c]]
    /\ checkoutGuard' =
         [k \in Checkout |-> IF checkoutGuard[k] = t THEN NoTask ELSE checkoutGuard[k]]

\* Once the row is deleted the manager forgets the session, and its client is
\* dropped with the last request that still holds the session.
DropSession(t) ==
    client' = [c \in Chat |->
                 IF /\ c = at[t]
                    /\ row'[c].deleted
                    /\ \A u \in Task \ {t} : at[u] # c
                 THEN NoProc ELSE client[c]]

\* A task returns: its guards and the process in its hand are dropped.
End(t) ==
    /\ op' = [op EXCEPT ![t] = "none"]
    /\ at' = [at EXCEPT ![t] = NoChat]
    /\ pc' = [pc EXCEPT ![t] = "idle"]
    /\ own' = [own EXCEPT ![t] = NoProc]
    /\ perm' = perm \ {t}
    /\ ReleaseLocks(t)
    /\ DropSession(t)
    /\ exited' = {p \in exited : Referenced(p)'}
    /\ stale' = {p \in stale : Referenced(p)'}

Begin(t, c, kind, place) ==
    /\ kind \in Requests
    /\ op[t] = "none"
    /\ op' = [op EXCEPT ![t] = kind]
    /\ at' = [at EXCEPT ![t] = c]
    /\ pc' = [pc EXCEPT ![t] = place]

TryTurnGuard(t, c) ==
    /\ turnGuard[c] = NoTask
    /\ turnGuard' = [turnGuard EXCEPT ![c] = t]

ReleaseStartupLock(c) ==
    /\ startupLock' = [startupLock EXCEPT ![c] = NoTask]
    /\ UNCHANGED <<turnGuard, checkoutGuard>>

\* The caller gets an error, or its answer, and nothing is stored.
EndUnchanged(t) ==
    /\ UNCHANGED <<durable, ps, ts>>
    /\ End(t)

\* A failure that the code answers with set_states(Dead, Idle).
EndDead(t) ==
    /\ SetStates(at[t], "dead", "idle")
    /\ UNCHANGED durable
    /\ End(t)

-----------------------------------------------------------------------------
(* Requests.  A caller may hold the session from before its row was        *)
(* deleted, so none of these looks at the row.                             *)

\* Fault: the checkout is probed, and the guard is not kept.
PeekCheckoutGuard(t, c) ==
    IF CheckoutOf[c] = NoCheckout
    THEN UNCHANGED checkoutGuard
    ELSE /\ checkoutGuard[CheckoutOf[c]] = NoTask
         /\ UNCHANGED checkoutGuard

TryCheckoutGuard(t, c) ==
    IF CheckoutOf[c] = NoCheckout
    THEN UNCHANGED checkoutGuard
    ELSE /\ checkoutGuard[CheckoutOf[c]] = NoTask
         /\ checkoutGuard' = [checkoutGuard EXCEPT ![CheckoutOf[c]] = t]

AdmitPrompt(t, c) ==
    /\ Begin(t, c, "prompt", "lockStartup")
    /\ TryTurnGuard(t, c)
    /\ ts[c] = "idle"
    /\ TryCheckoutGuard(t, c)
    /\ UNCHANGED <<durable, session, startupLock, procs, own, perm>>

\* resume, set_config, set_mode and the remote-session requests.
Resume(t, c) ==
    /\ Begin(t, c, "resume", "lockStartup")
    /\ TryTurnGuard(t, c)
    /\ UNCHANGED <<durable, session, startupLock, checkoutGuard, procs, own, perm>>

\* chat_config, chat_commands and chat_modes start the agent without turn_guard.
Query(t, c) ==
    /\ Begin(t, c, "query", "lockStartup")
    /\ UNCHANGED <<durable, session, locks, procs, own, perm>>

Stop(t, c) ==
    /\ Begin(t, c, "stop", "take")
    /\ TryTurnGuard(t, c)
    /\ UNCHANGED <<durable, session, startupLock, checkoutGuard, procs, own, perm>>

Delete(t, c) ==
    /\ Begin(t, c, "delete", "take")
    /\ TryTurnGuard(t, c)
    /\ ~row[c].deleted
    /\ UNCHANGED <<durable, session, startupLock, checkoutGuard, procs, own, perm>>

EditConnection(t, c) ==
    /\ Begin(t, c, "edit", "editCheck")
    /\ TryTurnGuard(t, c)
    /\ UNCHANGED <<durable, session, startupLock, checkoutGuard, procs, own, perm>>

\* edit_metadata: the guard is held for one synchronous store update.
SetArchived(c) ==
    /\ "archive" \in Requests
    /\ turnGuard[c] = NoTask
    /\ ~row[c].deleted
    /\ row' = [row EXCEPT ![c].archived = ~@]
    /\ UNCHANGED <<turnLog, logOk, session, locks, procs, op, at, pc, own, perm>>

\* reap_idle, first pass: a snapshot of the sessions worth stopping.
ReapCandidate(t, c) ==
    /\ Begin(t, c, "reap", "reapGuard")
    /\ ProcessState(c) = "running"
    /\ ts[c] = "idle"
    /\ SupportsResume(c)
    /\ UNCHANGED <<durable, session, locks, procs, own, perm>>

\* Fault: the reaper acts on its snapshot without the guard.
ReapUnguarded(t) ==
    /\ pc[t] = "reapGuard"
    /\ \/ /\ UNCHANGED turnGuard
          /\ Goto(t, "take")
          /\ UNCHANGED <<durable, session, startupLock, checkoutGuard, procs, own, perm>>
       \/ EndUnchanged(t)

\* reap_idle, second pass: the guard, and the idle time once more.
ReapGuard(t) ==
    /\ pc[t] = "reapGuard"
    /\ \/ /\ TryTurnGuard(t, at[t])
          /\ Goto(t, "take")
          /\ UNCHANGED <<durable, session, startupLock, checkoutGuard, procs, own, perm>>
       \/ EndUnchanged(t)

-----------------------------------------------------------------------------
(* ensure_running, holding startup_lock.                                   *)

\* Fault: startup is not serialised.
LockNothing(t) ==
    /\ pc[t] = "lockStartup"
    /\ startupLock' = [startupLock EXCEPT ![at[t]] = t]
    /\ Goto(t, "validate")
    /\ UNCHANGED <<durable, session, turnGuard, checkoutGuard, procs, own, perm>>

LockStartup(t) ==
    /\ pc[t] = "lockStartup"
    /\ startupLock[at[t]] = NoTask
    /\ startupLock' = [startupLock EXCEPT ![at[t]] = t]
    /\ Goto(t, "validate")
    /\ UNCHANGED <<durable, session, turnGuard, checkoutGuard, procs, own, perm>>

\* The row must exist and not be archived, and the workspace must still be
\* where the row says; the workspace is checked in a blocking job.
ValidateChat(t) ==
    LET c == at[t] IN
    /\ pc[t] = "validate"
    /\ \/ /\ ~row[c].deleted /\ ~row[c].archived
          /\ Goto(t, "decide")
          /\ UNCHANGED <<durable, session, locks, procs, own, perm>>
       \/ EndUnchanged(t)

\* Fault: a connected client is not reused.
DecideRestart(t) ==
    LET c == at[t] IN
    /\ pc[t] = "decide"
    /\ IF FALSE
       THEN /\ Goto(t, "ensured")
            /\ ReleaseStartupLock(c)
            /\ UNCHANGED <<durable, session, procs, own, perm>>
       ELSE IF ~CanStart(c) /\ ps[c] # "running"
       THEN EndUnchanged(t)
       ELSE /\ SetStates(c, "starting", "idle")
            /\ IF logOk
               THEN Goto(t, "prepare") /\ UNCHANGED <<durable, client, locks, procs, own, perm>>
               ELSE UNCHANGED durable /\ End(t)

\* Reuse a connected client; refuse STARTING; otherwise announce STARTING.
DecideStart(t) ==
    LET c == at[t] IN
    /\ pc[t] = "decide"
    /\ IF ps[c] = "running" /\ ~Disconnected(c)
       THEN /\ Goto(t, "ensured")
            /\ ReleaseStartupLock(c)
            /\ UNCHANGED <<durable, session, procs, own, perm>>
       ELSE IF ~CanStart(c) /\ ps[c] # "running"
       THEN EndUnchanged(t)
       ELSE /\ SetStates(c, "starting", "idle")
            /\ IF logOk
               THEN Goto(t, "prepare") /\ UNCHANGED <<durable, client, locks, procs, own, perm>>
               ELSE UNCHANGED durable /\ End(t)

\* Read roots, MCP servers and environment, then spawn the process.
Prepare(t) ==
    /\ pc[t] = "prepare"
    /\ \/ EndDead(t)               \* the environment or the spawn failed
       \/ \E p \in Proc :
            /\ ~Referenced(p)
            /\ own' = [own EXCEPT ![t] = p]
            /\ exited' = exited \ {p}
            /\ stale' = stale \ {p}
            /\ Goto(t, "handshake")
            /\ UNCHANGED <<durable, session, locks, perm>>

\* initialize, the capability checks, then session/new, load or resume.
Handshake(t) ==
    LET c == at[t] IN
    /\ pc[t] = "handshake"
    /\ \/ EndDead(t)
       \/ /\ Alive(own[t])
          /\ row[c].saved => c \in Resumable
          /\ ~row[c].deleted       \* the ACP id must be persisted
          /\ row' = [row EXCEPT ![c].saved = TRUE]
          /\ Goto(t, "configure")
          /\ UNCHANGED <<turnLog, logOk, session, locks, procs, own, perm>>

\* Apply the saved options, then record them; every option can be refused.
Configure(t) ==
    /\ pc[t] = "configure"
    /\ \/ EndDead(t)
       \/ /\ logOk
          /\ Goto(t, "install")
          /\ UNCHANGED <<durable, session, locks, procs, own, perm>>

\* ensure_running returns early, after STARTING was stored, without storing
\* DEAD: a root that has moved, unreadable MCP servers or agent environment, a
\* row that is gone, an event that is not accepted.  Or the future of a request
\* is dropped with its HTTP connection, at an await of ensure_running or of
\* shutdown.
Abandon(t) ==
    /\ op[t] # "reap"
    /\ pc[t] \in {"lockStartup", "validate", "prepare", "handshake", "configure", "closing"}
    /\ EndUnchanged(t)

InstallClient(t) ==
    /\ pc[t] = "install"
    /\ client' = [client EXCEPT ![at[t]] = own[t]]
    /\ own' = [own EXCEPT ![t] = NoProc]
    /\ Goto(t, "announce")
    /\ UNCHANGED <<durable, ps, ts, locks, procs, perm>>

Announce(t) ==
    LET c == at[t] IN
    /\ pc[t] = "announce"
    /\ SetStates(c, "running", "idle")
    /\ IF logOk
       THEN /\ Goto(t, "ensured")
            /\ ReleaseStartupLock(c)
            /\ UNCHANGED <<durable, client, procs, own, perm>>
       ELSE UNCHANGED durable /\ End(t)

\* resume and the queries return; the option changes of a resume do not touch
\* the state kept here.
ReturnRunning(t) ==
    /\ pc[t] = "ensured"
    /\ op[t] \in {"resume", "query"}
    /\ EndUnchanged(t)

-----------------------------------------------------------------------------
(* A prompt, from the running agent to TurnComplete.                       *)

RecordUserMessage(t) ==
    LET c == at[t] IN
    /\ pc[t] = "ensured"
    /\ op[t] = "prompt"
    /\ \/ /\ client[c] # NoProc
          /\ logOk
          /\ turnLog' = [turnLog EXCEPT ![c].open = TRUE]
          /\ Goto(t, "recorded")
          /\ UNCHANGED <<row, logOk, session, locks, procs, own, perm>>
       \/ EndUnchanged(t)         \* no client, missing capability, log failure

\* Fault: the turn state that no code path assigns is stored.
SetCancelling(t) ==
    LET c == at[t] IN
    /\ pc[t] = "recorded"
    /\ SetStates(c, "running", "cancelling")
    /\ IF logOk
       THEN /\ turnLog' = [turnLog EXCEPT ![c].prompting = TRUE]
            /\ Goto(t, "send")
            /\ UNCHANGED <<row, logOk, client, locks, procs, own, perm>>
       ELSE UNCHANGED durable /\ End(t)

SetPrompting(t) ==
    LET c == at[t] IN
    /\ pc[t] = "recorded"
    /\ SetStates(c, "running", "prompting")
    /\ IF logOk
       THEN /\ turnLog' = [turnLog EXCEPT ![c].prompting = TRUE]
            /\ Goto(t, "send")
            /\ UNCHANGED <<row, logOk, client, locks, procs, own, perm>>
       ELSE UNCHANGED durable /\ End(t)

SendPrompt(t) ==
    LET c == at[t] IN
    /\ pc[t] = "send"
    /\ IF client[c] = NoProc
       THEN /\ SetStates(c, "dead", "idle")
            /\ Goto(t, "failed")
            /\ UNCHANGED <<durable, client, locks, procs, own, perm>>
       ELSE /\ own' = [own EXCEPT ![t] = client[c]]
            /\ Goto(t, "waiting")
            /\ UNCHANGED <<durable, session, locks, procs, perm>>

AgentAsksPermission(t) ==
    /\ pc[t] = "waiting"
    /\ Alive(own[t])
    /\ logOk
    /\ perm' = perm \cup {t}
    /\ UNCHANGED <<durable, session, locks, procs, op, at, pc, own>>

\* The user answers, or cancels the turn, which answers every permission.
PermissionAnswered(t) ==
    /\ t \in perm
    /\ perm' = perm \ {t}
    /\ UNCHANGED <<durable, session, locks, procs, op, at, pc, own>>

\* The agent's response; the event of RUNNING/IDLE may be refused.
TurnCompletes(t) ==
    /\ pc[t] = "waiting"
    /\ Alive(own[t])
    /\ SetStates(at[t], "running", "idle")
    /\ Goto(t, IF logOk THEN "finalize" ELSE "failed")
    /\ perm' = perm \ {t}
    /\ UNCHANGED <<durable, client, locks, procs, own>>

\* The request fails: an error from the agent, or its connection is gone.
TurnFails(t) ==
    /\ pc[t] = "waiting"
    /\ Goto(t, "errcheck")
    /\ perm' = perm \ {t}
    /\ UNCHANGED <<durable, session, locks, procs, own>>

\* prompt_timeout without an event, unless a permission is pending.
TurnTimesOut(t) ==
    /\ pc[t] = "waiting"
    /\ t \notin perm
    /\ Goto(t, "killing")
    /\ UNCHANGED <<durable, session, locks, procs, own, perm>>

CheckDisconnected(t) ==
    LET c == at[t] IN
    /\ pc[t] = "errcheck"
    /\ IF Disconnected(c)
       THEN /\ Goto(t, "killing")
            /\ UNCHANGED <<ps, ts>>
       ELSE /\ SetStates(c, "running", "idle")
            /\ Goto(t, "failed")
    /\ UNCHANGED <<durable, client, locks, procs, own, perm>>

\* TurnComplete, behind the end of the observed terminal tasks.
Finalize(t) ==
    /\ pc[t] = "finalize"
    /\ IF logOk
       THEN /\ turnLog' = [turnLog EXCEPT ![at[t]] = Closed]
            /\ Goto(t, "syncTitle")
       ELSE /\ Goto(t, "killing")
            /\ UNCHANGED turnLog
    /\ UNCHANGED <<row, logOk, session, locks, procs, own, perm>>

\* The agent is asked for its title, at most 5 seconds, still under the guards.
SyncTitle(t) ==
    /\ pc[t] = "syncTitle"
    /\ EndUnchanged(t)

\* mark_dead: take whatever client the session has now ...
MarkDeadTake(t) ==
    LET c == at[t] IN
    /\ pc[t] = "killing"
    /\ own' = [own EXCEPT ![t] = client[c]]
    /\ client' = [client EXCEPT ![c] = NoProc]
    /\ Goto(t, "marking")
    /\ UNCHANGED <<durable, ps, ts, locks, procs, perm>>

\* ... then store DEAD and terminate it.
MarkDead(t) ==
    /\ pc[t] = "marking"
    /\ SetStates(at[t], "dead", "idle")
    /\ own' = [own EXCEPT ![t] = NoProc]
    /\ Goto(t, "failed")
    /\ UNCHANGED <<durable, client, locks, procs, perm>>

\* Fault: a failed turn records no TurnComplete.
FinalizeSilently(t) ==
    /\ pc[t] = "failed"
    /\ UNCHANGED turnLog
    /\ UNCHANGED <<row, logOk, ps, ts>>
    /\ End(t)

\* Error and TurnComplete, when the log still accepts them.
FinalizeFailed(t) ==
    /\ pc[t] = "failed"
    /\ IF logOk
       THEN turnLog' = [turnLog EXCEPT ![at[t]] = Closed]
       ELSE UNCHANGED turnLog
    /\ UNCHANGED <<row, logOk, ps, ts>>
    /\ End(t)

-----------------------------------------------------------------------------
(* shutdown: stop, delete, a configuration edit, the reaper.               *)

\* Deleting needs a readable workspace row first.
TakeClient(t) ==
    LET c == at[t] IN
    /\ pc[t] = "take"
    /\ \/ /\ own' = [own EXCEPT ![t] = client[c]]
          /\ client' = [client EXCEPT ![c] = NoProc]
          /\ Goto(t, "closing")
          /\ UNCHANGED <<durable, ps, ts, locks, procs, perm>>
       \/ op[t] = "delete" /\ EndUnchanged(t)

FinishShutdown(t) ==
    /\ pc[t] = "closing"
    /\ SetStates(at[t], "stopped", "idle")
    /\ IF op[t] = "delete"
       THEN /\ own' = [own EXCEPT ![t] = NoProc]
            /\ Goto(t, "cleanup")
            /\ UNCHANGED <<durable, client, locks, procs, perm>>
       ELSE UNCHANGED durable /\ End(t)

\* Managed-worktree cleanup, then one transaction for the row and its events.
DeleteRow(t) ==
    LET c == at[t] IN
    /\ pc[t] = "cleanup"
    /\ \/ /\ row' = [row EXCEPT ![c].deleted = TRUE]
          /\ turnLog' = [turnLog EXCEPT ![c] = Closed]
          /\ UNCHANGED <<logOk, ps, ts>>
          /\ End(t)
       \/ EndUnchanged(t)

-----------------------------------------------------------------------------
(* change_connection_config.                                               *)

EditCheck(t) ==
    LET c == at[t] IN
    /\ pc[t] = "editCheck"
    /\ IF IsRunning(c) /\ ~SupportsResume(c)
       THEN EndUnchanged(t)
       ELSE /\ Goto(t, "editStore")
            /\ UNCHANGED <<durable, session, locks, procs, own, perm>>

\* Processes already opened for the chat keep the configuration they read.
EditStore(t) ==
    LET c == at[t] IN
    /\ pc[t] = "editStore"
    /\ stale' = stale \cup {p \in Proc : client[c] = p \/ \E u \in Task : at[u] = c /\ own[u] = p}
    /\ Goto(t, "editDecide")
    /\ UNCHANGED <<durable, session, locks, exited, own, perm>>

\* Fault: only a broken connection is closed after an edit.
EditLeavesClient(t) ==
    /\ pc[t] = "editDecide"
    /\ IF IsRunning(at[t]) /\ Disconnected(at[t])
       THEN /\ Goto(t, "take")
            /\ UNCHANGED <<durable, session, locks, procs, own, perm>>
       ELSE EndUnchanged(t)

EditDecide(t) ==
    /\ pc[t] = "editDecide"
    /\ IF IsRunning(at[t])
       THEN /\ Goto(t, "take")
            /\ UNCHANGED <<durable, session, locks, procs, own, perm>>
       ELSE EndUnchanged(t)

-----------------------------------------------------------------------------
(* The environment.                                                        *)

ProcessExits(p) ==
    /\ Alive(p)
    /\ exited' = exited \cup {p}
    /\ UNCHANGED <<durable, session, locks, stale, op, at, pc, own, perm>>

\* The first write that SQLite refuses closes the event log until a restart.
LogFails ==
    /\ logOk
    /\ logOk' = FALSE
    /\ UNCHANGED <<row, turnLog, session, locks, procs, op, at, pc, own, perm>>

\* Fault: the next start closes no turn.
RestartWithoutRecovery ==
    /\ logOk' = TRUE
    /\ UNCHANGED turnLog
    /\ ps' = [c \in Chat |-> "stopped"]
    /\ ts' = [c \in Chat |-> "idle"]
    /\ client' = [c \in Chat |-> NoProc]
    /\ turnGuard' = [c \in Chat |-> NoTask]
    /\ startupLock' = [c \in Chat |-> NoTask]
    /\ checkoutGuard' = [k \in Checkout |-> NoTask]
    /\ op' = [t \in Task |-> "none"]
    /\ at' = [t \in Task |-> NoChat]
    /\ pc' = [t \in Task |-> "idle"]
    /\ own' = [t \in Task |-> NoProc]
    /\ perm' = {}
    /\ exited' = {}
    /\ stale' = {}
    /\ UNCHANGED row

\* A crash, or a stop that cuts the requests off, and the next start, which
\* closes every turn whose PROMPTING was recorded.
Restart ==
    /\ logOk' = TRUE
    /\ turnLog' = [c \in Chat |-> IF turnLog[c].prompting
                                  THEN Closed
                                  ELSE turnLog[c]]
    /\ ps' = [c \in Chat |-> "stopped"]
    /\ ts' = [c \in Chat |-> "idle"]
    /\ client' = [c \in Chat |-> NoProc]
    /\ turnGuard' = [c \in Chat |-> NoTask]
    /\ startupLock' = [c \in Chat |-> NoTask]
    /\ checkoutGuard' = [k \in Checkout |-> NoTask]
    /\ op' = [t \in Task |-> "none"]
    /\ at' = [t \in Task |-> NoChat]
    /\ pc' = [t \in Task |-> "idle"]
    /\ own' = [t \in Task |-> NoProc]
    /\ perm' = {}
    /\ exited' = {}
    /\ stale' = {}
    /\ UNCHANGED row

-----------------------------------------------------------------------------
Ask(t, c) == \/ AdmitPrompt(t, c) \/ Resume(t, c) \/ Query(t, c) \/ Stop(t, c)
             \/ Delete(t, c) \/ EditConnection(t, c) \/ ReapCandidate(t, c)

StartupStep(t) == \/ ValidateChat(t) \/ DecideStart(t) \/ Prepare(t) \/ Handshake(t)
                  \/ Configure(t) \/ InstallClient(t) \/ Announce(t) \/ ReturnRunning(t)

TurnStep(t) == \/ RecordUserMessage(t) \/ SetPrompting(t) \/ SendPrompt(t)
               \/ CheckDisconnected(t) \/ Finalize(t) \/ SyncTitle(t)
               \/ MarkDeadTake(t) \/ MarkDead(t) \/ FinalizeFailed(t)

\* Fault: neither a timeout nor a lost connection ends the wait.
AnswerOnly(t) == TurnCompletes(t)

\* What ends the wait for the agent: its answer, a failure, or the timeout.
AgentAnswer(t) == TurnCompletes(t) \/ TurnFails(t) \/ TurnTimesOut(t)

ShutdownStep(t) == \/ TakeClient(t) \/ FinishShutdown(t) \/ DeleteRow(t)
                   \/ EditCheck(t) \/ EditStore(t) \/ EditDecide(t) \/ ReapGuard(t)

\* Steps the server's code takes by itself: every request to the agent but the
\* prompt has a timeout of its own.
TaskStep(t) == StartupStep(t) \/ TurnStep(t) \/ ShutdownStep(t)

Next ==
    \/ \E t \in Task, c \in Chat : Ask(t, c)
    \/ \E t \in Task : LockStartup(t) \/ Abandon(t) \/ TaskStep(t) \/ AgentAnswer(t)
    \/ \E t \in Task : AgentAsksPermission(t) \/ PermissionAnswered(t)
    \/ \E c \in Chat : SetArchived(c)
    \/ \E p \in Proc : ProcessExits(p)
    \/ LogFails
    \/ Restart

Spec == Init /\ [][Next]_vars

\* The runtime polls every task; tokio's Mutex is granted in order of arrival;
\* a prompt ends by its answer, its failure or prompt_timeout, but the timeout
\* waits as long as the user is being asked for a permission.
Fairness ==
    \A t \in Task :
        /\ WF_vars(TaskStep(t))
        /\ SF_vars(LockStartup(t))
        /\ WF_vars(AgentAnswer(t) /\ t \notin perm)
FairSpec == Spec /\ Fairness

-----------------------------------------------------------------------------
(* Vocabulary of the properties.                                           *)

Prompting(t, c) == at[t] = c /\ op[t] = "prompt"
InTurn(t, c) == at[t] = c /\ pc[t] \in TurnPc
Starting(t, c) == at[t] = c /\ pc[t] \in StartupPc
Shutting(t, c) == at[t] = c /\ pc[t] \in ShutdownPc
Sharing(c, d) == CheckoutOf[c] = CheckoutOf[d] /\ CheckoutOf[c] # NoCheckout
LiveOf(c) == {p \in Proc : /\ Alive(p)
                           /\ client[c] = p \/ \E t \in Task : at[t] = c /\ own[t] = p}

-----------------------------------------------------------------------------
(* Safety, whatever the requests.                                          *)

\* admit_turn holds turn_guard and checkout_guard until the turn is over: two
\* prompts never work on one chat, nor on two chats of one primary checkout,
\* although each chat has its own session, locks and agent process.
CheckoutExclusion ==
    \A t, u \in Task, c, d \in Chat :
        Prompting(t, c) /\ Prompting(u, d) /\ t # u => c # d /\ ~Sharing(c, d)

\* stop, delete, a configuration edit and the reaper shut the session down only
\* when no turn runs, and one at a time; the reaper chose the session from a
\* snapshot, and the state it saw may be gone when it acts.
TeardownSparesTurn ==
    \A t, u \in Task, c \in Chat :
        Shutting(t, c) /\ t # u => ~InTurn(u, c) /\ ~Shutting(u, c)

\* startup_lock: however many requests call ensure_running on a chat, with or
\* without turn_guard, one of them at a time may open a process.
OneStartup ==
    \A t, u \in Task, c \in Chat : Starting(t, c) /\ Starting(u, c) => t = u

\* One startup at a time, and the states stored are those of the state machine: the
\* turn state CANCELLING of the enum is never stored (session/mod.rs:242).
StartupsHold == TypeOK /\ OneStartup

\* A PROMPTING event without a TurnComplete is a turn that runs now, across
\* agent deaths, timeouts, restarts and deletions, while the log takes events;
\* and so is the turn_state PROMPTING, which refuses every prompt ("Agent busy").
TurnBracket ==
    \A c \in Chat :
        (turnLog[c].prompting \/ ts[c] = "prompting") /\ logOk => \E t \in Task : InTurn(t, c)

-----------------------------------------------------------------------------
(* Safety, as long as nobody starts the agent without turn_guard.          *)

\* The processes of one chat share a working directory and one ACP session:
\* while one lives, no other is opened.
OneProcess == \A c \in Chat : \A p, q \in LiveOf(c) : p = q

\* Once an edit of roots or MCP servers has returned, no process that was
\* opened with the old ones is left.
EditReaches ==
    \A c \in Chat : (\A t \in Task : ~(at[t] = c /\ op[t] = "edit")) => LiveOf(c) \cap stale = {}

-----------------------------------------------------------------------------
(* The abstract specification this one implements.                         *)

Turns == INSTANCE ChatTurns WITH
    working   <- {c \in Chat : \E t \in Task : InTurn(t, c)},
    marked    <- {c \in Chat : turnLog[c].prompting},
    accepting <- logOk

\* Sessions, locks, processes and failures together keep the promise about
\* turns that ChatTurns states.
ImplementsTurns == Turns!Spec

-----------------------------------------------------------------------------
(* Liveness.                                                               *)

\* Every request returns, unless it is a prompt that asks its user for a
\* permission: no lock is kept for ever, whatever dies.
EveryRequestEnds ==
    \A t \in Task : op[t] # "none" ~> op[t] = "none" \/ t \in perm

\* A turn that was announced is closed, by its end or by the next start's
\* recovery, unless the log has failed or the user is being asked.
AnnouncedTurnCloses ==
    \A c \in Chat :
        turnLog[c].prompting ~> \/ ~turnLog[c].prompting
                                \/ ~logOk
                                \/ \E t \in perm : at[t] = c

-----------------------------------------------------------------------------
(* What the repository says and the code does not do.                      *)

\* ensure_running: a second caller, once it has the startup lock, never fails on
\* STARTING.  An early return leaves STARTING behind.
NeverFailsOnStarting ==
    \A t \in Task : pc[t] = "decide" => ps[at[t]] # "starting"
=============================================================================
