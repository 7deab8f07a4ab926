--------------------------- MODULE SessionRegistry ---------------------------
(***************************************************************************)
(* SessionManager (backend/src/session/mod.rs): the map from chats to      *)
(* session handles, for one chat. A request looks the handle up, or builds *)
(* one from the rows and inserts it, and acts on the handle it holds after *)
(* the map has been unlocked; meanwhile the chat may be deleted, its agent *)
(* changed, or the hub shut down, each of which drops the entry.           *)
(***************************************************************************)
EXTENDS Naturals, FiniteSets

CONSTANTS
    Caller,    \* requests and background jobs
    Handle,    \* bound: the AcpSession values built for the chat
    Jobs       \* bound: what the callers do

None == "none"
Job == {"start", "query", "stop", "reap", "delete", "invalidate", "drain"}

ASSUME RegistryAssumption == Jobs \subseteq Job /\ None \notin Caller \cup Handle

VARIABLES
    entry,      \* the handle in `sessions`, or None
    made,       \* handles built and inserted
    retired,    \* handles taken out of the map
    process,    \* process[h]: "stopped", "starting", "running"
    startLock,  \* startLock[h]: who holds startup_lock, or None
    turnLock,   \* turnLock[h]: who holds turn_guard, or None
    chatRow,    \* the chat's row is in the store
    at, job, held

regVars == <<entry, made, retired, process, startLock, turnLock, chatRow, at, job, held>>
handles == <<process, startLock, turnLock>>
map == <<entry, made, retired>>

RegInit ==
    /\ entry = None /\ made = {} /\ retired = {}
    /\ process = [h \in Handle |-> "stopped"]
    /\ startLock = [h \in Handle |-> None] /\ turnLock = [h \in Handle |-> None]
    /\ chatRow = TRUE
    /\ at = [r \in Caller |-> "idle"]
    /\ job = [r \in Caller |-> "start"] /\ held = [r \in Caller |-> None]

-----------------------------------------------------------------------------
Moves(r, label) == at' = [at EXCEPT ![r] = label]
Leaves(r) == Moves(r, "idle") /\ held' = [held EXCEPT ![r] = None]

\* Dropping a guard frees the lock.
Unlocked(lock, r) == [h \in Handle |-> IF lock[h] = r THEN None ELSE lock[h]]

\* The entry leaves both maps.
TakeOut ==
    /\ entry' = None
    /\ retired' = IF entry = None THEN retired ELSE retired \cup {entry}

\* Requests look the chat up; reap_idle does so for a handle it saw running,
\* and acts as a stop from there.
Ask(r, what) ==
    /\ at[r] = "idle" /\ what \notin {"invalidate", "drain"}
    /\ what = "reap" => entry # None /\ process[entry] = "running"
    /\ what = "delete" => chatRow
    /\ job' = [job EXCEPT ![r] = IF what = "reap" THEN "stop" ELSE what]
    /\ Moves(r, "lookup")
    /\ UNCHANGED <<map, handles, chatRow, held>>

\* get_by_id under the read lock; without an entry the rows are read.
GetById(r) ==
    /\ at[r] = "lookup"
    /\ CASE entry # None -> held' = [held EXCEPT ![r] = entry] /\ Moves(r, "acting")
         [] entry = None /\ chatRow -> Moves(r, "building") /\ UNCHANGED held
         [] OTHER -> Leaves(r)
    /\ UNCHANGED <<map, handles, chatRow, job>>

\* The write lock: a handle inserted in the meantime wins.
InsertHandle(r) ==
    /\ at[r] = "building" /\ Moves(r, "acting")
    /\ IF entry # None
       THEN held' = [held EXCEPT ![r] = entry] /\ UNCHANGED <<entry, made>>
       ELSE \E h \in Handle \ made :
              /\ entry' = h /\ made' = made \cup {h}
              /\ held' = [held EXCEPT ![r] = h]
    /\ UNCHANGED <<retired, handles, chatRow, job>>

\* Everything but a query first tries turn_guard.
TakeTurnGuard(r) ==
    LET h == held[r] IN
    /\ at[r] = "acting"
    /\ IF job[r] = "query" \/ turnLock[h] = None
       THEN /\ turnLock' = IF job[r] = "query" THEN turnLock ELSE [turnLock EXCEPT ![h] = r]
            /\ Moves(r, CASE job[r] \in {"start", "query"} -> "starting"
                          [] job[r] = "stop" -> "stopping"
                          [] OTHER -> "deleting")
            /\ UNCHANGED held
       ELSE Leaves(r) /\ UNCHANGED turnLock
    /\ UNCHANGED <<map, process, startLock, chatRow, job>>

\* ensure_running: the startup lock, the chat's row, the state.
EnsureRunning(r) ==
    LET h == held[r] IN
    /\ at[r] = "starting" /\ startLock[h] = None
    /\ IF chatRow /\ process[h] # "running"
       THEN /\ startLock' = [startLock EXCEPT ![h] = r]
            /\ process' = [process EXCEPT ![h] = "starting"]
            /\ Moves(r, "spawning") /\ UNCHANGED <<turnLock, held>>
       ELSE /\ turnLock' = Unlocked(turnLock, r) /\ Leaves(r)
            /\ UNCHANGED <<startLock, process>>
    /\ UNCHANGED <<map, chatRow, job>>

Spawn(r) ==
    /\ at[r] = "spawning"
    /\ process' \in {[process EXCEPT ![held[r]] = p] : p \in {"running", "stopped"}}
    /\ startLock' = Unlocked(startLock, r) /\ turnLock' = Unlocked(turnLock, r)
    /\ Leaves(r)
    /\ UNCHANGED <<map, chatRow, job>>

\* shutdown takes the client there is; a start that is under way goes on.
Shutdown(h) ==
    process' = IF process[h] = "running" THEN [process EXCEPT ![h] = "stopped"] ELSE process

StopHandle(r) ==
    /\ at[r] = "stopping" /\ Shutdown(held[r])
    /\ turnLock' = Unlocked(turnLock, r) /\ Leaves(r)
    /\ UNCHANGED <<map, startLock, chatRow, job>>

\* delete_metadata, then remove_session for whatever the map holds by then.
DeleteMetadata(r) ==
    /\ at[r] = "deleting" /\ Shutdown(held[r])
    /\ chatRow' = FALSE
    /\ turnLock' = Unlocked(turnLock, r) /\ Moves(r, "removing")
    /\ UNCHANGED <<map, startLock, job, held>>

RemoveSession(r) ==
    /\ at[r] = "removing" /\ TakeOut /\ Leaves(r)
    /\ UNCHANGED <<made, handles, chatRow, job>>

\* invalidate_stopped_sessions_for_agent: the handle it listed, under the
\* handle's startup lock, if it may be started and is still the one in the map.
Invalidate(r) ==
    /\ at[r] = "idle" /\ entry # None /\ "invalidate" \in Jobs
    /\ job' = [job EXCEPT ![r] = "invalidate"] /\ held' = [held EXCEPT ![r] = entry]
    /\ Moves(r, "listed")
    /\ UNCHANGED <<map, handles, chatRow>>

\* Fault: the state is looked at without the startup lock.
CheckUnlocked(r) ==
    /\ at[r] = "listed"
    /\ IF process[held[r]] = "stopped" THEN Moves(r, "retiring") /\ UNCHANGED held ELSE Leaves(r)
    /\ UNCHANGED <<map, handles, chatRow, job>>

CheckStopped(r) ==
    LET h == held[r] IN
    /\ at[r] = "listed" /\ startLock[h] = None
    /\ IF process[h] = "stopped"
       THEN startLock' = [startLock EXCEPT ![h] = r] /\ Moves(r, "retiring") /\ UNCHANGED held
       ELSE Leaves(r) /\ UNCHANGED startLock
    /\ UNCHANGED <<map, process, turnLock, chatRow, job>>

Retire(r) ==
    /\ at[r] = "retiring"
    /\ IF entry = held[r] THEN TakeOut ELSE UNCHANGED <<entry, retired>>
    /\ startLock' = Unlocked(startLock, r) /\ Leaves(r)
    /\ UNCHANGED <<made, process, turnLock, chatRow, job>>

\* shutdown_all: the map is emptied first, the sessions are shut down after.
Drain(r) ==
    /\ at[r] = "idle" /\ entry # None /\ "drain" \in Jobs
    /\ job' = [job EXCEPT ![r] = "drain"] /\ held' = [held EXCEPT ![r] = entry]
    /\ TakeOut /\ Moves(r, "draining")
    /\ UNCHANGED <<made, handles, chatRow>>

ShutdownDrained(r) ==
    /\ at[r] = "draining" /\ Shutdown(held[r]) /\ Leaves(r)
    /\ UNCHANGED <<map, startLock, turnLock, chatRow, job>>

RegNext == \E r \in Caller :
    \/ \E what \in Jobs : Ask(r, what)
    \/ GetById(r) \/ InsertHandle(r) \/ TakeTurnGuard(r)
    \/ EnsureRunning(r) \/ Spawn(r) \/ StopHandle(r)
    \/ DeleteMetadata(r) \/ RemoveSession(r)
    \/ Invalidate(r) \/ CheckStopped(r) \/ Retire(r)
    \/ Drain(r) \/ ShutdownDrained(r)

RegSpec == RegInit /\ [][RegNext]_regVars

-----------------------------------------------------------------------------
(* Properties                                                              *)

\* Requests that look a chat up at the same time get the same handle: two
\* handles in use would split the startup lock. A handle leaves the map only
\* by a deletion, an invalidation or the shutdown.
OneHandle == Cardinality(made \ retired) <= 1

\* The type invariant; of the handles, one at most is in the map.
RegTypeOK ==
    /\ entry \in Handle \cup {None} /\ made \subseteq Handle /\ retired \subseteq made
    /\ process \in [Handle -> {"stopped", "starting", "running"}]
    /\ startLock \in [Handle -> Caller \cup {None}]
    /\ turnLock \in [Handle -> Caller \cup {None}]
    /\ chatRow \in BOOLEAN
    /\ at \in [Caller -> {"idle", "lookup", "building", "acting", "starting", "spawning", "stopping",
                         "deleting", "removing", "listed", "retiring", "draining"}]
    /\ job \in [Caller -> Job] /\ held \in [Caller -> Handle \cup {None}]
    /\ OneHandle

\* Changing an agent's definition never takes a session out of the map whose
\* process is starting or running, even when a request starts it at that time.
RetireSparesProcess ==
    [][\A r \in Caller : job[r] = "invalidate" /\ entry = held[r] /\ entry' # entry
                            /\ at[r] # at'[r] => process[held[r]] = "stopped"]_regVars

\* A chat has one agent process. get_by_id never replaces a stopped session,
\* because callers that are about to start it would hold another startup lock.
OneProcessPerChat == Cardinality({h \in Handle : process[h] # "stopped"}) <= 1
=============================================================================
