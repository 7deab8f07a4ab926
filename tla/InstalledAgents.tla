--------------------------- MODULE InstalledAgents ---------------------------
(***************************************************************************)
(* One agent id under management (backend/src/agents, service/agents.rs,   *)
(* store/agents.rs): its durable row, its entry in the catalog that        *)
(* sessions read, the installed files of its versions, and the requests    *)
(* that install, update, edit and remove it while a chat looks its session *)
(* up and starts it.                                                       *)
(*                                                                         *)
(* The requests of the manager hold mutation_lock over network and disk;   *)
(* what the service does after the manager returns (look at the live       *)
(* sessions, remove the previous files, retire stopped sessions) is        *)
(* outside the lock.                                                       *)
(***************************************************************************)
EXTENDS Naturals, FiniteSets

CONSTANTS
    Manager,     \* requests to manage the agent
    Version,     \* versions of the registry, editions of a custom definition
    Session,     \* session handles
    None,        \* no lock holder, no session
    MaxPublish,  \* bound: publications of the registry
    MaxRestart   \* bound: crashes

ASSUME AgentsAssumption ==
    /\ Version \subseteq Nat \ {0} /\ Version # {}
    /\ MaxPublish \in Nat /\ MaxRestart \in Nat
    /\ None \notin Manager \cup Session

Source == {"registry", "custom"}
Nothing == [source |-> "none", version |-> 0, retired |-> FALSE]
Definition == [source : Source, version : Version, retired : BOOLEAN] \cup {Nothing}

VARIABLES
    row,        \* the row of installed_agents
    entry,      \* the catalog entry
    usable,     \* its availability, probed when the entry was made
    files,      \* versions with an install directory
    published,  \* the version the registry publishes
    cached,     \* the version in the cached registry catalog, 0 without a cache
    mutex,      \* mutation_lock
    registered, \* requests with a running AgentOperation
    at, op,     \* per request: the next step and the operation
    target,     \* the version a request installs
    previous,   \* the version whose files it removes
    named,      \* a chat names the agent
    asking,     \* a chat creation has seen the agent available
    mapped,     \* the session the manager of sessions holds for that chat
    built,      \* built[s]: the definition s captured
    proc,       \* proc[s]: its process
    caller,     \* the request that looks the session up and starts it
    held, building, \* its session, or the definition it builds one from
    publications, restarts

durable == <<row, files, cached>>
catalog == <<entry, usable>>
requests == <<mutex, registered, at, op, target, previous>>
chats == <<named, asking>>
sessions == <<mapped, built, proc, caller, held, building>>
bounds == <<publications, restarts>>
agVars == <<durable, catalog, published, requests, chats, sessions, bounds>>

AgInit ==
    /\ row = Nothing /\ entry = Nothing /\ usable = FALSE /\ files = {}
    /\ published = CHOOSE v \in Version : TRUE
    /\ cached = 0
    /\ mutex = None /\ registered = {}
    /\ at = [m \in Manager |-> "idle"] /\ op = [m \in Manager |-> "remove"]
    /\ target = [m \in Manager |-> 0] /\ previous = [m \in Manager |-> 0]
    /\ named = FALSE /\ asking = FALSE
    /\ mapped = None /\ built = [s \in Session |-> Nothing]
    /\ proc = [s \in Session |-> "stopped"]
    /\ caller = "idle" /\ held = None /\ building = Nothing
    /\ publications = 0 /\ restarts = 0

-----------------------------------------------------------------------------
\* unavailable_reason: a retired row, or a registry install without its binary.
OnDisk(d, fs) == d.source = "registry" => d.version \in fs
Usable(d, fs) == d.source # "none" /\ ~d.retired /\ OnDisk(d, fs)

\* agent_ids_in_use, over the sessions the manager still holds.
Live == mapped # None /\ proc[mapped] \in {"starting", "running"}

IdIsFree == entry.source = "none" /\ row.source = "none"

Step(m, label) == at' = [at EXCEPT ![m] = label]

\* The request is over: the guard goes, and the tracker has its outcome.
\* What the request had read goes with it.
Over(m) ==
    /\ Step(m, "idle")
    /\ registered' = registered \ {m}
    /\ mutex' = IF mutex = m THEN None ELSE mutex
    /\ target' = [target EXCEPT ![m] = 0] /\ previous' = [previous EXCEPT ![m] = 0]
    /\ op' = [op EXCEPT ![m] = "remove"]

-----------------------------------------------------------------------------
(* Requests before the lock                                                *)

\* AgentOperations::register, for the operations that are tracked.
Register(m, o) == o \in {"install", "update"} /\ registered = {}

\* validate_install, validate_update; removal is refused under a live session.
Asked(o) ==
    CASE o = "install" -> IdIsFree
      [] o = "update" -> row.source = "registry"
      [] o = "remove" -> ~Live
      [] OTHER -> TRUE

Request(m, o) ==
    /\ at[m] = "idle" /\ Asked(o)
    /\ \/ Register(m, o) /\ registered' = registered \cup {m}
       \/ o \in {"create", "edit", "remove"} /\ UNCHANGED registered
    /\ Step(m, "queued") /\ op' = [op EXCEPT ![m] = o]
    /\ UNCHANGED <<durable, catalog, published, mutex, target, previous, chats, sessions, bounds>>

\* Fault: what was looked at before the lock is not looked at again.
AdmitsAll(m) == TRUE

\* The check under mutation_lock, and the step that follows it.
Admitted(m) ==
    CASE op[m] \in {"install", "create"} -> IdIsFree
      [] op[m] = "update" -> row.source = "registry"
      [] op[m] = "edit" -> row.source = "custom"
      [] OTHER -> row.source # "none"

FirstStep(m) ==
    CASE op[m] \in {"install", "update"} -> "resolve"
      [] op[m] \in {"create", "edit"} -> "row"
      [] OTHER -> IF named THEN "retire" ELSE "delete"

Locks(m) ==
    /\ at[m] = "queued" /\ mutex = None
    /\ IF Admitted(m)
       THEN /\ mutex' = m /\ Step(m, FirstStep(m))
            /\ previous' = [previous EXCEPT ![m] = row.version]
            /\ UNCHANGED <<registered, op, target>>
       ELSE Over(m)
    /\ UNCHANGED <<durable, catalog, published, chats, sessions, bounds>>

-----------------------------------------------------------------------------
(* install_with_tracker, update_with_tracker                               *)

\* resolve_registry_agent prefers the cache; an update refreshes, and falls
\* back to the cache when the refresh fails.
Resolve(m) ==
    /\ at[m] = "resolve"
    /\ \E v \in Version :
        /\ \/ v = published /\ (op[m] = "install" => cached = 0) /\ cached' = published
           \/ v = cached /\ UNCHANGED cached
        /\ IF op[m] = "update" /\ v = row.version
           THEN Over(m)
           ELSE /\ Step(m, "fetch") /\ target' = [target EXCEPT ![m] = v]
                /\ UNCHANGED <<mutex, registered, op, previous>>
    /\ UNCHANGED <<row, files, catalog, published, chats, sessions, bounds>>

\* The registry is out of reach, no longer lists the agent, or the archive
\* does not download, verify or extract: the staging directory goes.
Fails(m) ==
    /\ at[m] \in {"resolve", "fetch"} /\ Over(m)
    /\ UNCHANGED <<durable, catalog, published, chats, sessions, bounds>>

\* extract_into_place: staged, then the directory of this version is replaced.
Clear(m) ==
    /\ at[m] = "fetch" /\ Step(m, "place")
    /\ files' = files \ {target[m]}
    /\ UNCHANGED <<row, cached, catalog, published, mutex, registered, op, target, previous,
                   chats, sessions, bounds>>

Place(m) ==
    /\ at[m] = "place" /\ Step(m, "row")
    /\ files' = files \cup {target[m]}
    /\ UNCHANGED <<row, cached, catalog, published, mutex, registered, op, target, previous,
                   chats, sessions, bounds>>

\* An update keeps what the record says beside its command and snapshot. An
\* edit is applied to a new record: it keeps the creation time alone.
InstallRow(m) == [source |-> "registry", version |-> target[m], retired |-> FALSE]
UpdateRow(m) == [row EXCEPT !.version = target[m]]
CustomRow(v) == [source |-> "custom", version |-> v, retired |-> FALSE]

NewRow(m) ==
    CASE op[m] = "update" -> {UpdateRow(m)}
      [] op[m] = "install" -> {InstallRow(m)}
      [] OTHER -> {CustomRow(v) : v \in Version}

WriteRow(m) ==
    /\ at[m] = "row" /\ Step(m, "entry")
    /\ row' \in NewRow(m)
    /\ UNCHANGED <<files, cached, catalog, published, mutex, registered, op, target, previous,
                   chats, sessions, bounds>>

Projected(d) == entry' = d /\ usable' = Usable(d, files)

\* The catalog insert or replacement ends the manager's part. A collision
\* takes an inserted row back.
WriteEntry(m) ==
    /\ at[m] = "entry"
    /\ mutex' = None
    /\ IF op[m] \in {"install", "create"} /\ entry.source # "none"
       THEN row' = Nothing /\ UNCHANGED catalog
       ELSE Projected(row) /\ UNCHANGED row
    /\ Step(m, CASE op[m] = "update" -> "look"
                 [] op[m] = "edit" -> "settle"
                 [] OTHER -> "report")
    /\ UNCHANGED <<files, cached, published, registered, op, target, previous,
                   chats, sessions, bounds>>

-----------------------------------------------------------------------------
(* What the service does after the manager                                 *)

\* The previous files stay while a session is live, or when the update
\* installed into the same directory.
Look(m) ==
    /\ at[m] = "look"
    /\ Step(m, IF Live \/ previous[m] = target[m] THEN "settle" ELSE "drop")
    /\ UNCHANGED <<durable, catalog, published, mutex, registered, op, target, previous,
                   chats, sessions, bounds>>

DropPrevious(m) ==
    /\ at[m] = "drop" /\ Step(m, "settle")
    /\ files' = files \ {previous[m]}
    /\ UNCHANGED <<row, cached, catalog, published, mutex, registered, op, target, previous,
                   chats, sessions, bounds>>

\* invalidate_stopped_sessions_for_agent, serialized with a startup by its lock.
Settle(m) ==
    /\ at[m] = "settle"
    /\ mapped # None => proc[mapped] # "starting"
    /\ mapped' = IF Live THEN mapped ELSE None
    /\ Step(m, "report")
    /\ UNCHANGED <<durable, catalog, published, mutex, registered, op, target, previous,
                   chats, built, proc, caller, held, building, bounds>>

\* The tracker succeeds, or the request answers.
Report(m) ==
    /\ at[m] = "report" /\ Over(m)
    /\ UNCHANGED <<durable, catalog, published, chats, sessions, bounds>>

-----------------------------------------------------------------------------
(* AgentManager::remove                                                    *)

Retire(m) ==
    /\ at[m] = "retire" /\ Step(m, "retire_entry")
    /\ row' = [row EXCEPT !.retired = TRUE]
    /\ UNCHANGED <<files, cached, catalog, published, mutex, registered, op, target, previous,
                   chats, sessions, bounds>>

RetireEntry(m) ==
    /\ at[m] = "retire_entry" /\ Step(m, "files")
    /\ Projected(row)
    /\ UNCHANGED <<durable, published, mutex, registered, op, target, previous,
                   chats, sessions, bounds>>

Delete(m) ==
    /\ at[m] = "delete" /\ Step(m, "delete_entry")
    /\ row' = Nothing
    /\ UNCHANGED <<files, cached, catalog, published, mutex, registered, op, target, previous,
                   chats, sessions, bounds>>

DeleteEntry(m) ==
    /\ at[m] = "delete_entry" /\ Step(m, "files")
    /\ entry' = Nothing /\ usable' = FALSE
    /\ UNCHANGED <<durable, published, mutex, registered, op, target, previous,
                   chats, sessions, bounds>>

\* remove_install_files, still under the lock.
RemoveFiles(m) ==
    /\ at[m] = "files" /\ Step(m, "settle") /\ mutex' = None
    /\ files' = files \ {previous[m]}
    /\ UNCHANGED <<row, cached, catalog, published, registered, op, target, previous,
                   chats, sessions, bounds>>

-----------------------------------------------------------------------------
(* The registry                                                            *)

Publish ==
    /\ publications < MaxPublish /\ publications' = publications + 1
    /\ published' \in Version \ {published}
    /\ UNCHANGED <<durable, catalog, requests, chats, sessions, restarts>>

\* registry_catalog: a browse that fetches. A failed fetch keeps the cache.
Browse ==
    /\ cached' = published
    /\ UNCHANGED <<row, files, catalog, published, requests, chats, sessions, bounds>>

-----------------------------------------------------------------------------
(* Chats and their session                                                 *)

\* create_chat checks the agent first and inserts the row last.
AskForChat ==
    /\ ~named /\ ~asking /\ usable /\ asking' = TRUE
    /\ UNCHANGED <<durable, catalog, published, requests, named, sessions, bounds>>

InsertChat ==
    /\ asking /\ asking' = FALSE /\ named' = TRUE
    /\ UNCHANGED <<durable, catalog, published, requests, sessions, bounds>>

\* delete_chat, after the session has stopped.
DeleteChat ==
    /\ named /\ caller = "idle" /\ \A s \in Session : proc[s] = "stopped"
    /\ named' = FALSE /\ mapped' = None
    /\ UNCHANGED <<durable, catalog, published, requests, asking,
                   built, proc, caller, held, building, bounds>>

\* HubService::live: the agent is available; the session of the map, or the
\* runtime a new one is built from.
FindSession ==
    /\ caller = "idle" /\ named /\ usable
    /\ IF mapped # None
       THEN caller' = "start" /\ held' = mapped /\ UNCHANGED building
       ELSE caller' = "build" /\ building' = entry /\ UNCHANGED held
    /\ UNCHANGED <<durable, catalog, published, requests, chats, mapped, built, proc, bounds>>

\* get_by_id inserts what it built, whatever became of the agent meanwhile.
InsertSession ==
    /\ caller = "build"
    /\ \E s \in Session :
        /\ proc[s] = "stopped"
        /\ mapped' = s /\ held' = s /\ built' = [built EXCEPT ![s] = building]
    /\ caller' = "start" /\ building' = Nothing
    /\ UNCHANGED <<durable, catalog, published, requests, chats, proc, bounds>>

\* ensure_running takes startup_lock and sets STARTING.
BeginStart ==
    /\ caller = "start" /\ proc[held] # "starting"
    /\ IF proc[held] = "running"
       THEN caller' = "idle" /\ held' = None /\ UNCHANGED proc
       ELSE caller' = "spawn" /\ proc' = [proc EXCEPT ![held] = "starting"] /\ UNCHANGED held
    /\ UNCHANGED <<durable, catalog, published, requests, chats, mapped, built, building, bounds>>

\* The process starts from the definition the session captured, if its binary
\* is there.
Spawn ==
    /\ caller = "spawn" /\ caller' = "idle" /\ held' = None
    /\ proc' = [proc EXCEPT ![held] = IF OnDisk(built[held], files) THEN "running" ELSE "stopped"]
    /\ UNCHANGED <<durable, catalog, published, requests, chats, mapped, built, building, bounds>>

AgentStops(s) ==
    /\ proc[s] = "running" /\ proc' = [proc EXCEPT ![s] = "stopped"]
    /\ UNCHANGED <<durable, catalog, published, requests, chats, mapped, built, caller, held,
                   building, bounds>>

-----------------------------------------------------------------------------
\* A crash and load_persisted: the catalog is projected from the rows, with
\* the availability probed now.
Restart ==
    /\ restarts < MaxRestart /\ restarts' = restarts + 1
    /\ Projected(row)
    /\ mutex' = None /\ registered' = {}
    /\ at' = [m \in Manager |-> "idle"] /\ op' = [m \in Manager |-> "remove"]
    /\ target' = [m \in Manager |-> 0] /\ previous' = [m \in Manager |-> 0]
    /\ asking' = FALSE /\ mapped' = None /\ proc' = [s \in Session |-> "stopped"]
    /\ built' = [s \in Session |-> Nothing]
    /\ caller' = "idle" /\ held' = None /\ building' = Nothing
    /\ UNCHANGED <<durable, published, named, publications>>

AgNext ==
    \/ \E m \in Manager :
        \/ \E o \in {"install", "update", "create", "edit", "remove"} : Request(m, o)
        \/ Locks(m) \/ Resolve(m) \/ Fails(m) \/ Clear(m) \/ Place(m)
        \/ WriteRow(m) \/ WriteEntry(m) \/ Look(m) \/ DropPrevious(m) \/ Settle(m) \/ Report(m)
        \/ Retire(m) \/ RetireEntry(m) \/ Delete(m) \/ DeleteEntry(m) \/ RemoveFiles(m)
    \/ Publish \/ Browse
    \/ AskForChat \/ InsertChat \/ DeleteChat
    \/ FindSession \/ InsertSession \/ BeginStart \/ Spawn
    \/ \E s \in Session : AgentStops(s)
    \/ Restart

-----------------------------------------------------------------------------
AgTypeOK ==
    /\ row \in Definition /\ entry \in Definition /\ usable \in BOOLEAN
    /\ files \subseteq Version /\ published \in Version /\ cached \in Version \cup {0}
    /\ mutex \in Manager \cup {None} /\ registered \subseteq Manager
    /\ at \in [Manager -> {"idle", "queued", "resolve", "fetch", "place", "row", "entry",
                           "look", "drop", "settle", "report", "retire", "retire_entry",
                           "delete", "delete_entry", "files"}]
    /\ op \in [Manager -> {"install", "update", "create", "edit", "remove"}]
    /\ target \in [Manager -> Version \cup {0}] /\ previous \in [Manager -> Version \cup {0}]
    /\ named \in BOOLEAN /\ asking \in BOOLEAN
    /\ mapped \in Session \cup {None} /\ built \in [Session -> Definition]
    /\ proc \in [Session -> {"stopped", "starting", "running"}]
    /\ caller \in {"idle", "build", "start", "spawn"} /\ held \in Session \cup {None}
    /\ building \in Definition
    /\ publications \in 0..MaxPublish /\ restarts \in 0..MaxRestart

\* What the catalog offers can be started: the directory of the version it
\* names is there at every moment of every install, update, removal and crash.
\* The files of the previous version are removed after mutation_lock is
\* released; the running operation alone keeps another one from installing
\* into that directory (service/agents.rs:142, manager.rs:666).
OfferedIsOnDisk == usable => OnDisk(entry, files)

\* Outside a mutation the catalog that sessions read and the rows that a
\* restart reads define the same agent (manager.rs:557-565, 666-669, 708-735).
CatalogIsStore == mutex = None => entry = row

\* What is offered is what is recorded and on disk (agents/manager.rs:557-735).
OfferedIsInstalled == AgTypeOK /\ CatalogIsStore /\ OfferedIsOnDisk
=============================================================================
