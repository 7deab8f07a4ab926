--------------------------- MODULE AgentOperations ---------------------------
(***************************************************************************)
(* The installs and updates that run in the background                     *)
(* (agents/operations.rs, service/agents.rs) and the page that follows     *)
(* them (frontend, state/agent.store.ts). The hub keeps an operation in    *)
(* memory, for a while after its end; the page asks every 100 ms for each  *)
(* one it shows. Answers of the hub may be old when the page takes them.   *)
(*                                                                         *)
(* The ids of operations are fresh, so `Operation` bounds how many there   *)
(* ever are. What an operation tells of its progress is left out.          *)
(***************************************************************************)
EXTENDS Naturals, FiniteSets

CONSTANTS
    Operation,    \* ids of operations, in the order of their start
    Agent,        \* agent ids, all of one entry of the registry
    Registry,     \* that entry
    User,         \* loads of the catalog that no poll waits for
    NoOperation,
    MaxTerminal,  \* MAX_TERMINAL_OPERATIONS
    Retention,    \* TERMINAL_RETENTION_SECS, in ticks
    MaxTicks      \* bound: ticks of the clock

State == {"running", "succeeded", "failed"}
Key == Agent \cup {Registry}
Load == User \cup Operation
NotListed == {NoOperation}

ASSUME OperationsAssumption ==
    /\ MaxTerminal \in Nat /\ Retention \in Nat /\ MaxTicks \in Nat
    /\ Operation \subseteq Nat /\ Registry \notin Agent
    /\ NoOperation \notin Operation /\ NoOperation \notin State
    /\ User \cap Operation = {}

VARIABLES
    agentOf,    \* agentOf[o]: the agent that o installs or updates
    begun,      \* the operations that have been registered
    status,     \* status[o], in the Arc that its task and the map share
    completed,  \* completed[o]: when it ended
    kept,       \* the operations in the map
    clock,
    starting,   \* operations whose start the hub has yet to answer to the page
    byId,       \* byId[o]: what the page last heard of o, NoOperation if it shows nothing
    byKey,      \* byKey[k]: the operation it shows for an agent or an entry
    poll,       \* poll[o]: the next step of the page's poll of o
    answer,     \* answer[o]: what the hub has answered it
    listed      \* listed[l]: what ran when the hub answered a load of the catalog

operations == <<agentOf, begun, status, completed, kept, clock>>
shown == <<byId, byKey>>
polls == <<poll, answer>>
opVars == <<operations, starting, shown, polls, listed>>

OpInit ==
    /\ agentOf \in [Operation -> Agent] /\ begun = {} /\ status = [o \in Operation |-> "running"]
    /\ completed = [o \in Operation |-> 0] /\ kept = {} /\ clock = 0
    /\ starting = {}
    /\ byId = [o \in Operation |-> NoOperation] /\ byKey = [k \in Key |-> NoOperation]
    /\ poll = [o \in Operation |-> "none"] /\ answer = [o \in Operation |-> NoOperation]
    /\ listed = [l \in Load |-> NotListed]

-----------------------------------------------------------------------------
(* The hub                                                                 *)

Running(o) == o \in begun /\ status[o] = "running"

\* prune_locked, first pass.
Expired == {o \in kept : status[o] # "running" /\ clock >= completed[o] + Retention}

\* Second pass: the oldest go; of those that ended together, any.
Surplus ==
    LET ended == {o \in kept \ Expired : status[o] # "running"} IN
    {S \in SUBSET ended :
        /\ Cardinality(ended \ S) =
            IF Cardinality(ended) > MaxTerminal THEN MaxTerminal ELSE Cardinality(ended)
        /\ \A o \in S, other \in ended \ S : completed[o] <= completed[other]}

Pruned == {kept \ (Expired \cup S) : S \in Surplus}

\* register: one operation of an agent at a time.
Conflict(o, left) == \E other \in left : agentOf[other] = agentOf[o] /\ Running(other)

\* install_registry_agent, update_registry_agent: a page may have asked, or another
\* client.
RegisterOperation(o) ==
    /\ o \notin begun /\ \A other \in Operation : other < o => other \in begun
    /\ \E left \in Pruned :
        IF Conflict(o, left)
        THEN kept' = left /\ UNCHANGED <<begun, starting>>
        ELSE /\ kept' = left \cup {o} /\ begun' = begun \cup {o}
             /\ starting' \in {starting, starting \cup {o}}
    /\ UNCHANGED <<agentOf, status, completed, clock, shown, polls, listed>>

\* succeed, fail.
OutcomeIs(o, how) ==
    /\ Running(o)
    /\ status' = [status EXCEPT ![o] = how]
    /\ completed' = [completed EXCEPT ![o] = clock]

\* The task of an install or update, whose Arc outlives the map's.
EndOperation(o) ==
    /\ \E how \in State \ {"running"} : OutcomeIs(o, how)
    /\ UNCHANGED <<agentOf, begun, kept, clock, starting, shown, polls, listed>>

Tick ==
    /\ clock < MaxTicks /\ clock' = clock + 1
    /\ UNCHANGED <<agentOf, begun, status, completed, kept, starting, shown, polls, listed>>

\* get, for a poll: no answer is 404.
Get(o) ==
    /\ poll[o] = "ask"
    /\ kept' \in Pruned
    /\ answer' = [answer EXCEPT ![o] = IF o \in kept' THEN status[o] ELSE NoOperation]
    /\ poll' = [poll EXCEPT ![o] = "read"]
    /\ UNCHANGED <<agentOf, begun, status, completed, clock, starting, shown, listed>>

\* list, for a load by the user or one that a poll waits for: the page takes the
\* operations that run.
List(l) ==
    /\ listed[l] = NotListed /\ (l \in Operation => poll[l] = "load")
    /\ kept' \in Pruned
    /\ listed' = [listed EXCEPT ![l] = {o \in kept' : Running(o)}]
    /\ UNCHANGED <<agentOf, begun, status, completed, clock, starting, shown, polls>>

-----------------------------------------------------------------------------
(* What the page shows                                                     *)

KeysOf(o) == {agentOf[o], Registry}

\* recordOperation.
RecordOperation(o, s) ==
    /\ byId' = [byId EXCEPT ![o] = s]
    /\ byKey' = [k \in Key |-> IF k \in KeysOf(o) THEN o ELSE byKey[k]]

\* clearOperation: a key that shows another operation keeps it.
ClearOperation(o) ==
    /\ byId' = [byId EXCEPT ![o] = NoOperation]
    /\ byKey' = [k \in Key |-> IF byKey[k] = o THEN NoOperation ELSE byKey[k]]

\* waitForOperation: one poll per operation.
Await(S) == poll' = [o \in Operation |-> IF o \in S /\ poll[o] = "none" THEN "ask" ELSE poll[o]]

\* installRegistryAgent, updateAgent: the hub answers with an operation that runs.
StartAnswered(o) ==
    /\ o \in starting /\ starting' = starting \ {o}
    /\ RecordOperation(o, "running") /\ Await({o})
    /\ UNCHANGED <<operations, answer, listed>>

StartLost(o) ==
    /\ o \in starting /\ starting' = starting \ {o}
    /\ UNCHANGED <<operations, shown, polls, listed>>

-----------------------------------------------------------------------------
(* pollOperation                                                           *)

\* Still running: again after the interval.
StillRuns(o) ==
    /\ answer[o] = "running"
    /\ RecordOperation(o, "running") /\ poll' = [poll EXCEPT ![o] = "ask"]
    /\ UNCHANGED listed

\* Success is shown until the catalog is loaded again.
Succeeded(o) ==
    /\ answer[o] = "succeeded"
    /\ RecordOperation(o, "succeeded") /\ poll' = [poll EXCEPT ![o] = "load"]
    /\ UNCHANGED listed

\* recordOperation, which takes the keys, and clearOperation in one go.
Failed(o) ==
    /\ answer[o] = "failed"
    /\ byId' = [byId EXCEPT ![o] = NoOperation]
    /\ byKey' = [k \in Key |-> IF k \in KeysOf(o) THEN NoOperation ELSE byKey[k]]
    /\ poll' = [poll EXCEPT ![o] = "close"]
    /\ UNCHANGED listed

\* The poll throws and leaves what the page shows to waitForOperation.
Missing(o) ==
    /\ answer[o] = NoOperation
    /\ poll' = [poll EXCEPT ![o] = "close"]
    /\ UNCHANGED <<shown, listed>>

ReadAnswer(o) ==
    /\ poll[o] = "read" /\ answer' = [answer EXCEPT ![o] = NoOperation]
    /\ StillRuns(o) \/ Succeeded(o) \/ Failed(o) \/ Missing(o)
    /\ UNCHANGED <<operations, starting>>

\* The request for an operation fails on its way.
PollBreaks(o) ==
    /\ poll[o] = "ask" /\ poll' = [poll EXCEPT ![o] = "close"]
    /\ UNCHANGED <<operations, starting, shown, answer, listed>>

\* loadRegistry, after loadInstalled.
Refreshed(o) ==
    /\ poll[o] = "refresh" /\ poll' = [poll EXCEPT ![o] = "close"]
    /\ ClearOperation(o)
    /\ UNCHANGED <<operations, starting, answer, listed>>

\* Fault: the poll alone clears what it recorded.
CloseLeaving(o) ==
    /\ poll[o] = "close" /\ poll' = [poll EXCEPT ![o] = "none"]
    /\ UNCHANGED <<operations, starting, shown, answer, listed>>

\* `finally` of waitForOperation, in a later microtask.
Close(o) ==
    /\ poll[o] = "close" /\ poll' = [poll EXCEPT ![o] = "none"]
    /\ IF byId[o] # NoOperation THEN ClearOperation(o) ELSE UNCHANGED shown
    /\ UNCHANGED <<operations, starting, answer, listed>>

-----------------------------------------------------------------------------
(* loadOperations, at the end of loadInstalled                             *)

\* The poll that waits for this load goes on; what ran is polled.
Loaded(l) ==
    /\ listed' = [listed EXCEPT ![l] = NotListed]
    /\ poll' = [o \in Operation |->
                    IF o = l THEN "refresh"
                    ELSE IF o \in listed[l] /\ poll[o] = "none" THEN "ask" ELSE poll[o]]

\* It forgets what was shown and records what ran, the latest first: of several
\* operations of a key the first that began stays.
LoadOperations(l) ==
    /\ listed[l] # NotListed
    /\ byId' = [o \in Operation |-> IF o \in listed[l] THEN "running" ELSE NoOperation]
    /\ byKey' = [k \in Key |->
                    LET S == {o \in listed[l] : k \in KeysOf(o)} IN
                    IF S = {} THEN NoOperation ELSE CHOOSE o \in S : \A other \in S : o <= other]
    /\ Loaded(l)
    /\ UNCHANGED <<operations, starting, answer>>

\* The list does not arrive: what is shown stays.
LoadFails(o) ==
    /\ poll[o] = "load" /\ listed[o] = NotListed
    /\ poll' = [poll EXCEPT ![o] = "refresh"]
    /\ UNCHANGED <<operations, starting, shown, answer, listed>>

-----------------------------------------------------------------------------
OpNext ==
    \/ \E o \in Operation :
        \/ RegisterOperation(o) \/ EndOperation(o) \/ Get(o) \/ StartAnswered(o) \/ StartLost(o)
        \/ ReadAnswer(o) \/ PollBreaks(o) \/ LoadFails(o) \/ Refreshed(o)
        \/ Close(o)
    \/ \E l \in Load : List(l) \/ LoadOperations(l)
    \/ Tick

-----------------------------------------------------------------------------
OpTypeOK ==
    /\ agentOf \in [Operation -> Agent] /\ begun \subseteq Operation
    /\ status \in [Operation -> State]
    /\ completed \in [Operation -> 0..MaxTicks] /\ kept \subseteq Operation
    /\ clock \in 0..MaxTicks /\ starting \subseteq Operation
    /\ byId \in [Operation -> State \cup {NoOperation}] /\ byKey \in [Key -> Operation \cup {NoOperation}]
    /\ poll \in [Operation -> {"none", "ask", "read", "load", "refresh", "close"}]
    /\ answer \in [Operation -> State \cup {NoOperation}]
    /\ listed \in [Load -> (SUBSET Operation) \cup {NotListed}]

\* What the page shows for an agent or an entry it is asking the hub about, so that
\* the button it disables comes back, however old the answers and lists are that it
\* takes and in whatever order (state/agent.store.ts:82-100, 152-199).
BusyIsPolled ==
    \A k \in Key :
        byKey[k] # NoOperation =>
            byId[byKey[k]] # NoOperation /\ poll[byKey[k]] # "none" /\ k \in KeysOf(byKey[k])

\* A poll finds an operation that runs, and one that ended until its time is over or
\* as many others ended no sooner (agents/operations.rs:282-309).
KeptForItsTime ==
    \A o \in Operation :
        (o \in begun /\ o \notin kept) =>
            /\ status[o] # "running"
            /\ \/ clock >= completed[o] + Retention
               \/ Cardinality({other \in begun \ {o} :
                    status[other] # "running" /\ completed[other] >= completed[o]}) >= MaxTerminal

\* No agent has two operations that run (agents/operations.rs:225-251).
OneOperation ==
    \A o, other \in Operation :
        Running(o) /\ Running(other) /\ agentOf[o] = agentOf[other] => o = other

\* An operation is found while it matters and its page asks until it is over
\* (agents/operations.rs, state/agent.store.ts).
OperationsFollowed == OpTypeOK /\ BusyIsPolled /\ KeptForItsTime /\ OneOperation
=============================================================================
