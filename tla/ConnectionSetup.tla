--------------------------- MODULE ConnectionSetup ---------------------------
(***************************************************************************)
(* What a chat is connected with: its MCP servers, ordered, and the other  *)
(* projects its agent may work in (service/chats.rs, store/                *)
(* session_config.rs). Every request reads rows first and writes later,    *)
(* under turn_guard but from what it read; each write holds SQLite's       *)
(* mutex, and only the reordering is one transaction.                      *)
(*                                                                         *)
(* What a server's row says is left out but for its two positions: `at`,  *)
(* the column the list is ordered by, and `shown`, in the row's JSON,      *)
(* which is what a page sees.                                              *)
(***************************************************************************)
EXTENDS Integers, FiniteSets, Sequences, FiniteSetsExt, SequencesExt

CONSTANTS
    Editor,   \* requests
    Server,   \* ids of MCP servers
    Other,    \* the projects besides the chat's own
    NoServer,
    NoProject

ASSUME SetupAssumption == IsFiniteSet(Server) /\ NoServer \notin Server /\ NoProject \notin Other

VARIABLES
    at,       \* at[s]: the column, -1 without a row
    shown,    \* shown[s]: the position in the JSON
    roots,    \* the chat's additional roots
    projects, \* registered projects among Other
    turn,     \* a turn holds turn_guard
    todo      \* todo[e]: what the request has read and will write

setup == <<at, shown, roots, projects>>
csVars == <<at, shown, roots, projects, turn, todo>>

Idle == [step |-> "idle", server |-> NoServer, pos |-> 0, want |-> {}, gone |-> NoProject]
Rows == {s \in Server : at[s] >= 0}

\* ORDER BY position: how many of some rows come before s.
Rank(some, s) == Cardinality({t \in some : at[t] < at[s]})

CsInit ==
    /\ at = [s \in Server |-> -1] /\ shown = [s \in Server |-> 0]
    /\ roots = {} /\ projects = Other
    /\ turn = FALSE /\ todo = [e \in Editor |-> Idle]

Reads(e, r) ==
    /\ todo[e] = Idle /\ todo' = [todo EXCEPT ![e] = r]
    /\ UNCHANGED <<setup, turn>>
Finishes(e) == todo' = [todo EXCEPT ![e] = Idle] /\ UNCHANGED turn

-----------------------------------------------------------------------------
(* The requests read                                                       *)

\* create_mcp_server: the id is new, the position the number of servers.
ReadCreate(e) ==
    \E s \in Server :
        /\ at[s] < 0 /\ \A other \in Editor : todo[other].server # s
        /\ Reads(e, [Idle EXCEPT !.step = "create", !.server = s, !.pos = Cardinality(Rows)])

\* edit_mcp_server, which carries the JSON position along.
ReadEdit(e) ==
    \E s \in Rows : Reads(e, [Idle EXCEPT !.step = "edit", !.server = s, !.pos = shown[s]])

\* set_additional_roots looks every project up.
ReadRoots(e) == \E want \in SUBSET projects : Reads(e, [Idle EXCEPT !.step = "roots", !.want = want])

\* delete_project of another project: no other chat may have it as a root.
ReadDeletion(e) == \E p \in projects \ roots : Reads(e, [Idle EXCEPT !.step = "project", !.gone = p])

-----------------------------------------------------------------------------
(* change_connection_config: refused during a turn, or of an agent that    *)
(* cannot restore its session; else the edit                               *)

Refused(e) ==
    /\ todo[e].step \in {"create", "edit", "roots"} /\ Finishes(e)
    /\ UNCHANGED setup

\* insert_mcp_server; UNIQUE(chat_id, position) refuses a position that is taken.
Insert(e) ==
    /\ todo[e].step = "create" /\ ~turn /\ Finishes(e)
    /\ LET s == todo[e].server  n == todo[e].pos IN
       IF \E t \in Rows : at[t] = n
       THEN UNCHANGED setup
       ELSE /\ at' = [at EXCEPT ![s] = n] /\ shown' = [shown EXCEPT ![s] = n]
            /\ UNCHANGED <<roots, projects>>

\* update_mcp_server writes the JSON, never the column; NotFound without a row.
Update(e) ==
    /\ todo[e].step = "edit" /\ ~turn /\ Finishes(e)
    /\ LET s == todo[e].server IN
       shown' = IF s \in Rows THEN [shown EXCEPT ![s] = todo[e].pos] ELSE shown
    /\ UNCHANGED <<at, roots, projects>>

\* The first n of the rows that are left at their own indexes, the others where they are.
Renumbered(left, n) ==
    [s \in Server |-> IF s \notin left THEN -1 ELSE IF Rank(left, s) < n THEN Rank(left, s) ELSE at[s]]

\* delete_mcp_server: the row, then a new column for each that is left.
Delete(e) ==
    /\ todo[e] = Idle /\ ~turn /\ todo' = todo /\ UNCHANGED turn
    /\ \E s \in Rows :
        /\ at' = Renumbered(Rows \ {s}, Cardinality(Rows) - 1)
        /\ shown' = [shown EXCEPT ![s] = 0]
    /\ UNCHANGED <<roots, projects>>

\* No transaction: the process may die with some columns renumbered.
DieInDelete ==
    /\ ~turn
    /\ \E s \in Rows :
        /\ \E n \in 0 .. Cardinality(Rows) - 1 : at' = Renumbered(Rows \ {s}, n)
        /\ shown' = [shown EXCEPT ![s] = 0]
    /\ todo' = [e \in Editor |-> Idle] /\ turn' = FALSE
    /\ UNCHANGED <<roots, projects>>

\* Fault: the range of the first pass starts behind the last index.
TempBaseOfCount(ids) == Len(ids)

\* The positions of the first pass lie behind every JSON position and every index.
TempBase(ids) == Max({shown[ids[i]] : i \in DOMAIN ids} \cup {-1}) + Len(ids) + 1

\* The column after n updates of mcp_reorder: first a range nobody is in, then the
\* requested positions.
AfterUpdates(ids, n) ==
    [s \in Server |->
        IF at[s] < 0 THEN -1
        ELSE LET i == CHOOSE j \in DOMAIN ids : ids[j] = s
             IN IF n >= Len(ids) + i THEN i - 1
                ELSE IF n >= i THEN TempBase(ids) + i - 1 ELSE at[s]]

Unique(column) == \A s, t \in Rows : column[s] = column[t] => s = t
OrderFits(ids) == \A n \in 1 .. 2 * Len(ids) : Unique(AfterUpdates(ids, n))

\* reorder_mcp_servers: exactly the servers there are, in one transaction that
\* UNIQUE would abort.
Reorder(e) ==
    /\ todo[e] = Idle /\ ~turn /\ todo' = todo /\ UNCHANGED turn
    /\ \E ids \in SetToSeqs(Rows) :
        at' = IF OrderFits(ids) THEN AfterUpdates(ids, 2 * Len(ids)) ELSE at
    /\ UNCHANGED <<shown, roots, projects>>

\* replace_additional_roots; the foreign key refuses a project that is gone.
Known(want) == want \subseteq projects
ReplaceRoots(e) ==
    /\ todo[e].step = "roots" /\ ~turn /\ Finishes(e)
    /\ roots' = IF Known(todo[e].want) THEN todo[e].want ELSE roots
    /\ UNCHANGED <<at, shown, projects>>

\* delete_project at last, its chats gone: ON DELETE RESTRICT.
Unreferenced(p) == p \notin roots
DropProject(e) ==
    /\ todo[e].step = "project" /\ Finishes(e)
    /\ projects' = IF Unreferenced(todo[e].gone) THEN projects \ {todo[e].gone} ELSE projects
    /\ UNCHANGED <<at, shown, roots>>

GuardTaken == ~turn /\ turn' = TRUE /\ UNCHANGED <<setup, todo>>
GuardReleased == turn /\ turn' = FALSE /\ UNCHANGED <<setup, todo>>

CsNext ==
    \/ \E e \in Editor :
        \/ ReadCreate(e) \/ ReadEdit(e) \/ ReadRoots(e) \/ ReadDeletion(e)
        \/ Refused(e) \/ Insert(e) \/ Update(e) \/ Delete(e) \/ Reorder(e)
        \/ ReplaceRoots(e) \/ DropProject(e)
    \/ DieInDelete \/ GuardTaken \/ GuardReleased

-----------------------------------------------------------------------------
CsTypeOK ==
    /\ at \in [Server -> -1 .. Cardinality(Server)]
    /\ shown \in [Server -> 0 .. Cardinality(Server)]
    /\ roots \subseteq Other /\ projects \subseteq Other
    /\ turn \in BOOLEAN

\* session_config.rs:190-192, "This also keeps UNIQUE(chat_id, position) true
\* throughout the update": any order of the servers can be written, update by
\* update, although a creation that overtook a deletion and a crash amid one
\* leave gaps in the columns and the JSON positions are never renumbered. So it
\* is for up to four servers. With five it takes a reordering and three crashes,
\* each amid a deletion: two rows are left in the columns 3 and 4 with the JSON
\* positions 0 and 1, and the temporary range begins at 4.
ReorderFits == \A ids \in SetToSeqs(Rows) : OrderFits(ids)

\* No root names a project that is gone, whoever was first (projects.rs:63-65,
\* chats.rs:284-322).
RootsAreProjects == roots \subseteq projects

\* Requests that overlap, and a crash between two writes, leave rows the next
\* request can work on (store/session_config.rs, service/chats.rs).
SetupFits == CsTypeOK /\ ReorderFits /\ RootsAreProjects
=============================================================================
