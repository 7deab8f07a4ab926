------------------------------- MODULE MCAgents -------------------------------
(***************************************************************************)
(* The catalog of agents, an agent under management, its installs as a     *)
(* page follows them, what is known of its authentication and its          *)
(* authentication flows for TLC. None of them waits for another, so a      *)
(* behaviour moves one of them: `moves`, chosen at the start.              *)
(***************************************************************************)
EXTENDS RegistryCache, InstalledAgents, AgentOperations, AuthDiscovery, AuthFlows, TLC

CONSTANTS x, y

VARIABLE moves

Symmetry == Permutations(Manager)

\* What the registry may publish: good documents, one with an entry twice, one of
\* a later major version, and one without an entry that is accepted.
Entry(i, binary, npx, uvx) == [id |-> i, binary |-> binary, npx |-> npx, uvx |-> uvx]
Documents == {
    [major |-> 1, entries |-> <<Entry("a", "here", "pinned", "no"),
                                Entry("b", "elsewhere", "floating", "pinned")>>],
    [major |-> 1, entries |-> <<Entry("a", "elsewhere", "pinned", "no"),
                                Entry("a", "here", "no", "no")>>],
    [major |-> 2, entries |-> <<Entry("a", "here", "no", "no")>>],
    [major |-> 1, entries |-> <<Entry("a", "no", "no", "no"), Entry("b", "here", "no", "no")>>]}

vars == <<rcVars, agVars, opVars, adVars, afVars, moves>>

CatalogStep == moves = "catalog" /\ RcNext /\ UNCHANGED <<agVars, opVars, adVars, afVars, moves>>
AgentStep == moves = "agent" /\ AgNext /\ UNCHANGED <<rcVars, opVars, adVars, afVars, moves>>
OperationStep == moves = "operations" /\ OpNext /\ UNCHANGED <<rcVars, agVars, adVars, afVars, moves>>
DiscoveryStep == moves = "discovery" /\ AdNext /\ UNCHANGED <<rcVars, agVars, opVars, afVars, moves>>
FlowStep == moves = "flows" /\ AfNext /\ UNCHANGED <<rcVars, agVars, opVars, adVars, moves>>

Next == CatalogStep \/ AgentStep \/ OperationStep \/ DiscoveryStep \/ FlowStep

\* What does not move has one initial state. Two operations are of one agent or
\* of two, whichever these are.
Starts ==
    /\ AgInit /\ OpInit /\ AdInit /\ AfInit
    /\ IF moves = "catalog" THEN RcInit
       ELSE RcInit /\ disk = Unread /\ online = CHOOSE d \in Document : TRUE
    /\ agentOf \in IF moves = "operations" THEN {<<x, x>>, <<x, y>>} ELSE {<<x, x>>}

Init == moves \in {"catalog", "agent", "operations", "discovery", "flows"} /\ Starts
Spec == Init /\ [][Next]_vars

\* The flows alone.
FlowSpec == moves = "flows" /\ Starts /\ [][Next]_vars
=============================================================================
