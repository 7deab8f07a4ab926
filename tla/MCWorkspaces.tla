----------------------------- MODULE MCWorkspaces -----------------------------
(***************************************************************************)
(* The workspaces of a project, the registry of one chat's sessions, the   *)
(* environments of the chats and the rules of their directories for TLC.   *)
(* None of them waits for another, so a behaviour moves one of them:       *)
(* `moves`, chosen at the start.                                           *)
(***************************************************************************)
EXTENDS Workspaces, SessionRegistry, EnvrcGrants, WorktreeRules, TLC

CONSTANTS main, dev

VARIABLE moves

MCChoices == {NoWish} \cup {[mode |-> "direct", branch |-> b] : b \in {main, dev}}

Symmetry ==
    Permutations(Worker) \cup Permutations(Chat) \cup Permutations(EnvChat)

vars == <<wsVars, regVars, envVars, wrVars, moves>>

\* What does not move has one initial state.
Starts ==
    /\ WsInit /\ RegInit /\ EnvInit
    /\ moves # "workspaces" => ~edited
    /\ moves # "envrc" => \A c \in EnvChat : file[c] = Absent
    /\ WrInit
    /\ moves # "rules" => world = [is |-> "tree", tree |-> [status |-> {}, cache |-> "file"]]

WorkspaceStep == moves = "workspaces" /\ WsNext /\ UNCHANGED <<regVars, envVars, wrVars, moves>>
RegistryStep == moves = "registry" /\ RegNext /\ UNCHANGED <<wsVars, envVars, wrVars, moves>>
EnvrcStep == moves = "envrc" /\ EnvNext /\ UNCHANGED <<wsVars, regVars, wrVars, moves>>
RuleStep == moves = "rules" /\ WrNext /\ UNCHANGED <<wsVars, regVars, envVars, moves>>

Next == WorkspaceStep \/ RegistryStep \/ EnvrcStep \/ RuleStep

Init == moves \in {"workspaces", "registry", "envrc", "rules"} /\ Starts
Spec == Init /\ [][Next]_vars

\* The registry alone.
RegistrySpec == moves = "registry" /\ Starts /\ [][Next]_vars
=============================================================================
