------------------------------ MODULE LaunchEnv ------------------------------
(***************************************************************************)
(* The environment each process of an agent starts with: the chat's agent  *)
(* (session/mod.rs), the process that authenticates and the login in a     *)
(* terminal (auth/service.rs), and the agent's terminals; built from the   *)
(* server's own environment, direnv, the definition, the variables that    *)
(* the start-up put aside, and the user's overrides (workspace_env.rs,     *)
(* store/agent_env.rs). An environment is a function from names to the     *)
(* place the value came from.                                              *)
(***************************************************************************)
EXTENDS Naturals, Sequences, FiniteSets, Functions

CONSTANTS
    Agent, Other,   \* the agent that is started and one more, as origins of values
    Name,
    SecretVars,   \* --secret-env-vars
    MaxVars,      \* MAX_AGENT_ENV_VARS
    Compat,       \* names that the defaults for the agent's registry id set
    Path          \* the name PATH

ASSUME LaunchAssumption ==
    /\ IsFiniteSet(Name) /\ Compat \subseteq Name /\ MaxVars \in Nat
    /\ Other \notin {Agent, "host", "direnv", "launch", "compat", "none"}

VARIABLES
    host,       \* the environment of the server
    stash,      \* SessionManager::secret_env
    served,     \* start-up is over
    diff,       \* what direnv sets and unsets in the workspace
    launch,     \* the definition: [env, pass]
    overrides,  \* overrides[a]: the rows of agent_env_overrides
    last        \* the process started last, or "edited"

leVars == <<host, stash, served, diff, launch, overrides, last>>

From(origin, names) == [n \in names |-> origin]
Without(env, names) == Restrict(env, DOMAIN env \ names)

\* The names of both, with f's value where f has one.
Above(f, g) == [n \in DOMAIN f \cup DOMAIN g |-> IF n \in DOMAIN f THEN f[n] ELSE g[n]]
Origin == {"host", "direnv", "launch", "compat", "method", "request", Agent, Other}
Env == UNION {[d -> Origin] : d \in SUBSET Name}

LeTypeOK ==
    /\ host \in Env /\ stash \in Env /\ overrides \in [{Agent, Other} -> Env]
    /\ launch.env \in Env /\ launch.pass \subseteq Name
    /\ "env" \in DOMAIN last => last.env \in Env

LeInit ==
    /\ \E d \in SUBSET Name : host = From("host", d)
    /\ stash = From("host", {}) /\ served = FALSE
    /\ \E d \in SUBSET Name : diff \in [d -> {"direnv", "unset"}]
    /\ launch \in {[env |-> From("launch", d), pass |-> q] : d, q \in SUBSET Name}
    /\ overrides = [a \in {Agent, Other} |-> From(a, IF a = Other THEN Name ELSE {})]
    /\ last = [is |-> "none"]

\* take_secret_env, before any process is started.
TakeSecrets ==
    /\ ~served /\ served' = TRUE
    /\ stash' = Restrict(host, SecretVars \cap DOMAIN host)
    /\ host' = Without(host, SecretVars)
    /\ UNCHANGED <<diff, launch, overrides, last>>

-----------------------------------------------------------------------------
(* The layers                                                              *)

\* resolve_workspace_env: direnv changes the environment that the server has.
WorkspaceEnv ==
    Above(From("direnv", {n \in DOMAIN diff : diff[n] = "direnv"}), Without(host, DOMAIN diff))

Passed == Restrict(stash, launch.pass \cap DOMAIN stash)

\* Fault: what was put aside is removed before the definition's values come in.
ScrubFirst(base, over) ==
    Above(over, Above(Passed, Above(launch.env, Without(base, DOMAIN stash))))

\* resolve_agent_env_with_overrides.
Resolve(base, over) ==
    Above(over, Above(Passed, Without(Above(launch.env, base), DOMAIN stash)))

ChatEnv == Resolve(WorkspaceEnv, overrides[Agent])

\* agent_env of the authentication service: defaults below the user's overrides.
AuthEnv(scope) ==
    Resolve(host, Above(overrides[Agent], From("compat", IF scope = "auth" THEN Compat ELSE {})))

-----------------------------------------------------------------------------
(* Processes                                                               *)

\* Bound: after each edit one process is started, and a terminal of it.
Unstarted == last.is \in {"none", "edited"}

Launches(process) ==
    /\ served /\ last' = process
    /\ UNCHANGED <<host, stash, served, diff, launch, overrides>>

StartChat == Unstarted /\ Launches([is |-> "chat", env |-> ChatEnv])
StartProbe == Unstarted /\ Launches([is |-> "probe", env |-> AuthEnv("auth")])

\* terminal_command: the method's environment over all of it.
StartLogin ==
    Unstarted /\ \E d \in SUBSET Name :
        Launches([is |-> "login", env |-> Above(From("method", d), AuthEnv("terminal")), own |-> d])

\* merge_terminal_env: a terminal has the environment its agent was started with.
StartTerminal ==
    /\ last.is = "chat"
    /\ \E d \in SUBSET Name :
        Launches([is |-> "terminal", env |-> Above(From("request", d), last.env), own |-> d])

\* What an install directory may hold under a name: nothing, a link that leads out
\* of it, a link to a program of another name, a directory, a file that cannot be
\* executed, or the program.
Entry == {"missing", "outside", "renamed", "directory", "data", "program"}

\* resolve_legacy_program and resolve_inside_install_dir, for a command that is an
\* absolute path, a name, or a relative path. `finds`: the PATHs that have the name.
Program(command, env, finds, entry) ==
    IF command = "relative" THEN "refused"
    ELSE IF \/ command = "absolute" \/ entry = "no directory"
            \/ Path \in DOMAIN env /\ env[Path] \in finds
    THEN "advertised"
    ELSE IF entry = "program" THEN "own" ELSE "refused"

\* legacy_terminal_command_for_agent.
StartLegacyLogin ==
    LET env == AuthEnv("terminal") IN
    Unstarted /\
    \E command \in {"absolute", "name", "relative"}, found \in BOOLEAN,
       entry \in Entry \cup {"no directory"} :
        LET finds == IF found /\ Path \in DOMAIN env THEN {env[Path]} ELSE {}
            program == Program(command, env, finds, entry)
        IN /\ program # "refused"
           /\ Launches([is |-> "legacy", env |-> env, command |-> command,
                      program |-> program, found |-> found, entry |-> entry])

-----------------------------------------------------------------------------
(* apply_edits                                                             *)

\* "malformed": an unusable name, a value that should not be there, or none.
Edits == [action : {"replace", "keep", "remove"}, name : Name] \cup {[action |-> "malformed"]}

RefusesEdit(edit, rows) ==
    \/ edit.action = "malformed"
    \/ edit.action = "keep" /\ edit.name \notin DOMAIN rows
    \/ /\ edit.action = "replace" /\ edit.name \notin DOMAIN rows
       /\ Cardinality(DOMAIN rows) >= MaxVars

AfterEdit(edit, rows) ==
    CASE edit.action = "replace" -> Above(From(Agent, {edit.name}), rows)
      [] edit.action = "remove" -> Without(rows, {edit.name})
      [] OTHER -> rows

Edited(done, edit) ==
    IF ~done.ok \/ RefusesEdit(edit, done.rows) THEN [done EXCEPT !.ok = FALSE]
    ELSE [done EXCEPT !.rows = AfterEdit(edit, @)]

\* One edit after another up to the first that is refused. What came before it
\* stays in the table. Bound: two edits.
EditOverrides ==
    /\ served /\ Unstarted
    /\ \E first, second \in Edits :
        overrides' = [overrides EXCEPT ![Agent] =
            Edited(Edited([ok |-> TRUE, rows |-> @], first), second).rows]
    /\ last' = [is |-> "edited"]
    /\ UNCHANGED <<host, stash, served, diff, launch>>

LeNext ==
    \/ TakeSecrets \/ StartChat \/ StartProbe \/ StartLogin \/ StartTerminal
    \/ StartLegacyLogin \/ EditOverrides

-----------------------------------------------------------------------------
\* The names that the process itself was given values for, above every layer.
Given == IF "own" \in DOMAIN last THEN last.own ELSE {}

\* Whatever process an agent is started in, a variable that was put aside has the
\* server's value if the definition lists it, the user's override if there is one,
\* and no value from direnv or the definition; an override comes before all but the
\* process's own, and nothing comes from another agent (workspace_env.rs:428-467).
LayersHold ==
    "env" \in DOMAIN last =>
        \A n \in Name \ Given :
            LET value == IF n \in DOMAIN last.env THEN last.env[n] ELSE "none" IN
            /\ n \in DOMAIN overrides[Agent] => value = Agent
            /\ (n \notin DOMAIN overrides[Agent] /\ n \in DOMAIN stash) =>
                value = IF last.is = "probe" /\ n \in Compat THEN "compat"
                        ELSE IF n \in launch.pass THEN "host" ELSE "none"
            /\ value # Other

\* An agent logs in with what its chats run with: the two differ only where direnv
\* or a default for headless login says so (auth/service.rs:1528-1559).
LoginIsTheChats ==
    last.is \in {"probe", "legacy"} =>
        \A n \in Name \ (DOMAIN diff \cup Compat) :
            /\ n \in DOMAIN last.env <=> n \in DOMAIN ChatEnv
            /\ n \in DOMAIN ChatEnv => last.env[n] = ChatEnv[n]

\* A login command is run as it was advertised, unless no PATH has it; then it is
\* the program of that name in the agent's own directory (auth/service.rs:1666-1741).
OwnProgramOnly ==
    (last.is = "legacy" /\ last.program = "own") =>
        /\ last.command = "name" /\ last.entry = "program"
        /\ Path \in DOMAIN last.env => ~last.found

\* Every process of an agent starts with what its layers give it, an agent's login with
\* what its chats have, and the overrides stay within their limit
\* (session/mod.rs, auth/service.rs, store/agent_env.rs).
EnvsHold ==
    /\ LeTypeOK /\ LayersHold /\ LoginIsTheChats /\ OwnProgramOnly
    /\ Cardinality(DOMAIN overrides[Agent]) <= MaxVars
=============================================================================
