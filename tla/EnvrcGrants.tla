----------------------------- MODULE EnvrcGrants -----------------------------
(***************************************************************************)
(* The .envrc of a workspace (backend/src/workspace_env.rs): direnv loads  *)
(* it for a chat once its content has been allowed. A user approves it for *)
(* one chat, or for the project: the grant then names the content, and     *)
(* other chats of the project allow the same content themselves. The file  *)
(* may change between any two steps.                                       *)
(***************************************************************************)
EXTENDS Naturals, FiniteSets

CONSTANTS
    EnvChat,   \* chats of one project
    Content,   \* fingerprints of the file
    MaxEdit    \* bound: changes of the files

ASSUME EnvrcAssumption == MaxEdit \in Nat

Absent == "absent"
File == Content \cup {Absent}

VARIABLES
    file,      \* file[c]: the .envrc in c's workspace
    allowed,   \* allowed[c]: the contents direnv has been told to allow there
    denied,    \* the workspaces that direnv has been told to deny
    grant,     \* the project's grant
    env,       \* env[c]: what cached_env was loaded from: "none", "plain" or a content
    startAt, startPrint,              \* the start of c's agent, under startup_lock
    approveAt, remember, approvePrint,  \* a request that authorizes c's environment
    reviewed,  \* contents that a user had before them when asking to remember
    edits

envVars == <<file, allowed, denied, grant, env, startAt, startPrint,
             approveAt, remember, approvePrint, reviewed, edits>>
starts == <<startAt, startPrint>>
approvals == <<approveAt, remember, approvePrint>>
direnv == <<allowed, denied>>

EnvInit ==
    /\ file \in [EnvChat -> File] /\ allowed = [c \in EnvChat |-> {}] /\ denied = {}
    /\ grant = Absent /\ env = [c \in EnvChat |-> "none"]
    /\ startAt = [c \in EnvChat |-> "idle"] /\ startPrint = [c \in EnvChat |-> Absent]
    /\ approveAt = [c \in EnvChat |-> "idle"] /\ remember = [c \in EnvChat |-> FALSE]
    /\ approvePrint = [c \in EnvChat |-> Absent]
    /\ reviewed = {} /\ edits = 0

-----------------------------------------------------------------------------
(* direnv                                                                  *)

Blocked(c) == file[c] # Absent /\ (file[c] \notin allowed[c] \/ c \in denied)

\* direnv export: the environment, or an error that says the file is blocked.
Loaded(c) == IF file[c] = Absent THEN "plain" ELSE file[c]

DirenvAllow(c) ==
    /\ allowed' = [allowed EXCEPT ![c] = @ \cup {file[c]}]
    /\ denied' = denied \ {c}

\* Without a file there is nothing to deny, and the error is dropped.
DirenvDeny(c) ==
    /\ denied' = IF file[c] = Absent THEN denied ELSE denied \cup {c}
    /\ UNCHANGED allowed

-----------------------------------------------------------------------------
(* ensure_running and try_auto_allow_from_project_grant                    *)

StartGoes(c, label) == startAt' = [startAt EXCEPT ![c] = label]

StartEnv(c) ==
    /\ startAt[c] = "idle" /\ env[c] = "none" /\ StartGoes(c, "exporting")
    /\ UNCHANGED <<file, direnv, grant, env, startPrint, approvals, reviewed, edits>>

\* A blocked file is tried again once, after the project's grant.
StartExport(c) ==
    /\ startAt[c] \in {"exporting", "again"}
    /\ IF Blocked(c)
       THEN /\ StartGoes(c, IF startAt[c] = "exporting" THEN "matching" ELSE "idle")
            /\ UNCHANGED env
       ELSE env' = [env EXCEPT ![c] = Loaded(c)] /\ StartGoes(c, "idle")
    /\ UNCHANGED <<file, direnv, grant, startPrint, approvals, reviewed, edits>>

MatchGrant(c) ==
    /\ startAt[c] = "matching"
    /\ IF grant # Absent /\ file[c] = grant
       THEN StartGoes(c, "allowing") /\ startPrint' = [startPrint EXCEPT ![c] = file[c]]
       ELSE StartGoes(c, "idle") /\ UNCHANGED startPrint
    /\ UNCHANGED <<file, direnv, grant, env, approvals, reviewed, edits>>

AutoAllow(c) ==
    /\ startAt[c] = "allowing"
    /\ IF file[c] # Absent THEN DirenvAllow(c) /\ StartGoes(c, "comparing")
                           ELSE StartGoes(c, "idle") /\ UNCHANGED direnv
    /\ UNCHANGED <<file, grant, env, startPrint, approvals, reviewed, edits>>

AutoCompare(c) ==
    /\ startAt[c] = "comparing"
    /\ StartGoes(c, IF file[c] = startPrint[c] THEN "again" ELSE "denying")
    /\ startPrint' = [startPrint EXCEPT ![c] = Absent]
    /\ UNCHANGED <<file, direnv, grant, env, approvals, reviewed, edits>>

AutoDeny(c) ==
    /\ startAt[c] = "denying" /\ DirenvDeny(c) /\ StartGoes(c, "idle")
    /\ UNCHANGED <<file, grant, env, startPrint, approvals, reviewed, edits>>

-----------------------------------------------------------------------------
(* authorize_chat_environment                                              *)

ApproveGoes(c, label) == approveAt' = [approveAt EXCEPT ![c] = label]

\* To be remembered, the file is fingerprinted before direnv is asked.
Authorize(c, keep) ==
    /\ approveAt[c] = "idle" /\ ApproveGoes(c, "allowing")
    /\ remember' = [remember EXCEPT ![c] = keep]
    /\ approvePrint' = [approvePrint EXCEPT ![c] = IF keep THEN file[c] ELSE Absent]
    /\ reviewed' = IF keep THEN reviewed \cup ({file[c]} \ {Absent}) ELSE reviewed
    /\ UNCHANGED <<file, direnv, grant, env, starts, edits>>

ApproveAllow(c) ==
    /\ approveAt[c] = "allowing"
    /\ IF file[c] # Absent
       THEN /\ DirenvAllow(c)
            /\ ApproveGoes(c, IF remember[c] THEN "comparing" ELSE "loading")
       ELSE ApproveGoes(c, "idle") /\ UNCHANGED direnv
    /\ UNCHANGED <<file, grant, env, starts, remember, approvePrint, reviewed, edits>>

\* Fault: the grant is written without looking at the first fingerprint.
SameOrNewer(c) == file[c] # Absent

SameContent(c) == file[c] # Absent /\ file[c] = approvePrint[c]

RememberGrant(c) ==
    /\ approveAt[c] = "comparing"
    /\ IF SameContent(c) THEN grant' = file[c] /\ ApproveGoes(c, "loading")
                         ELSE ApproveGoes(c, "denying") /\ UNCHANGED grant
    /\ approvePrint' = [approvePrint EXCEPT ![c] = Absent]
    /\ remember' = [remember EXCEPT ![c] = FALSE]
    /\ UNCHANGED <<file, direnv, env, starts, reviewed, edits>>

ApproveDeny(c) ==
    /\ approveAt[c] = "denying" /\ DirenvDeny(c) /\ ApproveGoes(c, "idle")
    /\ UNCHANGED <<file, grant, env, starts, remember, approvePrint, reviewed, edits>>

InvalidateEnv(c) ==
    /\ approveAt[c] = "loading" /\ env' = [env EXCEPT ![c] = "none"]
    /\ ApproveGoes(c, "exporting")
    /\ UNCHANGED <<file, direnv, grant, starts, remember, approvePrint, reviewed, edits>>

ApproveExport(c) ==
    /\ approveAt[c] = "exporting" /\ ApproveGoes(c, "idle")
    /\ env' = IF Blocked(c) THEN env ELSE [env EXCEPT ![c] = Loaded(c)]
    /\ UNCHANGED <<file, direnv, grant, starts, remember, approvePrint, reviewed, edits>>

ForgetGrant ==
    /\ grant' = Absent
    /\ UNCHANGED <<file, direnv, env, starts, approvals, reviewed, edits>>

\* Somebody writes or removes the file.
EditFile(c) ==
    /\ edits < MaxEdit /\ edits' = edits + 1
    /\ \E f \in File \ {file[c]} : file' = [file EXCEPT ![c] = f]
    /\ UNCHANGED <<direnv, grant, env, starts, approvals, reviewed>>

EnvNext ==
    \/ \E c \in EnvChat :
        \/ StartEnv(c) \/ StartExport(c) \/ MatchGrant(c)
        \/ AutoAllow(c) \/ AutoCompare(c) \/ AutoDeny(c)
        \/ \E keep \in BOOLEAN : Authorize(c, keep)
        \/ ApproveAllow(c) \/ RememberGrant(c) \/ ApproveDeny(c)
        \/ InvalidateEnv(c) \/ ApproveExport(c) \/ EditFile(c)
    \/ ForgetGrant

EnvSpec == EnvInit /\ [][EnvNext]_envVars

-----------------------------------------------------------------------------
(* Properties                                                              *)

\* The type invariant.
EnvTypeOK ==
    /\ file \in [EnvChat -> File] /\ allowed \in [EnvChat -> SUBSET Content]
    /\ denied \subseteq EnvChat /\ grant \in File
    /\ env \in [EnvChat -> Content \cup {"none", "plain"}]
    /\ startAt \in [EnvChat -> {"idle", "exporting", "matching", "allowing",
                                "comparing", "denying", "again"}]
    /\ approveAt \in [EnvChat -> {"idle", "allowing", "comparing", "denying",
                                  "loading", "exporting"}]
    /\ startPrint \in [EnvChat -> File] /\ approvePrint \in [EnvChat -> File]
    /\ remember \in [EnvChat -> BOOLEAN]
    /\ reviewed \subseteq Content /\ edits \in 0..MaxEdit

\* The project's grant is for content a user had before them when they asked
\* to remember it, however the file changes while direnv is told to allow it.
GrantWasReviewed == grant # Absent => grant \in reviewed
=============================================================================
