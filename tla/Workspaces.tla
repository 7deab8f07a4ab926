----------------------------- MODULE Workspaces -----------------------------
(***************************************************************************)
(* Where chats work (backend/src/workspace, service/chats.rs, projects.rs, *)
(* workspaces.rs and the workspace checks of session/mod.rs): one project  *)
(* in one Git repository, with a primary checkout, a managed branch and    *)
(* worktree per chat, the chat rows, and the requests that create and      *)
(* delete them while chats run and the user works in the same repository.  *)
(*                                                                         *)
(* Every Git command and every transaction is a step of its own; between   *)
(* two of them the user, another request or a crash may act.               *)
(***************************************************************************)
EXTENDS Naturals, FiniteSets

CONSTANTS
    Worker,      \* requests in progress
    Chat,        \* chat ids the store may hand out
    Branch,      \* local branches of the user
    Upstreamed,  \* the branch with an upstream
    Choice,      \* bound: the workspaces the requests ask for
    MaxOutside   \* bound: steps of the user and crashes

Free == "free"
NoBranch == "none"
Detached == "detached"
Wish == [mode : {"managed", "direct"}, branch : Branch \cup {NoBranch}]
NoWish == [mode |-> "managed", branch |-> NoBranch]

ASSUME WorkspacesAssumption ==
    /\ Upstreamed \in Branch /\ MaxOutside \in Nat /\ Choice \subseteq Wish
    /\ Chat # {} /\ Worker \cap Chat = {}
    /\ {Free, "turn", "resume"} \cap (Worker \cup Chat) = {}

VARIABLES
    \* the repository
    tip,       \* tip[c]: the managed branch of c: "none", at its "base", or at the user's "work"
    tree,      \* tree[c]: its worktree: "none", "clean", with "ignored" files, "changed"
    listed,    \* listed[c]: Git's record of that worktree: "no", on its "own" or an "other" branch
    head,      \* the branch of the primary checkout
    edited,    \* the primary checkout has uncommitted changes
    upstream,  \* Upstreamed against its remote: "same", "behind"
    \* the store
    project,   \* the project is registered
    rows,      \* the chats that have a row
    place,     \* place[c]: its workspace row: "none", "managed", or a branch of the primary checkout
    \* the hub
    wsLock,    \* workspace_lock
    guard,     \* the checkout mutex: Free, a chat's turn or a request
    holds,     \* holds[c]: the turn guard of c's session: "free", "turn", "resume" or a request
    admitted,  \* turns whose workspace has been validated
    running,   \* chats with a live agent process
    \* the requests
    pc, on, wish,
    whole, todo,  \* requests that delete the project, and the chats they have yet to delete
    \* what happened
    ids,       \* chat ids handed out
    lost,      \* what the hub destroyed
    drift,     \* turns under which the user switched the primary checkout
    outside    \* steps of the user and crashes so far

repository == <<tip, tree, listed, head, edited, upstream>>
managed == <<tip, tree, listed>>
primary == <<head, edited, upstream>>
store == <<project, rows, place>>
hub == <<wsLock, guard, holds, admitted, running>>
request == <<pc, on, wish, whole, todo>>
past == <<ids, lost, drift, outside>>
wsVars == <<repository, store, hub, request, past>>

WsInit ==
    /\ tip = [c \in Chat |-> "none"] /\ tree = [c \in Chat |-> "none"]
    /\ listed = [c \in Chat |-> "no"]
    /\ head = Upstreamed /\ edited \in BOOLEAN /\ upstream = "same"
    /\ project = TRUE /\ rows = {} /\ place = [c \in Chat |-> "none"]
    /\ wsLock = Free /\ guard = Free /\ holds = [c \in Chat |-> Free]
    /\ admitted = {} /\ running = {}
    /\ pc = [w \in Worker |-> "idle"]
    /\ on \in [Worker -> {CHOOSE c \in Chat : TRUE}]
    /\ wish = [w \in Worker |-> NoWish]
    /\ whole = {} /\ todo = [w \in Worker |-> {}]
    /\ ids = {} /\ lost = {} /\ drift = {}
    /\ outside = 0

-----------------------------------------------------------------------------
Direct == {c \in rows : place[c] \in Branch}

\* ensure_primary_checkout_available: a snapshot, no reservation.
PrimaryAvailable == Direct \cap running = {}

Goto(w, label) == pc' = [pc EXCEPT ![w] = label]

\* The guards of a request go when its future ends.
Released(holder, w) == IF holder = w THEN Free ELSE holder
Ends(w) ==
    /\ Goto(w, "idle")
    /\ wsLock' = Released(wsLock, w) /\ guard' = Released(guard, w)
    /\ holds' = [c \in Chat |-> Released(holds[c], w)]
    /\ whole' = whole \ {w} /\ todo' = [todo EXCEPT ![w] = {}]
    /\ wish' = [wish EXCEPT ![w] = NoWish]
    /\ UNCHANGED <<on, admitted, running>>

-----------------------------------------------------------------------------
(* create_chat_with_workspace                                              *)

CreateRequest(w, choice) ==
    /\ pc[w] = "idle" /\ project
    /\ Goto(w, "locking") /\ wish' = [wish EXCEPT ![w] = choice]
    /\ UNCHANGED <<repository, store, hub, on, whole, todo, past>>

\* Under workspace_lock: inspect, a new chat id, and for the primary checkout
\* the mutex that turns take; all refused requests end here.
\* Fault: the creation does not take the mutex.
CreateUnguarded(w) == wish[w].mode = "managed" => (wish[w].branch = NoBranch => ~edited)

CreateAdmitted(w) ==
    \/ wish[w].mode = "managed" /\ (wish[w].branch = NoBranch => ~edited)
    \/ wish[w].mode = "direct" /\ guard = Free

CreateInspect(w) ==
    /\ pc[w] = "locking" /\ wsLock = Free
    /\ IF CreateAdmitted(w)
       THEN \E c \in Chat \ ids :
              /\ ids' = ids \cup {c} /\ on' = [on EXCEPT ![w] = c]
              /\ wsLock' = w
              /\ guard' = IF wish[w].mode = "direct" THEN w ELSE guard
              /\ Goto(w, IF wish[w].mode = "direct" THEN "preparing" ELSE "branching")
              /\ UNCHANGED <<holds, admitted, running, wish, whole, todo>>
       ELSE Ends(w) /\ UNCHANGED ids
    /\ UNCHANGED <<repository, store, lost, drift, outside>>

\* provision_managed: git branch, or a failure before it.
CreateBranch(w) ==
    /\ pc[w] = "branching"
    /\ \/ tip' = [tip EXCEPT ![on[w]] = "base"] /\ Goto(w, "adding")
          /\ UNCHANGED <<hub, on, wish, whole, todo>>
       \/ Ends(w) /\ UNCHANGED tip
    /\ UNCHANGED <<tree, listed, primary, store, past>>

\* git worktree add; when it fails the branch is rolled back.
AddTree(w) ==
    /\ pc[w] = "adding"
    /\ \/ /\ tip[on[w]] # "none"
          /\ tree' = [tree EXCEPT ![on[w]] = "clean"]
          /\ listed' = [listed EXCEPT ![on[w]] = "own"]
          /\ Goto(w, "checking")
       \/ UNCHANGED <<tree, listed>> /\ Goto(w, "unbranching")
    /\ UNCHANGED <<tip, primary, store, hub, on, wish, whole, todo, past>>

\* The project's subdirectory must exist at the base commit.
CheckSubdir(w) ==
    /\ pc[w] = "checking"
    /\ \/ tree[on[w]] # "none" /\ Goto(w, "inserting")
       \/ Goto(w, "untreeing")
    /\ UNCHANGED <<repository, store, hub, on, wish, whole, todo, past>>

\* The primary checkout, inspected again under the mutex.
Prepare(w) ==
    /\ pc[w] = "preparing"
    /\ LET branch == IF wish[w].branch = NoBranch THEN head ELSE wish[w].branch IN
       IF branch # Detached /\ (branch # head => PrimaryAvailable)
       THEN /\ wish' = [wish EXCEPT ![w].branch = branch] /\ Goto(w, "switching")
            /\ UNCHANGED <<hub, on, whole, todo>>
       ELSE Ends(w)
    /\ UNCHANGED <<repository, store, past>>

\* prepare_direct: an unchanged branch keeps a dirty checkout as it is; a
\* switch needs a clean one.
Switch(w) ==
    /\ pc[w] = "switching"
    /\ IF head = wish[w].branch \/ ~edited
       THEN /\ head' = wish[w].branch /\ Goto(w, "inserting")
            /\ UNCHANGED <<hub, on, wish, whole, todo>>
       ELSE Ends(w) /\ UNCHANGED head
    /\ UNCHANGED <<managed, edited, upstream, store, past>>

\* insert_chat_with_workspace: both rows or none; the project must be there.
InsertRows(w) ==
    /\ pc[w] = "inserting"
    /\ \/ /\ project /\ rows' = rows \cup {on[w]}
          /\ place' = [place EXCEPT ![on[w]] =
                          IF wish[w].mode = "direct" THEN wish[w].branch ELSE "managed"]
          /\ Ends(w)
       \/ /\ UNCHANGED <<rows, place>>
          /\ IF wish[w].mode = "managed"
             THEN Goto(w, "untreeing") /\ UNCHANGED <<hub, on, wish, whole, todo>>
             ELSE Ends(w)
    /\ UNCHANGED <<repository, project, past>>

-----------------------------------------------------------------------------
(* remove_managed_on_branch and rollback_provision, for a creation that is *)
(* undone (wish) and for a deletion (holds).                               *)

Deleting(w) == holds[on[w]] = w

\* A refusal is an error the caller gets, with what was preserved.
Refused(w) == Ends(w)

AfterTree(w) ==
    /\ Goto(w, IF Deleting(w) THEN "deleting" ELSE "unbranching")
    /\ UNCHANGED <<hub, on, wish, whole, todo>>

\* registered_managed_worktree and worktree_dirty.
Removable(c) == tree[c] = "none" \/ (tree[c] = "clean" /\ listed[c] = "own")

\* A tree that has gone leaves a stale record, pruned when it is on the chat's
\* branch.
CheckTree(w) ==
    LET c == on[w] IN
    /\ pc[w] = "untreeing"
    /\ CASE tree[c] = "none" /\ listed[c] # "other" ->
              listed' = [listed EXCEPT ![c] = "no"] /\ AfterTree(w)
         [] tree[c] # "none" /\ Removable(c) ->
              Goto(w, "removing") /\ UNCHANGED <<listed, hub, on, wish, whole, todo>>
         [] OTHER -> Refused(w) /\ UNCHANGED listed
    /\ UNCHANGED <<tip, tree, primary, store, ids, lost, drift, outside>>

\* git worktree remove refuses modified and untracked files, not ignored ones.
RemoveTree(w) ==
    LET c == on[w] IN
    /\ pc[w] = "removing"
    /\ IF tree[c] # "changed"
       THEN /\ tree' = [tree EXCEPT ![c] = "none"] /\ listed' = [listed EXCEPT ![c] = "no"]
            /\ lost' = lost \cup ({tree[c]} \cap {"ignored", "changed"})
            /\ AfterTree(w)
       ELSE Refused(w) /\ UNCHANGED <<tree, listed, lost>>
    /\ UNCHANGED <<tip, primary, store, ids, drift, outside>>

\* Fault: the tip is not compared.
NotCheckedOut(c) == tip[c] # "none" /\ listed[c] # "own"

\* The branch goes only while it is where it was created and not checked out.
Unmoved(c) == tip[c] = "base" /\ listed[c] # "own"

Rollback(w) ==
    LET c == on[w] IN
    /\ pc[w] = "unbranching"
    /\ tip' = IF Unmoved(c) THEN [tip EXCEPT ![c] = "none"] ELSE tip
    /\ lost' = IF tip[c] = "work" /\ tip'[c] = "none" THEN lost \cup {"work"} ELSE lost
    /\ Ends(w)
    /\ UNCHANGED <<tree, listed, primary, store, ids, drift, outside>>

-----------------------------------------------------------------------------
(* delete_chat and delete_project                                          *)

\* delete_metadata: the turn guard, the checks of resolve_managed_cleanup and
\* the shutdown of the agent.
TakeForDeletion(w, c) ==
    /\ on' = [on EXCEPT ![w] = c]
    /\ holds' = [holds EXCEPT ![c] = w]
    /\ running' = running \ {c}
    /\ Goto(w, IF place[c] = "managed" THEN "untreeing" ELSE "deleting")
    /\ UNCHANGED <<wsLock, guard, admitted>>

DeleteChat(w, c) ==
    /\ pc[w] = "idle" /\ c \in rows /\ holds[c] = Free
    /\ TakeForDeletion(w, c)
    /\ UNCHANGED <<repository, store, wish, whole, todo, past>>

\* The row, once the worktree is gone; a deletion of the project goes on with
\* its next chat.
DeleteRow(w) ==
    LET c == on[w] IN
    /\ pc[w] = "deleting"
    /\ \/ /\ c \in rows
          /\ rows' = rows \ {c} /\ place' = [place EXCEPT ![c] = "none"]
          /\ Goto(w, IF w \in whole THEN "owned" ELSE "idle")
          /\ holds' = [holds EXCEPT ![c] = Free]
          /\ UNCHANGED <<wsLock, guard, admitted, running, on, wish, whole, todo>>
       \/ Ends(w) /\ UNCHANGED <<rows, place>>
    /\ UNCHANGED <<repository, project, past>>

\* delete_project: the chats it owns now, refused when one is busy or dirty.
DeleteProject(w) ==
    /\ pc[w] = "idle" /\ project
    /\ \A c \in rows : c \notin admitted /\ (place[c] = "managed" => Removable(c))
    /\ whole' = whole \cup {w} /\ todo' = [todo EXCEPT ![w] = rows] /\ Goto(w, "owned")
    /\ UNCHANGED <<repository, store, hub, on, wish, past>>

DeleteOwned(w) ==
    /\ pc[w] = "owned"
    /\ \/ \E c \in todo[w] :
            /\ c \in rows
            /\ IF holds[c] = Free
               THEN /\ TakeForDeletion(w, c) /\ UNCHANGED <<wish, whole>>
                    /\ todo' = [todo EXCEPT ![w] = @ \ {c}]
               ELSE Ends(w)
       \/ \E c \in todo[w] : c \notin rows /\ Ends(w)
    /\ UNCHANGED <<repository, store, past>>

\* The rows that still refer to the project go with it.
DeleteProjectRow(w) ==
    /\ pc[w] = "owned" /\ todo[w] = {}
    /\ project' = FALSE /\ rows' = {} /\ place' = [c \in Chat |-> "none"]
    /\ Ends(w)
    /\ UNCHANGED <<repository, past>>

-----------------------------------------------------------------------------
(* sync_workspace                                                          *)

SyncCheck(w) ==
    /\ pc[w] = "idle" /\ project /\ wsLock = Free /\ PrimaryAvailable
    /\ wsLock' = w /\ Goto(w, "reserving")
    /\ UNCHANGED <<repository, store, guard, holds, admitted, running, on, wish, whole, todo, past>>

\* Fault: the merge does not reserve the checkout.
SyncUnreserved(w) ==
    /\ pc[w] = "reserving" /\ Goto(w, "merging")
    /\ UNCHANGED <<repository, store, hub, on, wish, whole, todo, past>>

SyncReserve(w) ==
    /\ pc[w] = "reserving"
    /\ IF guard = Free
       THEN /\ guard' = w /\ Goto(w, "merging")
            /\ UNCHANGED <<wsLock, holds, admitted, running, on, wish, whole, todo>>
       ELSE Ends(w)
    /\ UNCHANGED <<repository, store, past>>

\* fetch_and_fast_forward: only a clean checkout that is strictly behind moves
\* (one that diverged is refused, as one that is ahead is left alone).
FastForward(w) ==
    /\ pc[w] = "merging"
    /\ upstream' = IF head = Upstreamed /\ upstream = "behind" /\ ~edited
                   THEN "same" ELSE upstream
    /\ Ends(w)
    /\ UNCHANGED <<managed, head, edited, store, past>>

-----------------------------------------------------------------------------
(* Chats that start and work                                               *)

\* A turn of a chat in the primary checkout takes the mutex; a resume, which
\* starts the agent as well, does not.
StartTurn(c) ==
    /\ c \in rows /\ holds[c] = Free
    /\ IF c \in Direct THEN guard = Free /\ guard' = c ELSE UNCHANGED guard
    /\ holds' = [holds EXCEPT ![c] = "turn"]
    /\ UNCHANGED <<repository, store, wsLock, admitted, running, request, past>>

StartResume(c) ==
    /\ c \in rows /\ holds[c] = Free
    /\ holds' = [holds EXCEPT ![c] = "resume"]
    /\ UNCHANGED <<repository, store, wsLock, guard, admitted, running, request, past>>

SessionEnds(c) ==
    /\ holds' = [holds EXCEPT ![c] = Free]
    /\ guard' = Released(guard, c)
    /\ admitted' = admitted \ {c}

\* validate_persistent_workspace: recover_managed_on_branch repairs or creates
\* the worktree, validate_direct insists on the branch of the chat.
Recoverable(c) ==
    tip[c] # "none" /\ (tree[c] = "none" \/ listed[c] = "own")
Validates(c) ==
    c \in rows /\ (IF c \in Direct THEN head = place[c] ELSE Recoverable(c))

Recover(c) ==
    IF place[c] = "managed" /\ tree[c] = "none"
    THEN /\ listed' = [listed EXCEPT ![c] = IF tip[c] = "none" THEN "no" ELSE "own"]
         /\ tree' = [tree EXCEPT ![c] = IF tip[c] = "none" THEN "none" ELSE "clean"]
    ELSE UNCHANGED <<tree, listed>>

Starting(c) == holds[c] \in {"turn", "resume"} /\ c \notin admitted

StartAgent(c) ==
    /\ Starting(c) /\ Validates(c)
    /\ Recover(c) /\ running' = running \cup {c}
    /\ IF holds[c] = "turn"
       THEN admitted' = admitted \cup {c} /\ drift' = drift \ {c} /\ UNCHANGED <<holds, guard>>
       ELSE SessionEnds(c) /\ UNCHANGED drift
    /\ UNCHANGED <<tip, primary, store, wsLock, request, ids, lost, outside>>

StartFails(c) ==
    /\ Starting(c)
    /\ IF c \in rows /\ c \notin Direct THEN Recover(c) ELSE UNCHANGED <<tree, listed>>
    /\ SessionEnds(c)
    /\ UNCHANGED <<tip, primary, store, wsLock, running, request, past>>

EndTurn(c) ==
    /\ c \in admitted /\ SessionEnds(c)
    /\ UNCHANGED <<repository, store, wsLock, running, request, past>>

StopAgent(c) ==
    /\ c \in running /\ holds[c] = Free
    /\ running' = running \ {c}
    /\ UNCHANGED <<repository, store, wsLock, guard, holds, admitted, request, past>>

-----------------------------------------------------------------------------
(* The user and the agents in the repository, and a crash of the hub       *)

Outside == outside < MaxOutside /\ outside' = outside + 1

WorkInTree(c) ==
    /\ Outside /\ tree[c] # "none"
    /\ \/ tree[c] = "clean" /\ tree' = [tree EXCEPT ![c] = "ignored"] /\ UNCHANGED <<tip, listed>>
       \/ tree' = [tree EXCEPT ![c] = "changed"] /\ UNCHANGED <<tip, listed>>
       \/ /\ listed[c] = "own" /\ tip' = [tip EXCEPT ![c] = "work"]
          /\ tree' = [tree EXCEPT ![c] = "clean"] /\ UNCHANGED listed
       \/ listed' = [listed EXCEPT ![c] = "other"] /\ UNCHANGED <<tip, tree>>
    /\ UNCHANGED <<primary, store, hub, request, ids, lost, drift>>

RemoveByHand(c) ==
    /\ Outside
    /\ \/ tree[c] # "none" /\ tree' = [tree EXCEPT ![c] = "none"] /\ UNCHANGED tip
       \/ /\ tip[c] # "none" /\ listed[c] # "own"
          /\ tip' = [tip EXCEPT ![c] = "none"]
          /\ UNCHANGED tree
    /\ UNCHANGED <<listed, primary, store, hub, request, ids, lost, drift>>

WorkInPrimary ==
    /\ Outside
    /\ \/ edited' = ~edited /\ UNCHANGED <<head, drift, upstream>>
       \/ /\ head' \in (Branch \cup {Detached}) \ {head} /\ drift' = drift \cup admitted
          /\ UNCHANGED <<edited, upstream>>
       \/ upstream = "same" /\ upstream' = "behind" /\ UNCHANGED <<head, edited, drift>>
    /\ UNCHANGED <<managed, store, hub, request, ids, lost>>

\* The hub and its agents die; the repository and the store stay.
HubCrash ==
    /\ Outside
    /\ wsLock' = Free /\ guard' = Free /\ holds' = [c \in Chat |-> Free]
    /\ admitted' = {} /\ running' = {}
    /\ pc' = [w \in Worker |-> "idle"] /\ whole' = {} /\ todo' = [w \in Worker |-> {}]
    /\ wish' = [w \in Worker |-> NoWish]
    /\ drift' = {}
    /\ UNCHANGED <<repository, store, on, ids, lost>>

-----------------------------------------------------------------------------
RequestStep(w) ==
    \/ \E choice \in Choice : CreateRequest(w, choice)
    \/ CreateInspect(w) \/ CreateBranch(w) \/ AddTree(w) \/ CheckSubdir(w)
    \/ Prepare(w) \/ Switch(w) \/ InsertRows(w)
    \/ CheckTree(w) \/ RemoveTree(w) \/ Rollback(w)
    \/ \E c \in Chat : DeleteChat(w, c)
    \/ DeleteRow(w) \/ DeleteProject(w) \/ DeleteOwned(w) \/ DeleteProjectRow(w)
    \/ SyncCheck(w) \/ SyncReserve(w) \/ FastForward(w)

SessionStep(c) ==
    \/ StartTurn(c) \/ StartResume(c) \/ StartAgent(c) \/ StartFails(c)
    \/ EndTurn(c) \/ StopAgent(c)

OutsideStep ==
    \/ \E c \in Chat : WorkInTree(c) \/ RemoveByHand(c)
    \/ WorkInPrimary \/ HubCrash

WsNext ==
    \/ \E w \in Worker : RequestStep(w)
    \/ \E c \in Chat : SessionStep(c)
    \/ OutsideStep

WsSpec == WsInit /\ [][WsNext]_wsVars

-----------------------------------------------------------------------------
(* Properties                                                              *)

\* The type invariant.
WsTypeOK ==
    /\ tip \in [Chat -> {"none", "base", "work"}]
    /\ tree \in [Chat -> {"none", "clean", "ignored", "changed"}]
    /\ listed \in [Chat -> {"no", "own", "other"}]
    /\ head \in Branch \cup {Detached} /\ edited \in BOOLEAN
    /\ upstream \in {"same", "behind"}
    /\ project \in BOOLEAN /\ rows \subseteq ids
    /\ place \in [Chat -> Branch \cup {"none", "managed"}]
    /\ wsLock \in Worker \cup {Free} /\ guard \in Worker \cup Chat \cup {Free}
    /\ holds \in [Chat -> Worker \cup {Free, "turn", "resume"}]
    /\ admitted \subseteq Chat /\ running \subseteq Chat
    /\ pc \in [Worker -> {"idle", "locking", "branching", "adding", "checking", "preparing",
                          "switching", "inserting", "untreeing", "removing", "unbranching",
                          "deleting", "owned", "reserving", "merging"}]
    /\ on \in [Worker -> Chat] /\ wish \in [Worker -> Wish]
    /\ whole \subseteq Worker /\ todo \in [Worker -> SUBSET Chat]
    /\ ids \subseteq Chat /\ lost \subseteq {"ignored", "changed", "work"}
    /\ drift \subseteq Chat
    /\ outside \in 0..MaxOutside

\* No deletion and no undone creation destroys modified files or commits of a
\* managed worktree, although the user may write between the check and the
\* Git command.
WorkSurvives == lost \cap {"changed", "work"} = {}

\* The hub switches or fast-forwards the primary checkout only while no turn
\* of a chat works in it.
CheckoutQuiet ==
    \A w \in Worker : pc[w] \in {"switching", "merging"} => Direct \cap admitted = {}

\* A turn in the primary checkout works on the branch its chat was created for
\* until it ends, unless the user switches under it.
TurnOnItsBranch ==
    \A c \in (Direct \cap admitted) \ drift : head = place[c]

\* A turn in the primary checkout finds its branch and finds it still
\* (service/chats.rs:412, service/workspaces.rs:135).
CheckoutStays == WsTypeOK /\ CheckoutQuiet /\ TurnOnItsBranch
=============================================================================
