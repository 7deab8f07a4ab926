---------------------------- MODULE WorktreeRules ----------------------------
(***************************************************************************)
(* Two decisions about the directories of chats. Where a chat's agent runs *)
(* and which lock it shares with the chats of the same checkout            *)
(* (session/mod.rs), for what the rows say and what is on disk; and        *)
(* whether a worktree holds nothing but the cache that nix-direnv can make *)
(* again, so that it may be removed (workspace/mod.rs).                    *)
(***************************************************************************)
EXTENDS FiniteSets, Naturals

VARIABLES
    world,      \* what one decision is about
    decision    \* and what it comes to

wrVars == <<world, decision>>

-----------------------------------------------------------------------------
(* Directories are [base, sub]. The repository has the subdirectories "s"   *)
(* and "t", and a link "out" to the directory "plain" outside of it; it can *)
(* be reached by a second name, "alias". "tree" is the chat's own worktree, *)
(* "trees" another chat's.                                                  *)

Dir(base, sub) == [base |-> base, sub |-> sub]
Exists(d) == d.sub # "gone"
Canonical(d) ==
    IF d.sub = "out" THEN Dir("plain", "")
    ELSE IF d.base = "alias" THEN Dir("repo", d.sub) ELSE d
Within(d, base) == Canonical(d).base = Canonical(base).base

\* git's top level of a directory: {} outside of a repository.
RootOf(d) == IF Canonical(d).base = "plain" THEN {} ELSE {Dir(Canonical(d).base, "")}

Subdir == {"", "s", "t", "out", "gone", "up", "absolute"}
Row ==
    [mode : {"direct", "managed"}, root : {Dir("repo", ""), Dir("alias", ""), Dir("plain", "")},
     path : {Dir("repo", ""), Dir("alias", ""), Dir("tree", ""), Dir("trees", "")},
     sub : Subdir, branch : BOOLEAN] \cup {[mode |-> "legacy"]}

\* A chat: its project's directory, its row, and whether git could be asked when its
\* session was made.
ChatCase ==
    [project : {Dir("repo", ""), Dir("repo", "s"), Dir("alias", "s"), Dir("plain", "")},
     row : Row, asked : BOOLEAN]

\* join_project_subdir.
Escapes(sub) == sub \in {"up", "absolute"}
Joined(base, sub) == IF Escapes(sub) THEN {} ELSE {Dir(base.base, sub)}

Fallback(S, d) == IF S = {} THEN d ELSE CHOOSE x \in S : TRUE

\* Fault: the lock is that of the directory the row names.
ByPath(d) == d

\* checkout_key.
CheckoutKey(d) == Canonical(d)

\* persistent_session_paths: the row's path is not used for a worktree.
SessionPaths(c) ==
    LET row == c.row project == c.project IN
    CASE row.mode = "managed" ->
            [cwd |-> Fallback(Joined(Dir("tree", ""), row.sub), project), lock |-> {}]
      [] row.mode = "direct" ->
            [cwd |-> Fallback(Joined(row.path, row.sub), project), lock |-> {CheckoutKey(row.root)}]
      [] row.mode = "legacy" ->
            [cwd |-> project,
             lock |-> {CheckoutKey(Fallback(IF c.asked THEN RootOf(project) ELSE {}, project))}]

Same(d, e) == Exists(d) /\ Exists(e) /\ Canonical(d) = Canonical(e)

\* ensure_cwd_inside_checkout.
Inside(base, sub) == {d \in Joined(base, sub) : Exists(d) /\ Within(d, base)}

\* validate_project_subdir.
IsProject(c, root) == \E d \in Inside(root, c.row.sub) : Same(d, c.project)

\* validate_persistent_workspace, for a chat whose branch is as recorded and whose
\* worktree is there.
Validated(c) ==
    LET row == c.row cwd == SessionPaths(c).cwd IN
    CASE row.mode = "legacy" -> Canonical(c.project) = cwd
      [] row.mode = "managed" ->
            /\ row.path = Dir("tree", "") /\ row.branch
            /\ \E root \in RootOf(c.project) : Same(root, row.root) /\ IsProject(c, root)
            /\ \E d \in Inside(Dir("tree", ""), row.sub) : Same(d, cwd)
      [] row.mode = "direct" ->
            /\ row.branch
            /\ \E root \in RootOf(c.project) :
                Same(root, row.root) /\ Same(row.path, root) /\ IsProject(c, root)
            /\ \E d \in Inside(row.path, row.sub) : Same(d, cwd)

StartChatIn ==
    /\ world.is = "chat" /\ decision.is = "none"
    /\ decision' = [is |-> IF Validated(world.chat) THEN "runs" ELSE "refused",
                    paths |-> SessionPaths(world.chat)]
    /\ UNCHANGED world

-----------------------------------------------------------------------------
(* worktree_dirty. The status has one entry per line; the cache is ignored  *)
(* and shows as one entry, whatever it holds.                               *)

Generation == {"g1", "g2"}

\* What an entry of the cache is: a file; a link to a name beside it ("profile" is
\* itself), deeper or elsewhere; or a link into the store, to a directory, to what is
\* gone or no directory, to what leads out again, by way of "..", or to its root.
Target ==
    Generation \cup {"file", "profile", "deeper", "elsewhere", "store", "store gone",
                     "store file", "store out", "store dots", "store root"}
Tree ==
    [status : SUBSET {"tracked", "ignored", "cache"}, cache : {"file", "link"}]
    \cup [status : SUBSET {"tracked", "ignored", "cache"}, cache : {"directory"},
          holds : UNION {[names -> Target] : names \in SUBSET {"profile", "g1", "other"}}]

\* is_nix_direnv_generation_link.
InStore(target) == target \in {"store", "store gone"}

\* is_disposable_runtime_status.
Disposable(tree) ==
    /\ tree.cache = "directory"
    /\ \A name \in DOMAIN tree.holds :
        \/ name = "profile" /\ tree.holds[name] \in Generation \cup {"profile"}
        \/ name \in Generation /\ InStore(tree.holds[name])
    /\ \E g \in Generation \cap DOMAIN tree.holds :
        "profile" \in DOMAIN tree.holds /\ tree.holds["profile"] = g

Dirty(tree) == \E line \in tree.status : line # "cache" \/ ~Disposable(tree)

CheckTreeClean ==
    /\ world.is = "tree" /\ decision.is = "none"
    /\ decision' = [is |-> IF Dirty(world.tree) THEN "refused" ELSE "removed"]
    /\ UNCHANGED world

WrInit ==
    /\ decision = [is |-> "none"]
    /\ \/ world \in [is : {"chat"}, chat : ChatCase]
       \/ world \in [is : {"tree"}, tree : Tree]

WrNext == StartChatIn \/ CheckTreeClean

WrTypeOK == decision.is \in {"none", "runs", "refused", "removed"}

-----------------------------------------------------------------------------
\* An agent runs in its project's directory, or in the same directory of its own
\* worktree, whatever the rows say (session/mod.rs:1429-1653).
RunsInItsDirectory ==
    (world.is = "chat" /\ decision.is = "runs") =>
        Canonical(decision.paths.cwd) =
            IF world.chat.row.mode = "managed" THEN Dir("tree", Canonical(world.chat.project).sub)
            ELSE Canonical(world.chat.project)

\* All chats that work in a checkout share one lock, by whatever name and in whatever
\* directory of it they are, if git could be asked; chats in worktrees have none
\* (session/mod.rs:1461-1500).
OneLockPerCheckout ==
    (world.is = "chat" /\ decision.is = "runs" /\ world.chat.asked) =>
        IF world.chat.row.mode = "managed" THEN decision.paths.lock = {}
        ELSE RootOf(world.chat.project) # {} => decision.paths.lock = RootOf(world.chat.project)

\* A worktree that goes holds no work: no change, nothing ignored but the cache, and
\* in it only a profile and generations that lead to the store, the profile to one of
\* them (workspace/mod.rs:1036-1185).
OnlyCacheLost ==
    decision.is = "removed" =>
        LET tree == world.tree IN
        /\ tree.status \subseteq {"cache"}
        /\ "cache" \in tree.status =>
            /\ DOMAIN tree.holds \subseteq {"profile"} \cup Generation
            /\ tree.holds["profile"] \in Generation \cap DOMAIN tree.holds
            /\ \A g \in Generation \cap DOMAIN tree.holds : tree.holds[g] \in {"store", "store gone"}

\* An agent runs where its row says and under the lock of that checkout, and a worktree
\* that is removed held nothing but the cache (session/mod.rs, workspace/mod.rs).
RulesHold == RunsInItsDirectory /\ OneLockPerCheckout /\ OnlyCacheLost
=============================================================================
