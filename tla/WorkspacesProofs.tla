-------------------------- MODULE WorkspacesProofs --------------------------
(***************************************************************************)
(* Proofs about Workspaces, EnvrcGrants, WorktreeRules, LaunchEnv and      *)
(* SessionRegistry, for every set of chats, branches, requests, contents   *)
(* of a file, paths, variables, values and handles.                        *)
(*                                                                         *)
(* The primary checkout stays still because a turn of a chat that works in *)
(* it and a request that moves it hold the same mutex, and a turn holds it *)
(* for as long as it runs: a chat gets its workspace before anybody can    *)
(* start it, and loses it only with its row.                               *)
(***************************************************************************)
EXTENDS Workspaces, EnvrcGrants, WorktreeRules, LaunchEnv, SessionRegistry, FiniteSetTheorems, TLAPS

\* Places of a request whose chat has no row yet.
Creating == {"branching", "adding", "checking", "preparing", "switching", "inserting"}

\* A request that creates works on a chat of its own, which nobody has started.
FreshChats ==
    /\ \A w \in Worker : pc[w] \in Creating => on[w] \in ids \ rows /\ holds[on[w]] = Free
    /\ \A w, v \in Worker :
           pc[w] \in Creating /\ pc[v] \in Creating /\ on[w] = on[v] => w = v

\* Only chats that were handed out are held; who deletes a row holds its chat.
ChatsHeld ==
    /\ \A c \in Chat : holds[c] # Free => c \in ids
    /\ \A w \in Worker : pc[w] = "deleting" => holds[on[w]] = w

\* A turn in the primary checkout and a request that moves it hold the mutex.
CheckoutHeld ==
    /\ \A c \in admitted : holds[c] = "turn"
    /\ \A c \in Direct : holds[c] = "turn" => guard = c
    /\ \A w \in Worker : pc[w] \in {"preparing", "switching", "merging"} => guard = w

BranchChosen == \A w \in Worker : pc[w] = "switching" => wish[w].branch \in Branch

HeldInv == FreshChats /\ ChatsHeld /\ CheckoutHeld /\ BranchChosen
WsInv == WsTypeOK /\ HeldInv /\ TurnOnItsBranch

USE WorkspacesAssumption DEF Free

-----------------------------------------------------------------------------
(* What a request wishes.                                                  *)

LEMMA NoWishTyped == NoWish \in Wish
BY DEF NoWish, Wish, NoBranch

LEMMA WishFields == ASSUME NEW x \in Wish PROVE x.branch \in Branch \cup {NoBranch}
BY DEF Wish

LEMMA WishSettled ==
    ASSUME NEW x \in Wish, NEW b \in Branch PROVE
    [x EXCEPT !.branch = b] \in Wish /\ [x EXCEPT !.branch = b].branch = b
BY DEF Wish

\* What a request leaves behind when it ends.
LEMMA EndsTyped ==
    ASSUME WsTypeOK, NEW w \in Worker, Ends(w) PROVE
    /\ wsLock' \in Worker \cup {Free} /\ guard' \in Worker \cup Chat \cup {Free}
    /\ holds' \in [Chat -> Worker \cup {Free, "turn", "resume"}]
    /\ admitted' \subseteq Chat /\ running' \subseteq Chat
    /\ pc' = [pc EXCEPT ![w] = "idle"] /\ on' \in [Worker -> Chat]
    /\ wish' \in [Worker -> Wish] /\ whole' \subseteq Worker /\ todo' \in [Worker -> SUBSET Chat]
BY NoWishTyped DEF WsTypeOK, Ends, Goto, Released

-----------------------------------------------------------------------------
(* Creating a chat.                                                        *)

\* A request begins; it works on no chat yet.
LEMMA CreateRequestKeeps ==
    ASSUME WsInv, NEW w \in Worker, NEW choice \in Choice, CreateRequest(w, choice)
    PROVE  WsInv'
<1>. USE NoWishTyped DEF WsInv, CreateRequest, repository, store, hub, past,
      Goto
<1>1. WsTypeOK'
  BY DEF WsTypeOK
<1>2. FreshChats'
  BY DEF WsTypeOK, HeldInv, FreshChats, ChatsHeld, Creating
<1>3. ChatsHeld'
  BY DEF WsTypeOK, HeldInv, FreshChats, ChatsHeld, CheckoutHeld, Creating
<1>4. CheckoutHeld'
  BY DEF WsTypeOK, HeldInv, FreshChats, CheckoutHeld, Creating, Direct
<1>5. BranchChosen'
  BY DEF WsTypeOK, HeldInv, BranchChosen
<1>6. TurnOnItsBranch'
  BY DEF WsTypeOK, HeldInv, FreshChats, CheckoutHeld, Creating, TurnOnItsBranch, Direct
<1>. QED BY <1>1, <1>2, <1>3, <1>4, <1>5, <1>6 DEF HeldInv

\* The chat it creates is a new one, and nobody else has it.
LEMMA CreateInspectKeeps ==
    ASSUME WsInv, NEW w \in Worker, CreateInspect(w)
    PROVE  WsInv'
<1>1. WsTypeOK'
  <2>1. CASE CreateAdmitted(w)
    <3>1. PICK c \in Chat \ ids :
            /\ ids' = ids \cup {c} /\ on' = [on EXCEPT ![w] = c] /\ wsLock' = w
            /\ guard' = IF wish[w].mode = "direct" THEN w ELSE guard
            /\ pc' = [pc EXCEPT ![w] =
                         IF wish[w].mode = "direct" THEN "preparing" ELSE "branching"]
            /\ UNCHANGED <<holds, admitted, running, wish, whole, todo>>
      BY <2>1, Zenon DEF CreateInspect, Goto
    <3>. QED
      BY <2>1, <3>1 DEF CreateInspect, WsInv, WsTypeOK, repository, managed, primary, store, past
  <2>2. CASE ~CreateAdmitted(w)
    <3>0. Ends(w) /\ UNCHANGED ids /\ UNCHANGED <<repository, store, lost, drift, outside>>
      BY <2>2, Zenon DEF CreateInspect
    <3>1. Ends(w) /\ UNCHANGED <<tip, tree, listed, primary, store, past>>
      BY <3>0 DEF repository, primary, past
    <3>. QED BY <3>1, EndsTyped DEF WsInv, WsTypeOK, primary, store, past
  <2>. QED BY <2>1, <2>2
<1>. USE NoWishTyped DEF WsInv, CreateInspect, CreateAdmitted, repository,
      managed, store, Goto, Ends, Released
<1>2. FreshChats'
  BY DEF WsTypeOK, HeldInv, FreshChats, ChatsHeld, Creating
<1>3. ChatsHeld'
  BY DEF WsTypeOK, HeldInv, FreshChats, ChatsHeld, CheckoutHeld, Creating
<1>4. CheckoutHeld'
  BY DEF WsTypeOK, HeldInv, FreshChats, CheckoutHeld, Creating, Direct
<1>5. BranchChosen'
  BY DEF WsTypeOK, HeldInv, BranchChosen
<1>6. TurnOnItsBranch'
  BY DEF WsTypeOK, HeldInv, FreshChats, CheckoutHeld, Creating, TurnOnItsBranch, Direct
<1>. QED BY <1>1, <1>2, <1>3, <1>4, <1>5, <1>6 DEF HeldInv

\* The managed branch and its worktree.
LEMMA CreateBranchKeeps ==
    ASSUME WsInv, NEW w \in Worker, CreateBranch(w)
    PROVE  WsInv'
<1>. USE NoWishTyped DEF WsInv, CreateBranch, primary, store, hub, past, Goto,
      Ends, Released
<1>1. WsTypeOK'
  BY DEF WsTypeOK
<1>2. FreshChats'
  BY DEF WsTypeOK, HeldInv, FreshChats, ChatsHeld, Creating
<1>3. ChatsHeld'
  BY DEF WsTypeOK, HeldInv, FreshChats, ChatsHeld, CheckoutHeld, Creating
<1>4. CheckoutHeld'
  BY DEF WsTypeOK, HeldInv, FreshChats, CheckoutHeld, Creating, Direct
<1>5. BranchChosen'
  BY DEF WsTypeOK, HeldInv, BranchChosen
<1>6. TurnOnItsBranch'
  BY DEF WsTypeOK, HeldInv, FreshChats, CheckoutHeld, Creating, TurnOnItsBranch, Direct
<1>. QED BY <1>1, <1>2, <1>3, <1>4, <1>5, <1>6 DEF HeldInv

LEMMA AddTreeKeeps ==
    ASSUME WsInv, NEW w \in Worker, AddTree(w)
    PROVE  WsInv'
<1>. USE NoWishTyped DEF WsInv, AddTree, primary, store, hub, past, Goto
<1>1. WsTypeOK'
  BY DEF WsTypeOK
<1>2. FreshChats'
  BY DEF WsTypeOK, HeldInv, FreshChats, ChatsHeld, Creating
<1>3. ChatsHeld'
  BY DEF WsTypeOK, HeldInv, FreshChats, ChatsHeld, CheckoutHeld, Creating
<1>4. CheckoutHeld'
  BY DEF WsTypeOK, HeldInv, FreshChats, CheckoutHeld, Creating, Direct
<1>5. BranchChosen'
  BY DEF WsTypeOK, HeldInv, BranchChosen
<1>6. TurnOnItsBranch'
  BY DEF WsTypeOK, HeldInv, FreshChats, CheckoutHeld, Creating, TurnOnItsBranch, Direct
<1>. QED BY <1>1, <1>2, <1>3, <1>4, <1>5, <1>6 DEF HeldInv

LEMMA CheckSubdirKeeps ==
    ASSUME WsInv, NEW w \in Worker, CheckSubdir(w)
    PROVE  WsInv'
<1>. USE NoWishTyped DEF WsInv, CheckSubdir, repository, store, hub, past,
      Goto
<1>1. WsTypeOK'
  BY DEF WsTypeOK
<1>2. FreshChats'
  BY DEF WsTypeOK, HeldInv, FreshChats, ChatsHeld, Creating
<1>3. ChatsHeld'
  BY DEF WsTypeOK, HeldInv, FreshChats, ChatsHeld, CheckoutHeld, Creating
<1>4. CheckoutHeld'
  BY DEF WsTypeOK, HeldInv, FreshChats, CheckoutHeld, Creating, Direct
<1>5. BranchChosen'
  BY DEF WsTypeOK, HeldInv, BranchChosen
<1>6. TurnOnItsBranch'
  BY DEF WsTypeOK, HeldInv, FreshChats, CheckoutHeld, Creating, TurnOnItsBranch, Direct
<1>. QED BY <1>1, <1>2, <1>3, <1>4, <1>5, <1>6 DEF HeldInv

\* The branch is settled with the mutex held.
LEMMA PrepareKeeps ==
    ASSUME WsInv, NEW w \in Worker, Prepare(w)
    PROVE  WsInv'
<1>. USE NoWishTyped DEF WsInv, Prepare, repository, store, hub, past, Goto,
      Ends, Released
<1>. DEFINE branch == IF wish[w].branch = NoBranch THEN head ELSE wish[w].branch
             prepares == branch # Detached /\ (branch # head => PrimaryAvailable)
<1>0. prepares => wish' \in [Worker -> Wish] /\ wish'[w].branch \in Branch
  <2>. SUFFICES ASSUME prepares PROVE wish' \in [Worker -> Wish] /\ wish'[w].branch \in Branch
    OBVIOUS
  <2>1. branch \in Branch
    BY WishFields DEF WsTypeOK
  <2>2. wish' = [wish EXCEPT ![w] = [wish[w] EXCEPT !.branch = branch]]
    OBVIOUS
  <2>3. wish[w] \in Wish
    BY DEF WsTypeOK
  <2>. HIDE DEF branch
  <2>. QED BY <2>1, <2>2, <2>3, WishSettled DEF WsTypeOK
<1>1. WsTypeOK'
  BY <1>0 DEF WsTypeOK
<1>2. FreshChats'
  BY DEF WsTypeOK, HeldInv, FreshChats, ChatsHeld, Creating
<1>3. ChatsHeld'
  BY DEF WsTypeOK, HeldInv, FreshChats, ChatsHeld, CheckoutHeld, Creating
<1>4. CheckoutHeld'
  BY DEF WsTypeOK, HeldInv, FreshChats, CheckoutHeld, Creating, Direct
<1>5. BranchChosen'
  BY <1>0 DEF WsTypeOK, HeldInv, BranchChosen
<1>6. TurnOnItsBranch'
  BY DEF WsTypeOK, HeldInv, FreshChats, CheckoutHeld, Creating, TurnOnItsBranch, Direct
<1>. QED BY <1>1, <1>2, <1>3, <1>4, <1>5, <1>6 DEF HeldInv

\* The branch of the primary checkout moves: the request has the mutex, so no turn has.
LEMMA SwitchKeeps ==
    ASSUME WsInv, NEW w \in Worker, Switch(w)
    PROVE  WsInv'
<1>. USE NoWishTyped DEF WsInv, Switch, managed, store, hub, past, Goto, Ends,
      Released
<1>1. WsTypeOK'
  BY DEF WsTypeOK, HeldInv, BranchChosen
<1>2. FreshChats'
  BY DEF WsTypeOK, HeldInv, FreshChats, ChatsHeld, Creating
<1>3. ChatsHeld'
  BY DEF WsTypeOK, HeldInv, FreshChats, ChatsHeld, CheckoutHeld, Creating
<1>4. CheckoutHeld'
  BY DEF WsTypeOK, HeldInv, FreshChats, CheckoutHeld, Creating, Direct
<1>5. BranchChosen'
  BY DEF WsTypeOK, HeldInv, BranchChosen
<1>6. TurnOnItsBranch'
  BY DEF WsTypeOK, HeldInv, FreshChats, CheckoutHeld, Creating, TurnOnItsBranch, Direct
<1>. QED BY <1>1, <1>2, <1>3, <1>4, <1>5, <1>6 DEF HeldInv

\* The chat gets its row and its workspace; nobody could start it before.
LEMMA InsertRowsKeeps ==
    ASSUME WsInv, NEW w \in Worker, InsertRows(w)
    PROVE  WsInv'
<1>. USE NoWishTyped DEF WsInv, InsertRows, repository, managed, hub, past,
      Goto, Ends, Released
<1>1. WsTypeOK'
  <2>1. wish[w].branch \in Branch \cup {"none"}
    BY WishFields DEF WsTypeOK, NoBranch
  <2>2. on[w] \in ids
    BY DEF HeldInv, FreshChats, Creating
  <2>. QED BY <2>1, <2>2 DEF WsTypeOK
<1>2. FreshChats'
  BY DEF WsTypeOK, HeldInv, FreshChats, ChatsHeld, Creating
<1>3. ChatsHeld'
  BY DEF WsTypeOK, HeldInv, FreshChats, ChatsHeld, CheckoutHeld, Creating
<1>4. CheckoutHeld'
  BY DEF WsTypeOK, HeldInv, FreshChats, CheckoutHeld, Creating, Direct
<1>5. BranchChosen'
  BY DEF WsTypeOK, HeldInv, BranchChosen
<1>6. TurnOnItsBranch'
  BY DEF WsTypeOK, HeldInv, FreshChats, CheckoutHeld, Creating, TurnOnItsBranch, Direct
<1>. QED BY <1>1, <1>2, <1>3, <1>4, <1>5, <1>6 DEF HeldInv

-----------------------------------------------------------------------------
(* Undoing a creation, and deletions.                                      *)

\* A deletion goes on to the row only with its chat held.
LEMMA CheckTreeKeeps ==
    ASSUME WsInv, NEW w \in Worker, CheckTree(w)
    PROVE  WsInv'
<1>. USE NoWishTyped DEF WsInv, CheckTree, AfterTree, Refused, Deleting,
      primary, store, hub, Goto, Ends, Released
<1>1. WsTypeOK'
  BY DEF WsTypeOK
<1>2. FreshChats'
  BY DEF WsTypeOK, HeldInv, FreshChats, ChatsHeld, Creating
<1>3. ChatsHeld'
  BY DEF WsTypeOK, HeldInv, FreshChats, ChatsHeld, CheckoutHeld, Creating
<1>4. CheckoutHeld'
  BY DEF WsTypeOK, HeldInv, FreshChats, CheckoutHeld, Creating, Direct
<1>5. BranchChosen'
  BY DEF WsTypeOK, HeldInv, BranchChosen
<1>6. TurnOnItsBranch'
  BY DEF WsTypeOK, HeldInv, FreshChats, CheckoutHeld, Creating, TurnOnItsBranch, Direct
<1>. QED BY <1>1, <1>2, <1>3, <1>4, <1>5, <1>6 DEF HeldInv

LEMMA RemoveTreeKeeps ==
    ASSUME WsInv, NEW w \in Worker, RemoveTree(w)
    PROVE  WsInv'
<1>1. WsTypeOK'
  <2>1. CASE tree[on[w]] # "changed"
    <3>0. /\ tree \in [Chat -> {"none", "clean", "ignored", "changed"}]
          /\ listed \in [Chat -> {"no", "own", "other"}]
          /\ lost \subseteq {"ignored", "changed", "work"}
      BY DEF WsInv, WsTypeOK
    <3>1. tree' \in [Chat -> {"none", "clean", "ignored", "changed"}]
          /\ listed' \in [Chat -> {"no", "own", "other"}]
      BY <2>1, <3>0 DEF RemoveTree
    <3>2. lost' \subseteq {"ignored", "changed", "work"}
      BY <2>1, <3>0 DEF RemoveTree
    <3>3. pc' = [pc EXCEPT ![w] = IF holds[on[w]] = w THEN "deleting" ELSE "unbranching"]
          /\ UNCHANGED <<on, wish, whole, todo>>
      BY <2>1 DEF RemoveTree, AfterTree, Deleting, Goto, WsInv, WsTypeOK
    <3>4. UNCHANGED <<tip, primary, store, hub, ids, drift, outside>>
      BY <2>1 DEF RemoveTree, AfterTree, Goto
    <3>. QED BY <3>1, <3>2, <3>3, <3>4 DEF WsInv, WsTypeOK, primary, store, hub
  <2>2. CASE tree[on[w]] = "changed"
    <3>1. Ends(w) /\ UNCHANGED <<tip, tree, listed, primary, store, past>>
      BY <2>2, Zenon DEF RemoveTree, Refused, repository, managed, past
    <3>. QED BY <3>1, EndsTyped DEF WsInv, WsTypeOK, primary, store, past
  <2>. QED BY <2>1, <2>2
<1>. USE NoWishTyped DEF WsInv, RemoveTree, AfterTree, Refused, Deleting,
      primary, store, hub, Goto, Ends, Released
<1>2. FreshChats'
  BY DEF WsTypeOK, HeldInv, FreshChats, ChatsHeld, Creating
<1>3. ChatsHeld'
  BY DEF WsTypeOK, HeldInv, FreshChats, ChatsHeld, CheckoutHeld, Creating
<1>4. CheckoutHeld'
  BY DEF WsTypeOK, HeldInv, FreshChats, CheckoutHeld, Creating, Direct
<1>5. BranchChosen'
  BY DEF WsTypeOK, HeldInv, BranchChosen
<1>6. TurnOnItsBranch'
  BY DEF WsTypeOK, HeldInv, FreshChats, CheckoutHeld, Creating, TurnOnItsBranch, Direct
<1>. QED BY <1>1, <1>2, <1>3, <1>4, <1>5, <1>6 DEF HeldInv

LEMMA RollbackKeeps ==
    ASSUME WsInv, NEW w \in Worker, Rollback(w)
    PROVE  WsInv'
<1>. USE NoWishTyped DEF WsInv, Rollback, primary, store, Goto, Ends, Released
<1>1. WsTypeOK'
  BY DEF WsTypeOK
<1>2. FreshChats'
  BY DEF WsTypeOK, HeldInv, FreshChats, ChatsHeld, Creating
<1>3. ChatsHeld'
  BY DEF WsTypeOK, HeldInv, FreshChats, ChatsHeld, CheckoutHeld, Creating
<1>4. CheckoutHeld'
  BY DEF WsTypeOK, HeldInv, FreshChats, CheckoutHeld, Creating, Direct
<1>5. BranchChosen'
  BY DEF WsTypeOK, HeldInv, BranchChosen
<1>6. TurnOnItsBranch'
  BY DEF WsTypeOK, HeldInv, FreshChats, CheckoutHeld, Creating, TurnOnItsBranch, Direct
<1>. QED BY <1>1, <1>2, <1>3, <1>4, <1>5, <1>6 DEF HeldInv

\* A chat that is free is taken, so it has no turn.
LEMMA DeleteChatKeeps ==
    ASSUME WsInv, NEW w \in Worker, NEW c \in Chat, DeleteChat(w, c)
    PROVE  WsInv'
<1>. USE NoWishTyped DEF WsInv, DeleteChat, TakeForDeletion, repository,
      managed, store, past, Goto
<1>1. WsTypeOK'
  BY DEF WsTypeOK
<1>2. FreshChats'
  BY DEF WsTypeOK, HeldInv, FreshChats, ChatsHeld, Creating
<1>3. ChatsHeld'
  BY DEF WsTypeOK, HeldInv, FreshChats, ChatsHeld, CheckoutHeld, Creating
<1>4. CheckoutHeld'
  BY DEF WsTypeOK, HeldInv, FreshChats, CheckoutHeld, Creating, Direct
<1>5. BranchChosen'
  BY DEF WsTypeOK, HeldInv, BranchChosen
<1>6. TurnOnItsBranch'
  BY DEF WsTypeOK, HeldInv, FreshChats, CheckoutHeld, Creating, TurnOnItsBranch, Direct
<1>. QED BY <1>1, <1>2, <1>3, <1>4, <1>5, <1>6 DEF HeldInv

LEMMA DeleteRowKeeps ==
    ASSUME WsInv, NEW w \in Worker, DeleteRow(w)
    PROVE  WsInv'
<1>. USE NoWishTyped DEF WsInv, DeleteRow, repository, past, Goto, Ends,
      Released
<1>1. WsTypeOK'
  BY DEF WsTypeOK
<1>2. FreshChats'
  BY DEF WsTypeOK, HeldInv, FreshChats, ChatsHeld, Creating
<1>3. ChatsHeld'
  BY DEF WsTypeOK, HeldInv, FreshChats, ChatsHeld, CheckoutHeld, Creating
<1>4. CheckoutHeld'
  BY DEF WsTypeOK, HeldInv, ChatsHeld, CheckoutHeld, Direct
<1>5. BranchChosen'
  BY DEF WsTypeOK, HeldInv, BranchChosen
<1>6. TurnOnItsBranch'
  BY DEF WsTypeOK, HeldInv, FreshChats, CheckoutHeld, Creating, TurnOnItsBranch, Direct
<1>. QED BY <1>1, <1>2, <1>3, <1>4, <1>5, <1>6 DEF HeldInv

LEMMA DeleteProjectKeeps ==
    ASSUME WsInv, NEW w \in Worker, DeleteProject(w)
    PROVE  WsInv'
<1>. USE NoWishTyped DEF WsInv, DeleteProject, repository, managed, store,
      hub, past, Goto
<1>1. WsTypeOK'
  BY DEF WsTypeOK
<1>2. FreshChats'
  BY DEF WsTypeOK, HeldInv, FreshChats, ChatsHeld, Creating
<1>3. ChatsHeld'
  BY DEF WsTypeOK, HeldInv, FreshChats, ChatsHeld, CheckoutHeld, Creating
<1>4. CheckoutHeld'
  BY DEF WsTypeOK, HeldInv, FreshChats, CheckoutHeld, Creating, Direct
<1>5. BranchChosen'
  BY DEF WsTypeOK, HeldInv, BranchChosen
<1>6. TurnOnItsBranch'
  BY DEF WsTypeOK, HeldInv, FreshChats, CheckoutHeld, Creating, TurnOnItsBranch, Direct
<1>. QED BY <1>1, <1>2, <1>3, <1>4, <1>5, <1>6 DEF HeldInv

LEMMA DeleteOwnedKeeps ==
    ASSUME WsInv, NEW w \in Worker, DeleteOwned(w)
    PROVE  WsInv'
<1>. USE NoWishTyped DEF WsInv, DeleteOwned, TakeForDeletion, repository,
      managed, store, past, Goto, Ends, Released
<1>1. WsTypeOK'
  BY DEF WsTypeOK
<1>2. FreshChats'
  BY DEF WsTypeOK, HeldInv, FreshChats, ChatsHeld, Creating
<1>3. ChatsHeld'
  BY DEF WsTypeOK, HeldInv, FreshChats, ChatsHeld, CheckoutHeld, Creating
<1>4. CheckoutHeld'
  BY DEF WsTypeOK, HeldInv, FreshChats, CheckoutHeld, Creating, Direct
<1>5. BranchChosen'
  BY DEF WsTypeOK, HeldInv, BranchChosen
<1>6. TurnOnItsBranch'
  BY DEF WsTypeOK, HeldInv, FreshChats, CheckoutHeld, Creating, TurnOnItsBranch, Direct
<1>. QED BY <1>1, <1>2, <1>3, <1>4, <1>5, <1>6 DEF HeldInv

\* No chat is left, so none works in the primary checkout.
LEMMA DeleteProjectRowKeeps ==
    ASSUME WsInv, NEW w \in Worker, DeleteProjectRow(w)
    PROVE  WsInv'
<1>. USE NoWishTyped DEF WsInv, DeleteProjectRow, repository, past, Goto,
      Ends, Released
<1>1. WsTypeOK'
  BY DEF WsTypeOK
<1>2. FreshChats'
  BY DEF WsTypeOK, HeldInv, FreshChats, ChatsHeld, Creating
<1>3. ChatsHeld'
  BY DEF WsTypeOK, HeldInv, FreshChats, ChatsHeld, CheckoutHeld, Creating
<1>4. CheckoutHeld'
  BY DEF WsTypeOK, HeldInv, FreshChats, CheckoutHeld, Creating, Direct
<1>5. BranchChosen'
  BY DEF WsTypeOK, HeldInv, BranchChosen
<1>6. TurnOnItsBranch'
  BY DEF WsTypeOK, HeldInv, FreshChats, CheckoutHeld, Creating, TurnOnItsBranch, Direct
<1>. QED BY <1>1, <1>2, <1>3, <1>4, <1>5, <1>6 DEF HeldInv

-----------------------------------------------------------------------------
(* Bringing the primary checkout up to date.                               *)

LEMMA SyncCheckKeeps ==
    ASSUME WsInv, NEW w \in Worker, SyncCheck(w)
    PROVE  WsInv'
<1>. USE NoWishTyped DEF WsInv, SyncCheck, repository, store, past, Goto
<1>1. WsTypeOK'
  BY DEF WsTypeOK
<1>2. FreshChats'
  BY DEF WsTypeOK, HeldInv, FreshChats, ChatsHeld, Creating
<1>3. ChatsHeld'
  BY DEF WsTypeOK, HeldInv, FreshChats, ChatsHeld, CheckoutHeld, Creating
<1>4. CheckoutHeld'
  BY DEF WsTypeOK, HeldInv, FreshChats, CheckoutHeld, Creating, Direct
<1>5. BranchChosen'
  BY DEF WsTypeOK, HeldInv, BranchChosen
<1>6. TurnOnItsBranch'
  BY DEF WsTypeOK, HeldInv, FreshChats, CheckoutHeld, Creating, TurnOnItsBranch, Direct
<1>. QED BY <1>1, <1>2, <1>3, <1>4, <1>5, <1>6 DEF HeldInv

\* The mutex is taken before the merge.
LEMMA SyncReserveKeeps ==
    ASSUME WsInv, NEW w \in Worker, SyncReserve(w)
    PROVE  WsInv'
<1>. USE NoWishTyped DEF WsInv, SyncReserve, repository, store, past, Goto,
      Ends, Released
<1>1. WsTypeOK'
  BY DEF WsTypeOK
<1>2. FreshChats'
  BY DEF WsTypeOK, HeldInv, FreshChats, ChatsHeld, Creating
<1>3. ChatsHeld'
  BY DEF WsTypeOK, HeldInv, FreshChats, ChatsHeld, CheckoutHeld, Creating
<1>4. CheckoutHeld'
  BY DEF WsTypeOK, HeldInv, FreshChats, CheckoutHeld, Creating, Direct
<1>5. BranchChosen'
  BY DEF WsTypeOK, HeldInv, BranchChosen
<1>6. TurnOnItsBranch'
  BY DEF WsTypeOK, HeldInv, FreshChats, CheckoutHeld, Creating, TurnOnItsBranch, Direct
<1>. QED BY <1>1, <1>2, <1>3, <1>4, <1>5, <1>6 DEF HeldInv

LEMMA FastForwardKeeps ==
    ASSUME WsInv, NEW w \in Worker, FastForward(w)
    PROVE  WsInv'
<1>. USE NoWishTyped DEF WsInv, FastForward, managed, store, past, Goto, Ends,
      Released
<1>1. WsTypeOK'
  BY DEF WsTypeOK
<1>2. FreshChats'
  BY DEF WsTypeOK, HeldInv, FreshChats, ChatsHeld, Creating
<1>3. ChatsHeld'
  BY DEF WsTypeOK, HeldInv, FreshChats, ChatsHeld, CheckoutHeld, Creating
<1>4. CheckoutHeld'
  BY DEF WsTypeOK, HeldInv, FreshChats, CheckoutHeld, Creating, Direct
<1>5. BranchChosen'
  BY DEF WsTypeOK, HeldInv, BranchChosen
<1>6. TurnOnItsBranch'
  BY DEF WsTypeOK, HeldInv, FreshChats, CheckoutHeld, Creating, TurnOnItsBranch, Direct
<1>. QED BY <1>1, <1>2, <1>3, <1>4, <1>5, <1>6 DEF HeldInv

-----------------------------------------------------------------------------
(* Chats that start and work.                                              *)

\* A turn in the primary checkout takes the mutex.
LEMMA StartTurnKeeps ==
    ASSUME WsInv, NEW c \in Chat, StartTurn(c)
    PROVE  WsInv'
<1>. USE NoWishTyped DEF WsInv, StartTurn, repository, store, past, request
<1>1. WsTypeOK'
  BY DEF WsTypeOK
<1>2. FreshChats'
  BY DEF WsTypeOK, HeldInv, FreshChats, ChatsHeld, Creating
<1>3. ChatsHeld'
  BY DEF WsTypeOK, HeldInv, FreshChats, ChatsHeld, CheckoutHeld, Creating
<1>4. CheckoutHeld'
  BY DEF WsTypeOK, HeldInv, FreshChats, CheckoutHeld, Creating, Direct
<1>5. BranchChosen'
  BY DEF WsTypeOK, HeldInv, BranchChosen
<1>6. TurnOnItsBranch'
  BY DEF WsTypeOK, HeldInv, FreshChats, CheckoutHeld, Creating, TurnOnItsBranch, Direct
<1>. QED BY <1>1, <1>2, <1>3, <1>4, <1>5, <1>6 DEF HeldInv

LEMMA StartResumeKeeps ==
    ASSUME WsInv, NEW c \in Chat, StartResume(c)
    PROVE  WsInv'
<1>. USE NoWishTyped DEF WsInv, StartResume, repository, store, past, request
<1>1. WsTypeOK'
  BY DEF WsTypeOK
<1>2. FreshChats'
  BY DEF WsTypeOK, HeldInv, FreshChats, ChatsHeld, Creating
<1>3. ChatsHeld'
  BY DEF WsTypeOK, HeldInv, FreshChats, ChatsHeld, CheckoutHeld, Creating
<1>4. CheckoutHeld'
  BY DEF WsTypeOK, HeldInv, FreshChats, CheckoutHeld, Creating, Direct
<1>5. BranchChosen'
  BY DEF WsTypeOK, HeldInv, BranchChosen
<1>6. TurnOnItsBranch'
  BY DEF WsTypeOK, HeldInv, FreshChats, CheckoutHeld, Creating, TurnOnItsBranch, Direct
<1>. QED BY <1>1, <1>2, <1>3, <1>4, <1>5, <1>6 DEF HeldInv

\* A turn is admitted on the branch of its chat.
LEMMA StartAgentKeeps ==
    ASSUME WsInv, NEW c \in Chat, StartAgent(c)
    PROVE  WsInv'
<1>. USE NoWishTyped DEF WsInv, StartAgent, Starting, Validates, Recover,
      managed, primary, store, request, Released, SessionEnds
<1>1. WsTypeOK'
  BY DEF WsTypeOK
<1>2. FreshChats'
  BY DEF WsTypeOK, HeldInv, FreshChats, ChatsHeld, Creating
<1>3. ChatsHeld'
  BY DEF WsTypeOK, HeldInv, FreshChats, ChatsHeld, CheckoutHeld, Creating
<1>4. CheckoutHeld'
  BY DEF WsTypeOK, HeldInv, FreshChats, CheckoutHeld, Creating, Direct
<1>5. BranchChosen'
  BY DEF WsTypeOK, HeldInv, BranchChosen
<1>6. TurnOnItsBranch'
  BY DEF WsTypeOK, HeldInv, FreshChats, CheckoutHeld, Creating, TurnOnItsBranch, Direct
<1>. QED BY <1>1, <1>2, <1>3, <1>4, <1>5, <1>6 DEF HeldInv

LEMMA StartFailsKeeps ==
    ASSUME WsInv, NEW c \in Chat, StartFails(c)
    PROVE  WsInv'
<1>. USE NoWishTyped DEF WsInv, StartFails, Starting, Recover, managed,
      primary, store, past, request, Released, SessionEnds
<1>1. WsTypeOK'
  BY DEF WsTypeOK
<1>2. FreshChats'
  BY DEF WsTypeOK, HeldInv, FreshChats, ChatsHeld, Creating
<1>3. ChatsHeld'
  BY DEF WsTypeOK, HeldInv, FreshChats, ChatsHeld, CheckoutHeld, Creating
<1>4. CheckoutHeld'
  BY DEF WsTypeOK, HeldInv, FreshChats, CheckoutHeld, Creating, Direct
<1>5. BranchChosen'
  BY DEF WsTypeOK, HeldInv, BranchChosen
<1>6. TurnOnItsBranch'
  BY DEF WsTypeOK, HeldInv, FreshChats, CheckoutHeld, Creating, TurnOnItsBranch, Direct
<1>. QED BY <1>1, <1>2, <1>3, <1>4, <1>5, <1>6 DEF HeldInv

LEMMA EndTurnKeeps ==
    ASSUME WsInv, NEW c \in Chat, EndTurn(c)
    PROVE  WsInv'
<1>. USE NoWishTyped DEF WsInv, EndTurn, repository, store, past, request,
      Released, SessionEnds
<1>1. WsTypeOK'
  BY DEF WsTypeOK
<1>2. FreshChats'
  BY DEF WsTypeOK, HeldInv, FreshChats, ChatsHeld, Creating
<1>3. ChatsHeld'
  BY DEF WsTypeOK, HeldInv, FreshChats, ChatsHeld, CheckoutHeld, Creating
<1>4. CheckoutHeld'
  BY DEF WsTypeOK, HeldInv, FreshChats, CheckoutHeld, Creating, Direct
<1>5. BranchChosen'
  BY DEF WsTypeOK, HeldInv, BranchChosen
<1>6. TurnOnItsBranch'
  BY DEF WsTypeOK, HeldInv, FreshChats, CheckoutHeld, Creating, TurnOnItsBranch, Direct
<1>. QED BY <1>1, <1>2, <1>3, <1>4, <1>5, <1>6 DEF HeldInv

LEMMA StopAgentKeeps ==
    ASSUME WsInv, NEW c \in Chat, StopAgent(c)
    PROVE  WsInv'
<1>. USE NoWishTyped DEF WsInv, StopAgent, repository, store, past, request
<1>1. WsTypeOK'
  BY DEF WsTypeOK
<1>2. FreshChats'
  BY DEF WsTypeOK, HeldInv, FreshChats, ChatsHeld, Creating
<1>3. ChatsHeld'
  BY DEF WsTypeOK, HeldInv, FreshChats, ChatsHeld, CheckoutHeld, Creating
<1>4. CheckoutHeld'
  BY DEF WsTypeOK, HeldInv, FreshChats, CheckoutHeld, Creating, Direct
<1>5. BranchChosen'
  BY DEF WsTypeOK, HeldInv, BranchChosen
<1>6. TurnOnItsBranch'
  BY DEF WsTypeOK, HeldInv, FreshChats, CheckoutHeld, Creating, TurnOnItsBranch, Direct
<1>. QED BY <1>1, <1>2, <1>3, <1>4, <1>5, <1>6 DEF HeldInv

-----------------------------------------------------------------------------
(* The user, the agents and a crash.                                       *)

LEMMA WorkInTreeKeeps ==
    ASSUME WsInv, NEW c \in Chat, WorkInTree(c)
    PROVE  WsInv'
<1>. USE NoWishTyped DEF WsInv, WorkInTree, Outside, primary, store, hub,
      request
<1>1. WsTypeOK'
  BY DEF WsTypeOK
<1>2. FreshChats'
  BY DEF WsTypeOK, HeldInv, FreshChats, ChatsHeld, Creating
<1>3. ChatsHeld'
  BY DEF WsTypeOK, HeldInv, FreshChats, ChatsHeld, CheckoutHeld, Creating
<1>4. CheckoutHeld'
  BY DEF WsTypeOK, HeldInv, FreshChats, CheckoutHeld, Creating, Direct
<1>5. BranchChosen'
  BY DEF WsTypeOK, HeldInv, BranchChosen
<1>6. TurnOnItsBranch'
  BY DEF WsTypeOK, HeldInv, FreshChats, CheckoutHeld, Creating, TurnOnItsBranch, Direct
<1>. QED BY <1>1, <1>2, <1>3, <1>4, <1>5, <1>6 DEF HeldInv

LEMMA RemoveByHandKeeps ==
    ASSUME WsInv, NEW c \in Chat, RemoveByHand(c)
    PROVE  WsInv'
<1>. USE NoWishTyped DEF WsInv, RemoveByHand, Outside, primary, store, hub,
      request
<1>1. WsTypeOK'
  BY DEF WsTypeOK
<1>2. FreshChats'
  BY DEF WsTypeOK, HeldInv, FreshChats, ChatsHeld, Creating
<1>3. ChatsHeld'
  BY DEF WsTypeOK, HeldInv, FreshChats, ChatsHeld, CheckoutHeld, Creating
<1>4. CheckoutHeld'
  BY DEF WsTypeOK, HeldInv, FreshChats, CheckoutHeld, Creating, Direct
<1>5. BranchChosen'
  BY DEF WsTypeOK, HeldInv, BranchChosen
<1>6. TurnOnItsBranch'
  BY DEF WsTypeOK, HeldInv, FreshChats, CheckoutHeld, Creating, TurnOnItsBranch, Direct
<1>. QED BY <1>1, <1>2, <1>3, <1>4, <1>5, <1>6 DEF HeldInv

\* A switch by the user is noted in drift.
LEMMA WorkInPrimaryKeeps ==
    ASSUME WsInv, WorkInPrimary
    PROVE  WsInv'
<1>. USE NoWishTyped DEF WsInv, WorkInPrimary, Outside, managed, store, hub,
      request
<1>1. WsTypeOK'
  <2>1. edited' \in BOOLEAN
    BY Zenon DEF WsTypeOK
  <2>. QED BY <2>1 DEF WsTypeOK
<1>2. FreshChats'
  BY DEF WsTypeOK, HeldInv, FreshChats, ChatsHeld, Creating
<1>3. ChatsHeld'
  BY DEF WsTypeOK, HeldInv, FreshChats, ChatsHeld, CheckoutHeld, Creating
<1>4. CheckoutHeld'
  BY DEF WsTypeOK, HeldInv, FreshChats, CheckoutHeld, Creating, Direct
<1>5. BranchChosen'
  BY DEF WsTypeOK, HeldInv, BranchChosen
<1>6. TurnOnItsBranch'
  BY DEF WsTypeOK, HeldInv, FreshChats, CheckoutHeld, Creating, TurnOnItsBranch, Direct
<1>. QED BY <1>1, <1>2, <1>3, <1>4, <1>5, <1>6 DEF HeldInv

LEMMA HubCrashKeeps ==
    ASSUME WsInv, HubCrash
    PROVE  WsInv'
<1>. USE NoWishTyped DEF WsInv, HubCrash, Outside, repository, store
<1>1. WsTypeOK'
  BY DEF WsTypeOK
<1>2. FreshChats'
  BY DEF WsTypeOK, HeldInv, FreshChats, ChatsHeld, Creating
<1>3. ChatsHeld'
  BY DEF WsTypeOK, HeldInv, FreshChats, ChatsHeld, CheckoutHeld, Creating
<1>4. CheckoutHeld'
  BY DEF WsTypeOK, HeldInv, FreshChats, CheckoutHeld, Creating, Direct
<1>5. BranchChosen'
  BY DEF WsTypeOK, HeldInv, BranchChosen
<1>6. TurnOnItsBranch'
  BY DEF WsTypeOK, HeldInv, FreshChats, CheckoutHeld, Creating, TurnOnItsBranch, Direct
<1>. QED BY <1>1, <1>2, <1>3, <1>4, <1>5, <1>6 DEF HeldInv

-----------------------------------------------------------------------------
(* The theorems.                                                           *)

LEMMA WsInvInit == WsInit => WsInv
<1>. SUFFICES ASSUME WsInit PROVE WsInv
  OBVIOUS
<1>1. WsTypeOK
  BY NoWishTyped DEF WsInit, WsTypeOK
<1>. QED
  BY <1>1 DEF WsInit, WsInv, HeldInv, FreshChats, ChatsHeld, CheckoutHeld, BranchChosen,
              Creating, TurnOnItsBranch, Direct

LEMMA WsInvNext == WsInv /\ [WsNext]_wsVars => WsInv'
<1>. SUFFICES ASSUME WsInv, [WsNext]_wsVars PROVE WsInv'
  OBVIOUS
<1>1. ASSUME NEW w \in Worker, RequestStep(w) PROVE WsInv'
  BY <1>1, CreateRequestKeeps, CreateInspectKeeps, CreateBranchKeeps,
     AddTreeKeeps, CheckSubdirKeeps, PrepareKeeps, SwitchKeeps,
     InsertRowsKeeps, CheckTreeKeeps, RemoveTreeKeeps, RollbackKeeps,
     DeleteChatKeeps, DeleteRowKeeps, DeleteProjectKeeps, DeleteOwnedKeeps,
     DeleteProjectRowKeeps, SyncCheckKeeps, SyncReserveKeeps,
     FastForwardKeeps DEF RequestStep
<1>2. ASSUME NEW c \in Chat, SessionStep(c) PROVE WsInv'
  BY <1>2, StartTurnKeeps, StartResumeKeeps, StartAgentKeeps, StartFailsKeeps,
     EndTurnKeeps, StopAgentKeeps DEF SessionStep
<1>3. CASE OutsideStep
  BY <1>3, WorkInTreeKeeps, RemoveByHandKeeps, WorkInPrimaryKeeps, HubCrashKeeps DEF OutsideStep
<1>4. CASE UNCHANGED wsVars
  BY <1>4 DEF wsVars, repository, managed, primary, store, hub, request, past, WsInv, WsTypeOK,
              HeldInv, FreshChats, ChatsHeld, CheckoutHeld, BranchChosen, TurnOnItsBranch, Direct
<1>. QED BY <1>1, <1>2, <1>3, <1>4 DEF WsNext

\* Types, who holds a chat and who holds the mutex of the primary checkout, for every set
\* of chats, branches and requests (service/chats.rs:360-430, session/mod.rs:682): the
\* inductive invariant.
THEOREM WsInvHolds == WsSpec => []WsInv
BY WsInvInit, WsInvNext, PTL DEF WsSpec

\* The hub switches or fast-forwards the primary checkout only while no turn works in it
\* (service/chats.rs:412, service/workspaces.rs:135).
THEOREM CheckoutQuietHolds == WsSpec => []CheckoutQuiet
<1>1. WsInv => CheckoutQuiet
  BY DEF WsInv, WsTypeOK, HeldInv, CheckoutHeld, CheckoutQuiet, Direct
<1>. QED BY <1>1, WsInvHolds, PTL

\* A turn in the primary checkout stays on the branch of its chat, unless the user
\* switches under it (workspace/mod.rs, validate_direct).
THEOREM TurnOnItsBranchHolds == WsSpec => []TurnOnItsBranch
BY WsInvHolds, PTL DEF WsInv

\* A turn in the primary checkout finds its branch and finds it still
\* (service/chats.rs:412, service/workspaces.rs:135).
THEOREM CheckoutStaysAlways == WsSpec => []CheckoutStays
<1>1. WsInv => WsTypeOK
  BY DEF WsInv
<1> QED BY <1>1, WsInvHolds, CheckoutQuietHolds, TurnOnItsBranchHolds, PTL DEF CheckoutStays

-----------------------------------------------------------------------------
(* What the hub destroys.                                                  *)

\* Only RemoveTree and Rollback destroy anything, each behind the check that the Git
\* command makes itself.
LEMMA WorkSurvivesNext == WsInv /\ WorkSurvives /\ [WsNext]_wsVars => WorkSurvives'
<1>. SUFFICES ASSUME WsInv, WorkSurvives, [WsNext]_wsVars PROVE WorkSurvives'
  OBVIOUS
<1>1. ASSUME NEW w \in Worker, RemoveTree(w) PROVE WorkSurvives'
  BY <1>1 DEF RemoveTree, WorkSurvives, Refused, Ends, AfterTree
<1>2. ASSUME NEW w \in Worker, Rollback(w) PROVE WorkSurvives'
  <2>1. tip[on[w]] = "work" => tip' = tip
    BY <1>2 DEF Rollback, Unmoved
  <2>2. lost' = lost
    BY <1>2, <2>1 DEF Rollback, WsInv, WsTypeOK
  <2>. QED BY <2>2 DEF WorkSurvives
<1>3. CASE UNCHANGED lost
  BY <1>3 DEF WorkSurvives
<1>4. ASSUME NEW w \in Worker, RequestStep(w), ~RemoveTree(w), ~Rollback(w) PROVE UNCHANGED lost
  BY <1>4 DEF RequestStep, CreateRequest, CreateInspect, CreateBranch, AddTree, CheckSubdir,
         Prepare, Switch, InsertRows, CheckTree, DeleteChat, DeleteRow, DeleteProject,
         DeleteOwned, DeleteProjectRow, SyncCheck, SyncReserve, FastForward, past
<1>5. ASSUME NEW c \in Chat, SessionStep(c) PROVE UNCHANGED lost
  BY <1>5 DEF SessionStep, StartTurn, StartResume, StartAgent, StartFails, EndTurn, StopAgent, past
<1>6. ASSUME OutsideStep PROVE UNCHANGED lost
  BY <1>6 DEF OutsideStep, WorkInTree, RemoveByHand, WorkInPrimary, HubCrash
<1>7. ASSUME UNCHANGED wsVars PROVE UNCHANGED lost
  BY <1>7 DEF wsVars, past
<1>. QED BY <1>1, <1>2, <1>3, <1>4, <1>5, <1>6, <1>7 DEF WsNext

\* Deletions and undone creations destroy no modified file and no commit of a managed
\* worktree, whatever the user does between the check and the Git command
\* (workspace/mod.rs, remove_managed_on_branch and rollback_provision).
THEOREM WorkSurvivesHolds == WsSpec => []WorkSurvives
<1>1. WsInit => WorkSurvives
  BY DEF WsInit, WorkSurvives
<1>. QED BY <1>1, WorkSurvivesNext, WsInvHolds, PTL DEF WsSpec

-----------------------------------------------------------------------------
(* The grants of a project's .envrc.  A grant is written two steps after    *)
(* the user was asked, from the file as it is then.  It was reviewed        *)
(* because the fingerprint it is compared with was, and has been kept       *)
(* since the request: `PrintsReviewed`.                                     *)

PrintsReviewed == \A c \in EnvChat : approvePrint[c] # Absent => approvePrint[c] \in reviewed

GrantInv == EnvTypeOK /\ PrintsReviewed /\ GrantWasReviewed

-----------------------------------------------------------------------------
\* What direnv is told keeps its two lists typed.
LEMMA AllowTyped ==
    ASSUME EnvTypeOK, NEW c \in EnvChat, file[c] # Absent, DirenvAllow(c)
    PROVE  allowed' \in [EnvChat -> SUBSET Content] /\ denied' \subseteq EnvChat
<1>1. file[c] \in Content
  BY DEF EnvTypeOK, File
<1>. QED BY <1>1 DEF EnvTypeOK, DirenvAllow

LEMMA DenyTyped ==
    ASSUME EnvTypeOK, NEW c \in EnvChat, DirenvDeny(c)
    PROVE  allowed' \in [EnvChat -> SUBSET Content] /\ denied' \subseteq EnvChat
BY DEF EnvTypeOK, DirenvDeny

\* A step that leaves the grant, the fingerprints of requests and what was reviewed.
LEMMA OtherStep ==
    ASSUME GrantInv, EnvTypeOK', UNCHANGED <<grant, approvePrint, reviewed>>
    PROVE  GrantInv'
BY DEF GrantInv, PrintsReviewed, GrantWasReviewed

\* ensure_running and try_auto_allow_from_project_grant.
LEMMA StartKeeps ==
    ASSUME GrantInv, NEW c \in EnvChat,
           \/ StartEnv(c) \/ StartExport(c) \/ MatchGrant(c)
           \/ AutoAllow(c) \/ AutoCompare(c) \/ AutoDeny(c)
    PROVE  GrantInv'
<1>1. UNCHANGED <<grant, approvePrint, reviewed>>
  BY DEF StartEnv, StartExport, MatchGrant, AutoAllow, AutoCompare, AutoDeny, approvals
<1>2. CASE StartEnv(c)
  BY <1>1, <1>2, OtherStep
     DEF StartEnv, StartGoes, GrantInv, EnvTypeOK, direnv, approvals
<1>3. CASE StartExport(c)
  BY <1>1, <1>3, OtherStep
     DEF StartExport, StartGoes, Loaded, GrantInv, EnvTypeOK, File, direnv, approvals
<1>4. CASE MatchGrant(c)
  BY <1>1, <1>4, OtherStep
     DEF MatchGrant, StartGoes, GrantInv, EnvTypeOK, direnv, approvals
<1>5. CASE AutoAllow(c)
  <2>1. allowed' \in [EnvChat -> SUBSET Content] /\ denied' \subseteq EnvChat
    BY <1>5, AllowTyped DEF AutoAllow, GrantInv, EnvTypeOK, direnv
  <2>. QED
    BY <1>1, <1>5, <2>1, OtherStep DEF AutoAllow, StartGoes, GrantInv, EnvTypeOK, approvals
<1>6. CASE AutoCompare(c)
  BY <1>1, <1>6, OtherStep
     DEF AutoCompare, StartGoes, GrantInv, EnvTypeOK, File, direnv, approvals
<1>7. CASE AutoDeny(c)
  <2>1. allowed' \in [EnvChat -> SUBSET Content] /\ denied' \subseteq EnvChat
    BY <1>7, DenyTyped DEF AutoDeny, GrantInv
  <2>. QED
    BY <1>1, <1>7, <2>1, OtherStep DEF AutoDeny, StartGoes, GrantInv, EnvTypeOK, approvals
<1>. QED BY <1>2, <1>3, <1>4, <1>5, <1>6, <1>7

\* The request is remembered with the fingerprint of what its user saw.
LEMMA AuthorizeKeeps ==
    ASSUME GrantInv, NEW c \in EnvChat, NEW keep \in BOOLEAN, Authorize(c, keep)
    PROVE  GrantInv'
<1>1. EnvTypeOK'
  BY DEF Authorize, ApproveGoes, GrantInv, EnvTypeOK, File, direnv, starts
<1>2. reviewed \subseteq reviewed' /\ grant' = grant
  BY DEF Authorize
<1>3. keep /\ file[c] # Absent => file[c] \in reviewed'
  BY DEF Authorize
<1>4. PrintsReviewed'
  BY <1>2, <1>3 DEF Authorize, GrantInv, EnvTypeOK, PrintsReviewed
<1>. QED BY <1>1, <1>2, <1>4 DEF GrantInv, GrantWasReviewed

\* The grant is the fingerprint that was kept.
LEMMA RememberKeeps ==
    ASSUME GrantInv, NEW c \in EnvChat, RememberGrant(c)
    PROVE  GrantInv'
<1>1. EnvTypeOK'
  BY DEF RememberGrant, SameContent, ApproveGoes, GrantInv, EnvTypeOK, File, direnv, starts
<1>2. PrintsReviewed'
  BY DEF RememberGrant, GrantInv, EnvTypeOK, PrintsReviewed
<1>3. GrantWasReviewed'
  <2>1. CASE SameContent(c)
    BY <2>1 DEF RememberGrant, SameContent, GrantInv, PrintsReviewed, GrantWasReviewed
  <2>2. CASE ~SameContent(c)
    BY <2>2 DEF RememberGrant, GrantInv, GrantWasReviewed
  <2>. QED BY <2>1, <2>2
<1>. QED BY <1>1, <1>2, <1>3 DEF GrantInv

\* The other steps of authorize_chat_environment.
LEMMA ApproveKeeps ==
    ASSUME GrantInv, NEW c \in EnvChat,
           ApproveAllow(c) \/ ApproveDeny(c) \/ InvalidateEnv(c) \/ ApproveExport(c)
    PROVE  GrantInv'
<1>1. UNCHANGED <<grant, approvePrint, reviewed>>
  BY DEF ApproveAllow, ApproveDeny, InvalidateEnv, ApproveExport
<1>2. CASE ApproveAllow(c)
  <2>1. allowed' \in [EnvChat -> SUBSET Content] /\ denied' \subseteq EnvChat
    BY <1>2, AllowTyped DEF ApproveAllow, GrantInv, EnvTypeOK, direnv
  <2>. QED
    BY <1>1, <1>2, <2>1, OtherStep
       DEF ApproveAllow, ApproveGoes, GrantInv, EnvTypeOK, starts
<1>3. CASE ApproveDeny(c)
  <2>1. allowed' \in [EnvChat -> SUBSET Content] /\ denied' \subseteq EnvChat
    BY <1>3, DenyTyped DEF ApproveDeny, GrantInv
  <2>. QED
    BY <1>1, <1>3, <2>1, OtherStep
       DEF ApproveDeny, ApproveGoes, GrantInv, EnvTypeOK, starts
<1>4. CASE InvalidateEnv(c)
  BY <1>1, <1>4, OtherStep
     DEF InvalidateEnv, ApproveGoes, GrantInv, EnvTypeOK, direnv, starts
<1>5. CASE ApproveExport(c)
  BY <1>1, <1>5, OtherStep
     DEF ApproveExport, ApproveGoes, Loaded, GrantInv, EnvTypeOK, File, direnv, starts
<1>. QED BY <1>2, <1>3, <1>4, <1>5

\* Somebody else's steps.
LEMMA OutsideKeeps ==
    ASSUME GrantInv, ForgetGrant \/ \E c \in EnvChat : EditFile(c)
    PROVE  GrantInv'
<1>1. CASE ForgetGrant
  BY <1>1 DEF ForgetGrant, GrantInv, EnvTypeOK, File, PrintsReviewed, GrantWasReviewed,
              direnv, starts, approvals
<1>2. ASSUME NEW c \in EnvChat, EditFile(c) PROVE GrantInv'
  <2>1. edits' \in 0..MaxEdit
    BY <1>2, EnvrcAssumption DEF EditFile, GrantInv, EnvTypeOK
  <2>. QED
    BY <1>2, <2>1, OtherStep DEF EditFile, GrantInv, EnvTypeOK, direnv, starts, approvals
<1>. QED BY <1>1, <1>2

-----------------------------------------------------------------------------
(* The theorems.                                                           *)

\* Types hold, and whatever fingerprint a request keeps was before its user
\* (service/chats.rs:774-800): the inductive invariant.
THEOREM GrantInvHolds == EnvSpec => []GrantInv
<1>1. EnvInit => GrantInv
  BY EnvrcAssumption
     DEF EnvInit, GrantInv, EnvTypeOK, File, PrintsReviewed, GrantWasReviewed
<1>2. GrantInv /\ [EnvNext]_envVars => GrantInv'
  <2>. SUFFICES ASSUME GrantInv, [EnvNext]_envVars PROVE GrantInv'
    OBVIOUS
  <2>1. CASE EnvNext
    BY <2>1, StartKeeps, AuthorizeKeeps, RememberKeeps, ApproveKeeps, OutsideKeeps DEF EnvNext
  <2>2. CASE UNCHANGED envVars
    BY <2>2 DEF GrantInv, EnvTypeOK, PrintsReviewed, GrantWasReviewed, envVars, starts,
                approvals, direnv
  <2>. QED BY <2>1, <2>2
<1>. QED BY <1>1, <1>2, PTL DEF EnvSpec

\* The project's grant names content that a user had before them, whatever is
\* written to the file while direnv runs (service/chats.rs:774-800).
THEOREM GrantWasReviewedHolds == EnvSpec => []GrantWasReviewed
BY GrantInvHolds, PTL DEF GrantInv

-----------------------------------------------------------------------------
(* WorktreeRules                                                           *)

WrSpec == WrInit /\ [][WrNext]_wrVars

\* A decision is made once, about what does not change.
Decides ==
    /\ \/ world.is = "chat" /\ world.chat \in ChatCase
       \/ world.is = "tree" /\ world.tree \in Tree
    /\ \/ decision.is = "none"
       \/ /\ world.is = "chat" /\ decision.is \in {"runs", "refused"}
          /\ decision.paths = SessionPaths(world.chat)
          /\ decision.is = "runs" => Validated(world.chat)
       \/ /\ world.is = "tree" /\ decision.is \in {"refused", "removed"}
          /\ decision.is = "removed" => ~Dirty(world.tree)

LEMMA FallbackIs ==
    ASSUME NEW d, NEW e PROVE Fallback({e}, d) = e /\ Fallback({}, d) = d
BY DEF Fallback

LEMMA DirFields == ASSUME NEW b, NEW s PROVE Dir(b, s).base = b /\ Dir(b, s).sub = s
BY DEF Dir

LEMMA CanonicalIs ==
    ASSUME NEW d PROVE
    /\ d.sub = "out" => Canonical(d) = Dir("plain", "")
    /\ d.sub # "out" /\ d.base = "alias" => Canonical(d) = Dir("repo", d.sub)
    /\ d.sub # "out" /\ d.base # "alias" => Canonical(d) = d
BY DEF Canonical

\* The top level of a repository, which has one name.
LEMMA RootIs ==
    ASSUME NEW d, NEW root \in RootOf(d) PROVE
    /\ RootOf(d) = {root}
    /\ root.base \notin {"plain", "alias"} /\ root.sub = "" /\ Canonical(root) = root
<1>1. RootOf(d) = {Dir(Canonical(d).base, "")} /\ Canonical(d).base # "plain"
  BY DEF RootOf
<1>2. Canonical(d).base # "alias"
  BY DEF Canonical, Dir
<1>3. root = Dir(Canonical(d).base, "") /\ RootOf(d) = {root}
  BY <1>1
<1>4. root.base = Canonical(d).base /\ root.sub = ""
  BY <1>3 DEF Dir
<1>5. Canonical(root) = root
  BY <1>2, <1>4, CanonicalIs
<1> QED BY <1>1, <1>2, <1>3, <1>4, <1>5

\* A directory of a checkout that is found in it.
LEMMA InsideIs ==
    ASSUME NEW base, base.sub = "", base.base # "plain", NEW sub, NEW d \in Inside(base, sub) PROVE
    /\ Joined(base, sub) = {Dir(base.base, sub)} /\ d = Dir(base.base, sub)
    /\ Canonical(d) = Dir(Canonical(base).base, sub)
<1>1. Joined(base, sub) = {Dir(base.base, sub)}
  BY DEF Inside, Joined
<1>2. d = Dir(base.base, sub) /\ Canonical(d).base = Canonical(base).base
  BY <1>1 DEF Inside, Within
<1>3. d.base = base.base /\ d.sub = sub
  BY <1>2, DirFields
<1>4. Canonical(base).base = IF base.base = "alias" THEN "repo" ELSE base.base
  BY DEF Canonical, Dir
<1>5. sub # "out"
  BY <1>2, <1>3, <1>4 DEF Canonical, Dir
<1>6. Canonical(d) = Dir(Canonical(base).base, sub)
  <2>1. CASE base.base = "alias"
    BY <1>3, <1>4, <1>5, <2>1, CanonicalIs
  <2>2. CASE base.base # "alias"
    BY <1>2, <1>3, <1>4, <1>5, <2>2, CanonicalIs
  <2> QED BY <2>1, <2>2
<1> QED BY <1>1, <1>2, <1>6

LEMMA RowIs ==
    ASSUME NEW c \in ChatCase PROVE
    /\ c.row.mode \in {"managed", "direct", "legacy"}
    /\ c.row.mode = "direct" => c.row.path.sub = "" /\ c.row.path.base # "plain"
<1>1. c.row \in Row
  BY DEF ChatCase
<1>2. CASE c.row = [mode |-> "legacy"]
  BY <1>2
<1>3. CASE c.row # [mode |-> "legacy"]
  <2>1. c.row.mode \in {"direct", "managed"}
    BY <1>1, <1>3 DEF Row
  <2>2. c.row.path \in {Dir("repo", ""), Dir("alias", ""), Dir("tree", ""), Dir("trees", "")}
    BY <1>1, <1>3 DEF Row
  <2>3. ASSUME NEW d, NEW base \in {"repo", "alias", "tree", "trees"}, d = Dir(base, "")
        PROVE d.sub = "" /\ d.base # "plain"
    BY <2>3 DEF Dir
  <2> QED BY <2>1, <2>2, <2>3
<1> QED BY <1>2, <1>3

LEMMA ManagedRuns ==
    ASSUME NEW c, c.row.mode = "managed", Validated(c) PROVE
    /\ Canonical(SessionPaths(c).cwd) = Dir("tree", Canonical(c.project).sub)
    /\ SessionPaths(c).lock = {}
<1> DEFINE sub == c.row.sub
           own == Dir("tree", "")
<1>1. PICK root \in RootOf(c.project) : IsProject(c, root)
  BY DEF Validated
<1>2. \E d \in Inside(own, sub) : TRUE
  BY DEF Validated
<1>3. Canonical(c.project).sub = sub
  <2>1. PICK d \in Inside(root, sub) : Canonical(d) = Canonical(c.project)
    BY <1>1 DEF IsProject, Same
  <2>2. root.sub = "" /\ root.base # "plain"
    BY RootIs
  <2>3. Canonical(d) = Dir(Canonical(root).base, sub)
    BY <2>1, <2>2, InsideIs
  <2> QED BY <2>1, <2>3 DEF Dir
<1>4. Joined(own, sub) = {Dir(own.base, sub)} /\ Canonical(Dir(own.base, sub)) = Dir(own.base, sub)
  <2>1. own.sub = "" /\ own.base # "plain" /\ Canonical(own).base = own.base
    BY DEF Dir, Canonical
  <2> HIDE DEF own
  <2> QED BY <1>2, <2>1, InsideIs
<1>5. SessionPaths(c) = [cwd |-> Fallback(Joined(own, sub), c.project), lock |-> {}]
  BY DEF SessionPaths
<1>6. SessionPaths(c).cwd = Dir(own.base, sub) /\ SessionPaths(c).lock = {}
  <2> HIDE DEF own
  <2>1. Fallback({Dir(own.base, sub)}, c.project) = Dir(own.base, sub)
    BY FallbackIs
  <2> QED BY <1>4, <1>5, <2>1
<1>7. own.base = "tree"
  BY DEF Dir
<1> QED BY <1>3, <1>4, <1>6, <1>7

LEMMA DirectRuns ==
    ASSUME NEW c \in ChatCase, c.row.mode = "direct", Validated(c) PROVE
    /\ Canonical(SessionPaths(c).cwd) = Canonical(c.project)
    /\ SessionPaths(c).lock = RootOf(c.project)
<1> DEFINE sub == c.row.sub
           path == c.row.path
<1>1. PICK root \in RootOf(c.project) :
        Same(root, c.row.root) /\ Same(path, root) /\ IsProject(c, root)
  BY DEF Validated
<1>2. PICK e \in Inside(path, sub) : TRUE
  BY DEF Validated
<1>3. path.sub = "" /\ path.base # "plain"
  BY RowIs
<1>4. Canonical(c.project) = Dir(root.base, sub)
  <2>1. PICK d \in Inside(root, sub) : Canonical(d) = Canonical(c.project)
    BY <1>1 DEF IsProject, Same
  <2>2. root.sub = "" /\ root.base # "plain" /\ Canonical(root) = root
    BY RootIs
  <2>3. Canonical(d) = Dir(Canonical(root).base, sub)
    BY <2>1, <2>2, InsideIs
  <2> QED BY <2>1, <2>2, <2>3
<1>5. Joined(path, sub) = {Dir(path.base, sub)} /\ Canonical(Dir(path.base, sub)) = Dir(root.base, sub)
  <2>1. Canonical(path) = root
    BY <1>1, RootIs DEF Same
  <2>2. /\ Joined(path, sub) = {Dir(path.base, sub)} /\ e = Dir(path.base, sub)
        /\ Canonical(e) = Dir(Canonical(path).base, sub)
    BY <1>2, <1>3, InsideIs
  <2> QED BY <2>1, <2>2
<1>6. CheckoutKey(c.row.root) = root /\ RootOf(c.project) = {root}
  BY <1>1, RootIs DEF Same, CheckoutKey
<1>7. SessionPaths(c) = [cwd |-> Fallback(Joined(path, sub), c.project), lock |-> {CheckoutKey(c.row.root)}]
  BY DEF SessionPaths
<1>8. SessionPaths(c).cwd = Dir(path.base, sub)
  <2>1. Fallback({Dir(path.base, sub)}, c.project) = Dir(path.base, sub)
    BY FallbackIs
  <2> QED BY <1>5, <1>7, <2>1
<1>9. SessionPaths(c).lock = {root}
  BY <1>6, <1>7
<1> QED BY <1>4, <1>5, <1>6, <1>8, <1>9

LEMMA LegacyRuns ==
    ASSUME NEW c, c.row.mode = "legacy" PROVE
    /\ SessionPaths(c).cwd = c.project
    /\ c.asked /\ RootOf(c.project) # {} => SessionPaths(c).lock = RootOf(c.project)
<1>1. SessionPaths(c) =
        [cwd |-> c.project,
         lock |-> {CheckoutKey(Fallback(IF c.asked THEN RootOf(c.project) ELSE {}, c.project))}]
  BY DEF SessionPaths
<1>2. ASSUME c.asked, NEW root \in RootOf(c.project) PROVE SessionPaths(c).lock = RootOf(c.project)
  <2>1. RootOf(c.project) = {root} /\ CheckoutKey(root) = root
    BY RootIs DEF CheckoutKey
  <2>2. SessionPaths(c).lock = {CheckoutKey(Fallback({root}, c.project))}
    BY <1>1, <1>2, <2>1
  <2> QED BY <2>1, <2>2, FallbackIs
<1> QED BY <1>1, <1>2

LEMMA DirtyHolds ==
    ASSUME NEW own \in Tree, ~Dirty(own) PROVE
    /\ own.status \subseteq {"cache"}
    /\ "cache" \in own.status =>
        /\ DOMAIN own.holds \subseteq {"profile"} \cup Generation
        /\ own.holds["profile"] \in Generation \cap DOMAIN own.holds
        /\ \A g \in Generation \cap DOMAIN own.holds : own.holds[g] \in {"store", "store gone"}
<1>1. \A line \in own.status : line = "cache" /\ Disposable(own)
  BY DEF Dirty
<1>2. ASSUME Disposable(own) PROVE
        /\ DOMAIN own.holds \subseteq {"profile"} \cup Generation
        /\ own.holds["profile"] \in Generation \cap DOMAIN own.holds
        /\ \A g \in Generation \cap DOMAIN own.holds : own.holds[g] \in {"store", "store gone"}
  BY <1>2 DEF Disposable, InStore, Generation
<1> QED BY <1>1, <1>2

LEMMA DecidesRight == ASSUME Decides PROVE RulesHold
<1>1. ASSUME world.is = "chat", decision.is = "runs" PROVE RunsInItsDirectory /\ OneLockPerCheckout
  <2>1. /\ world.chat \in ChatCase /\ Validated(world.chat)
        /\ decision.paths = SessionPaths(world.chat)
    BY <1>1 DEF Decides
  <2>2. world.chat.row.mode \in {"managed", "direct", "legacy"}
    BY <2>1, RowIs
  <2> QED BY <2>1, <2>2, ManagedRuns, DirectRuns, LegacyRuns DEF RunsInItsDirectory, OneLockPerCheckout
<1>2. ASSUME decision.is = "removed" PROVE OnlyCacheLost
  BY <1>2, DirtyHolds DEF Decides, OnlyCacheLost
<1> QED BY <1>1, <1>2 DEF RulesHold, RunsInItsDirectory, OneLockPerCheckout, OnlyCacheLost

\* A chat's agent runs in the directory that its row stands for and under the lock of its
\* checkout, and a worktree that is removed held nothing but the cache, for every row that
\* may be stored and every state of the directories (session/mod.rs, workspace/mod.rs).
THEOREM RulesHoldAlways == WrSpec => []RulesHold
<1>1. WrInit => Decides
  BY DEF WrInit, Decides
<1>2. Decides /\ [WrNext]_wrVars => Decides'
  <2> SUFFICES ASSUME Decides, [WrNext]_wrVars PROVE Decides'
    OBVIOUS
  <2>1. CASE StartChatIn
    BY <2>1 DEF StartChatIn, Decides
  <2>2. CASE CheckTreeClean
    BY <2>2 DEF CheckTreeClean, Decides
  <2>3. CASE UNCHANGED wrVars
    BY <2>3 DEF wrVars, Decides
  <2> QED BY <2>1, <2>2, <2>3 DEF WrNext
<1>3. Decides => RulesHold
  BY DecidesRight
<1> QED BY <1>1, <1>2, <1>3, PTL DEF WrSpec

-----------------------------------------------------------------------------
(* LaunchEnv                                                               *)

LaunchSpec == LeInit /\ [][LeNext]_leVars

\* Where the values of each layer come from. Once the secrets are put aside, no layer
\* below them has their names from the server.
SourcesApart ==
    /\ \A n \in DOMAIN host : host[n] = "host"
    /\ \A n \in DOMAIN stash : stash[n] = "host" /\ n \notin DOMAIN host
    /\ \A n \in DOMAIN launch.env : launch.env[n] = "launch"
    /\ \A n \in DOMAIN overrides[Agent] : overrides[Agent][n] = Agent
    /\ DOMAIN diff \subseteq Name

\* No process is started before the secrets are put aside, and a chat's agent has the
\* environment that the layers make now.
ChatAsLayered ==
    /\ ~served => Unstarted
    /\ last.is \in {"none", "edited"} => DOMAIN last = {"is"}
    /\ last.is = "chat" => last = [is |-> "chat", env |-> ChatEnv]

OverridesWithin == Cardinality(DOMAIN overrides[Agent]) <= MaxVars

LeInv == EnvsHold /\ SourcesApart /\ ChatAsLayered

-----------------------------------------------------------------------------
(* The layers                                                              *)

LEMMA EnvIs ==
    ASSUME NEW f PROVE
    f \in Env <=> /\ f = [n \in DOMAIN f |-> f[n]] /\ DOMAIN f \subseteq Name
                  /\ \A n \in DOMAIN f : f[n] \in Origin
<1>1. ASSUME f \in Env PROVE f = [n \in DOMAIN f |-> f[n]] /\ DOMAIN f \subseteq Name /\ \A n \in DOMAIN f : f[n] \in Origin
  <2>1. PICK d \in SUBSET Name : f \in [d -> Origin]
    BY <1>1 DEF Env
  <2> QED BY <2>1
<1>2. ASSUME f = [n \in DOMAIN f |-> f[n]], DOMAIN f \subseteq Name, \A n \in DOMAIN f : f[n] \in Origin PROVE f \in Env
  <2>1. f \in [DOMAIN f -> Origin]
    BY <1>2
  <2> QED BY <1>2, <2>1 DEF Env
<1> QED BY <1>1, <1>2

LEMMA AboveTyped == ASSUME NEW f \in Env, NEW g \in Env PROVE Above(f, g) \in Env
BY EnvIs DEF Above

LEMMA FromTyped ==
    ASSUME NEW o \in Origin, NEW S \in SUBSET Name PROVE From(o, S) \in Env
BY DEF From, Env

LEMMA RestrictTyped == ASSUME NEW f \in Env, NEW S, S \subseteq DOMAIN f PROVE Restrict(f, S) \in Env
<1>1. S \subseteq Name /\ \A n \in S : f[n] \in Origin
  BY EnvIs
<1> QED BY <1>1 DEF Restrict, Env

LEMMA WithoutTyped == ASSUME NEW f \in Env, NEW S PROVE Without(f, S) \in Env
BY RestrictTyped DEF Without

\* What a name has in the environment of a process.
LEMMA ResolvedIs ==
    ASSUME LeTypeOK, SourcesApart, NEW base \in Env, NEW over \in Env, NEW n \in Name PROVE
    LET result == Resolve(base, over) IN
    /\ n \in DOMAIN over => n \in DOMAIN result /\ result[n] = over[n]
    /\ n \in DOMAIN stash \ DOMAIN over =>
        /\ n \in DOMAIN result <=> n \in launch.pass
        /\ n \in DOMAIN result => result[n] = "host"
    /\ n \notin DOMAIN stash \cup DOMAIN over =>
        /\ n \in DOMAIN result <=> n \in DOMAIN launch.env \cup DOMAIN base
        /\ n \in DOMAIN launch.env => result[n] = "launch"
        /\ n \in DOMAIN base \ DOMAIN launch.env => result[n] = base[n]
<1> DEFINE below == Above(launch.env, base)
           rest == Without(below, DOMAIN stash)
           high == Above(Passed, rest)
<1>1. /\ DOMAIN below = DOMAIN launch.env \cup DOMAIN base
      /\ n \in DOMAIN launch.env => below[n] = "launch"
      /\ n \in DOMAIN base \ DOMAIN launch.env => below[n] = base[n]
  BY DEF Above, SourcesApart
<1> HIDE DEF below
<1>2. DOMAIN rest = DOMAIN below \ DOMAIN stash /\ (n \in DOMAIN rest => rest[n] = below[n])
  BY DEF Without, Restrict
<1>3. /\ DOMAIN Passed = launch.pass \cap DOMAIN stash
      /\ n \in DOMAIN Passed => Passed[n] = "host"
  BY DEF Passed, Restrict, SourcesApart
<1> HIDE DEF rest
<1>4. /\ DOMAIN high = DOMAIN Passed \cup DOMAIN rest
      /\ n \in DOMAIN Passed => high[n] = Passed[n]
      /\ n \in DOMAIN rest \ DOMAIN Passed => high[n] = rest[n]
  BY DEF Above
<1> HIDE DEF high
<1>5. /\ DOMAIN Above(over, high) = DOMAIN over \cup DOMAIN high
      /\ n \in DOMAIN over => Above(over, high)[n] = over[n]
      /\ n \in DOMAIN high \ DOMAIN over => Above(over, high)[n] = high[n]
  BY DEF Above
<1>6. Resolve(base, over) = Above(over, high)
  BY DEF Resolve, high, rest, below
<1> QED BY <1>1, <1>2, <1>3, <1>4, <1>5, <1>6

LEMMA ResolvedTyped ==
    ASSUME LeTypeOK, NEW base \in Env, NEW over \in Env PROVE Resolve(base, over) \in Env
<1>1. Passed \in Env
  BY RestrictTyped DEF Passed, LeTypeOK
<1> QED BY <1>1, AboveTyped, WithoutTyped DEF Resolve, LeTypeOK

\* direnv changes only the names in its diff.
LEMMA WorkspaceIs ==
    ASSUME LeTypeOK, SourcesApart PROVE
    /\ WorkspaceEnv \in Env
    /\ \A n \in DOMAIN WorkspaceEnv : WorkspaceEnv[n] \in {"host", "direnv"}
    /\ \A n \in Name \ DOMAIN diff :
        /\ n \in DOMAIN WorkspaceEnv <=> n \in DOMAIN host
        /\ n \in DOMAIN host => WorkspaceEnv[n] = host[n]
<1> DEFINE set == From("direnv", {n \in DOMAIN diff : diff[n] = "direnv"})
           kept == Without(host, DOMAIN diff)
<1>1. set \in Env /\ DOMAIN set \subseteq DOMAIN diff /\ \A n \in DOMAIN set : set[n] = "direnv"
  <2>1. {n \in DOMAIN diff : diff[n] = "direnv"} \in SUBSET Name
    BY DEF SourcesApart
  <2> QED BY <2>1, FromTyped DEF Origin, From
<1>2. /\ kept \in Env /\ DOMAIN kept = DOMAIN host \ DOMAIN diff
      /\ \A n \in DOMAIN kept : kept[n] = host[n] /\ kept[n] = "host"
  BY WithoutTyped DEF LeTypeOK, SourcesApart, Without, Restrict
<1> HIDE DEF set, kept
<1>3. /\ Above(set, kept) \in Env /\ DOMAIN Above(set, kept) = DOMAIN set \cup DOMAIN kept
      /\ \A n \in DOMAIN set : Above(set, kept)[n] = set[n]
      /\ \A n \in DOMAIN kept \ DOMAIN set : Above(set, kept)[n] = kept[n]
  BY <1>1, <1>2, AboveTyped DEF Above
<1>4. WorkspaceEnv = Above(set, kept)
  BY DEF WorkspaceEnv, set, kept
<1> QED BY <1>1, <1>2, <1>3, <1>4

LEMMA LayersAgain ==
    ASSUME LeInv, UNCHANGED <<host, stash, diff, launch, overrides>> PROVE
    SourcesApart' /\ OverridesWithin' /\ ChatEnv' = ChatEnv
BY DEF LeInv, EnvsHold, SourcesApart, OverridesWithin, ChatEnv, Resolve, WorkspaceEnv, Passed

LEMMA TypedAgain ==
    ASSUME LeTypeOK, UNCHANGED <<host, stash, diff, launch, overrides>>,
           "env" \in DOMAIN last' => last'.env \in Env
    PROVE LeTypeOK'
BY DEF LeTypeOK

LEMMA ChatStarts == ASSUME LeInv, StartChat PROVE LeInv'
<1> USE DEF LeInv, EnvsHold
<1>1. /\ last' = [is |-> "chat", env |-> ChatEnv] /\ served'
      /\ UNCHANGED <<host, stash, diff, launch, overrides>>
  BY DEF StartChat, Launches
<1>2. ChatEnv \in Env
  BY ResolvedTyped, WorkspaceIs DEF ChatEnv, LeTypeOK
<1>3. LeTypeOK'
  BY <1>1, <1>2, TypedAgain
<1>4. SourcesApart' /\ OverridesWithin' /\ ChatEnv' = ChatEnv
  BY <1>1, LayersAgain
<1>5. ASSUME NEW n \in Name PROVE
      LET value == IF n \in DOMAIN ChatEnv THEN ChatEnv[n] ELSE "none" IN
      /\ n \in DOMAIN overrides[Agent] => value = Agent
      /\ n \in DOMAIN stash \ DOMAIN overrides[Agent] =>
          value = IF n \in launch.pass THEN "host" ELSE "none"
      /\ value # Other
  <2>1. overrides[Agent] \in Env
    BY DEF LeTypeOK
  <2> QED BY <2>1, ResolvedIs, WorkspaceIs, LaunchAssumption DEF ChatEnv, SourcesApart
<1>6. LayersHold'
  BY <1>1, <1>5 DEF LayersHold
<1>7. LoginIsTheChats' /\ OwnProgramOnly' /\ ChatAsLayered'
  BY <1>1, <1>4 DEF LoginIsTheChats, OwnProgramOnly, ChatAsLayered
<1> QED BY <1>3, <1>4, <1>6, <1>7 DEF OverridesWithin

\* What an agent logs in with, below the names of the login's own.
LEMMA AuthEnvIs ==
    ASSUME LeInv, NEW scope PROVE
    /\ AuthEnv(scope) \in Env
    /\ \A n \in Name :
        LET value == IF n \in DOMAIN AuthEnv(scope) THEN AuthEnv(scope)[n] ELSE "none" IN
        /\ n \in DOMAIN overrides[Agent] => value = Agent
        /\ n \in DOMAIN stash \ DOMAIN overrides[Agent] =>
            value = IF scope = "auth" /\ n \in Compat THEN "compat"
                    ELSE IF n \in launch.pass THEN "host" ELSE "none"
        /\ value # Other
    /\ \A n \in Name \ (DOMAIN diff \cup Compat) :
        /\ n \in DOMAIN AuthEnv(scope) <=> n \in DOMAIN ChatEnv
        /\ n \in DOMAIN ChatEnv => AuthEnv(scope)[n] = ChatEnv[n]
<1> DEFINE defaults == IF scope = "auth" THEN Compat ELSE {}
           over == Above(overrides[Agent], From("compat", defaults))
<1> USE DEF LeInv, EnvsHold
<1>1. overrides[Agent] \in Env /\ host \in Env
  BY DEF LeTypeOK
<1>2. over \in Env
  BY <1>1, FromTyped, AboveTyped, LaunchAssumption DEF Origin
<1>3. /\ DOMAIN over = DOMAIN overrides[Agent] \cup defaults
      /\ \A n \in DOMAIN over :
          over[n] = IF n \in DOMAIN overrides[Agent] THEN Agent ELSE "compat"
  BY DEF Above, From, SourcesApart
<1>4. AuthEnv(scope) = Resolve(host, over)
  BY DEF AuthEnv
<1> HIDE DEF over
<1>5. AuthEnv(scope) \in Env
  BY <1>1, <1>2, <1>4, ResolvedTyped
<1>6. ASSUME NEW n \in Name PROVE
      LET value == IF n \in DOMAIN AuthEnv(scope) THEN AuthEnv(scope)[n] ELSE "none" IN
      /\ n \in DOMAIN overrides[Agent] => value = Agent
      /\ n \in DOMAIN stash \ DOMAIN overrides[Agent] =>
          value = IF scope = "auth" /\ n \in Compat THEN "compat"
                  ELSE IF n \in launch.pass THEN "host" ELSE "none"
      /\ value # Other
  BY <1>1, <1>2, <1>3, <1>4, ResolvedIs, LaunchAssumption DEF SourcesApart
<1>7. ASSUME NEW n \in Name \ (DOMAIN diff \cup Compat) PROVE
      /\ n \in DOMAIN AuthEnv(scope) <=> n \in DOMAIN ChatEnv
      /\ n \in DOMAIN ChatEnv => AuthEnv(scope)[n] = ChatEnv[n]
  <2>1. /\ n \in DOMAIN over <=> n \in DOMAIN overrides[Agent]
        /\ n \in DOMAIN over => over[n] = overrides[Agent][n]
    BY <1>3 DEF SourcesApart
  <2>2. /\ n \in DOMAIN WorkspaceEnv <=> n \in DOMAIN host
        /\ n \in DOMAIN host => WorkspaceEnv[n] = host[n]
        /\ WorkspaceEnv \in Env
    BY WorkspaceIs
  <2> QED BY <1>1, <1>2, <1>4, <2>1, <2>2, ResolvedIs DEF ChatEnv
<1> QED BY <1>5, <1>6, <1>7

\* A step after which nothing but the process is another.
LEMMA Launched ==
    ASSUME LeInv, NEW started, Launches(started),
           "env" \in DOMAIN started => started.env \in Env
    PROVE
    /\ last' = started /\ LeTypeOK' /\ SourcesApart' /\ OverridesWithin' /\ ChatEnv' = ChatEnv
    /\ served' /\ UNCHANGED <<host, stash, diff, launch, overrides>>
BY LayersAgain, TypedAgain DEF Launches, LeInv, EnvsHold

LEMMA ProbeStarts == ASSUME LeInv, StartProbe PROVE LeInv'
<1>1. AuthEnv("auth") \in Env
  BY AuthEnvIs
<1>2. /\ last' = [is |-> "probe", env |-> AuthEnv("auth")]
      /\ LeTypeOK' /\ SourcesApart' /\ OverridesWithin' /\ ChatEnv' = ChatEnv
      /\ served' /\ UNCHANGED <<host, stash, diff, launch, overrides>>
  BY <1>1, Launched DEF StartProbe
<1>3. LayersHold'
  BY <1>2, AuthEnvIs DEF LayersHold
<1>4. LoginIsTheChats' /\ OwnProgramOnly' /\ ChatAsLayered'
  BY <1>2, AuthEnvIs DEF LoginIsTheChats, OwnProgramOnly, ChatAsLayered
<1> QED BY <1>2, <1>3, <1>4 DEF LeInv, EnvsHold, OverridesWithin

LEMMA LoginStarts == ASSUME LeInv, StartLogin PROVE LeInv'
<1>1. PICK d \in SUBSET Name :
        Launches([is |-> "login", env |-> Above(From("method", d), AuthEnv("terminal")), own |-> d])
  BY DEF StartLogin
<1> DEFINE result == Above(From("method", d), AuthEnv("terminal"))
<1>2. /\ result \in Env
      /\ DOMAIN result = d \cup DOMAIN AuthEnv("terminal")
      /\ \A n \in DOMAIN result \ d : result[n] = AuthEnv("terminal")[n]
  <2>1. From("method", d) \in Env /\ AuthEnv("terminal") \in Env
    BY FromTyped, AuthEnvIs DEF Origin
  <2> QED BY <2>1, AboveTyped DEF Above, From
<1> HIDE DEF result
<1>3. /\ last' = [is |-> "login", env |-> result, own |-> d]
      /\ LeTypeOK' /\ SourcesApart' /\ OverridesWithin' /\ ChatEnv' = ChatEnv
      /\ served' /\ UNCHANGED <<host, stash, diff, launch, overrides>>
  BY <1>1, <1>2, Launched DEF result
<1>4. LayersHold'
  BY <1>2, <1>3, AuthEnvIs DEF LayersHold, Given
<1>5. LoginIsTheChats' /\ OwnProgramOnly' /\ ChatAsLayered'
  BY <1>3 DEF LoginIsTheChats, OwnProgramOnly, ChatAsLayered
<1> QED BY <1>3, <1>4, <1>5 DEF LeInv, EnvsHold, OverridesWithin

LEMMA TerminalStarts == ASSUME LeInv, StartTerminal PROVE LeInv'
<1>1. PICK d \in SUBSET Name :
        Launches([is |-> "terminal", env |-> Above(From("request", d), last.env), own |-> d])
  BY DEF StartTerminal
<1>2. last = [is |-> "chat", env |-> ChatEnv] /\ last.env \in Env /\ LayersHold
  BY DEF StartTerminal, LeInv, EnvsHold, ChatAsLayered, LeTypeOK
<1> DEFINE result == Above(From("request", d), last.env)
<1>3. /\ result \in Env
      /\ DOMAIN result = d \cup DOMAIN last.env
      /\ \A n \in DOMAIN result \ d : result[n] = last.env[n]
  <2>1. From("request", d) \in Env
    BY FromTyped DEF Origin
  <2> QED BY <1>2, <2>1, AboveTyped DEF Above, From
<1> HIDE DEF result
<1>4. /\ last' = [is |-> "terminal", env |-> result, own |-> d]
      /\ LeTypeOK' /\ SourcesApart' /\ OverridesWithin' /\ ChatEnv' = ChatEnv
      /\ served' /\ UNCHANGED <<host, stash, diff, launch, overrides>>
  BY <1>1, <1>3, Launched DEF result
<1>5. LayersHold'
  BY <1>2, <1>3, <1>4 DEF LayersHold, Given
<1>6. LoginIsTheChats' /\ OwnProgramOnly' /\ ChatAsLayered'
  BY <1>4 DEF LoginIsTheChats, OwnProgramOnly, ChatAsLayered
<1> QED BY <1>4, <1>5, <1>6 DEF LeInv, EnvsHold, OverridesWithin

LEMMA LegacyLoginStarts == ASSUME LeInv, StartLegacyLogin PROVE LeInv'
<1> DEFINE result == AuthEnv("terminal")
           finds(found) == IF found /\ Path \in DOMAIN result THEN {result[Path]} ELSE {}
<1>1. PICK command \in {"absolute", "name", "relative"}, found \in BOOLEAN,
           inDir \in Entry \cup {"no directory"} :
        LET program == Program(command, result, finds(found), inDir) IN
        /\ program # "refused"
        /\ Launches([is |-> "legacy", env |-> result, command |-> command,
                      program |-> program, found |-> found, entry |-> inDir])
  BY DEF StartLegacyLogin
<1> DEFINE program == Program(command, result, finds(found), inDir)
<1>2. program = "own" =>
        command = "name" /\ inDir = "program" /\ (Path \in DOMAIN result => ~found)
  BY DEF Program
<1> HIDE DEF program
<1>3. /\ last' = [is |-> "legacy", env |-> result, command |-> command,
                   program |-> program, found |-> found, entry |-> inDir]
      /\ LeTypeOK' /\ SourcesApart' /\ OverridesWithin' /\ ChatEnv' = ChatEnv
      /\ served' /\ UNCHANGED <<host, stash, diff, launch, overrides>>
  <2> DEFINE started == [is |-> "legacy", env |-> result, command |-> command,
                         program |-> program, found |-> found, entry |-> inDir]
  <2>1. Launches(started)
    BY <1>1 DEF program
  <2>2. started.env \in Env
    BY AuthEnvIs
  <2> HIDE DEF started
  <2>3. /\ last' = started
        /\ LeTypeOK' /\ SourcesApart' /\ OverridesWithin' /\ ChatEnv' = ChatEnv
        /\ served' /\ UNCHANGED <<host, stash, diff, launch, overrides>>
    BY <2>1, <2>2, Launched
  <2> QED BY <2>3 DEF started
<1> HIDE DEF result
<1>4. LayersHold'
  BY <1>3, AuthEnvIs DEF LayersHold, result
<1>5. LoginIsTheChats'
  BY <1>3, AuthEnvIs DEF LoginIsTheChats, result
<1>6. OwnProgramOnly' /\ ChatAsLayered'
  BY <1>2, <1>3 DEF OwnProgramOnly, ChatAsLayered
<1> QED BY <1>3, <1>4, <1>5, <1>6 DEF LeInv, EnvsHold, OverridesWithin

LEMMA SecretsTaken == ASSUME LeInv, TakeSecrets PROVE LeInv'
<1> USE DEF TakeSecrets, LeInv, EnvsHold
<1>1. last' = last /\ DOMAIN last = {"is"} /\ last.is \in {"none", "edited"}
  BY DEF ChatAsLayered, Unstarted
<1>2. LeTypeOK'
  <2>1. stash' \in Env /\ host' \in Env
    BY RestrictTyped, WithoutTyped DEF LeTypeOK
  <2> QED BY <1>1, <2>1 DEF LeTypeOK
<1>3. SourcesApart'
  BY DEF SourcesApart, Restrict, Without
<1>4. LayersHold' /\ LoginIsTheChats' /\ OwnProgramOnly' /\ ChatAsLayered'
  BY <1>1 DEF LayersHold, LoginIsTheChats, OwnProgramOnly, ChatAsLayered, Unstarted
<1> QED BY <1>2, <1>3, <1>4

-----------------------------------------------------------------------------
(* The overrides of an agent                                               *)

\* What the table has for the agent after some of the edits.
GoodRows(table) ==
    /\ table \in Env /\ \A n \in DOMAIN table : table[n] = Agent
    /\ Cardinality(DOMAIN table) <= MaxVars

\* An edit that is not refused leaves a table within its limit.
LEMMA AfterEditGood ==
    ASSUME NEW table, GoodRows(table), NEW edit \in Edits, ~RefusesEdit(edit, table) PROVE
    GoodRows(AfterEdit(edit, table))
<1>1. /\ table \in Env /\ DOMAIN table \subseteq Name /\ IsFiniteSet(DOMAIN table)
      /\ Cardinality(DOMAIN table) \in Nat /\ Cardinality(DOMAIN table) <= MaxVars
      /\ \A n \in DOMAIN table : table[n] = Agent
  BY EnvIs, FS_Subset, FS_CardinalityType, LaunchAssumption DEF GoodRows
<1>2. CASE edit.action = "replace"
  <2> DEFINE new == Above(From(Agent, {edit.name}), table)
  <2>1. edit.name \in Name
    BY <1>2 DEF Edits
  <2>2. new \in Env /\ DOMAIN new = DOMAIN table \cup {edit.name} /\ \A n \in DOMAIN new : new[n] = Agent
    <3>1. From(Agent, {edit.name}) \in Env
      BY <2>1, FromTyped DEF Origin
    <3> QED BY <1>1, <3>1, AboveTyped DEF Above, From
  <2>3. Cardinality(DOMAIN table \cup {edit.name}) <= MaxVars
    <3>1. CASE edit.name \in DOMAIN table
      <4>1. DOMAIN table \cup {edit.name} = DOMAIN table
        BY <3>1
      <4> QED BY <1>1, <4>1
    <3>2. CASE edit.name \notin DOMAIN table
      <4>1. Cardinality(DOMAIN table) < MaxVars
        BY <1>1, <1>2, <3>2, LaunchAssumption DEF RefusesEdit
      <4>2. Cardinality(DOMAIN table \cup {edit.name}) = Cardinality(DOMAIN table) + 1
        BY <1>1, <3>2, FS_AddElement
      <4> QED BY <1>1, <4>1, <4>2, LaunchAssumption
    <3> QED BY <3>1, <3>2
  <2>4. AfterEdit(edit, table) = new
    BY <1>2 DEF AfterEdit
  <2> QED BY <2>2, <2>3, <2>4 DEF GoodRows
<1>3. CASE edit.action = "remove"
  <2>1. AfterEdit(edit, table) = Without(table, {edit.name})
    BY <1>3 DEF AfterEdit
  <2>2. DOMAIN Without(table, {edit.name}) \subseteq DOMAIN table
    BY DEF Without, Restrict
  <2>3. Cardinality(DOMAIN Without(table, {edit.name})) <= Cardinality(DOMAIN table)
    BY <1>1, <2>2, FS_Subset
  <2>4. Cardinality(DOMAIN Without(table, {edit.name})) \in Nat
    BY <1>1, <2>2, FS_Subset, FS_CardinalityType
  <2>5. Cardinality(DOMAIN Without(table, {edit.name})) <= MaxVars
    BY <1>1, <2>3, <2>4, LaunchAssumption
  <2>6. \A n \in DOMAIN Without(table, {edit.name}) : Without(table, {edit.name})[n] = Agent
    BY <1>1 DEF Without, Restrict
  <2> QED BY <1>1, <2>1, <2>5, <2>6, WithoutTyped DEF GoodRows
<1>4. CASE edit.action \notin {"replace", "remove"}
  BY <1>4 DEF AfterEdit
<1> QED BY <1>2, <1>3, <1>4

Done(done) == done \in [ok : BOOLEAN, rows : Env] /\ GoodRows(done.rows)

LEMMA EditedGood ==
    ASSUME NEW done, Done(done), NEW edit \in Edits PROVE Done(Edited(done, edit))
<1>1. CASE ~done.ok \/ RefusesEdit(edit, done.rows)
  <2>1. Edited(done, edit) = [done EXCEPT !.ok = FALSE]
    BY <1>1 DEF Edited
  <2> QED BY <2>1 DEF Done
<1>2. CASE done.ok /\ ~RefusesEdit(edit, done.rows)
  <2>1. Edited(done, edit) = [done EXCEPT !.rows = AfterEdit(edit, done.rows)]
    BY <1>2 DEF Edited
  <2>2. GoodRows(AfterEdit(edit, done.rows))
    BY <1>2, AfterEditGood DEF Done
  <2>3. AfterEdit(edit, done.rows) \in Env
    BY <2>2 DEF GoodRows
  <2> QED BY <2>1, <2>2, <2>3 DEF Done
<1> QED BY <1>1, <1>2

LEMMA OverridesEdited == ASSUME LeInv, EditOverrides PROVE LeInv'
<1> USE DEF LeInv, EnvsHold
<1>1. PICK first \in Edits, second \in Edits :
        overrides' = [overrides EXCEPT ![Agent] =
            Edited(Edited([ok |-> TRUE, rows |-> overrides[Agent]], first), second).rows]
  BY DEF EditOverrides
<1> DEFINE start == [ok |-> TRUE, rows |-> overrides[Agent]]
           table == Edited(Edited(start, first), second).rows
<1>2. Done(start)
  BY DEF Done, GoodRows, LeTypeOK, SourcesApart
<1>3. GoodRows(table)
  <2>1. Done(Edited(start, first))
    BY <1>2, EditedGood
  <2>2. Done(Edited(Edited(start, first), second))
    BY <2>1, EditedGood
  <2> QED BY <2>2 DEF Done
<1> HIDE DEF table
<1>4. overrides' = [overrides EXCEPT ![Agent] = table]
  BY <1>1 DEF table
<1>5. overrides' \in [{Agent, Other} -> Env] /\ overrides'[Agent] = table
  BY <1>3, <1>4 DEF GoodRows, LeTypeOK
<1>6. last' = [is |-> "edited"] /\ served' /\ UNCHANGED <<host, stash, diff, launch>>
  BY DEF EditOverrides
<1>7. LeTypeOK'
  BY <1>5, <1>6 DEF LeTypeOK
<1>8. SourcesApart' /\ Cardinality(DOMAIN overrides'[Agent]) <= MaxVars
  BY <1>3, <1>5, <1>6 DEF GoodRows, SourcesApart
<1>9. LayersHold' /\ LoginIsTheChats' /\ OwnProgramOnly' /\ ChatAsLayered'
  BY <1>6 DEF LayersHold, LoginIsTheChats, OwnProgramOnly, ChatAsLayered
<1> QED BY <1>7, <1>8, <1>9

-----------------------------------------------------------------------------
LEMMA LaunchInit == ASSUME LeInit PROVE LeInv
<1>1. overrides[Agent] = From(Agent, {}) /\ DOMAIN overrides[Agent] = {}
  BY LaunchAssumption DEF LeInit, From
<1>2. LeTypeOK
  <2>1. host \in Env /\ stash \in Env
    BY FromTyped DEF LeInit, Origin
  <2>2. overrides \in [{Agent, Other} -> Env]
    <3>1. From(Other, Name) \in Env /\ From(Agent, {}) \in Env
      BY FromTyped DEF Origin
    <3> QED BY <3>1, LaunchAssumption DEF LeInit
  <2>3. launch.env \in Env /\ launch.pass \subseteq Name
    BY FromTyped DEF LeInit, Origin
  <2>4. "env" \notin DOMAIN last
    BY DEF LeInit
  <2> QED BY <2>1, <2>2, <2>3, <2>4 DEF LeTypeOK
<1>3. SourcesApart
  <2>1. PICK d \in SUBSET Name : host = From("host", d)
    BY DEF LeInit
  <2>2. PICK e \in SUBSET Name : diff \in [e -> {"direnv", "unset"}]
    BY DEF LeInit
  <2>3. PICK v \in SUBSET Name : launch.env = From("launch", v)
    BY DEF LeInit
  <2>4. DOMAIN stash = {}
    BY DEF LeInit, From
  <2> QED BY <1>1, <2>1, <2>2, <2>3, <2>4 DEF SourcesApart, From
<1>4. Cardinality(DOMAIN overrides[Agent]) <= MaxVars
  BY <1>1, FS_EmptySet, LaunchAssumption
<1>5. LayersHold /\ LoginIsTheChats /\ OwnProgramOnly /\ ChatAsLayered
  BY DEF LeInit, LayersHold, LoginIsTheChats, OwnProgramOnly, ChatAsLayered, Unstarted
<1> QED BY <1>2, <1>3, <1>4, <1>5 DEF LeInv, EnvsHold

LEMMA LaunchUnchanged == ASSUME LeInv, UNCHANGED leVars PROVE LeInv'
<1> USE DEF leVars, LeInv, EnvsHold
<1>1. ChatEnv' = ChatEnv
  BY DEF ChatEnv, Resolve, WorkspaceEnv, Passed
<1>2. LeTypeOK' /\ SourcesApart' /\ Cardinality(DOMAIN overrides[Agent])' <= MaxVars
  BY DEF LeTypeOK, SourcesApart
<1>3. LayersHold' /\ OwnProgramOnly'
  BY DEF LayersHold, OwnProgramOnly, Given
<1>4. LoginIsTheChats' /\ ChatAsLayered'
  BY <1>1 DEF LoginIsTheChats, ChatAsLayered, Unstarted
<1> QED BY <1>2, <1>3, <1>4

\* Every process of an agent has, for every name, the value of the highest layer that may
\* give it one: an override above all, a variable that was put aside only as the server
\* has it and only if the definition lists it; and what an agent logs in with is what its
\* chats run with (workspace_env.rs, session/mod.rs, auth/service.rs).
THEOREM EnvsHoldAlways == LaunchSpec => []EnvsHold
<1>1. LeInit => LeInv
  BY LaunchInit
<1>2. LeInv /\ [LeNext]_leVars => LeInv'
  BY SecretsTaken, ChatStarts, ProbeStarts, LoginStarts, TerminalStarts, LegacyLoginStarts,
     OverridesEdited, LaunchUnchanged DEF LeNext
<1>3. LeInv => EnvsHold
  BY DEF LeInv
<1> QED BY <1>1, <1>2, <1>3, PTL DEF LaunchSpec

-----------------------------------------------------------------------------
(* SessionRegistry                                                         *)
(*                                                                         *)
(* invalidate_stopped_sessions_for_agent looks at the state of a session   *)
(* in one step and takes it out of the map in another. Meanwhile the state *)
(* stays, because whoever starts a process holds startup_lock, and so does *)
(* the invalidation: `StartLocked` says who holds it at which place.       *)

Places == {"idle", "lookup", "building", "acting", "starting", "spawning", "stopping",
           "deleting", "removing", "listed", "retiring", "draining"}

RegTypes ==
    /\ entry \in Handle \cup {None}
    /\ process \in [Handle -> {"stopped", "starting", "running"}]
    /\ startLock \in [Handle -> Caller \cup {None}]
    /\ at \in [Caller -> Places]
    /\ job \in [Caller -> Job]
    /\ held \in [Caller -> Handle \cup {None}]

\* Who works on a handle has one.
HoldsHandle ==
    \A r \in Caller : at[r] \in {"acting", "starting", "spawning", "listed", "retiring"} =>
        held[r] \in Handle

StartLocked ==
    \A r \in Caller : at[r] \in {"spawning", "retiring"} => startLock[held[r]] = r

StoppedStays == \A r \in Caller : at[r] = "retiring" => process[held[r]] = "stopped"

\* An invalidation is at one of its places, or over.
JobFits ==
    \A r \in Caller :
        /\ job[r] = "invalidate" => at[r] \in {"idle", "listed", "retiring"}
        /\ at[r] = "idle" => held[r] = None

RetireInv == RegTypes /\ HoldsHandle /\ StartLocked /\ StoppedStays /\ JobFits

\* An invalidation takes out only what is stopped.
SparesProcess ==
    \A r \in Caller : job[r] = "invalidate" /\ entry = held[r] /\ entry' # entry
                        /\ at[r] # at'[r] => process[held[r]] = "stopped"

-----------------------------------------------------------------------------
(* The steps of a request.                                                 *)

\* get_by_id, and the turn_guard of whoever needs it.
LEMMA LookupKeeps ==
    ASSUME RetireInv, NEW r \in Caller,
           (\E what \in Jobs : Ask(r, what)) \/ GetById(r) \/ InsertHandle(r) \/ TakeTurnGuard(r)
    PROVE  RetireInv' /\ SparesProcess
<1>1. ASSUME NEW what \in Jobs, Ask(r, what) PROVE RetireInv' /\ SparesProcess
  <2>1. RegTypes'
    BY <1>1, RegistryAssumption DEF Ask, Moves, map, handles, RetireInv, RegTypes,
                                    HoldsHandle, Places, Job
  <2>2. HoldsHandle' /\ JobFits'
    BY <1>1 DEF Ask, Moves, map, handles, RetireInv, RegTypes, HoldsHandle, JobFits
  <2>3. StartLocked' /\ StoppedStays'
    BY <1>1, RegistryAssumption DEF Ask, Moves, map, handles, RetireInv, RegTypes,
                                    HoldsHandle, StartLocked, StoppedStays
  <2>4. SparesProcess
    BY <1>1, RegistryAssumption DEF Ask, Moves, map, handles, RetireInv, RegTypes,
                                    JobFits, StoppedStays, SparesProcess
  <2>. QED BY <2>1, <2>2, <2>3, <2>4 DEF RetireInv
<1>2. CASE GetById(r)
  <2>1. RegTypes'
    BY <1>2 DEF GetById, Moves, Leaves, map, handles, RetireInv, RegTypes, HoldsHandle,
                Places
  <2>2. HoldsHandle' /\ JobFits'
    BY <1>2 DEF GetById, Moves, Leaves, map, handles, RetireInv, RegTypes, HoldsHandle,
                JobFits
  <2>3. StartLocked' /\ StoppedStays'
    BY <1>2, RegistryAssumption DEF GetById, Moves, Leaves, map, handles, RetireInv,
                                    RegTypes, HoldsHandle, StartLocked, StoppedStays
  <2>4. SparesProcess
    BY <1>2, RegistryAssumption DEF GetById, Moves, Leaves, map, handles, RetireInv,
                                    RegTypes, JobFits, StoppedStays, SparesProcess
  <2>. QED BY <2>1, <2>2, <2>3, <2>4 DEF RetireInv
<1>3. CASE InsertHandle(r)
  <2>1. RegTypes'
    BY <1>3 DEF InsertHandle, Moves, handles, RetireInv, RegTypes, HoldsHandle, Places
  <2>2. HoldsHandle' /\ JobFits'
    BY <1>3 DEF InsertHandle, Moves, handles, RetireInv, RegTypes, HoldsHandle, JobFits
  <2>3. StartLocked' /\ StoppedStays'
    BY <1>3, RegistryAssumption DEF InsertHandle, Moves, handles, RetireInv, RegTypes,
                                    HoldsHandle, StartLocked, StoppedStays
  <2>4. SparesProcess
    BY <1>3, RegistryAssumption DEF InsertHandle, Moves, handles, RetireInv, RegTypes,
                                    JobFits, StoppedStays, SparesProcess
  <2>. QED BY <2>1, <2>2, <2>3, <2>4 DEF RetireInv
<1>4. CASE TakeTurnGuard(r)
  <2>1. RegTypes'
    BY <1>4 DEF TakeTurnGuard, Moves, Leaves, map, RetireInv, RegTypes, HoldsHandle,
                Places
  <2>2. HoldsHandle' /\ JobFits'
    BY <1>4 DEF TakeTurnGuard, Moves, Leaves, map, RetireInv, RegTypes, HoldsHandle,
                JobFits
  <2>3. StartLocked' /\ StoppedStays'
    BY <1>4, RegistryAssumption DEF TakeTurnGuard, Moves, Leaves, map, RetireInv,
                                    RegTypes, HoldsHandle, StartLocked, StoppedStays
  <2>4. SparesProcess
    BY <1>4, RegistryAssumption DEF TakeTurnGuard, Moves, Leaves, map, RetireInv,
                                    RegTypes, JobFits, StoppedStays, SparesProcess
  <2>. QED BY <2>1, <2>2, <2>3, <2>4 DEF RetireInv
<1>. QED BY <1>1, <1>2, <1>3, <1>4

\* ensure_running under startup_lock: what starts is not at an invalidation's handle.
LEMMA StartingKeeps ==
    ASSUME RetireInv, NEW r \in Caller,
           EnsureRunning(r) \/ Spawn(r)
    PROVE  RetireInv' /\ SparesProcess
<1>1. CASE EnsureRunning(r)
  <2>1. RegTypes'
    BY <1>1 DEF EnsureRunning, Moves, Leaves, Unlocked, map, RetireInv, RegTypes,
                HoldsHandle, Places
  <2>2. HoldsHandle' /\ JobFits'
    BY <1>1 DEF EnsureRunning, Moves, Leaves, Unlocked, map, RetireInv, RegTypes,
                HoldsHandle, JobFits
  <2>3. StartLocked' /\ StoppedStays'
    BY <1>1, RegistryAssumption DEF EnsureRunning, Moves, Leaves, Unlocked, map,
                                    RetireInv, RegTypes, HoldsHandle, StartLocked,
                                    StoppedStays
  <2>4. SparesProcess
    BY <1>1, RegistryAssumption DEF EnsureRunning, Moves, Leaves, Unlocked, map,
                                    RetireInv, RegTypes, JobFits, StoppedStays,
                                    SparesProcess
  <2>. QED BY <2>1, <2>2, <2>3, <2>4 DEF RetireInv
<1>2. CASE Spawn(r)
  <2>1. RegTypes'
    BY <1>2 DEF Spawn, Leaves, Moves, Unlocked, map, RetireInv, RegTypes, HoldsHandle,
                Places
  <2>2. HoldsHandle' /\ JobFits'
    BY <1>2 DEF Spawn, Leaves, Moves, Unlocked, map, RetireInv, RegTypes, HoldsHandle,
                JobFits
  <2>3. StartLocked' /\ StoppedStays'
    BY <1>2, RegistryAssumption DEF Spawn, Leaves, Moves, Unlocked, map, RetireInv,
                                    RegTypes, HoldsHandle, StartLocked, StoppedStays
  <2>4. SparesProcess
    BY <1>2, RegistryAssumption DEF Spawn, Leaves, Moves, Unlocked, map, RetireInv,
                                    RegTypes, JobFits, StoppedStays, SparesProcess
  <2>. QED BY <2>1, <2>2, <2>3, <2>4 DEF RetireInv
<1>. QED BY <1>1, <1>2

\* shutdown, delete_metadata and remove_session.
LEMMA StopKeeps ==
    ASSUME RetireInv, NEW r \in Caller,
           StopHandle(r) \/ DeleteMetadata(r) \/ RemoveSession(r)
    PROVE  RetireInv' /\ SparesProcess
<1>1. CASE StopHandle(r)
  <2>1. RegTypes'
    BY <1>1 DEF StopHandle, Leaves, Moves, Unlocked, Shutdown, map, RetireInv, RegTypes,
                HoldsHandle, Places
  <2>2. HoldsHandle' /\ JobFits'
    BY <1>1 DEF StopHandle, Leaves, Moves, Unlocked, Shutdown, map, RetireInv, RegTypes,
                HoldsHandle, JobFits
  <2>3. StartLocked' /\ StoppedStays'
    BY <1>1, RegistryAssumption DEF StopHandle, Leaves, Moves, Unlocked, Shutdown, map,
                                    RetireInv, RegTypes, HoldsHandle, StartLocked,
                                    StoppedStays
  <2>4. SparesProcess
    BY <1>1, RegistryAssumption DEF StopHandle, Leaves, Moves, Unlocked, Shutdown, map,
                                    RetireInv, RegTypes, JobFits, StoppedStays,
                                    SparesProcess
  <2>. QED BY <2>1, <2>2, <2>3, <2>4 DEF RetireInv
<1>2. CASE DeleteMetadata(r)
  <2>1. RegTypes'
    BY <1>2 DEF DeleteMetadata, Moves, Unlocked, Shutdown, map, RetireInv, RegTypes,
                HoldsHandle, Places
  <2>2. HoldsHandle' /\ JobFits'
    BY <1>2 DEF DeleteMetadata, Moves, Unlocked, Shutdown, map, RetireInv, RegTypes,
                HoldsHandle, JobFits
  <2>3. StartLocked' /\ StoppedStays'
    BY <1>2, RegistryAssumption DEF DeleteMetadata, Moves, Unlocked, Shutdown, map,
                                    RetireInv, RegTypes, HoldsHandle, StartLocked,
                                    StoppedStays
  <2>4. SparesProcess
    BY <1>2, RegistryAssumption DEF DeleteMetadata, Moves, Unlocked, Shutdown, map,
                                    RetireInv, RegTypes, JobFits, StoppedStays,
                                    SparesProcess
  <2>. QED BY <2>1, <2>2, <2>3, <2>4 DEF RetireInv
<1>3. CASE RemoveSession(r)
  <2>1. RegTypes'
    BY <1>3 DEF RemoveSession, Leaves, Moves, TakeOut, handles, RetireInv, RegTypes,
                HoldsHandle, Places
  <2>2. HoldsHandle' /\ JobFits'
    BY <1>3 DEF RemoveSession, Leaves, Moves, TakeOut, handles, RetireInv, RegTypes,
                HoldsHandle, JobFits
  <2>3. StartLocked' /\ StoppedStays'
    BY <1>3, RegistryAssumption DEF RemoveSession, Leaves, Moves, TakeOut, handles,
                                    RetireInv, RegTypes, HoldsHandle, StartLocked,
                                    StoppedStays
  <2>4. SparesProcess
    BY <1>3, RegistryAssumption DEF RemoveSession, Leaves, Moves, TakeOut, handles,
                                    RetireInv, RegTypes, JobFits, StoppedStays,
                                    SparesProcess
  <2>. QED BY <2>1, <2>2, <2>3, <2>4 DEF RetireInv
<1>. QED BY <1>1, <1>2, <1>3

\* invalidate_stopped_sessions_for_agent holds startup_lock from its look to the end.
LEMMA InvalidateKeeps ==
    ASSUME RetireInv, NEW r \in Caller,
           Invalidate(r) \/ CheckStopped(r) \/ Retire(r)
    PROVE  RetireInv' /\ SparesProcess
<1>1. CASE Invalidate(r)
  <2>1. RegTypes'
    BY <1>1 DEF Invalidate, Moves, map, handles, RetireInv, RegTypes, HoldsHandle,
                Places, Job
  <2>2. HoldsHandle' /\ JobFits'
    BY <1>1 DEF Invalidate, Moves, map, handles, RetireInv, RegTypes, HoldsHandle,
                JobFits
  <2>3. StartLocked' /\ StoppedStays'
    BY <1>1, RegistryAssumption DEF Invalidate, Moves, map, handles, RetireInv,
                                    RegTypes, HoldsHandle, StartLocked, StoppedStays
  <2>4. SparesProcess
    BY <1>1, RegistryAssumption DEF Invalidate, Moves, map, handles, RetireInv,
                                    RegTypes, JobFits, StoppedStays, SparesProcess
  <2>. QED BY <2>1, <2>2, <2>3, <2>4 DEF RetireInv
<1>2. CASE CheckStopped(r)
  <2>1. RegTypes'
    BY <1>2 DEF CheckStopped, Moves, Leaves, map, RetireInv, RegTypes, HoldsHandle,
                Places
  <2>2. HoldsHandle' /\ JobFits'
    BY <1>2 DEF CheckStopped, Moves, Leaves, map, RetireInv, RegTypes, HoldsHandle,
                JobFits
  <2>3. StartLocked' /\ StoppedStays'
    BY <1>2, RegistryAssumption DEF CheckStopped, Moves, Leaves, map, RetireInv,
                                    RegTypes, HoldsHandle, StartLocked, StoppedStays
  <2>4. SparesProcess
    BY <1>2, RegistryAssumption DEF CheckStopped, Moves, Leaves, map, RetireInv,
                                    RegTypes, JobFits, StoppedStays, SparesProcess
  <2>. QED BY <2>1, <2>2, <2>3, <2>4 DEF RetireInv
<1>3. CASE Retire(r)
  <2>1. RegTypes'
    BY <1>3 DEF Retire, Leaves, Moves, Unlocked, TakeOut, RetireInv, RegTypes,
                HoldsHandle, Places
  <2>2. HoldsHandle' /\ JobFits'
    BY <1>3 DEF Retire, Leaves, Moves, Unlocked, TakeOut, RetireInv, RegTypes,
                HoldsHandle, JobFits
  <2>3. StartLocked' /\ StoppedStays'
    BY <1>3, RegistryAssumption DEF Retire, Leaves, Moves, Unlocked, TakeOut, RetireInv,
                                    RegTypes, HoldsHandle, StartLocked, StoppedStays
  <2>4. SparesProcess
    BY <1>3, RegistryAssumption DEF Retire, Leaves, Moves, Unlocked, TakeOut, RetireInv,
                                    RegTypes, JobFits, StoppedStays, SparesProcess
  <2>. QED BY <2>1, <2>2, <2>3, <2>4 DEF RetireInv
<1>. QED BY <1>1, <1>2, <1>3

\* shutdown_all.
LEMMA DrainKeeps ==
    ASSUME RetireInv, NEW r \in Caller,
           Drain(r) \/ ShutdownDrained(r)
    PROVE  RetireInv' /\ SparesProcess
<1>1. CASE Drain(r)
  <2>1. RegTypes'
    BY <1>1 DEF Drain, Moves, TakeOut, handles, RetireInv, RegTypes, HoldsHandle,
                Places, Job
  <2>2. HoldsHandle' /\ JobFits'
    BY <1>1 DEF Drain, Moves, TakeOut, handles, RetireInv, RegTypes, HoldsHandle,
                JobFits
  <2>3. StartLocked' /\ StoppedStays'
    BY <1>1, RegistryAssumption DEF Drain, Moves, TakeOut, handles, RetireInv, RegTypes,
                                    HoldsHandle, StartLocked, StoppedStays
  <2>4. SparesProcess
    BY <1>1, RegistryAssumption DEF Drain, Moves, TakeOut, handles, RetireInv, RegTypes,
                                    JobFits, StoppedStays, SparesProcess
  <2>. QED BY <2>1, <2>2, <2>3, <2>4 DEF RetireInv
<1>2. CASE ShutdownDrained(r)
  <2>1. RegTypes'
    BY <1>2 DEF ShutdownDrained, Leaves, Moves, Shutdown, map, RetireInv, RegTypes,
                HoldsHandle, Places
  <2>2. HoldsHandle' /\ JobFits'
    BY <1>2 DEF ShutdownDrained, Leaves, Moves, Shutdown, map, RetireInv, RegTypes,
                HoldsHandle, JobFits
  <2>3. StartLocked' /\ StoppedStays'
    BY <1>2, RegistryAssumption DEF ShutdownDrained, Leaves, Moves, Shutdown, map,
                                    RetireInv, RegTypes, HoldsHandle, StartLocked,
                                    StoppedStays
  <2>4. SparesProcess
    BY <1>2, RegistryAssumption DEF ShutdownDrained, Leaves, Moves, Shutdown, map,
                                    RetireInv, RegTypes, JobFits, StoppedStays,
                                    SparesProcess
  <2>. QED BY <2>1, <2>2, <2>3, <2>4 DEF RetireInv
<1>. QED BY <1>1, <1>2

LEMMA RetireInvStep == RetireInv /\ RegNext => RetireInv' /\ SparesProcess
BY LookupKeeps, StartingKeeps, StopKeeps, InvalidateKeeps, DrainKeeps DEF RegNext

-----------------------------------------------------------------------------
(* The theorems.                                                           *)

\* Who starts a session's process, and who retires it, holds its startup_lock from
\* the look at its state to the end (session/mod.rs:242, 2140-2191).
THEOREM RetireInvHolds == RegSpec => []RetireInv
<1>1. RegInit => RetireInv
  BY DEF RegInit, RetireInv, RegTypes, HoldsHandle, StartLocked, StoppedStays, JobFits, Places, Job
<1>2. RetireInv /\ UNCHANGED regVars => RetireInv'
  BY DEF regVars, RetireInv, RegTypes, HoldsHandle, StartLocked, StoppedStays, JobFits
<1>. QED BY <1>1, <1>2, RetireInvStep, PTL DEF RegSpec

\* A change of an agent's definition takes no session out of the map that has a
\* process or is starting one (session/mod.rs:2140-2191).
THEOREM RetireSparesProcessHolds == RegSpec => RetireSparesProcess
<1>1. RetireInv /\ [RegNext]_regVars
        => [\A r \in Caller : job[r] = "invalidate" /\ entry = held[r] /\ entry' # entry
                /\ at[r] # at'[r] => process[held[r]] = "stopped"]_regVars
  BY RetireInvStep DEF SparesProcess
<1>. QED BY <1>1, RetireInvHolds, PTL DEF RegSpec, RetireSparesProcess
============================================================================
