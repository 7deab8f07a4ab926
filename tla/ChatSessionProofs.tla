------------------------- MODULE ChatSessionProofs -------------------------
(***************************************************************************)
(* Theorems about ChatSession, for every set of chats, requests, processes *)
(* and checkouts.  The lock discipline is the inductive invariant: which   *)
(* place of which request holds which lock.  On top of it, where a chat's  *)
(* process may be while one request has it in hand.                        *)
(***************************************************************************)
EXTENDS ChatSession, TLAPS

\* Every place belongs to the requests whose code reaches it.
Places ==
    \A t \in Task :
        /\ pc[t] = "idle" <=> op[t] = "none"
        /\ at[t] = NoChat <=> op[t] = "none"
        /\ pc[t] \in TurnPc => op[t] = "prompt"
        /\ pc[t] \in StartupPc \cup {"lockStartup", "ensured"} => op[t] \in {"prompt", "resume", "query"}
        /\ pc[t] \in ShutdownPc => op[t] \in {"stop", "delete", "edit", "reap"}
        /\ pc[t] \in {"editCheck", "editStore", "editDecide"} => op[t] = "edit"
        /\ pc[t] = "reapGuard" => op[t] = "reap"

\* turn_guard is held by every request but the queries and the reaper's scan.
GuardHeld ==
    \A t \in Task : op[t] \notin {"none", "query"} /\ pc[t] # "reapGuard"
                       => turnGuard[at[t]] = t

\* checkout_guard is held from admission to the end of the turn.
CheckoutHeld ==
    \A t \in Task : op[t] = "prompt" /\ CheckoutOf[at[t]] # NoCheckout
                       => checkoutGuard[CheckoutOf[at[t]]] = t

\* startup_lock is held inside ensure_running.
StartupHeld == \A t \in Task : pc[t] \in StartupPc => startupLock[at[t]] = t

LockDiscipline == Places /\ GuardHeld /\ CheckoutHeld /\ StartupHeld
IInv == TypeOK /\ LockDiscipline

-----------------------------------------------------------------------------
(* Lemmas about the building blocks.                                       *)

\* A task that returns leaves its own guards, and nobody else's.
LEMMA EndKeeps ==
    ASSUME IInv, SessionAssumption, NEW t \in Task, End(t),
           row' \in [Chat -> Row]
    PROVE  /\ LockDiscipline'
           /\ client' \in [Chat -> Proc \cup {NoProc}]
           /\ turnGuard' \in [Chat -> Task \cup {NoTask}]
           /\ startupLock' \in [Chat -> Task \cup {NoTask}]
           /\ checkoutGuard' \in [Checkout -> Task \cup {NoTask}]
           /\ exited' \in SUBSET Proc
           /\ stale' \in SUBSET Proc
           /\ op' \in [Task -> Op \cup {"none"}]
           /\ at' \in [Task -> Chat \cup {NoChat}]
           /\ pc' \in [Task -> Pc]
           /\ own' \in [Task -> Proc \cup {NoProc}]
           /\ perm' \in SUBSET Task
<1> USE DEF IInv, LockDiscipline
<1>1. /\ client' \in [Chat -> Proc \cup {NoProc}]
      /\ turnGuard' \in [Chat -> Task \cup {NoTask}]
      /\ startupLock' \in [Chat -> Task \cup {NoTask}]
      /\ checkoutGuard' \in [Checkout -> Task \cup {NoTask}]
  BY DEF TypeOK, End, ReleaseLocks, DropSession
<1>2. /\ exited' \in SUBSET Proc
      /\ stale' \in SUBSET Proc
      /\ own' \in [Task -> Proc \cup {NoProc}]
      /\ perm' \in SUBSET Task
      /\ op' \in [Task -> Op \cup {"none"}]
      /\ at' \in [Task -> Chat \cup {NoChat}]
      /\ pc' \in [Task -> Pc]
  BY DEF TypeOK, End, Pc
<1>3. \A u \in Task : u # t => op'[u] = op[u] /\ at'[u] = at[u] /\ pc'[u] = pc[u]
  BY DEF TypeOK, End
<1>4. op'[t] = "none" /\ at'[t] = NoChat /\ pc'[t] = "idle"
  BY DEF TypeOK, End
<1>5. Places'
  BY <1>3, <1>4 DEF Places, TurnPc, StartupPc, ShutdownPc
<1>6. \A u \in Task : op[u] # "none" => at[u] \in Chat
  BY DEF Places, TypeOK
<1>7. \A u \in Task : u # NoTask
  BY DEF SessionAssumption
<1>8. GuardHeld'
  <2>1. \A u \in Task, c \in Chat : u # t /\ turnGuard[c] = u => turnGuard'[c] = u
    BY DEF End, ReleaseLocks
  <2> QED BY <1>3, <1>4, <1>6, <2>1 DEF GuardHeld
<1>9. CheckoutHeld'
  <2>1. \A u \in Task, k \in Checkout : u # t /\ checkoutGuard[k] = u => checkoutGuard'[k] = u
    BY DEF End, ReleaseLocks
  <2>2. \A c \in Chat : CheckoutOf[c] \in Checkout \/ CheckoutOf[c] = NoCheckout
    BY DEF SessionAssumption
  <2> QED BY <1>3, <1>4, <1>6, <2>1, <2>2 DEF CheckoutHeld
<1>10. StartupHeld'
  <2>1. \A u \in Task, c \in Chat : u # t /\ startupLock[c] = u => startupLock'[c] = u
    BY DEF End, ReleaseLocks
  <2>2. \A u \in Task : pc[u] \in StartupPc => op[u] # "none"
    BY DEF Places
  <2>3. pc'[t] \notin StartupPc
    BY <1>4 DEF StartupPc
  <2> QED BY <1>3, <1>6, <2>1, <2>2, <2>3 DEF StartupHeld
<1> QED BY <1>1, <1>2, <1>5, <1>8, <1>9, <1>10

\* A place the task may go to: one of its own request, and inside
\* ensure_running only with the startup lock.
Fits(t, place) ==
    /\ place \in Pc \ {"idle", "reapGuard"}
    /\ op[t] # "none"
    /\ pc[t] # "reapGuard"
    /\ place \in TurnPc => op[t] = "prompt"
    /\ place \in StartupPc \cup {"lockStartup", "ensured"} => op[t] \in {"prompt", "resume", "query"}
    /\ place \in ShutdownPc => op[t] \in {"stop", "delete", "edit", "reap"}
    /\ place \in {"editCheck", "editStore", "editDecide"} => op[t] = "edit"
    /\ place \in StartupPc => startupLock'[at[t]] = t

\* Nobody else's startup lock is touched.
OthersKeepStartup(t) ==
    \A u \in Task \ {t}, c \in Chat : startupLock[c] = u => startupLock'[c] = u

\* A task that moves on keeps its guards.
LEMMA GotoKeeps ==
    ASSUME IInv, SessionAssumption, NEW t \in Task, NEW place, Goto(t, place),
           Fits(t, place), OthersKeepStartup(t), UNCHANGED <<turnGuard, checkoutGuard>>
    PROVE  /\ LockDiscipline'
           /\ op' \in [Task -> Op \cup {"none"}]
           /\ at' \in [Task -> Chat \cup {NoChat}]
           /\ pc' \in [Task -> Pc]
<1> USE DEF IInv, LockDiscipline
<1>1. /\ op' \in [Task -> Op \cup {"none"}]
      /\ at' \in [Task -> Chat \cup {NoChat}]
      /\ pc' \in [Task -> Pc]
  BY DEF TypeOK, Goto, Fits
<1>2. op' = op /\ at' = at /\ pc'[t] = place
  BY DEF TypeOK, Goto
<1>3. \A u \in Task : u # t => pc'[u] = pc[u]
  BY DEF TypeOK, Goto
<1>4. Places'
  BY <1>2, <1>3 DEF Places, Fits
<1>5. GuardHeld'
  BY <1>2, <1>3 DEF GuardHeld, Fits
<1>6. CheckoutHeld'
  BY <1>2, <1>3 DEF CheckoutHeld
<1>7. StartupHeld'
  <2>1. \A u \in Task : pc[u] \in StartupPc => at[u] \in Chat
    BY DEF Places, TypeOK, StartupPc
  <2> QED BY <1>2, <1>3, <2>1 DEF StartupHeld, Fits, OthersKeepStartup
<1> QED BY <1>1, <1>4, <1>5, <1>6, <1>7

\* A request that begins holds what its kind needs, and takes it from nobody.
LEMMA BeginKeeps ==
    ASSUME IInv, SessionAssumption, NEW t \in Task, NEW c \in Chat,
           NEW kind \in Op, NEW place \in Pc, Begin(t, c, kind, place),
           UNCHANGED startupLock,
           <<kind, place>> \in {<<"prompt", "lockStartup">>, <<"resume", "lockStartup">>,
                                <<"query", "lockStartup">>, <<"stop", "take">>,
                                <<"delete", "take">>, <<"edit", "editCheck">>,
                                <<"reap", "reapGuard">>},
           kind \notin {"query", "reap"} => TryTurnGuard(t, c),
           kind \in {"query", "reap"} => UNCHANGED turnGuard,
           kind = "prompt" => TryCheckoutGuard(t, c),
           kind # "prompt" => UNCHANGED checkoutGuard
    PROVE  /\ LockDiscipline'
           /\ op' \in [Task -> Op \cup {"none"}]
           /\ at' \in [Task -> Chat \cup {NoChat}]
           /\ pc' \in [Task -> Pc]
           /\ turnGuard' \in [Chat -> Task \cup {NoTask}]
           /\ checkoutGuard' \in [Checkout -> Task \cup {NoTask}]
<1> USE DEF IInv, LockDiscipline
<1>1. /\ op' \in [Task -> Op \cup {"none"}]
      /\ at' \in [Task -> Chat \cup {NoChat}]
      /\ pc' \in [Task -> Pc]
  BY DEF TypeOK, Begin
<1>2. turnGuard' \in [Chat -> Task \cup {NoTask}]
  BY DEF TypeOK, TryTurnGuard
<1>3. checkoutGuard' \in [Checkout -> Task \cup {NoTask}]
  BY DEF TypeOK, TryCheckoutGuard
<1>4. /\ op[t] = "none" /\ op'[t] = kind /\ at'[t] = c /\ pc'[t] = place
      /\ \A u \in Task : u # t => op'[u] = op[u] /\ at'[u] = at[u] /\ pc'[u] = pc[u]
  BY DEF TypeOK, Begin
<1>5. c # NoChat /\ t # NoTask /\ kind # "none"
  BY DEF SessionAssumption, Op
<1>6. \A u \in Task : op[u] # "none" => at[u] \in Chat
  BY DEF Places, TypeOK
<1>7. Places'
  BY <1>4, <1>5 DEF Places, TurnPc, StartupPc, ShutdownPc
<1>8. GuardHeld'
  <2>1. \A u \in Task, d \in Chat : u # t /\ turnGuard[d] = u => turnGuard'[d] = u
    BY DEF TryTurnGuard, TypeOK, SessionAssumption
  <2>2. kind \notin {"query", "reap"} => turnGuard'[c] = t
    BY DEF TryTurnGuard, TypeOK
  <2> QED BY <1>4, <1>6, <2>1, <2>2 DEF GuardHeld
<1>9. CheckoutHeld'
  <2>1. \A d \in Chat : CheckoutOf[d] \in Checkout \/ CheckoutOf[d] = NoCheckout
    BY DEF SessionAssumption
  <2>2. \A u \in Task, k \in Checkout : u # t /\ checkoutGuard[k] = u => checkoutGuard'[k] = u
    BY DEF TryCheckoutGuard, TypeOK, SessionAssumption
  <2>3. kind = "prompt" /\ CheckoutOf[c] # NoCheckout => checkoutGuard'[CheckoutOf[c]] = t
    BY <2>1 DEF TryCheckoutGuard, TypeOK
  <2> QED BY <1>4, <1>6, <2>1, <2>2, <2>3 DEF CheckoutHeld
<1>10. StartupHeld'
  BY <1>4 DEF StartupHeld, StartupPc
<1> QED BY <1>1, <1>2, <1>3, <1>7, <1>8, <1>9, <1>10

-----------------------------------------------------------------------------
(* Every step keeps the invariant.                                         *)

\* Asking for what a task needs takes nothing from anybody.
LEMMA AskKeeps ==
    ASSUME IInv, SessionAssumption, NEW t \in Task, NEW c \in Chat, Ask(t, c)
    PROVE  IInv'
<1>1. CASE AdmitPrompt(t, c)
  BY <1>1, BeginKeeps DEF AdmitPrompt, IInv, TypeOK, Op, Pc, OtherPc, ShutdownPc, durable, session, locks, procs
<1>2. CASE Resume(t, c)
  BY <1>2, BeginKeeps DEF Resume, IInv, TypeOK, Op, Pc, OtherPc, ShutdownPc, durable, session, locks, procs
<1>3. CASE Query(t, c)
  BY <1>3, BeginKeeps DEF Query, IInv, TypeOK, Op, Pc, OtherPc, ShutdownPc, durable, session, locks, procs
<1>4. CASE Stop(t, c)
  BY <1>4, BeginKeeps DEF Stop, IInv, TypeOK, Op, Pc, OtherPc, ShutdownPc, durable, session, locks, procs
<1>5. CASE Delete(t, c)
  BY <1>5, BeginKeeps DEF Delete, IInv, TypeOK, Op, Pc, OtherPc, ShutdownPc, durable, session, locks, procs
<1>6. CASE EditConnection(t, c)
  BY <1>6, BeginKeeps DEF EditConnection, IInv, TypeOK, Op, Pc, OtherPc, ShutdownPc, durable, session, locks, procs
<1>7. CASE ReapCandidate(t, c)
  BY <1>7, BeginKeeps DEF ReapCandidate, IInv, TypeOK, Op, Pc, OtherPc, ShutdownPc, durable, session, locks, procs
<1> QED BY <1>1, <1>2, <1>3, <1>4, <1>5, <1>6, <1>7 DEF Ask

\* What a step writes besides the locks and the places of the tasks.
DataTyped ==
    /\ row \in [Chat -> Row]
    /\ turnLog \in [Chat -> Turn]
    /\ logOk \in BOOLEAN
    /\ ps \in [Chat -> {"stopped", "starting", "running", "dead"}]
    /\ ts \in [Chat -> {"idle", "prompting"}]

\* What End writes too.
HandsTyped ==
    /\ client \in [Chat -> Proc \cup {NoProc}]
    /\ turnGuard \in [Chat -> Task \cup {NoTask}]
    /\ startupLock \in [Chat -> Task \cup {NoTask}]
    /\ checkoutGuard \in [Checkout -> Task \cup {NoTask}]
    /\ exited \in SUBSET Proc
    /\ stale \in SUBSET Proc
    /\ op \in [Task -> Op \cup {"none"}]
    /\ at \in [Task -> Chat \cup {NoChat}]
    /\ pc \in [Task -> Pc]
    /\ own \in [Task -> Proc \cup {NoProc}]
    /\ perm \in SUBSET Task

\* A step that ends its task keeps the invariant if it writes typed data.
LEMMA EndStep ==
    ASSUME IInv, SessionAssumption, NEW t \in Task, End(t), DataTyped'
    PROVE  IInv'
<1>1. LockDiscipline' /\ HandsTyped'
  BY EndKeeps DEF DataTyped, HandsTyped
<1> QED BY <1>1 DEF IInv, TypeOK, DataTyped, HandsTyped

\* What a task that moves on may do to the rest of the state.
HandsMove(t) ==
    /\ client' \in [Chat -> Proc \cup {NoProc}]
    /\ startupLock' \in [Chat -> Task \cup {NoTask}]
    /\ exited' \in SUBSET Proc
    /\ stale' \in SUBSET Proc
    /\ own' \in [Task -> Proc \cup {NoProc}]
    /\ perm' \in SUBSET Task
    /\ UNCHANGED <<turnGuard, checkoutGuard>>
    /\ OthersKeepStartup(t)

\* A step that moves its task on to a fitting place keeps the invariant.
LEMMA GotoStep ==
    ASSUME IInv, SessionAssumption, NEW t \in Task, NEW place, Goto(t, place),
           Fits(t, place), DataTyped', HandsMove(t)
    PROVE  IInv'
<1>1. /\ LockDiscipline'
      /\ op' \in [Task -> Op \cup {"none"}]
      /\ at' \in [Task -> Chat \cup {NoChat}]
      /\ pc' \in [Task -> Pc]
  BY GotoKeeps DEF HandsMove
<1>2. HandsTyped'
  BY <1>1 DEF HandsTyped, HandsMove, IInv, TypeOK
<1> QED BY <1>1, <1>2 DEF IInv, TypeOK, DataTyped, HandsTyped

\* What the lock discipline says of the task that takes a step.
LEMMA AtPlace ==
    ASSUME IInv, SessionAssumption, NEW t \in Task, pc[t] # "idle"
    PROVE  /\ t # NoTask
           /\ op[t] # "none"
           /\ at[t] \in Chat
           /\ pc[t] \in TurnPc => op[t] = "prompt"
           /\ pc[t] \in StartupPc => startupLock[at[t]] = t
           /\ pc[t] \in StartupPc \cup {"lockStartup", "ensured"}
                 => op[t] \in {"prompt", "resume", "query"}
           /\ pc[t] \in ShutdownPc => op[t] \in {"stop", "delete", "edit", "reap"}
           /\ pc[t] \in {"editCheck", "editStore", "editDecide"} => op[t] = "edit"
           /\ pc[t] = "reapGuard" => op[t] = "reap"
  BY DEF IInv, LockDiscipline, Places, StartupHeld, TypeOK, SessionAssumption

\* Every pair of states that is stored is one of the model's.
LEMMA SetStatesTyped ==
    ASSUME IInv, NEW c \in Chat,
           NEW p \in {"stopped", "starting", "running", "dead"}, NEW u \in {"idle", "prompting"},
           SetStates(c, p, u)
    PROVE  /\ ps' \in [Chat -> {"stopped", "starting", "running", "dead"}]
           /\ ts' \in [Chat -> {"idle", "prompting"}]
  BY DEF SetStates, IInv, TypeOK

\* Writing one field leaves a row a row.
LEMMA RowTyped ==
    ASSUME row \in [Chat -> Row], NEW c \in Chat
    PROVE  /\ [row EXCEPT ![c].saved = TRUE] \in [Chat -> Row]
           /\ [row EXCEPT ![c].deleted = TRUE] \in [Chat -> Row]
           /\ [row EXCEPT ![c].archived = ~@] \in [Chat -> Row]
<1>1. ASSUME NEW r \in Row PROVE [r EXCEPT !.archived = ~@] \in Row
  BY DEF Row
<1>2. [row EXCEPT ![c].archived = ~@] \in [Chat -> Row]
  BY <1>1
<1>3. [row EXCEPT ![c].saved = TRUE] \in [Chat -> Row]
  BY DEF Row
<1>4. [row EXCEPT ![c].deleted = TRUE] \in [Chat -> Row]
  BY DEF Row
<1> QED BY <1>2, <1>3, <1>4

\* Writing what the events say of a turn leaves it so.
LEMMA TurnTyped ==
    ASSUME turnLog \in [Chat -> Turn], NEW c \in Chat
    PROVE  /\ [turnLog EXCEPT ![c].open = TRUE] \in [Chat -> Turn]
           /\ [turnLog EXCEPT ![c].prompting = TRUE] \in [Chat -> Turn]
           /\ [turnLog EXCEPT ![c] = Closed] \in [Chat -> Turn]
<1>1. [turnLog EXCEPT ![c].open = TRUE] \in [Chat -> Turn]
  BY DEF Turn
<1>2. [turnLog EXCEPT ![c].prompting = TRUE] \in [Chat -> Turn]
  BY DEF Turn
<1>3. [turnLog EXCEPT ![c] = Closed] \in [Chat -> Turn]
  BY DEF Turn, Closed
<1> QED BY <1>1, <1>2, <1>3

\* ensure_running that returns early keeps the invariant.
LEMMA EndUnchangedStep ==
    ASSUME IInv, SessionAssumption, NEW t \in Task, EndUnchanged(t)
    PROVE  IInv'
<1>1. DataTyped'
  BY DEF EndUnchanged, durable, DataTyped, IInv, TypeOK
<1> QED BY <1>1, EndStep DEF EndUnchanged

\* ensure_running that stores DEAD and returns keeps the invariant.
LEMMA EndDeadStep ==
    ASSUME IInv, SessionAssumption, NEW t \in Task, pc[t] # "idle", EndDead(t)
    PROVE  IInv'
<1>1. at[t] \in Chat
  BY AtPlace
<1>2. DataTyped'
  BY <1>1, SetStatesTyped DEF EndDead, durable, DataTyped, IInv, TypeOK
<1> QED BY <1>2, EndStep DEF EndDead

\* The holder of the startup lock gives back its own.
LEMMA ReleaseKeeps ==
    ASSUME IInv, SessionAssumption, NEW t \in Task, pc[t] \in StartupPc,
           ReleaseStartupLock(at[t])
    PROVE  /\ OthersKeepStartup(t)
           /\ startupLock' \in [Chat -> Task \cup {NoTask}]
           /\ UNCHANGED <<turnGuard, checkoutGuard>>
<1>1. at[t] \in Chat /\ startupLock[at[t]] = t
  BY AtPlace DEF StartupPc
<1> QED BY <1>1 DEF ReleaseStartupLock, OthersKeepStartup, IInv, TypeOK

\* ensure_running, behind the startup lock.
LEMMA StartupKeeps ==
    ASSUME IInv, SessionAssumption, NEW t \in Task, StartupStep(t)
    PROVE  IInv'
<1> USE DEF durable, session, locks, procs
<1>1. CASE ValidateChat(t)
  <2>1. pc[t] # "idle" /\ at[t] \in Chat
    BY <1>1, AtPlace DEF ValidateChat
  <2>2. CASE EndUnchanged(t)
    BY <2>2, EndUnchangedStep
  <2>3. CASE ~EndUnchanged(t) /\ Goto(t, "decide")
    <3>1. UNCHANGED <<durable, session, locks, procs, own, perm>>
      BY <1>1, <2>3 DEF ValidateChat
    <3>2. DataTyped'
      BY <2>1, <3>1 DEF DataTyped, IInv, TypeOK
    <3>3. HandsMove(t)
      BY <1>1, <2>1, <3>1 DEF ValidateChat, HandsMove, OthersKeepStartup, IInv, TypeOK
    <3>4. Fits(t, "decide")
      BY <1>1, <3>1, AtPlace DEF ValidateChat, Fits, StartupPc, TurnPc, ShutdownPc, OtherPc, Pc
    <3> QED BY <2>3, <3>2, <3>3, <3>4, GotoStep
  <2> QED BY <1>1, <2>2, <2>3 DEF ValidateChat
<1>2. CASE DecideStart(t)
  <2>1. pc[t] # "idle" /\ at[t] \in Chat
    BY <1>2, AtPlace DEF DecideStart
  <2>2. CASE EndUnchanged(t)
    BY <2>2, EndUnchangedStep
  <2>3. CASE ~EndUnchanged(t) /\ End(t)
    <3>1. \/ UNCHANGED <<durable, ps, ts>>
          \/ SetStates(at[t], "starting", "idle") /\ UNCHANGED durable
      BY <1>2, <2>3 DEF DecideStart
    <3>2. DataTyped'
      BY <2>1, <3>1, SetStatesTyped DEF DataTyped, IInv, TypeOK
    <3> QED BY <2>3, <3>2, EndStep
  <2>4. CASE ~EndUnchanged(t) /\ ~End(t) /\ Goto(t, "ensured")
    <3>1. /\ UNCHANGED <<durable, session, procs, own, perm>>
          /\ ReleaseStartupLock(at[t])
      BY <1>2, <2>4 DEF DecideStart, Goto, IInv, TypeOK
    <3>2. DataTyped'
      BY <2>1, <3>1 DEF DataTyped, IInv, TypeOK
    <3>3. HandsMove(t)
      BY <1>2, <2>1, <3>1, ReleaseKeeps DEF DecideStart, HandsMove, StartupPc, IInv, TypeOK
    <3>4. Fits(t, "ensured")
      BY <1>2, <3>1, AtPlace DEF DecideStart, Fits, StartupPc, TurnPc, ShutdownPc, OtherPc, Pc
    <3> QED BY <2>4, <3>2, <3>3, <3>4, GotoStep
  <2>5. CASE ~EndUnchanged(t) /\ ~End(t) /\ ~Goto(t, "ensured") /\ Goto(t, "prepare")
    <3>1. SetStates(at[t], "starting", "idle") /\ UNCHANGED <<durable, client, locks, procs, own, perm>>
      BY <1>2, <2>5 DEF DecideStart, Goto, IInv, TypeOK
    <3>2. DataTyped'
      BY <2>1, <3>1, SetStatesTyped DEF DataTyped, IInv, TypeOK
    <3>3. HandsMove(t)
      BY <1>2, <2>1, <3>1 DEF DecideStart, HandsMove, OthersKeepStartup, IInv, TypeOK
    <3>4. Fits(t, "prepare")
      BY <1>2, <3>1, AtPlace DEF DecideStart, Fits, StartupPc, TurnPc, ShutdownPc, OtherPc, Pc
    <3> QED BY <2>5, <3>2, <3>3, <3>4, GotoStep
  <2> QED BY <1>2, <2>2, <2>3, <2>4, <2>5 DEF DecideStart
<1>3. CASE Prepare(t)
  <2>1. pc[t] # "idle" /\ at[t] \in Chat
    BY <1>3, AtPlace DEF Prepare
  <2>2. CASE EndDead(t)
    BY <2>1, <2>2, EndDeadStep
  <2>3. CASE ~EndDead(t) /\ Goto(t, "handshake")
    <3>1. /\ UNCHANGED <<durable, session, locks, perm>>
          /\ \E p \in Proc : /\ own' = [own EXCEPT ![t] = p]
                            /\ exited' = exited \ {p}
                            /\ stale' = stale \ {p}
      BY <1>3, <2>3 DEF Prepare
    <3>2. DataTyped'
      BY <2>1, <3>1 DEF DataTyped, IInv, TypeOK
    <3>3. HandsMove(t)
      BY <1>3, <2>1, <3>1 DEF Prepare, HandsMove, OthersKeepStartup, IInv, TypeOK
    <3>4. Fits(t, "handshake")
      BY <1>3, <3>1, AtPlace DEF Prepare, Fits, StartupPc, TurnPc, ShutdownPc, OtherPc, Pc
    <3> QED BY <2>3, <3>2, <3>3, <3>4, GotoStep
  <2> QED BY <1>3, <2>2, <2>3 DEF Prepare
<1>4. CASE Handshake(t)
  <2>1. pc[t] # "idle" /\ at[t] \in Chat
    BY <1>4, AtPlace DEF Handshake
  <2>2. CASE EndDead(t)
    BY <2>1, <2>2, EndDeadStep
  <2>3. CASE ~EndDead(t) /\ Goto(t, "configure")
    <3>1. /\ row' = [row EXCEPT ![at[t]].saved = TRUE]
          /\ UNCHANGED <<turnLog, logOk, session, locks, procs, own, perm>>
      BY <1>4, <2>3 DEF Handshake
    <3>2. DataTyped'
      BY <2>1, <3>1, RowTyped DEF DataTyped, IInv, TypeOK
    <3>3. HandsMove(t)
      BY <1>4, <2>1, <3>1 DEF Handshake, HandsMove, OthersKeepStartup, IInv, TypeOK
    <3>4. Fits(t, "configure")
      BY <1>4, <3>1, AtPlace DEF Handshake, Fits, StartupPc, TurnPc, ShutdownPc, OtherPc, Pc
    <3> QED BY <2>3, <3>2, <3>3, <3>4, GotoStep
  <2> QED BY <1>4, <2>2, <2>3 DEF Handshake
<1>5. CASE Configure(t)
  <2>1. pc[t] # "idle" /\ at[t] \in Chat
    BY <1>5, AtPlace DEF Configure
  <2>2. CASE EndDead(t)
    BY <2>1, <2>2, EndDeadStep
  <2>3. CASE ~EndDead(t) /\ Goto(t, "install")
    <3>1. UNCHANGED <<durable, session, locks, procs, own, perm>>
      BY <1>5, <2>3 DEF Configure
    <3>2. DataTyped'
      BY <2>1, <3>1 DEF DataTyped, IInv, TypeOK
    <3>3. HandsMove(t)
      BY <1>5, <2>1, <3>1 DEF Configure, HandsMove, OthersKeepStartup, IInv, TypeOK
    <3>4. Fits(t, "install")
      BY <1>5, <3>1, AtPlace DEF Configure, Fits, StartupPc, TurnPc, ShutdownPc, OtherPc, Pc
    <3> QED BY <2>3, <3>2, <3>3, <3>4, GotoStep
  <2> QED BY <1>5, <2>2, <2>3 DEF Configure
<1>6. CASE InstallClient(t)
  <2>1. pc[t] # "idle" /\ at[t] \in Chat
    BY <1>6, AtPlace DEF InstallClient
  <2>2. CASE Goto(t, "announce")
    <3>1. UNCHANGED <<durable, ps, ts, locks, procs, perm>>
      BY <1>6, <2>2 DEF InstallClient
    <3>2. DataTyped'
      BY <2>1, <3>1 DEF DataTyped, IInv, TypeOK
    <3>3. HandsMove(t)
      BY <1>6, <2>1, <3>1 DEF InstallClient, HandsMove, OthersKeepStartup, IInv, TypeOK
    <3>4. Fits(t, "announce")
      BY <1>6, <3>1, AtPlace DEF InstallClient, Fits, StartupPc, TurnPc, ShutdownPc, OtherPc, Pc
    <3> QED BY <2>2, <3>2, <3>3, <3>4, GotoStep
  <2> QED BY <1>6, <2>2 DEF InstallClient
<1>7. CASE Announce(t)
  <2>1. pc[t] # "idle" /\ at[t] \in Chat
    BY <1>7, AtPlace DEF Announce
  <2>2. CASE End(t)
    <3>1. SetStates(at[t], "running", "idle") /\ UNCHANGED durable
      BY <1>7, <2>2 DEF Announce
    <3>2. DataTyped'
      BY <2>1, <3>1, SetStatesTyped DEF DataTyped, IInv, TypeOK
    <3> QED BY <2>2, <3>2, EndStep
  <2>3. CASE ~End(t) /\ Goto(t, "ensured")
    <3>1. /\ SetStates(at[t], "running", "idle")
          /\ UNCHANGED <<durable, client, procs, own, perm>>
          /\ ReleaseStartupLock(at[t])
      BY <1>7, <2>3 DEF Announce
    <3>2. DataTyped'
      BY <2>1, <3>1, SetStatesTyped DEF DataTyped, IInv, TypeOK
    <3>3. HandsMove(t)
      BY <1>7, <2>1, <3>1, ReleaseKeeps DEF Announce, HandsMove, StartupPc, IInv, TypeOK
    <3>4. Fits(t, "ensured")
      BY <1>7, <3>1, AtPlace DEF Announce, Fits, StartupPc, TurnPc, ShutdownPc, OtherPc, Pc
    <3> QED BY <2>3, <3>2, <3>3, <3>4, GotoStep
  <2> QED BY <1>7, <2>2, <2>3 DEF Announce
<1>8. CASE ReturnRunning(t)
  <2>1. pc[t] # "idle" /\ at[t] \in Chat
    BY <1>8, AtPlace DEF ReturnRunning
  <2>2. CASE EndUnchanged(t)
    BY <2>2, EndUnchangedStep
  <2> QED BY <1>8, <2>2 DEF ReturnRunning
<1> QED BY <1>1, <1>2, <1>3, <1>4, <1>5, <1>6, <1>7, <1>8 DEF StartupStep

\* The turn: nothing in it touches a lock before its end.
LEMMA TurnKeeps ==
    ASSUME IInv, SessionAssumption, NEW t \in Task, TurnStep(t)
    PROVE  IInv'
<1> USE DEF durable, session, locks, procs
<1>1. CASE RecordUserMessage(t)
  <2>1. pc[t] # "idle" /\ at[t] \in Chat
    BY <1>1, AtPlace DEF RecordUserMessage
  <2>2. CASE EndUnchanged(t)
    BY <2>2, EndUnchangedStep
  <2>3. CASE ~EndUnchanged(t) /\ Goto(t, "recorded")
    <3>1. /\ turnLog' = [turnLog EXCEPT ![at[t]].open = TRUE]
          /\ UNCHANGED <<row, logOk, session, locks, procs, own, perm>>
      BY <1>1, <2>3 DEF RecordUserMessage
    <3>2. DataTyped'
      BY <2>1, <3>1, TurnTyped DEF DataTyped, IInv, TypeOK
    <3>3. HandsMove(t)
      BY <1>1, <2>1, <3>1 DEF RecordUserMessage, HandsMove, OthersKeepStartup, IInv, TypeOK
    <3>4. Fits(t, "recorded")
      BY <1>1, <3>1, AtPlace DEF RecordUserMessage, Fits, StartupPc, TurnPc, ShutdownPc, OtherPc, Pc
    <3> QED BY <2>3, <3>2, <3>3, <3>4, GotoStep
  <2> QED BY <1>1, <2>2, <2>3 DEF RecordUserMessage
<1>2. CASE SetPrompting(t)
  <2>1. pc[t] # "idle" /\ at[t] \in Chat
    BY <1>2, AtPlace DEF SetPrompting
  <2>2. CASE End(t)
    <3>1. /\ SetStates(at[t], "running", "prompting")
          /\ turnLog' = turnLog \/ turnLog' = [turnLog EXCEPT ![at[t]].prompting = TRUE]
          /\ UNCHANGED <<row, logOk>>
      BY <1>2, <2>2 DEF SetPrompting
    <3>2. turnLog' \in [Chat -> Turn]
      <4>1. turnLog \in [Chat -> Turn]
        BY DEF IInv, TypeOK
      <4>2. [turnLog EXCEPT ![at[t]].prompting = TRUE] \in [Chat -> Turn]
        BY <2>1, <4>1, TurnTyped
      <4> QED BY <3>1, <4>1, <4>2
    <3>3. DataTyped'
      BY <2>1, <3>1, <3>2, SetStatesTyped DEF DataTyped, IInv, TypeOK
    <3> QED BY <2>2, <3>3, EndStep
  <2>3. CASE ~End(t) /\ Goto(t, "send")
    <3>1. /\ SetStates(at[t], "running", "prompting")
          /\ turnLog' = [turnLog EXCEPT ![at[t]].prompting = TRUE]
          /\ UNCHANGED <<row, logOk, client, locks, procs, own, perm>>
      BY <1>2, <2>3 DEF SetPrompting
    <3>2. DataTyped'
      BY <2>1, <3>1, SetStatesTyped, TurnTyped DEF DataTyped, IInv, TypeOK
    <3>3. HandsMove(t)
      BY <1>2, <2>1, <3>1 DEF SetPrompting, HandsMove, OthersKeepStartup, IInv, TypeOK
    <3>4. Fits(t, "send")
      BY <1>2, <3>1, AtPlace DEF SetPrompting, Fits, StartupPc, TurnPc, ShutdownPc, OtherPc, Pc
    <3> QED BY <2>3, <3>2, <3>3, <3>4, GotoStep
  <2> QED BY <1>2, <2>2, <2>3 DEF SetPrompting
<1>3. CASE SendPrompt(t)
  <2>1. pc[t] # "idle" /\ at[t] \in Chat
    BY <1>3, AtPlace DEF SendPrompt
  <2>2. CASE Goto(t, "failed")
    <3>1. SetStates(at[t], "dead", "idle") /\ UNCHANGED <<durable, client, locks, procs, own, perm>>
      BY <1>3, <2>2 DEF SendPrompt, Goto, IInv, TypeOK
    <3>2. DataTyped'
      BY <2>1, <3>1, SetStatesTyped DEF DataTyped, IInv, TypeOK
    <3>3. HandsMove(t)
      BY <1>3, <2>1, <3>1 DEF SendPrompt, HandsMove, OthersKeepStartup, IInv, TypeOK
    <3>4. Fits(t, "failed")
      BY <1>3, <3>1, AtPlace DEF SendPrompt, Fits, StartupPc, TurnPc, ShutdownPc, OtherPc, Pc
    <3> QED BY <2>2, <3>2, <3>3, <3>4, GotoStep
  <2>3. CASE ~Goto(t, "failed") /\ Goto(t, "waiting")
    <3>1. own' = [own EXCEPT ![t] = client[at[t]]] /\ UNCHANGED <<durable, session, locks, procs, perm>>
      BY <1>3, <2>3 DEF SendPrompt, Goto, IInv, TypeOK
    <3>2. DataTyped'
      BY <2>1, <3>1 DEF DataTyped, IInv, TypeOK
    <3>3. HandsMove(t)
      BY <1>3, <2>1, <3>1 DEF SendPrompt, HandsMove, OthersKeepStartup, IInv, TypeOK
    <3>4. Fits(t, "waiting")
      BY <1>3, <3>1, AtPlace DEF SendPrompt, Fits, StartupPc, TurnPc, ShutdownPc, OtherPc, Pc
    <3> QED BY <2>3, <3>2, <3>3, <3>4, GotoStep
  <2> QED BY <1>3, <2>2, <2>3 DEF SendPrompt
<1>4. CASE CheckDisconnected(t)
  <2>1. pc[t] # "idle" /\ at[t] \in Chat
    BY <1>4, AtPlace DEF CheckDisconnected
  <2>2. CASE Goto(t, "killing")
    <3>1. UNCHANGED <<durable, session, locks, procs, own, perm>>
      BY <1>4, <2>2 DEF CheckDisconnected, Goto, IInv, TypeOK
    <3>2. DataTyped'
      BY <2>1, <3>1 DEF DataTyped, IInv, TypeOK
    <3>3. HandsMove(t)
      BY <1>4, <2>1, <3>1 DEF CheckDisconnected, HandsMove, OthersKeepStartup, IInv, TypeOK
    <3>4. Fits(t, "killing")
      BY <1>4, <3>1, AtPlace DEF CheckDisconnected, Fits, StartupPc, TurnPc, ShutdownPc, OtherPc, Pc
    <3> QED BY <2>2, <3>2, <3>3, <3>4, GotoStep
  <2>3. CASE ~Goto(t, "killing") /\ Goto(t, "failed")
    <3>1. SetStates(at[t], "running", "idle") /\ UNCHANGED <<durable, client, locks, procs, own, perm>>
      BY <1>4, <2>3 DEF CheckDisconnected, Goto, IInv, TypeOK
    <3>2. DataTyped'
      BY <2>1, <3>1, SetStatesTyped DEF DataTyped, IInv, TypeOK
    <3>3. HandsMove(t)
      BY <1>4, <2>1, <3>1 DEF CheckDisconnected, HandsMove, OthersKeepStartup, IInv, TypeOK
    <3>4. Fits(t, "failed")
      BY <1>4, <3>1, AtPlace DEF CheckDisconnected, Fits, StartupPc, TurnPc, ShutdownPc, OtherPc, Pc
    <3> QED BY <2>3, <3>2, <3>3, <3>4, GotoStep
  <2> QED BY <1>4, <2>2, <2>3 DEF CheckDisconnected
<1>5. CASE Finalize(t)
  <2>1. pc[t] # "idle" /\ at[t] \in Chat
    BY <1>5, AtPlace DEF Finalize
  <2>2. CASE Goto(t, "syncTitle")
    <3>1. /\ turnLog' = [turnLog EXCEPT ![at[t]] = Closed]
          /\ UNCHANGED <<row, logOk, session, locks, procs, own, perm>>
      BY <1>5, <2>2 DEF Finalize, Goto, IInv, TypeOK
    <3>2. DataTyped'
      BY <2>1, <3>1, TurnTyped DEF DataTyped, IInv, TypeOK
    <3>3. HandsMove(t)
      BY <1>5, <2>1, <3>1 DEF Finalize, HandsMove, OthersKeepStartup, IInv, TypeOK
    <3>4. Fits(t, "syncTitle")
      BY <1>5, <3>1, AtPlace DEF Finalize, Fits, StartupPc, TurnPc, ShutdownPc, OtherPc, Pc
    <3> QED BY <2>2, <3>2, <3>3, <3>4, GotoStep
  <2>3. CASE ~Goto(t, "syncTitle") /\ Goto(t, "killing")
    <3>1. UNCHANGED <<durable, session, locks, procs, own, perm>>
      BY <1>5, <2>3 DEF Finalize, Goto, IInv, TypeOK
    <3>2. DataTyped'
      BY <2>1, <3>1 DEF DataTyped, IInv, TypeOK
    <3>3. HandsMove(t)
      BY <1>5, <2>1, <3>1 DEF Finalize, HandsMove, OthersKeepStartup, IInv, TypeOK
    <3>4. Fits(t, "killing")
      BY <1>5, <3>1, AtPlace DEF Finalize, Fits, StartupPc, TurnPc, ShutdownPc, OtherPc, Pc
    <3> QED BY <2>3, <3>2, <3>3, <3>4, GotoStep
  <2> QED BY <1>5, <2>2, <2>3 DEF Finalize
<1>6. CASE SyncTitle(t)
  <2>1. pc[t] # "idle" /\ at[t] \in Chat
    BY <1>6, AtPlace DEF SyncTitle
  <2>2. CASE EndUnchanged(t)
    BY <2>2, EndUnchangedStep
  <2> QED BY <1>6, <2>2 DEF SyncTitle
<1>7. CASE MarkDeadTake(t)
  <2>1. pc[t] # "idle" /\ at[t] \in Chat
    BY <1>7, AtPlace DEF MarkDeadTake
  <2>2. CASE Goto(t, "marking")
    <3>1. UNCHANGED <<durable, ps, ts, locks, procs, perm>>
      BY <1>7, <2>2 DEF MarkDeadTake
    <3>2. DataTyped'
      BY <2>1, <3>1 DEF DataTyped, IInv, TypeOK
    <3>3. HandsMove(t)
      BY <1>7, <2>1, <3>1 DEF MarkDeadTake, HandsMove, OthersKeepStartup, IInv, TypeOK
    <3>4. Fits(t, "marking")
      BY <1>7, <3>1, AtPlace DEF MarkDeadTake, Fits, StartupPc, TurnPc, ShutdownPc, OtherPc, Pc
    <3> QED BY <2>2, <3>2, <3>3, <3>4, GotoStep
  <2> QED BY <1>7, <2>2 DEF MarkDeadTake
<1>8. CASE MarkDead(t)
  <2>1. pc[t] # "idle" /\ at[t] \in Chat
    BY <1>8, AtPlace DEF MarkDead
  <2>2. CASE Goto(t, "failed")
    <3>1. SetStates(at[t], "dead", "idle") /\ UNCHANGED <<durable, client, locks, procs, perm>>
      BY <1>8, <2>2 DEF MarkDead
    <3>2. DataTyped'
      BY <2>1, <3>1, SetStatesTyped DEF DataTyped, IInv, TypeOK
    <3>3. HandsMove(t)
      BY <1>8, <2>1, <3>1 DEF MarkDead, HandsMove, OthersKeepStartup, IInv, TypeOK
    <3>4. Fits(t, "failed")
      BY <1>8, <3>1, AtPlace DEF MarkDead, Fits, StartupPc, TurnPc, ShutdownPc, OtherPc, Pc
    <3> QED BY <2>2, <3>2, <3>3, <3>4, GotoStep
  <2> QED BY <1>8, <2>2 DEF MarkDead
<1>9. CASE FinalizeFailed(t)
  <2>1. pc[t] # "idle" /\ at[t] \in Chat
    BY <1>9, AtPlace DEF FinalizeFailed
  <2>2. CASE End(t)
    <3>1. /\ turnLog' = turnLog \/ turnLog' = [turnLog EXCEPT ![at[t]] = Closed]
          /\ UNCHANGED <<row, logOk, ps, ts>>
      BY <1>9, <2>2 DEF FinalizeFailed
    <3>2. turnLog' \in [Chat -> Turn]
      <4>1. turnLog \in [Chat -> Turn]
        BY DEF IInv, TypeOK
      <4>2. [turnLog EXCEPT ![at[t]] = Closed] \in [Chat -> Turn]
        BY <2>1, <4>1, TurnTyped
      <4> QED BY <3>1, <4>1, <4>2
    <3>3. DataTyped'
      BY <3>1, <3>2 DEF DataTyped, IInv, TypeOK
    <3> QED BY <2>2, <3>3, EndStep
  <2> QED BY <1>9, <2>2 DEF FinalizeFailed
<1> QED BY <1>1, <1>2, <1>3, <1>4, <1>5, <1>6, <1>7, <1>8, <1>9 DEF TurnStep

\* The end of the wait for the agent.
LEMMA AnswerKeeps ==
    ASSUME IInv, SessionAssumption, NEW t \in Task, AgentAnswer(t)
    PROVE  IInv'
<1> USE DEF durable, session, locks, procs
<1>1. CASE TurnCompletes(t)
  <2>1. pc[t] # "idle" /\ at[t] \in Chat
    BY <1>1, AtPlace DEF TurnCompletes
  <2>2. CASE Goto(t, "finalize")
    <3>1. SetStates(at[t], "running", "idle") /\ UNCHANGED <<durable, client, locks, procs, own>>
      BY <1>1, <2>2 DEF TurnCompletes, Goto, IInv, TypeOK
    <3>2. DataTyped'
      BY <2>1, <3>1, SetStatesTyped DEF DataTyped, IInv, TypeOK
    <3>3. HandsMove(t)
      BY <1>1, <2>1, <3>1 DEF TurnCompletes, HandsMove, OthersKeepStartup, IInv, TypeOK
    <3>4. Fits(t, "finalize")
      BY <1>1, <3>1, AtPlace DEF TurnCompletes, Fits, StartupPc, TurnPc, ShutdownPc, OtherPc, Pc
    <3> QED BY <2>2, <3>2, <3>3, <3>4, GotoStep
  <2>3. CASE ~Goto(t, "finalize") /\ Goto(t, "failed")
    <3>1. SetStates(at[t], "running", "idle") /\ UNCHANGED <<durable, client, locks, procs, own>>
      BY <1>1, <2>3 DEF TurnCompletes, Goto, IInv, TypeOK
    <3>2. DataTyped'
      BY <2>1, <3>1, SetStatesTyped DEF DataTyped, IInv, TypeOK
    <3>3. HandsMove(t)
      BY <1>1, <2>1, <3>1 DEF TurnCompletes, HandsMove, OthersKeepStartup, IInv, TypeOK
    <3>4. Fits(t, "failed")
      BY <1>1, <3>1, AtPlace DEF TurnCompletes, Fits, StartupPc, TurnPc, ShutdownPc, OtherPc, Pc
    <3> QED BY <2>3, <3>2, <3>3, <3>4, GotoStep
  <2> QED BY <1>1, <2>2, <2>3 DEF TurnCompletes
<1>2. CASE TurnFails(t)
  <2>1. pc[t] # "idle" /\ at[t] \in Chat
    BY <1>2, AtPlace DEF TurnFails
  <2>2. CASE Goto(t, "errcheck")
    <3>1. UNCHANGED <<durable, session, locks, procs, own>>
      BY <1>2, <2>2 DEF TurnFails
    <3>2. DataTyped'
      BY <2>1, <3>1 DEF DataTyped, IInv, TypeOK
    <3>3. HandsMove(t)
      BY <1>2, <2>1, <3>1 DEF TurnFails, HandsMove, OthersKeepStartup, IInv, TypeOK
    <3>4. Fits(t, "errcheck")
      BY <1>2, <3>1, AtPlace DEF TurnFails, Fits, StartupPc, TurnPc, ShutdownPc, OtherPc, Pc
    <3> QED BY <2>2, <3>2, <3>3, <3>4, GotoStep
  <2> QED BY <1>2, <2>2 DEF TurnFails
<1>3. CASE TurnTimesOut(t)
  <2>1. pc[t] # "idle" /\ at[t] \in Chat
    BY <1>3, AtPlace DEF TurnTimesOut
  <2>2. CASE Goto(t, "killing")
    <3>1. UNCHANGED <<durable, session, locks, procs, own, perm>>
      BY <1>3, <2>2 DEF TurnTimesOut
    <3>2. DataTyped'
      BY <2>1, <3>1 DEF DataTyped, IInv, TypeOK
    <3>3. HandsMove(t)
      BY <1>3, <2>1, <3>1 DEF TurnTimesOut, HandsMove, OthersKeepStartup, IInv, TypeOK
    <3>4. Fits(t, "killing")
      BY <1>3, <3>1, AtPlace DEF TurnTimesOut, Fits, StartupPc, TurnPc, ShutdownPc, OtherPc, Pc
    <3> QED BY <2>2, <3>2, <3>3, <3>4, GotoStep
  <2> QED BY <1>3, <2>2 DEF TurnTimesOut
<1> QED BY <1>1, <1>2, <1>3 DEF AgentAnswer

\* stop, delete and configuration edits, holding turn_guard.
LEMMA ShutdownKeeps ==
    ASSUME IInv, SessionAssumption, NEW t \in Task, ShutdownStep(t)
    PROVE  IInv'
<1> USE DEF durable, session, locks, procs
<1>1. CASE TakeClient(t)
  <2>1. pc[t] # "idle" /\ at[t] \in Chat
    BY <1>1, AtPlace DEF TakeClient
  <2>2. CASE EndUnchanged(t)
    BY <2>2, EndUnchangedStep
  <2>3. CASE ~EndUnchanged(t) /\ Goto(t, "closing")
    <3>1. /\ own' = [own EXCEPT ![t] = client[at[t]]]
          /\ client' = [client EXCEPT ![at[t]] = NoProc]
          /\ UNCHANGED <<durable, ps, ts, locks, procs, perm>>
      BY <1>1, <2>3 DEF TakeClient
    <3>2. DataTyped'
      BY <2>1, <3>1 DEF DataTyped, IInv, TypeOK
    <3>3. HandsMove(t)
      BY <1>1, <2>1, <3>1 DEF TakeClient, HandsMove, OthersKeepStartup, IInv, TypeOK
    <3>4. Fits(t, "closing")
      BY <1>1, <3>1, AtPlace DEF TakeClient, Fits, StartupPc, TurnPc, ShutdownPc, OtherPc, Pc
    <3> QED BY <2>3, <3>2, <3>3, <3>4, GotoStep
  <2> QED BY <1>1, <2>2, <2>3 DEF TakeClient
<1>2. CASE FinishShutdown(t)
  <2>1. pc[t] # "idle" /\ at[t] \in Chat
    BY <1>2, AtPlace DEF FinishShutdown
  <2>2. CASE End(t)
    <3>1. SetStates(at[t], "stopped", "idle") /\ UNCHANGED durable
      BY <1>2, <2>2 DEF FinishShutdown
    <3>2. DataTyped'
      BY <2>1, <3>1, SetStatesTyped DEF DataTyped, IInv, TypeOK
    <3> QED BY <2>2, <3>2, EndStep
  <2>3. CASE ~End(t) /\ Goto(t, "cleanup")
    <3>1. /\ op[t] = "delete"
          /\ SetStates(at[t], "stopped", "idle")
          /\ UNCHANGED <<durable, client, locks, procs, perm>>
      BY <1>2, <2>3 DEF FinishShutdown
    <3>2. DataTyped'
      BY <2>1, <3>1, SetStatesTyped DEF DataTyped, IInv, TypeOK
    <3>3. HandsMove(t)
      BY <1>2, <2>1, <3>1 DEF FinishShutdown, HandsMove, OthersKeepStartup, IInv, TypeOK
    <3>4. Fits(t, "cleanup")
      BY <1>2, <3>1, AtPlace DEF FinishShutdown, Fits, StartupPc, TurnPc, ShutdownPc, OtherPc, Pc
    <3> QED BY <2>3, <3>2, <3>3, <3>4, GotoStep
  <2> QED BY <1>2, <2>2, <2>3 DEF FinishShutdown
<1>3. CASE DeleteRow(t)
  <2>1. pc[t] # "idle" /\ at[t] \in Chat
    BY <1>3, AtPlace DEF DeleteRow
  <2>2. CASE EndUnchanged(t)
    BY <2>2, EndUnchangedStep
  <2>3. CASE ~EndUnchanged(t) /\ End(t)
    <3>1. /\ row' = [row EXCEPT ![at[t]].deleted = TRUE]
          /\ turnLog' = [turnLog EXCEPT ![at[t]] = Closed]
          /\ UNCHANGED <<logOk, ps, ts>>
      BY <1>3, <2>3 DEF DeleteRow
    <3>2. DataTyped'
      BY <2>1, <3>1, RowTyped, TurnTyped DEF DataTyped, IInv, TypeOK
    <3> QED BY <2>3, <3>2, EndStep
  <2> QED BY <1>3, <2>2, <2>3 DEF DeleteRow
<1>4. CASE EditCheck(t)
  <2>1. pc[t] # "idle" /\ at[t] \in Chat
    BY <1>4, AtPlace DEF EditCheck
  <2>2. CASE EndUnchanged(t)
    BY <2>2, EndUnchangedStep
  <2>3. CASE ~EndUnchanged(t) /\ Goto(t, "editStore")
    <3>1. UNCHANGED <<durable, session, locks, procs, own, perm>>
      BY <1>4, <2>3 DEF EditCheck
    <3>2. DataTyped'
      BY <2>1, <3>1 DEF DataTyped, IInv, TypeOK
    <3>3. HandsMove(t)
      BY <1>4, <2>1, <3>1 DEF EditCheck, HandsMove, OthersKeepStartup, IInv, TypeOK
    <3>4. Fits(t, "editStore")
      BY <1>4, <3>1, AtPlace DEF EditCheck, Fits, StartupPc, TurnPc, ShutdownPc, OtherPc, Pc
    <3> QED BY <2>3, <3>2, <3>3, <3>4, GotoStep
  <2> QED BY <1>4, <2>2, <2>3 DEF EditCheck
<1>5. CASE EditStore(t)
  <2>1. pc[t] # "idle" /\ at[t] \in Chat
    BY <1>5, AtPlace DEF EditStore
  <2>2. CASE Goto(t, "editDecide")
    <3>1. UNCHANGED <<durable, session, locks, exited, own, perm>>
      BY <1>5, <2>2 DEF EditStore
    <3>2. DataTyped'
      BY <2>1, <3>1 DEF DataTyped, IInv, TypeOK
    <3>3. HandsMove(t)
      BY <1>5, <2>1, <3>1 DEF EditStore, HandsMove, OthersKeepStartup, IInv, TypeOK
    <3>4. Fits(t, "editDecide")
      BY <1>5, <3>1, AtPlace DEF EditStore, Fits, StartupPc, TurnPc, ShutdownPc, OtherPc, Pc
    <3> QED BY <2>2, <3>2, <3>3, <3>4, GotoStep
  <2> QED BY <1>5, <2>2 DEF EditStore
<1>6. CASE EditDecide(t)
  <2>1. pc[t] # "idle" /\ at[t] \in Chat
    BY <1>6, AtPlace DEF EditDecide
  <2>2. CASE EndUnchanged(t)
    BY <2>2, EndUnchangedStep
  <2>3. CASE ~EndUnchanged(t) /\ Goto(t, "take")
    <3>1. UNCHANGED <<durable, session, locks, procs, own, perm>>
      BY <1>6, <2>3 DEF EditDecide
    <3>2. DataTyped'
      BY <2>1, <3>1 DEF DataTyped, IInv, TypeOK
    <3>3. HandsMove(t)
      BY <1>6, <2>1, <3>1 DEF EditDecide, HandsMove, OthersKeepStartup, IInv, TypeOK
    <3>4. Fits(t, "take")
      BY <1>6, <3>1, AtPlace DEF EditDecide, Fits, StartupPc, TurnPc, ShutdownPc, OtherPc, Pc
    <3> QED BY <2>3, <3>2, <3>3, <3>4, GotoStep
  <2> QED BY <1>6, <2>2, <2>3 DEF EditDecide
<1>7. CASE ReapGuard(t)
  <2>1. pc[t] = "reapGuard" /\ op[t] = "reap" /\ at[t] \in Chat /\ t # NoTask
    BY <1>7, AtPlace DEF ReapGuard
  <2>2. CASE EndUnchanged(t)
    BY <2>2, EndUnchangedStep
  <2>3. CASE ~EndUnchanged(t)
    <3>1. /\ TryTurnGuard(t, at[t])
          /\ Goto(t, "take")
          /\ UNCHANGED <<durable, session, startupLock, checkoutGuard, procs, own, perm>>
      BY <1>7, <2>3 DEF ReapGuard
    <3>2. /\ op' = op /\ at' = at /\ pc'[t] = "take" /\ pc' \in [Task -> Pc]
          /\ \A u \in Task : u # t => pc'[u] = pc[u]
      BY <3>1 DEF Goto, IInv, TypeOK, Pc, ShutdownPc
    <3>3. /\ turnGuard' \in [Chat -> Task \cup {NoTask}]
          /\ turnGuard'[at[t]] = t
          /\ \A u \in Task, c \in Chat : turnGuard[c] = u => turnGuard'[c] = u
      BY <2>1, <3>1 DEF TryTurnGuard, IInv, TypeOK, SessionAssumption
    <3>4. TypeOK'
      BY <3>1, <3>2, <3>3 DEF IInv, TypeOK
    <3>5. Places'
      BY <2>1, <3>2 DEF IInv, LockDiscipline, Places, TurnPc, StartupPc, ShutdownPc
    <3>6. GuardHeld'
      <4>1. \A u \in Task : op[u] # "none" => at[u] \in Chat
        BY DEF IInv, LockDiscipline, Places, TypeOK
      <4> QED BY <3>2, <3>3, <4>1 DEF IInv, LockDiscipline, GuardHeld
    <3>7. CheckoutHeld'
      BY <3>1, <3>2 DEF IInv, LockDiscipline, CheckoutHeld
    <3>8. StartupHeld'
      BY <3>1, <3>2 DEF IInv, LockDiscipline, StartupHeld, StartupPc
    <3> QED BY <3>4, <3>5, <3>6, <3>7, <3>8 DEF IInv, LockDiscipline
  <2> QED BY <2>2, <2>3
<1> QED BY <1>1, <1>2, <1>3, <1>4, <1>5, <1>6, <1>7 DEF ShutdownStep

\* The holder of the lock before it got it, and requests that are given up.
LEMMA LockStartupKeeps ==
    ASSUME IInv, SessionAssumption, NEW t \in Task, LockStartup(t)
    PROVE  IInv'
<1>1. /\ pc[t] = "lockStartup" /\ at[t] \in Chat
      /\ startupLock[at[t]] = NoTask
      /\ startupLock' = [startupLock EXCEPT ![at[t]] = t]
      /\ Goto(t, "validate")
      /\ UNCHANGED <<durable, session, turnGuard, checkoutGuard, procs, own, perm>>
  BY AtPlace DEF LockStartup
<1>2. DataTyped'
  BY <1>1 DEF durable, session, DataTyped, IInv, TypeOK
<1>3. HandsMove(t)
  BY <1>1 DEF durable, session, procs, HandsMove, OthersKeepStartup, IInv, TypeOK, SessionAssumption
<1>4. Fits(t, "validate")
  BY <1>1, AtPlace DEF Fits, StartupPc, TurnPc, ShutdownPc, OtherPc, Pc, IInv, TypeOK
<1> QED BY <1>1, <1>2, <1>3, <1>4, GotoStep

\* A request that is dropped leaves its guards.
LEMMA AbandonKeeps ==
    ASSUME IInv, SessionAssumption, NEW t \in Task, Abandon(t)
    PROVE  IInv'
  BY EndUnchangedStep DEF Abandon

\* The steps of the environment.
LEMMA OutsideKeeps ==
    ASSUME IInv, SessionAssumption,
           \/ \E t \in Task : AgentAsksPermission(t) \/ PermissionAnswered(t)
           \/ \E c \in Chat : SetArchived(c)
           \/ \E p \in Proc : ProcessExits(p)
           \/ LogFails
           \/ UNCHANGED vars
    PROVE  IInv'
<1> USE DEF durable, session, locks, procs
<1>1. /\ UNCHANGED <<turnLog, session, locks, stale, op, at, pc, own>>
      /\ row' = row \/ \E c \in Chat : row' = [row EXCEPT ![c].archived = ~@]
      /\ logOk' \in {logOk, FALSE}
      /\ exited' = exited \/ \E p \in Proc : exited' = exited \cup {p}
      /\ perm' = perm \/ \E t \in Task : perm' = perm \cup {t} \/ perm' = perm \ {t}
  BY DEF AgentAsksPermission, PermissionAnswered, SetArchived, ProcessExits, LogFails, vars
<1>2. row' \in [Chat -> Row]
  <2>1. CASE row' = row
    BY <2>1 DEF IInv, TypeOK
  <2>2. CASE \E c \in Chat : row' = [row EXCEPT ![c].archived = ~@]
    <3>1. PICK c \in Chat : row' = [row EXCEPT ![c].archived = ~@]
      BY <2>2
    <3>2. row \in [Chat -> Row]
      BY DEF IInv, TypeOK
    <3> QED BY <3>1, <3>2, RowTyped
  <2> QED BY <1>1, <2>1, <2>2
<1>3. TypeOK'
  BY <1>1, <1>2 DEF IInv, TypeOK
<1>4. LockDiscipline'
  BY <1>1 DEF IInv, LockDiscipline, Places, GuardHeld, CheckoutHeld, StartupHeld
<1> QED BY <1>3, <1>4 DEF IInv

\* A restart ends every task and gives back every guard.
LEMMA RestartKeeps ==
    ASSUME IInv, SessionAssumption, Restart
    PROVE  IInv'
<1>1. turnLog' \in [Chat -> Turn]
  BY DEF Restart, IInv, TypeOK, Turn, Closed
<1>2. TypeOK'
  BY <1>1 DEF Restart, IInv, TypeOK, Pc
<1>3. Places' /\ GuardHeld' /\ CheckoutHeld' /\ StartupHeld'
  BY DEF Restart, Places, GuardHeld, CheckoutHeld, StartupHeld, StartupPc, TurnPc, ShutdownPc
<1> QED BY <1>2, <1>3 DEF IInv, LockDiscipline

-----------------------------------------------------------------------------
(* Theorems.                                                               *)

\* Initially nobody holds a guard.
LEMMA InitHolds == SessionAssumption /\ Init => IInv
<1> SUFFICES ASSUME SessionAssumption, Init PROVE IInv
  OBVIOUS
<1>1. TypeOK
  BY DEF Init, TypeOK, Row, Turn, Closed, Pc
<1>2. LockDiscipline
  BY DEF Init, LockDiscipline, Places, GuardHeld, CheckoutHeld, StartupHeld, StartupPc, TurnPc, ShutdownPc
<1> QED BY <1>1, <1>2 DEF IInv

\* Every step keeps the lock discipline.
LEMMA NextKeeps == SessionAssumption /\ IInv /\ [Next]_vars => IInv'
<1> SUFFICES ASSUME SessionAssumption, IInv, [Next]_vars PROVE IInv'
  OBVIOUS
<1>1. CASE \E t \in Task, c \in Chat : Ask(t, c)
  BY <1>1, AskKeeps
<1>2. CASE \E t \in Task : LockStartup(t) \/ Abandon(t) \/ TaskStep(t) \/ AgentAnswer(t)
  BY <1>2, LockStartupKeeps, AbandonKeeps, StartupKeeps, TurnKeeps, ShutdownKeeps, AnswerKeeps
     DEF TaskStep
<1>3. CASE Restart
  BY <1>3, RestartKeeps
<1> QED BY <1>1, <1>2, <1>3, OutsideKeeps DEF Next

\* Every value the program stores is of the kind it declares, and every lock is
\* held at the places of the code that rely on it.
THEOREM LockDisciplineHolds == Spec => []IInv
  BY InitHolds, NextKeeps, SessionAssumption, PTL DEF Spec

\* The stored states are those of the state machine's types; CANCELLING is not
\* among them.
THEOREM TypeCorrect == Spec => []TypeOK
<1>1. IInv => TypeOK
  BY DEF IInv
<1> QED BY <1>1, LockDisciplineHolds, PTL

\* admit_turn: no two prompts in one primary checkout.
THEOREM CheckoutExclusionHolds == Spec => []CheckoutExclusion
<1>1. IInv => CheckoutExclusion
  <2> SUFFICES ASSUME IInv, NEW t \in Task, NEW u \in Task, NEW c \in Chat, NEW d \in Chat,
                      Prompting(t, c), Prompting(u, d), t # u
               PROVE  c # d /\ ~Sharing(c, d)
    BY DEF CheckoutExclusion
  <2>1. turnGuard[c] = t /\ turnGuard[d] = u
    BY DEF Prompting, IInv, LockDiscipline, GuardHeld, Places
  <2>2. Sharing(c, d) => t = u
    BY DEF Prompting, Sharing, IInv, LockDiscipline, CheckoutHeld
  <2> QED BY <2>1, <2>2
<1> QED BY <1>1, LockDisciplineHolds, PTL

\* stop, delete, edit and reap never meet a turn, nor each other.
THEOREM TeardownSparesTurnHolds == Spec => []TeardownSparesTurn
<1>1. IInv => TeardownSparesTurn
  <2> SUFFICES ASSUME IInv, NEW t \in Task, NEW u \in Task, NEW c \in Chat,
                      Shutting(t, c), t # u
               PROVE  ~InTurn(u, c) /\ ~Shutting(u, c)
    BY DEF TeardownSparesTurn
  <2>1. turnGuard[c] = t
    BY DEF Shutting, ShutdownPc, IInv, LockDiscipline, GuardHeld, Places
  <2>2. InTurn(u, c) \/ Shutting(u, c) => turnGuard[c] = u
    BY DEF Shutting, InTurn, ShutdownPc, TurnPc, IInv, LockDiscipline, GuardHeld, Places
  <2> QED BY <2>1, <2>2
<1> QED BY <1>1, LockDisciplineHolds, PTL

\* One request at a time opens a process for a chat.
THEOREM OneStartupHolds == Spec => []OneStartup
<1>1. IInv => OneStartup
  BY DEF OneStartup, Starting, IInv, LockDiscipline, StartupHeld
<1> QED BY <1>1, LockDisciplineHolds, PTL

\* The two together: startup_lock and the states it protects (session/mod.rs:242).
THEOREM StartupsHoldAlways == Spec => []StartupsHold
BY TypeCorrect, OneStartupHolds, PTL DEF StartupsHold

-----------------------------------------------------------------------------
(* One process per chat.  The processes follow the locks: whoever starts,   *)
(* takes or closes one holds turn_guard, as long as no query is among the  *)
(* requests, and the invariant says where a process may be meanwhile.      *)

\* Who starts or stops a chat's process holds its turn_guard.
NoQuery == \A t \in Task : op[t] # "query"

\* Places of a prompt that still has the process it sent to.
SentPc == {"waiting", "errcheck", "killing", "finalize", "failed", "syncTitle"}

\* Where a task has a process in hand: its new one, the client's, or the one it took.
Hands ==
    \A t \in Task : own[t] # NoProc =>
        \/ pc[t] \in {"handshake", "configure", "install", "marking", "closing"}
        \/ pc[t] \in SentPc /\ client[at[t]] = own[t]

\* A start finds the old client gone, and who takes the client leaves none.
NoClient ==
    \A t \in Task :
        /\ pc[t] \in {"prepare", "handshake", "configure", "install"} => Disconnected(at[t])
        /\ pc[t] \in {"marking", "closing", "cleanup"} => client[at[t]] = NoProc

\* Only a session that is RUNNING, or about to be announced, has a connected client.
ClientRuns ==
    \A c \in Chat :
        ps[c] # "running" => Disconnected(c) \/ \E t \in Task : at[t] = c /\ pc[t] = "announce"

\* A process belongs to one chat.
RefBy(p, c) == client[c] = p \/ \E t \in Task : at[t] = c /\ own[t] = p
OwnChat == \A p \in Proc, c, d \in Chat : RefBy(p, c) /\ RefBy(p, d) => c = d

\* An outdated process lives only while the edit that outdated it goes on.
StaleEdited ==
    \A c \in Chat, p \in stale : p \in LiveOf(c) =>
        \E t \in Task : at[t] = c /\ op[t] = "edit" /\ pc[t] \in {"editDecide", "take", "closing"}

ProcInv == NoQuery /\ Hands /\ NoClient /\ ClientRuns /\ OwnChat /\ StaleEdited

USE SessionAssumption

\* Without queries, two requests on one chat are told apart by turn_guard.
LEMMA Alone ==
    ASSUME IInv, NoQuery, NEW t \in Task, NEW u \in Task, t # u, at[t] \in Chat, at[u] = at[t],
           pc[t] # "reapGuard"
    PROVE  pc[u] = "reapGuard"
BY DEF IInv, LockDiscipline, Places, GuardHeld, NoQuery, SessionAssumption

\* Who has a process in hand works on a chat.
LEMMA HandPlaces ==
    ASSUME IInv, Hands, NEW t \in Task, own[t] # NoProc
    PROVE  pc[t] \notin {"idle", "reapGuard"} /\ at[t] \in Chat
BY DEF IInv, LockDiscipline, Places, Hands, SentPc, TypeOK

\* An edit that has stored its change and still holds the chat.
Edits(t) == op[t] = "edit" /\ pc[t] \in {"editDecide", "take", "closing"}

\* What a step of t on the chat c may do to processes ...
OneChatMoves(t, c) ==
    /\ \A u \in Task \ {t} : pc'[u] = pc[u] /\ at'[u] = at[u] /\ op'[u] = op[u] /\ own'[u] = own[u]
    /\ \A d \in Chat \ {c} : client'[d] = client[d] /\ ps'[d] = ps[d]
    /\ at'[t] \in {c, NoChat} /\ op'[t] \in {op[t], "none"}
    /\ at'[t] = NoChat => own'[t] = NoProc
    /\ \A p \in exited : Referenced(p) /\ Referenced(p)' => p \in exited'
    /\ \A p \in Proc : RefBy(p, c)' => RefBy(p, c) \/ (~Referenced(p) /\ p \notin stale')
    /\ \A p \in stale' \ stale : RefBy(p, c) /\ at'[t] = c /\ Edits(t)'
    /\ \/ client'[c] = client[c] \/ pc[t] # "reapGuard"
       \/ \A u \in Task \ {t} : at[u] # c

\* ... and what it leaves for t itself and its chat.
LeavesHands(t, c) ==
    /\ own'[t] # NoProc =>
          \/ pc'[t] \in {"handshake", "configure", "install", "marking", "closing"}
          \/ pc'[t] \in SentPc /\ client'[c] = own'[t]
    /\ pc'[t] \in {"prepare", "handshake", "configure", "install"} => Disconnected(c)'
    /\ pc'[t] \in {"marking", "closing", "cleanup"} => client'[c] = NoProc
    /\ \/ Disconnected(c)' \/ ps'[c] = "running" \/ (at'[t] = c /\ pc'[t] = "announce")
       \/ ps'[c] = ps[c] /\ client'[c] = client[c] /\ pc[t] # "announce"
    /\ Edits(t) => (Disconnected(c)' /\ own'[t] = NoProc) \/ (at'[t] = c /\ Edits(t)')

\* Such a step keeps the invariant.
LEMMA ProcStep ==
    ASSUME IInv, IInv', ProcInv, NEW t \in Task, NEW c \in Chat, at[t] = c,
           OneChatMoves(t, c), LeavesHands(t, c)
    PROVE  ProcInv'
<1>. USE DEF ProcInv
<1>1. \A u \in Task \ {t} : /\ pc'[u] = pc[u] /\ at'[u] = at[u] /\ op'[u] = op[u]
                            /\ own'[u] = own[u]
  BY DEF OneChatMoves
<1>2. \A d \in Chat \ {c} : client'[d] = client[d] /\ ps'[d] = ps[d]
  BY DEF OneChatMoves
<1>3. at'[t] \in {c, NoChat} /\ (at'[t] = NoChat => own'[t] = NoProc)
  BY DEF OneChatMoves
<1>4. \A d \in Chat \ {c} : Disconnected(d) => Disconnected(d)'
  BY <1>2 DEF OneChatMoves, Disconnected, Referenced
<1>5. client'[c] = client[c] => (Disconnected(c) => Disconnected(c)')
  BY DEF OneChatMoves, Disconnected, Referenced
<1>6. \A d \in Chat \ {c}, p \in Proc : RefBy(p, d)' <=> RefBy(p, d)
  BY <1>1, <1>2, <1>3 DEF RefBy, SessionAssumption
<1>7. \A u \in Task \ {t} : at[u] = c =>
          pc[u] = "reapGuard" \/ (pc[t] = "reapGuard" /\ client'[c] = client[c])
  BY Alone DEF OneChatMoves
<1>8. NoQuery'
  BY <1>1 DEF OneChatMoves, NoQuery
<1>9. Hands'
  <2>1. ASSUME NEW u \in Task \ {t}, own[u] # NoProc
        PROVE  \/ pc[u] \in {"handshake", "configure", "install", "marking", "closing"}
               \/ pc[u] \in SentPc /\ client'[at[u]] = own[u]
    BY <1>2, <1>7, <2>1, HandPlaces DEF Hands
  <2>. QED BY <1>1, <1>3, <2>1 DEF Hands, LeavesHands
<1>10. NoClient'
  <2>1. ASSUME NEW u \in Task \ {t}
        PROVE  /\ pc[u] \in {"prepare", "handshake", "configure", "install"} => Disconnected(at[u])'
               /\ pc[u] \in {"marking", "closing", "cleanup"} => client'[at[u]] = NoProc
    <3>1. CASE at[u] = c
      BY <1>1, <1>5, <1>7, <3>1 DEF NoClient, Disconnected
    <3>2. CASE at[u] # c /\ at[u] \in Chat
      BY <1>1, <1>2, <1>4, <3>2 DEF NoClient, Disconnected
    <3>3. CASE at[u] \notin Chat
      BY <3>3 DEF IInv, LockDiscipline, Places, TypeOK
    <3>. QED BY <3>1, <3>2, <3>3
  <2>2. pc'[t] \in {"prepare", "handshake", "configure", "install", "marking", "closing", "cleanup"}
            => at'[t] = c
    BY <1>3 DEF IInv, LockDiscipline, Places
  <2>. QED BY <1>1, <2>1, <2>2 DEF NoClient, LeavesHands, Disconnected
<1>11. ClientRuns'
  <2>1. ASSUME NEW d \in Chat \ {c}, ps'[d] # "running"
        PROVE  Disconnected(d)' \/ \E u \in Task : at'[u] = d /\ pc'[u] = "announce"
    BY <1>1, <1>2, <1>4, <2>1 DEF ClientRuns
  <2>2. ASSUME ps'[c] # "running"
        PROVE  Disconnected(c)' \/ \E u \in Task : at'[u] = c /\ pc'[u] = "announce"
    BY <1>1, <1>5, <2>2 DEF ClientRuns, LeavesHands
  <2>. QED BY <2>1, <2>2 DEF ClientRuns
<1>12. OwnChat'
  <2>1. \A p \in Proc, d \in Chat : RefBy(p, d) => Referenced(p)
    BY DEF RefBy, Referenced
  <2>2. \A p \in Proc, d \in Chat \ {c} : RefBy(p, c)' /\ RefBy(p, d)' => FALSE
    BY <1>6, <2>1 DEF OneChatMoves, OwnChat
  <2>3. \A p \in Proc, d \in Chat \ {c}, e \in Chat \ {c} : RefBy(p, d)' /\ RefBy(p, e)' => d = e
    BY <1>6 DEF OwnChat
  <2>. QED BY <2>2, <2>3 DEF OwnChat
<1>13. StaleEdited'
  <2>. SUFFICES ASSUME NEW d \in Chat, NEW p \in stale', p \in LiveOf(d)'
                PROVE  \E u \in Task : at'[u] = d /\ Edits(u)'
    BY DEF StaleEdited, Edits
  <2>1. p \in Proc /\ RefBy(p, d)' /\ Referenced(p)' /\ p \notin exited'
    BY DEF LiveOf, Alive, RefBy
  <2>2. p \in stale \/ (RefBy(p, c) /\ at'[t] = c /\ Edits(t)')
    BY DEF OneChatMoves
  <2>3. RefBy(p, d)
    BY <1>6, <2>1 DEF OneChatMoves
  <2>4. CASE p \notin stale
    BY <2>1, <2>2, <2>3, <2>4 DEF OwnChat
  <2>5. CASE p \in stale
    <3>1. Referenced(p)
      BY <2>3 DEF RefBy, Referenced
    <3>2. p \in LiveOf(d)
      BY <2>1, <2>3, <3>1 DEF LiveOf, Alive, RefBy, OneChatMoves
    <3>3. PICK u \in Task : at[u] = d /\ Edits(u)
      BY <2>5, <3>2 DEF StaleEdited, Edits
    <3>4. CASE u # t
      BY <1>1, <3>3, <3>4 DEF Edits
    <3>5. CASE u = t
      <4>1. d = c
        BY <3>3, <3>5
      <4>2. SUFFICES ASSUME Disconnected(c)', own'[t] = NoProc PROVE FALSE
        BY <3>3, <3>5, <4>1 DEF LeavesHands
      <4>3. client'[c] # p
        BY <2>1, <4>2 DEF Disconnected, SessionAssumption
      <4>4. PICK v \in Task : at'[v] = c /\ own'[v] = p
        BY <2>1, <4>1, <4>3 DEF RefBy
      <4>5. v # t
        BY <2>1, <4>2, <4>4 DEF SessionAssumption
      <4>6. pc[v] = "reapGuard" \/ pc[t] = "reapGuard"
        BY <1>1, <1>7, <4>4, <4>5
      <4>7. pc[v] # "reapGuard"
        BY <1>1, <2>1, <4>4, <4>5, HandPlaces DEF SessionAssumption
      <4>. QED BY <3>3, <3>5, <4>6, <4>7 DEF Edits
    <3>. QED BY <3>4, <3>5
  <2>. QED BY <2>4, <2>5
<1>. QED BY <1>8, <1>9, <1>10, <1>11, <1>12, <1>13

\* A task that returns drops what it has in hand, and may leave STARTING or
\* DEAD only where the client has gone.
LEMMA EndProc ==
    ASSUME IInv, IInv', ProcInv, NEW t \in Task, NEW c \in Chat, at[t] = c, End(t),
           \A d \in Chat \ {c} : ps'[d] = ps[d],
           \/ Disconnected(c) \/ ps'[c] = "running"
           \/ ps'[c] = ps[c] /\ pc[t] # "announce",
           Edits(t) => Disconnected(c)
    PROVE  ProcInv'
<1>1. /\ op'[t] = "none" /\ at'[t] = NoChat /\ pc'[t] = "idle" /\ own'[t] = NoProc
      /\ \A u \in Task \ {t} : pc'[u] = pc[u] /\ at'[u] = at[u] /\ op'[u] = op[u] /\ own'[u] = own[u]
  BY DEF End, IInv, TypeOK
<1>2. /\ \A d \in Chat \ {c} : client'[d] = client[d]
      /\ client'[c] = client[c] \/ (client'[c] = NoProc /\ \A u \in Task \ {t} : at[u] # c)
  BY DEF End, DropSession
<1>3. /\ \A p \in exited : Referenced(p)' => p \in exited'
      /\ stale' \subseteq stale
  BY DEF End
<1>4. \A p \in Proc : RefBy(p, c)' => RefBy(p, c)
  BY <1>1, <1>2 DEF RefBy, SessionAssumption
<1>5. Disconnected(c) => Disconnected(c)'
  BY <1>2, <1>3 DEF Disconnected, Referenced
<1>6. OneChatMoves(t, c)
  BY <1>1, <1>2, <1>3, <1>4 DEF OneChatMoves
<1>7. LeavesHands(t, c)
  <2>1. \/ Disconnected(c)' \/ ps'[c] = "running"
        \/ ps'[c] = ps[c] /\ client'[c] = client[c] /\ pc[t] # "announce"
    BY <1>2, <1>5 DEF Disconnected
  <2>. QED BY <1>1, <1>5, <2>1 DEF LeavesHands
<1>. QED BY <1>6, <1>7, ProcStep

\* An early return stores nothing.
LEMMA EndUnchangedProc ==
    ASSUME IInv, IInv', ProcInv, NEW t \in Task, NEW c \in Chat, at[t] = c, EndUnchanged(t),
           pc[t] # "announce", Edits(t) => Disconnected(c)
    PROVE  ProcInv'
BY EndProc DEF EndUnchanged

\* A failure that stores DEAD does so where the client has gone.
LEMMA EndDeadProc ==
    ASSUME IInv, IInv', ProcInv, NEW t \in Task, NEW c \in Chat, at[t] = c, EndDead(t),
           Disconnected(c), ~Edits(t)
    PROVE  ProcInv'
BY EndProc DEF EndDead, SetStates, IInv, TypeOK

\* A task that moves on, and passes a process on to nobody else.
LEMMA GotoProc ==
    ASSUME IInv, IInv', ProcInv, NEW t \in Task, NEW c \in Chat, at[t] = c,
           NEW place, Goto(t, place), pc[t] # "reapGuard", UNCHANGED procs,
           \A u \in Task \ {t} : own'[u] = own[u],
           \A d \in Chat \ {c} : client'[d] = client[d] /\ ps'[d] = ps[d],
           {own'[t], client'[c]} \subseteq {own[t], client[c], NoProc},
           LeavesHands(t, c)
    PROVE  ProcInv'
<1>1. /\ op' = op /\ at' = at /\ \A u \in Task \ {t} : pc'[u] = pc[u]
      /\ exited' = exited /\ stale' = stale /\ c # NoChat
  BY DEF Goto, IInv, TypeOK, procs, SessionAssumption
<1>2. \A p \in Proc : RefBy(p, c)' => RefBy(p, c)
  BY <1>1 DEF RefBy, SessionAssumption
<1>3. OneChatMoves(t, c)
  BY <1>1, <1>2 DEF OneChatMoves
<1>. QED BY <1>3, ProcStep

\* A task that moves on and leaves every process where it is.
LEMMA KeepProc ==
    ASSUME IInv, IInv', ProcInv, NEW t \in Task, NEW c \in Chat, at[t] = c,
           NEW place \in Pc, Goto(t, place), pc[t] # "reapGuard", UNCHANGED <<client, own, procs>>,
           \A d \in Chat \ {c} : ps'[d] = ps[d],
           \/ Disconnected(c) \/ ps'[c] = "running"
           \/ ps'[c] = ps[c] /\ pc[t] # "announce",
           \/ own[t] = NoProc
           \/ place \in {"handshake", "configure", "install", "marking", "closing"}
           \/ place \in SentPc /\ pc[t] \in SentPc,
           place \in {"prepare", "handshake", "configure", "install"} => Disconnected(c),
           place \in {"marking", "closing", "cleanup"} => client[c] = NoProc,
           Edits(t) => place \in {"editDecide", "take", "closing"}
    PROVE  ProcInv'
<1>1. op' = op /\ at' = at /\ pc'[t] = place
  BY DEF Goto, IInv, TypeOK
<1>2. Disconnected(c)' <=> Disconnected(c)
  BY DEF Disconnected, procs
<1>3. own[t] # NoProc /\ pc[t] \in SentPc => client[c] = own[t]
  BY DEF ProcInv, Hands, SentPc
<1>4. LeavesHands(t, c)
  BY <1>1, <1>2, <1>3 DEF LeavesHands, Edits
<1>. QED BY <1>4, GotoProc

\* What the invariant says of the chat a task works on.
LEMMA AtChat ==
    ASSUME IInv, ProcInv, NEW t \in Task, pc[t] # "idle"
    PROVE  /\ at[t] \in Chat
           /\ own[t] # NoProc =>
                 \/ pc[t] \in {"handshake", "configure", "install", "marking", "closing"}
                 \/ pc[t] \in SentPc /\ client[at[t]] = own[t]
           /\ pc[t] \in {"prepare", "handshake", "configure", "install"} => Disconnected(at[t])
           /\ pc[t] \in {"marking", "closing", "cleanup"} => client[at[t]] = NoProc
           /\ client[at[t]] = NoProc => Disconnected(at[t])
           /\ \A u \in Task \ {t} : at[u] = at[t] => pc[u] = "reapGuard" \/ pc[t] = "reapGuard"
           /\ pc[t] \notin {"announce", "reapGuard"} /\ ps[at[t]] # "running" => Disconnected(at[t])
<1>1. at[t] \in Chat
  BY AtPlace
<1>2. \A u \in Task \ {t} : at[u] = at[t] => pc[u] = "reapGuard" \/ pc[t] = "reapGuard"
  BY <1>1, Alone DEF ProcInv
<1>. QED BY <1>1, <1>2 DEF ProcInv, Hands, NoClient, ClientRuns, Disconnected

\* The steps inside ensure_running.
LEMMA StartupProc ==
    ASSUME IInv, IInv', ProcInv, NEW t \in Task,
           StartupStep(t) \/ LockStartup(t) \/ Abandon(t)
    PROVE  ProcInv'
<1>. DEFINE c == at[t]
<1>. USE DEF durable, session, locks
<1>1. CASE LockStartup(t)
  BY <1>1, AtChat, KeepProc DEF LockStartup, SentPc, Edits, Pc, StartupPc
<1>2. CASE Abandon(t)
  BY <1>2, AtChat, EndUnchangedProc DEF Abandon, Edits
<1>3. CASE ValidateChat(t)
  <2>1. CASE EndUnchanged(t)
    BY <1>3, <2>1, AtChat, EndUnchangedProc DEF ValidateChat, Edits
  <2>2. CASE Goto(t, "decide") /\ UNCHANGED <<durable, session, locks, procs, own, perm>>
    BY <1>3, <2>2, AtChat, KeepProc DEF ValidateChat, SentPc, Edits, Pc, StartupPc
  <2>. QED BY <1>3, <2>1, <2>2 DEF ValidateChat
<1>4. CASE DecideStart(t)
  <2>1. pc[t] = "decide" /\ c \in Chat
    BY <1>4, AtChat DEF DecideStart
  <2>2. CASE EndUnchanged(t)
    BY <2>1, <2>2, EndUnchangedProc DEF Edits
  <2>3. CASE Goto(t, "ensured") /\ UNCHANGED <<durable, session, procs, own, perm>>
    BY <2>1, <2>3, AtChat, KeepProc DEF SentPc, Edits, Pc, OtherPc
  <2>4. CASE /\ SetStates(c, "starting", "idle") /\ Disconnected(c)
             /\ Goto(t, "prepare") /\ UNCHANGED <<durable, client, locks, procs, own, perm>>
    <3>1. \A d \in Chat \ {c} : ps'[d] = ps[d]
      BY <2>1, <2>4 DEF SetStates, IInv, TypeOK
    <3>. QED BY <2>1, <2>4, <3>1, AtChat, KeepProc DEF SentPc, Edits, Pc, StartupPc
  <2>5. CASE SetStates(c, "starting", "idle") /\ Disconnected(c) /\ End(t)
    <3>1. \A d \in Chat \ {c} : ps'[d] = ps[d]
      BY <2>1, <2>5 DEF SetStates, IInv, TypeOK
    <3>. QED BY <2>1, <2>5, <3>1, EndProc DEF Edits
  <2>6. ~(ps[c] = "running" /\ ~Disconnected(c)) => Disconnected(c)
    BY <2>1, AtChat
  <2>. QED BY <1>4, <2>2, <2>3, <2>4, <2>5, <2>6 DEF DecideStart
<1>5. CASE Prepare(t)
  <2>1. /\ pc[t] = "prepare" /\ c \in Chat /\ Disconnected(c) /\ own[t] = NoProc
        /\ c # NoChat
    BY <1>5, AtChat DEF Prepare, SentPc, SessionAssumption
  <2>2. CASE EndDead(t)
    BY <2>1, <2>2, EndDeadProc DEF Edits
  <2>3. CASE ~EndDead(t)
    <3>1. PICK p \in Proc : /\ ~Referenced(p)
                            /\ own' = [own EXCEPT ![t] = p]
                            /\ exited' = exited \ {p}
                            /\ stale' = stale \ {p}
                            /\ Goto(t, "handshake")
                            /\ UNCHANGED <<durable, session, locks, perm>>
      BY <1>5, <2>3 DEF Prepare
    <3>2. /\ op' = op /\ at' = at /\ pc'[t] = "handshake" /\ own'[t] = p
          /\ \A u \in Task \ {t} : pc'[u] = pc[u] /\ own'[u] = own[u]
      BY <3>1 DEF Goto, IInv, TypeOK
    <3>3. client' = client /\ ps' = ps
      BY <3>1
    <3>4. \A q \in exited : Referenced(q) => q \in exited'
      BY <3>1
    <3>5. \A q \in Proc : RefBy(q, c)' => RefBy(q, c) \/ (~Referenced(q) /\ q \notin stale')
      BY <3>1, <3>2, <3>3 DEF RefBy
    <3>6. OneChatMoves(t, c)
      BY <2>1, <3>1, <3>2, <3>3, <3>4, <3>5 DEF OneChatMoves
    <3>7. Disconnected(c)'
      BY <2>1, <3>2, <3>3, <3>4 DEF Disconnected, Referenced
    <3>8. LeavesHands(t, c)
      BY <2>1, <3>2, <3>7 DEF LeavesHands, Edits
    <3>. QED BY <2>1, <3>6, <3>8, ProcStep
  <2>. QED BY <2>2, <2>3
<1>6. CASE Handshake(t)
  <2>1. CASE EndDead(t)
    BY <1>6, <2>1, AtChat, EndDeadProc DEF Handshake, Edits
  <2>2. CASE Goto(t, "configure") /\ UNCHANGED <<turnLog, logOk, session, locks, procs, own, perm>>
    BY <1>6, <2>2, AtChat, KeepProc DEF Handshake, SentPc, Edits, Pc, StartupPc
  <2>. QED BY <1>6, <2>1, <2>2 DEF Handshake
<1>7. CASE Configure(t)
  <2>1. CASE EndDead(t)
    BY <1>7, <2>1, AtChat, EndDeadProc DEF Configure, Edits
  <2>2. CASE Goto(t, "install") /\ UNCHANGED <<durable, session, locks, procs, own, perm>>
    BY <1>7, <2>2, AtChat, KeepProc DEF Configure, SentPc, Edits, Pc, StartupPc
  <2>. QED BY <1>7, <2>1, <2>2 DEF Configure
<1>8. CASE InstallClient(t)
  <2>1. pc[t] = "install" /\ c \in Chat /\ Goto(t, "announce") /\ UNCHANGED procs /\ ps' = ps
    BY <1>8, AtChat DEF InstallClient
  <2>2. /\ client'[c] = own[t] /\ \A d \in Chat \ {c} : client'[d] = client[d]
        /\ own'[t] = NoProc /\ \A u \in Task \ {t} : own'[u] = own[u]
        /\ at' = at /\ pc'[t] = "announce"
    BY <1>8, <2>1 DEF InstallClient, Goto, IInv, TypeOK
  <2>3. LeavesHands(t, c)
    BY <2>1, <2>2 DEF LeavesHands, Edits
  <2>. QED BY <2>1, <2>2, <2>3, GotoProc
<1>9. CASE Announce(t)
  <2>1. pc[t] = "announce" /\ c \in Chat /\ own[t] = NoProc
    BY <1>9, AtChat DEF Announce, SentPc
  <2>2. ps'[c] = "running" /\ \A d \in Chat \ {c} : ps'[d] = ps[d]
    BY <1>9, <2>1 DEF Announce, SetStates, IInv, TypeOK
  <2>3. CASE End(t)
    BY <2>1, <2>2, <2>3, EndProc DEF Edits
  <2>4. CASE Goto(t, "ensured") /\ UNCHANGED <<durable, client, procs, own, perm>>
    BY <2>1, <2>2, <2>4, KeepProc DEF Edits, Pc, OtherPc
  <2>. QED BY <1>9, <2>3, <2>4 DEF Announce
<1>10. CASE ReturnRunning(t)
  BY <1>10, AtChat, EndUnchangedProc DEF ReturnRunning, Edits
<1>. QED BY <1>1, <1>2, <1>3, <1>4, <1>5, <1>6, <1>7, <1>8, <1>9, <1>10 DEF StartupStep

\* The steps of a prompt, with turn_guard.
LEMMA TurnProc ==
    ASSUME IInv, IInv', ProcInv, NEW t \in Task, TurnStep(t) \/ AgentAnswer(t)
    PROVE  ProcInv'
<1>. DEFINE c == at[t]
<1>. USE DEF durable, session, locks
<1>1. CASE RecordUserMessage(t)
  <2>1. CASE EndUnchanged(t)
    BY <1>1, <2>1, AtChat, EndUnchangedProc DEF RecordUserMessage, Edits
  <2>2. CASE Goto(t, "recorded") /\ UNCHANGED <<row, logOk, session, locks, procs, own, perm>>
    BY <1>1, <2>2, AtChat, KeepProc DEF RecordUserMessage, SentPc, Edits, Pc, TurnPc
  <2>. QED BY <1>1, <2>1, <2>2 DEF RecordUserMessage
<1>2. CASE SetPrompting(t)
  <2>1. pc[t] = "recorded" /\ c \in Chat /\ own[t] = NoProc
    BY <1>2, AtChat DEF SetPrompting, SentPc
  <2>2. ps'[c] = "running" /\ \A d \in Chat \ {c} : ps'[d] = ps[d]
    BY <1>2, <2>1 DEF SetPrompting, SetStates, IInv, TypeOK
  <2>3. CASE End(t)
    BY <2>1, <2>2, <2>3, EndProc DEF Edits
  <2>4. CASE Goto(t, "send") /\ UNCHANGED <<row, logOk, client, locks, procs, own, perm>>
    BY <2>1, <2>2, <2>4, KeepProc DEF Edits, Pc, TurnPc
  <2>. QED BY <1>2, <2>3, <2>4 DEF SetPrompting
<1>3. CASE SendPrompt(t)
  <2>1. pc[t] = "send" /\ c \in Chat /\ own[t] = NoProc
    BY <1>3, AtChat DEF SendPrompt, SentPc
  <2>2. CASE client[c] = NoProc
    <3>1. /\ \A d \in Chat \ {c} : ps'[d] = ps[d]
          /\ Goto(t, "failed") /\ UNCHANGED <<client, procs, own>>
      BY <1>3, <2>1, <2>2 DEF SendPrompt, SetStates, IInv, TypeOK
    <3>. QED BY <2>1, <2>2, <3>1, KeepProc DEF Edits, Pc, TurnPc, Disconnected
  <2>3. CASE client[c] # NoProc
    <3>1. /\ own'[t] = client[c] /\ \A u \in Task \ {t} : own'[u] = own[u]
          /\ Goto(t, "waiting") /\ UNCHANGED <<client, ps, procs>>
          /\ at' = at /\ pc'[t] = "waiting"
      BY <1>3, <2>1, <2>3 DEF SendPrompt, Goto, IInv, TypeOK
    <3>2. LeavesHands(t, c)
      BY <2>1, <3>1 DEF LeavesHands, SentPc, Edits
    <3>. QED BY <2>1, <3>1, <3>2, GotoProc
  <2>. QED BY <2>2, <2>3
<1>4. CASE TurnCompletes(t)
  <2>1. pc[t] = "waiting" /\ c \in Chat /\ UNCHANGED <<client, own, procs>>
    BY <1>4, AtChat DEF TurnCompletes
  <2>2. ps'[c] = "running" /\ \A d \in Chat \ {c} : ps'[d] = ps[d]
    BY <1>4, <2>1 DEF TurnCompletes, SetStates, IInv, TypeOK
  <2>3. CASE Goto(t, "finalize")
    BY <2>1, <2>2, <2>3, KeepProc DEF SentPc, Edits, Pc, TurnPc
  <2>4. CASE Goto(t, "failed")
    BY <2>1, <2>2, <2>4, KeepProc DEF SentPc, Edits, Pc, TurnPc
  <2>. QED BY <1>4, <2>3, <2>4 DEF TurnCompletes
<1>5. CASE TurnFails(t)
  BY <1>5, AtChat, KeepProc DEF TurnFails, SentPc, Edits, Pc, TurnPc
<1>6. CASE TurnTimesOut(t)
  BY <1>6, AtChat, KeepProc DEF TurnTimesOut, SentPc, Edits, Pc, TurnPc
<1>7. CASE CheckDisconnected(t)
  <2>1. pc[t] = "errcheck" /\ c \in Chat /\ UNCHANGED <<client, own, procs>>
    BY <1>7, AtChat DEF CheckDisconnected
  <2>2. CASE Goto(t, "killing") /\ ps' = ps
    BY <2>1, <2>2, KeepProc DEF SentPc, Edits, Pc, TurnPc
  <2>3. CASE SetStates(c, "running", "idle") /\ Goto(t, "failed")
    <3>1. ps'[c] = "running" /\ \A d \in Chat \ {c} : ps'[d] = ps[d]
      BY <2>1, <2>3 DEF SetStates, IInv, TypeOK
    <3>. QED BY <2>1, <2>3, <3>1, KeepProc DEF SentPc, Edits, Pc, TurnPc
  <2>. QED BY <1>7, <2>2, <2>3 DEF CheckDisconnected
<1>8. CASE Finalize(t)
  <2>1. pc[t] = "finalize" /\ c \in Chat /\ UNCHANGED <<client, ps, own, procs>>
    BY <1>8, AtChat DEF Finalize
  <2>2. CASE Goto(t, "syncTitle")
    BY <2>1, <2>2, KeepProc DEF SentPc, Edits, Pc, TurnPc
  <2>3. CASE Goto(t, "killing")
    BY <2>1, <2>3, KeepProc DEF SentPc, Edits, Pc, TurnPc
  <2>. QED BY <1>8, <2>2, <2>3 DEF Finalize
<1>9. CASE SyncTitle(t)
  BY <1>9, AtChat, EndUnchangedProc DEF SyncTitle, Edits
<1>10. CASE MarkDeadTake(t)
  <2>1. /\ pc[t] = "killing" /\ c \in Chat /\ Goto(t, "marking") /\ UNCHANGED procs /\ ps' = ps
        /\ own'[t] = client[c] /\ \A u \in Task \ {t} : own'[u] = own[u]
        /\ client'[c] = NoProc /\ \A d \in Chat \ {c} : client'[d] = client[d]
        /\ at' = at /\ pc'[t] = "marking"
    BY <1>10, AtChat DEF MarkDeadTake, Goto, IInv, TypeOK
  <2>2. LeavesHands(t, c)
    BY <2>1 DEF LeavesHands, Edits, Disconnected
  <2>. QED BY <2>1, <2>2, GotoProc
<1>11. CASE MarkDead(t)
  <2>1. /\ pc[t] = "marking" /\ c \in Chat /\ client[c] = NoProc
        /\ Goto(t, "failed") /\ UNCHANGED <<client, procs>>
        /\ \A d \in Chat \ {c} : ps'[d] = ps[d]
        /\ own'[t] = NoProc /\ \A u \in Task \ {t} : own'[u] = own[u]
        /\ at' = at /\ pc'[t] = "failed"
    BY <1>11, AtChat DEF MarkDead, Goto, SetStates, IInv, TypeOK
  <2>2. LeavesHands(t, c)
    BY <2>1 DEF LeavesHands, Edits, Disconnected
  <2>. QED BY <2>1, <2>2, GotoProc
<1>12. CASE FinalizeFailed(t)
  BY <1>12, AtChat, EndProc DEF FinalizeFailed, Edits
<1>. QED BY <1>1, <1>2, <1>3, <1>4, <1>5, <1>6, <1>7, <1>8, <1>9, <1>10, <1>11, <1>12
         DEF TurnStep, AgentAnswer

\* The steps of stop, delete, a configuration edit and the reaper.
LEMMA ShutdownProc ==
    ASSUME IInv, IInv', ProcInv, NEW t \in Task, ShutdownStep(t)
    PROVE  ProcInv'
<1>. DEFINE c == at[t]
<1>. USE DEF durable, session, locks
<1>1. CASE TakeClient(t)
  <2>1. pc[t] = "take" /\ c \in Chat
    BY <1>1, AtChat DEF TakeClient
  <2>2. CASE op[t] = "delete" /\ EndUnchanged(t)
    BY <2>1, <2>2, EndUnchangedProc DEF Edits
  <2>3. CASE ~(op[t] = "delete" /\ EndUnchanged(t))
    <3>1. /\ Goto(t, "closing") /\ UNCHANGED procs /\ ps' = ps
          /\ own'[t] = client[c] /\ \A u \in Task \ {t} : own'[u] = own[u]
          /\ client'[c] = NoProc /\ \A d \in Chat \ {c} : client'[d] = client[d]
          /\ at' = at /\ op' = op /\ pc'[t] = "closing"
      BY <1>1, <2>1, <2>3 DEF TakeClient, Goto, IInv, TypeOK
    <3>2. LeavesHands(t, c)
      BY <2>1, <3>1 DEF LeavesHands, Edits, Disconnected
    <3>. QED BY <2>1, <3>1, <3>2, GotoProc
  <2>. QED BY <2>2, <2>3
<1>2. CASE FinishShutdown(t)
  <2>1. /\ pc[t] = "closing" /\ c \in Chat /\ client[c] = NoProc /\ Disconnected(c)
        /\ \A d \in Chat \ {c} : ps'[d] = ps[d]
    BY <1>2, AtChat DEF FinishShutdown, SetStates, IInv, TypeOK
  <2>2. CASE End(t)
    BY <2>1, <2>2, EndProc
  <2>3. CASE op[t] = "delete" /\ Goto(t, "cleanup")
    <3>1. /\ UNCHANGED <<client, procs>> /\ at' = at /\ pc'[t] = "cleanup"
          /\ own'[t] = NoProc /\ \A u \in Task \ {t} : own'[u] = own[u]
      BY <1>2, <2>3 DEF FinishShutdown, Goto, IInv, TypeOK
    <3>2. LeavesHands(t, c)
      BY <2>1, <2>3, <3>1 DEF LeavesHands, Edits, Disconnected
    <3>. QED BY <2>1, <2>3, <3>1, <3>2, GotoProc
  <2>. QED BY <1>2, <2>2, <2>3 DEF FinishShutdown
<1>3. CASE DeleteRow(t)
  BY <1>3, AtChat, EndProc, EndUnchangedProc DEF DeleteRow, Edits
<1>4. CASE EditCheck(t)
  <2>1. CASE EndUnchanged(t)
    BY <1>4, <2>1, AtChat, EndUnchangedProc DEF EditCheck, Edits
  <2>2. CASE Goto(t, "editStore") /\ UNCHANGED <<durable, session, locks, procs, own, perm>>
    BY <1>4, <2>2, AtChat, KeepProc DEF EditCheck, SentPc, Edits, Pc, OtherPc
  <2>. QED BY <1>4, <2>1, <2>2 DEF EditCheck
<1>5. CASE EditStore(t)
  <2>1. /\ pc[t] = "editStore" /\ c \in Chat /\ op[t] = "edit" /\ own[t] = NoProc /\ c # NoChat
    BY <1>5, AtChat, AtPlace DEF EditStore, SentPc, SessionAssumption
  <2>2. /\ op' = op /\ at' = at /\ pc'[t] = "editDecide" /\ own' = own
        /\ \A u \in Task \ {t} : pc'[u] = pc[u]
        /\ client' = client /\ ps' = ps /\ exited' = exited
        /\ stale' = stale \cup {p \in Proc : RefBy(p, c)}
    BY <1>5 DEF EditStore, Goto, IInv, TypeOK, RefBy
  <2>3. \A p \in Proc : RefBy(p, c)' => RefBy(p, c)
    BY <2>2 DEF RefBy
  <2>4. OneChatMoves(t, c)
    BY <2>1, <2>2, <2>3 DEF OneChatMoves, Edits
  <2>5. Disconnected(c)' <=> Disconnected(c)
    BY <2>2 DEF Disconnected
  <2>6. LeavesHands(t, c)
    BY <2>1, <2>2, <2>5 DEF LeavesHands, Edits
  <2>. QED BY <2>1, <2>4, <2>6, ProcStep
<1>6. CASE EditDecide(t)
  <2>1. pc[t] = "editDecide" /\ c \in Chat /\ own[t] = NoProc
    BY <1>6, AtChat DEF EditDecide, SentPc
  <2>2. CASE IsRunning(c)
    BY <1>6, <2>1, <2>2, KeepProc DEF EditDecide, Edits, Pc, ShutdownPc
  <2>3. CASE ~IsRunning(c)
    <3>1. Disconnected(c)
      BY <2>1, <2>3, AtChat DEF IsRunning, ProcessState
    <3>. QED BY <1>6, <2>1, <2>3, <3>1, EndUnchangedProc DEF EditDecide
  <2>. QED BY <2>2, <2>3
<1>7. CASE ReapGuard(t)
  <2>1. pc[t] = "reapGuard" /\ c \in Chat /\ own[t] = NoProc /\ c # NoChat
    BY <1>7, AtChat DEF ReapGuard, SentPc, SessionAssumption
  <2>2. CASE EndUnchanged(t)
    BY <2>1, <2>2, EndUnchangedProc DEF Edits
  <2>3. CASE Goto(t, "take") /\ UNCHANGED <<durable, session, procs, own, perm>>
    <3>1. /\ op' = op /\ at' = at /\ pc'[t] = "take" /\ own' = own
          /\ \A u \in Task \ {t} : pc'[u] = pc[u]
          /\ client' = client /\ ps' = ps /\ exited' = exited /\ stale' = stale
      BY <2>3 DEF Goto, IInv, TypeOK, procs
    <3>2. \A p \in Proc : RefBy(p, c)' => RefBy(p, c)
      BY <3>1 DEF RefBy
    <3>3. OneChatMoves(t, c)
      BY <2>1, <3>1, <3>2 DEF OneChatMoves
    <3>4. LeavesHands(t, c)
      BY <2>1, <3>1 DEF LeavesHands, Edits
    <3>. QED BY <2>1, <3>3, <3>4, ProcStep
  <2>. QED BY <1>7, <2>2, <2>3 DEF ReapGuard
<1>. QED BY <1>1, <1>2, <1>3, <1>4, <1>5, <1>6, <1>7 DEF ShutdownStep

\* A request that begins has nothing in hand.
LEMMA AskProc ==
    ASSUME IInv, ProcInv, "query" \notin Requests, NEW t \in Task, NEW c \in Chat, Ask(t, c)
    PROVE  ProcInv'
<1>1. /\ op[t] = "none" /\ UNCHANGED <<session, procs, own>>
      /\ \E kind \in Requests, place \in {"lockStartup", "take", "editCheck", "reapGuard"} :
            /\ op' = [op EXCEPT ![t] = kind]
            /\ at' = [at EXCEPT ![t] = c]
            /\ pc' = [pc EXCEPT ![t] = place]
  BY DEF Ask, AdmitPrompt, Resume, Query, Stop, Delete, EditConnection, ReapCandidate, Begin,
         session, procs
<1>2. /\ op'[t] # "query" /\ pc'[t] \in {"lockStartup", "take", "editCheck", "reapGuard"}
      /\ \A u \in Task \ {t} : pc'[u] = pc[u] /\ at'[u] = at[u] /\ op'[u] = op[u]
      /\ client' = client /\ ps' = ps /\ own' = own /\ exited' = exited /\ stale' = stale
  BY <1>1 DEF session, procs, IInv, TypeOK
<1>3. pc[t] = "idle" /\ own[t] = NoProc /\ at[t] = NoChat
  BY <1>1 DEF IInv, LockDiscipline, Places, ProcInv, Hands, SentPc
<1>4. NoQuery' /\ Hands' /\ NoClient'
  BY <1>2, <1>3 DEF ProcInv, NoQuery, Hands, NoClient, Disconnected
<1>5. \A p \in Proc, d \in Chat : RefBy(p, d)' => RefBy(p, d)
  BY <1>2, <1>3 DEF RefBy, SessionAssumption
<1>6. ClientRuns'
  BY <1>2, <1>3 DEF ProcInv, ClientRuns, Disconnected
<1>7. OwnChat'
  BY <1>5 DEF ProcInv, OwnChat
<1>8. StaleEdited'
  <2>1. \A d \in Chat : LiveOf(d)' \subseteq LiveOf(d)
    BY <1>2, <1>5 DEF LiveOf, Alive, RefBy, Referenced
  <2>2. \A u \in Task, d \in Chat : at[u] = d => u # t
    BY <1>3 DEF SessionAssumption
  <2>. QED BY <1>2, <2>1, <2>2 DEF ProcInv, StaleEdited
<1>. QED BY <1>4, <1>6, <1>7, <1>8 DEF ProcInv

\* The environment: a process that exits only disconnects its chat.
LEMMA OutsideProc ==
    ASSUME IInv, ProcInv,
           \/ \E t \in Task : AgentAsksPermission(t) \/ PermissionAnswered(t)
           \/ \E c \in Chat : SetArchived(c)
           \/ \E p \in Proc : ProcessExits(p)
           \/ LogFails
           \/ UNCHANGED vars
    PROVE  ProcInv'
<1>1. /\ client' = client /\ ps' = ps /\ own' = own /\ stale' = stale
      /\ op' = op /\ at' = at /\ pc' = pc
      /\ exited \subseteq exited'
  BY DEF AgentAsksPermission, PermissionAnswered, SetArchived, ProcessExits, LogFails, vars,
         durable, session, locks, procs
<1>2. \A c : Disconnected(c) => client'[c] = NoProc \/ client'[c] \in exited'
  BY <1>1 DEF Disconnected
<1>3. NoQuery' /\ Hands' /\ NoClient' /\ ClientRuns'
  BY <1>1, <1>2 DEF ProcInv, NoQuery, Hands, NoClient, ClientRuns, Disconnected
<1>4. OwnChat'
  BY <1>1 DEF ProcInv, OwnChat, RefBy
<1>5. StaleEdited'
  <2>1. \A c \in Chat : LiveOf(c)' \subseteq LiveOf(c)
    BY <1>1 DEF LiveOf, Alive, Referenced
  <2>. QED BY <1>1, <2>1 DEF ProcInv, StaleEdited
<1>. QED BY <1>3, <1>4, <1>5 DEF ProcInv

\* A server that has just started has no process.
LEMMA EmptyProc ==
    ASSUME client = [c \in Chat |-> NoProc], own = [t \in Task |-> NoProc],
           op = [t \in Task |-> "none"], pc = [t \in Task |-> "idle"], stale = {}
    PROVE  ProcInv
BY DEF ProcInv, NoQuery, Hands, NoClient, ClientRuns, OwnChat, StaleEdited, RefBy, Disconnected,
       SessionAssumption

\* As long as the requests that start an agent hold turn_guard, every step keeps
\* the invariant.
LEMMA ProcNext ==
    ASSUME "query" \notin Requests, IInv, ProcInv, [Next]_vars
    PROVE  ProcInv'
<1>1. IInv'
  BY NextKeeps
<1>2. CASE \E t \in Task, c \in Chat : Ask(t, c)
  BY <1>2, AskProc
<1>3. CASE \E t \in Task : LockStartup(t) \/ Abandon(t) \/ TaskStep(t) \/ AgentAnswer(t)
  BY <1>1, <1>3, StartupProc, TurnProc, ShutdownProc DEF TaskStep
<1>4. CASE Restart
  <2>1. /\ client' = [c \in Chat |-> NoProc] /\ own' = [t \in Task |-> NoProc]
        /\ op' = [t \in Task |-> "none"] /\ pc' = [t \in Task |-> "idle"] /\ stale' = {}
    BY <1>4 DEF Restart
  <2>. QED BY <2>1 DEF ProcInv, NoQuery, Hands, NoClient, ClientRuns, OwnChat, StaleEdited, RefBy,
                       Disconnected, SessionAssumption
<1>. QED BY <1>2, <1>3, <1>4, OutsideProc DEF Next

\* Two processes of one chat would be in two places that exclude each other.
LEMMA OneLive ==
    ASSUME IInv, ProcInv
    PROVE  OneProcess
<1>. SUFFICES ASSUME NEW c \in Chat, NEW p \in LiveOf(c), NEW q \in LiveOf(c), p # q
              PROVE  FALSE
  BY DEF OneProcess
<1>1. /\ p \in Proc /\ q \in Proc /\ p # NoProc /\ q # NoProc
      /\ p \notin exited /\ q \notin exited
      /\ RefBy(p, c) /\ RefBy(q, c)
  BY DEF LiveOf, Alive, RefBy, SessionAssumption
<1>2. \A t \in Task : at[t] = c /\ own[t] # NoProc /\ own[t] \notin exited =>
          client[c] = own[t] \/ client[c] = NoProc \/ client[c] \in exited
  BY DEF ProcInv, Hands, NoClient, Disconnected
<1>3. \A t, u \in Task : at[t] = c /\ at[u] = c /\ own[t] # NoProc /\ own[u] # NoProc => t = u
  BY Alone, HandPlaces DEF ProcInv
<1>. QED BY <1>1, <1>2, <1>3 DEF RefBy

\* One chat, one agent process: no request, failure, death or restart leaves a
\* process of a chat alive while another one is opened for it.  The requests
\* that start an agent without turn_guard are left out, as in the run.
THEOREM OneProcessHolds == "query" \notin Requests /\ Spec => []OneProcess
<1>1. Init => ProcInv
  BY EmptyProc DEF Init
<1>2. "query" \notin Requests /\ IInv /\ ProcInv /\ [Next]_vars => ProcInv'
  BY ProcNext
<1>3. IInv /\ ProcInv => OneProcess
  BY OneLive
<1>4. ("query" \notin Requests) => []("query" \notin Requests)
  OBVIOUS
<1>. QED BY <1>1, <1>2, <1>3, <1>4, LockDisciplineHolds, PTL DEF Spec

\* An edit of roots or MCP servers that has returned leaves no process opened
\* with the old ones.
THEOREM EditReachesHolds == "query" \notin Requests /\ Spec => []EditReaches
<1>1. Init => ProcInv
  BY EmptyProc DEF Init
<1>2. "query" \notin Requests /\ IInv /\ ProcInv /\ [Next]_vars => ProcInv'
  BY ProcNext
<1>3. ProcInv => EditReaches
  BY DEF ProcInv, StaleEdited, EditReaches
<1>4. ("query" \notin Requests) => []("query" \notin Requests)
  OBVIOUS
<1>. QED BY <1>1, <1>2, <1>3, <1>4, LockDisciplineHolds, PTL DEF Spec
=============================================================================
