--------------------------- MODULE ChatTurnsProofs ---------------------------
(***************************************************************************)
(* ChatSession implements ChatTurns, for every set of chats, requests,     *)
(* processes and checkouts.  The lock discipline of ChatSessionProofs says *)
(* whose turn a step belongs to; what is added here is where a turn stands *)
(* when it is about to end.                                                *)
(***************************************************************************)
EXTENDS ChatSessionProofs

Working == {c \in Chat : \E t \in Task : InTurn(t, c)}
Marked == {c \in Chat : turnLog[c].prompting}

\* A turn that has its answer, or its failure, has stored IDLE ...
IdleAtEnd == \A t \in Task : pc[t] \in {"finalize", "failed", "syncTitle"} => ts[at[t]] = "idle"

\* ... and one that asks for its title has recorded TurnComplete.
UnmarkedAtTitle == \A t \in Task : pc[t] = "syncTitle" => ~turnLog[at[t]].prompting

TurnParts == IdleAtEnd /\ UnmarkedAtTitle /\ TurnBracket

-----------------------------------------------------------------------------
(* What the locks say of two requests on one chat, or in one checkout.     *)

\* A task inside a turn, or inside a shutdown, has the chat to itself.
LEMMA TurnAlone ==
    ASSUME IInv, NEW t \in Task, NEW u \in Task, t # u, pc[u] \in TurnPc,
           op[t] \notin {"none", "query"}, pc[t] # "reapGuard"
    PROVE  at[u] # at[t]
  BY DEF IInv, LockDiscipline, Places, GuardHeld, TurnPc

\* A prompt has its primary checkout to itself.
LEMMA CheckoutAlone ==
    ASSUME IInv, NEW t \in Task, NEW u \in Task, t # u, pc[u] \in TurnPc, op[t] = "prompt"
    PROVE  ~Sharing(at[t], at[u])
  BY DEF IInv, LockDiscipline, Places, CheckoutHeld, Sharing

-----------------------------------------------------------------------------
(* Steps that neither begin, mark nor end a turn.                          *)

OthersStay(t) == \A u \in Task \ {t} : pc'[u] = pc[u] /\ at'[u] = at[u]

\* Writes of the turn state that are not PROMPTING.
IdleWrites == \A c \in Chat : ts'[c] \in {ts[c], "idle"}

\* What a step must not do: enter or leave a turn, reach its end without IDLE,
\* or skip TurnComplete.
QuietMove(t) ==
    /\ \A c \in Chat : InTurn(t, c)' <=> InTurn(t, c)
    /\ pc'[t] \in {"finalize", "failed"} => ts'[at'[t]] = "idle"
    /\ pc'[t] # "syncTitle"

Quiet == UNCHANGED <<Working, Marked, logOk>>

\* Such a step keeps the parts, and changes nothing that ChatTurns sees.
LEMMA QuietStep ==
    ASSUME IInv, TurnParts, NEW t \in Task, OthersStay(t), QuietMove(t), IdleWrites,
           UNCHANGED <<turnLog, logOk>>
    PROVE  TurnParts' /\ Quiet
<1>1. \A u \in Task, c \in Chat : InTurn(u, c)' <=> InTurn(u, c)
  BY DEF OthersStay, QuietMove, InTurn
<1>2. \A u \in Task : pc[u] \in {"finalize", "failed", "syncTitle"} => at[u] \in Chat
  BY DEF IInv, LockDiscipline, Places, TypeOK
<1>3. IdleAtEnd'
  <2> SUFFICES ASSUME NEW u \in Task, pc'[u] \in {"finalize", "failed", "syncTitle"}
               PROVE  ts'[at'[u]] = "idle"
    BY DEF IdleAtEnd
  <2>1. CASE u = t
    BY <2>1 DEF QuietMove
  <2>2. CASE u # t
    <3>1. pc'[u] = pc[u] /\ at'[u] = at[u] /\ at[u] \in Chat
      BY <1>2, <2>2 DEF OthersStay
    <3> QED BY <3>1 DEF TurnParts, IdleAtEnd, IdleWrites
  <2> QED BY <2>1, <2>2
<1>4. UnmarkedAtTitle'
  BY DEF TurnParts, UnmarkedAtTitle, OthersStay, QuietMove
<1>5. TurnBracket'
  BY <1>1 DEF TurnParts, TurnBracket, IdleWrites
<1>6. Working' = Working
  BY <1>1 DEF Working
<1> QED BY <1>3, <1>4, <1>5, <1>6 DEF TurnParts, Quiet, Marked

\* A task that returns, from outside a turn.
LEMMA QuietEnd ==
    ASSUME IInv, TurnParts, NEW t \in Task, End(t), pc[t] \notin TurnPc, IdleWrites,
           UNCHANGED <<turnLog, logOk>>
    PROVE  TurnParts' /\ Quiet
<1>1. pc'[t] = "idle" /\ OthersStay(t)
  BY DEF End, OthersStay, IInv, TypeOK
<1>2. QuietMove(t)
  BY <1>1 DEF QuietMove, InTurn, TurnPc
<1> QED BY <1>1, <1>2, QuietStep

\* A task that moves on, inside a turn or outside of any.
LEMMA QuietGoto ==
    ASSUME IInv, TurnParts, NEW t \in Task, NEW place, Goto(t, place),
           pc[t] \in TurnPc <=> place \in TurnPc,
           place \in {"finalize", "failed"} => ts'[at[t]] = "idle",
           place # "syncTitle", IdleWrites, UNCHANGED <<turnLog, logOk>>
    PROVE  TurnParts' /\ Quiet
<1>1. pc'[t] = place /\ at' = at /\ OthersStay(t)
  BY DEF Goto, OthersStay, IInv, TypeOK
<1>2. QuietMove(t)
  BY <1>1 DEF QuietMove, InTurn
<1> QED BY <1>1, <1>2, QuietStep

\* A request that begins: none begins inside a turn.
LEMMA QuietBegin ==
    ASSUME IInv, TurnParts, NEW t \in Task, NEW c \in Chat, NEW kind, NEW place,
           Begin(t, c, kind, place), place \notin TurnPc,
           UNCHANGED <<turnLog, logOk, ts>>
    PROVE  TurnParts' /\ Quiet
<1>1. pc'[t] = place /\ OthersStay(t) /\ pc[t] \notin TurnPc
  BY DEF Begin, OthersStay, IInv, TypeOK, LockDiscipline, Places, TurnPc
<1>2. QuietMove(t)
  BY <1>1 DEF QuietMove, InTurn, TurnPc
<1>3. IdleWrites
  BY DEF IdleWrites
<1> QED BY <1>1, <1>2, <1>3, QuietStep

\* A step that moves no task and writes neither turn state nor events.
LEMMA QuietElse ==
    ASSUME TurnParts, UNCHANGED <<turnLog, logOk, ts, pc, at>>
    PROVE  TurnParts' /\ Quiet
  BY DEF TurnParts, IdleAtEnd, UnmarkedAtTitle, TurnBracket, InTurn, Quiet, Working, Marked

\* set_states with IDLE, or no set_states at all.
LEMMA IdleWritten ==
    ASSUME IInv, NEW c \in Chat, NEW p, UNCHANGED ts \/ SetStates(c, p, "idle")
    PROVE  IdleWrites /\ (SetStates(c, p, "idle") => ts'[c] = "idle")
  BY DEF SetStates, IdleWrites, IInv, TypeOK

-----------------------------------------------------------------------------
(* What a step is to ChatTurns.                                            *)

\* Every step keeps the parts and is a step of ChatTurns or none.
Mapped == TurnParts' /\ (Turns!Next \/ UNCHANGED Turns!turnVars)

\* A step that ChatTurns does not see.
LEMMA QuietIsMapped == ASSUME TurnParts' /\ Quiet PROVE Mapped
  BY DEF Mapped, Quiet, Working, Marked, Turns!turnVars

\* A task that leaves its chat's turn alone when it returns.
LEMMA EndUnchangedQuiet ==
    ASSUME IInv, TurnParts, NEW t \in Task, EndUnchanged(t), pc[t] \notin TurnPc
    PROVE  Mapped
<1>1. End(t) /\ UNCHANGED <<turnLog, logOk, ts>>
  BY DEF EndUnchanged, durable
<1>2. IdleWrites
  BY <1>1 DEF IdleWrites
<1> QED BY <1>1, <1>2, QuietEnd, QuietIsMapped

\* A startup that fails.
LEMMA EndDeadQuiet ==
    ASSUME IInv, TurnParts, NEW t \in Task, EndDead(t), pc[t] \in StartupPc
    PROVE  Mapped
<1>1. End(t) /\ UNCHANGED <<turnLog, logOk>> /\ SetStates(at[t], "dead", "idle")
  BY DEF EndDead, durable
<1>2. at[t] \in Chat
  BY DEF IInv, LockDiscipline, Places, TypeOK, StartupPc
<1>3. IdleWrites /\ pc[t] \notin TurnPc
  BY <1>1, <1>2, IdleWritten DEF StartupPc, TurnPc
<1> QED BY <1>1, <1>3, QuietEnd, QuietIsMapped

\* A request that begins.
LEMMA AskQuiet ==
    ASSUME IInv, TurnParts, NEW t \in Task, NEW c \in Chat, Ask(t, c)
    PROVE  Mapped
<1>1. PICK kind, place : Begin(t, c, kind, place) /\ place \in {"lockStartup", "take", "editCheck", "reapGuard"}
  BY DEF Ask, AdmitPrompt, Resume, Query, Stop, Delete, EditConnection, ReapCandidate
<1>2. UNCHANGED <<turnLog, logOk, ts>>
  BY DEF Ask, AdmitPrompt, Resume, Query, Stop, Delete, EditConnection, ReapCandidate, durable, session
<1>3. place \notin TurnPc
  BY <1>1 DEF TurnPc
<1> QED BY <1>1, <1>2, <1>3, QuietBegin, QuietIsMapped

\* ensure_running happens before a turn or without one.
LEMMA StartupQuiet ==
    ASSUME IInv, TurnParts, NEW t \in Task, StartupStep(t) \/ LockStartup(t) \/ Abandon(t)
    PROVE  Mapped
<1> USE DEF durable, session
<1>1. CASE EndUnchanged(t)
  <2>1. pc[t] \notin TurnPc
    BY DEF StartupStep, ValidateChat, DecideStart, Prepare, Handshake, Configure, InstallClient,
           Announce, ReturnRunning, LockStartup, Abandon, TurnPc
  <2> QED BY <1>1, <2>1, EndUnchangedQuiet
<1>2. CASE EndDead(t) /\ ~EndUnchanged(t)
  <2>1. ~LockStartup(t)
    BY <1>2 DEF LockStartup, EndDead, End, Goto, IInv, TypeOK
  <2>2. pc[t] \in StartupPc
    BY <1>2, <2>1 DEF StartupStep, ValidateChat, DecideStart, Prepare, Handshake, Configure,
       InstallClient, Announce, ReturnRunning, Abandon, StartupPc
  <2> QED BY <1>2, <2>2, EndDeadQuiet
<1>3. CASE ~EndDead(t) /\ ~EndUnchanged(t)
  <2> DEFINE Place == {"validate", "decide", "prepare", "handshake", "configure", "install",
                       "announce", "ensured"}
  <2>1. /\ pc[t] \in StartupPc \cup {"lockStartup"}
        /\ UNCHANGED <<turnLog, logOk>>
        /\ UNCHANGED ts \/ \E p \in {"starting", "running"} : SetStates(at[t], p, "idle")
        /\ End(t) \/ \E place \in Place : Goto(t, place)
    BY <1>3 DEF StartupStep, ValidateChat, DecideStart, Prepare, Handshake, Configure, InstallClient,
           Announce, ReturnRunning, LockStartup, Abandon, StartupPc
  <2>2. at[t] \in Chat /\ pc[t] \notin TurnPc
    BY <2>1 DEF IInv, LockDiscipline, Places, TypeOK, StartupPc, TurnPc
  <2>3. IdleWrites
    BY <2>1, <2>2, IdleWritten
  <2>4. CASE End(t)
    BY <2>1, <2>2, <2>3, <2>4, QuietEnd, QuietIsMapped
  <2>5. CASE \E place \in Place : Goto(t, place)
    <3>1. PICK place \in Place : Goto(t, place)
      BY <2>5
    <3>2. place \notin TurnPc
      BY DEF TurnPc
    <3> QED BY <2>1, <2>2, <2>3, <3>1, <3>2, QuietGoto, QuietIsMapped
  <2> QED BY <2>1, <2>4, <2>5
<1> QED BY <1>1, <1>2, <1>3

-----------------------------------------------------------------------------
(* The turn itself.                                                        *)

\* RecordUserMessage begins the turn: nobody else works on the chat, nor in its
\* primary checkout.
LEMMA RecordBegins ==
    ASSUME IInv, IInv', TurnParts, NEW t \in Task, RecordUserMessage(t)
    PROVE  Mapped
<1> USE DEF durable, session
<1>1. CASE EndUnchanged(t)
  <2>1. pc[t] \notin TurnPc
    BY DEF RecordUserMessage, TurnPc
  <2> QED BY <1>1, <2>1, EndUnchangedQuiet
<1>2. CASE ~EndUnchanged(t)
  <2> DEFINE c == at[t]
  <2>1. /\ pc[t] = "ensured" /\ op[t] = "prompt" /\ logOk
        /\ turnLog' = [turnLog EXCEPT ![c].open = TRUE]
        /\ Goto(t, "recorded")
        /\ UNCHANGED <<logOk, ts>>
    BY <1>2 DEF RecordUserMessage
  <2>2. c \in Chat
    BY <2>1 DEF IInv, LockDiscipline, Places, TypeOK
  <2>3. pc' = [pc EXCEPT ![t] = "recorded"] /\ at' = at
    BY <2>1 DEF Goto
  <2>4. pc \in [Task -> Pc] /\ turnLog \in [Chat -> Turn]
    BY DEF IInv, TypeOK
  <2>5. \A d \in Chat : turnLog'[d].prompting = turnLog[d].prompting
    BY <2>1, <2>4 DEF Turn
  <2>6. \A u \in Task, d \in Chat : InTurn(u, d)' <=> InTurn(u, d) \/ (u = t /\ d = c)
    BY <2>1, <2>2, <2>3, <2>4 DEF InTurn, TurnPc
  <2>7. TurnParts'
    <3>1. IdleAtEnd'
      BY <2>1, <2>3, <2>4 DEF TurnParts, IdleAtEnd
    <3>2. \A u \in Task : pc[u] = "syncTitle" => at[u] \in Chat
      BY DEF IInv, LockDiscipline, Places, TypeOK
    <3>3. UnmarkedAtTitle'
      BY <2>3, <2>4, <2>5, <3>2 DEF TurnParts, UnmarkedAtTitle
    <3>4. TurnBracket'
      BY <2>1, <2>5, <2>6 DEF TurnParts, TurnBracket
    <3> QED BY <3>1, <3>3, <3>4 DEF TurnParts
  <2>8. Working' = Working \cup {c}
    BY <2>2, <2>6 DEF Working
  <2>9. Marked' = Marked
    BY <2>5 DEF Marked
  <2>10. \A u \in Task : pc[u] \in TurnPc => u # t /\ at[u] # c /\ ~Sharing(c, at[u])
    BY <2>1, TurnAlone, CheckoutAlone DEF TurnPc
  <2>11. c \notin Working /\ Turns!Rivals(c) \cap Working = {}
    BY <2>10 DEF Working, InTurn, Turns!Rivals, Sharing
  <2>12. Turns!BeginTurn(c)
    BY <2>1, <2>8, <2>9, <2>11 DEF Turns!BeginTurn, Working, Marked
  <2>13. Turns!Next
    BY <2>2, <2>12 DEF Turns!Next
  <2> QED BY <2>7, <2>13 DEF Mapped
<1> QED BY <1>1, <1>2

\* A task that returns from inside its turn ends it, if its chat keeps no
\* PROMPTING, neither stored nor recorded, while the log takes events.
LEMMA EndEnds ==
    ASSUME IInv, TurnParts, NEW t \in Task, NEW c \in Chat, c = at[t],
           pc[t] \in TurnPc, End(t), UNCHANGED logOk,
           \A d \in Chat \ {c} : ts'[d] = ts[d] /\ turnLog'[d].prompting = turnLog[d].prompting,
           logOk => ts'[c] = "idle" /\ ~turnLog'[c].prompting,
           ~logOk => turnLog'[c].prompting = turnLog[c].prompting
    PROVE  Mapped
<1>1. op[t] = "prompt" /\ pc[t] # "reapGuard"
  BY DEF IInv, LockDiscipline, Places, TypeOK, TurnPc
<1>2. \A u \in Task \ {t} : pc[u] \in TurnPc => at[u] # c
  BY <1>1, TurnAlone
<1>3. pc'[t] = "idle" /\ OthersStay(t)
  BY DEF End, OthersStay, IInv, TypeOK
<1>4. \A u \in Task, d \in Chat : InTurn(u, d)' <=> InTurn(u, d) /\ u # t
  BY <1>3 DEF InTurn, OthersStay, TurnPc
<1>5. \A u \in Task : pc[u] \in TurnPc => at[u] \in Chat
  BY DEF IInv, LockDiscipline, Places, TypeOK
<1>6. IdleAtEnd'
  BY <1>2, <1>3, <1>5 DEF TurnParts, IdleAtEnd, OthersStay, TurnPc
<1>7. UnmarkedAtTitle'
  BY <1>2, <1>3, <1>5 DEF TurnParts, UnmarkedAtTitle, OthersStay, TurnPc
<1>8. TurnBracket'
  <2> SUFFICES ASSUME NEW d \in Chat, turnLog'[d].prompting \/ ts'[d] = "prompting", logOk
               PROVE  \E u \in Task : InTurn(u, d)'
    BY DEF TurnBracket
  <2>1. d # c
    BY DEF TurnParts
  <2>2. PICK u \in Task : InTurn(u, d)
    BY <2>1 DEF TurnParts, TurnBracket
  <2> QED BY <1>4, <2>1, <2>2 DEF InTurn
<1>9. c \in Working /\ Working' = Working \ {c}
  <2>1. InTurn(t, c)
    BY DEF InTurn
  <2>2. \A d \in Chat : (\E u \in Task : InTurn(u, d)') <=> (\E u \in Task : InTurn(u, d)) /\ d # c
    BY <1>2, <1>4 DEF InTurn
  <2> QED BY <1>1, <2>1, <2>2 DEF Working
<1>10. TurnParts'
  BY <1>6, <1>7, <1>8 DEF TurnParts
<1>11. CASE logOk
  <2>1. Marked' = Marked \ {c}
    BY <1>1, <1>11 DEF Marked
  <2>2. Turns!EndTurn(c)
    BY <1>9, <1>11, <2>1 DEF Turns!EndTurn, Working, Marked
  <2>3. Turns!Next
    BY <2>2 DEF Turns!Next
  <2> QED BY <1>10, <2>3 DEF Mapped
<1>12. CASE ~logOk
  <2>1. \A d \in Chat : turnLog'[d].prompting = turnLog[d].prompting
    BY <1>1, <1>12
  <2>2. Marked' = Marked
    BY <2>1 DEF Marked
  <2>3. Turns!EndTurn(c)
    BY <1>9, <1>12, <2>2 DEF Turns!EndTurn, Working, Marked
  <2>4. Turns!Next
    BY <2>3 DEF Turns!Next
  <2> QED BY <1>10, <2>4 DEF Mapped
<1> QED BY <1>11, <1>12

\* Inside a turn a task is alone on its chat: a step of it that stays inside
\* the turn moves nobody in or out of one.
LEMMA StaysInTurn ==
    ASSUME IInv, NEW t \in Task, NEW c \in Chat, c = at[t], NEW place \in TurnPc,
           pc[t] \in TurnPc, Goto(t, place)
    PROVE  /\ pc'[t] = place /\ at' = at /\ OthersStay(t)
           /\ \A u \in Task, d \in Chat : InTurn(u, d)' <=> InTurn(u, d)
           /\ InTurn(t, c) /\ c \in Working /\ Working' = Working
           /\ \A u \in Task \ {t} : pc[u] \in TurnPc => at[u] \in Chat /\ at[u] # c
<1>1. pc'[t] = place /\ at' = at /\ OthersStay(t)
  BY DEF Goto, OthersStay, IInv, TypeOK
<1>2. \A u \in Task, d \in Chat : InTurn(u, d)' <=> InTurn(u, d)
  BY <1>1 DEF InTurn, OthersStay
<1>3. InTurn(t, c) /\ c \in Working /\ Working' = Working
  BY <1>2 DEF InTurn, Working
<1>4. op[t] = "prompt" /\ pc[t] # "reapGuard"
  BY DEF IInv, LockDiscipline, Places, TurnPc
<1>5. \A u \in Task \ {t} : pc[u] \in TurnPc => at[u] \in Chat /\ at[u] # c
  BY <1>4, TurnAlone DEF IInv, LockDiscipline, Places, TypeOK
<1> QED BY <1>1, <1>2, <1>3, <1>5

\* PROMPTING is stored and recorded, or only stored: the log has failed then.
LEMMA SetPromptingMarks ==
    ASSUME IInv, TurnParts, NEW t \in Task, NEW c \in Chat, c = at[t], SetPrompting(t)
    PROVE  Mapped
<1>1. pc[t] = "recorded" /\ pc[t] \in TurnPc
  BY DEF SetPrompting, TurnPc
<1>2. \A d \in Chat : ts'[d] = IF d = c THEN "prompting" ELSE ts[d]
  BY DEF SetPrompting, SetStates, IInv, TypeOK
<1>3. CASE logOk
  <2>1. /\ turnLog' = [turnLog EXCEPT ![c].prompting = TRUE]
        /\ Goto(t, "send") /\ UNCHANGED logOk
    BY <1>3 DEF SetPrompting
  <2>2. \A d \in Chat : turnLog'[d].prompting = (d = c \/ turnLog[d].prompting)
    BY <2>1 DEF IInv, TypeOK, Turn
  <2>3. "send" \in TurnPc
    BY DEF TurnPc
  <2>4. /\ pc'[t] = "send" /\ at' = at /\ OthersStay(t)
        /\ \A u \in Task, d \in Chat : InTurn(u, d)' <=> InTurn(u, d)
        /\ InTurn(t, c) /\ c \in Working /\ Working' = Working
        /\ \A u \in Task \ {t} : pc[u] \in TurnPc => at[u] \in Chat /\ at[u] # c
    BY <1>1, <2>1, <2>3, StaysInTurn
  <2>5. IdleAtEnd'
    BY <1>2, <2>4 DEF TurnParts, IdleAtEnd, OthersStay, TurnPc
  <2>6. UnmarkedAtTitle'
    BY <2>2, <2>4 DEF TurnParts, UnmarkedAtTitle, OthersStay, TurnPc
  <2>7. TurnBracket'
    BY <1>2, <2>1, <2>2, <2>4 DEF TurnParts, TurnBracket
  <2>8. Marked' = Marked \cup {c}
    BY <2>2 DEF Marked
  <2>9. Turns!MarkTurn(c)
    BY <1>3, <2>1, <2>4, <2>8 DEF Turns!MarkTurn, Working, Marked
  <2>10. Turns!Next
    BY <2>9 DEF Turns!Next
  <2> QED BY <2>5, <2>6, <2>7, <2>10 DEF Mapped, TurnParts
<1>4. CASE ~logOk
  <2>1. End(t) /\ UNCHANGED <<turnLog, logOk>>
    BY <1>4 DEF SetPrompting, durable
  <2> QED BY <1>1, <1>2, <1>4, <2>1, EndEnds
<1> QED BY <1>3, <1>4

\* TurnComplete is recorded; when the log has failed the process is killed.
LEMMA FinalizeUnmarks ==
    ASSUME IInv, TurnParts, NEW t \in Task, NEW c \in Chat, c = at[t], Finalize(t)
    PROVE  Mapped
<1>1. pc[t] = "finalize" /\ pc[t] \in TurnPc /\ UNCHANGED <<logOk, ts>>
  BY DEF Finalize, TurnPc, session
<1>2. CASE logOk
  <2>1. turnLog' = [turnLog EXCEPT ![c] = Closed] /\ Goto(t, "syncTitle")
    BY <1>2 DEF Finalize
  <2>2. \A d \in Chat : turnLog'[d].prompting = (d # c /\ turnLog[d].prompting)
    BY <2>1 DEF IInv, TypeOK, Turn, Closed
  <2>3. "syncTitle" \in TurnPc
    BY DEF TurnPc
  <2>4. /\ pc'[t] = "syncTitle" /\ at' = at /\ OthersStay(t)
        /\ \A u \in Task, d \in Chat : InTurn(u, d)' <=> InTurn(u, d)
        /\ InTurn(t, c) /\ c \in Working /\ Working' = Working
        /\ \A u \in Task \ {t} : pc[u] \in TurnPc => at[u] \in Chat /\ at[u] # c
    BY <1>1, <2>1, <2>3, StaysInTurn
  <2>5. IdleAtEnd'
    BY <1>1, <2>4 DEF TurnParts, IdleAtEnd, OthersStay
  <2>6. UnmarkedAtTitle'
    BY <2>2, <2>4 DEF TurnParts, UnmarkedAtTitle, OthersStay, TurnPc
  <2>7. TurnBracket'
    BY <1>1, <2>2, <2>4 DEF TurnParts, TurnBracket
  <2>8. Marked' = Marked \ {c}
    BY <2>2 DEF Marked
  <2>9. Turns!UnmarkTurn(c)
    BY <1>1, <1>2, <2>4, <2>8 DEF Turns!UnmarkTurn, Working, Marked
  <2>10. Turns!Next
    BY <2>9 DEF Turns!Next
  <2> QED BY <2>5, <2>6, <2>7, <2>10 DEF Mapped, TurnParts
<1>3. CASE ~logOk
  <2>1. Goto(t, "killing") /\ UNCHANGED turnLog
    BY <1>3 DEF Finalize
  <2>2. IdleWrites /\ "killing" \in TurnPc
    BY <1>1 DEF IdleWrites, TurnPc
  <2> QED BY <1>1, <2>1, <2>2, QuietGoto, QuietIsMapped
<1> QED BY <1>2, <1>3

\* The two ends of a turn find IDLE stored.
LEMMA TurnEnds ==
    ASSUME IInv, TurnParts, NEW t \in Task, NEW c \in Chat, c = at[t],
           SyncTitle(t) \/ FinalizeFailed(t)
    PROVE  Mapped
<1>1. /\ pc[t] \in TurnPc /\ End(t) /\ UNCHANGED <<logOk, ts>> /\ ts[c] = "idle"
  BY DEF SyncTitle, FinalizeFailed, EndUnchanged, durable, TurnPc, TurnParts, IdleAtEnd
<1>2. CASE SyncTitle(t)
  <2>1. UNCHANGED turnLog /\ ~turnLog[c].prompting
    BY <1>2 DEF SyncTitle, EndUnchanged, durable, TurnParts, UnmarkedAtTitle
  <2> QED BY <1>1, <2>1, EndEnds
<1>3. CASE FinalizeFailed(t)
  <2>1. turnLog' = IF logOk THEN [turnLog EXCEPT ![c] = Closed] ELSE turnLog
    BY <1>3 DEF FinalizeFailed
  <2>2. /\ \A d \in Chat \ {c} : turnLog'[d].prompting = turnLog[d].prompting
        /\ logOk => ~turnLog'[c].prompting
        /\ ~logOk => turnLog'[c].prompting = turnLog[c].prompting
    BY <2>1 DEF IInv, TypeOK, Closed
  <2> QED BY <1>1, <2>2, EndEnds
<1> QED BY <1>2, <1>3

\* The other steps inside a turn: what stores a state stores IDLE.
LEMMA TurnGoesOn ==
    ASSUME IInv, TurnParts, NEW t \in Task, NEW c \in Chat, c = at[t],
           \/ SendPrompt(t) \/ CheckDisconnected(t) \/ MarkDeadTake(t) \/ MarkDead(t)
           \/ AgentAnswer(t)
    PROVE  Mapped
<1> USE DEF durable, session
<1> DEFINE Place == {"waiting", "errcheck", "killing", "marking", "finalize", "failed"}
<1>1. /\ pc[t] \in TurnPc
      /\ UNCHANGED <<turnLog, logOk>>
      /\ \/ UNCHANGED ts /\ \E place \in Place \ {"finalize", "failed"} : Goto(t, place)
         \/ /\ \E p \in {"running", "dead"} : SetStates(c, p, "idle")
            /\ \E place \in {"finalize", "failed"} : Goto(t, place)
  BY DEF SendPrompt, CheckDisconnected, MarkDeadTake, MarkDead, AgentAnswer, TurnCompletes, TurnFails,
         TurnTimesOut, TurnPc
<1>2. PICK place \in Place : /\ Goto(t, place)
                             /\ UNCHANGED ts \/ \E p \in {"running", "dead"} : SetStates(c, p, "idle")
                             /\ place \in {"finalize", "failed"}
                                  => \E p \in {"running", "dead"} : SetStates(c, p, "idle")
  BY <1>1
<1>3. IdleWrites /\ (place \in {"finalize", "failed"} => ts'[c] = "idle")
  BY <1>2, IdleWritten
<1>4. place \in TurnPc /\ place # "syncTitle"
  BY DEF TurnPc
<1> QED BY <1>1, <1>2, <1>3, <1>4, QuietGoto, QuietIsMapped

\* Every step of a turn.
LEMMA TurnMapped ==
    ASSUME IInv, IInv', TurnParts, NEW t \in Task, TurnStep(t) \/ AgentAnswer(t)
    PROVE  Mapped
<1>1. pc[t] \in TurnPc \cup {"ensured"}
  BY DEF TurnStep, AgentAnswer, RecordUserMessage, SetPrompting, SendPrompt, CheckDisconnected, Finalize,
         SyncTitle, MarkDeadTake, MarkDead, FinalizeFailed, TurnCompletes, TurnFails, TurnTimesOut, TurnPc
<1>2. at[t] \in Chat
  BY <1>1 DEF IInv, LockDiscipline, Places, TypeOK, TurnPc
<1> QED BY <1>2, RecordBegins, SetPromptingMarks, FinalizeUnmarks, TurnEnds, TurnGoesOn DEF TurnStep

-----------------------------------------------------------------------------
(* Shutdown, the environment, the next start.                              *)

\* The transaction that deletes a chat meets no turn of it.
LEMMA DeleteForgets ==
    ASSUME IInv, TurnParts, NEW t \in Task, NEW c \in Chat, c = at[t], DeleteRow(t)
    PROVE  Mapped
<1>1. pc[t] = "cleanup" /\ pc[t] \notin TurnPc
  BY DEF DeleteRow, TurnPc
<1>2. CASE EndUnchanged(t)
  BY <1>1, <1>2, EndUnchangedQuiet
<1>3. CASE ~EndUnchanged(t)
  <2>1. /\ turnLog' = [turnLog EXCEPT ![c] = Closed]
        /\ End(t) /\ UNCHANGED <<logOk, ts>>
    BY <1>3 DEF DeleteRow
  <2>2. \A d \in Chat : turnLog'[d].prompting = (d # c /\ turnLog[d].prompting)
    BY <2>1 DEF IInv, TypeOK, Turn, Closed
  <2>3. pc'[t] = "idle" /\ OthersStay(t)
    BY <2>1 DEF End, OthersStay, IInv, TypeOK
  <2>4. \A u \in Task, d \in Chat : InTurn(u, d)' <=> InTurn(u, d)
    BY <1>1, <2>3 DEF InTurn, OthersStay, TurnPc
  <2>5. \A u \in Task : pc[u] \in TurnPc => at[u] \in Chat /\ at[u] # c
    <3>1. op[t] \notin {"none", "query"} /\ pc[t] # "reapGuard"
      BY <1>1 DEF IInv, LockDiscipline, Places, ShutdownPc
    <3> QED BY <1>1, <3>1, TurnAlone DEF IInv, LockDiscipline, Places, TypeOK
  <2>6. IdleAtEnd' /\ UnmarkedAtTitle'
    BY <2>1, <2>2, <2>3, <2>5 DEF TurnParts, IdleAtEnd, UnmarkedAtTitle, OthersStay, TurnPc
  <2>7. TurnBracket'
    BY <2>1, <2>2, <2>4 DEF TurnParts, TurnBracket
  <2>8. Working' = Working /\ c \notin Working
    BY <2>4, <2>5 DEF Working, InTurn
  <2>9. Marked' = Marked \ {c}
    BY <2>2 DEF Marked
  <2>10. Turns!ForgetChat(c)
    BY <2>1, <2>8, <2>9 DEF Turns!ForgetChat, Working, Marked
  <2>11. Turns!Next
    BY <2>10 DEF Turns!Next
  <2> QED BY <2>6, <2>7, <2>11 DEF Mapped, TurnParts
<1> QED BY <1>2, <1>3

\* The other steps of stop, delete, edit and the reaper.
LEMMA ShutdownMapped ==
    ASSUME IInv, TurnParts, NEW t \in Task, ShutdownStep(t)
    PROVE  Mapped
<1> USE DEF durable, session
<1>1. pc[t] \notin TurnPc /\ at[t] \in Chat
  <2>1. pc[t] \in ShutdownPc \cup {"editCheck", "editStore", "editDecide", "reapGuard"}
    BY DEF ShutdownStep, TakeClient, FinishShutdown, DeleteRow, EditCheck, EditStore, EditDecide,
           ReapGuard, ShutdownPc
  <2> QED BY <2>1 DEF IInv, LockDiscipline, Places, TypeOK, ShutdownPc, TurnPc
<1>2. CASE EndUnchanged(t)
  BY <1>1, <1>2, EndUnchangedQuiet
<1>3. CASE DeleteRow(t)
  BY <1>1, <1>3, DeleteForgets
<1>4. CASE ~EndUnchanged(t) /\ ~DeleteRow(t)
  <2> DEFINE Place == {"take", "closing", "cleanup", "editStore", "editDecide"}
  <2>1. /\ UNCHANGED <<turnLog, logOk>>
        /\ UNCHANGED ts \/ SetStates(at[t], "stopped", "idle")
        /\ End(t) \/ \E place \in Place : Goto(t, place)
    BY <1>4 DEF ShutdownStep, TakeClient, FinishShutdown, EditCheck, EditStore, EditDecide, ReapGuard
  <2>2. IdleWrites
    BY <1>1, <2>1, IdleWritten
  <2>3. CASE End(t)
    BY <1>1, <2>1, <2>2, <2>3, QuietEnd, QuietIsMapped
  <2>4. CASE \E place \in Place : Goto(t, place)
    <3>1. PICK place \in Place : Goto(t, place)
      BY <2>4
    <3>2. place \notin TurnPc /\ place \notin {"finalize", "failed", "syncTitle"}
      BY DEF TurnPc
    <3> QED BY <1>1, <2>1, <2>2, <3>1, <3>2, QuietGoto, QuietIsMapped
  <2> QED BY <2>1, <2>3, <2>4
<1> QED BY <1>2, <1>3, <1>4

\* What happens around the tasks, but for the log.
LEMMA OutsideMapped ==
    ASSUME IInv, TurnParts,
           \/ \E t \in Task : AgentAsksPermission(t) \/ PermissionAnswered(t)
           \/ \E c \in Chat : SetArchived(c)
           \/ \E p \in Proc : ProcessExits(p)
           \/ UNCHANGED vars
    PROVE  Mapped
<1>1. UNCHANGED <<turnLog, logOk, ts, pc, at>>
  BY DEF AgentAsksPermission, PermissionAnswered, SetArchived, ProcessExits, vars, durable, session
<1> QED BY <1>1, QuietElse, QuietIsMapped

\* A log that closes leaves the marks as they are, and promises nothing more.
LEMMA LogClosesMapped ==
    ASSUME TurnParts, LogFails
    PROVE  Mapped
<1>1. logOk /\ ~logOk' /\ UNCHANGED <<turnLog, ts, pc, at>>
  BY DEF LogFails, session
<1>2. Working' = Working /\ Marked' = Marked
  BY <1>1 DEF Working, Marked, InTurn
<1>3. TurnParts'
  BY <1>1 DEF TurnParts, IdleAtEnd, UnmarkedAtTitle, TurnBracket
<1>4. logOk' = FALSE
  BY DEF LogFails
<1>5. Turns!LogCloses
  BY <1>1, <1>2, <1>4 DEF Turns!LogCloses, Working, Marked
<1> QED BY <1>3, <1>5 DEF Mapped, Turns!Next

\* The next start finds no turn and closes every mark.
LEMMA RestartRecovers ==
    ASSUME IInv, Restart
    PROVE  Mapped
<1>1. /\ \A t \in Task : pc'[t] = "idle"
      /\ \A c \in Chat : ts'[c] = "idle" /\ ~turnLog'[c].prompting
      /\ logOk' = TRUE
  BY DEF Restart, Closed, IInv, TypeOK
<1>2. TurnParts'
  BY <1>1 DEF TurnParts, IdleAtEnd, UnmarkedAtTitle, TurnBracket
<1>3. Working' = {} /\ Marked' = {}
  BY <1>1 DEF Working, Marked, InTurn, TurnPc
<1>4. Turns!Recover
  BY <1>1, <1>3 DEF Turns!Recover, Working, Marked
<1> QED BY <1>2, <1>4 DEF Mapped, Turns!Next

-----------------------------------------------------------------------------
(* Theorems.                                                               *)

\* At the start no turn is marked and none runs.
LEMMA TurnsInit == Init => TurnParts /\ Turns!Init
<1> SUFFICES ASSUME Init PROVE TurnParts /\ Turns!Init
  OBVIOUS
<1>1. TurnParts
  BY DEF Init, TurnParts, IdleAtEnd, UnmarkedAtTitle, TurnBracket, Closed
<1>2. Turns!Init
  BY DEF Init, Turns!Init, InTurn, TurnPc, Closed
<1> QED BY <1>1, <1>2

\* Every step is a step of ChatTurns, or one it does not see.
LEMMA StepMapped == IInv /\ IInv' /\ TurnParts /\ [Next]_vars => Mapped
<1> SUFFICES ASSUME IInv, IInv', TurnParts, [Next]_vars PROVE Mapped
  OBVIOUS
<1>1. CASE \E t \in Task, c \in Chat : Ask(t, c)
  BY <1>1, AskQuiet
<1>2. CASE \E t \in Task : LockStartup(t) \/ Abandon(t) \/ TaskStep(t) \/ AgentAnswer(t)
  BY <1>2, StartupQuiet, TurnMapped, ShutdownMapped DEF TaskStep
<1> QED BY <1>1, <1>2, OutsideMapped, LogClosesMapped, RestartRecovers DEF Next

\* No turn is left PROMPTING, in the session or in the durable events, by a
\* request that has ended: whatever fails, times out, exits or restarts.
THEOREM TurnBracketHolds == Spec => []TurnBracket
<1>1. Init => TurnParts
  BY TurnsInit
<1>2. IInv /\ IInv' /\ TurnParts /\ [Next]_vars => TurnParts'
  BY StepMapped DEF Mapped
<1>3. TurnParts => TurnBracket
  BY DEF TurnParts
<1> QED BY <1>1, <1>2, <1>3, LockDisciplineHolds, PTL DEF Spec

\* Sessions, locks, processes, failures and restarts together do to turns only
\* what ChatTurns allows.
THEOREM TurnsImplemented == Spec => ImplementsTurns
<1>1. Init => TurnParts /\ Turns!Init
  BY TurnsInit
<1>2. IInv /\ IInv' /\ TurnParts /\ [Next]_vars => TurnParts'
  BY StepMapped DEF Mapped
<1>3. IInv /\ IInv' /\ TurnParts /\ [Next]_vars => [Turns!Next]_Turns!turnVars
  BY StepMapped DEF Mapped
<1>4. Spec => Turns!Init /\ [][Turns!Next]_Turns!turnVars
  BY <1>1, <1>2, <1>3, LockDisciplineHolds, PTL DEF Spec
<1> QED BY <1>4 DEF ImplementsTurns, Turns!Spec
=============================================================================
