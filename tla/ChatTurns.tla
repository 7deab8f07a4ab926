------------------------------ MODULE ChatTurns ------------------------------
(***************************************************************************)
(* What the server promises about turns, without sessions, locks or        *)
(* processes: a chat works on at most one turn, of the chats that share a  *)
(* primary checkout at most one works, and the mark that a turn leaves in  *)
(* the durable events is made and removed only while the turn runs, or by  *)
(* the recovery of the next start, or with the chat.                       *)
(***************************************************************************)
CONSTANTS Chat, CheckoutOf, NoCheckout

VARIABLES
    working,   \* chats with a turn that has begun and not ended
    marked,    \* chats whose last PROMPTING event has no TurnComplete
    accepting  \* the event log still takes events

turnVars == <<working, marked, accepting>>

Rivals(c) == {d \in Chat : CheckoutOf[d] = CheckoutOf[c] /\ CheckoutOf[c] # NoCheckout}

Init == working = {} /\ marked = {} /\ accepting = TRUE

BeginTurn(c) ==
    /\ c \notin working
    /\ Rivals(c) \cap working = {}
    /\ accepting
    /\ working' = working \cup {c}
    /\ UNCHANGED <<marked, accepting>>

MarkTurn(c) ==
    /\ c \in working
    /\ accepting
    /\ marked' = marked \cup {c}
    /\ UNCHANGED <<working, accepting>>

UnmarkTurn(c) ==
    /\ c \in working
    /\ accepting
    /\ marked' = marked \ {c}
    /\ UNCHANGED <<working, accepting>>

\* A turn leaves its mark behind only when the log refuses to take its end.
EndTurn(c) ==
    /\ c \in working
    /\ working' = working \ {c}
    /\ \/ accepting /\ marked' = marked \ {c}
       \/ ~accepting /\ UNCHANGED marked
    /\ UNCHANGED accepting

ForgetChat(c) ==
    /\ c \notin working
    /\ marked' = marked \ {c}
    /\ UNCHANGED <<working, accepting>>

LogCloses == accepting /\ accepting' = FALSE /\ UNCHANGED <<working, marked>>

Recover == working' = {} /\ marked' = {} /\ accepting' = TRUE

Next ==
    \/ \E c \in Chat : \/ BeginTurn(c) \/ MarkTurn(c) \/ UnmarkTurn(c)
                       \/ EndTurn(c) \/ ForgetChat(c)
    \/ LogCloses
    \/ Recover

Spec == Init /\ [][Next]_turnVars
=============================================================================
