------------------------------ MODULE EventFeed ------------------------------
(***************************************************************************)
(* What the event stream promises to a browser page, without sockets,      *)
(* channels or replays: the page reads the rows of the chats that exist in *)
(* the order of their sequence numbers, from some start on, and passes     *)
(* none of them unseen; older rows it may load whenever it likes.          *)
(***************************************************************************)
EXTENDS Naturals

CONSTANTS Chat, MaxSeq

VARIABLES
    rows,    \* events of the chats that exist, as [seq, chat]
    started, \* the page has its start
    place,   \* the page has passed the rows up to this sequence number
    seen     \* rows the page has

feed == <<rows, started, place, seen>>

FeedInit == rows = {} /\ started = FALSE /\ place = 0 /\ seen = {}

\* A new row is beyond every row and beyond the place of the page.
Add(e) ==
    /\ e.seq > place
    /\ \A r \in rows : e.seq > r.seq
    /\ rows' = rows \cup {e}
    /\ UNCHANGED <<started, place, seen>>

\* A chat goes with its rows.
Remove(c) ==
    /\ rows' = {e \in rows : e.chat # c}
    /\ seen' = {e \in seen : e.chat # c}
    /\ UNCHANGED <<started, place>>

Start(n) ==
    /\ ~started
    /\ started' = TRUE /\ place' = n
    /\ UNCHANGED <<rows, seen>>

\* The page moves on and sees all it passes.
Pass(n) ==
    /\ started /\ n >= place
    /\ place' = n
    /\ seen' = seen \cup {e \in rows : place < e.seq /\ e.seq <= n}
    /\ UNCHANGED <<rows, started>>

\* The page loads rows it has passed.
Load(old) ==
    /\ started
    /\ \A e \in old : e.seq <= place
    /\ seen' = seen \cup old
    /\ UNCHANGED <<rows, started, place>>

FeedNext ==
    \/ \E e \in [seq : 1..MaxSeq, chat : Chat] : Add(e)
    \/ \E c \in Chat : Remove(c)
    \/ \E n \in 0..MaxSeq : Start(n) \/ Pass(n)
    \/ \E old \in SUBSET rows : Load(old)

FeedSpec == FeedInit /\ [][FeedNext]_feed
=============================================================================
