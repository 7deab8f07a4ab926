----------------------------- MODULE EventStream -----------------------------
(***************************************************************************)
(* The way of an event from the log to one browser page: the tasks of a    *)
(* WebSocket (backend/src/web/websocket.rs), the browser's socket          *)
(* (frontend/src/app/core/event-socket.service.ts) and the transcripts it  *)
(* fills (frontend/src/app/state/chat-session.store.ts), which also load   *)
(* pages of history over HTTP.                                             *)
(*                                                                         *)
(* The browser sends one subscribe message per socket, so the two tasks    *)
(* that write to a socket take turns: the forwarding task first waits for  *)
(* the replay to be over.  A page of the replay is read in one query and   *)
(* sent before the next one is read.                                       *)
(***************************************************************************)
EXTENDS EventLog

CONSTANT RingSize   \* capacity of the broadcast channel

ASSUME StreamAssumption == RingSize \in Nat \ {0}

VARIABLES
    \* the server's side of the socket
    phase,     \* the action task: "none", "open", "replay", "started", "done"
    fwd,       \* the send task: "arm", "check", "wait", "live", "lag"
    woken,     \* the armed Notified of the send task has been notified
    ring,      \* what the broadcast receiver has not read yet
    lagged,    \* the receiver has missed events since it read last
    cur, thr,  \* cursor and high watermark of the replay under way
    replaySeq, \* the last sequence number sent or skipped
    wire,      \* frames on their way to the browser
    \* the browser
    online,    \* there is a socket
    fatal,     \* a stream error was shown; no reconnection
    based,     \* baselineEstablished
    base,      \* baseline: through_seq of the latest subscribe
    last,      \* lastSequence
    view,      \* view[c]: the sequence numbers in c's reducer
    loaded,    \* historyLoaded
    low,       \* low[c]: cursor of the older history, 0 when there is none
    answer     \* answer[c]: the history page on its way, or NoPage

tasks   == <<phase, fwd, woken>>
channel == <<ring, lagged>>
replay  == <<cur, thr, replaySeq>>
cursor  == <<online, fatal, based, base, last>>
history == <<view, loaded, low, answer>>
vars == <<log, tasks, channel, replay, wire, cursor, history>>

NoPage == [seqs |-> {}, older |-> FALSE, sent |-> FALSE]
Frame == [kind : {"event"}, event : Event]
           \cup [kind : {"subscribed"}, through : 0..MaxSeq] \cup [kind : {"error"}]

\* Every variable keeps its type; the channel never exceeds its capacity.
TypeOK ==
    /\ LogTypeOK
    /\ phase \in {"none", "open", "replay", "started", "done"}
    /\ fwd \in {"arm", "check", "wait", "live", "lag"}
    /\ woken \in BOOLEAN
    /\ ring \in Seq(Event) /\ Len(ring) <= RingSize
    /\ lagged \in BOOLEAN
    /\ cur \in 0..(MaxSeq + 1) /\ thr \in 0..MaxSeq /\ replaySeq \in 0..MaxSeq
    /\ wire \in Seq(Frame)
    /\ online \in BOOLEAN /\ fatal \in BOOLEAN /\ based \in BOOLEAN
    /\ base \in 0..MaxSeq /\ last \in 0..MaxSeq
    /\ view \in [Chat -> SUBSET (1..MaxSeq)]
    /\ loaded \in SUBSET Chat
    /\ low \in [Chat -> 0..MaxSeq]
    /\ answer \in [Chat -> [seqs : SUBSET (1..MaxSeq), older : BOOLEAN, sent : BOOLEAN]]

Init ==
    /\ LogInit
    /\ phase = "none" /\ fwd = "arm" /\ woken = FALSE
    /\ ring = <<>> /\ lagged = FALSE
    /\ cur = 0 /\ thr = 0 /\ replaySeq = 0 /\ wire = <<>>
    /\ online = FALSE /\ fatal = FALSE /\ based = FALSE /\ base = 0 /\ last = 0
    /\ view = [c \in Chat |-> {}]
    /\ loaded = {}
    /\ low = [c \in Chat |-> 0]
    /\ answer = [c \in Chat |-> NoPage]

-----------------------------------------------------------------------------
(* The log moves.                                                          *)

socket == <<tasks, channel, replay, wire>>

AppendEvent(c) == SaveChatEvent(c) /\ UNCHANGED <<socket, cursor, history>>
AppendFails == SaveFails /\ UNCHANGED <<socket, cursor, history>>
DeleteChat(c) == DeleteEvents(c) /\ UNCHANGED <<socket, cursor, history>>
AppendDeleted(c) == NotifyDeleted(c) /\ UNCHANGED <<socket, cursor, history>>

\* Fault: a full channel drops its oldest event without a report.
OfferSilently(e) ==
    IF phase = "none"
    THEN UNCHANGED channel
    ELSE IF Len(ring) = RingSize
    THEN ring' = Append(Tail(ring), e) /\ UNCHANGED lagged
    ELSE ring' = Append(ring, e) /\ UNCHANGED lagged

\* A receiver exists from the accept of the socket; a full channel drops its
\* oldest event, and the receiver learns of it at its next read.
Offer(e) ==
    IF phase = "none"
    THEN UNCHANGED channel
    ELSE IF Len(ring) = RingSize
    THEN ring' = Append(Tail(ring), e) /\ lagged' = TRUE
    ELSE ring' = Append(ring, e) /\ UNCHANGED lagged

Publish ==
    /\ PublishEvent
    /\ Offer(saving)
    /\ UNCHANGED <<tasks, replay, wire, cursor, history>>

-----------------------------------------------------------------------------
(* The server's side of the socket.                                        *)

Send(frames) == wire' = wire \o frames
EventFrames(events) == [i \in DOMAIN events |-> [kind |-> "event", event |-> events[i]]]

\* The select! is over: every task of the socket is aborted.
SocketEnds ==
    /\ phase' = "none" /\ fwd' = "arm" /\ woken' = FALSE
    /\ ring' = <<>> /\ lagged' = FALSE
    /\ cur' = 0 /\ thr' = 0 /\ replaySeq' = 0

StreamError ==
    /\ Send(<<[kind |-> "error"]>>)
    /\ SocketEnds

\* The end of Subscribe; live delivery begins after the mark.
Subscribed(through) ==
    /\ Send(<<[kind |-> "subscribed", through |-> through]>>)
    /\ replaySeq' = through
    /\ phase' = "started"
    /\ cur' = 0 /\ thr' = 0

\* Subscribe: a fresh page only learns the mark, a reconnection replays.
Subscribe ==
    /\ phase = "open"
    /\ IF failed
       THEN StreamError
       ELSE /\ IF cur = 0
               THEN Subscribed(HighWatermark)
               ELSE /\ phase' = "replay"
                    /\ thr' = HighWatermark
                    /\ UNCHANGED <<cur, replaySeq, wire>>
            /\ UNCHANGED <<fwd, woken, channel>>
    /\ UNCHANGED <<log, cursor, history>>

Replay ==
    LET page == ReplayPage(cur, thr) IN
    /\ phase = "replay"
    /\ IF cur <= thr /\ failed
       THEN StreamError
       ELSE /\ IF cur <= thr /\ page # <<>>
               THEN /\ Send(EventFrames(page))
                    /\ cur' = page[Len(page)].seq + 1
                    /\ UNCHANGED <<phase, thr, replaySeq>>
               ELSE Subscribed(thr)
            /\ UNCHANGED <<fwd, woken, channel>>
    /\ UNCHANGED <<log, cursor, history>>

\* Fault: nobody is woken; the send task must look at the right moment.
NotifyNobody ==
    /\ phase = "started"
    /\ phase' = "done"
    /\ UNCHANGED <<log, fwd, woken, channel, replay, wire, cursor, history>>

\* notify_waiters, after the store to replay_started.
Notify ==
    /\ phase = "started"
    /\ phase' = "done"
    /\ woken' = (woken \/ fwd \in {"check", "wait"})
    /\ UNCHANGED <<log, fwd, channel, replay, wire, cursor, history>>

\* The loop of the send task: notified(), the load of replay_started, await.
Arm ==
    /\ phase # "none" /\ fwd = "arm"
    /\ fwd' = "check"
    /\ UNCHANGED <<log, phase, woken, channel, replay, wire, cursor, history>>

CheckStarted ==
    /\ fwd = "check"
    /\ IF phase \in {"started", "done"}
       THEN fwd' = "live" /\ woken' = FALSE
       ELSE fwd' = "wait" /\ UNCHANGED woken
    /\ UNCHANGED <<log, phase, channel, replay, wire, cursor, history>>

Wake ==
    /\ fwd = "wait" /\ woken
    /\ fwd' = "arm" /\ woken' = FALSE
    /\ UNCHANGED <<log, phase, channel, replay, wire, cursor, history>>

Forward ==
    LET e == ring[1] IN
    /\ fwd = "live" /\ ~lagged /\ ring # <<>>
    /\ ring' = Tail(ring)
    /\ IF e.seq <= replaySeq
       THEN UNCHANGED <<wire, replaySeq>>
       ELSE Send(EventFrames(<<e>>)) /\ replaySeq' = e.seq
    /\ UNCHANGED <<log, tasks, lagged, cur, thr, cursor, history>>

\* RecvError::Lagged: the receiver stands at the oldest event left.
NoticeLag ==
    /\ fwd = "live" /\ lagged
    /\ IF failed
       THEN StreamError
       ELSE /\ lagged' = FALSE
            /\ thr' = HighWatermark
            /\ cur' = replaySeq + 1
            /\ fwd' = "lag"
            /\ UNCHANGED <<phase, woken, ring, replaySeq, wire>>
    /\ UNCHANGED <<log, cursor, history>>

CatchUp ==
    LET page == ReplayPage(cur, thr) IN
    /\ fwd = "lag"
    /\ IF cur <= thr /\ failed
       THEN StreamError
       ELSE /\ IF cur <= thr /\ page # <<>>
               THEN /\ Send(EventFrames(page))
                    /\ cur' = page[Len(page)].seq + 1
                    /\ replaySeq' = page[Len(page)].seq
                    /\ UNCHANGED <<fwd, thr>>
               ELSE /\ fwd' = "live"
                    /\ cur' = 0 /\ thr' = 0
                    /\ UNCHANGED <<replaySeq, wire>>
            /\ UNCHANGED <<phase, woken, channel>>
    /\ UNCHANGED <<log, cursor, history>>

-----------------------------------------------------------------------------
(* The browser's socket.                                                   *)

SocketGone ==
    /\ online' = FALSE
    /\ SocketEnds
    /\ wire' = <<>>

\* Fault: a new socket starts from the first event.
ConnectAnew ==
    /\ ~online /\ ~fatal
    /\ online' = TRUE
    /\ phase' = "open"
    /\ cur' = 0
    /\ UNCHANGED <<log, fwd, woken, channel, thr, replaySeq, wire, fatal, based, base, last, history>>

\* connect, and the subscribe message of its open handler.
Connect ==
    /\ ~online /\ ~fatal
    /\ online' = TRUE
    /\ phase' = "open"
    /\ cur' = IF based THEN last + 1 ELSE 0
    /\ UNCHANGED <<log, fwd, woken, channel, thr, replaySeq, wire, fatal, based, base, last, history>>

\* The connection is lost with what it carried ...
Drop ==
    /\ "drop" \in Faults
    /\ online
    /\ SocketGone
    /\ UNCHANGED <<log, fatal, based, base, last, history>>

\* ... or the browser has read the server's last frame.
ReceiveError ==
    /\ wire # <<>> /\ wire[1].kind = "error"
    /\ fatal' = TRUE
    /\ SocketGone
    /\ UNCHANGED <<log, based, base, last, history>>

ReceiveSubscribed ==
    /\ wire # <<>> /\ wire[1].kind = "subscribed"
    /\ wire' = Tail(wire)
    /\ last' = Max({last, wire[1].through})
    /\ based' = TRUE
    /\ base' = wire[1].through
    /\ UNCHANGED <<log, tasks, channel, replay, online, fatal, history>>

\* handleIncomingEvent: an event of no chat reaches no reducer.
ReceiveEvent ==
    LET e == wire[1].event IN
    /\ wire # <<>> /\ wire[1].kind = "event"
    /\ wire' = Tail(wire)
    /\ IF e.seq <= last
       THEN UNCHANGED <<last, view>>
       ELSE /\ last' = e.seq
            /\ view' = [c \in Chat |-> view[c] \cup {n \in {e.seq} : c = e.chat}]
    /\ UNCHANGED <<log, tasks, channel, replay, online, fatal, based, base,
                   loaded, low, answer>>

Restart ==
    /\ ReopenLog
    /\ SocketGone
    /\ answer' = [c \in Chat |-> NoPage]
    /\ UNCHANGED <<fatal, based, base, last, view, loaded, low>>

-----------------------------------------------------------------------------
(* History pages: chat_event_page at the server, requestHistory in the     *)
(* browser, at most one request per chat.                                  *)

Rows(c) == {e.seq : e \in {d \in table : d.chat = c}}

\* The newest PageSize of rows, and whether there are more.
ChatPage(rows) ==
    [seqs |-> {n \in rows : Cardinality({m \in rows : m > n}) < PageSize},
     older |-> Cardinality(rows) > PageSize,
     sent |-> TRUE]

Ask(c, rows) ==
    /\ c \in chats /\ ~answer[c].sent
    /\ answer' = [answer EXCEPT ![c] = ChatPage(rows)]
    /\ UNCHANGED <<log, socket, cursor, view, loaded, low>>

\* loadChatHistory waits for the baseline and asks for what is at or below it.
AskHistory(c) == c \notin loaded /\ based /\ Ask(c, {n \in Rows(c) : n <= base})

AskOlder(c) == c \in loaded /\ low[c] # 0 /\ Ask(c, {n \in Rows(c) : n < low[c]})

\* Fault: the first page replaces what the socket has delivered meanwhile.
TakeReplacing(c) ==
    /\ answer[c].sent
    /\ view' = [view EXCEPT ![c] = answer[c].seqs]
    /\ loaded' = loaded \cup {c}
    /\ low' = [low EXCEPT ![c] = IF answer[c].older THEN Min(answer[c].seqs) ELSE 0]
    /\ answer' = [answer EXCEPT ![c] = NoPage]
    /\ UNCHANGED <<log, socket, cursor>>

TakePage(c) ==
    /\ answer[c].sent
    /\ view' = [view EXCEPT ![c] = @ \cup answer[c].seqs]
    /\ loaded' = loaded \cup {c}
    /\ low' = [low EXCEPT ![c] = IF answer[c].older THEN Min(answer[c].seqs) ELSE 0]
    /\ answer' = [answer EXCEPT ![c] = NoPage]
    /\ UNCHANGED <<log, socket, cursor>>

PageFails(c) ==
    /\ "lost" \in Faults
    /\ answer[c].sent
    /\ answer' = [answer EXCEPT ![c] = NoPage]
    /\ UNCHANGED <<log, socket, cursor, view, loaded, low>>

\* removeChatState of the page that deleted the chat.
RemoveChatState(c) ==
    /\ c \in Chat \ chats
    /\ c \in loaded \/ view[c] # {}
    /\ view' = [view EXCEPT ![c] = {}]
    /\ loaded' = loaded \ {c}
    /\ low' = [low EXCEPT ![c] = 0]
    /\ UNCHANGED <<log, socket, cursor, answer>>

-----------------------------------------------------------------------------
SendTask == Arm \/ CheckStarted \/ Wake \/ Forward \/ NoticeLag \/ CatchUp
ActionTask == Subscribe \/ Replay \/ Notify
Receive == ReceiveError \/ ReceiveSubscribed \/ ReceiveEvent

Next ==
    \/ \E c \in Chat : AppendEvent(c) \/ DeleteChat(c) \/ AppendDeleted(c)
    \/ AppendFails \/ Publish \/ Restart
    \/ SendTask \/ ActionTask \/ Connect \/ Receive \/ Drop
    \/ \E c \in Chat : \/ AskHistory(c) \/ AskOlder(c) \/ TakePage(c)
                       \/ PageFails(c) \/ RemoveChatState(c)

Spec == Init /\ [][Next]_vars

\* Tasks that can run are run, a closed socket is reopened by its timer, and a
\* frame on a connection that stays open arrives.
FairSpec ==
    /\ Spec
    /\ WF_vars(Publish)
    /\ WF_vars(SendTask) /\ WF_vars(ActionTask)
    /\ WF_vars(Connect) /\ WF_vars(Receive)

-----------------------------------------------------------------------------
(* Properties.                                                             *)

\* No gap: once a page has loaded an existing chat, its reducer holds every durable
\* event of the chat from the cursor of the older history to the last event
\* the socket accepted.  That cursor is all a reconnection is told, so an event
\* below it that is missing is missing for good.
NoGap ==
    \A c \in loaded \cap chats : \A n \in Rows(c) : low[c] <= n /\ n <= last => n \in view[c]

\* "A nonzero cursor is a reconnect and must catch up durably through this
\* mark": when the browser reads the mark of a subscription, a chat it has
\* loaded lacks no durable event up to that mark.
ReconnectCatchesUp ==
    [][ReceiveSubscribed =>
         \A c \in loaded \cap chats : \A n \in Rows(c) :
             low[c] <= n /\ n <= base' => n \in view'[c]]_vars

\* The stream implements the feed: with the rows of the existing chats and what
\* their reducers hold, the cursor of the socket passes no row unseen.
Feed == INSTANCE EventFeed WITH
    rows    <- {e \in table : e.chat \in chats},
    started <- based,
    place   <- last,
    seen    <- UNION {[seq : view[c], chat : {c}] : c \in chats}

ImplementsFeed == Feed!FeedSpec

\* Every durable event reaches a page that has subscribed, if the connection
\* and the server stay up from some time on: the page's cursor passes it,
\* whether it came live, in the replay of a lag or in that of a reconnection,
\* unless the page has shown a stream error.
EventsArrive ==
    <>[][~(Drop \/ Restart)]_vars =>
        \A n \in 1..MaxSeq :
            based /\ (\E e \in table : e.seq = n)
                ~> last >= n \/ fatal \/ (\A e \in table : e.seq # n)
=============================================================================
