------------------------------- MODULE EventLog -------------------------------
(***************************************************************************)
(* The durable event log: EventLog in backend/src/events.rs over the       *)
(* events table of backend/src/store/events.rs.                            *)
(*                                                                         *)
(* append_at holds the write lock of the log from the choice of a sequence *)
(* number to the broadcast, but readers of the table do not take that      *)
(* lock: between SaveEvent and the step that publishes the event they see  *)
(* a row nobody has been told of.  The in-memory window is left out: with  *)
(* a store, every reader goes to the table.                                *)
(***************************************************************************)
EXTENDS Naturals, FiniteSetsExt, SequencesExt

CONSTANTS
    Chat,      \* chats that have events
    PageSize,  \* rows per page of replay_page
    Meta,      \* stands for the chat of an event that belongs to none
    Faults,    \* bound: which faults happen
    MaxSeq,    \* bound: the last sequence number that is given out
    NoEvent

ASSUME LogAssumption ==
    /\ PageSize \in Nat \ {0}
    /\ MaxSeq \in Nat
    /\ Meta \notin Chat
    /\ NoEvent \notin [seq : Nat, chat : Chat \cup {Meta}]

VARIABLES
    table,    \* the rows of the events table
    chats,    \* the rows of the chats table
    owed,     \* deleted chats whose metadata_changed has not been appended
    nextSeq,  \* the next sequence number, in memory
    saving,   \* the event that is saved and not yet broadcast, or NoEvent
    failed    \* persistence_error is set

log == <<table, chats, owed, nextSeq, saving, failed>>

Event == [seq : 1..MaxSeq, chat : Chat \cup {Meta}]

LogTypeOK ==
    /\ table \in SUBSET Event
    /\ chats \in SUBSET Chat /\ owed \in SUBSET Chat
    /\ nextSeq \in 1..(MaxSeq + 1)
    /\ saving \in Event \cup {NoEvent}
    /\ failed \in BOOLEAN

LogInit ==
    /\ table = {}
    /\ chats = Chat /\ owed = {}
    /\ nextSeq = 1
    /\ saving = NoEvent
    /\ failed = FALSE

\* max_event_seq: 0 for an empty table.
MaxEventSeq == Max({e.seq : e \in table} \cup {0})

\* high_watermark, unless the log has failed.
HighWatermark == MaxEventSeq

\* replay_page: the first PageSize rows from one sequence number to another, in
\* the order of their numbers.
ReplayPage(from, through) ==
    LET rows == {e \in table : from <= e.seq /\ e.seq <= through}
        Before(e) == Cardinality({d \in rows : d.seq < e.seq})
    IN [i \in 1..Min({PageSize, Cardinality(rows)}) |-> CHOOSE e \in rows : Before(e) = i - 1]

-----------------------------------------------------------------------------
\* append_at up to the commit of the row.
SaveEvent(c) ==
    LET e == [seq |-> nextSeq, chat |-> c] IN
    /\ saving = NoEvent /\ ~failed
    /\ nextSeq <= MaxSeq
    /\ table' = table \cup {e}
    /\ saving' = e
    /\ UNCHANGED <<chats, nextSeq, failed>>

\* An event of a chat; a late one finds the chat deleted and is saved as well.
SaveChatEvent(c) ==
    /\ c \in chats \/ "late" \in Faults
    /\ SaveEvent(c)
    /\ UNCHANGED owed

\* SQLite refuses the row: the log closes until the next start.
SaveFails ==
    /\ "fail" \in Faults
    /\ saving = NoEvent /\ ~failed
    /\ failed' = TRUE
    /\ UNCHANGED <<table, chats, owed, nextSeq, saving>>

\* append_at after the commit; the broadcast itself is the composed module's.
PublishEvent ==
    /\ saving # NoEvent
    /\ nextSeq' = saving.seq + 1
    /\ saving' = NoEvent
    /\ UNCHANGED <<table, chats, owed, failed>>

\* delete_chat up to the end of its transaction ...
DeleteEvents(c) ==
    /\ "delete" \in Faults
    /\ c \in chats
    /\ chats' = chats \ {c}
    /\ table' = {e \in table : e.chat # c}
    /\ owed' = owed \cup {c}
    /\ UNCHANGED <<nextSeq, saving, failed>>

\* ... and its last step, notify_metadata_changed; a closed log never takes it.
NotifyDeleted(c) ==
    /\ c \in owed
    /\ owed' = owed \ {c}
    /\ SaveEvent(Meta)

\* A crash or stop, and EventLog::persistent of the next start.
ReopenLog ==
    /\ "restart" \in Faults
    /\ nextSeq' = MaxEventSeq + 1
    /\ saving' = NoEvent
    /\ failed' = FALSE
    /\ owed' = {}
    /\ UNCHANGED <<table, chats>>
=============================================================================
