---------------------------- MODULE TerminalOutput ----------------------------
(***************************************************************************)
(* The output of one command: read from the two pipes of a terminal, cut   *)
(* between UTF-8 characters, kept up to a limit and given to the agent     *)
(* with the exit status (acp/callbacks.rs, tasks/mod.rs); or reported in   *)
(* snapshots by an agent that runs the command itself.                     *)
(*                                                                         *)
(* A text is the sequence of its bytes, each with the number and the size  *)
(* of its character and its place in it; size 0 is one byte that is no     *)
(* character.                                                              *)
(***************************************************************************)
EXTENDS Naturals, Sequences, SequencesExt

CONSTANTS
    Pipe, Texts,   \* what a command may print, on each pipe
    Letter, Snapshots,   \* what the other kind of command prints, as letters
    Limit,         \* output_limit, in bytes
    ReadSize       \* the most bytes a read returns

Size(n) == IF n = 0 THEN 1 ELSE n
Bytes == [at : Nat \ {0}, size : 0..4, nth : 1..4]

\* The bytes of a text: all of a character in their order, then those of the next.
Spelled(bytes) ==
    \A b \in DOMAIN bytes :
        LET this == bytes[b] IN
        /\ this.nth <= Size(this.size)
        /\ b = Len(bytes) => this.nth = Size(this.size)
        /\ IF b = 1 THEN this.at = 1 /\ this.nth = 1
           ELSE IF this.nth = 1
           THEN this.at = bytes[b - 1].at + 1 /\ bytes[b - 1].nth = Size(bytes[b - 1].size)
           ELSE bytes[b - 1] = [at |-> this.at, size |-> this.size, nth |-> this.nth - 1]

ASSUME OutputAssumption ==
    /\ Limit \in Nat /\ ReadSize \in Nat
    /\ \A t \in Texts : t \in [Pipe -> Seq(Bytes)] /\ \A p \in Pipe : Spelled(t[p])
    /\ Snapshots \subseteq Seq(Letter)

VARIABLES
    managed,  \* Batey runs the command
    text,     \* what the command prints if nothing stops it
    got,      \* bytes read from each pipe
    held,     \* of these, the bytes at the end that no character has taken yet
    end,      \* the bytes that are or will be in each pipe
    exited,   \* the process tree has ended
    drained,  \* pipes whose reader has ended
    kept, truncated,   \* the buffer
    printed,  \* history: all that was put into it
    status,   \* the exit is recorded
    poll,     \* terminal/output: "idle", or the answer in the making
    whole, seen, shown   \* the other command: its text, the longest snapshot, the buffer

toVars == <<managed, text, got, held, end, exited, drained, kept, truncated, printed, status, poll, whole, seen, shown>>

ToTypeOK ==
    /\ \A p \in Pipe : got[p] \in 0..Len(text[p]) /\ held[p] \in 0..3
    /\ drained \subseteq Pipe /\ truncated \in BOOLEAN /\ status \in BOOLEAN
    /\ poll.step \in {"idle", "buffer", "answered"}

ToInit ==
    /\ managed \in BOOLEAN
    /\ IF managed THEN text \in Texts /\ whole = <<>>
                  ELSE text = [p \in Pipe |-> <<>>] /\ whole \in Snapshots
    /\ got = [p \in Pipe |-> 0] /\ held = got /\ drained = {}
    /\ end = [p \in Pipe |-> Len(text[p])] /\ exited = FALSE
    /\ kept = <<>> /\ truncated = FALSE /\ printed = <<>> /\ status = FALSE
    /\ poll = [step |-> "idle"] /\ seen = 0 /\ shown = <<>>

-----------------------------------------------------------------------------
(* The buffer                                                              *)

\* How many bytes some characters have.
Weight(chars) ==
    LET upto[n \in 0..Len(chars)] == IF n = 0 THEN 0 ELSE upto[n - 1] + chars[n].size
    IN  upto[Len(chars)]

\* The last n of a sequence.
Ending(all, n) == IF Len(all) > n THEN SubSeq(all, Len(all) - n + 1, Len(all)) ELSE all

\* The fewest characters go whose bytes bring the rest down to the limit.
Trim(chars) ==
    LET gone == CHOOSE n \in 0..Len(chars) :
            /\ Weight(SubSeq(chars, n + 1, Len(chars))) <= Limit
            /\ \A m \in 0..(n - 1) : Weight(SubSeq(chars, m + 1, Len(chars))) > Limit
    IN  SubSeq(chars, gone + 1, Len(chars))

\* Fault: terminal/output reads the status after letting the buffer go.
Unlocked == TRUE

\* A poll holds the lock of the buffer for reading.
CanAppend == poll.step # "buffer"

\* append_output, under the lock of the buffer.
AppendOutput(chars) ==
    /\ CanAppend
    /\ printed' = printed \o chars
    /\ kept' = IF Weight(kept \o chars) > Limit THEN Trim(kept \o chars) ELSE kept \o chars
    /\ truncated' = (truncated \/ Weight(kept \o chars) > Limit)

-----------------------------------------------------------------------------
(* drain_terminal_stream                                                   *)

\* The first n bytes of data are whole characters.
Complete(data, n) ==
    /\ \A b \in 1..n : data[b].size # 0
    /\ n > 0 => data[1].nth = 1 /\ data[n].nth = data[n].size
ValidLen(data) ==
    CHOOSE n \in 0..Len(data) :
        Complete(data, n) /\ \A m \in (n + 1)..Len(data) : ~Complete(data, m)

\* Character i, if data has all of its bytes, and else the replacement character.
HasAll(data, i) ==
    /\ \E b \in DOMAIN data : data[b].at = i /\ data[b].nth = 1
    /\ \E b \in DOMAIN data : data[b].at = i /\ data[b].nth = data[b].size
Decoded(p, data, i) ==
    [pipe |-> p, at |-> i, whole |-> HasAll(data, i),
     size |-> IF HasAll(data, i) THEN data[CHOOSE b \in DOMAIN data : data[b].at = i].size ELSE 3]

\* Bytes as text.
Lossy(p, data) ==
    IF data = <<>> THEN <<>>
    ELSE [k \in 1..(data[Len(data)].at - data[1].at + 1) |-> Decoded(p, data, data[1].at + k - 1)]

\* Up to three bytes may be the start of a character that the next read brings.
HeldBack(rest) == IF Len(rest) >= 4 THEN <<>> ELSE rest

ReadPipe(p) ==
    /\ p \notin drained
    /\ \E n \in 1..ReadSize :
        /\ got[p] + n <= end[p]
        /\ LET data == SubSeq(text[p], got[p] - held[p] + 1, got[p] + n)
               valid == ValidLen(data)
               rest == SubSeq(data, valid + 1, Len(data))
               keep == HeldBack(rest)
           IN /\ AppendOutput(Lossy(p, SubSeq(data, 1, valid))
                              \o IF keep = <<>> THEN Lossy(p, rest) ELSE <<>>)
              /\ held' = [held EXCEPT ![p] = Len(keep)]
        /\ got' = [got EXCEPT ![p] = @ + n]
    /\ UNCHANGED <<managed, text, end, exited, drained, status, poll, whole, seen, shown>>

\* The end of the pipe: what is held back is all there is.
PipeEnds(p) ==
    /\ exited /\ p \notin drained /\ got[p] = end[p]
    /\ AppendOutput(Lossy(p, SubSeq(text[p], got[p] - held[p] + 1, got[p])))
    /\ held' = [held EXCEPT ![p] = 0] /\ drained' = drained \cup {p}
    /\ UNCHANGED <<managed, text, got, end, exited, status, poll, whole, seen, shown>>

\* The command exits or is killed, and the rest of its tree with it.
TreeExits ==
    /\ managed
    /\ ~exited /\ exited' = TRUE
    /\ end' \in [Pipe -> UNION {got[p]..end[p] : p \in Pipe}]
    /\ \A p \in Pipe : end'[p] \in got[p]..end[p]
    /\ UNCHANGED <<managed, text, got, held, drained, kept, truncated, printed, status, poll, whole, seen, shown>>

\* supervise_terminal waits for both readers, then record_exit.
RecordStatus ==
    /\ drained = Pipe /\ ~status /\ status' = TRUE
    /\ UNCHANGED <<managed, text, got, held, end, exited, drained, kept, truncated, printed, poll, whole, seen, shown>>

\* handle_terminal_output holds the buffer while it reads the status.
TakeBuffer ==
    /\ managed
    /\ poll.step # "buffer"
    /\ poll' = [step |-> "buffer", output |-> kept, truncated |-> truncated]
    /\ UNCHANGED <<managed, text, got, held, end, exited, drained, kept, truncated, printed, status, whole, seen, shown>>

AnswerOutput ==
    /\ poll.step = "buffer"
    /\ poll' = [step |-> "answered", output |-> poll.output, truncated |-> poll.truncated, status |-> status]
    /\ UNCHANGED <<managed, text, got, held, end, exited, drained, kept, truncated, printed, status, whole, seen, shown>>

-----------------------------------------------------------------------------
(* merge_observed_output: letters of one byte                              *)

Within(part, all) ==
    \E i \in 0..Len(all) : i + Len(part) <= Len(all) /\ SubSeq(all, i + 1, i + Len(part)) = part
Break(all) == IF Last(all) = "nl" THEN all ELSE Append(all, "nl")

\* A longer snapshot replaces, one that is known is dropped, anything else is news.
Merge(have, new) ==
    IF have = <<>> \/ IsPrefix(have, new) THEN new
    ELSE IF Within(new, have) THEN have
    ELSE Break(have) \o new

\* The agent sends its snapshots again, and late, as long as none was cut.
ReportSnapshot ==
    \E n \in 1..Len(whole) :
        /\ n >= seen \/ seen <= Limit
        /\ shown' = Ending(Merge(shown, SubSeq(whole, 1, n)), Limit)
        /\ seen' = IF n > seen THEN n ELSE seen
        /\ UNCHANGED <<managed, text, got, held, end, exited, drained, kept, truncated, printed, status, poll, whole>>

ToNext ==
    \/ \E p \in Pipe : ReadPipe(p) \/ PipeEnds(p)
    \/ TreeExits \/ RecordStatus \/ TakeBuffer \/ AnswerOutput \/ ReportSnapshot

-----------------------------------------------------------------------------
\* The buffer is the end of what was printed, as much as fits, and says when that
\* is not all (tasks/mod.rs:162-174).
KeepsTheEnd ==
    /\ kept = Ending(printed, Len(kept)) /\ Weight(kept) <= Limit
    /\ truncated <=> kept # printed
    /\ truncated => Weight(Ending(printed, Len(kept) + 1)) > Limit

\* Text that is well-formed, and not cut short by the exit, comes out whole, in order
\* and without a gap, wherever the reads cut it (acp/callbacks.rs:985-1033).
CharactersWhole ==
    \A p \in Pipe :
        LET mine == {i \in DOMAIN printed : printed[i].pipe = p} IN
        (/\ \A b \in DOMAIN text[p] : text[p][b].size # 0
         /\ p \notin drained \/ end[p] = Len(text[p])) =>
            /\ \A i \in mine : printed[i].whole
            /\ \A i, j \in mine : i < j => printed[i].at < printed[j].at
            /\ \A i \in mine : \A n \in 1..printed[i].at : \E j \in mine : printed[j].at = n

\* An agent that is told of the exit is told all of the output: nothing is
\* appended after the status it saw.
StatusMeansAll ==
    (poll.step = "answered" /\ poll.status) =>
        /\ poll.output = kept /\ poll.truncated = truncated
        /\ \A p \in Pipe : held[p] = 0 /\ got[p] = end[p]

\* Snapshots repeated or out of order show the newest one, or its end if it was too
\* long (tasks/mod.rs:268-303).
NewestSnapshot == shown = Ending(SubSeq(whole, 1, seen), Limit)

\* However reads, cuts, exits and snapshots interleave, the output an agent or a page
\* gets is the newest part of what was printed (acp/callbacks.rs, tasks/mod.rs).
OutputHolds == ToTypeOK /\ KeepsTheEnd /\ CharactersWhole /\ StatusMeansAll /\ NewestSnapshot
=============================================================================
