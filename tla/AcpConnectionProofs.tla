------------------------ MODULE AcpConnectionProofs ------------------------
(***************************************************************************)
(* Proofs about AcpConnection, AgentOffers, TerminalTasks, FormContent and *)
(* TerminalOutput: for any sets of prompts and other requests, any         *)
(* capacity of the writer's queue and number of updates; any programs of   *)
(* an agent and what they offer; any number of terminals, observed         *)
(* commands and waiters; any forms and what users send; any texts on any   *)
(* pipes, any snapshots and any limit of the buffer.                       *)
(*                                                                         *)
(* The output of a turn is recorded because one reader takes the lines of  *)
(* the agent in order, and no prompt is read before the replay is over:    *)
(* every update an answer covers is in the log or before it in the output. *)
(*                                                                         *)
(* No caller is left waiting because whoever fails the pending requests    *)
(* has cleared `connected` before: a request is in the map when it looks   *)
(* at the flag again, or has its failure already.                          *)
(***************************************************************************)
EXTENDS AcpConnection, AgentOffers, TerminalTasks, TerminalOutput, FormContent,
        SequenceTheorems, FiniteSetTheorems, WellFoundedInduction, TLAPS

LinkSpec == LinkInit /\ [][LinkNext]_linkVars

\* The session is opened before it is used, and the replay ends with its opening.
OpenedFirst ==
    /\ replaying => stage[Loader] \notin Over
    /\ \A c \in Call \ {Loader} : stage[c] # "idle" => stage[Loader] = "done"

\* The agent reads, and answers, only what somebody asked.
OnlyAsked ==
    /\ \A i \in DOMAIN queue : queue[i].what = "request" => stage[queue[i].call] # "idle"
    /\ \A c \in Call : asked[c] # Never => stage[c] # "idle"
    /\ \A i \in DOMAIN output : output[i].what = "answer" => stage[output[i].call] # "idle"

\* Update v is in the log, or in the output before place i.
Carried(v, i) ==
    \/ \E j \in DOMAIN rows : rows[j] = v
    \/ \E j \in DOMAIN output : j < i /\ output[j].what = "update" /\ output[j].version = v

\* While there is a reader, what a prompt being answered covers is carried ...
AskedCarried ==
    reader = "running" => \A c \in Prompt : asked[c] # Never =>
        \A v \in 1..MaxUpdate : asked[c] < v /\ v <= version => Carried(v, Len(output) + 1)

\* ... and so is what an answer covers.
AnswersCarried ==
    reader = "running" => \A i \in DOMAIN output :
        output[i].what = "answer" /\ output[i].call \in Prompt =>
            \A v \in 1..MaxUpdate :
                output[i].since < v /\ v <= output[i].version => Carried(v, i)

\* A prompt that succeeded has its output in the log.
AnsweredRecorded ==
    \A c \in Prompt : reply[c].is = "ok" =>
        \A v \in 1..MaxUpdate :
            reply[c].since < v /\ v <= reply[c].version => \E j \in DOMAIN rows : rows[j] = v

\* Who waits for an answer is in the map or has one, and nobody else is in it.
Entries ==
    \A c \in Call :
        /\ c \in pending => stage[c] \in {"inserted", "sending", "awaiting"}
        /\ stage[c] \in {"inserted", "sending", "awaiting"} => (c \in pending <=> reply[c] = Nothing)
        /\ stage[c] \in {"idle", "checked"} => reply[c] = Nothing

\* Everybody in the map has been failed: by the reader, or by the shutdown after it
\* aborted the reader.
Failed == closer = "done" \/ (reader = "ended" /\ closer # "aborted")

\* `connected` is cleared before, and who has looked at it since has its failure.
FlagFirst == reader \in {"closing", "ended"} \/ closer # "idle" => ~connected
NobodyForgotten ==
    Failed => \A c \in Call : stage[c] \in {"sending", "awaiting"} => reply[c] # Nothing

\* Only the shutdown leaves a reader that has not failed what is pending.
Aborted == closer \in {"aborted", "done"} => reader = "ended"

OrderInv == OpenedFirst /\ OnlyAsked /\ AskedCarried /\ AnswersCarried /\ AnsweredRecorded
WaitInv == Entries /\ FlagFirst /\ NobodyForgotten /\ Aborted
LinkInv == LinkTypeOK /\ OrderInv /\ WaitInv

USE AcpAssumption

-----------------------------------------------------------------------------
(* Lines and sequences.                                                    *)

LEMMA SequenceFacts ==
    ASSUME NEW S, NEW s \in Seq(S)
    PROVE  /\ Len(s) \in Nat /\ DOMAIN s = 1..Len(s)
           /\ \A i \in DOMAIN s : s[i] \in S
           /\ s # <<>> => /\ Len(s) \in Nat \ {0} /\ Head(s) = s[1] /\ Head(s) \in S
                          /\ 1 \in DOMAIN s
                          /\ Tail(s) \in Seq(S) /\ DOMAIN Tail(s) = 1..(Len(s) - 1)
                          /\ Len(Tail(s)) = Len(s) - 1
                          /\ \A i \in DOMAIN Tail(s) : Tail(s)[i] = s[i + 1] /\ i + 1 \in DOMAIN s
           /\ \A x \in S : /\ Append(s, x) \in Seq(S) /\ DOMAIN Append(s, x) = 1..(Len(s) + 1)
                           /\ Len(Append(s, x)) = Len(s) + 1
                           /\ Append(s, x)[Len(s) + 1] = x
                           /\ \A i \in DOMAIN s :
                                  Append(s, x)[i] = s[i] /\ i \in DOMAIN Append(s, x)
<1>1. Len(s) \in Nat /\ DOMAIN s = 1..Len(s) /\ \A i \in DOMAIN s : s[i] \in S
  BY LenProperties, ElementOfSeq
<1>2. ASSUME s # <<>>
      PROVE  /\ Len(s) \in Nat \ {0} /\ Head(s) = s[1] /\ Head(s) \in S
             /\ 1 \in DOMAIN s
             /\ Tail(s) \in Seq(S) /\ DOMAIN Tail(s) = 1..(Len(s) - 1)
             /\ Len(Tail(s)) = Len(s) - 1
             /\ \A i \in DOMAIN Tail(s) : Tail(s)[i] = s[i + 1] /\ i + 1 \in DOMAIN s
  BY <1>1, <1>2, HeadTailProperties, LenProperties
<1>3. ASSUME NEW x \in S
      PROVE  /\ Append(s, x) \in Seq(S) /\ DOMAIN Append(s, x) = 1..(Len(s) + 1)
             /\ Len(Append(s, x)) = Len(s) + 1
             /\ Append(s, x)[Len(s) + 1] = x
             /\ \A i \in DOMAIN s : Append(s, x)[i] = s[i] /\ i \in DOMAIN Append(s, x)
  BY <1>1, <1>3, AppendProperties, LenProperties
<1>. QED BY <1>1, <1>2, <1>3

\* What the writer's lines and the agent's are.
LEMMA LineKinds ==
    /\ \A x \in Line : /\ x.what \in {"request", "cancel", "shutdown"}
                       /\ x.what # "shutdown" => x.call \in Call
    /\ \A x \in Heard :
           /\ x.what \in {"answer", "update"}
           /\ x.what = "answer" => x \in Answer
           /\ x.what = "answer" =>
                  /\ x.call \in Call /\ x.version \in 0..MaxUpdate /\ x.since \in 0..MaxUpdate
           /\ x.what = "update" => x.version \in 1..MaxUpdate
    /\ \A c \in Call : /\ [what |-> "request", call |-> c] \in Line
                       /\ [what |-> "cancel", call |-> c] \in Line
    /\ [what |-> "shutdown"] \in Line
BY DEF Line, Heard, Answer

\* What an answer hands to its caller.
LEMMA Replies ==
    /\ Failure.is = "error" /\ Nothing.is = "nothing" /\ Failure # Nothing
    /\ \A x \in Answer : /\ Success(x) # Nothing /\ Success(x).is = "ok"
                         /\ Success(x).version = x.version /\ Success(x).since = x.since
BY DEF Failure, Nothing, Success

-----------------------------------------------------------------------------
(* Steps that leave the lines of the agent alone.                          *)

\* A step that changes neither the lines, nor the log, nor starts a reader.
LEMMA OrderKept ==
    ASSUME OrderInv, UNCHANGED <<asked, output, version, rows>>,
           reader' = "running" => reader = "running",
           \A c \in Prompt : reply'[c] = reply[c] \/ reply'[c].is # "ok"
    PROVE  AskedCarried' /\ AnswersCarried' /\ AnsweredRecorded'
<1>1. AskedCarried' /\ AnswersCarried'
  BY DEF OrderInv, AskedCarried, AnswersCarried, Carried
<1>2. AnsweredRecorded'
  BY DEF OrderInv, AnsweredRecorded
<1>. QED BY <1>1, <1>2

\* A step that takes nobody back to the start, and asks nothing new.
LEMMA AskedKept ==
    ASSUME OrderInv, UNCHANGED <<queue, asked, output>>,
           \A c \in Call : stage'[c] = "idle" => stage[c] = "idle",
           LinkTypeOK
    PROVE  OnlyAsked'
<1>1. \A i \in DOMAIN queue : queue[i].what = "request" => queue[i].call \in Call
  BY SequenceFacts, LineKinds DEF LinkTypeOK
<1>2. \A i \in DOMAIN output : output[i].what = "answer" => output[i].call \in Call
  BY SequenceFacts, LineKinds DEF LinkTypeOK
<1>. QED BY <1>1, <1>2 DEF OrderInv, OnlyAsked

\* A step of a caller that leaves the queue alone.
CallerMoves(c) ==
    /\ stage[c] # "idle" /\ stage'[c] # "idle"
    /\ \A d \in Call \ {c} : stage'[d] = stage[d] /\ reply'[d] = reply[d]
                             /\ (d \in pending' <=> d \in pending)

LEMMA CallerOpened ==
    ASSUME LinkInv, NEW c \in Call, CallerMoves(c), stage[c] # "done", stage'[c] # "done",
           UNCHANGED replaying
    PROVE  OpenedFirst'
<1>1. stage'[Loader] \in Over => stage[Loader] \in Over
  BY DEF CallerMoves, Call, Over
<1>2. stage[Loader] = "done" => stage'[Loader] = "done"
  BY DEF CallerMoves, Call
<1>3. \A d \in Call \ {Loader} : stage'[d] # "idle" => stage[d] # "idle"
  BY DEF CallerMoves
<1>. QED BY <1>1, <1>2, <1>3 DEF LinkInv, OrderInv, OpenedFirst

LEMMA BeginKeeps ==
    ASSUME LinkInv, NEW c \in Call, BeginCall(c)
    PROVE  LinkInv'
<1>1. LinkTypeOK'
  BY DEF BeginCall, Goes, LinkInv, LinkTypeOK, tasks, process
<1>2. OpenedFirst'
  BY DEF BeginCall, Goes, LinkInv, LinkTypeOK, OrderInv, OpenedFirst, Over, Call
<1>3. OnlyAsked'
  BY AskedKept DEF BeginCall, Goes, LinkInv, LinkTypeOK, tasks, process
<1>4. AskedCarried' /\ AnswersCarried' /\ AnsweredRecorded'
  BY OrderKept, Replies DEF BeginCall, LinkInv, LinkTypeOK, tasks, process, Call
<1>5. Entries'
  BY Replies DEF BeginCall, Goes, LinkInv, LinkTypeOK, WaitInv, Entries
<1>6. FlagFirst' /\ Aborted'
  BY DEF BeginCall, LinkInv, WaitInv, FlagFirst, Aborted, tasks
<1>7. NobodyForgotten'
  BY Replies DEF BeginCall, Goes, LinkInv, LinkTypeOK, WaitInv, NobodyForgotten, Failed, tasks
<1>. QED BY <1>1, <1>2, <1>3, <1>4, <1>5, <1>6, <1>7 DEF LinkInv, OrderInv, WaitInv

\* The steps of a caller that is waiting and does not go into the queue.
LEMMA InsertKeeps ==
    ASSUME LinkInv, NEW c \in Call, InsertPending(c)
    PROVE  LinkInv'
<1>1. LinkTypeOK'
  BY DEF InsertPending, Goes, LinkInv, LinkTypeOK, tasks, process, memory
<1>2. OpenedFirst'
  BY CallerOpened DEF InsertPending, Goes, LinkInv, LinkTypeOK, CallerMoves, memory
<1>3. OnlyAsked'
  BY AskedKept DEF InsertPending, Goes, LinkInv, LinkTypeOK, tasks, process
<1>4. AskedCarried' /\ AnswersCarried' /\ AnsweredRecorded'
  BY OrderKept DEF InsertPending, LinkInv, tasks, process, memory
<1>5. Entries'
  BY DEF InsertPending, Goes, LinkInv, LinkTypeOK, WaitInv, Entries
<1>6. FlagFirst' /\ Aborted'
  BY DEF InsertPending, LinkInv, WaitInv, FlagFirst, Aborted, tasks
<1>7. NobodyForgotten'
  BY DEF InsertPending, Goes, LinkInv, LinkTypeOK, WaitInv, NobodyForgotten, Failed, tasks
<1>. QED BY <1>1, <1>2, <1>3, <1>4, <1>5, <1>6, <1>7 DEF LinkInv, OrderInv, WaitInv

LEMMA LookKeeps ==
    ASSUME LinkInv, NEW c \in Call, LookAgain(c)
    PROVE  LinkInv'
<1>1. LinkTypeOK'
  BY DEF LookAgain, Goes, LinkInv, LinkTypeOK, tasks, process, memory
<1>2. OpenedFirst'
  BY CallerOpened DEF LookAgain, Goes, LinkInv, LinkTypeOK, CallerMoves, memory
<1>3. OnlyAsked'
  BY AskedKept DEF LookAgain, Goes, LinkInv, LinkTypeOK, tasks, process
<1>4. AskedCarried' /\ AnswersCarried' /\ AnsweredRecorded'
  BY OrderKept, Replies DEF LookAgain, LinkInv, LinkTypeOK, tasks, process, memory, Call
<1>5. Entries'
  BY Replies DEF LookAgain, Goes, LinkInv, LinkTypeOK, WaitInv, Entries
<1>6. FlagFirst' /\ Aborted'
  BY DEF LookAgain, LinkInv, WaitInv, FlagFirst, Aborted, tasks
<1>7. NobodyForgotten'
  <2>1. connected => ~Failed'
    BY DEF LookAgain, LinkInv, LinkTypeOK, WaitInv, FlagFirst, Aborted, Failed, tasks
  <2>2. Failed' = Failed
    BY DEF LookAgain, Failed, tasks
  <2>3. CASE connected
    BY <2>1, <2>3 DEF NobodyForgotten
  <2>4. CASE ~connected
    BY <2>2, <2>4 DEF LookAgain, Goes, LinkInv, LinkTypeOK, WaitInv, NobodyForgotten
  <2>. QED BY <2>3, <2>4
<1>. QED BY <1>1, <1>2, <1>3, <1>4, <1>5, <1>6, <1>7 DEF LinkInv, OrderInv, WaitInv

LEMMA TakeKeeps ==
    ASSUME LinkInv, NEW c \in Call, TakeReply(c) \/ Deadline(c)
    PROVE  LinkInv'
<1>. USE DEF TakeReply, Deadline
<1>1. LinkTypeOK'
  <2>1. LinkTypeOK
    BY DEF LinkInv
  <2>2. stage' \in [Call -> {"idle", "checked", "inserted", "sending", "awaiting",
                             "cancelling", "returned", "done"}]
        /\ pending' \in SUBSET Call
    BY <2>1 DEF Goes, LinkTypeOK
  <2>3. UNCHANGED <<reply, tasks, closer, process, memory>>
    OBVIOUS
  <2>. QED BY <2>1, <2>2, <2>3 DEF LinkTypeOK, tasks, process, memory
<1>2. OpenedFirst'
  BY CallerOpened DEF Goes, LinkInv, LinkTypeOK, CallerMoves, memory
<1>3. OnlyAsked'
  BY AskedKept DEF Goes, LinkInv, LinkTypeOK, tasks, process
<1>4. AskedCarried' /\ AnswersCarried' /\ AnsweredRecorded'
  BY OrderKept DEF LinkInv, tasks, process, memory
<1>5. Entries'
  BY DEF Goes, LinkInv, LinkTypeOK, WaitInv, Entries
<1>6. FlagFirst' /\ Aborted'
  BY DEF LinkInv, WaitInv, FlagFirst, Aborted, tasks
<1>7. NobodyForgotten'
  BY DEF Goes, LinkInv, LinkTypeOK, WaitInv, NobodyForgotten, Failed, tasks
<1>. QED BY <1>1, <1>2, <1>3, <1>4, <1>5, <1>6, <1>7 DEF LinkInv, OrderInv, WaitInv

LEMMA FinishKeeps ==
    ASSUME LinkInv, NEW c \in Call, FinishCall(c)
    PROVE  LinkInv'
<1>. USE DEF FinishCall, ReplayEnds
<1>1. LinkTypeOK'
  BY DEF Goes, LinkInv, LinkTypeOK, tasks, process, memory
<1>2. OpenedFirst'
  BY DEF Goes, LinkInv, LinkTypeOK, OrderInv, OpenedFirst, Over, Call
<1>3. OnlyAsked'
  BY AskedKept DEF Goes, LinkInv, LinkTypeOK, tasks, process
<1>4. AskedCarried' /\ AnswersCarried' /\ AnsweredRecorded'
  BY OrderKept DEF LinkInv, tasks, process
<1>5. Entries'
  BY DEF Goes, LinkInv, LinkTypeOK, WaitInv, Entries
<1>6. FlagFirst' /\ Aborted'
  BY DEF LinkInv, WaitInv, FlagFirst, Aborted, tasks
<1>7. NobodyForgotten'
  BY DEF Goes, LinkInv, LinkTypeOK, WaitInv, NobodyForgotten, Failed, tasks
<1>. QED BY <1>1, <1>2, <1>3, <1>4, <1>5, <1>6, <1>7 DEF LinkInv, OrderInv, WaitInv

-----------------------------------------------------------------------------
(* The writer's queue.                                                     *)

\* A line more, which asks for somebody who has begun.
LEMMA QueueGrows ==
    ASSUME LinkInv, NEW x \in Line, queue' = Append(queue, x), Len(queue) < QueueLimit,
           x.what = "request" => stage'[x.call] # "idle",
           \A c \in Call : stage'[c] = "idle" => stage[c] = "idle",
           UNCHANGED <<asked, output>>
    PROVE  OnlyAsked' /\ queue' \in Seq(Line) /\ Len(queue') <= QueueLimit
<1>1. queue \in Seq(Line) /\ output \in Seq(Heard)
  BY DEF LinkInv, LinkTypeOK
<1>2. /\ queue' \in Seq(Line) /\ Len(queue') = Len(queue) + 1 /\ Len(queue) \in Nat
      /\ DOMAIN queue = 1..Len(queue) /\ DOMAIN queue' = 1..(Len(queue) + 1)
      /\ queue'[Len(queue) + 1] = x /\ \A i \in DOMAIN queue : queue'[i] = queue[i]
  BY <1>1, SequenceFacts
<1>3. Len(queue') <= QueueLimit
  BY <1>2
<1>4. \A i \in DOMAIN queue : queue[i].what = "request" => queue[i].call \in Call
  BY <1>1, SequenceFacts, LineKinds
<1>5. ASSUME NEW i \in DOMAIN queue', queue'[i].what = "request"
      PROVE  stage'[queue'[i].call] # "idle"
  <2>1. CASE i = Len(queue) + 1
    BY <1>2, <1>5, <2>1
  <2>2. CASE i # Len(queue) + 1
    <3>1. i \in DOMAIN queue /\ queue'[i] = queue[i]
      BY <1>2, <2>2
    <3>. QED BY <1>4, <1>5, <3>1 DEF LinkInv, OrderInv, OnlyAsked
  <2>. QED BY <2>1, <2>2
<1>6. \A i \in DOMAIN output : output[i].what = "answer" => output[i].call \in Call
  BY <1>1, SequenceFacts, LineKinds
<1>7. OnlyAsked'
  BY <1>5, <1>6 DEF LinkInv, OrderInv, OnlyAsked
<1>. QED BY <1>2, <1>3, <1>7

LEMMA EnqueueKeeps ==
    ASSUME LinkInv, NEW c \in Call, EnqueueCall(c)
    PROVE  LinkInv'
<1>. USE DEF EnqueueCall
<1>1. CASE Room /\ queue' = Append(queue, [what |-> "request", call |-> c])
           /\ Goes(c, "awaiting") /\ UNCHANGED <<pending, reply>>
  <2>1. OnlyAsked' /\ queue' \in Seq(Line) /\ Len(queue') <= QueueLimit
    BY <1>1, QueueGrows, LineKinds DEF Goes, Room, LinkInv, LinkTypeOK, process
  <2>2. LinkTypeOK'
    BY <1>1, <2>1 DEF Goes, LinkInv, LinkTypeOK, process, memory
  <2>3. OpenedFirst'
    BY <1>1, CallerOpened DEF Goes, LinkInv, LinkTypeOK, CallerMoves, memory
  <2>4. AskedCarried' /\ AnswersCarried' /\ AnsweredRecorded'
    BY <1>1, OrderKept DEF LinkInv, process, memory
  <2>5. Entries'
    BY <1>1 DEF Goes, LinkInv, LinkTypeOK, WaitInv, Entries
  <2>6. FlagFirst' /\ Aborted'
    BY <1>1 DEF LinkInv, WaitInv, FlagFirst, Aborted
  <2>7. NobodyForgotten'
    BY <1>1 DEF Goes, LinkInv, LinkTypeOK, WaitInv, NobodyForgotten, Failed
  <2>. QED BY <2>1, <2>2, <2>3, <2>4, <2>5, <2>6, <2>7 DEF LinkInv, OrderInv, WaitInv
<1>2. CASE /\ writer = "ended" /\ pending' = pending \ {c}
           /\ reply' = [reply EXCEPT ![c] = Failure]
           /\ Goes(c, "returned") /\ UNCHANGED queue
  <2>1. LinkTypeOK'
    BY <1>2 DEF Goes, LinkInv, LinkTypeOK, process, memory
  <2>2. OnlyAsked'
    BY <1>2, AskedKept DEF Goes, LinkInv, LinkTypeOK, process
  <2>3. OpenedFirst'
    BY <1>2, CallerOpened DEF Goes, LinkInv, LinkTypeOK, CallerMoves, memory
  <2>4. AskedCarried' /\ AnswersCarried' /\ AnsweredRecorded'
    BY <1>2, OrderKept, Replies DEF LinkInv, LinkTypeOK, process, memory, Call
  <2>5. Entries'
    BY <1>2, Replies DEF Goes, LinkInv, LinkTypeOK, WaitInv, Entries
  <2>6. FlagFirst' /\ Aborted'
    BY <1>2 DEF LinkInv, WaitInv, FlagFirst, Aborted
  <2>7. NobodyForgotten'
    BY <1>2 DEF Goes, LinkInv, LinkTypeOK, WaitInv, NobodyForgotten, Failed
  <2>. QED BY <2>1, <2>2, <2>3, <2>4, <2>5, <2>6, <2>7 DEF LinkInv, OrderInv, WaitInv
<1>. QED BY <1>1, <1>2

LEMMA CancelKeeps ==
    ASSUME LinkInv, NEW c \in Call, CancelCall(c)
    PROVE  LinkInv'
<1>. USE DEF CancelCall
<1>1. OnlyAsked' /\ queue' \in Seq(Line) /\ Len(queue') <= QueueLimit
  <2>1. CASE Room /\ queue' = Append(queue, [what |-> "cancel", call |-> c])
    BY <2>1, QueueGrows, LineKinds DEF Goes, Room, LinkInv, LinkTypeOK, process
  <2>2. CASE UNCHANGED queue
    BY <2>2, AskedKept DEF Goes, LinkInv, LinkTypeOK, process
  <2>. QED BY <2>1, <2>2
<1>2. LinkTypeOK'
  BY <1>1 DEF Goes, LinkInv, LinkTypeOK, process, memory
<1>3. OpenedFirst'
  BY CallerOpened DEF Goes, LinkInv, LinkTypeOK, CallerMoves, memory
<1>4. AskedCarried' /\ AnswersCarried' /\ AnsweredRecorded'
  BY OrderKept, Replies DEF LinkInv, LinkTypeOK, process, memory, Call
<1>5. Entries'
  BY Replies DEF Goes, LinkInv, LinkTypeOK, WaitInv, Entries
<1>6. FlagFirst' /\ Aborted'
  BY DEF LinkInv, WaitInv, FlagFirst, Aborted
<1>7. NobodyForgotten'
  BY DEF Goes, LinkInv, LinkTypeOK, WaitInv, NobodyForgotten, Failed
<1>. QED BY <1>1, <1>2, <1>3, <1>4, <1>5, <1>6, <1>7 DEF LinkInv, OrderInv, WaitInv

\* What nobody's request or answer is part of.
LEMMA WaitKept ==
    ASSUME LinkInv, UNCHANGED <<stage, pending, reply>>,
           Failed' => Failed, FlagFirst', Aborted'
    PROVE  WaitInv'
BY DEF LinkInv, WaitInv, Entries, NobodyForgotten

\* The agent reads a prompt: it covers the updates that come from now on.
LEMMA WriteKeeps ==
    ASSUME LinkInv, WriteLine
    PROVE  LinkInv'
<1>. USE DEF WriteLine
<1>1. /\ queue \in Seq(Line) /\ queue # <<>> /\ output \in Seq(Heard)
      /\ version \in 0..MaxUpdate
  BY DEF LinkInv, LinkTypeOK
<1>2. /\ Head(queue) = queue[1] /\ Head(queue) \in Line /\ 1 \in DOMAIN queue
      /\ Tail(queue) \in Seq(Line) /\ Len(Tail(queue)) = Len(queue) - 1 /\ Len(queue) \in Nat
      /\ \A i \in DOMAIN Tail(queue) : Tail(queue)[i] = queue[i + 1] /\ i + 1 \in DOMAIN queue
  BY <1>1, SequenceFacts
<1>3. asked' = asked \/ /\ Head(queue).what = "request" /\ Head(queue).call \in Call
                        /\ asked' = [asked EXCEPT ![Head(queue).call] = version]
  BY <1>2, LineKinds
<1>4. LinkTypeOK'
  <2>1. queue' \in Seq(Line) /\ Len(queue') <= QueueLimit
    BY <1>2 DEF LinkInv, LinkTypeOK
  <2>2. asked' \in [Call -> 0..Never]
    <3>1. version \in 0..Never
      BY <1>1 DEF Never
    <3>. QED BY <1>3, <3>1 DEF LinkInv, LinkTypeOK
  <2>3. writer' \in {"running", "ended"} /\ connected' \in BOOLEAN
        /\ agent' \in {"running", "stalled", "dead"}
    BY DEF KillChild, LinkInv, LinkTypeOK
  <2>. QED BY <2>1, <2>2, <2>3 DEF LinkInv, LinkTypeOK, callers, memory
<1>5. OpenedFirst'
  BY DEF LinkInv, OrderInv, OpenedFirst, callers, memory
<1>6. OnlyAsked'
  <2>1. \A i \in DOMAIN queue' : queue'[i].what = "request" => stage'[queue'[i].call] # "idle"
    BY <1>2 DEF LinkInv, OrderInv, OnlyAsked, callers
  <2>2. \A c \in Call : asked'[c] # Never => stage'[c] # "idle"
    <3>1. Head(queue).what = "request" => stage[Head(queue).call] # "idle"
      BY <1>2 DEF LinkInv, OrderInv, OnlyAsked
    <3>. QED BY <1>3, <3>1 DEF LinkInv, LinkTypeOK, OrderInv, OnlyAsked, callers
  <2>. QED BY <2>1, <2>2 DEF LinkInv, OrderInv, OnlyAsked, callers
<1>7. AskedCarried'
  <2>. SUFFICES ASSUME reader = "running", NEW c \in Prompt, asked'[c] # Never,
                       NEW v \in 1..MaxUpdate, asked'[c] < v, v <= version
                PROVE  Carried(v, Len(output) + 1)
    BY DEF AskedCarried, Carried, memory
  <2>1. c \in Call /\ asked \in [Call -> 0..Never]
    BY DEF Call, LinkInv, LinkTypeOK
  <2>2. asked'[c] # version
    BY <1>1
  <2>3. asked'[c] = asked[c]
    BY <1>3, <2>1, <2>2
  <2>. QED BY <2>3 DEF LinkInv, OrderInv, AskedCarried
<1>8. AnswersCarried' /\ AnsweredRecorded'
  BY DEF LinkInv, OrderInv, AnswersCarried, AnsweredRecorded, Carried, callers, memory
<1>9. WaitInv'
  <2>1. connected' => connected
    BY DEF LinkInv, LinkTypeOK
  <2>2. FlagFirst' /\ Aborted' /\ (Failed' => Failed)
    BY <2>1 DEF LinkInv, LinkTypeOK, WaitInv, FlagFirst, Aborted, Failed
  <2>. QED BY <2>2, WaitKept DEF callers
<1>. QED BY <1>4, <1>5, <1>6, <1>7, <1>8, <1>9 DEF LinkInv, OrderInv

-----------------------------------------------------------------------------
(* The agent.                                                              *)

\* A line more of the agent carries what was carried.
LEMMA OutputGrows ==
    ASSUME LinkInv, NEW x \in Heard, output' = Append(output, x), rows' = rows
    PROVE  /\ output' \in Seq(Heard) /\ DOMAIN output' = 1..(Len(output) + 1)
           /\ DOMAIN output = 1..Len(output) /\ Len(output) \in Nat
           /\ Len(output') = Len(output) + 1 /\ output'[Len(output) + 1] = x
           /\ \A i \in DOMAIN output : output'[i] = output[i]
           /\ \A v, i : Carried(v, i) => Carried(v, i)'
<1>1. output \in Seq(Heard)
  BY DEF LinkInv, LinkTypeOK
<1>2. /\ output' \in Seq(Heard) /\ DOMAIN output' = 1..(Len(output) + 1)
      /\ DOMAIN output = 1..Len(output) /\ Len(output) \in Nat
      /\ Len(output') = Len(output) + 1 /\ output'[Len(output) + 1] = x
      /\ \A i \in DOMAIN output : output'[i] = output[i] /\ i \in DOMAIN output'
  BY <1>1, SequenceFacts
<1>3. \A v, i : Carried(v, i) => Carried(v, i)'
  BY <1>2 DEF Carried
<1>. QED BY <1>2, <1>3

\* The agent answers: it covers what it said after it read the prompt.
LEMMA AnswerKeeps ==
    ASSUME LinkInv, NEW c \in Call, AgentAnswers(c)
    PROVE  LinkInv'
<1>. DEFINE x == [what |-> "answer", call |-> c, version |-> version, since |-> asked[c]]
<1>. USE DEF AgentAnswers, Says
<1>1. asked[c] \in 0..MaxUpdate /\ version \in 0..MaxUpdate
  BY DEF LinkInv, LinkTypeOK, Never
<1>2. x \in Heard /\ x.what = "answer" /\ x.call = c /\ x.version = version /\ x.since = asked[c]
  BY <1>1 DEF Heard, Answer
<1>3. output' = Append(output, x) /\ rows' = rows
  BY DEF memory
<1>. HIDE DEF x
<1>4. /\ output' \in Seq(Heard) /\ DOMAIN output' = 1..(Len(output) + 1)
      /\ DOMAIN output = 1..Len(output) /\ Len(output) \in Nat
      /\ Len(output') = Len(output) + 1 /\ output'[Len(output) + 1] = x
      /\ \A i \in DOMAIN output : output'[i] = output[i]
  BY <1>2, <1>3, OutputGrows
<1>5. \A v, i : Carried(v, i) => Carried(v, i)'
  BY <1>2, <1>3, OutputGrows
<1>6. LinkTypeOK'
  <2>1. asked' \in [Call -> 0..Never]
    BY DEF LinkInv, LinkTypeOK, Never
  <2>. QED BY <1>4, <2>1 DEF LinkInv, LinkTypeOK, callers, tasks, memory
<1>7. OpenedFirst'
  BY DEF LinkInv, OrderInv, OpenedFirst, callers, memory
<1>8. OnlyAsked'
  <2>1. stage[c] # "idle"
    BY DEF LinkInv, OrderInv, OnlyAsked
  <2>2. \A d \in Call : asked'[d] # Never => asked[d] # Never
    BY DEF LinkInv, LinkTypeOK
  <2>3. ASSUME NEW i \in DOMAIN output', output'[i].what = "answer"
        PROVE  stage[output'[i].call] # "idle"
    <3>1. CASE i = Len(output) + 1
      BY <1>2, <1>4, <2>1, <3>1
    <3>2. CASE i \in DOMAIN output
      BY <1>4, <2>3, <3>2 DEF LinkInv, OrderInv, OnlyAsked
    <3>. QED BY <1>4, <3>1, <3>2
  <2>. QED BY <2>2, <2>3 DEF LinkInv, OrderInv, OnlyAsked, callers, tasks
<1>9. AskedCarried'
  <2>. SUFFICES ASSUME reader = "running", NEW d \in Prompt, asked'[d] # Never,
                       NEW v \in 1..MaxUpdate, asked'[d] < v, v <= version
                PROVE  Carried(v, Len(output) + 1)'
    BY DEF AskedCarried, tasks
  <2>1. d \in Call /\ d # c /\ asked'[d] = asked[d]
    BY DEF Call, LinkInv, LinkTypeOK
  <2>2. Carried(v, Len(output) + 1)
    BY <2>1 DEF LinkInv, OrderInv, AskedCarried
  <2>. QED BY <1>4, <2>2 DEF Carried, memory
<1>10. AnswersCarried'
  <2>. SUFFICES ASSUME reader = "running", NEW i \in DOMAIN output', output'[i].what = "answer",
                       output'[i].call \in Prompt, NEW v \in 1..MaxUpdate,
                       output'[i].since < v, v <= output'[i].version
                PROVE  Carried(v, i)'
    BY DEF AnswersCarried, tasks
  <2>1. CASE i = Len(output) + 1
    <3>1. c \in Prompt /\ asked[c] # Never /\ asked[c] < v /\ v <= version
      BY <1>2, <1>4, <2>1
    <3>2. Carried(v, Len(output) + 1)
      BY <3>1 DEF LinkInv, OrderInv, AskedCarried
    <3>. QED BY <1>5, <2>1, <3>2
  <2>2. CASE i \in DOMAIN output
    <3>1. Carried(v, i)
      BY <1>4, <2>2 DEF LinkInv, OrderInv, AnswersCarried
    <3>. QED BY <1>5, <3>1
  <2>. QED BY <1>4, <2>1, <2>2
<1>11. AnsweredRecorded'
  BY DEF LinkInv, OrderInv, AnsweredRecorded, callers, memory
<1>12. WaitInv'
  BY WaitKept DEF LinkInv, WaitInv, FlagFirst, Aborted, Failed, callers, tasks
<1>. QED BY <1>6, <1>7, <1>8, <1>9, <1>10, <1>11, <1>12 DEF LinkInv, OrderInv

\* The agent reports: what is asked covers one more update, the last line.
LEMMA UpdateKeeps ==
    ASSUME LinkInv, AgentUpdates
    PROVE  LinkInv'
<1>. DEFINE x == [what |-> "update", version |-> version']
<1>. USE DEF AgentUpdates, Says
<1>1. version \in 0..MaxUpdate /\ version' = version + 1 /\ version' \in 1..MaxUpdate
  BY DEF LinkInv, LinkTypeOK
<1>2. x \in Heard /\ x.what = "update" /\ x.version = version + 1
  BY <1>1 DEF Heard
<1>3. output' = Append(output, x) /\ rows' = rows
  BY DEF memory
<1>. HIDE DEF x
<1>4. /\ output' \in Seq(Heard) /\ DOMAIN output' = 1..(Len(output) + 1)
      /\ DOMAIN output = 1..Len(output) /\ Len(output) \in Nat
      /\ Len(output') = Len(output) + 1 /\ output'[Len(output) + 1] = x
      /\ \A i \in DOMAIN output : output'[i] = output[i]
  BY <1>2, <1>3, OutputGrows
<1>5. \A v, i : Carried(v, i) => Carried(v, i)'
  BY <1>2, <1>3, OutputGrows
<1>6. LinkTypeOK'
  BY <1>1, <1>4 DEF LinkInv, LinkTypeOK, callers, tasks, memory
<1>7. OpenedFirst'
  BY DEF LinkInv, OrderInv, OpenedFirst, callers, memory
<1>8. OnlyAsked'
  <2>1. ASSUME NEW i \in DOMAIN output', output'[i].what = "answer"
        PROVE  stage[output'[i].call] # "idle"
    <3>1. i # Len(output) + 1
      BY <1>2, <1>4, <2>1
    <3>. QED BY <1>4, <2>1, <3>1 DEF LinkInv, OrderInv, OnlyAsked
  <2>. QED BY <2>1 DEF LinkInv, OrderInv, OnlyAsked, callers, tasks
<1>9. AskedCarried'
  <2>. SUFFICES ASSUME reader = "running", NEW d \in Prompt, asked[d] # Never,
                       NEW v \in 1..MaxUpdate, asked[d] < v, v <= version + 1
                PROVE  Carried(v, Len(output) + 1)'
    BY <1>1 DEF AskedCarried, tasks
  <2>1. CASE v = version + 1
    BY <1>2, <1>4, <2>1 DEF Carried
  <2>2. CASE v <= version
    <3>1. Carried(v, Len(output) + 1)
      BY <2>2 DEF LinkInv, OrderInv, AskedCarried
    <3>. QED BY <1>4, <3>1 DEF Carried, memory
  <2>. QED BY <1>1, <2>1, <2>2
<1>10. AnswersCarried'
  <2>. SUFFICES ASSUME reader = "running", NEW i \in DOMAIN output', output'[i].what = "answer",
                       output'[i].call \in Prompt, NEW v \in 1..MaxUpdate,
                       output'[i].since < v, v <= output'[i].version
                PROVE  Carried(v, i)'
    BY DEF AnswersCarried, tasks
  <2>1. i \in DOMAIN output
    BY <1>2, <1>4
  <2>2. Carried(v, i)
    BY <1>4, <2>1 DEF LinkInv, OrderInv, AnswersCarried
  <2>. QED BY <1>5, <2>2
<1>11. AnsweredRecorded'
  BY DEF LinkInv, OrderInv, AnsweredRecorded, callers, memory
<1>12. WaitInv'
  BY WaitKept DEF LinkInv, WaitInv, FlagFirst, Aborted, Failed, callers, tasks
<1>. QED BY <1>6, <1>7, <1>8, <1>9, <1>10, <1>11, <1>12 DEF LinkInv, OrderInv

\* Steps that change the process, the flag or the tasks, and no line of the agent.
LEMMA QuietStep ==
    ASSUME LinkInv, LinkTypeOK', UNCHANGED <<stage, pending, reply, queue, asked, output,
                                              version, replaying, rows>>,
           reader' = "running" => reader = "running",
           Failed' => Failed, FlagFirst', Aborted'
    PROVE  LinkInv'
<1>1. OpenedFirst'
  BY DEF LinkInv, OrderInv, OpenedFirst
<1>2. OnlyAsked'
  BY DEF LinkInv, OrderInv, OnlyAsked
<1>3. AskedCarried' /\ AnswersCarried' /\ AnsweredRecorded'
  BY OrderKept DEF LinkInv
<1>4. WaitInv'
  BY WaitKept
<1>. QED BY <1>1, <1>2, <1>3, <1>4 DEF LinkInv, OrderInv

LEMMA ProcessKeeps ==
    ASSUME LinkInv, AgentStalls \/ AgentDies \/ SeeExit \/ Terminate
    PROVE  LinkInv'
<1>. USE DEF AgentStalls, AgentDies, SeeExit, Terminate, KillChild, callers, tasks, process,
             memory
<1>1. UNCHANGED <<stage, pending, reply, queue, asked, output, version, replaying, rows,
                  reader, closer, writer>>
  OBVIOUS
<1>2. connected' = connected \/ connected' = FALSE
  BY Zenon
<1>3. connected' \in BOOLEAN /\ (connected' => connected)
  <2>1. connected \in BOOLEAN
    BY DEF LinkInv, LinkTypeOK
  <2>2. CASE connected' = connected
    BY <2>1, <2>2
  <2>3. CASE connected' = FALSE
    BY <2>3
  <2>. QED BY <1>2, <2>2, <2>3
<1>4. agent' \in {"running", "stalled", "dead"}
  BY DEF LinkInv, LinkTypeOK
<1>5. LinkTypeOK'
  BY <1>1, <1>3, <1>4 DEF LinkInv, LinkTypeOK
<1>6. FlagFirst' /\ Aborted' /\ (Failed' => Failed)
  BY <1>1, <1>3 DEF LinkInv, WaitInv, FlagFirst, Aborted, Failed
<1>. QED BY <1>1, <1>5, <1>6, QuietStep

LEMMA StopsKeeps ==
    ASSUME LinkInv, ReaderStops \/ ShutKill \/ ShutAbort
    PROVE  LinkInv'
<1>. USE DEF ReaderStops, ShutKill, ShutAbort, KillChild, callers, tasks, process, memory
<1>1. UNCHANGED <<stage, pending, reply, queue, asked, output, version, replaying, rows>>
      /\ (reader' = "running" => reader = "running")
  OBVIOUS
<1>2. /\ connected' \in BOOLEAN /\ agent' \in {"running", "stalled", "dead"}
      /\ writer' \in {"running", "ended"} /\ reader' \in {"running", "ending", "closing", "ended"}
      /\ closer' \in {"idle", "flagged", "killed", "aborted", "done"}
  BY DEF LinkInv, LinkTypeOK
<1>3. LinkTypeOK'
  BY <1>1, <1>2 DEF LinkInv, LinkTypeOK
<1>4. FlagFirst' /\ Aborted' /\ (Failed' => Failed)
  BY DEF LinkInv, LinkTypeOK, WaitInv, FlagFirst, Aborted, Failed
<1>. QED BY <1>1, <1>3, <1>4, QuietStep

-----------------------------------------------------------------------------
(* The reader.                                                             *)

\* What is left of the output carries what it did, but for the line taken.
LEMMA OutputShrinks ==
    ASSUME LinkInv, output # <<>>, output' = Tail(output)
    PROVE  /\ output' \in Seq(Heard) /\ Len(output') = Len(output) - 1
           /\ Len(output) \in Nat /\ DOMAIN output = 1..Len(output)
           /\ 1 \in DOMAIN output /\ Head(output) = output[1] /\ Head(output) \in Heard
           /\ DOMAIN output' = 1..(Len(output) - 1)
           /\ \A i \in DOMAIN output' : output'[i] = output[i + 1] /\ i + 1 \in DOMAIN output
<1>1. output \in Seq(Heard)
  BY DEF LinkInv, LinkTypeOK
<1>. QED BY <1>1, SequenceFacts

LEMMA CarriedShrinks ==
    ASSUME LinkInv, output # <<>>, output' = Tail(output), NEW i \in Nat, NEW v, Carried(v, i + 1),
           \A j \in DOMAIN rows : j \in DOMAIN rows' /\ rows'[j] = rows[j],
           Head(output).what = "update" => \E j \in DOMAIN rows' : rows'[j] = Head(output).version
    PROVE  Carried(v, i)'
<1>1. CASE \E j \in DOMAIN rows : rows[j] = v
  BY <1>1 DEF Carried
<1>2. ASSUME NEW j \in DOMAIN output, j < i + 1, output[j].what = "update", output[j].version = v
      PROVE  Carried(v, i)'
  <2>1. CASE j = 1
    BY <1>2, <2>1, OutputShrinks DEF Carried
  <2>2. CASE j # 1
    <3>1. /\ j - 1 \in 1..(Len(output) - 1) /\ j - 1 < i
      BY <1>2, <2>2, OutputShrinks
    <3>2. j - 1 \in DOMAIN output' /\ output'[j - 1] = output[j]
      <4>1. j - 1 \in DOMAIN output' /\ output'[j - 1] = output[(j - 1) + 1]
        BY <3>1, OutputShrinks
      <4>2. (j - 1) + 1 = j
        BY OutputShrinks
      <4>. QED BY <4>1, <4>2
    <3>. QED BY <1>2, <3>1, <3>2 DEF Carried
  <2>. QED BY <2>1, <2>2
<1>. QED BY <1>1, <1>2 DEF Carried

\* The parts that follow from the line taken, whatever it was.
LEMMA ReadKeepsOrder ==
    ASSUME LinkInv, output # <<>>, output' = Tail(output), UNCHANGED <<stage, asked, queue, version>>,
           reader' = "running" =>
               /\ reader = "running"
               /\ \/ \A c \in Prompt : stage[c] = "idle"
                  \/ /\ \A j \in DOMAIN rows : j \in DOMAIN rows' /\ rows'[j] = rows[j]
                     /\ Head(output).what = "update" =>
                            \E j \in DOMAIN rows' : rows'[j] = Head(output).version
    PROVE  OnlyAsked' /\ AskedCarried' /\ AnswersCarried'
<1>1. /\ output' \in Seq(Heard) /\ Len(output') = Len(output) - 1
      /\ Len(output) \in Nat \ {0} /\ DOMAIN output' = 1..(Len(output) - 1)
      /\ \A i \in DOMAIN output' : output'[i] = output[i + 1] /\ i + 1 \in DOMAIN output
                                   /\ i \in Nat
  BY OutputShrinks
<1>2. OnlyAsked'
  BY <1>1 DEF LinkInv, OrderInv, OnlyAsked
<1>3. AskedCarried'
  <2>. SUFFICES ASSUME reader' = "running", NEW c \in Prompt, asked[c] # Never,
                       NEW v \in 1..MaxUpdate, asked[c] < v, v <= version
                PROVE  Carried(v, Len(output) + 1)'
    BY DEF AskedCarried
  <2>1. stage[c] # "idle"
    BY DEF LinkInv, OrderInv, OnlyAsked, Call
  <2>2. Carried(v, Len(output) + 1)
    BY DEF LinkInv, OrderInv, AskedCarried
  <2>3. Len(output') + 1 = Len(output)
    BY <1>1
  <2>4. \A i \in Nat : Carried(v, i + 1) => Carried(v, i)'
    BY <2>1, CarriedShrinks
  <2>. QED BY <1>1, <2>2, <2>3, <2>4 DEF Carried
<1>4. AnswersCarried'
  <2>. SUFFICES ASSUME reader' = "running", NEW i \in DOMAIN output', output'[i].what = "answer",
                       output'[i].call \in Prompt, NEW v \in 1..MaxUpdate,
                       output'[i].since < v, v <= output'[i].version
                PROVE  Carried(v, i)'
    BY DEF AnswersCarried
  <2>1. /\ output'[i] = output[i + 1] /\ i + 1 \in DOMAIN output /\ i \in Nat
    BY <1>1
  <2>2. stage[output'[i].call] # "idle"
    BY <2>1 DEF LinkInv, OrderInv, OnlyAsked
  <2>3. Carried(v, i + 1)
    BY <2>1 DEF LinkInv, OrderInv, AnswersCarried
  <2>. QED BY <2>1, <2>2, <2>3, CarriedShrinks
<1>. QED BY <1>2, <1>3, <1>4

\* An answer goes to its caller, whose updates have all been taken before it.
LEMMA ReadAnswerKeeps ==
    ASSUME LinkInv, ReadAnswer
    PROVE  LinkInv'
<1>. USE DEF ReadAnswer
<1>1. PICK x \in Answer : x = Head(output)
  BY OutputShrinks, LineKinds
<1>2. /\ pending' = pending \ {x.call} /\ x.call \in Call
      /\ \/ x.call \in pending /\ reply' = [reply EXCEPT ![x.call] = Success(x)]
         \/ x.call \notin pending /\ reply' = reply
  BY <1>1 DEF Answer
<1>3. LinkTypeOK'
  <2>1. output' \in Seq(Heard)
    BY OutputShrinks
  <2>2. reply' \in [Call -> {Nothing, Failure} \cup {Success(line) : line \in Answer}]
    BY <1>2 DEF LinkInv, LinkTypeOK
  <2>. QED BY <1>2, <2>1, <2>2 DEF LinkInv, LinkTypeOK, tasks, memory
<1>4. OpenedFirst'
  BY DEF LinkInv, OrderInv, OpenedFirst, memory
<1>5. OnlyAsked' /\ AskedCarried' /\ AnswersCarried'
  BY ReadKeepsOrder DEF tasks, memory
<1>6. AnsweredRecorded'
  <2>. SUFFICES ASSUME NEW c \in Prompt, reply'[c].is = "ok", NEW v \in 1..MaxUpdate,
                       reply'[c].since < v, v <= reply'[c].version
                PROVE  \E j \in DOMAIN rows : rows[j] = v
    BY DEF AnsweredRecorded, memory
  <2>1. CASE reply'[c] = reply[c]
    BY <2>1 DEF LinkInv, OrderInv, AnsweredRecorded
  <2>2. CASE reply'[c] # reply[c]
    <3>1. c = x.call /\ reply'[c] = Success(x)
      BY <1>2, <2>2 DEF LinkInv, LinkTypeOK
    <3>2. x.since < v /\ v <= x.version
      BY <3>1, Replies
    <3>3. 1 \in DOMAIN output /\ output[1] = x /\ output[1].what = "answer"
      BY <1>1, OutputShrinks
    <3>4. Carried(v, 1)
      BY <3>1, <3>2, <3>3 DEF LinkInv, OrderInv, AnswersCarried
    <3>. QED BY <3>4, OutputShrinks DEF Carried
  <2>. QED BY <2>1, <2>2
<1>7. Entries'
  BY <1>1, <1>2, Replies DEF LinkInv, LinkTypeOK, WaitInv, Entries
<1>8. FlagFirst' /\ Aborted' /\ ~Failed'
  BY DEF LinkInv, WaitInv, FlagFirst, Aborted, Failed, tasks
<1>. QED BY <1>3, <1>4, <1>5, <1>6, <1>7, <1>8 DEF LinkInv, OrderInv, WaitInv, NobodyForgotten

\* An update goes into the log once the replay is over, which it is when a
\* prompt has been sent; a log that refuses it stops the reader.
LEMMA ReadUpdateKeeps ==
    ASSUME LinkInv, ReadUpdate
    PROVE  LinkInv'
<1>. USE DEF ReadUpdate
<1>1. /\ Head(output) \in Heard /\ output' \in Seq(Heard) /\ rows \in Seq(1..MaxUpdate)
      /\ Head(output).version \in 1..MaxUpdate
  BY OutputShrinks, LineKinds DEF LinkInv, LinkTypeOK
<1>2. /\ Append(rows, Head(output).version) \in Seq(1..MaxUpdate)
      /\ Len(rows) + 1 \in DOMAIN Append(rows, Head(output).version)
      /\ Append(rows, Head(output).version)[Len(rows) + 1] = Head(output).version
      /\ \A j \in DOMAIN rows : /\ j \in DOMAIN Append(rows, Head(output).version)
                                /\ Append(rows, Head(output).version)[j] = rows[j]
  BY <1>1, SequenceFacts
<1>3. LinkTypeOK'
  <2>1. rows' \in Seq(1..MaxUpdate) /\ reader' \in {"running", "ending", "closing", "ended"}
    BY <1>1, <1>2
  <2>. QED BY <1>1, <2>1 DEF LinkInv, LinkTypeOK, callers
<1>4. OpenedFirst'
  BY DEF LinkInv, OrderInv, OpenedFirst, callers
<1>5. \A j \in DOMAIN rows : j \in DOMAIN rows' /\ rows'[j] = rows[j]
  BY <1>2
<1>6. reader' = "running" =>
          \/ \A c \in Prompt : stage[c] = "idle"
          \/ \E j \in DOMAIN rows' : rows'[j] = Head(output).version
  <2>1. CASE reader' = "running" /\ ~replaying
    <3>1. rows' = Append(rows, Head(output).version)
      BY <2>1
    <3>. QED BY <1>2, <3>1
  <2>2. CASE replaying
    <3>1. \A c \in Prompt : stage[c] = "idle"
      BY <2>2 DEF LinkInv, OrderInv, OpenedFirst, Call, Over
    <3>. QED BY <3>1
  <2>. QED BY <2>1, <2>2
<1>7. OnlyAsked' /\ AskedCarried' /\ AnswersCarried'
  BY <1>5, <1>6, ReadKeepsOrder DEF callers
<1>8. AnsweredRecorded'
  BY <1>5 DEF LinkInv, OrderInv, AnsweredRecorded, callers
<1>9. FlagFirst' /\ Aborted' /\ (Failed' => Failed)
  BY DEF LinkInv, LinkTypeOK, WaitInv, FlagFirst, Aborted, Failed
<1>10. WaitInv'
  BY <1>9, WaitKept DEF callers
<1>. QED BY <1>3, <1>4, <1>7, <1>8, <1>10 DEF LinkInv, OrderInv

\* Failing what is pending answers everybody who waits.
LEMMA FailKeeps ==
    ASSUME LinkInv, ReaderFails \/ ShutFail
    PROVE  LinkInv'
<1>. USE DEF ReaderFails, ShutFail, FailPending, KillChild, tasks, process, memory
<1>1. UNCHANGED <<stage, queue, asked, output, version, replaying, rows, connected, writer>>
      /\ (reader' = "running" => reader = "running")
  OBVIOUS
<1>2. pending' = {} /\ reply' = [c \in Call |-> IF c \in pending THEN Failure ELSE reply[c]]
  OBVIOUS
<1>3. LinkTypeOK'
  <2>1. reply' \in [Call -> {Nothing, Failure} \cup {Success(line) : line \in Answer}]
    BY <1>2 DEF LinkInv, LinkTypeOK
  <2>2. agent' \in {"running", "stalled", "dead"} /\ closer' \in {"idle", "flagged", "killed", "aborted", "done"}
        /\ reader' \in {"running", "ending", "closing", "ended"}
    BY DEF LinkInv, LinkTypeOK
  <2>. QED BY <1>1, <1>2, <2>1, <2>2 DEF LinkInv, LinkTypeOK
<1>4. OpenedFirst'
  BY <1>1 DEF LinkInv, OrderInv, OpenedFirst
<1>5. OnlyAsked'
  BY <1>1 DEF LinkInv, OrderInv, OnlyAsked
<1>6. AskedCarried' /\ AnswersCarried' /\ AnsweredRecorded'
  <2>1. \A c \in Prompt : reply'[c] = reply[c] \/ reply'[c].is # "ok"
    BY <1>2, Replies DEF Call
  <2>. QED BY <1>1, <2>1, OrderKept DEF LinkInv
<1>7. Entries' /\ NobodyForgotten'
  BY <1>1, <1>2, Replies DEF LinkInv, LinkTypeOK, WaitInv, Entries, NobodyForgotten
<1>8. FlagFirst' /\ Aborted'
  BY DEF LinkInv, LinkTypeOK, WaitInv, FlagFirst, Aborted
<1>. QED BY <1>3, <1>4, <1>5, <1>6, <1>7, <1>8 DEF LinkInv, OrderInv, WaitInv

\* The shutdown clears the flag, and may tell the writer.
LEMMA FlagKeeps ==
    ASSUME LinkInv, ShutFlag
    PROVE  LinkInv'
<1>. USE DEF ShutFlag, callers, process, memory
<1>1. OnlyAsked' /\ queue' \in Seq(Line) /\ Len(queue') <= QueueLimit
  <2>1. CASE Room
    <3>1. queue' = Append(queue, [what |-> "shutdown"]) /\ Len(queue) < QueueLimit
      BY <2>1 DEF Room
    <3>2. UNCHANGED <<stage, asked, output>>
      OBVIOUS
    <3>. QED BY <3>1, <3>2, QueueGrows, LineKinds
  <2>2. CASE ~Room
    BY <2>2, AskedKept DEF LinkInv, LinkTypeOK
  <2>. QED BY <2>1, <2>2
<1>2. LinkTypeOK'
  BY <1>1 DEF LinkInv, LinkTypeOK
<1>3. OpenedFirst'
  BY DEF LinkInv, OrderInv, OpenedFirst
<1>4. AskedCarried' /\ AnswersCarried' /\ AnsweredRecorded'
  BY OrderKept DEF LinkInv
<1>5. FlagFirst' /\ Aborted' /\ (Failed' => Failed)
  BY DEF LinkInv, LinkTypeOK, WaitInv, FlagFirst, Aborted, Failed
<1>6. WaitInv'
  BY <1>5, WaitKept
<1>. QED BY <1>1, <1>2, <1>3, <1>4, <1>6 DEF LinkInv, OrderInv

-----------------------------------------------------------------------------
(* The theorems.                                                           *)

LEMMA LinkInvInit == LinkInit => LinkInv
<1>. SUFFICES ASSUME LinkInit PROVE LinkInv
  OBVIOUS
<1>. USE DEF LinkInit
<1>1. <<>> \in Seq(Line) /\ <<>> \in Seq(Heard) /\ <<>> \in Seq(1..MaxUpdate) /\ Len(<<>>) = 0
      /\ DOMAIN <<>> = {}
  OBVIOUS
<1>2. LinkTypeOK
  <2>1. asked \in [Call -> 0..Never] /\ version \in 0..MaxUpdate
    BY DEF Never
  <2>2. reply \in [Call -> {Nothing, Failure} \cup {Success(line) : line \in Answer}]
    OBVIOUS
  <2>3. queue \in Seq(Line) /\ Len(queue) <= QueueLimit /\ output \in Seq(Heard)
        /\ rows \in Seq(1..MaxUpdate)
    BY <1>1
  <2>4. stage \in [Call -> {"idle", "checked", "inserted", "sending", "awaiting",
                            "cancelling", "returned", "done"}]
        /\ pending \in SUBSET Call
    OBVIOUS
  <2>5. /\ connected \in BOOLEAN /\ writer \in {"running", "ended"}
        /\ reader \in {"running", "ending", "closing", "ended"}
        /\ closer \in {"idle", "flagged", "killed", "aborted", "done"}
        /\ agent \in {"running", "stalled", "dead"} /\ replaying \in BOOLEAN
    OBVIOUS
  <2>. QED BY <2>1, <2>2, <2>3, <2>4, <2>5 DEF LinkTypeOK
<1>3. OrderInv
  BY <1>1, Replies DEF OrderInv, OpenedFirst, OnlyAsked, AskedCarried, AnswersCarried,
                       AnsweredRecorded, Call, Over
<1>4. WaitInv
  BY DEF WaitInv, Entries, FlagFirst, NobodyForgotten, Failed, Aborted
<1>. QED BY <1>2, <1>3, <1>4 DEF LinkInv

LEMMA LinkInvNext == LinkInv /\ [LinkNext]_linkVars => LinkInv'
<1>. SUFFICES ASSUME LinkInv, [LinkNext]_linkVars PROVE LinkInv'
  OBVIOUS
<1>1. ASSUME NEW c \in Call, BeginCall(c) \/ CallerStep(c) \/ Deadline(c) \/ AgentAnswers(c)
      PROVE  LinkInv'
  BY <1>1, BeginKeeps, InsertKeeps, LookKeeps, EnqueueKeeps, TakeKeeps, CancelKeeps,
     FinishKeeps, AnswerKeeps DEF CallerStep
<1>2. CASE ReaderStep \/ ShutStep
  BY <1>2, ReadAnswerKeeps, ReadUpdateKeeps, StopsKeeps, FailKeeps DEF ReaderStep, ShutStep
<1>3. CASE WriteLine \/ SeeExit \/ ShutFlag \/ Terminate \/ AgentUpdates \/ AgentStalls \/ AgentDies
  BY <1>3, WriteKeeps, FlagKeeps, UpdateKeeps, ProcessKeeps
<1>4. CASE UNCHANGED linkVars
  <2>1. UNCHANGED <<stage, pending, reply, queue, asked, output, version, replaying, rows,
                    connected, writer, reader, closer, agent>>
    BY <1>4 DEF linkVars, callers, tasks, process, memory
  <2>2. LinkTypeOK' /\ FlagFirst' /\ Aborted' /\ (Failed' => Failed)
    BY <2>1 DEF LinkInv, LinkTypeOK, WaitInv, FlagFirst, Aborted, Failed
  <2>. QED BY <2>1, <2>2, QuietStep
<1>. QED BY <1>1, <1>2, <1>3, <1>4 DEF LinkNext

\* Types hold; every update that an answer to a prompt covers is in the log or
\* before the answer in the agent's output (acp/mod.rs, reader_task); a request
\* has an entry in the pending map exactly while its caller waits unanswered
\* (dispatch_request, cancel_request, fail_pending_requests).
THEOREM LinkInvHolds == LinkSpec => []LinkInv
BY LinkInvInit, LinkInvNext, PTL DEF LinkSpec

\* When a prompt succeeds, the updates the agent sent while it worked on it are in
\* the log, for any number of requests and updates (acp/mod.rs, reader_task).
THEOREM TurnOutputRecordedHolds == LinkSpec => []TurnOutputRecorded
<1>1. LinkInv => TurnOutputRecorded
  <2>. SUFFICES ASSUME LinkInv, NEW c \in Prompt, reply[c].is = "ok", NEW v \in 1..MaxUpdate,
                       v \in (reply[c].since + 1)..reply[c].version
                PROVE  v \in Range(rows)
    BY DEF TurnOutputRecorded
  <2>1. c \in Call /\ reply[c] \in {Nothing, Failure} \cup {Success(line) : line \in Answer}
    BY DEF Call, LinkInv, LinkTypeOK
  <2>2. PICK x \in Answer : reply[c] = Success(x)
    BY <2>1, Replies
  <2>3. reply[c].since \in Nat /\ reply[c].version \in Nat
    BY <2>2, Replies DEF Answer
  <2>4. reply[c].since < v /\ v <= reply[c].version
    BY <2>3
  <2>. QED BY <2>4 DEF LinkInv, OrderInv, AnsweredRecorded, Range
<1>. QED BY <1>1, LinkInvHolds, PTL

\* After the pending requests have been failed nobody waits unanswered, also who
\* registered a request meanwhile; what is left of LostCallersReleased is that
\* they are failed at all (acp/mod.rs, dispatch_request, reader_task, shutdown).
THEOREM NobodyForgottenHolds == LinkSpec => []NobodyForgotten
BY LinkInvHolds, PTL DEF LinkInv, WaitInv

-----------------------------------------------------------------------------
(* AgentOffers                                                             *)

OffersSpec == AoInit /\ [][AoNext]_aoVars

\* A chat's process has shown, when it started, that it speaks Batey's version.
ChatSpeaks == \A peer \in chat : peer.version = Version

AoInv == OffersKept /\ ChatSpeaks

\* What OffersKept says of the last request.
DealKept ==
    /\ OnlyOfferedIsSent /\ SavedIsRestored /\ HistoryIsSendable /\ MediaIsWhatItSays
    /\ OfferedIsServed /\ GoesItsWay

LEMMA ParsedMethods ==
    ASSUME NEW peer PROVE
    /\ DOMAIN Methods(peer) = {i \in DOMAIN peer.methods : peer.methods[i].id # ""}
    /\ \A i \in DOMAIN Methods(peer) :
        Methods(peer)[i] = peer.methods[i] /\ Methods(peer)[i].id # ""
BY DEF Methods, Restrict

LEMMA ListedIs ==
    ASSUME NEW peer PROVE
    /\ DOMAIN Listed(peer) = DOMAIN Methods(peer)
    /\ \A i \in DOMAIN Methods(peer) :
        /\ Listed(peer)[i] = Shown(Methods(peer)[i])
        /\ Listed(peer)[i].id = Methods(peer)[i].id
        /\ Listed(peer)[i].id # ""
BY ParsedMethods DEF Listed, Shown

\* What is left of the last request when its caller has the answer.
LEMMA QuietKept == ASSUME deal = Quiet PROVE DealKept
BY DEF DealKept, Quiet, OnlyOfferedIsSent, SavedIsRestored, HistoryIsSendable,
       MediaIsWhatItSays, OfferedIsServed, GoesItsWay

LEMMA NoneOrOne == Cardinality({}) <= 1 /\ \A peer : Cardinality({peer}) <= 1
<1>1. Cardinality({}) <= 1
  <2>1. Cardinality({}) = 0
    BY FS_EmptySet
  <2> QED BY <2>1
<1>2. ASSUME NEW peer PROVE Cardinality({peer}) <= 1
  <2>1. Cardinality({peer}) = 1
    BY FS_Singleton
  <2> QED BY <2>1
<1> QED BY <1>1, <1>2

\* Nothing that the last request is judged by changes.
LEMMA DealSame ==
    ASSUME DealKept, UNCHANGED <<pty, needs, deal>> PROVE DealKept'
<1>1. /\ OnlyOfferedIsSent' /\ SavedIsRestored' /\ HistoryIsSendable' /\ MediaIsWhatItSays'
      /\ OfferedIsServed'
  BY DEF DealKept, OnlyOfferedIsSent, SavedIsRestored, HistoryIsSendable, MediaIsWhatItSays,
         OfferedIsServed, Advertised
<1>2. Listed(deal.to)' = Listed(deal.to)
  BY DEF Listed, Shown
<1>3. GoesItsWay'
  BY <1>2 DEF DealKept, GoesItsWay
<1> QED BY <1>1, <1>3 DEF DealKept

LEMMA AnswerHeard == ASSUME AoInv, Hear PROVE AoInv'
<1>1. DealKept'
  BY DEF Hear, Quiet, DealKept, OnlyOfferedIsSent, SavedIsRestored, HistoryIsSendable,
         MediaIsWhatItSays, OfferedIsServed, GoesItsWay
<1> QED BY <1>1 DEF AoInv, OffersKept, DealKept, AoTypeOK, ChatSpeaks, Hear

LEMMA Updated == ASSUME AoInv, Update PROVE AoInv'
<1>1. DealKept'
  BY DealSame DEF Update, AoInv, OffersKept, DealKept
<1> QED BY <1>1 DEF AoInv, OffersKept, DealKept, AoTypeOK, ChatSpeaks, Update

LEMMA Exited == ASSUME AoInv, Exits PROVE AoInv'
<1>1. DealKept'
  BY DealSame DEF Exits, AoInv, OffersKept, DealKept
<1>2. AoTypeOK' /\ ChatSpeaks'
  BY NoneOrOne DEF AoInv, OffersKept, AoTypeOK, ChatSpeaks, Exits
<1> QED BY <1>1, <1>2 DEF AoInv, OffersKept, DealKept

LEMMA Started == ASSUME AoInv, StartSession PROVE AoInv'
<1> DEFINE sent == IF Fits(program) THEN Opening(program) ELSE {}
<1>1. PICK outcome \in IF sent = {} THEN {"error"} ELSE {"error", "id", "session"} :
        /\ chat = {} /\ Asks([do |-> "start", to |-> program, sent |-> sent, saved |-> saved])
        /\ chat' = IF outcome = "session" THEN {program} ELSE {}
        /\ saved' = (saved \/ outcome # "error")
        /\ UNCHANGED listing
  BY DEF StartSession
<1>2. deal' = [do |-> "start", to |-> program, sent |-> sent, saved |-> saved]
      /\ UNCHANGED <<pty, program, needs>>
  BY <1>1 DEF Asks
<1>3. \A request \in sent :
        /\ FeatureOf(request) \subseteq program.features /\ program.version = Version
        /\ needs.roots => "dirs" \in program.features
        /\ needs.transports \cap {"http", "sse"} \subseteq program.features
        /\ saved => request # "session/new"
  BY DEF Fits, Opening, FeatureOf
<1>4. outcome = "session" => program.version = Version
  BY <1>1 DEF Fits
<1> HIDE DEF sent
<1>5. DealKept'
  BY <1>2, <1>3 DEF DealKept, OnlyOfferedIsSent, SavedIsRestored, HistoryIsSendable,
         MediaIsWhatItSays, OfferedIsServed, GoesItsWay
<1>6. AoTypeOK' /\ ChatSpeaks'
  <2>1. program \in Offers /\ saved \in BOOLEAN /\ \A entry \in Range(listing) : entry.id # ""
    BY DEF AoInv, OffersKept, AoTypeOK
  <2>2. chat' \subseteq Offers /\ Cardinality(chat') <= 1
    BY <1>1, <2>1, NoneOrOne
  <2> QED BY <1>1, <1>2, <1>4, <2>1, <2>2 DEF AoTypeOK, ChatSpeaks
<1> QED BY <1>5, <1>6 DEF AoInv, OffersKept, DealKept

\* A request to the chat's process that is only sent if the agent offers it.
LEMMA ChatAsked ==
    ASSUME AoInv, NEW do \in {"stop", "list", "delete"}, NEW feature, NEW may \in BOOLEAN,
           NEW request \in {"session/close", "session/list", "session/delete"},
           FeatureOf(request) = {feature}, AsksChat(do, request, feature, may)
    PROVE DealKept' /\ UNCHANGED <<pty, program, needs>>
<1>1. PICK peer \in chat :
        Asks([do |-> do, to |-> peer,
              sent |-> IF may /\ feature \in peer.features THEN {request} ELSE {}])
  BY DEF AsksChat
<1> DEFINE sent == IF may /\ feature \in peer.features THEN {request} ELSE {}
<1>2. /\ deal' = [do |-> do, to |-> peer, sent |-> sent] /\ UNCHANGED <<pty, program, needs>>
      /\ \A r \in sent : FeatureOf(r) \subseteq peer.features
      /\ peer.version = Version
  BY <1>1 DEF Asks, AoInv, ChatSpeaks
<1> HIDE DEF sent
<1> QED BY <1>2 DEF DealKept, OnlyOfferedIsSent, SavedIsRestored, HistoryIsSendable,
         MediaIsWhatItSays, OfferedIsServed, GoesItsWay

LEMMA Stopped == ASSUME AoInv, Stop PROVE AoInv'
<1>1. DealKept' /\ UNCHANGED <<pty, program, needs>>
  BY ChatAsked DEF Stop, FeatureOf
<1> QED BY <1>1, NoneOrOne DEF AoInv, OffersKept, DealKept, AoTypeOK, ChatSpeaks, Stop

LEMMA ListedRemote == ASSUME AoInv, ListRemote PROVE AoInv'
<1>1. DealKept' /\ UNCHANGED <<pty, program, needs>>
  BY ChatAsked DEF ListRemote, FeatureOf
<1> QED BY <1>1 DEF AoInv, OffersKept, DealKept, AoTypeOK, ChatSpeaks, ListRemote

LEMMA DeletedRemote == ASSUME AoInv, DeleteRemote PROVE AoInv'
<1>1. DealKept' /\ UNCHANGED <<pty, program, needs>>
  BY ChatAsked DEF DeleteRemote, FeatureOf
<1> QED BY <1>1 DEF AoInv, OffersKept, DealKept, AoTypeOK, ChatSpeaks, DeleteRemote

\* A block that is valid is what it says, of the size it may have.
LEMMA ValidBlocks ==
    ASSUME NEW content, NEW byUser \in BOOLEAN, Valid(content, byUser) PROVE
    /\ ContentSize(content) <= MaxTotal
    /\ \A i \in DOMAIN content :
        /\ content[i].flaw = "none" \/ (content[i].flaw = "scheme" /\ ~byUser)
        /\ content[i].is \in {"image", "audio"} => content[i].size <= MaxMedia
<1>1. \A i \in DOMAIN content : content[i] \in Range(content)
  BY DEF Range
<1> QED BY <1>1 DEF Valid, SizeLimit

LEMMA TakenBlocks ==
    ASSUME NEW content, NEW peer, Taken(content, peer) PROVE
    \A i \in DOMAIN content :
        /\ content[i].is \in {"image", "audio"} => content[i].is \in peer.features
        /\ content[i].is \in {"resource", "blob"} => "embedded" \in peer.features
<1>1. \A i \in DOMAIN content : content[i] \in Range(content)
  BY DEF Range
<1> QED BY <1>1 DEF Taken, Takes

LEMMA PromptSubmitted == ASSUME AoInv, SubmitPrompt PROVE AoInv'
<1>1. PICK content \in Prompts, peer \in chat :
        LET ok == Valid(content, TRUE) /\ Taken(content, peer) IN
        Asks([do |-> "prompt", to |-> peer, content |-> content, recorded |-> ok,
              sent |-> IF ok THEN {"session/prompt"} ELSE {}])
  BY DEF SubmitPrompt
<1> DEFINE ok == Valid(content, TRUE) /\ Taken(content, peer)
           sent == IF ok THEN {"session/prompt"} ELSE {}
<1>2. /\ deal' = [do |-> "prompt", to |-> peer, content |-> content, recorded |-> ok, sent |-> sent]
      /\ UNCHANGED <<pty, program, needs>> /\ peer.version = Version
  BY <1>1 DEF Asks, AoInv, ChatSpeaks
<1>3. /\ ok => sent # {}
      /\ \A r \in sent : FeatureOf(r) = {}
  BY DEF FeatureOf
<1>4. ok => /\ ContentSize(content) <= MaxTotal
            /\ \A i \in DOMAIN content :
                /\ content[i].flaw = "none"
                /\ content[i].is \in {"image", "audio"} =>
                    content[i].size <= MaxMedia /\ content[i].is \in peer.features
                /\ content[i].is \in {"resource", "blob"} => "embedded" \in peer.features
  BY ValidBlocks, TakenBlocks
<1> HIDE DEF ok, sent
<1>5. DealKept'
  BY <1>2, <1>3, <1>4 DEF DealKept, OnlyOfferedIsSent, SavedIsRestored, HistoryIsSendable,
         MediaIsWhatItSays, OfferedIsServed, GoesItsWay
<1> QED BY <1>2, <1>5 DEF AoInv, OffersKept, DealKept, AoTypeOK, ChatSpeaks, SubmitPrompt

LEMMA AgentSaid == ASSUME AoInv, AgentSays PROVE AoInv'
<1>1. PICK content \in Prompts :
        Asks([do |-> "says", content |-> content, recorded |-> Valid(content, FALSE)])
  BY DEF AgentSays
<1> DEFINE ok == Valid(content, FALSE)
<1>2. /\ deal' = [do |-> "says", content |-> content, recorded |-> ok]
      /\ UNCHANGED <<pty, program, needs>>
  BY <1>1 DEF Asks
<1>3. ok => \A i \in DOMAIN content :
                /\ content[i].flaw \in {"none", "scheme"}
                /\ content[i].is \in {"image", "audio"} => content[i].size <= MaxMedia
  BY ValidBlocks
<1> HIDE DEF ok
<1>4. DealKept'
  BY <1>2, <1>3 DEF DealKept, OnlyOfferedIsSent, SavedIsRestored, HistoryIsSendable,
         MediaIsWhatItSays, OfferedIsServed, GoesItsWay
<1> QED BY <1>2, <1>4 DEF AoInv, OffersKept, DealKept, AoTypeOK, ChatSpeaks, AgentSays

LEMMA AgentAsked == ASSUME AoInv, AgentAsks PROVE AoInv'
<1>1. PICK method \in Served \cup {"other"}, parses \in BOOLEAN :
        Asks([do |-> "serve", method |-> method, parses |-> parses,
              answer |-> IF method \notin Served THEN "unknown method"
                         ELSE IF parses THEN "handled" ELSE "error"])
  BY DEF AgentAsks
<1>2. /\ deal'.do = "serve" /\ deal'.method = method /\ UNCHANGED <<pty, program, needs>>
      /\ DOMAIN deal' = {"do", "method", "parses", "answer"}
      /\ deal'.answer = "unknown method" => method = "other"
  BY <1>1 DEF Asks
<1>3. "other" \notin Advertised' /\ "other" \notin Terminals
  BY DEF Advertised, Terminals
<1>4. DealKept'
  BY <1>2, <1>3 DEF DealKept, OnlyOfferedIsSent, SavedIsRestored, HistoryIsSendable,
         MediaIsWhatItSays, OfferedIsServed, GoesItsWay
<1> QED BY <1>2, <1>4 DEF AoInv, OffersKept, DealKept, AoTypeOK, ChatSpeaks, AgentAsks

-----------------------------------------------------------------------------
\* The first method of the name is that of the page's list.
LEMMA NamedIsFirst ==
    ASSUME NEW peer \in Offers, NEW id \in Id, NEW kind PROVE
    LET all == Listed(peer)
        first == {i \in DOMAIN all : /\ all[i].id = id
                                     /\ \A j \in DOMAIN all : j < i => all[j].id # id}
    IN kind \in KindNow(peer, id) <=> \E i \in first : kind = Kind(Methods(peer)[i])
<1> DEFINE all == Listed(peer)
           first == {i \in DOMAIN all : /\ all[i].id = id
                                        /\ \A j \in DOMAIN all : j < i => all[j].id # id}
           at == {i \in DOMAIN Methods(peer) : Methods(peer)[i].id = id}
<1>1. \A i \in DOMAIN Methods(peer) : i \in Int
  <2>1. \A i \in DOMAIN peer.methods : i \in Int
    BY OffersAssumption
  <2> QED BY <2>1, ParsedMethods
<1>2. first = {i \in at : \A j \in at : i <= j}
  <2>1. DOMAIN all = DOMAIN Methods(peer)
    BY ListedIs
  <2>2. \A i \in DOMAIN Methods(peer) : all[i].id = Methods(peer)[i].id
    BY ListedIs
  <2> HIDE DEF all
  <2> QED BY <1>1, <2>1, <2>2
<1>3. Named(peer, id) = {Methods(peer)[i] : i \in first}
  BY <1>2 DEF Named
<1> HIDE DEF first
<1>4. KindNow(peer, id) = {Kind(method) : method \in {Methods(peer)[i] : i \in first}}
  BY <1>3 DEF KindNow
<1>5. kind \in KindNow(peer, id) <=> \E i \in first : kind = Kind(Methods(peer)[i])
  BY <1>4
<1> QED BY <1>5 DEF first

\* What a page shows of a method is what Batey would do with it.
LEMMA ShownIs ==
    ASSUME NEW method PROVE
    /\ Shown(method).type = "agent" /\ Shown(method).supported <=> Kind(method) = "agent"
    /\ Shown(method).type = "terminal" /\ Shown(method).supported <=>
        Kind(method) \in {"terminal", "legacy"} /\ pty
<1>1. Kind(method) \in {"terminal", "legacy", "agent", "unsupported"}
  BY DEF Kind
<1> QED BY <1>1 DEF Shown

\* A process of its own is asked, and what it is asked goes the way its method gives.
LEMMA Probed ==
    ASSUME AoInv, NEW do \in {"refresh", "authenticate", "login", "logout"}, NEW id, NEW sent,
           \A request \in sent : FeatureOf(request) \subseteq program.features,
           do = "authenticate" => id \in Id /\ sent = KindNow(program, id) \cap {"agent"},
           do = "login" => id \in Id /\ pty /\ sent = KindNow(program, id) \cap {"terminal", "legacy"},
           AsksProbe(do, id, sent)
    PROVE AoInv'
<1> DEFINE posed == IF program.version = Version THEN sent ELSE {}
           all == Listed(program)
           first == {i \in DOMAIN all : /\ all[i].id = id
                                        /\ \A j \in DOMAIN all : j < i => all[j].id # id}
<1>1. /\ deal' = [do |-> do, to |-> program, id |-> id, pty |-> pty, sent |-> posed]
      /\ listing' = IF program.version = Version THEN all ELSE listing
      /\ UNCHANGED <<pty, program, needs, chat, saved>>
  BY DEF AsksProbe, Probe, Asks
<1>2. program \in Offers
  BY DEF AoInv, OffersKept, AoTypeOK
<1>3. AoTypeOK' /\ ChatSpeaks'
  <2>1. \A entry \in Range(all) : entry.id # ""
    BY ListedIs DEF Range
  <2>2. \A entry \in Range(listing)' : entry.id # ""
    BY <1>1, <2>1 DEF AoInv, OffersKept, AoTypeOK, Range
  <2> QED BY <1>1, <2>2 DEF AoInv, OffersKept, AoTypeOK, ChatSpeaks
<1>4. Listed(program)' = all
  BY <1>1 DEF Listed, Shown
<1>5. ASSUME do \in {"authenticate", "login"}, program.version = Version
      PROVE posed # {} <=> \E i \in first : /\ all[i].type = (IF do = "login" THEN "terminal" ELSE "agent")
                                            /\ all[i].supported
  <2>1. id \in Id
    BY <1>5
  <2>2. \A kind : kind \in KindNow(program, id) <=> \E i \in first : kind = Kind(Methods(program)[i])
    BY <1>2, <2>1, NamedIsFirst
  <2>3. \A i \in first : all[i] = Shown(Methods(program)[i])
    BY ListedIs
  <2> HIDE DEF first, all
  <2>4. CASE do = "login"
    <3>1. posed = KindNow(program, id) \cap {"terminal", "legacy"} /\ pty
      BY <1>5, <2>4
    <3>2. posed # {} <=> \E i \in first : Kind(Methods(program)[i]) \in {"terminal", "legacy"}
      BY <2>2, <3>1
    <3> QED BY <2>3, <2>4, <3>1, <3>2, ShownIs
  <2>5. CASE do = "authenticate"
    <3>1. posed = KindNow(program, id) \cap {"agent"}
      BY <1>5, <2>5
    <3>2. posed # {} <=> \E i \in first : Kind(Methods(program)[i]) = "agent"
      BY <2>2, <3>1
    <3> QED BY <2>3, <2>5, <3>2, ShownIs
  <2> QED BY <1>5, <2>4, <2>5
<1>6. GoesItsWay'
  BY <1>1, <1>4, <1>5 DEF GoesItsWay
<1>7. \A request \in posed : FeatureOf(request) \subseteq program.features /\ program.version = Version
  OBVIOUS
<1> HIDE DEF posed
<1>8. OnlyOfferedIsSent' /\ SavedIsRestored' /\ HistoryIsSendable' /\ MediaIsWhatItSays' /\ OfferedIsServed'
  BY <1>1, <1>7 DEF OnlyOfferedIsSent, SavedIsRestored, HistoryIsSendable, MediaIsWhatItSays,
         OfferedIsServed
<1> QED BY <1>3, <1>6, <1>8 DEF AoInv, OffersKept

LEMMA Refreshed == ASSUME AoInv, Refresh PROVE AoInv'
BY Probed DEF Refresh

LEMMA Authenticated == ASSUME AoInv, Authenticate PROVE AoInv'
<1>1. PICK id \in Id : AsksProbe("authenticate", id, KindNow(program, id) \cap {"agent"})
  BY DEF Authenticate
<1> DEFINE sent == KindNow(program, id) \cap {"agent"}
<1>2. \A request \in sent : FeatureOf(request) \subseteq program.features
  BY DEF FeatureOf
<1> QED BY <1>1, <1>2, Probed

LEMMA LoggedOut == ASSUME AoInv, Logout PROVE AoInv'
<1> DEFINE sent == IF "logout" \in program.features THEN {"logout"} ELSE {}
<1>1. \A request \in sent : FeatureOf(request) \subseteq program.features
  BY DEF FeatureOf
<1> QED BY <1>1, Probed DEF Logout

LEMMA LoggedIn == ASSUME AoInv, StartTerminalLogin PROVE AoInv'
<1>1. PICK id \in Id :
        IF pty THEN AsksProbe("login", id, KindNow(program, id) \cap {"terminal", "legacy"})
        ELSE /\ Asks([do |-> "login", to |-> program, id |-> id, pty |-> pty, sent |-> {}])
             /\ UNCHANGED <<chat, saved, listing>>
  BY DEF StartTerminalLogin
<1>2. CASE pty
  <2> DEFINE sent == KindNow(program, id) \cap {"terminal", "legacy"}
  <2>1. \A request \in sent : FeatureOf(request) \subseteq program.features
    BY DEF FeatureOf
  <2> QED BY <1>1, <1>2, <2>1, Probed
<1>3. CASE ~pty
  <2>1. /\ deal' = [do |-> "login", to |-> program, id |-> id, pty |-> pty, sent |-> {}]
        /\ UNCHANGED <<pty, program, needs, chat, saved, listing>>
    BY <1>1, <1>3 DEF Asks
  <2>2. ASSUME NEW i \in DOMAIN Listed(program) PROVE
        ~(Listed(program)[i].type = "terminal" /\ Listed(program)[i].supported)
    <3>1. Listed(program)[i] = Shown(Methods(program)[i])
      BY ListedIs
    <3> QED BY <1>3, <3>1, ShownIs
  <2>3. Listed(program)' = Listed(program)
    BY <2>1 DEF Listed, Shown
  <2>4. GoesItsWay'
    BY <2>1, <2>2, <2>3 DEF GoesItsWay
  <2> QED BY <2>1, <2>4 DEF AoInv, OffersKept, AoTypeOK, ChatSpeaks, OnlyOfferedIsSent,
         SavedIsRestored, HistoryIsSendable, MediaIsWhatItSays, OfferedIsServed
<1> QED BY <1>2, <1>3

-----------------------------------------------------------------------------
LEMMA OffersInit == ASSUME AoInit PROVE AoInv
<1>1. DealKept
  BY QuietKept DEF AoInit
<1>2. Range(listing) = {}
  BY DEF AoInit, Range
<1>3. AoTypeOK /\ ChatSpeaks
  BY <1>2, NoneOrOne DEF AoInit, AoTypeOK, ChatSpeaks
<1> QED BY <1>1, <1>3 DEF AoInv, OffersKept, DealKept

LEMMA OffersUnchanged == ASSUME AoInv, UNCHANGED aoVars PROVE AoInv'
<1>1. DealKept'
  BY DealSame DEF aoVars, AoInv, OffersKept, DealKept
<1> QED BY <1>1 DEF aoVars, AoInv, OffersKept, DealKept, AoTypeOK, ChatSpeaks

\* A process is only sent what it offered when it started, whatever was installed since;
\* a chat goes on in its own session or not at all; what stands in the history could be
\* sent; and a login goes the way that the agent gives for its method, as a page would show
\* it (acp/mod.rs, session/mod.rs, auth/service.rs).
THEOREM OffersKeptAlways == OffersSpec => []OffersKept
<1>1. AoInit => AoInv
  BY OffersInit
<1>2. AoInv /\ [AoNext]_aoVars => AoInv'
  BY AnswerHeard, Updated, Started, Stopped, Exited, ListedRemote, DeletedRemote, PromptSubmitted,
     AgentSaid, AgentAsked, Refreshed, Authenticated, LoggedIn, LoggedOut, OffersUnchanged DEF AoNext
<1>3. AoInv => OffersKept
  BY DEF AoInv
<1> QED BY <1>1, <1>2, <1>3, PTL DEF OffersSpec

-----------------------------------------------------------------------------
(* TerminalTasks.  A queue is filtered by a recursive function; what it    *)
(* computes is proved from the least position at which it would be wrong.  *)

\* Of a non-empty set of numbers one is the least: how induction is done here.
LEMMA LeastNumber == ASSUME NEW T, T \subseteq Nat, T # {} PROVE \E n \in T : \A m \in T : n <= m
<1>1. IsWellFoundedOn(OpToRel(<, Nat), Nat)
  BY NatLessThanWellFounded
<1>2. PICK n \in T : \A m \in T : ~(<<m, n>> \in OpToRel(<, Nat))
  BY <1>1, WFMin
<1>3. \A m \in T : ~(m < n)
  BY <1>2 DEF OpToRel
<1> QED BY <1>3

\* f is the table of what is kept of the first n elements.
KeepsUpto(f, s, S, n) ==
    f = [i \in 0 .. n |-> IF i = 0 THEN <<>>
                          ELSE IF s[i] \in S THEN Append(f[i - 1], s[i]) ELSE f[i - 1]]

LEMMA KeepsExists ==
    ASSUME NEW s, NEW S, NEW n \in Nat PROVE \E f : KeepsUpto(f, s, S, n)
<1> DEFINE Bad == {m \in Nat : ~ \E f : KeepsUpto(f, s, S, m)}
<1>1. SUFFICES ASSUME Bad # {} PROVE FALSE
  OBVIOUS
<1>2. PICK m \in Bad : \A k \in Bad : m <= k
  BY <1>1, LeastNumber
<1>3. m # 0
  <2>1. KeepsUpto([i \in 0 .. 0 |-> <<>>], s, S, 0)
    BY DEF KeepsUpto
  <2> QED BY <2>1
<1>4. m - 1 \in Nat /\ m - 1 \notin Bad
  BY <1>2, <1>3
<1>5. PICK f : KeepsUpto(f, s, S, m - 1)
  BY <1>4
<1> DEFINE g == [i \in 0 .. m |-> IF i < m THEN f[i]
                                  ELSE IF s[m] \in S THEN Append(f[m - 1], s[m]) ELSE f[m - 1]]
<1>6. KeepsUpto(g, s, S, m)
  <2>1. \A i \in 0 .. m : g[i] = IF i = 0 THEN <<>> ELSE IF s[i] \in S THEN Append(g[i - 1], s[i]) ELSE g[i - 1]
    <3> TAKE i \in 0 .. m
    <3>1. CASE i = 0
      BY <1>3, <1>5, <3>1 DEF KeepsUpto
    <3>2. CASE i # 0 /\ i < m
      <4>1. i \in 0 .. m - 1 /\ i - 1 \in 0 .. m /\ i - 1 < m
        BY <3>2
      <4>2. f[i] = IF s[i] \in S THEN Append(f[i - 1], s[i]) ELSE f[i - 1]
        BY <1>5, <3>2, <4>1 DEF KeepsUpto
      <4> QED BY <3>2, <4>1, <4>2
    <3>3. CASE i = m
      <4>1. m - 1 \in 0 .. m /\ m - 1 < m
        BY <1>3
      <4> QED BY <1>3, <3>3, <4>1
    <3> QED BY <3>1, <3>2, <3>3
  <2> HIDE DEF g
  <2>2. g = [i \in 0 .. m |-> g[i]]
    BY DEF g
  <2> QED BY <2>1, <2>2 DEF KeepsUpto
<1> QED BY <1>2, <1>6

\* What Kept is made of.
LEMMA KeptTable ==
    ASSUME NEW s \in Seq(Task), NEW S
    PROVE  \E f : KeepsUpto(f, s, S, Len(s)) /\ Kept(s, S) = f[Len(s)]
<1> DEFINE f == CHOOSE f : f = [i \in 0 .. Len(s) |-> IF i = 0 THEN <<>>
                          ELSE IF s[i] \in S THEN Append(f[i - 1], s[i]) ELSE f[i - 1]]
<1>1. \E g : g = [i \in 0 .. Len(s) |-> IF i = 0 THEN <<>>
                          ELSE IF s[i] \in S THEN Append(g[i - 1], s[i]) ELSE g[i - 1]]
  <2>1. Len(s) \in Nat
    OBVIOUS
  <2>2. PICK g : KeepsUpto(g, s, S, Len(s))
    BY <2>1, KeepsExists
  <2> QED BY <2>2 DEF KeepsUpto
<1>2. f = [i \in 0 .. Len(s) |-> IF i = 0 THEN <<>>
                          ELSE IF s[i] \in S THEN Append(f[i - 1], s[i]) ELSE f[i - 1]]
  BY <1>1
<1>3. Kept(s, S) = f[Len(s)]
  BY DEF Kept
<1> HIDE DEF f
<1> QED BY <1>2, <1>3 DEF KeepsUpto

Distinct(s) == \A i, j \in 1 .. Len(s) : s[i] = s[j] => i = j

\* Kept takes exactly the elements in S, each once.
LEMMA KeptTakes ==
    ASSUME NEW s \in Seq(Task), NEW S
    PROVE  /\ Kept(s, S) \in Seq(Task)
           /\ Range(Kept(s, S)) = Range(s) \cap S
           /\ IsInjective(s) => IsInjective(Kept(s, S))
<1>1. PICK f : KeepsUpto(f, s, S, Len(s)) /\ Kept(s, S) = f[Len(s)]
  BY KeptTable
<1> DEFINE Good(n) ==
      /\ f[n] \in Seq(Task)
      /\ \A i \in 1 .. Len(f[n]) : \E j \in 1 .. n : f[n][i] = s[j] /\ s[j] \in S
      /\ \A j \in 1 .. n : s[j] \in S => \E i \in 1 .. Len(f[n]) : f[n][i] = s[j]
      /\ Distinct(s) => Distinct(f[n])
<1> DEFINE Bad == {n \in 0 .. Len(s) : ~Good(n)}
<1>2. Bad = {}
  <2>1. SUFFICES ASSUME Bad # {} PROVE FALSE
    OBVIOUS
  <2>2. PICK n \in Bad : \A m \in Bad : n <= m
    <3>1. Bad \subseteq Nat
      OBVIOUS
    <3> HIDE DEF Bad
    <3>2. \E n \in Bad : \A m \in Bad : n <= m
      BY <2>1, <3>1, LeastNumber
    <3> QED BY <3>2
  <2>3. n # 0
    <3>1. f[0] = <<>>
      BY <1>1 DEF KeepsUpto
    <3>2. Good(0)
      BY <3>1 DEF Distinct
    <3> QED BY <3>2
  <2>4. n \in 1 .. Len(s) /\ n - 1 \in 0 .. Len(s) /\ Good(n - 1)
    <3>1. n \in 0 .. Len(s) /\ Len(s) \in Nat
      BY <2>2
    <3>2. n - 1 \notin Bad
      <4> HIDE DEF Bad
      <4> QED BY <2>2, <3>1
    <3>3. n - 1 \in 0 .. Len(s)
      BY <2>3, <3>1
    <3> QED BY <2>3, <3>1, <3>2, <3>3
  <2>5. f[n] = IF s[n] \in S THEN Append(f[n - 1], s[n]) ELSE f[n - 1]
    BY <1>1, <2>2, <2>3 DEF KeepsUpto
  <2> DEFINE h == f[n - 1]
  <2>6. CASE s[n] \in S
    <3>1. s[n] \in Task
      BY <2>4
    <3>2. f[n] \in Seq(Task) /\ Len(f[n]) = Len(h) + 1 /\ f[n][Len(h) + 1] = s[n]
          /\ \A i \in 1 .. Len(h) : f[n][i] = h[i]
      BY <2>4, <2>5, <2>6, <3>1
    <3> DEFINE e == f[n]
    <3>3. Len(h) \in Nat
      BY <2>4
    <3>4. \A i \in 1 .. Len(e) : \E j \in 1 .. n : e[i] = s[j] /\ s[j] \in S
      <4> TAKE i \in 1 .. Len(e)
      <4>1. CASE i = Len(h) + 1
        <5>1. e[i] = s[n] /\ n \in 1 .. n
          BY <2>4, <3>2, <4>1
        <5> QED BY <2>6, <5>1
      <4>2. CASE i # Len(h) + 1
        <5>1. i \in 1 .. Len(h)
          BY <3>2, <3>3, <4>2
        <5>2. PICK j \in 1 .. n - 1 : h[i] = s[j] /\ s[j] \in S
          BY <2>4, <5>1
        <5>3. j \in 1 .. n
          BY <2>4
        <5> QED BY <3>2, <5>1, <5>2, <5>3
      <4> QED BY <4>1, <4>2
    <3>5. \A j \in 1 .. n : s[j] \in S => \E i \in 1 .. Len(e) : e[i] = s[j]
      <4> SUFFICES ASSUME NEW j \in 1 .. n, s[j] \in S PROVE \E i \in 1 .. Len(e) : e[i] = s[j]
        OBVIOUS
      <4>1. CASE j = n
        <5>1. Len(h) + 1 \in 1 .. Len(e)
          BY <3>2, <3>3
        <5> QED BY <3>2, <4>1, <5>1
      <4>2. CASE j # n
        <5>1. j \in 1 .. n - 1
          BY <2>4, <4>2
        <5>2. PICK i \in 1 .. Len(h) : h[i] = s[j]
          BY <2>4, <5>1
        <5>3. i \in 1 .. Len(e)
          BY <3>2, <3>3
        <5> QED BY <3>2, <5>2, <5>3
      <4> QED BY <4>1, <4>2
    <3>6. Distinct(s) => Distinct(e)
      <4> SUFFICES ASSUME Distinct(s), NEW a \in 1 .. Len(e), NEW b \in 1 .. Len(e), e[a] = e[b]
                   PROVE  a = b
        BY DEF Distinct
      <4>1. \A i \in 1 .. Len(h) : h[i] # s[n]
        <5> TAKE i \in 1 .. Len(h)
        <5>1. PICK j \in 1 .. n - 1 : h[i] = s[j]
          BY <2>4
        <5>2. j \in 1 .. Len(s) /\ j # n
          BY <2>4, SMTT(15)
        <5> QED BY <2>4, <5>1, <5>2, SMTT(20) DEF Distinct
      <4>2. CASE a = Len(h) + 1 \/ b = Len(h) + 1
        <5>1. a \in 1 .. Len(h) => e[a] = h[a]
          BY <3>2
        <5>2. b \in 1 .. Len(h) => e[b] = h[b]
          BY <3>2
        <5>3. a \in 1 .. Len(h) \/ a = Len(h) + 1
          BY <3>2, <3>3
        <5>4. b \in 1 .. Len(h) \/ b = Len(h) + 1
          BY <3>2, <3>3
        <5> QED BY <3>2, <4>1, <4>2, <5>1, <5>2, <5>3, <5>4
      <4>3. CASE a \in 1 .. Len(h) /\ b \in 1 .. Len(h)
        <5>1. h[a] = h[b]
          BY <3>2, <4>3
        <5> QED BY <2>4, <4>3, <5>1 DEF Distinct
      <4>4. a \in 1 .. Len(h) \/ a = Len(h) + 1
        BY <3>2, <3>3
      <4>5. b \in 1 .. Len(h) \/ b = Len(h) + 1
        BY <3>2, <3>3
      <4> QED BY <4>2, <4>3, <4>4, <4>5
    <3>7. Good(n)
      BY <3>2, <3>4, <3>5, <3>6
    <3> QED BY <3>7, <2>2
  <2>7. CASE s[n] \notin S
    <3>1. f[n] = h
      BY <2>5, <2>7
    <3>2. \A i \in 1 .. Len(h) : \E j \in 1 .. n : h[i] = s[j] /\ s[j] \in S
      <4> TAKE i \in 1 .. Len(h)
      <4>1. PICK j \in 1 .. n - 1 : h[i] = s[j] /\ s[j] \in S
        BY <2>4
      <4>2. j \in 1 .. n
        BY <2>4
      <4> QED BY <4>1, <4>2
    <3>3. \A j \in 1 .. n : s[j] \in S => \E i \in 1 .. Len(h) : h[i] = s[j]
      <4> SUFFICES ASSUME NEW j \in 1 .. n, s[j] \in S PROVE \E i \in 1 .. Len(h) : h[i] = s[j]
        OBVIOUS
      <4>1. j \in 1 .. n - 1
        BY <2>4, <2>7
      <4> QED BY <2>4, <4>1
    <3>4. Good(n)
      BY <2>4, <3>1, <3>2, <3>3
    <3> QED BY <3>4, <2>2
  <2> QED BY <2>6, <2>7
<1>3. Good(Len(s))
  <2>1. Len(s) \in 0 .. Len(s)
    OBVIOUS
  <2> QED BY <1>2, <2>1
<1> DEFINE k == Kept(s, S)
<1>4. /\ k \in Seq(Task)
      /\ \A i \in 1 .. Len(k) : \E j \in 1 .. Len(s) : k[i] = s[j] /\ s[j] \in S
      /\ \A j \in 1 .. Len(s) : s[j] \in S => \E i \in 1 .. Len(k) : k[i] = s[j]
      /\ Distinct(s) => Distinct(k)
  BY <1>1, <1>3
<1> HIDE DEF k
<1>5. Range(k) = Range(s) \cap S
  <2>1. Range(k) = {k[i] : i \in 1 .. Len(k)}
    BY <1>4 DEF Range
  <2>2. Range(s) = {s[i] : i \in 1 .. Len(s)}
    BY DEF Range
  <2>3. ASSUME NEW x \in Range(k) PROVE x \in Range(s) \cap S
    <3>1. PICK i \in 1 .. Len(k) : x = k[i]
      BY <2>1
    <3> QED BY <1>4, <2>2, <3>1
  <2>4. ASSUME NEW x \in Range(s) \cap S PROVE x \in Range(k)
    <3>1. PICK j \in 1 .. Len(s) : x = s[j]
      BY <2>2
    <3>2. PICK i \in 1 .. Len(k) : k[i] = s[j]
      BY <1>4, <3>1
    <3> QED BY <2>1, <3>1, <3>2
  <2> QED BY <2>3, <2>4
<1>6. IsInjective(s) => IsInjective(k)
  <2>1. DOMAIN s = 1 .. Len(s) /\ DOMAIN k = 1 .. Len(k)
    BY <1>4, LenProperties
  <2>2. Distinct(s) => Distinct(k)
    BY <1>4
  <2> QED BY <2>1, <2>2 DEF Distinct, IsInjective
<1> QED BY <1>4, <1>5, <1>6 DEF k

-----------------------------------------------------------------------------
LEMMA DistinctCounts ==
    ASSUME NEW s \in Seq(Task), IsInjective(s)
    PROVE  IsFiniteSet(Range(s)) /\ Cardinality(Range(s)) = Len(s)
<1>1. s \in [1 .. Len(s) -> Range(s)] /\ Len(s) \in Nat
  BY DEF Range
<1>2. s \in Bijection(1 .. Len(s), Range(s))
  BY <1>1 DEF Bijection, Injection, Surjection, Range, IsInjective
<1>3. ExistsBijection(1 .. Len(s), Range(s))
  BY <1>2 DEF ExistsBijection
<1>4. Cardinality(Range(s)) = Len(s)
  BY <1>1, <1>3, FS_CountingElements
<1>5. IsFiniteSet(Range(s))
  BY <1>1, <1>3, FS_NatBijection
<1> QED BY <1>4, <1>5

\* What a pruning removes: all it has found, or just enough of them.
LEMMA SurplusGoes ==
    ASSUME NEW old \in Seq(Task), IsInjective(old),
           tracked \in Seq(Task), IsInjective(tracked), MaxTasks \in Nat
    PROVE  LET here == Kept(old, Range(tracked))
               gone == Range(SubSeq(here, 1, Surplus(old)))
               left == Kept(tracked, Task \ gone)
           IN  /\ left \in Seq(Task) /\ IsInjective(left) /\ Range(left) = Range(tracked) \ gone
               /\ Len(left) > MaxTasks => gone = Range(old) \cap Range(tracked)
               /\ Len(left) <= Len(tracked)
<1> DEFINE here == Kept(old, Range(tracked))
           n == Surplus(old)
           gone == Range(SubSeq(here, 1, n))
           left == Kept(tracked, Task \ gone)
<1>1. here \in Seq(Task) /\ IsInjective(here) /\ Range(here) = Range(old) \cap Range(tracked)
  BY KeptTakes
<1>2. left \in Seq(Task) /\ IsInjective(left) /\ Range(left) = Range(tracked) \cap (Task \ gone)
  BY KeptTakes
<1>3. Range(tracked) \subseteq Task
  BY DEF Range
<1>4. Len(tracked) \in Nat /\ Len(here) \in Nat
  BY <1>1
<1>5. n \in 0 .. Len(here) /\ (n = Len(here) \/ n = Len(tracked) - MaxTasks \/ Len(tracked) <= MaxTasks)
  BY <1>4 DEF Surplus
<1> DEFINE first == SubSeq(here, 1, n)
<1> HIDE DEF here, n, left
<1>6. first \in Seq(Task) /\ Len(first) = n /\ \A i \in 1 .. n : first[i] = here[i]
  BY <1>1, <1>5
<1>7. IsInjective(first)
  BY <1>1, <1>4, <1>5, <1>6 DEF IsInjective
<1>8. Range(first) \subseteq Range(here)
  BY <1>1, <1>4, <1>5, <1>6 DEF Range
<1>9. IsFiniteSet(gone) /\ Cardinality(gone) = n
  BY <1>6, <1>7, DistinctCounts
<1>10. IsFiniteSet(Range(tracked)) /\ Cardinality(Range(tracked)) = Len(tracked)
  BY DistinctCounts
<1>11. Cardinality(Range(left)) = Len(left)
  BY <1>2, DistinctCounts
<1>12. Range(left) = Range(tracked) \ gone
  BY <1>2, <1>3
<1>13. Range(tracked) \cap gone = gone
  BY <1>1, <1>8
<1>14. Cardinality(Range(tracked) \ gone) = Cardinality(Range(tracked)) - Cardinality(Range(tracked) \cap gone)
  BY <1>10, FS_Difference
<1>15. Len(left) = Len(tracked) - n
  BY <1>9, <1>10, <1>11, <1>12, <1>13, <1>14
<1>16. Len(left) > MaxTasks => gone = Range(old) \cap Range(tracked)
  <2> SUFFICES ASSUME Len(left) > MaxTasks PROVE gone = Range(old) \cap Range(tracked)
    OBVIOUS
  <2>1. n = Len(here)
    BY <1>4, <1>5, <1>15
  <2>2. first = here
    BY <1>1, <1>4, <1>6, <2>1
  <2> QED BY <1>1, <2>2
<1>17. Len(left) <= Len(tracked)
  BY <1>4, <1>5, <1>15
<1>18. left \in Seq(Task) /\ IsInjective(left)
  BY <1>2
<1> QED BY <1>12, <1>16, <1>17, <1>18 DEF here, n, left

-----------------------------------------------------------------------------
TasksSpec == TasksInit /\ [][TasksNext]_tasksVars

\* What the variables of the tracker, the prunings, the reports and the turn hold.
TasksShapes ==
    /\ tracked \in Seq(Task)
    /\ prune = [p \in Pruner |-> prune[p]] /\ waiter = [w \in Waiter |-> waiter[w]]
    /\ \A w \in Waiter :
           waiter[w] \in [at : {"idle"}] \cup [at : {"armed", "asleep", "told"}, on : Terminal]
    /\ \A p \in Pruner : prune[p].at = "found" =>
           prune[p].old \in Seq(Task) /\ IsInjective(prune[p].old)
    /\ report.at # "idle" => report.task \in Observed /\ report.state \in {"running", "final"}
    /\ turn.at = "settling" =>
           turn \in [at : {"settling"}, left : Seq(Observed), changed : BOOLEAN]

\* Who is about to register a task has one that is not registered.
TrackedOnce ==
    /\ \A t \in Terminal : birth[t] \in {"none", "spawned"} => ~Indexed(t)
    /\ report.at = "made" => ~Indexed(report.task)
    /\ \A x \in Observed : Indexed(x) => state[x] # "none"

\* A finished terminal of a queue over the limit is what somebody will prune.
PrunersCover ==
    Len(tracked) > MaxTasks =>
        \A t \in Terminal : Indexed(t) /\ Finished(t) =>
            \E p \in Pruner : \/ prune[p].at = "due"
                              \/ prune[p].at = "found" /\ t \in Range(prune[p].old)

\* After a turn whose answer came nothing reports, and who is not settled will be.
TurnSettles ==
    ~forced /\ turn.at # "running" =>
        /\ report.at = "idle"
        /\ turn.at = "idle" => \A x \in Observed : Indexed(x) => Finished(x)
        /\ turn.at = "settling" =>
               \A x \in Observed : Indexed(x) => Finished(x) \/ x \in Range(turn.left)

TasksInv == TasksTypeOK /\ TasksShapes /\ TrackedOnce /\ PrunersCover /\ TurnSettles

LEMMA TasksInvStarts == TasksInit => TasksInv
<1> SUFFICES ASSUME TasksInit PROVE TasksInv
  OBVIOUS
<1>1. Range(tracked) = {} /\ tracked \in Seq(Task) /\ Len(tracked) = 0 /\ IsInjective(tracked)
  BY DEF TasksInit, Range, IsInjective
<1>2. TasksTypeOK
  BY <1>1 DEF TasksInit, TasksTypeOK, Idle
<1>3. TasksShapes
  BY <1>1 DEF TasksInit, TasksShapes, Idle
<1>4. TrackedOnce /\ PrunersCover /\ TurnSettles
  BY <1>1, TasksAssumption DEF TasksInit, TrackedOnce, PrunersCover, TurnSettles, Indexed, Idle
<1> QED BY <1>2, <1>3, <1>4 DEF TasksInv

\* A step that leaves the queue, the states and the marks alone disturbs nothing.
LEMMA TasksQuiet ==
    ASSUME TasksInv, TasksTypeOK', UNCHANGED <<state, tracked, prune, report, turn, forced>>,
           waiter' = [w \in Waiter |-> waiter'[w]],
           \A w \in Waiter : waiter'[w] \in
               [at : {"idle"}] \cup [at : {"armed", "asleep", "told"}, on : Terminal],
           \A t \in Terminal : birth'[t] \in {"none", "spawned"} => birth[t] \in {"none", "spawned"}
    PROVE  TasksInv'
<1>1. TasksShapes'
  BY DEF TasksInv, TasksShapes
<1>2. TrackedOnce'
  BY DEF TasksInv, TrackedOnce, Indexed
<1>3. PrunersCover' /\ TurnSettles'
  BY DEF TasksInv, PrunersCover, TurnSettles, Indexed, Finished
<1> QED BY <1>1, <1>2, <1>3 DEF TasksInv

LEMMA TerminalQuiet ==
    ASSUME TasksInv, NEW t \in Terminal,
           \/ SpawnTerminal(t) \/ UseTerminal(t) \/ TakeSignal(t) \/ ProcessEnds(t)
           \/ KillTerminal(t) \/ StopChatTask(t) \/ ReleaseTerminal(t)
           \/ \E w \in Waiter : ArmWaiter(w, t)
    PROVE  TasksInv'
<1> USE DEF TasksInv, TasksTypeOK, TasksShapes
<1>1. CASE SpawnTerminal(t)
  <2>1. TasksTypeOK'
    BY <1>1 DEF SpawnTerminal, Task
  <2>2. TasksShapes' /\ ~Indexed(t)
    BY <1>1 DEF SpawnTerminal, TrackedOnce
  <2>3. TrackedOnce'
    BY <1>1, TasksAssumption DEF SpawnTerminal, TrackedOnce, Indexed, Task
  <2>4. PrunersCover'
    BY <1>1, <2>2 DEF SpawnTerminal, PrunersCover, Indexed, Finished, Task
  <2>5. TurnSettles'
    BY <1>1, TasksAssumption DEF SpawnTerminal, TurnSettles, Indexed, Finished, Task
  <2> QED BY <2>1, <2>2, <2>3, <2>4, <2>5
<1>2. CASE UseTerminal(t)
  <2>1. TasksTypeOK'
    BY <1>2 DEF UseTerminal
  <2>2. TrackedOnce'
    BY <1>2 DEF UseTerminal, TrackedOnce, Indexed
  <2> QED BY <1>2, <2>1, TasksQuiet DEF UseTerminal
<1>3. CASE TakeSignal(t)
  <2>1. TasksTypeOK'
    BY <1>3 DEF TakeSignal
  <2> QED BY <1>3, <2>1, TasksQuiet DEF TakeSignal
<1>4. CASE ProcessEnds(t)
  <2>1. TasksTypeOK'
    BY <1>4 DEF ProcessEnds
  <2> QED BY <1>4, <2>1, TasksQuiet DEF ProcessEnds
<1>5. CASE KillTerminal(t)
  <2>1. TasksTypeOK'
    BY <1>5 DEF KillTerminal, StopAll
  <2> QED BY <1>5, <2>1, TasksQuiet DEF KillTerminal
<1>6. CASE StopChatTask(t)
  <2>1. TasksTypeOK'
    BY <1>6 DEF StopChatTask, StopAll
  <2> QED BY <1>6, <2>1, TasksQuiet DEF StopChatTask
<1>7. CASE ReleaseTerminal(t)
  <2>1. TasksTypeOK'
    BY <1>7 DEF ReleaseTerminal, StopAll
  <2> QED BY <1>7, <2>1, TasksQuiet DEF ReleaseTerminal
<1>8. CASE \E w \in Waiter : ArmWaiter(w, t)
  <2>1. PICK w \in Waiter : ArmWaiter(w, t)
    BY <1>8
  <2>2. waiter' = [v \in Waiter |-> IF v = w THEN [at |-> "armed", on |-> t] ELSE waiter[v]]
    BY <2>1 DEF ArmWaiter
  <2>3. \A v \in Waiter : waiter'[v] \in
            [at : {"idle"}] \cup [at : {"armed", "asleep", "told"}, on : Terminal]
    BY <2>2
  <2>4. TasksTypeOK'
    BY <2>1, <2>2 DEF ArmWaiter, terms
  <2> QED BY <2>1, <2>2, <2>3, <2>4, TasksQuiet DEF ArmWaiter, terms
<1> QED BY <1>1, <1>2, <1>3, <1>4, <1>5, <1>6, <1>7, <1>8

LEMMA RestQuiet ==
    ASSUME TasksInv, \/ \E w \in Waiter : LookForExit(w)
                     \/ DrainTerminals \/ StopDrained
    PROVE  TasksInv'
<1> USE DEF TasksInv, TasksTypeOK, TasksShapes
<1>1. CASE \E w \in Waiter : LookForExit(w)
  <2>1. PICK w \in Waiter : LookForExit(w)
    BY <1>1
  <2>2. waiter[w] \in [at : {"armed", "asleep", "told"}, on : Terminal]
    BY <2>1 DEF LookForExit
  <2> DEFINE told == IF exit[waiter[w].on] THEN "told" ELSE "asleep"
  <2>3. waiter' = [v \in Waiter |-> IF v = w THEN [at |-> told, on |-> waiter[w].on] ELSE waiter[v]]
    <3>1. waiter' = [waiter EXCEPT ![w].at = told]
      BY <2>1 DEF LookForExit
    <3>2. [waiter[w] EXCEPT !.at = told] = [at |-> told, on |-> waiter[w].on]
      <4> HIDE DEF told
      <4> QED BY <2>2
    <3> HIDE DEF told
    <3> QED BY <3>1, <3>2
  <2>4. waiter' = [v \in Waiter |-> waiter'[v]] /\ \A v \in Waiter : waiter'[v] \in
            [at : {"idle"}] \cup [at : {"armed", "asleep", "told"}, on : Terminal]
    BY <2>2, <2>3
  <2>5. \A v \in Waiter : waiter'[v].at \in {"idle", "armed", "asleep", "told"}
    BY <2>4
  <2> HIDE DEF TasksShapes
  <2>6. TasksTypeOK'
    BY <2>1, <2>5 DEF LookForExit, terms
  <2> QED BY <2>1, <2>4, <2>6, TasksQuiet DEF LookForExit, terms
<1>2. CASE DrainTerminals
  <2>1. TasksTypeOK'
    BY <1>2 DEF DrainTerminals
  <2> QED BY <1>2, <2>1, TasksQuiet DEF DrainTerminals
<1>3. CASE StopDrained
  <2>1. TasksTypeOK'
    BY <1>3 DEF StopDrained, StopAll
  <2> QED BY <1>3, <2>1, TasksQuiet DEF StopDrained
<1> QED BY <1>1, <1>2, <1>3

\* What one more at the end of the queue is.
LEMMA OneMore ==
    ASSUME NEW x \in Task, tracked \in Seq(Task), IsInjective(tracked), ~Indexed(x)
    PROVE  LET longer == Append(tracked, x) IN
           longer \in Seq(Task) /\ IsInjective(longer) /\ Range(longer) = Range(tracked) \cup {x}
<1> DEFINE longer == Append(tracked, x)
<1>1. /\ longer \in Seq(Task) /\ Len(longer) = Len(tracked) + 1 /\ Len(tracked) \in Nat
      /\ longer[Len(tracked) + 1] = x /\ \A i \in 1 .. Len(tracked) : longer[i] = tracked[i]
  OBVIOUS
<1> HIDE DEF longer
<1>2. DOMAIN longer = 1 .. (Len(tracked) + 1) /\ DOMAIN tracked = 1 .. Len(tracked)
  BY <1>1
<1>3. \A i \in 1 .. Len(tracked) : tracked[i] # x
  BY <1>2 DEF Indexed, Range
<1>4. \A i \in 1 .. (Len(tracked) + 1) : i \in 1 .. Len(tracked) \/ i = Len(tracked) + 1
  BY <1>1
<1>5. IsInjective(longer)
  BY <1>1, <1>2, <1>3, <1>4 DEF IsInjective
<1>6. Range(longer) = Range(tracked) \cup {x}
  <2>1. \A i \in 1 .. Len(tracked) : i \in DOMAIN longer
    BY <1>1, <1>2
  <2>2. Len(tracked) + 1 \in DOMAIN longer
    BY <1>1, <1>2
  <2> QED BY <1>1, <1>2, <1>4, <2>1, <2>2 DEF Range
<1> QED BY <1>1, <1>5, <1>6 DEF longer

LEMMA RegisterKeeps == ASSUME TasksInv, NEW t \in Terminal, RegisterTask(t) PROVE TasksInv'
<1> USE DEF TasksInv
<1>1. tracked' \in Seq(Task) /\ IsInjective(tracked') /\ Range(tracked') = Range(tracked) \cup {t}
  BY OneMore DEF RegisterTask, TrackedOnce, TasksShapes, TasksTypeOK, Task
<1>2. TasksTypeOK'
  BY <1>1 DEF RegisterTask, TasksTypeOK, Due, TasksShapes, Task
<1>3. prune' = [p \in Pruner |-> IF p = t THEN [at |-> "due"] ELSE prune[p]] /\ t \in Pruner
  BY DEF RegisterTask, Due, TasksShapes, Pruner
<1>4. TasksShapes'
  BY <1>1, <1>3 DEF RegisterTask, TasksShapes
<1>5. TrackedOnce'
  BY <1>1, TasksAssumption DEF RegisterTask, TrackedOnce, Indexed, TasksShapes, TasksTypeOK
<1>6. PrunersCover'
  BY <1>3 DEF PrunersCover
<1>7. TurnSettles'
  BY <1>1, TasksAssumption DEF RegisterTask, TurnSettles, Indexed, Finished
<1> QED BY <1>2, <1>4, <1>5, <1>6, <1>7

LEMMA RecordExitKeeps == ASSUME TasksInv, NEW t \in Terminal, RecordExit(t) PROVE TasksInv'
<1> USE DEF TasksInv
<1>1. prune' = [p \in Pruner |-> IF p = t THEN [at |-> "due"] ELSE prune[p]] /\ t \in Pruner
  BY DEF RecordExit, PruningAfterExit, Due, TasksShapes, Pruner
<1>2. waiter' = [w \in Waiter |-> waiter'[w]] /\ \A w \in Waiter : waiter'[w] \in
          [at : {"idle"}] \cup [at : {"armed", "asleep", "told"}, on : Terminal]
  BY DEF RecordExit, WakeWaiters, TasksShapes
<1>3. TasksTypeOK'
  BY <1>1, <1>2 DEF RecordExit, TasksTypeOK, Task
<1>4. TasksShapes'
  BY <1>1, <1>2 DEF RecordExit, TasksShapes
<1>5. TrackedOnce'
  BY TasksAssumption DEF RecordExit, TrackedOnce, Indexed, TasksTypeOK, Task
<1>6. PrunersCover'
  BY <1>1 DEF PrunersCover
<1>7. TurnSettles'
  BY TasksAssumption DEF RecordExit, TurnSettles, Indexed, Finished, TasksTypeOK, Task
<1> QED BY <1>3, <1>4, <1>5, <1>6, <1>7

LEMMA FindKeeps == ASSUME TasksInv, NEW p \in Pruner, FindFinished(p) PROVE TasksInv'
<1> USE DEF TasksInv
<1> DEFINE done == {x \in Task : Finished(x)}
           old == Kept(tracked, done)
<1>1. old \in Seq(Task) /\ IsInjective(old) /\ Range(old) = Range(tracked) \cap done
  BY KeptTakes DEF TasksShapes, TasksTypeOK
<1> HIDE DEF old
<1>2. prune' = [q \in Pruner |-> IF q # p THEN prune[q]
                                 ELSE IF Len(tracked) > MaxTasks /\ \E x \in Range(tracked) : Finished(x)
                                      THEN [at |-> "found", old |-> old] ELSE [at |-> "idle"]]
  BY DEF FindFinished, TasksShapes, Idle, old
<1>3. TasksTypeOK'
  BY <1>2 DEF FindFinished, TasksTypeOK, terms
<1>4. TasksShapes'
  <2>1. \A q \in Pruner : prune'[q].at = "found" =>
            prune'[q].old \in Seq(Task) /\ IsInjective(prune'[q].old)
    BY <1>1, <1>2 DEF TasksShapes
  <2>2. prune' = [q \in Pruner |-> prune'[q]]
    BY <1>2
  <2> QED BY <2>1, <2>2 DEF FindFinished, TasksShapes, terms
<1>5. TrackedOnce' /\ TurnSettles'
  BY DEF FindFinished, TrackedOnce, TurnSettles, Indexed, Finished, terms
<1>6. PrunersCover'
  <2> SUFFICES ASSUME Len(tracked) > MaxTasks, NEW t \in Terminal, Indexed(t), Finished(t)
               PROVE  prune'[p].at = "found" /\ t \in Range(prune'[p].old)
    BY DEF PrunersCover, FindFinished, Indexed, Finished
  <2>1. t \in Range(tracked) \cap done
    BY DEF Indexed, Task
  <2>2. prune'[p] = [at |-> "found", old |-> old]
    BY <1>2 DEF Indexed
  <2> QED BY <1>1, <2>1, <2>2
<1> QED BY <1>3, <1>4, <1>5, <1>6

LEMMA RemoveKeeps == ASSUME TasksInv, NEW p \in Pruner, RemoveOldest(p) PROVE TasksInv'
<1> USE DEF TasksInv
<1> DEFINE old == prune[p].old
           gone == Range(SubSeq(Kept(old, Range(tracked)), 1, Surplus(old)))
<1>1. prune[p].at = "found" /\ tracked' = Kept(tracked, Task \ gone)
      /\ prune' = [q \in Pruner |-> IF q = p THEN [at |-> "idle"] ELSE prune[q]]
  BY DEF RemoveOldest, TasksShapes, Idle
<1>2. /\ old \in Seq(Task) /\ IsInjective(old)
      /\ tracked \in Seq(Task) /\ IsInjective(tracked) /\ MaxTasks \in Nat
  BY <1>1, TasksAssumption DEF TasksShapes, TasksTypeOK
<1> HIDE DEF old
<1>3. /\ tracked' \in Seq(Task) /\ IsInjective(tracked') /\ Range(tracked') = Range(tracked) \ gone
      /\ Len(tracked') > MaxTasks => gone = Range(old) \cap Range(tracked)
      /\ Len(tracked') <= Len(tracked)
  BY <1>1, <1>2, SurplusGoes
<1> HIDE DEF gone
<1>4. TasksTypeOK'
  <2>1. IsInjective(tracked') /\ Range(tracked') \subseteq Task
    BY <1>3 DEF TasksTypeOK
  <2>2. \A q \in Pruner : prune'[q].at \in {"idle", "due", "found"}
    BY <1>1 DEF TasksTypeOK
  <2> QED BY <2>1, <2>2 DEF RemoveOldest, TasksTypeOK, terms
<1>5. TasksShapes'
  BY <1>1, <1>3 DEF RemoveOldest, TasksShapes, terms
<1>6. TrackedOnce' /\ TurnSettles'
  BY <1>3 DEF RemoveOldest, TrackedOnce, TurnSettles, Indexed, Finished, terms
<1>7. PrunersCover'
  <2> SUFFICES ASSUME Len(tracked') > MaxTasks, NEW t \in Terminal, t \in Range(tracked'), Finished(t)
               PROVE  \E q \in Pruner : \/ prune'[q].at = "due"
                                        \/ prune'[q].at = "found" /\ t \in Range(prune'[q].old)
    BY DEF PrunersCover, RemoveOldest, Indexed, Finished
  <2>1. Len(tracked) > MaxTasks /\ Indexed(t) /\ t \notin Range(old)
    <3>1. Len(tracked) \in Nat /\ Len(tracked') \in Nat
      BY <1>2, <1>3
    <3> QED BY <1>2, <1>3, <3>1 DEF Indexed
  <2>2. PICK q \in Pruner : \/ prune[q].at = "due"
                            \/ prune[q].at = "found" /\ t \in Range(prune[q].old)
    BY <2>1 DEF PrunersCover
  <2>3. q # p
    BY <1>1, <2>1, <2>2 DEF old
  <2> QED BY <1>1, <2>2, <2>3
<1> QED BY <1>4, <1>5, <1>6, <1>7

LEMMA ReadKeeps ==
    ASSUME TasksInv, NEW x \in Observed, NEW r, ReadReport(x, r) PROVE TasksInv'
<1> USE DEF TasksInv
<1>1. /\ report'.at \in {"known", "made", "merge"} /\ report'.task = x
      /\ report'.state \in {"running", "final"}
      /\ report'.at = "made" => ~Indexed(x)
  BY DEF ReadReport, LookedUp, Outcome
<1>2. /\ UNCHANGED <<state, tracked, usable, birth, proc, signal, exit, waiter, prune>>
      /\ UNCHANGED <<turn, forced, stopping>> /\ turn.at = "running"
  BY DEF ReadReport, terms
<1>3. TasksTypeOK' /\ TasksShapes'
  BY <1>1, <1>2 DEF TasksTypeOK, TasksShapes
<1>4. TrackedOnce' /\ PrunersCover' /\ TurnSettles'
  BY <1>1, <1>2 DEF TrackedOnce, PrunersCover, TurnSettles, Indexed, Finished
<1> QED BY <1>3, <1>4

LEMMA ReportUpdateKeeps == ASSUME TasksInv, UpdateObserved PROVE TasksInv'
<1> USE DEF TasksInv
<1> DEFINE x == report.task
<1>1. x \in Observed /\ report.state \in {"running", "final"}
  BY DEF UpdateObserved, TasksShapes
<1>2. state' = [y \in Task |-> IF y = x /\ ~Finished(x) THEN report.state ELSE state[y]]
  BY <1>1 DEF UpdateObserved, RecordState, TasksTypeOK, Finished
<1>3. prune' = [p \in Pruner |-> IF p = "reader" /\ prune'["reader"] = [at |-> "due"]
                                 THEN [at |-> "due"] ELSE prune[p]]
  BY DEF UpdateObserved, Due, TasksShapes
<1>4. /\ UNCHANGED <<tracked, usable, birth, proc, signal, exit, waiter, turn, forced, stopping>>
      /\ report' = [at |-> "idle"]
  BY DEF UpdateObserved, terms, Idle
<1>5. TasksTypeOK'
  BY <1>1, <1>2, <1>3, <1>4 DEF TasksTypeOK
<1>6. TasksShapes'
  BY <1>3, <1>4 DEF TasksShapes
<1>7. TrackedOnce'
  BY <1>1, <1>2, <1>4 DEF TrackedOnce, Indexed, Task
<1>8. \A t \in Terminal : Finished(t)' = Finished(t)
  BY <1>1, <1>2, TasksAssumption DEF Finished, Task
<1>9. PrunersCover'
  <2> SUFFICES ASSUME Len(tracked) > MaxTasks, NEW t \in Terminal, Indexed(t), Finished(t)
               PROVE  \E p \in Pruner : \/ prune'[p].at = "due"
                                        \/ prune'[p].at = "found" /\ t \in Range(prune'[p].old)
    BY <1>4, <1>8 DEF PrunersCover, Indexed
  <2>1. PICK p \in Pruner : \/ prune[p].at = "due"
                            \/ prune[p].at = "found" /\ t \in Range(prune[p].old)
    BY DEF PrunersCover
  <2>2. prune'[p] = prune[p] \/ prune'[p] = [at |-> "due"]
    BY <1>3
  <2> QED BY <2>1, <2>2
<1>10. TurnSettles'
  BY <1>1, <1>2, <1>4 DEF TurnSettles, Indexed, Finished, Task
<1> QED BY <1>5, <1>6, <1>7, <1>9, <1>10

LEMMA ReportInsertKeeps == ASSUME TasksInv, InsertObserved PROVE TasksInv'
<1> USE DEF TasksInv
<1> DEFINE x == report.task
<1>1. x \in Observed /\ x \in Task /\ report.state \in {"running", "final"} /\ ~Indexed(x)
      /\ report.at = "made"
  BY DEF InsertObserved, TasksShapes, TrackedOnce, Task
<1>2. tracked' \in Seq(Task) /\ IsInjective(tracked') /\ Range(tracked') = Range(tracked) \cup {x}
  BY <1>1, OneMore DEF InsertObserved, TasksShapes, TasksTypeOK
<1>3. state' = [y \in Task |-> IF y = x THEN report.state ELSE state[y]]
  BY <1>1 DEF InsertObserved, TasksTypeOK
<1>4. "reader" \in Pruner
      /\ prune' = [p \in Pruner |-> IF p = "reader" THEN [at |-> "due"] ELSE prune[p]]
  BY DEF InsertObserved, Due, TasksShapes, Pruner
<1>5. /\ UNCHANGED <<usable, birth, proc, signal, exit, waiter, turn, forced, stopping>>
      /\ report' = [at |-> "idle"]
  BY DEF InsertObserved, terms, Idle
<1> HIDE DEF x
<1>6. TasksTypeOK'
  BY <1>1, <1>2, <1>3, <1>4, <1>5 DEF TasksTypeOK
<1>7. TasksShapes'
  BY <1>2, <1>4, <1>5 DEF TasksShapes
<1>8. TrackedOnce'
  BY <1>1, <1>2, <1>3, <1>5, TasksAssumption DEF TrackedOnce, Indexed, Task
<1>9. PrunersCover'
  BY <1>4 DEF PrunersCover
<1>10. TurnSettles'
  BY <1>1, <1>5 DEF TurnSettles
<1> QED BY <1>6, <1>7, <1>8, <1>9, <1>10

LEMMA TurnKeeps ==
    ASSUME TasksInv, TurnStarts \/ TurnEnds \/ BeginSettle \/ SettleOne \/ EndSettle
    PROVE  TasksInv'
<1> USE DEF TasksInv
<1>1. CASE TurnStarts
  <2>1. TasksTypeOK' /\ TasksShapes'
    BY <1>1 DEF TurnStarts, TasksTypeOK, TasksShapes, terms
  <2> QED BY <1>1, <2>1 DEF TurnStarts, TrackedOnce, PrunersCover, TurnSettles, Indexed, Finished, terms
<1>2. CASE TurnEnds
  <2>1. TasksTypeOK' /\ TasksShapes'
    BY <1>2 DEF TurnEnds, TasksTypeOK, TasksShapes, terms
  <2>2. TurnSettles'
    BY <1>2 DEF TurnEnds, TurnSettles, Idle
  <2> QED BY <1>2, <2>1, <2>2 DEF TurnEnds, TrackedOnce, PrunersCover, Indexed, Finished, terms
<1>3. CASE BeginSettle
  <2> DEFINE left == Kept(tracked, Observed)
  <2>1. left \in Seq(Task) /\ Range(left) = Range(tracked) \cap Observed
    BY KeptTakes DEF TasksShapes
  <2>2. turn' = [at |-> "settling", left |-> left, changed |-> FALSE]
    BY <1>3 DEF BeginSettle
  <2> HIDE DEF left
  <2>3. left \in Seq(Observed)
    <3>1. \A i \in 1 .. Len(left) : left[i] \in Observed
      BY <2>1 DEF Range
    <3> QED BY <2>1, <3>1
  <2>4. /\ UNCHANGED <<state, tracked, usable, birth, proc, signal, exit, waiter, prune, report>>
        /\ UNCHANGED <<forced, stopping>> /\ turn.at = "ending"
    BY <1>3 DEF BeginSettle, terms
  <2>5. TasksTypeOK' /\ TasksShapes'
    BY <2>2, <2>3, <2>4 DEF TasksTypeOK, TasksShapes
  <2>6. TurnSettles'
    BY <2>1, <2>2, <2>4 DEF TurnSettles, Indexed
  <2> QED BY <2>4, <2>5, <2>6 DEF TrackedOnce, PrunersCover, Indexed, Finished
<1>4. CASE SettleOne
  <2> DEFINE x == Head(turn.left)
  <2>1. turn.at = "settling" /\ turn.left \in Seq(Observed) /\ turn.left # <<>>
        /\ turn \in [at : {"settling"}, left : Seq(Observed), changed : BOOLEAN]
    BY <1>4 DEF SettleOne, AnyLeft, TasksShapes
  <2>2. x \in Observed /\ x \in Task /\ Tail(turn.left) \in Seq(Observed)
    BY <2>1 DEF Task
  <2>3. \A y \in Range(turn.left) : y = x \/ y \in Range(Tail(turn.left))
    <3> TAKE y \in Range(turn.left)
    <3>1. PICK i \in 1 .. Len(turn.left) : y = turn.left[i]
      BY <2>1 DEF Range
    <3>2. CASE i = 1
      BY <2>1, <3>1, <3>2
    <3>3. CASE i # 1
      <4>1. i - 1 \in 1 .. Len(Tail(turn.left)) /\ Tail(turn.left)[i - 1] = y
        BY <2>1, <3>1, <3>3
      <4> DEFINE rest == Tail(turn.left)
      <4>2. rest \in Seq(Observed) /\ i - 1 \in 1 .. Len(rest) /\ rest[i - 1] = y
        BY <2>2, <4>1
      <4> HIDE DEF rest
      <4>3. y \in Range(rest)
        BY <4>2 DEF Range
      <4> QED BY <4>3 DEF rest
    <3> QED BY <3>2, <3>3
  <2>4. state' = [y \in Task |-> IF y = x /\ state[x] = "running" THEN "final" ELSE state[y]]
    BY <1>4, <2>2 DEF SettleOne, RecordState, Finished, TasksTypeOK
  <2>5. turn' = [at |-> "settling", left |-> Tail(turn.left),
                 changed |-> turn.changed \/ state[x] = "running"]
    BY <1>4, <2>1 DEF SettleOne
  <2>6. /\ UNCHANGED <<tracked, usable, birth, proc, signal, exit, waiter, prune, report>>
        /\ UNCHANGED <<forced, stopping>>
    BY <1>4 DEF SettleOne, terms
  <2> HIDE DEF x
  <2>7. TasksTypeOK'
    BY <2>2, <2>4, <2>5, <2>6 DEF TasksTypeOK
  <2>8. TasksShapes'
    BY <2>1, <2>2, <2>5, <2>6 DEF TasksShapes
  <2>9. TrackedOnce'
    BY <2>2, <2>4, <2>6 DEF TrackedOnce, Indexed, Task
  <2>10. PrunersCover'
    BY <2>2, <2>4, <2>6, TasksAssumption DEF PrunersCover, Indexed, Finished, Task
  <2>11. TurnSettles'
    <3> SUFFICES ASSUME ~forced
                 PROVE  /\ report.at = "idle"
                        /\ \A y \in Observed : Indexed(y) =>
                               state'[y] = "final" \/ y \in Range(Tail(turn.left))
      BY <2>5, <2>6 DEF TurnSettles, Indexed, Finished
    <3>1. report.at = "idle"
      BY <2>1 DEF TurnSettles
    <3>2. ASSUME NEW y \in Observed, Indexed(y)
          PROVE  state'[y] = "final" \/ y \in Range(Tail(turn.left))
      <4>1. state[y] = "final" \/ y \in Range(turn.left)
        BY <2>1, <3>2 DEF TurnSettles, Finished
      <4>2. y \in Task /\ state[y] \in {"running", "final"}
        BY <3>2 DEF TrackedOnce, TasksTypeOK, Task
      <4> QED BY <2>3, <2>4, <4>1, <4>2
    <3> QED BY <3>1, <3>2
  <2> QED BY <2>7, <2>8, <2>9, <2>10, <2>11
<1>5. CASE EndSettle
  <2>1. turn.at = "settling" /\ turn.left = <<>> /\ turn' = [at |-> "idle"]
    BY <1>5 DEF EndSettle, AnyLeft, Idle
  <2>2. prune' = [p \in Pruner |-> IF p = "turn" /\ prune'["turn"] = [at |-> "due"]
                                   THEN [at |-> "due"] ELSE prune[p]]
    BY <1>5 DEF EndSettle, Due, TasksShapes
  <2>3. /\ UNCHANGED <<state, tracked, usable, birth, proc, signal, exit, waiter, report>>
        /\ UNCHANGED <<forced, stopping>>
    BY <1>5 DEF EndSettle, terms
  <2>4. TasksTypeOK' /\ TasksShapes'
    <3>1. \A p \in Pruner : prune'[p] = prune[p] \/ prune'[p] = [at |-> "due"]
      BY <2>2
    <3>2. prune' = [p \in Pruner |-> prune'[p]]
      BY <2>2
    <3>3. TasksTypeOK'
      BY <2>1, <2>3, <3>1 DEF TasksTypeOK
    <3>4. TasksShapes'
      BY <2>1, <2>3, <3>1, <3>2 DEF TasksShapes
    <3> QED BY <3>3, <3>4
  <2>5. PrunersCover'
    <3> SUFFICES ASSUME Len(tracked) > MaxTasks, NEW t \in Terminal, Indexed(t), Finished(t)
                 PROVE  \E p \in Pruner : \/ prune'[p].at = "due"
                                          \/ prune'[p].at = "found" /\ t \in Range(prune'[p].old)
      BY <2>3 DEF PrunersCover, Indexed, Finished
    <3>1. PICK p \in Pruner : \/ prune[p].at = "due"
                              \/ prune[p].at = "found" /\ t \in Range(prune[p].old)
      BY DEF PrunersCover
    <3>2. prune'[p] = prune[p] \/ prune'[p] = [at |-> "due"]
      BY <2>2
    <3> QED BY <3>1, <3>2
  <2>6. TurnSettles'
    <3>1. Range(turn.left) = {}
      BY <2>1 DEF Range
    <3> QED BY <2>1, <2>3, <3>1 DEF TurnSettles, Indexed, Finished
  <2> QED BY <2>3, <2>4, <2>5, <2>6 DEF TrackedOnce, Indexed
<1> QED BY <1>1, <1>2, <1>3, <1>4, <1>5

LEMMA ForgetKeeps == ASSUME TasksInv, ForgetChat PROVE TasksInv'
<1> USE DEF TasksInv
<1>1. tracked' = <<>> /\ Range(tracked') = {} /\ IsInjective(tracked') /\ Len(tracked') = 0
      /\ tracked' \in Seq(Task)
  BY DEF ForgetChat, Range, IsInjective
<1>2. UNCHANGED <<state, usable, birth, proc, signal, exit, waiter, prune, report, turn, forced, stopping>>
  BY DEF ForgetChat, terms
<1>3. TasksTypeOK' /\ TasksShapes'
  BY <1>1, <1>2 DEF TasksTypeOK, TasksShapes
<1>4. TrackedOnce' /\ PrunersCover' /\ TurnSettles'
  BY <1>1, <1>2, TasksAssumption DEF TrackedOnce, PrunersCover, TurnSettles, Indexed
<1> QED BY <1>3, <1>4

\* However exits, prunings, reports and the ends of turns race, the list of tasks settles
\* (tasks/mod.rs:464-508, 313-353): a queue over the limit keeps no finished terminal when
\* no pruning is under way, and a turn whose answer came leaves no observed task running,
\* for any number of terminals, commands and waiters and every limit.
THEOREM TasksSettleAlways == TasksSpec => []TasksSettle
<1>1. TasksInit => TasksInv
  BY TasksInvStarts
<1>2. TasksInv /\ [TasksNext]_tasksVars => TasksInv'
  <2> SUFFICES ASSUME TasksInv, [TasksNext]_tasksVars PROVE TasksInv'
    OBVIOUS
  <2>1. ASSUME NEW t \in Terminal, TerminalStep(t) PROVE TasksInv'
    BY <2>1, RegisterKeeps, TerminalQuiet, RecordExitKeeps DEF TerminalStep
  <2>2. CASE UNCHANGED tasksVars
    <3>1. UNCHANGED <<state, tracked, usable, birth, proc, signal, exit, waiter, prune, report,
                      turn, forced, stopping>>
      BY <2>2 DEF tasksVars, terms
    <3>2. TasksTypeOK' /\ TasksShapes'
      BY <3>1 DEF TasksInv, TasksTypeOK, TasksShapes
    <3> QED BY <3>1, <3>2, TasksQuiet DEF TasksShapes
  <2>3. CASE TasksNext
    BY <2>1, <2>3, TerminalQuiet, RestQuiet, FindKeeps, RemoveKeeps, ReadKeeps, ReportUpdateKeeps,
       ReportInsertKeeps, TurnKeeps, ForgetKeeps DEF TasksNext, ReportStep, TurnStep
  <2> QED BY <2>2, <2>3
<1>3. TasksInv => TasksSettle
  <2> SUFFICES ASSUME TasksInv PROVE TasksSettle
    OBVIOUS
  <2>1. OnlyRunningOverLimit
    BY DEF TasksInv, PrunersCover, OnlyRunningOverLimit, Idle
  <2>2. TurnLeavesNoneRunning
    BY DEF TasksInv, TurnSettles, TurnLeavesNoneRunning, Idle
  <2> QED BY <2>1, <2>2 DEF TasksSettle, TasksInv
<1> QED BY <1>1, <1>2, <1>3, PTL DEF TasksSpec

-----------------------------------------------------------------------------
(* FormContent.  An answer is computed in one step from the question: what *)
(* is in it of each field was checked by the type of that field.           *)

FcSpec == FcInit /\ [][FcNext]_fcVars

\* What the question is made of, and what an answer was made from.
FcInv ==
    /\ FcTypeOK
    /\ question.is = "form" => question.form \in Forms /\ question.given \in Contents
    /\ answer.out = "content" =>
        /\ question.is = "form" /\ ~Refuses(question.form, question.given)
        /\ answer.content = Filled(question.form, question.given)
    /\ question.is = "file" => question.text \in Files /\ question.line \in Option /\ question.limit \in Option
    /\ answer.out = "text" =>
        /\ question.is = "file" /\ 0 <= Start /\ Start <= Len(LinesOf(question.text))
        /\ answer.text = Window(question.text, Start, question.limit)

\* A float without a fraction is twice the integer it is cast to.
LEMMA WholeFloat == ASSUME NEW n \in Int, n % 2 = 0 PROVE n \div 2 \in Int /\ 2 * (n \div 2) = n
OBVIOUS

\* A number is within the bounds of its field, and the one that was given unless that
\* is the float above the largest integer.
NumberFits(p, v, w) ==
    /\ 2 * p.min <= Halves(w) /\ Halves(w) <= 2 * p.max
    /\ Halves(w) = Halves(v) \/ (w.n = MaxInt /\ Halves(v) = 2 * (MaxInt + 1))

LEMMA IntegerField ==
    ASSUME NEW p, NEW v, MaxInt \in Nat, p.min \in Int, p.max \in Int,
           v.is = "integer" => v.n \in MinInt..MaxInt, v.is = "number" => v.n \in Int,
           TakenAsInteger(v), Between(AsInteger(v).n, p)
    PROVE  AsInteger(v).is = "integer" /\ NumberFits(p, v, AsInteger(v))
<1> DEFINE w == AsInteger(v)
<1>1. CASE v.is = "integer"
  <2>1. w = [is |-> "integer", n |-> v.n] /\ v.n \in Int
    BY <1>1 DEF AsInteger, MinInt
  <2> QED BY <1>1, <2>1 DEF NumberFits, Halves, Between
<1>2. CASE v.is # "integer"
  <2> DEFINE n == v.n \div 2
  <2>1. v.is = "number" /\ v.n \in Int /\ v.n % 2 = 0 /\ n \in MinInt..(MaxInt + 1)
    BY <1>2 DEF TakenAsInteger
  <2>2. n \in Int /\ 2 * n = v.n
    BY <2>1, WholeFloat
  <2>3. w = [is |-> "integer", n |-> IF n > MaxInt THEN MaxInt ELSE n]
    BY <1>2 DEF AsInteger
  <2> HIDE DEF n, w
  <2>4. w.is = "integer" /\ w.n \in Int /\ (w.n = n \/ (w.n = MaxInt /\ n = MaxInt + 1))
    BY <2>1, <2>2, <2>3
  <2>5. Halves(w) = 2 * w.n /\ Halves(v) = 2 * n
    BY <1>2, <2>2, <2>4 DEF Halves
  <2>6. p.min <= w.n /\ w.n <= p.max
    BY DEF Between, w
  <2> QED BY <2>2, <2>4, <2>5, <2>6 DEF NumberFits, w
<1> QED BY <1>1, <1>2

\* What a field takes has its type, and a number fits.
LEMMA FieldFits ==
    ASSUME NEW p, NEW v, MaxInt \in Nat, p.min \in Int, p.max \in Int,
           v.is = "integer" => v.n \in MinInt..MaxInt, v.is = "number" => v.n \in Int,
           FieldTakes(p, v)
    PROVE  /\ AsTyped(p, v).is = p.is
           /\ p.is \in {"integer", "number"} => NumberFits(p, v, AsTyped(p, v))
<1>1. CASE p.is = "integer"
  BY <1>1, IntegerField DEF FieldTakes, AsTyped
<1>2. CASE p.is = "number"
  <2>1. 2 * p.min <= Halves(v) /\ Halves(v) <= 2 * p.max
    BY <1>2 DEF FieldTakes
  <2>2. AsTyped(p, v) = [is |-> "number", n |-> Halves(v)]
    BY <1>2 DEF AsTyped
  <2>3. Halves(AsTyped(p, v)) = Halves(v)
    BY <2>2 DEF Halves
  <2> QED BY <1>2, <2>1, <2>2, <2>3 DEF NumberFits
<1>3. CASE p.is \notin {"integer", "number"}
  BY <1>3 DEF FieldTakes, AsTyped
<1> QED BY <1>1, <1>2, <1>3

LEMMA FilledFits == ASSUME FcInv PROVE FormFits
<1> SUFFICES ASSUME answer.out = "content" PROVE FormFits
  BY DEF FormFits, FcInv
<1> DEFINE form == question.form
           given == question.given
           content == answer.content
<1>1. form \in Forms /\ given \in Contents /\ ~Refuses(form, given) /\ content = Filled(form, given)
  BY DEF FcInv
<1>2. MaxInt \in Nat
  BY FormAssumption
<1>3. \A f \in DOMAIN form :
          form[f].min \in Int /\ form[f].max \in Int /\ \A v \in form[f].default : v.is = form[f].is
  BY <1>1, FormAssumption
<1>4. \A f \in DOMAIN given :
          /\ given[f].is = "integer" => given[f].n \in MinInt..MaxInt
          /\ given[f].is = "number" => given[f].n \in Int
  BY <1>1, FormAssumption
<1> HIDE DEF form, given, content
<1>5. DOMAIN content = {f \in DOMAIN form : f \in DOMAIN given \/ form[f].default # {}}
  BY <1>1 DEF Filled
<1>6. DOMAIN given \subseteq DOMAIN form /\ \A f \in DOMAIN form : form[f].required => f \in DOMAIN given
  BY <1>1 DEF Refuses
<1>7. DOMAIN given \subseteq DOMAIN content /\ DOMAIN content \subseteq DOMAIN form
  BY <1>5, <1>6
<1>8. ASSUME NEW f \in DOMAIN content, f \in DOMAIN given
      PROVE  /\ content[f].is = form[f].is
             /\ content[f].is \in {"integer", "number"} => NumberFits(form[f], given[f], content[f])
  <2>1. f \in DOMAIN form /\ FieldTakes(form[f], given[f])
    BY <1>1, <1>7, <1>8 DEF Refuses
  <2>2. content[f] = AsTyped(form[f], given[f])
    BY <1>1, <1>5, <1>8 DEF Filled
  <2> QED BY <1>2, <1>3, <1>4, <1>8, <2>1, <2>2, FieldFits
<1>9. ASSUME NEW f \in DOMAIN content, f \notin DOMAIN given
      PROVE  content[f] \in form[f].default /\ content[f].is = form[f].is
  <2>1. f \in DOMAIN form /\ form[f].default # {}
    BY <1>5, <1>9
  <2>2. content[f] = Only(form[f].default)
    BY <1>1, <1>5, <1>9 DEF Filled
  <2>3. Only(form[f].default) \in form[f].default
    BY <2>1 DEF Only
  <2> QED BY <1>3, <2>1, <2>2, <2>3
<1>10. \A f \in DOMAIN content :
          /\ content[f].is = form[f].is
          /\ f \notin DOMAIN given => content[f] \in form[f].default
          /\ (f \in DOMAIN given /\ content[f].is \in {"integer", "number"}) =>
                NumberFits(form[f], given[f], content[f])
  BY <1>8, <1>9
<1> QED BY <1>6, <1>7, <1>10 DEF FormFits, FcInv, NumberFits, form, given, content

-----------------------------------------------------------------------------
(* The lines of a file.  Scan reads a text character by character, and     *)
(* Join is what Scan undoes: both are tables over the places of a          *)
(* sequence, and what they say of a sequence with one more element follows *)
(* from what they say of the sequence.                                     *)

\* A set that has the empty sequence, and with a sequence all that are one longer, has all.
LEMMA AllSequences ==
    ASSUME NEW S, NEW P, <<>> \in P, \A s \in Seq(S) : \A c \in S : s \in P => Append(s, c) \in P
    PROVE  Seq(S) \subseteq P
<1> DEFINE Missed == {Len(s) : s \in {s \in Seq(S) : s \notin P}}
<1>1. SUFFICES ASSUME NEW t \in Seq(S), t \notin P PROVE FALSE
  OBVIOUS
<1>2. Missed \subseteq Nat /\ Missed # {}
  BY <1>1, LenProperties
<1>3. PICK n \in Missed : \A m \in Missed : n <= m
  <2> HIDE DEF Missed
  <2> QED BY <1>2, LeastNumber
<1>4. PICK u \in Seq(S) : u \notin P /\ n = Len(u)
  BY <1>3
<1>5. PICK v \in Seq(S), c \in S : u = Append(v, c)
  <2>1. u # <<>>
    BY <1>4
  <2> HIDE DEF Missed
  <2> QED BY <2>1, SequenceEmptyOrAppend
<1>6. Len(u) = Len(v) + 1 /\ Len(v) \in Nat
  <2>1. Len(Append(v, c)) = Len(v) + 1
    BY <1>5, AppendProperties
  <2>2. Len(v) \in Nat
    BY <1>5, LenProperties
  <2> QED BY <1>5, <2>1, <2>2
<1>7. v \notin P
  BY <1>4, <1>5
<1>8. Len(v) \in Missed
  BY <1>7
<1> HIDE DEF Missed
<1> QED BY <1>3, <1>4, <1>6, <1>8

Unread == [ended |-> <<>>, open |-> <<>>]
ScanUpto(f, file, n) == f = [i \in 0..n |-> IF i = 0 THEN Unread ELSE ReadOn(f[i - 1], file[i])]

LEMMA ScanExists == ASSUME NEW file, NEW n \in Nat PROVE \E f : ScanUpto(f, file, n)
<1> DEFINE Bad == {m \in Nat : ~ \E f : ScanUpto(f, file, m)}
<1>1. SUFFICES ASSUME Bad # {} PROVE FALSE
  OBVIOUS
<1>2. PICK m \in Bad : \A k \in Bad : m <= k
  BY <1>1, LeastNumber
<1>3. m # 0
  <2>1. ScanUpto([i \in 0..0 |-> Unread], file, 0)
    BY DEF ScanUpto
  <2> QED BY <2>1
<1>4. m - 1 \in Nat /\ m - 1 \notin Bad
  BY <1>2, <1>3
<1>5. PICK f : ScanUpto(f, file, m - 1)
  BY <1>4
<1> DEFINE g == [i \in 0..m |-> IF i < m THEN f[i] ELSE ReadOn(f[m - 1], file[m])]
<1>6. ScanUpto(g, file, m)
  <2>1. \A i \in 0..m : g[i] = IF i = 0 THEN Unread ELSE ReadOn(g[i - 1], file[i])
    <3> TAKE i \in 0..m
    <3>1. CASE i = 0
      BY <1>3, <1>5, <3>1 DEF ScanUpto
    <3>2. CASE i # 0 /\ i < m
      <4>1. i \in 0..m - 1 /\ i - 1 \in 0..m /\ i - 1 < m
        BY <3>2
      <4>2. f[i] = ReadOn(f[i - 1], file[i])
        BY <1>5, <3>2, <4>1 DEF ScanUpto
      <4> QED BY <3>2, <4>1, <4>2
    <3>3. CASE i = m
      <4>1. m - 1 \in 0..m /\ m - 1 < m
        BY <1>3
      <4> QED BY <1>3, <3>3, <4>1
    <3> QED BY <3>1, <3>2, <3>3
  <2> HIDE DEF g
  <2>2. g = [i \in 0..m |-> g[i]]
    BY DEF g
  <2> QED BY <2>1, <2>2 DEF ScanUpto
<1> QED BY <1>2, <1>6

LEMMA ScanIs ==
    ASSUME NEW file, Len(file) \in Nat
    PROVE  \E f : ScanUpto(f, file, Len(file)) /\ Scan(file) = f[Len(file)]
<1> DEFINE f == CHOOSE f : f = [n \in 0..Len(file) |->
                    IF n = 0 THEN [ended |-> <<>>, open |-> <<>>] ELSE ReadOn(f[n - 1], file[n])]
<1>1. \E g : g = [n \in 0..Len(file) |->
                    IF n = 0 THEN [ended |-> <<>>, open |-> <<>>] ELSE ReadOn(g[n - 1], file[n])]
  <2>1. PICK g : ScanUpto(g, file, Len(file))
    BY ScanExists
  <2> QED BY <2>1 DEF ScanUpto, Unread
<1>2. f = [n \in 0..Len(file) |->
                    IF n = 0 THEN [ended |-> <<>>, open |-> <<>>] ELSE ReadOn(f[n - 1], file[n])]
  BY <1>1
<1>3. Scan(file) = f[Len(file)]
  BY DEF Scan
<1> HIDE DEF f
<1> QED BY <1>2, <1>3 DEF ScanUpto, Unread

LEMMA ScanNone == Scan(<<>>) = Unread
<1>1. Len(<<>>) = 0
  OBVIOUS
<1>2. PICK f : ScanUpto(f, <<>>, 0) /\ Scan(<<>>) = f[0]
  BY <1>1, ScanIs
<1> QED BY <1>2 DEF ScanUpto

\* One character more.
LEMMA ScanOn ==
    ASSUME NEW S, NEW file \in Seq(S), NEW c \in S
    PROVE  Scan(Append(file, c)) = ReadOn(Scan(file), c)
<1> DEFINE n == Len(file)
           more == Append(file, c)
<1>1. n \in Nat /\ Len(more) = n + 1 /\ more[n + 1] = c /\ \A i \in 1..n : more[i] = file[i]
  BY LenProperties, AppendProperties
<1> HIDE DEF more
<1>2. PICK f : ScanUpto(f, file, n) /\ Scan(file) = f[n]
  BY <1>1, ScanIs
<1>3. PICK g : ScanUpto(g, more, n + 1) /\ Scan(more) = g[n + 1]
  <2>1. Len(more) \in Nat
    BY <1>1
  <2> QED BY <1>1, <2>1, ScanIs
<1> HIDE DEF n
<1>4. \A i \in 0..n : f[i] = g[i]
  <2> DEFINE Bad == {i \in 0..n : f[i] # g[i]}
  <2>1. SUFFICES ASSUME Bad # {} PROVE FALSE
    OBVIOUS
  <2>2. PICK i \in Bad : \A j \in Bad : i <= j
    <3>1. Bad \subseteq Nat
      BY <1>1
    <3> HIDE DEF Bad
    <3> QED BY <2>1, <3>1, LeastNumber
  <2>3. i \in 0..n /\ f[i] # g[i]
    BY <2>2
  <2>4. i # 0
    BY <1>1, <1>2, <1>3, <2>3 DEF ScanUpto
  <2>5. i - 1 \in 0..n /\ i - 1 \notin Bad /\ i \in 1..n /\ i \in 0..n + 1
    BY <1>1, <2>2, <2>3, <2>4
  <2>6. f[i] = ReadOn(f[i - 1], file[i]) /\ g[i] = ReadOn(g[i - 1], more[i])
    BY <1>2, <1>3, <2>3, <2>4, <2>5 DEF ScanUpto
  <2> QED BY <1>1, <2>3, <2>5, <2>6
<1>5. n + 1 \in 0..n + 1 /\ n + 1 # 0 /\ (n + 1) - 1 = n
  BY <1>1
<1>6. g[n + 1] = ReadOn(g[(n + 1) - 1], more[n + 1])
  BY <1>3, <1>5 DEF ScanUpto
<1>7. n \in 0..n
  BY <1>1
<1>8. Scan(more) = ReadOn(Scan(file), c)
  BY <1>1, <1>2, <1>3, <1>4, <1>5, <1>6, <1>7
<1> QED BY <1>8 DEF more

\* The same of Join.
Glued(before, k, line) == before \o (IF k = 1 THEN <<>> ELSE <<"nl">>) \o line
JoinUpto(f, lines, n) == f = [k \in 0..n |-> IF k = 0 THEN <<>> ELSE Glued(f[k - 1], k, lines[k])]

LEMMA JoinExists == ASSUME NEW lines, NEW n \in Nat PROVE \E f : JoinUpto(f, lines, n)
<1> DEFINE Bad == {m \in Nat : ~ \E f : JoinUpto(f, lines, m)}
<1>1. SUFFICES ASSUME Bad # {} PROVE FALSE
  OBVIOUS
<1>2. PICK m \in Bad : \A k \in Bad : m <= k
  BY <1>1, LeastNumber
<1>3. m # 0
  <2>1. JoinUpto([k \in 0..0 |-> <<>>], lines, 0)
    BY DEF JoinUpto
  <2> QED BY <2>1
<1>4. m - 1 \in Nat /\ m - 1 \notin Bad
  BY <1>2, <1>3
<1>5. PICK f : JoinUpto(f, lines, m - 1)
  BY <1>4
<1> DEFINE g == [k \in 0..m |-> IF k < m THEN f[k] ELSE Glued(f[m - 1], m, lines[m])]
<1>6. JoinUpto(g, lines, m)
  <2>1. \A k \in 0..m : g[k] = IF k = 0 THEN <<>> ELSE Glued(g[k - 1], k, lines[k])
    <3> TAKE k \in 0..m
    <3>1. CASE k = 0
      BY <1>3, <1>5, <3>1 DEF JoinUpto
    <3>2. CASE k # 0 /\ k < m
      <4>1. k \in 0..m - 1 /\ k - 1 \in 0..m /\ k - 1 < m
        BY <3>2
      <4>2. f[k] = Glued(f[k - 1], k, lines[k])
        BY <1>5, <3>2, <4>1 DEF JoinUpto
      <4> QED BY <3>2, <4>1, <4>2
    <3>3. CASE k = m
      <4>1. m - 1 \in 0..m /\ m - 1 < m
        BY <1>3
      <4> QED BY <1>3, <3>3, <4>1
    <3> QED BY <3>1, <3>2, <3>3
  <2> HIDE DEF g
  <2>2. g = [k \in 0..m |-> g[k]]
    BY DEF g
  <2> QED BY <2>1, <2>2 DEF JoinUpto
<1> QED BY <1>2, <1>6

LEMMA JoinIs ==
    ASSUME NEW lines, Len(lines) \in Nat
    PROVE  \E f : JoinUpto(f, lines, Len(lines)) /\ Join(lines) = f[Len(lines)]
<1> DEFINE f == CHOOSE f : f = [k \in 0..Len(lines) |->
                    IF k = 0 THEN <<>> ELSE f[k - 1] \o (IF k = 1 THEN <<>> ELSE <<"nl">>) \o lines[k]]
<1>1. \E g : g = [k \in 0..Len(lines) |->
                    IF k = 0 THEN <<>> ELSE g[k - 1] \o (IF k = 1 THEN <<>> ELSE <<"nl">>) \o lines[k]]
  <2>1. PICK g : JoinUpto(g, lines, Len(lines))
    BY JoinExists
  <2> QED BY <2>1 DEF JoinUpto, Glued
<1>2. f = [k \in 0..Len(lines) |->
                    IF k = 0 THEN <<>> ELSE f[k - 1] \o (IF k = 1 THEN <<>> ELSE <<"nl">>) \o lines[k]]
  BY <1>1
<1>3. Join(lines) = f[Len(lines)]
  BY DEF Join
<1> HIDE DEF f
<1> QED BY <1>2, <1>3 DEF JoinUpto, Glued

LEMMA JoinNone == Join(<<>>) = <<>>
<1>1. Len(<<>>) = 0
  OBVIOUS
<1>2. PICK f : JoinUpto(f, <<>>, 0) /\ Join(<<>>) = f[0]
  BY <1>1, JoinIs
<1> QED BY <1>2 DEF JoinUpto

LEMMA JoinOn ==
    ASSUME NEW S, NEW lines \in Seq(S), NEW line \in S
    PROVE  Join(Append(lines, line)) = Glued(Join(lines), Len(lines) + 1, line)
<1> DEFINE n == Len(lines)
           more == Append(lines, line)
<1>1. n \in Nat /\ Len(more) = n + 1 /\ more[n + 1] = line /\ \A i \in 1..n : more[i] = lines[i]
  BY LenProperties, AppendProperties
<1> HIDE DEF more
<1>2. PICK f : JoinUpto(f, lines, n) /\ Join(lines) = f[n]
  BY <1>1, JoinIs
<1>3. PICK g : JoinUpto(g, more, n + 1) /\ Join(more) = g[n + 1]
  <2>1. Len(more) \in Nat
    BY <1>1
  <2> QED BY <1>1, <2>1, JoinIs
<1> HIDE DEF n
<1>4. \A i \in 0..n : f[i] = g[i]
  <2> DEFINE Bad == {i \in 0..n : f[i] # g[i]}
  <2>1. SUFFICES ASSUME Bad # {} PROVE FALSE
    OBVIOUS
  <2>2. PICK i \in Bad : \A j \in Bad : i <= j
    <3>1. Bad \subseteq Nat
      BY <1>1
    <3> HIDE DEF Bad
    <3> QED BY <2>1, <3>1, LeastNumber
  <2>3. i \in 0..n /\ f[i] # g[i]
    BY <2>2
  <2>4. i # 0
    BY <1>1, <1>2, <1>3, <2>3 DEF JoinUpto
  <2>5. i - 1 \in 0..n /\ i - 1 \notin Bad /\ i \in 1..n /\ i \in 0..n + 1
    BY <1>1, <2>2, <2>3, <2>4
  <2>6. f[i] = Glued(f[i - 1], i, lines[i]) /\ g[i] = Glued(g[i - 1], i, more[i])
    BY <1>2, <1>3, <2>3, <2>4, <2>5 DEF JoinUpto
  <2> QED BY <1>1, <2>3, <2>5, <2>6
<1>5. n + 1 \in 0..n + 1 /\ n + 1 # 0 /\ (n + 1) - 1 = n
  BY <1>1
<1>6. g[n + 1] = Glued(g[(n + 1) - 1], n + 1, more[n + 1])
  BY <1>3, <1>5 DEF JoinUpto
<1>7. n \in 0..n
  BY <1>1
<1>8. Join(more) = Glued(Join(lines), n + 1, line)
  BY <1>1, <1>2, <1>3, <1>4, <1>5, <1>6, <1>7
<1> QED BY <1>8 DEF more, n

\* Characters without a carriage return, and the lines of them.
Plain(S) == "nl" \in S /\ "cr" \notin S
LinesIn(S) == Seq(S \ {"nl"})

LEMMA LineIn == ASSUME NEW S, NEW line \in LinesIn(S) PROVE line \in Seq(S)
BY SeqMonotonic DEF LinesIn

\* What Join makes is a text, and one line more is glued to it by a newline.
LEMMA JoinTyped ==
    ASSUME NEW S, Plain(S)
    PROVE  \A lines \in Seq(LinesIn(S)) : Join(lines) \in Seq(S)
<1> DEFINE Good == {lines \in Seq(LinesIn(S)) : Join(lines) \in Seq(S)}
<1>1. <<>> \in Good
  BY JoinNone, EmptySeq
<1>2. ASSUME NEW lines \in Seq(LinesIn(S)), NEW line \in LinesIn(S), lines \in Good
      PROVE  Append(lines, line) \in Good
  <2>1. Append(lines, line) \in Seq(LinesIn(S))
    BY AppendProperties
  <2>2. <<"nl">> \in Seq(S) /\ <<>> \in Seq(S)
    BY DEF Plain
  <2>3. line \in Seq(S) /\ Join(lines) \in Seq(S)
    BY <1>2, LineIn
  <2> DEFINE nl == IF Len(lines) + 1 = 1 THEN <<>> ELSE <<"nl">>
  <2>4. nl \in Seq(S)
    BY <2>2
  <2>5. Join(Append(lines, line)) = Join(lines) \o nl \o line
    BY JoinOn DEF Glued
  <2> HIDE DEF nl
  <2>6. Join(lines) \o nl \in Seq(S)
    BY <2>3, <2>4, ConcatProperties
  <2>7. Join(lines) \o nl \o line \in Seq(S)
    BY <2>3, <2>6, ConcatProperties
  <2> QED BY <2>1, <2>5, <2>7
<1> HIDE DEF Good
<1>3. Seq(LinesIn(S)) \subseteq Good
  BY <1>1, <1>2, AllSequences
<1> QED BY <1>3 DEF Good

LEMMA JoinFirst == ASSUME NEW S, NEW line \in LinesIn(S) PROVE Join(Append(<<>>, line)) = line
<1>1. <<>> \in Seq(LinesIn(S)) /\ Len(<<>>) = 0
  BY EmptySeq
<1>2. Join(Append(<<>>, line)) = <<>> \o <<>> \o line
  <2>1. Join(Append(<<>>, line)) = Glued(Join(<<>>), Len(<<>>) + 1, line)
    BY <1>1, JoinOn
  <2>2. Len(<<>>) + 1 = 1
    BY <1>1
  <2> QED BY <2>1, <2>2, JoinNone DEF Glued
<1>3. line \in Seq(S) /\ <<>> \in Seq(S)
  BY LineIn, EmptySeq
<1>4. <<>> \o <<>> = <<>> /\ <<>> \o line = line
  BY <1>3, ConcatEmptySeq
<1> QED BY <1>2, <1>4

LEMMA JoinLine ==
    ASSUME NEW S, Plain(S), NEW lines \in Seq(LinesIn(S)), lines # <<>>, NEW line \in LinesIn(S)
    PROVE  Join(Append(lines, line)) = Append(Join(lines), "nl") \o line
<1>1. Len(lines) \in Nat /\ Len(lines) # 0
  BY EmptySeq, LenProperties
<1>2. Join(Append(lines, line)) = Join(lines) \o <<"nl">> \o line
  BY <1>1, JoinOn DEF Glued
<1>3. Append(Join(lines), "nl") = Join(lines) \o <<"nl">>
  BY JoinTyped, AppendIsConcat DEF Plain
<1> QED BY <1>2, <1>3

\* A character at the end of the last line is at the end of the text.
LEMMA JoinChar ==
    ASSUME NEW S, Plain(S), NEW lines \in Seq(LinesIn(S)), NEW line \in LinesIn(S), NEW c \in S \ {"nl"}
    PROVE  Join(Append(lines, Append(line, c))) = Append(Join(Append(lines, line)), c)
<1>1. Append(line, c) \in LinesIn(S)
  BY AppendProperties DEF LinesIn
<1>2. CASE lines = <<>>
  BY <1>1, <1>2, JoinFirst
<1>3. CASE lines # <<>>
  <2> DEFINE before == Append(Join(lines), "nl")
  <2>1. before \in Seq(S) /\ line \in Seq(S) /\ <<c>> \in Seq(S)
    <3>1. Join(lines) \in Seq(S)
      BY JoinTyped
    <3> QED BY <3>1, AppendProperties, LineIn DEF Plain
  <2>2. Join(Append(lines, line)) = before \o line /\ Join(Append(lines, Append(line, c))) = before \o Append(line, c)
    BY <1>1, <1>3, JoinLine
  <2> HIDE DEF before
  <2>3. Append(line, c) = line \o <<c>>
    BY <2>1, AppendIsConcat
  <2>4. before \o line \in Seq(S)
    BY <2>1, ConcatProperties
  <2>5. Append(before \o line, c) = (before \o line) \o <<c>>
    BY <2>4, AppendIsConcat
  <2>6. (before \o line) \o <<c>> = before \o (line \o <<c>>)
    BY <2>1, ConcatAssociative
  <2> QED BY <2>2, <2>3, <2>5, <2>6
<1> QED BY <1>2, <1>3

\* Scan reads lines, and nothing of the text is lost: joined they are the text again.
LEMMA ScanJoins ==
    ASSUME NEW S, Plain(S)
    PROVE  \A file \in Seq(S) :
               /\ Scan(file) \in [ended : Seq(LinesIn(S)), open : LinesIn(S)]
               /\ Join(Append(Scan(file).ended, Scan(file).open)) = file
<1> DEFINE Read == [ended : Seq(LinesIn(S)), open : LinesIn(S)]
           Good == {file \in Seq(S) : Scan(file) \in Read /\ Join(Append(Scan(file).ended, Scan(file).open)) = file}
<1>1. <<>> \in Good
  <2>1. <<>> \in Seq(S) /\ <<>> \in LinesIn(S) /\ <<>> \in Seq(LinesIn(S))
    BY EmptySeq DEF LinesIn
  <2>2. Join(Append(<<>>, <<>>)) = <<>>
    BY <2>1, JoinFirst
  <2>3. Scan(<<>>).ended = <<>> /\ Scan(<<>>).open = <<>> /\ Scan(<<>>) \in Read
    <3>1. Unread.ended = <<>> /\ Unread.open = <<>>
      BY DEF Unread
    <3>2. Unread \in Read
      BY <2>1 DEF Unread
    <3> HIDE DEF Read
    <3> QED BY <3>1, <3>2, ScanNone
  <2> QED BY <2>1, <2>2, <2>3
<1>2. ASSUME NEW file \in Seq(S), NEW c \in S, file \in Good
      PROVE  Append(file, c) \in Good
  <2> DEFINE ended == Scan(file).ended
             open == Scan(file).open
  <2>1. /\ ended \in Seq(LinesIn(S)) /\ open \in LinesIn(S) /\ Join(Append(ended, open)) = file
        /\ Append(file, c) \in Seq(S) /\ Scan(Append(file, c)) = ReadOn(Scan(file), c)
    BY <1>2, AppendProperties, ScanOn
  <2> HIDE DEF ended, open
  <2>2. CASE c = "nl"
    <3>1. Bare(open) = open
      <4>1. CASE open = <<>>
        BY <4>1 DEF Bare
      <4>2. CASE open # <<>>
        <5>1. Len(open) \in 1..Len(open)
          BY <2>1, <4>2, EmptySeq DEF LinesIn
        <5>2. Last(open) \in S
          BY <2>1, <5>1, ElementOfSeq DEF LinesIn, Last
        <5> QED BY <5>2 DEF Bare, Plain
      <4> QED BY <4>1, <4>2
    <3>2. Scan(Append(file, c)) = [ended |-> Append(ended, open), open |-> <<>>]
      BY <2>1, <2>2, <3>1 DEF ReadOn, ended, open
    <3>3. Append(ended, open) \in Seq(LinesIn(S)) /\ Append(ended, open) # <<>> /\ <<>> \in LinesIn(S)
      <4>1. <<>> \in LinesIn(S)
        BY EmptySeq DEF LinesIn
      <4> QED BY <2>1, <4>1, AppendProperties
    <3>4. Join(Append(Append(ended, open), <<>>)) = Append(file, "nl") \o <<>>
      BY <2>1, <3>3, JoinLine
    <3>5. Append(file, "nl") \o <<>> = Append(file, "nl")
      BY <2>1, <2>2, ConcatEmptySeq
    <3>6. Join(Append(Append(ended, open), <<>>)) = Append(file, c)
      BY <2>2, <3>4, <3>5
    <3> DEFINE all == Append(ended, open)
               more == Append(file, c)
    <3>7. more \in Seq(S) /\ Scan(more) = [ended |-> all, open |-> <<>>] /\ all \in Seq(LinesIn(S))
          /\ Join(Append(all, <<>>)) = more /\ <<>> \in LinesIn(S)
      BY <2>1, <3>2, <3>3, <3>6
    <3> HIDE DEF all, more
    <3>8. Scan(more) \in Read /\ Scan(more).ended = all /\ Scan(more).open = <<>>
      BY <3>7
    <3>9. more \in Good
      BY <3>7, <3>8
    <3> QED BY <3>9 DEF more
  <2>3. CASE c # "nl"
    <3>1. Scan(Append(file, c)) = [ended |-> ended, open |-> Append(open, c)]
      BY <2>1, <2>3 DEF ReadOn, ended, open
    <3>2. Append(open, c) \in LinesIn(S)
      BY <2>1, <2>3, AppendProperties DEF LinesIn
    <3>3. Join(Append(ended, Append(open, c))) = Append(file, c)
      BY <2>1, <2>3, JoinChar
    <3> DEFINE line == Append(open, c)
               more == Append(file, c)
    <3>4. more \in Seq(S) /\ Scan(more) = [ended |-> ended, open |-> line] /\ ended \in Seq(LinesIn(S))
          /\ Join(Append(ended, line)) = more /\ line \in LinesIn(S)
      BY <2>1, <3>1, <3>2, <3>3
    <3> HIDE DEF line, more
    <3>5. Scan(more) \in Read /\ Scan(more).ended = ended /\ Scan(more).open = line
      BY <3>4
    <3>6. more \in Good
      BY <3>4, <3>5
    <3> QED BY <3>6 DEF more
  <2> QED BY <2>2, <2>3
<1> HIDE DEF Good
<1>3. Seq(S) \subseteq Good
  BY <1>1, <1>2, AllSequences
<1> QED BY <1>3 DEF Good

\* The rest of a line is read at the end of the open one.
LEMMA ScanLine ==
    ASSUME NEW S, Plain(S), NEW file \in Seq(S)
    PROVE  \A line \in LinesIn(S) :
               Scan(file \o line) = [ended |-> Scan(file).ended, open |-> Scan(file).open \o line]
<1> DEFINE T == S \ {"nl"}
           After(line) == [ended |-> Scan(file).ended, open |-> Scan(file).open \o line]
           Good == {line \in Seq(T) : Scan(file \o line) = After(line)}
<1>1. Scan(file) \in [ended : Seq(LinesIn(S)), open : LinesIn(S)]
  BY ScanJoins
<1>2. Scan(file).open \in Seq(T)
  BY <1>1 DEF LinesIn
<1>3. <<>> \in Good
  <2>1. file \o <<>> = file /\ Scan(file).open \o <<>> = Scan(file).open /\ <<>> \in Seq(T)
    BY <1>2, ConcatEmptySeq, EmptySeq
  <2> QED BY <1>1, <2>1
<1>4. ASSUME NEW line \in Seq(T), NEW c \in T, line \in Good
      PROVE  Append(line, c) \in Good
  <2>1. Append(line, c) \in Seq(T) /\ Append(line, c) = line \o <<c>> /\ <<c>> \in Seq(T)
    BY AppendProperties, AppendIsConcat
  <2>2. line \in Seq(S) /\ <<c>> \in Seq(S) /\ c \in S /\ c # "nl"
    BY <2>1, LineIn DEF LinesIn
  <2>3. file \o line \in Seq(S)
    BY <2>2, ConcatProperties
  <2>4. file \o Append(line, c) = (file \o line) \o <<c>>
    BY <2>1, <2>2, ConcatAssociative
  <2>5. (file \o line) \o <<c>> = Append(file \o line, c)
    BY <2>2, <2>3, AppendIsConcat
  <2>6. Scan(file \o Append(line, c)) = ReadOn(After(line), c)
    BY <1>4, <2>2, <2>3, <2>4, <2>5, ScanOn
  <2> DEFINE open == Scan(file).open
  <2>7. Append(open \o line, c) = open \o Append(line, c)
    <3>0. open \in Seq(T)
      BY <1>2
    <3> HIDE DEF open, T
    <3>1. open \o line \in Seq(T)
      BY <3>0, ConcatProperties
    <3>2. Append(open \o line, c) = (open \o line) \o <<c>>
      BY <3>1, AppendIsConcat
    <3>3. (open \o line) \o <<c>> = open \o (line \o <<c>>)
      BY <2>1, <3>0, ConcatAssociative
    <3> QED BY <2>1, <3>2, <3>3
  <2>8. ReadOn(After(line), c) = [ended |-> Scan(file).ended, open |-> Append(open \o line, c)]
    BY <2>2 DEF ReadOn
  <2> QED BY <2>1, <2>6, <2>7, <2>8
<1> HIDE DEF Good
<1>5. Seq(T) \subseteq Good
  BY <1>3, <1>4, AllSequences
<1> QED BY <1>5 DEF Good, LinesIn

\* What Join glues, Scan takes apart again.
LEMMA JoinScans ==
    ASSUME NEW S, Plain(S)
    PROVE  \A lines \in Seq(LinesIn(S)) : \A line \in LinesIn(S) :
               Scan(Join(Append(lines, line))) = [ended |-> lines, open |-> line]
<1> DEFINE Good == {lines \in Seq(LinesIn(S)) : \A line \in LinesIn(S) :
                        Scan(Join(Append(lines, line))) = [ended |-> lines, open |-> line]}
<1>0. <<>> \in Seq(S) /\ <<>> \in LinesIn(S) /\ <<>> \in Seq(LinesIn(S))
  BY EmptySeq DEF LinesIn
<1>1. <<>> \in Good
  <2> SUFFICES ASSUME NEW line \in LinesIn(S)
               PROVE  Scan(Join(Append(<<>>, line))) = [ended |-> <<>>, open |-> line]
    BY <1>0
  <2>1. Join(Append(<<>>, line)) = line
    BY JoinFirst
  <2>2. line \in Seq(S) /\ <<>> \o line = line
    BY LineIn, ConcatEmptySeq
  <2>3. Scan(<<>> \o line) = [ended |-> Scan(<<>>).ended, open |-> Scan(<<>>).open \o line]
    BY <1>0, ScanLine
  <2> QED BY <2>1, <2>2, <2>3, ScanNone DEF Unread
<1>2. ASSUME NEW lines \in Seq(LinesIn(S)), NEW last \in LinesIn(S), lines \in Good
      PROVE  Append(lines, last) \in Good
  <2> DEFINE all == Append(lines, last)
  <2>1. all \in Seq(LinesIn(S)) /\ all # <<>>
    BY AppendProperties
  <2>2. Join(all) \in Seq(S) /\ Scan(Join(all)) = [ended |-> lines, open |-> last]
    BY <1>2, <2>1, JoinTyped
  <2>3. Append(Join(all), "nl") \in Seq(S)
    BY <2>2, AppendProperties DEF Plain
  <2>4. Bare(last) = last
    <3>1. CASE last = <<>>
      BY <3>1 DEF Bare
    <3>2. CASE last # <<>>
      <4>1. Len(last) \in 1..Len(last)
        BY <3>2, EmptySeq DEF LinesIn
      <4>2. Last(last) \in S
        BY <4>1, ElementOfSeq DEF LinesIn, Last
      <4> QED BY <4>2 DEF Bare, Plain
    <3> QED BY <3>1, <3>2
  <2>5. Scan(Append(Join(all), "nl")) = [ended |-> all, open |-> <<>>]
    BY <2>2, <2>4, ScanOn DEF ReadOn, Plain
  <2>6. ASSUME NEW line \in LinesIn(S)
        PROVE  Scan(Join(Append(all, line))) = [ended |-> all, open |-> line]
    <3>1. Join(Append(all, line)) = Append(Join(all), "nl") \o line
      BY <2>1, JoinLine
    <3>2. Scan(Append(Join(all), "nl") \o line) = [ended |-> all, open |-> <<>> \o line]
      <4> DEFINE before == Append(Join(all), "nl")
      <4>1. before \in Seq(S) /\ Scan(before).ended = all /\ Scan(before).open = <<>>
        BY <2>3, <2>5
      <4> HIDE DEF before
      <4>2. Scan(before \o line) = [ended |-> all, open |-> <<>> \o line]
        BY <4>1, ScanLine
      <4> QED BY <4>2 DEF before
    <3>3. <<>> \o line = line
      BY ConcatEmptySeq DEF LinesIn
    <3> QED BY <3>1, <3>2, <3>3
  <2> QED BY <2>1, <2>6
<1> HIDE DEF Good
<1>3. Seq(LinesIn(S)) \subseteq Good
  BY <1>1, <1>2, AllSequences
<1> QED BY <1>3 DEF Good

LEMMA LinesTyped ==
    ASSUME NEW S, Plain(S), NEW file \in Seq(S) PROVE LinesOf(file) \in Seq(LinesIn(S))
<1> DEFINE ended == Scan(file).ended
           open == Scan(file).open
<1>1. ended \in Seq(LinesIn(S)) /\ open \in LinesIn(S)
  BY ScanJoins
<1>2. LinesOf(file) = IF open = <<>> THEN ended ELSE Append(ended, open)
  BY DEF LinesOf
<1> HIDE DEF ended, open
<1> QED BY <1>1, <1>2, AppendProperties

\* A text is its lines joined, and the newline that ends the last.
LEMMA TextOfLines ==
    ASSUME NEW S, Plain(S), NEW file \in Seq(S)
    PROVE  \/ file = <<>> /\ LinesOf(file) = <<>>
           \/ LinesOf(file) # <<>> /\ file = Join(LinesOf(file)) /\ Last(file) # "nl" /\ file # <<>>
           \/ LinesOf(file) # <<>> /\ file = Append(Join(LinesOf(file)), "nl") /\ Last(file) = "nl"
<1> DEFINE ended == Scan(file).ended
           open == Scan(file).open
<1>1. ended \in Seq(LinesIn(S)) /\ open \in LinesIn(S) /\ Join(Append(ended, open)) = file
  BY ScanJoins
<1>2. LinesOf(file) = IF open = <<>> THEN ended ELSE Append(ended, open)
  BY DEF LinesOf
<1> HIDE DEF ended, open
<1>3. CASE open = <<>> /\ ended = <<>>
  <2>1. Join(Append(<<>>, <<>>)) = <<>>
    BY <1>1, <1>3, JoinFirst
  <2> QED BY <1>1, <1>2, <1>3, <2>1
<1>4. CASE open = <<>> /\ ended # <<>>
  <2> DEFINE all == Join(ended)
  <2>1. all \in Seq(S)
    BY <1>1, JoinTyped
  <2>2. file = Append(all, "nl") \o <<>>
    BY <1>1, <1>4, JoinLine
  <2>3. "nl" \in S
    BY DEF Plain
  <2> HIDE DEF all
  <2>4. Append(all, "nl") \in Seq(S) /\ Len(Append(all, "nl")) = Len(all) + 1 /\ Append(all, "nl")[Len(all) + 1] = "nl"
    BY <2>1, <2>3, AppendProperties
  <2>5. Append(all, "nl") \o <<>> = Append(all, "nl")
    BY <2>4, ConcatEmptySeq
  <2>6. file = Append(all, "nl") /\ Last(file) = "nl"
    BY <2>2, <2>4, <2>5 DEF Last
  <2> QED BY <1>2, <1>4, <2>6 DEF all
<1>5. CASE open # <<>>
  <2>1. Append(ended, open) # <<>>
    BY <1>1, AppendProperties
  <2>2. Len(open) \in Nat /\ Len(open) # 0 /\ Len(open) \in 1..Len(open) /\ Last(open) # "nl"
    <3>1. Len(open) \in Nat \ {0}
      BY <1>1, <1>5, EmptySeq DEF LinesIn
    <3>2. Len(open) \in 1..Len(open)
      BY <3>1
    <3>3. Last(open) \in S \ {"nl"}
      BY <1>1, <3>2, ElementOfSeq DEF Last, LinesIn
    <3> QED BY <3>1, <3>2, <3>3
  <2>3. Last(file) # "nl" /\ file # <<>>
    <3>1. CASE ended = <<>>
      <4>1. file = open
        BY <1>1, <3>1, JoinFirst
      <4> QED BY <1>5, <2>2, <4>1
    <3>2. CASE ended # <<>>
      <4> DEFINE before == Append(Join(ended), "nl")
      <4>1. file = before \o open
        BY <1>1, <3>2, JoinLine
      <4>2. before \in Seq(S) /\ open \in Seq(S)
        <5>1. Join(ended) \in Seq(S)
          BY <1>1, JoinTyped
        <5> QED BY <1>1, <5>1, AppendProperties, LineIn DEF Plain
      <4> HIDE DEF before
      <4> DEFINE m == Len(before)
                 n == Len(open)
      <4>3. m \in Nat /\ n \in Nat /\ n # 0
        BY <2>2, <4>2, LenProperties
      <4>4. Len(file) = m + n /\ \A i \in 1..m + n : file[i] = IF i <= m THEN before[i] ELSE open[i - m]
        BY <4>1, <4>2, ConcatProperties
      <4>5. open[n] # "nl"
        BY <2>2 DEF Last
      <4> HIDE DEF m, n
      <4>6. m + n \in 1..m + n /\ ~(m + n <= m) /\ (m + n) - m = n
        BY <4>3
      <4>7. file[m + n] = open[n]
        BY <4>4, <4>6
      <4>8. Len(file) # 0
        BY <4>3, <4>4
      <4> QED BY <4>4, <4>5, <4>7, <4>8 DEF Last
    <3> QED BY <3>1, <3>2
  <2> QED BY <1>1, <1>2, <1>5, <2>1, <2>3
<1> QED BY <1>3, <1>4, <1>5

\* Lines that are joined are those lines, but for an empty one at the end; and with a
\* newline after them those lines.
LEMMA LinesOfJoined ==
    ASSUME NEW S, Plain(S), NEW lines \in Seq(LinesIn(S)), NEW line \in LinesIn(S)
    PROVE  LET all == Append(lines, line) IN
           /\ LinesOf(Join(all)) = IF line = <<>> THEN lines ELSE all
           /\ LinesOf(Append(Join(all), "nl")) = all
<1> DEFINE all == Append(lines, line)
<1>1. all \in Seq(LinesIn(S)) /\ all # <<>> /\ <<>> \in LinesIn(S)
  BY AppendProperties, EmptySeq DEF LinesIn
<1>2. Scan(Join(all)) = [ended |-> lines, open |-> line]
  BY JoinScans
<1> DEFINE text1 == Join(all)
<1>3. text1 \in Seq(S)
  BY <1>1, JoinTyped
<1>4. Scan(text1).ended = lines /\ Scan(text1).open = line
  BY <1>2
<1>5. Append(text1, "nl") \o <<>> = Append(text1, "nl")
  <2>1. Append(text1, "nl") \in Seq(S)
    BY <1>3, AppendProperties DEF Plain
  <2> QED BY <2>1, ConcatEmptySeq
<1>6. Join(Append(all, <<>>)) = Append(text1, "nl")
  BY <1>1, <1>5, JoinLine
<1>7. Scan(Append(text1, "nl")) = [ended |-> all, open |-> <<>>]
  BY <1>1, <1>6, JoinScans
<1> HIDE DEF all, text1
<1>8. LinesOf(text1) = IF line = <<>> THEN lines ELSE Append(lines, line)
  BY <1>4 DEF LinesOf
<1>9. LinesOf(Append(text1, "nl")) = all
  BY <1>7 DEF LinesOf
<1> QED BY <1>8, <1>9 DEF all, text1

LEMMA LeastOfTwo == ASSUME NEW a \in Int, NEW b \in Int PROVE Least({a, b}) = IF a <= b THEN a ELSE b
BY DEF Least

\* The lines that a window takes.
LEMMA WantedIs ==
    ASSUME NEW S, NEW lines \in Seq(S), NEW start \in Nat, start <= Len(lines), NEW limit \in Option
    PROVE  LET upto == Upto(start, limit, Len(lines))
               wanted == SubSeq(lines, start + 1, upto) IN
           /\ upto \in Nat /\ wanted \in Seq(S)
           /\ limit # {} => Only(limit) \in Nat /\ Len(wanted) <= Only(limit)
           /\ start = 0 /\ limit = {} => wanted = lines
<1> DEFINE count == Len(lines)
           upto == Upto(start, limit, count)
           most == Only(limit)
<1>1. count \in Nat /\ \A i \in 1..count : lines[i] \in S
  BY LenProperties, ElementOfSeq
<1>2. limit # {} => most \in Nat
  <2>1. \A n \in 0..MaxLine : Only({n}) = n
    BY DEF Only
  <2>2. \A n \in 0..MaxLine : n \in Nat
    BY FormAssumption
  <2> QED BY <2>1, <2>2 DEF Option
<1>3. /\ limit = {} => upto = count
      /\ limit # {} => upto = IF start + most <= count THEN start + most ELSE count
  <2>1. limit = {} => upto = count
    BY DEF Upto
  <2>2. ASSUME limit # {} PROVE upto = IF start + most <= count THEN start + most ELSE count
    <3>1. upto = Least({start + most, count})
      BY <2>2 DEF Upto
    <3> HIDE DEF most, count, upto
    <3>2. start + most \in Int /\ count \in Int
      BY <1>1, <1>2, <2>2
    <3> QED BY <3>1, <3>2, LeastOfTwo
  <2> QED BY <2>1, <2>2
<1>4. start <= count
  OBVIOUS
<1> HIDE DEF most, upto, count
<1>5. upto \in Nat /\ start <= upto /\ upto <= count /\ (limit # {} => upto - start <= most)
  BY <1>1, <1>2, <1>3, <1>4
<1> DEFINE wanted == SubSeq(lines, start + 1, upto)
<1>6. wanted \in Seq(S) /\ Len(wanted) = IF start + 1 <= upto THEN (upto - (start + 1)) + 1 ELSE 0
  <2>1. \A i \in start + 1..upto : lines[i] \in S
    BY <1>1, <1>5
  <2>2. start + 1 \in Int /\ upto \in Int
    BY <1>5
  <2> DEFINE from == start + 1
  <2> HIDE DEF from
  <2>3. SubSeq(lines, from, upto) \in Seq(S) /\ Len(SubSeq(lines, from, upto)) = IF from <= upto THEN upto - from + 1 ELSE 0
    BY <2>1, <2>2, SubSeqProperties DEF from
  <2>4. upto - from + 1 = (upto - from) + 1
    BY <2>2 DEF from
  <2> QED BY <2>3, <2>4 DEF from
<1>7. limit # {} => Len(wanted) <= most
  BY <1>2, <1>5, <1>6
<1>8. start = 0 /\ limit = {} => wanted = lines
  <2> SUFFICES ASSUME start = 0, limit = {} PROVE wanted = lines
    OBVIOUS
  <2>1. wanted = SubSeq(lines, 1, Len(lines))
    BY <1>3 DEF count
  <2> QED BY <2>1, SubSeqFull
<1> QED BY <1>2, <1>5, <1>6, <1>7, <1>8 DEF most, upto, count

\* What a window tells of a plain text is the lines that were wanted.
LEMMA WindowHolds ==
    ASSUME NEW S, Plain(S), NEW file \in Seq(S), NEW start \in Nat, NEW limit \in Option,
           start <= Len(LinesOf(file))
    PROVE  LET lines == LinesOf(file)
               part == LinesOf(Window(file, start, limit))
               wanted == SubSeq(lines, start + 1, Upto(start, limit, Len(lines))) IN
           /\ limit # {} => Len(part) <= Only(limit)
           /\ WithText(wanted) = WithText(part) /\ \A i \in WithText(part) : part[i] = wanted[i]
           /\ start = 0 /\ limit = {} /\ file # <<"nl">> => Window(file, start, limit) = file
<1> DEFINE lines == LinesOf(file)
           upto == Upto(start, limit, Len(lines))
           wanted == SubSeq(lines, start + 1, upto)
           window == Window(file, start, limit)
           part == LinesOf(window)
<1>1. lines \in Seq(LinesIn(S))
  BY LinesTyped
<1>2. start <= Len(lines)
  OBVIOUS
<1>3. /\ upto \in Nat /\ wanted \in Seq(LinesIn(S))
      /\ limit # {} => Only(limit) \in Nat /\ Len(wanted) <= Only(limit)
      /\ start = 0 /\ limit = {} => wanted = lines
  <2> HIDE DEF lines
  <2> QED BY <1>1, <1>2, WantedIs
<1>4. window = IF Join(wanted) # <<>> /\ upto = Len(lines) /\ Last(file) = "nl" THEN Append(Join(wanted), "nl")
               ELSE Join(wanted)
  BY DEF Window
<1>5. start = 0 /\ limit = {} /\ file # <<"nl">> => window = file
  <2> SUFFICES ASSUME start = 0, limit = {}, file # <<"nl">> PROVE window = file
    OBVIOUS
  <2>1. wanted = lines /\ upto = Len(lines)
    BY <1>3 DEF Upto
  <2>2. \/ file = <<>> /\ lines = <<>>
        \/ lines # <<>> /\ file = Join(lines) /\ Last(file) # "nl" /\ file # <<>>
        \/ lines # <<>> /\ file = Append(Join(lines), "nl") /\ Last(file) = "nl"
    BY TextOfLines
  <2> HIDE DEF lines, wanted, window, upto
  <2>3. CASE file = <<>> /\ lines = <<>>
    BY <1>4, <2>1, <2>3, JoinNone
  <2>4. CASE lines # <<>> /\ file = Join(lines) /\ Last(file) # "nl" /\ file # <<>>
    BY <1>4, <2>1, <2>4
  <2>5. CASE lines # <<>> /\ file = Append(Join(lines), "nl") /\ Last(file) = "nl"
    <3>1. Join(lines) # <<>>
      <4> SUFFICES ASSUME Join(lines) = <<>> PROVE FALSE
        OBVIOUS
      <4>1. Append(<<>>, "nl") = <<"nl">>
        OBVIOUS
      <4> QED BY <2>5, <4>1
    <3> QED BY <1>4, <2>1, <2>5, <3>1
  <2> QED BY <2>2, <2>3, <2>4, <2>5
<1> HIDE DEF lines, upto, wanted, window
<1>6. Len(wanted) \in Nat
  BY <1>3, LenProperties
<1>7. part = wanted \/ \E some \in Seq(LinesIn(S)) : wanted = Append(some, <<>>) /\ part = some
  <2>1. CASE wanted = <<>>
    <3>1. window = <<>>
      BY <1>4, <2>1, JoinNone
    <3>2. LinesOf(<<>>) = <<>>
      BY ScanNone DEF LinesOf, Unread
    <3> QED BY <2>1, <3>1, <3>2
  <2>2. CASE wanted # <<>>
    <3>1. PICK some \in Seq(LinesIn(S)), line \in LinesIn(S) : wanted = Append(some, line)
      BY <1>3, <2>2, SequenceEmptyOrAppend
    <3>2. /\ LinesOf(Join(wanted)) = IF line = <<>> THEN some ELSE wanted
          /\ LinesOf(Append(Join(wanted), "nl")) = wanted
      BY <3>1, LinesOfJoined
    <3>3. window = Join(wanted) \/ window = Append(Join(wanted), "nl")
      BY <1>4
    <3> QED BY <3>1, <3>2, <3>3
  <2> QED BY <2>1, <2>2
<1> HIDE DEF part
<1>8. CASE part = wanted
  BY <1>3, <1>5, <1>8 DEF lines, upto, wanted, window, part
<1>9. CASE \E some \in Seq(LinesIn(S)) : wanted = Append(some, <<>>) /\ part = some
  <2>1. PICK some \in Seq(LinesIn(S)) : wanted = Append(some, <<>>) /\ part = some
    BY <1>9
  <2>2. <<>> \in LinesIn(S)
    BY EmptySeq DEF LinesIn
  <2> DEFINE n == Len(some)
  <2>3. /\ n \in Nat /\ Len(wanted) = n + 1 /\ DOMAIN some = 1..n /\ DOMAIN wanted = 1..n + 1
        /\ wanted[n + 1] = <<>> /\ \A i \in 1..n : wanted[i] = some[i]
    <3>1. wanted = Append(some, <<>>)
      BY <2>1
    <3>2. DOMAIN wanted = 1..Len(wanted) /\ DOMAIN some = 1..n /\ n \in Nat
      BY <1>3, LenProperties
    <3> QED BY <2>2, <3>1, <3>2, AppendProperties
  <2> HIDE DEF n
  <2>4. WithText(wanted) = WithText(part) /\ \A i \in WithText(part) : part[i] = wanted[i]
    <3>1. 1..n + 1 = 1..n \cup {n + 1}
      BY <2>3
    <3>2. WithText(some) = {i \in 1..n : some[i] # <<>>} /\ WithText(wanted) = {i \in 1..n + 1 : wanted[i] # <<>>}
      BY <2>3 DEF WithText
    <3>3. WithText(wanted) = WithText(some)
      BY <2>3, <3>1, <3>2
    <3> QED BY <2>1, <2>3, <3>2, <3>3
  <2>5. limit # {} => Len(part) <= Only(limit)
    <3>1. Len(part) = n /\ Len(wanted) = n + 1 /\ n \in Nat
      BY <2>1, <2>3 DEF n
    <3> QED BY <1>3, <3>1
  <2> QED BY <1>5, <2>4, <2>5 DEF lines, upto, wanted, window, part
<1> QED BY <1>7, <1>8, <1>9

\* A text of any characters, too, has a number of lines.
LEMMA BareIn == ASSUME NEW S, NEW line \in Seq(S) PROVE Bare(line) \in Seq(S)
<1>1. ASSUME line # <<>> PROVE Front(line) \in Seq(S)
  <2>1. Len(line) \in Nat /\ \A i \in 1..Len(line) : line[i] \in S
    BY LenProperties, ElementOfSeq
  <2> DEFINE m == Len(line) - 1
  <2>2. m \in Int /\ 1 \in Int /\ \A i \in 1..m : line[i] \in S
    BY <2>1
  <2> HIDE DEF m
  <2>3. SubSeq(line, 1, m) \in Seq(S)
    BY <2>2, SubSeqProperties
  <2> QED BY <2>3 DEF Front, m
<1> QED BY <1>1 DEF Bare

LEMMA LinesCount == ASSUME NEW S, NEW file \in Seq(S) PROVE Len(LinesOf(file)) \in Nat
<1> DEFINE X == Seq(S)
           Good == {t \in Seq(S) : Scan(t).ended \in Seq(X) /\ Scan(t).open \in X}
<1>1. <<>> \in Good
  <2>1. Scan(<<>>).ended = <<>> /\ Scan(<<>>).open = <<>>
    BY ScanNone DEF Unread
  <2> QED BY <2>1, EmptySeq
<1>2. ASSUME NEW t \in Seq(S), NEW c \in S, t \in Good PROVE Append(t, c) \in Good
  <2> DEFINE more == Append(t, c)
             ended == Scan(t).ended
             open == Scan(t).open
  <2>1. Scan(more) = ReadOn(Scan(t), c) /\ more \in Seq(S)
    BY ScanOn, AppendProperties
  <2>2. ended \in Seq(X) /\ open \in X
    BY <1>2
  <2>3. \/ Scan(more).ended = Append(ended, Bare(open)) /\ Scan(more).open = <<>>
        \/ Scan(more).ended = ended /\ Scan(more).open = Append(open, c)
    BY <2>1 DEF ReadOn
  <2>4. Bare(open) \in X /\ <<>> \in X /\ Append(open, c) \in X
    BY <2>2, BareIn, EmptySeq, AppendProperties
  <2> HIDE DEF more, ended, open, X
  <2>5. Append(ended, Bare(open)) \in Seq(X)
    BY <2>2, <2>4, AppendProperties
  <2>6. Scan(more).ended \in Seq(X) /\ Scan(more).open \in X
    BY <2>2, <2>3, <2>4, <2>5
  <2> QED BY <2>1, <2>6 DEF more
<1>3. Seq(S) \subseteq Good
  <2> HIDE DEF Good
  <2> QED BY <1>1, <1>2, AllSequences
<1> DEFINE ended == Scan(file).ended
           open == Scan(file).open
<1>4. ended \in Seq(X) /\ open \in X
  BY <1>3
<1>5. LinesOf(file) = IF open = <<>> THEN ended ELSE Append(ended, open)
  BY DEF LinesOf
<1> HIDE DEF ended, open, X
<1>6. LinesOf(file) \in Seq(X)
  BY <1>4, <1>5, AppendProperties
<1> QED BY <1>6, LenProperties

-----------------------------------------------------------------------------
(* What an answer was made from, and what follows for both questions.      *)

LEMMA LineCounts == ASSUME FcInv, question.is = "file" PROVE Start \in Int
<1>1. \A n \in 0..MaxLine : Only({n}) = n /\ n \in Int
  BY FormAssumption DEF Only
<1>2. question.line # {} => Only(question.line) \in Int
  BY <1>1 DEF FcInv, Option
<1> QED BY <1>2 DEF Start

LEMMA FcInvHolds == FcSpec => []FcInv
<1>1. FcInit => FcInv
  <2> SUFFICES ASSUME FcInit PROVE FcInv
    OBVIOUS
  <2>1. CASE question \in [is : {"form"}, form : Forms, given : Contents]
    BY <2>1 DEF FcInit, FcInv, FcTypeOK
  <2>2. CASE question \in [is : {"file"}, text : Files, line : Option, limit : Option]
    BY <2>2 DEF FcInit, FcInv, FcTypeOK
  <2> QED BY <2>1, <2>2 DEF FcInit
<1>2. FcInv /\ [FcNext]_fcVars => FcInv'
  <2> SUFFICES ASSUME FcInv, [FcNext]_fcVars PROVE FcInv'
    OBVIOUS
  <2>1. CASE SubmitForm
    <3>1. question' = question /\ question.is = "form"
      BY <2>1 DEF SubmitForm
    <3>2. \/ answer'.out = "refused"
          \/ /\ answer'.out = "content" /\ ~Refuses(question.form, question.given)
             /\ answer'.content = Filled(question.form, question.given)
      BY <2>1 DEF SubmitForm
    <3> QED BY <3>1, <3>2 DEF FcInv, FcTypeOK
  <2>2. CASE ReadFile
    <3>1. question' = question /\ question.is = "file" /\ Start' = Start
      BY <2>2 DEF ReadFile, Start
    <3>2. Start \in Int
      BY <3>1, LineCounts
    <3>3. Len(LinesOf(question.text)) \in Int
      <4> DEFINE S == ToSet(question.text)
      <4>1. question.text \in Seq(S)
        BY <3>1, FormAssumption DEF FcInv
      <4> HIDE DEF S
      <4>2. Len(LinesOf(question.text)) \in Nat
        BY <4>1, LinesCount
      <4> QED BY <4>2
    <3>4. \/ answer'.out = "refused"
          \/ /\ answer'.out = "text" /\ ~(Start < 0 \/ Start > Len(LinesOf(question.text)))
             /\ answer'.text = Window(question.text, Start, question.limit)
      BY <2>2 DEF ReadFile
    <3>5. ~(Start < 0 \/ Start > Len(LinesOf(question.text))) =>
            0 <= Start /\ Start <= Len(LinesOf(question.text))
      BY <3>2, <3>3
    <3> QED BY <3>1, <3>4, <3>5 DEF FcInv, FcTypeOK
  <2>3. CASE UNCHANGED fcVars
    BY <2>3 DEF fcVars, FcInv, FcTypeOK, Start
  <2> QED BY <2>1, <2>2, <2>3 DEF FcNext
<1> QED BY <1>1, <1>2, PTL DEF FcSpec

\* A form is answered with all required fields and nothing else, each value of its
\* type and, if the user gave it, within its bounds, for any form whose defaults have
\* the types of their fields: no field gets into the answer but by its own check
\* (acp/callbacks.rs:751-942).
THEOREM FormFitsAlways == FcSpec => []FormFits
<1>1. FcInv => FormFits
  BY FilledFits
<1> QED BY <1>1, FcInvHolds, PTL

\* A window of a file holds the lines that were asked for, each at its place, and the
\* whole of a file is the file, for any file without carriage returns, any first line
\* and any limit (acp/callbacks.rs:943-983).
THEOREM WindowHasItsLinesAlways == FcSpec => []WindowHasItsLines
<1>1. FcInv => WindowHasItsLines
  <2> SUFFICES ASSUME FcInv, answer.out = "text", "cr" \notin ToSet(question.text) PROVE WindowHasItsLines
    BY DEF WindowHasItsLines
  <2> DEFINE S == ToSet(question.text) \cup {"nl"}
             file == question.text
             limit == question.limit
             lines == LinesOf(file)
             wanted == SubSeq(lines, Start + 1, Upto(Start, limit, Len(lines)))
             window == Window(file, Start, limit)
             part == LinesOf(window)
  <2>1. /\ question.is = "file" /\ file \in Files /\ limit \in Option
        /\ 0 <= Start /\ Start <= Len(LinesOf(file)) /\ answer.text = window
    BY DEF FcInv
  <2>2. Plain(S)
    BY DEF Plain
  <2>3. file \in Seq(S)
    <3>1. file \in Seq(ToSet(file))
      BY <2>1, FormAssumption
    <3> QED BY <3>1, SeqMonotonic
  <2>4. Start \in Nat
    BY <2>1, LineCounts
  <2>5. question.line = {} => Start = 0
    BY DEF Start
  <2> HIDE DEF S, file, limit
  <2>6. /\ limit # {} => Len(part) <= Only(limit)
        /\ WithText(wanted) = WithText(part) /\ \A i \in WithText(part) : part[i] = wanted[i]
        /\ Start = 0 /\ limit = {} /\ file # <<"nl">> => window = file
    BY <2>1, <2>2, <2>3, <2>4, WindowHolds
  <2> HIDE DEF part, wanted, window, lines
  <2>7. /\ limit # {} => Len(part) <= Only(limit)
        /\ WithText(wanted) = WithText(part) /\ \A i \in WithText(part) : part[i] = wanted[i]
        /\ (question.line = {} /\ limit = {} /\ file # <<"nl">>) => window = file
    BY <2>5, <2>6
  <2> QED BY <2>1, <2>7 DEF WindowHasItsLines, file, limit, lines, wanted, window, part
<1> QED BY <1>1, FcInvHolds, PTL

-----------------------------------------------------------------------------
(* TerminalOutput.  The end of a sequence, whatever its elements are.      *)

\* Element by element.
LEMMA EndingIs ==
    ASSUME NEW S, NEW s \in Seq(S), NEW n \in 0..Len(s)
    PROVE  /\ Ending(s, n) \in Seq(S) /\ Len(Ending(s, n)) = n
           /\ \A i \in 1..n : Ending(s, n)[i] = s[Len(s) - n + i]
<1>1. Len(s) \in Nat /\ \A i \in 1..Len(s) : s[i] \in S
  BY ElementOfSeq, LenProperties
<1>2. CASE Len(s) = n
  BY <1>1, <1>2 DEF Ending
<1>3. CASE Len(s) # n
  <2>1. Ending(s, n) = SubSeq(s, Len(s) - n + 1, Len(s))
    BY <1>1, <1>3 DEF Ending
  <2>2. \A i \in Len(s) - n + 1..Len(s) : s[i] \in S
    BY <1>1
  <2> QED BY <1>1, <2>1, <2>2, SubSeqProperties
<1> QED BY <1>2, <1>3

LEMMA EndingAll == ASSUME NEW s, NEW n \in Nat, Len(s) \in Nat, Len(s) <= n PROVE Ending(s, n) = s
BY DEF Ending

\* An end behind which something is put, and the end of an end.
LEMMA EndingOfBoth ==
    ASSUME NEW S, NEW s \in Seq(S), NEW t \in Seq(S), NEW n \in 0..Len(s)
    PROVE  Ending(s \o t, n + Len(t)) = Ending(s, n) \o t
<1>1. Len(s) \in Nat /\ Len(t) \in Nat /\ n \in Nat
  BY LenProperties
<1>2. s \o t \in Seq(S) /\ Len(s \o t) = Len(s) + Len(t)
      /\ \A i \in 1..Len(s) + Len(t) : (s \o t)[i] = IF i <= Len(s) THEN s[i] ELSE t[i - Len(s)]
  BY ConcatProperties
<1>3. n + Len(t) \in 0..Len(s \o t)
  BY <1>1, <1>2
<1>4. Ending(s \o t, n + Len(t)) \in Seq(S) /\ Len(Ending(s \o t, n + Len(t))) = n + Len(t)
      /\ \A i \in 1..n + Len(t) : Ending(s \o t, n + Len(t))[i] = (s \o t)[Len(s) - n + i]
  <2> DEFINE st == s \o t
             nt == n + Len(t)
  <2>1. Len(st) - nt = Len(s) - n
    BY <1>1, <1>2
  <2>2. st \in Seq(S) /\ nt \in 0..Len(st)
    BY <1>2, <1>3
  <2> HIDE DEF st, nt
  <2>3. Ending(st, nt) \in Seq(S) /\ Len(Ending(st, nt)) = nt
        /\ \A i \in 1..nt : Ending(st, nt)[i] = st[Len(st) - nt + i]
    BY <2>2, EndingIs
  <2>4. \A i \in 1..nt : Ending(st, nt)[i] = st[Len(s) - n + i]
    BY <2>1, <2>3
  <2> QED BY <2>3, <2>4 DEF st, nt
<1>5. Ending(s, n) \in Seq(S) /\ Len(Ending(s, n)) = n
      /\ \A i \in 1..n : Ending(s, n)[i] = s[Len(s) - n + i]
  BY EndingIs
<1>6. Ending(s, n) \o t \in Seq(S) /\ Len(Ending(s, n) \o t) = n + Len(t)
      /\ \A i \in 1..n + Len(t) : (Ending(s, n) \o t)[i] = IF i <= n THEN Ending(s, n)[i] ELSE t[i - n]
  <2> DEFINE e == Ending(s, n)
  <2>1. e \in Seq(S) /\ Len(e) = n
    BY <1>5
  <2> HIDE DEF e
  <2>2. e \o t \in Seq(S) /\ Len(e \o t) = Len(e) + Len(t)
        /\ \A i \in 1..Len(e) + Len(t) : (e \o t)[i] = IF i <= Len(e) THEN e[i] ELSE t[i - Len(e)]
    BY <2>1, ConcatProperties
  <2> QED BY <2>1, <2>2 DEF e
<1>7. ASSUME NEW i \in 1..n + Len(t) PROVE Ending(s \o t, n + Len(t))[i] = (Ending(s, n) \o t)[i]
  <2>1. Ending(s \o t, n + Len(t))[i] = (s \o t)[Len(s) - n + i] /\ Len(s) - n + i \in 1..Len(s) + Len(t)
    BY <1>1, <1>4
  <2>2. CASE i <= n
    <3>1. Len(s) - n + i <= Len(s) /\ i \in 1..n
      BY <1>1, <2>2
    <3>2. (s \o t)[Len(s) - n + i] = s[Len(s) - n + i]
      BY <1>2, <2>1, <3>1
    <3>3. (Ending(s, n) \o t)[i] = s[Len(s) - n + i]
      BY <1>5, <1>6, <2>2, <3>1
    <3> QED BY <2>1, <3>2, <3>3
  <2>3. CASE i > n
    <3>1. ~(Len(s) - n + i <= Len(s)) /\ (Len(s) - n + i) - Len(s) = i - n
      BY <1>1, <2>3
    <3>2. (s \o t)[Len(s) - n + i] = t[i - n]
      BY <1>2, <2>1, <3>1
    <3>3. (Ending(s, n) \o t)[i] = t[i - n]
      BY <1>1, <1>6, <2>3
    <3> QED BY <2>1, <3>2, <3>3
  <2>4. i <= n \/ i > n
    BY <1>1
  <2> QED BY <2>2, <2>3, <2>4
<1> QED BY <1>4, <1>6, <1>7, SeqEqual

LEMMA EndingOfEnding ==
    ASSUME NEW S, NEW s \in Seq(S), NEW n \in 0..Len(s), NEW m \in 0..n
    PROVE  Ending(Ending(s, n), m) = Ending(s, m)
<1>1. Len(s) \in Nat /\ n \in Nat /\ m \in Nat /\ m \in 0..Len(s)
  BY LenProperties
<1>2. Ending(s, n) \in Seq(S) /\ Len(Ending(s, n)) = n
      /\ \A i \in 1..n : Ending(s, n)[i] = s[Len(s) - n + i]
  BY EndingIs
<1>3. Ending(s, m) \in Seq(S) /\ Len(Ending(s, m)) = m
      /\ \A i \in 1..m : Ending(s, m)[i] = s[Len(s) - m + i]
  BY <1>1, EndingIs
<1>4. Ending(Ending(s, n), m) \in Seq(S) /\ Len(Ending(Ending(s, n), m)) = m
      /\ \A i \in 1..m : Ending(Ending(s, n), m)[i] = Ending(s, n)[n - m + i]
  <2> DEFINE e == Ending(s, n)
  <2>1. e \in Seq(S) /\ Len(e) = n /\ m \in 0..Len(e)
    BY <1>1, <1>2
  <2> HIDE DEF e
  <2>2. Ending(e, m) \in Seq(S) /\ Len(Ending(e, m)) = m
        /\ \A i \in 1..m : Ending(e, m)[i] = e[Len(e) - m + i]
    BY <2>1, EndingIs
  <2> QED BY <2>1, <2>2 DEF e
<1>5. \A i \in 1..m : n - m + i \in 1..n /\ Len(s) - n + (n - m + i) = Len(s) - m + i
  BY <1>1
<1>6. \A i \in 1..m : Ending(Ending(s, n), m)[i] = Ending(s, m)[i]
  BY <1>2, <1>3, <1>4, <1>5
<1> QED BY <1>3, <1>4, <1>6, SeqEqual

\* What is in front of a long enough sequence does not show in its end.
LEMMA EndingOfSecond ==
    ASSUME NEW S, NEW s \in Seq(S), NEW t \in Seq(S), NEW n \in 0..Len(t)
    PROVE  Ending(s \o t, n) = Ending(t, n)
<1>1. Len(s) \in Nat /\ Len(t) \in Nat /\ s \o t \in Seq(S) /\ Len(s \o t) = Len(s) + Len(t)
  BY LenProperties, ConcatProperties
<1>2. Ending(s \o t, 0 + Len(t)) = Ending(s, 0) \o t
  BY <1>1, EndingOfBoth
<1>3. Ending(s, 0) \in Seq(S) /\ Len(Ending(s, 0)) = 0
  BY <1>1, EndingIs
<1>4. Ending(s, 0) = <<>>
  BY <1>3, EmptySeq
<1>5. Ending(s \o t, Len(t)) = t
  BY <1>1, <1>2, <1>4, ConcatEmptySeq
<1> DEFINE st == s \o t
           m == Len(t)
<1>6. st \in Seq(S) /\ m \in 0..Len(st) /\ n \in 0..m /\ Ending(st, m) = t
  BY <1>1, <1>5
<1> HIDE DEF st, m
<1>7. Ending(Ending(st, m), n) = Ending(st, n)
  BY <1>6, EndingOfEnding
<1> QED BY <1>6, <1>7 DEF st

-----------------------------------------------------------------------------
(* Snapshots of a command that the agent runs.                             *)

\* A sequence up to one of its elements.
LEMMA FirstOf ==
    ASSUME NEW S, NEW s \in Seq(S), NEW n \in 0..Len(s)
    PROVE  /\ SubSeq(s, 1, n) \in Seq(S) /\ Len(SubSeq(s, 1, n)) = n
           /\ \A i \in 1..n : SubSeq(s, 1, n)[i] = s[i]
<1>1. n \in Nat /\ \A i \in 1..n : s[i] \in S
  BY LenProperties, ElementOfSeq
<1>2. /\ SubSeq(s, 1, n) \in Seq(S)
      /\ Len(SubSeq(s, 1, n)) = IF 1 <= n THEN n - 1 + 1 ELSE 0
      /\ \A i \in 1..n - 1 + 1 : SubSeq(s, 1, n)[i] = s[1 + i - 1]
  BY <1>1, SubSeqProperties
<1>3. n - 1 + 1 = n
  BY <1>1
<1> QED BY <1>1, <1>2, <1>3

\* A snapshot that does not fit the buffer replaces what it is a continuation of, or
\* pushes it out; one that fits is compared with all there is.
LEMMA SnapshotMerged ==
    ASSUME NEW S, NEW all \in Seq(S), Limit \in Nat, NEW n \in 1..Len(all), NEW m \in 0..Len(all),
           n >= m \/ m <= Limit
    PROVE  Ending(Merge(Ending(SubSeq(all, 1, m), Limit), SubSeq(all, 1, n)), Limit) =
               Ending(SubSeq(all, 1, IF n > m THEN n ELSE m), Limit)
<1> DEFINE new == SubSeq(all, 1, n)
           old == SubSeq(all, 1, m)
           have == Ending(old, Limit)
<1>0. Len(all) \in Nat /\ n \in Nat /\ m \in Nat
  BY LenProperties
<1>1. new \in Seq(S) /\ Len(new) = n /\ \A i \in 1..n : new[i] = all[i]
  BY <1>0, FirstOf
<1>2. old \in Seq(S) /\ Len(old) = m /\ \A i \in 1..m : old[i] = all[i]
  BY FirstOf
<1> HIDE DEF new, old
<1>3. CASE m <= Limit /\ n >= m
  <2>1. have = old
    BY <1>0, <1>2, <1>3, EndingAll
  <2>2. SubSeq(old, 1, m) = old /\ SubSeq(new, 1, m) = old
    <3>1. m \in 0..Len(new) /\ m \in 0..Len(old)
      BY <1>0, <1>1, <1>2, <1>3
    <3>2. SubSeq(new, 1, m) \in Seq(S) /\ Len(SubSeq(new, 1, m)) = m /\ \A i \in 1..m : SubSeq(new, 1, m)[i] = new[i]
      BY <1>1, <3>1, FirstOf
    <3>3. \A i \in 1..m : SubSeq(new, 1, m)[i] = old[i]
      BY <1>0, <1>1, <1>2, <1>3, <3>2
    <3>4. SubSeq(new, 1, m) = old
      BY <1>2, <3>2, <3>3, SeqEqual
    <3> QED BY <1>2, <3>4, SubSeqFull
  <2>3. IsPrefix(have, new)
    BY <1>1, <1>2, <1>3, <2>1, <2>2 DEF IsPrefix
  <2>4. Merge(have, new) = new
    BY <2>3 DEF Merge
  <2>5. n > m \/ (n = m /\ new = old)
    BY <1>0, <1>3 DEF new, old
  <2> QED BY <1>0, <2>4, <2>5 DEF new, old
<1>4. CASE m <= Limit /\ n < m
  <2>1. have = old
    BY <1>0, <1>2, <1>4, EndingAll
  <2>2. have # <<>> /\ ~IsPrefix(have, new)
    <3>1. have # <<>>
      BY <1>0, <1>2, <1>4, <2>1, EmptySeq
    <3> QED BY <1>0, <1>1, <1>2, <1>4, <2>1, <3>1 DEF IsPrefix
  <2>3. Within(new, have)
    <3>1. SubSeq(old, 1, n) = new
      <4>1. n \in 0..Len(old)
        BY <1>0, <1>2, <1>4
      <4>2. SubSeq(old, 1, n) \in Seq(S) /\ Len(SubSeq(old, 1, n)) = n /\ \A i \in 1..n : SubSeq(old, 1, n)[i] = old[i]
        BY <1>2, <4>1, FirstOf
      <4>3. \A i \in 1..n : SubSeq(old, 1, n)[i] = new[i]
        BY <1>0, <1>1, <1>2, <1>4, <4>2
      <4> QED BY <1>1, <4>2, <4>3, SeqEqual
    <3>2. 0 \in 0..Len(have) /\ 0 + Len(new) <= Len(have) /\ SubSeq(have, 0 + 1, 0 + Len(new)) = new
      BY <1>0, <1>1, <1>2, <1>4, <2>1, <3>1
    <3> QED BY <3>2 DEF Within
  <2>4. Merge(have, new) = have
    BY <2>2, <2>3 DEF Merge
  <2>5. Ending(have, Limit) = have
    BY <1>0, <1>2, <1>4, <2>1, EndingAll
  <2> QED BY <1>0, <1>4, <2>4, <2>5 DEF old, new
<1>5. CASE m > Limit
  <2>1. n >= m /\ Limit \in 0..m /\ Limit < n
    BY <1>0, <1>5
  <2>2. have \in Seq(S) /\ Len(have) = Limit
    BY <1>2, <2>1, EndingIs
  <2>3. ~Within(new, have)
    BY <1>0, <1>1, <2>1, <2>2 DEF Within
  <2>4. Ending(Merge(have, new), Limit) = Ending(new, Limit)
    <3>1. CASE have = <<>> \/ IsPrefix(have, new)
      BY <3>1 DEF Merge
    <3>2. CASE ~(have = <<>> \/ IsPrefix(have, new))
      <4>1. Merge(have, new) = Break(have) \o new
        BY <2>3, <3>2 DEF Merge
      <4> DEFINE T == S \cup {"nl"}
      <4>2. have \in Seq(T) /\ new \in Seq(T)
        BY <1>1, <2>2, SeqMonotonic
      <4> HIDE DEF T, have
      <4>3. Append(have, "nl") \in Seq(T)
        BY <4>2 DEF T
      <4>4. Break(have) \in Seq(T)
        BY <4>2, <4>3 DEF Break
      <4>5. Limit \in 0..Len(new)
        BY <1>0, <1>1, <2>1
      <4> QED BY <4>1, <4>2, <4>4, <4>5, EndingOfSecond
    <3> QED BY <3>1, <3>2
  <2>5. n > m \/ (n = m /\ new = old)
    BY <1>0, <2>1 DEF new, old
  <2> QED BY <1>0, <2>4, <2>5 DEF new, old
<1> QED BY <1>0, <1>3, <1>4, <1>5

-----------------------------------------------------------------------------
(* The buffer.  What is taken from its front is what is too much.          *)

Chars == [pipe : Pipe, at : Nat, whole : BOOLEAN, size : Nat]

\* f[n] is how many bytes the first n characters have.
WeightUpto(f, chars, n) ==
    f = [i \in 0..n |-> IF i = 0 THEN 0 ELSE f[i - 1] + chars[i].size]

LEMMA WeightExists ==
    ASSUME NEW chars, NEW n \in Nat PROVE \E f : WeightUpto(f, chars, n)
<1> DEFINE Bad == {m \in Nat : ~ \E f : WeightUpto(f, chars, m)}
<1>1. SUFFICES ASSUME Bad # {} PROVE FALSE
  OBVIOUS
<1>2. PICK m \in Bad : \A k \in Bad : m <= k
  BY <1>1, LeastNumber
<1>3. m # 0
  <2>1. WeightUpto([i \in 0..0 |-> 0], chars, 0)
    BY DEF WeightUpto
  <2> QED BY <2>1
<1>4. m - 1 \in Nat /\ m - 1 \notin Bad
  BY <1>2, <1>3
<1>5. PICK f : WeightUpto(f, chars, m - 1)
  BY <1>4
<1> DEFINE g == [i \in 0..m |-> IF i < m THEN f[i] ELSE f[m - 1] + chars[m].size]
<1>6. WeightUpto(g, chars, m)
  <2>1. \A i \in 0..m : g[i] = IF i = 0 THEN 0 ELSE g[i - 1] + chars[i].size
    <3> TAKE i \in 0..m
    <3>1. CASE i = 0
      BY <1>3, <1>5, <3>1 DEF WeightUpto
    <3>2. CASE i # 0 /\ i < m
      <4>1. i \in 0..m - 1 /\ i - 1 \in 0..m /\ i - 1 < m
        BY <3>2
      <4>2. f[i] = f[i - 1] + chars[i].size
        BY <1>5, <3>2, <4>1 DEF WeightUpto
      <4> QED BY <3>2, <4>1, <4>2
    <3>3. CASE i = m
      <4>1. m - 1 \in 0..m /\ m - 1 < m
        BY <1>3
      <4> QED BY <1>3, <3>3, <4>1
    <3> QED BY <3>1, <3>2, <3>3
  <2> HIDE DEF g
  <2>2. g = [i \in 0..m |-> g[i]]
    BY DEF g
  <2> QED BY <2>1, <2>2 DEF WeightUpto
<1> QED BY <1>2, <1>6

LEMMA WeightIs ==
    ASSUME NEW chars, Len(chars) \in Nat
    PROVE  \E f : WeightUpto(f, chars, Len(chars)) /\ Weight(chars) = f[Len(chars)]
<1> DEFINE f == CHOOSE f : f = [n \in 0..Len(chars) |-> IF n = 0 THEN 0 ELSE f[n - 1] + chars[n].size]
<1>1. \E g : g = [n \in 0..Len(chars) |-> IF n = 0 THEN 0 ELSE g[n - 1] + chars[n].size]
  <2>1. PICK g : WeightUpto(g, chars, Len(chars))
    BY WeightExists
  <2> QED BY <2>1 DEF WeightUpto
<1>2. f = [n \in 0..Len(chars) |-> IF n = 0 THEN 0 ELSE f[n - 1] + chars[n].size]
  BY <1>1
<1>3. Weight(chars) = f[Len(chars)]
  BY DEF Weight
<1> HIDE DEF f
<1> QED BY <1>2, <1>3 DEF WeightUpto

LEMMA NoWeight == Weight(<<>>) = 0
<1>1. Len(<<>>) = 0
  OBVIOUS
<1>2. PICK f : WeightUpto(f, <<>>, 0) /\ Weight(<<>>) = f[0]
  BY <1>1, WeightIs
<1> QED BY <1>2 DEF WeightUpto

\* More characters weigh no less.
LEMMA WeightGrows ==
    ASSUME NEW s \in Seq(Chars), NEW t \in Seq(Chars)
    PROVE  Weight(s) \in Nat /\ Weight(s \o t) \in Nat /\ Weight(s) <= Weight(s \o t)
<1> DEFINE st == s \o t
<1>1. Len(s) \in Nat /\ Len(t) \in Nat /\ st \in Seq(Chars) /\ Len(st) = Len(s) + Len(t)
      /\ \A i \in 1..Len(s) : st[i] = s[i]
  <2>1. Len(s) \in Nat /\ Len(t) \in Nat
    BY LenProperties
  <2>2. st \in Seq(Chars) /\ Len(st) = Len(s) + Len(t)
        /\ \A i \in 1..Len(s) + Len(t) : st[i] = IF i <= Len(s) THEN s[i] ELSE t[i - Len(s)]
    BY ConcatProperties
  <2> HIDE DEF st
  <2>3. \A i \in 1..Len(s) : i \in 1..Len(s) + Len(t) /\ i <= Len(s)
    BY <2>1
  <2> QED BY <2>1, <2>2, <2>3
<1> HIDE DEF st
<1>2. ASSUME NEW i \in 1..Len(st) PROVE st[i].size \in Nat
  <2>1. st[i] \in Chars
    BY <1>1, ElementOfSeq
  <2> QED BY <2>1 DEF Chars
<1>3. PICK f : WeightUpto(f, s, Len(s)) /\ Weight(s) = f[Len(s)]
  BY <1>1, WeightIs
<1>4. PICK g : WeightUpto(g, st, Len(st)) /\ Weight(st) = g[Len(st)]
  <2>1. Len(st) \in Nat
    BY <1>1
  <2> QED BY <2>1, WeightIs
<1> DEFINE Good(n) ==
        /\ g[n] \in Nat
        /\ n <= Len(s) => f[n] = g[n]
        /\ n >= Len(s) => f[Len(s)] <= g[n]
<1> DEFINE Bad == {n \in 0..Len(st) : ~Good(n)}
<1>5. Bad = {}
  <2>1. SUFFICES ASSUME Bad # {} PROVE FALSE
    OBVIOUS
  <2>2. PICK n \in Bad : \A m \in Bad : n <= m
    <3>1. Bad \subseteq Nat
      OBVIOUS
    <3> HIDE DEF Bad
    <3> QED BY <2>1, <3>1, LeastNumber
  <2>3. n \in 0..Len(st) /\ ~Good(n)
    BY <2>2
  <2>4. n # 0
    <3>1. f[0] = 0 /\ g[0] = 0
      BY <1>1, <1>3, <1>4 DEF WeightUpto
    <3> QED BY <1>1, <2>3, <3>1
  <2>5. n - 1 \in 0..Len(st) /\ n \in 1..Len(st) /\ Good(n - 1)
    <3>1. n - 1 \in 0..Len(st) /\ n \in 1..Len(st)
      BY <1>1, <2>3, <2>4
    <3>2. n - 1 \notin Bad
      <4> HIDE DEF Bad
      <4> QED BY <2>2, <3>1
    <3> QED BY <3>1, <3>2
  <2>6. g[n] = g[n - 1] + st[n].size /\ g[n] \in Nat /\ g[n - 1] <= g[n]
    <3>1. g[n] = g[n - 1] + st[n].size
      BY <1>4, <2>3, <2>4 DEF WeightUpto
    <3>2. g[n - 1] \in Nat /\ st[n].size \in Nat
      BY <1>2, <2>5
    <3> QED BY <3>1, <3>2
  <2>7. CASE n <= Len(s)
    <3>1. n \in 0..Len(s) /\ n \in 1..Len(s) /\ n - 1 <= Len(s)
      BY <1>1, <2>5, <2>7
    <3>2. f[n] = f[n - 1] + s[n].size
      BY <1>3, <2>4, <3>1 DEF WeightUpto
    <3>3. f[n] = g[n]
      BY <1>1, <2>5, <2>6, <3>1, <3>2
    <3>4. n >= Len(s) => n = Len(s)
      BY <1>1, <3>1
    <3>5. Good(n)
      BY <2>6, <3>3, <3>4
    <3> QED BY <2>3, <3>5
  <2>8. CASE n > Len(s)
    <3>1. n - 1 >= Len(s) /\ ~(n <= Len(s))
      BY <1>1, <2>5, <2>8
    <3>2. f[Len(s)] <= g[n - 1]
      BY <2>5, <3>1
    <3>3. f[Len(s)] \in Nat
      <4>1. Len(s) \in 0..Len(st) /\ Len(s) < n
        BY <1>1, <2>8
      <4>2. Len(s) \notin Bad
        <5> HIDE DEF Bad
        <5> QED BY <1>1, <2>2, <2>3, <4>1
      <4>3. Good(Len(s))
        BY <4>1, <4>2
      <4> QED BY <1>1, <4>3
    <3>4. f[Len(s)] <= g[n]
      BY <2>5, <2>6, <3>2, <3>3
    <3>5. Good(n)
      BY <2>6, <3>1, <3>4
    <3> QED BY <2>3, <3>5
  <2>9. n <= Len(s) \/ n > Len(s)
    BY <1>1, <2>5
  <2> QED BY <2>7, <2>8, <2>9
<1>6. Good(Len(s)) /\ Good(Len(st))
  <2>1. Len(s) \in 0..Len(st) /\ Len(st) \in 0..Len(st)
    BY <1>1
  <2> QED BY <1>5, <2>1
<1>7. f[Len(s)] = g[Len(s)] /\ g[Len(s)] \in Nat /\ g[Len(st)] \in Nat /\ f[Len(s)] <= g[Len(st)]
  BY <1>1, <1>6
<1> QED BY <1>3, <1>4, <1>7 DEF st

\* What Trim leaves is the longest end that fits.
LEMMA Trimmed ==
    ASSUME NEW all \in Seq(Chars), Limit \in Nat, Weight(all) > Limit
    PROVE  \E n \in 0..Len(all) - 1 :
               /\ Trim(all) = Ending(all, n) /\ Weight(Ending(all, n)) <= Limit
               /\ Weight(Ending(all, n + 1)) > Limit
<1> DEFINE Rest(n) == SubSeq(all, n + 1, Len(all))
           FitsFrom(n) == Weight(Rest(n)) <= Limit
           Gone(n) == FitsFrom(n) /\ \A m \in 0..(n - 1) : Weight(Rest(m)) > Limit
<1>1. Len(all) \in Nat
  BY LenProperties
<1>2. ASSUME NEW n \in 0..Len(all) PROVE Rest(n) = Ending(all, Len(all) - n)
  <2>1. CASE n = 0
    <3>1. Rest(n) = all
      BY <2>1, SubSeqFull
    <3>2. Ending(all, Len(all) - n) = all
      BY <1>1, <2>1 DEF Ending
    <3> QED BY <3>1, <3>2
  <2>2. CASE n # 0
    <3>1. Len(all) > Len(all) - n /\ Len(all) - (Len(all) - n) + 1 = n + 1
      BY <1>1, <2>2
    <3> QED BY <3>1 DEF Ending
  <2> QED BY <2>1, <2>2
<1>3. ASSUME NEW n \in 0..Len(all) PROVE Weight(Rest(n)) \in Nat
  <2>1. Len(all) - n \in 0..Len(all)
    BY <1>1
  <2>2. Ending(all, Len(all) - n) \in Seq(Chars)
    BY <2>1, EndingIs
  <2>3. Rest(n) \in Seq(Chars)
    BY <1>2, <2>2
  <2> HIDE DEF Rest
  <2> QED BY <2>3, EmptySeq, WeightGrows
<1>4. FitsFrom(Len(all))
  <2>1. Rest(Len(all)) = <<>>
    BY <1>1, SubSeqEmpty
  <2> HIDE DEF Rest
  <2> QED BY <2>1, NoWeight
<1>5. \E n \in 0..Len(all) : Gone(n)
  <2> DEFINE T == {n \in 0..Len(all) : FitsFrom(n)}
  <2>1. Len(all) \in T /\ T \subseteq Nat
    BY <1>1, <1>4
  <2>2. PICK n \in T : \A m \in T : n <= m
    <3> HIDE DEF T
    <3> QED BY <2>1, LeastNumber
  <2>3. n \in 0..Len(all) /\ FitsFrom(n)
    BY <2>2
  <2>4. ASSUME NEW m \in 0..(n - 1) PROVE Weight(Rest(m)) > Limit
    <3>1. m \in 0..Len(all) /\ ~(n <= m)
      BY <1>1, <2>3
    <3>2. ~FitsFrom(m)
      <4> HIDE DEF FitsFrom
      <4> QED BY <2>2, <3>1
    <3> QED BY <1>3, <3>1, <3>2
  <2> QED BY <2>3, <2>4
<1> DEFINE gone == CHOOSE n \in 0..Len(all) : Gone(n)
<1>6. gone \in 0..Len(all) /\ Gone(gone)
  <2> HIDE DEF Gone
  <2> QED BY <1>5
<1>7. Trim(all) = Rest(gone)
  BY DEF Trim
<1> HIDE DEF gone
<1>8. gone # 0
  <2>1. Rest(0) = all
    BY SubSeqFull
  <2>2. ~FitsFrom(0)
    <3> HIDE DEF Rest
    <3>1. Weight(Rest(0)) \in Nat
      BY <1>1, <1>3
    <3> QED BY <2>1, <3>1
  <2> QED BY <1>6, <2>2
<1>9. Len(all) - gone \in 0..Len(all) - 1 /\ gone - 1 \in 0..Len(all) /\ gone - 1 \in 0..(gone - 1)
      /\ Len(all) - (gone - 1) = (Len(all) - gone) + 1
  BY <1>1, <1>6, <1>8
<1>10. Rest(gone) = Ending(all, Len(all) - gone) /\ Rest(gone - 1) = Ending(all, (Len(all) - gone) + 1)
  <2>1. Rest(gone) = Ending(all, Len(all) - gone)
    BY <1>2, <1>6
  <2>2. Rest(gone - 1) = Ending(all, Len(all) - (gone - 1))
    BY <1>2, <1>9
  <2> QED BY <1>9, <2>1, <2>2
<1>11. Weight(Rest(gone)) <= Limit /\ Weight(Rest(gone - 1)) > Limit
  <2> HIDE DEF Rest
  <2> QED BY <1>6, <1>9
<1> HIDE DEF Rest
<1> QED BY <1>7, <1>9, <1>10, <1>11

\* An append keeps the buffer at the end of what was printed.
LEMMA AppendKeeps ==
    ASSUME NEW chars \in Seq(Chars), printed \in Seq(Chars), kept \in Seq(Chars), truncated \in BOOLEAN,
           Limit \in Nat, KeepsTheEnd, AppendOutput(chars)
    PROVE  /\ printed' \in Seq(Chars) /\ kept' \in Seq(Chars) /\ truncated' \in BOOLEAN
           /\ KeepsTheEnd'
<1> DEFINE all == kept \o chars
           n == Len(kept)
           d == Len(chars)
<1>1. n \in Nat /\ d \in Nat /\ Len(printed) \in Nat
  BY LenProperties
<1>2. all \in Seq(Chars) /\ Len(all) = n + d
  BY ConcatProperties
<1>3. printed' = printed \o chars /\ printed' \in Seq(Chars) /\ Len(printed') = Len(printed) + d
  BY ConcatProperties DEF AppendOutput
<1>4. n <= Len(printed) /\ kept = Ending(printed, n)
  <2>1. kept = Ending(printed, n)
    BY DEF KeepsTheEnd
  <2>2. CASE Len(printed) > n
    BY <1>1, <2>1, <2>2
  <2>3. CASE Len(printed) <= n
    <3>1. kept = printed
      BY <1>1, <2>1, <2>3, EndingAll
    <3> QED BY <1>1, <2>1, <3>1
  <2> QED BY <1>1, <2>1, <2>2, <2>3
<1>5. all = Ending(printed', n + d)
  <2>1. n \in 0..Len(printed)
    BY <1>1, <1>4
  <2>2. Ending(printed \o chars, n + d) = Ending(printed, n) \o chars
    BY <2>1, EndingOfBoth
  <2> QED BY <1>3, <1>4, <2>2
<1>6. Weight(all) \in Nat
  BY WeightGrows
<1>7. CASE Weight(all) <= Limit
  <2>1. kept' = all /\ truncated' = truncated
    BY <1>6, <1>7 DEF AppendOutput
  <2>2. kept' = Ending(printed', Len(kept')) /\ Weight(kept') <= Limit
    BY <1>2, <1>5, <1>7, <2>1
  <2>3. truncated' <=> kept' # printed'
    <3>1. CASE truncated
      <4>1. Len(printed) # n
        <5>1. kept # printed
          BY <3>1 DEF KeepsTheEnd
        <5>2. Len(printed) = n => kept = printed
          BY <1>1, <1>4, EndingAll
        <5> QED BY <5>1, <5>2
      <4>2. Len(kept') # Len(printed')
        BY <1>1, <1>2, <1>3, <2>1, <4>1
      <4> QED BY <2>1, <3>1, <4>2
    <3>2. CASE ~truncated
      BY <1>3, <2>1, <3>2 DEF KeepsTheEnd
    <3> QED BY <3>1, <3>2
  <2>4. ASSUME truncated PROVE Weight(Ending(printed', Len(kept') + 1)) > Limit
    <3>1. n + 1 \in 0..Len(printed)
      <4>1. Len(printed) = n => kept = printed
        BY <1>1, <1>4, EndingAll
      <4>2. kept # printed
        BY <2>4 DEF KeepsTheEnd
      <4> QED BY <1>1, <1>4, <4>1, <4>2
    <3> DEFINE more == Ending(printed, n + 1)
    <3>2. more \in Seq(Chars) /\ Weight(more) > Limit
      BY <2>4, <3>1, EndingIs DEF KeepsTheEnd
    <3>3. Ending(printed', (n + 1) + d) = more \o chars
      BY <1>3, <3>1, EndingOfBoth
    <3>4. Len(kept') + 1 = (n + 1) + d
      BY <1>1, <1>2, <2>1
    <3> HIDE DEF more
    <3>5. Weight(more) \in Nat /\ Weight(more \o chars) \in Nat /\ Weight(more) <= Weight(more \o chars)
      BY <3>2, WeightGrows
    <3>6. Weight(more \o chars) > Limit
      BY <3>2, <3>5
    <3> QED BY <3>3, <3>4, <3>6
  <2> QED BY <1>2, <1>3, <2>1, <2>2, <2>3, <2>4 DEF KeepsTheEnd
<1>8. CASE Weight(all) > Limit
  <2>1. kept' = Trim(all) /\ truncated' = TRUE
    BY <1>8 DEF AppendOutput
  <2> HIDE DEF all
  <2>2. PICK m \in 0..Len(all) - 1 :
            /\ Trim(all) = Ending(all, m) /\ Weight(Ending(all, m)) <= Limit
            /\ Weight(Ending(all, m + 1)) > Limit
    BY <1>2, <1>8, Trimmed
  <2>3. m \in 0..Len(all) /\ m + 1 \in 0..Len(all) /\ m \in 0..n + d /\ m + 1 \in 0..n + d
        /\ n + d \in 0..Len(printed') /\ m # Len(printed')
    BY <1>1, <1>2, <1>3, <1>4
  <2>4. kept' \in Seq(Chars) /\ Len(kept') = m
    BY <1>2, <2>1, <2>2, <2>3, EndingIs
  <2> HIDE DEF n, d
  <2>5. Ending(all, m) = Ending(printed', m) /\ Ending(all, m + 1) = Ending(printed', m + 1)
    <3> DEFINE pr == printed'
    <3>1. pr \in Seq(Chars) /\ n + d \in 0..Len(pr) /\ all = Ending(pr, n + d)
      BY <1>3, <1>5, <2>3
    <3> HIDE DEF pr
    <3>2. Ending(Ending(pr, n + d), m) = Ending(pr, m) /\ Ending(Ending(pr, n + d), m + 1) = Ending(pr, m + 1)
      BY <2>3, <3>1, EndingOfEnding
    <3> QED BY <3>1, <3>2 DEF pr
  <2>6. kept' # printed'
    BY <2>3, <2>4
  <2>7. kept' = Ending(printed', Len(kept')) /\ Weight(kept') <= Limit
        /\ Weight(Ending(printed', Len(kept') + 1)) > Limit
    BY <2>1, <2>2, <2>4, <2>5
  <2> QED BY <1>3, <2>1, <2>4, <2>6, <2>7 DEF KeepsTheEnd
<1>9. Weight(all) <= Limit \/ Weight(all) > Limit
  BY <1>6
<1> QED BY <1>7, <1>8, <1>9

-----------------------------------------------------------------------------
(* Bytes and characters.                                                   *)

\* What is said in Spelled of a byte and the one before it.
Follows(d) ==
    \A j \in 1..Len(d) :
        /\ d[j].nth <= Size(d[j].size)
        /\ j > 1 =>
            IF d[j].nth = 1
            THEN d[j].at = d[j - 1].at + 1 /\ d[j - 1].nth = Size(d[j - 1].size)
            ELSE d[j - 1] = [at |-> d[j].at, size |-> d[j].size, nth |-> d[j].nth - 1]

LEMMA ByteIs == ASSUME NEW d \in Seq(Bytes), NEW j \in 1..Len(d)
                PROVE  d[j].at \in Nat \ {0} /\ d[j].size \in 0..4 /\ d[j].nth \in 1..4
<1>1. d[j] \in Bytes
  BY ElementOfSeq
<1> QED BY <1>1 DEF Bytes

LEMMA SpelledFollows == ASSUME NEW d \in Seq(Bytes), Spelled(d) PROVE Follows(d)
<1>1. DOMAIN d = 1..Len(d)
  BY LenProperties
<1>2. ASSUME NEW j \in 1..Len(d)
      PROVE  /\ d[j].nth <= Size(d[j].size)
             /\ j > 1 =>
                IF d[j].nth = 1
                THEN d[j].at = d[j - 1].at + 1 /\ d[j - 1].nth = Size(d[j - 1].size)
                ELSE d[j - 1] = [at |-> d[j].at, size |-> d[j].size, nth |-> d[j].nth - 1]
  <2>1. d[j].nth <= Size(d[j].size)
    BY <1>1 DEF Spelled
  <2>2. ASSUME j > 1
        PROVE  IF d[j].nth = 1
               THEN d[j].at = d[j - 1].at + 1 /\ d[j - 1].nth = Size(d[j - 1].size)
               ELSE d[j - 1] = [at |-> d[j].at, size |-> d[j].size, nth |-> d[j].nth - 1]
    <3>1. j # 1
      BY <2>2
    <3> QED BY <1>1, <3>1 DEF Spelled
  <2> QED BY <2>1, <2>2
<1> QED BY <1>2 DEF Follows

\* A part of a text, byte by byte.
LEMMA PartOf ==
    ASSUME NEW d \in Seq(Bytes), Follows(d), NEW a \in 1..Len(d) + 1, NEW b \in a - 1..Len(d)
    PROVE  /\ SubSeq(d, a, b) \in Seq(Bytes) /\ Len(SubSeq(d, a, b)) = b - a + 1
           /\ \A i \in 1..b - a + 1 : SubSeq(d, a, b)[i] = d[a + i - 1]
           /\ Follows(SubSeq(d, a, b))
<1> DEFINE e == SubSeq(d, a, b)
<1>1. Len(d) \in Nat /\ a \in Int /\ b \in Int /\ \A i \in a..b : i \in 1..Len(d)
  BY LenProperties
<1>2. \A i \in a..b : d[i] \in Bytes
  BY <1>1, ElementOfSeq
<1>3. e \in Seq(Bytes) /\ Len(e) = (IF a <= b THEN b - a + 1 ELSE 0)
      /\ \A i \in 1..b - a + 1 : e[i] = d[a + i - 1]
  BY <1>1, <1>2, SubSeqProperties
<1>4. Len(e) = b - a + 1
  BY <1>1, <1>3
<1> HIDE DEF e
<1>5. ASSUME NEW j \in 1..Len(e)
      PROVE  /\ e[j].nth <= Size(e[j].size)
             /\ j > 1 =>
                IF e[j].nth = 1
                THEN e[j].at = e[j - 1].at + 1 /\ e[j - 1].nth = Size(e[j - 1].size)
                ELSE e[j - 1] = [at |-> e[j].at, size |-> e[j].size, nth |-> e[j].nth - 1]
  <2> DEFINE i == a + j - 1
  <2>1. i \in 1..Len(d) /\ e[j] = d[i]
    BY <1>1, <1>3, <1>4
  <2>2. j > 1 => i > 1 /\ e[j - 1] = d[i - 1]
    <3> SUFFICES ASSUME j > 1 PROVE i > 1 /\ e[j - 1] = d[i - 1]
      OBVIOUS
    <3>1. j - 1 \in 1..b - a + 1 /\ a + (j - 1) - 1 = i - 1 /\ i > 1
      BY <1>1, <1>4
    <3>2. e[j - 1] = d[a + (j - 1) - 1]
      BY <1>3, <3>1
    <3> QED BY <3>1, <3>2
  <2> HIDE DEF i
  <2> QED BY <2>1, <2>2 DEF Follows
<1>6. Follows(e)
  BY <1>5 DEF Follows
<1> QED BY <1>3, <1>4, <1>6 DEF e

\* Characters are numbered without a gap, and a part that begins with the first byte of a
\* character and ends with the last of one has all bytes of each between them.
LEMMA CharactersOf ==
    ASSUME NEW d \in Seq(Bytes), Follows(d), Len(d) > 0
    PROVE  /\ d[Len(d)].at >= d[1].at
           /\ (/\ d[1].nth = 1 /\ d[Len(d)].nth = d[Len(d)].size
               /\ \A j \in 1..Len(d) : d[j].size # 0)
              => \A i \in d[1].at..d[Len(d)].at : HasAll(d, i)
<1> DEFINE Begun(j) == \A i \in d[1].at..d[j].at : \E x \in 1..j : d[x].at = i /\ d[x].nth = 1
           Ended(j) == \A i \in d[1].at..d[j].at - 1 :
                           \E x \in 1..j : d[x].at = i /\ d[x].nth = Size(d[x].size)
           Good(j) == d[j].at >= d[1].at /\ Ended(j) /\ (d[1].nth = 1 => Begun(j))
           Bad == {j \in 1..Len(d) : ~Good(j)}
<1>1. Len(d) \in Nat /\ DOMAIN d = 1..Len(d)
  BY LenProperties
<1>2. Bad = {}
  <2>1. SUFFICES ASSUME Bad # {} PROVE FALSE
    OBVIOUS
  <2>2. PICK j \in Bad : \A m \in Bad : j <= m
    <3>1. Bad \subseteq Nat
      OBVIOUS
    <3> HIDE DEF Bad
    <3> QED BY <2>1, <3>1, LeastNumber
  <2>3. j \in 1..Len(d) /\ ~Good(j)
    BY <2>2
  <2>4. d[1].at \in Nat /\ d[j].at \in Nat
    BY <1>1, <2>3, ByteIs
  <2>5. j # 1
    <3>1. d[1].at >= d[1].at /\ 1 \in 1..1
      BY <1>1, <2>3, ByteIs
    <3>2. Ended(1)
      <4>1. d[1].at..d[1].at - 1 = {}
        BY <1>1, <2>3, ByteIs
      <4> QED BY <4>1
    <3>3. d[1].nth = 1 => Begun(1)
      <4>1. \A i \in d[1].at..d[1].at : i = d[1].at
        BY <1>1, <2>3, ByteIs
      <4> QED BY <3>1, <4>1
    <3>4. Good(1)
      BY <3>1, <3>2, <3>3
    <3> HIDE DEF Good
    <3> QED BY <2>3, <3>4
  <2> DEFINE m == j - 1
  <2>6. m \in 1..Len(d) /\ j > 1 /\ m < j
    BY <1>1, <2>3, <2>5
  <2>7. Good(m)
    <3>1. m \notin Bad
      <4> HIDE DEF Bad, m
      <4> QED BY <1>1, <2>2, <2>3, <2>6
    <3> QED BY <2>6, <3>1
  <2>8. d[m].at \in Nat
    BY <1>1, <2>6, ByteIs
  <2>9. \A x \in 1..m : x \in 1..j
    BY <1>1, <2>3
  <2>10. j \in 1..j /\ m \in 1..j
    BY <1>1, <2>3, <2>6
  <2>11. CASE d[j].nth = 1
    <3>1. d[j].at = d[m].at + 1 /\ d[m].nth = Size(d[m].size)
      BY <2>3, <2>6, <2>11 DEF Follows
    <3> HIDE DEF m
    <3>2. d[j].at >= d[1].at
      BY <2>4, <2>7, <2>8, <3>1
    <3>3. Ended(j)
      <4> SUFFICES ASSUME NEW i \in d[1].at..d[j].at - 1
                   PROVE  \E x \in 1..j : d[x].at = i /\ d[x].nth = Size(d[x].size)
        OBVIOUS
      <4>1. CASE i = d[m].at
        BY <2>10, <3>1, <4>1
      <4>2. CASE i # d[m].at
        <5>1. i \in d[1].at..d[m].at - 1
          BY <2>4, <2>8, <3>1, <4>2
        <5> QED BY <2>7, <2>9, <5>1
      <4> QED BY <4>1, <4>2
    <3>4. d[1].nth = 1 => Begun(j)
      <4> SUFFICES ASSUME d[1].nth = 1, NEW i \in d[1].at..d[j].at
                   PROVE  \E x \in 1..j : d[x].at = i /\ d[x].nth = 1
        OBVIOUS
      <4>1. CASE i = d[j].at
        BY <2>10, <2>11, <4>1
      <4>2. CASE i # d[j].at
        <5>1. i \in d[1].at..d[m].at
          BY <2>4, <2>8, <3>1, <4>2
        <5> QED BY <2>7, <2>9, <5>1
      <4> QED BY <4>1, <4>2
    <3> QED BY <2>3, <3>2, <3>3, <3>4
  <2>12. CASE d[j].nth # 1
    <3>1. d[m] = [at |-> d[j].at, size |-> d[j].size, nth |-> d[j].nth - 1]
      BY <2>3, <2>6, <2>12 DEF Follows
    <3>2. d[m].at = d[j].at
      BY <3>1
    <3> HIDE DEF m
    <3>3. Good(j)
      BY <2>7, <2>9, <3>2
    <3> QED BY <2>3, <3>3
  <2> QED BY <2>11, <2>12
<1> DEFINE n == Len(d)
<1>3. n \in 1..Len(d) /\ Good(n)
  <2>1. n \in 1..Len(d)
    BY <1>1
  <2> QED BY <1>2, <2>1
<1>4. ASSUME d[1].nth = 1, d[n].nth = d[n].size, \A j \in 1..n : d[j].size # 0, NEW i \in d[1].at..d[n].at
      PROVE  HasAll(d, i)
  <2>1. \E x \in 1..n : d[x].at = i /\ d[x].nth = 1
    BY <1>3, <1>4
  <2>2. \E x \in 1..n : d[x].at = i /\ d[x].nth = d[x].size
    <3>1. CASE i = d[n].at
      BY <1>3, <1>4, <3>1
    <3>2. CASE i # d[n].at
      <4>1. d[1].at \in Nat /\ d[n].at \in Nat
        BY <1>1, <1>3, ByteIs
      <4>2. i \in d[1].at..d[n].at - 1
        BY <1>4, <3>2, <4>1
      <4>3. PICK x \in 1..n : d[x].at = i /\ d[x].nth = Size(d[x].size)
        BY <1>3, <4>2
      <4>4. d[x].nth = d[x].size
        BY <1>4, <4>3 DEF Size
      <4> QED BY <4>3, <4>4
    <3> QED BY <3>1, <3>2
  <2> QED BY <1>1, <2>1, <2>2 DEF HasAll
<1> QED BY <1>3, <1>4

\* Bytes as text: a sequence of characters of one pipe, from the first to the last that
\* some byte is of.
LEMMA LossyIs ==
    ASSUME NEW p \in Pipe, NEW d \in Seq(Bytes), Follows(d)
    PROVE  /\ Lossy(p, d) \in Seq(Chars)
           /\ Len(d) = 0 => Lossy(p, d) = <<>>
           /\ Len(d) > 0 => Len(Lossy(p, d)) = d[Len(d)].at - d[1].at + 1
           /\ \A k \in 1..Len(Lossy(p, d)) : Lossy(p, d)[k] = Decoded(p, d, d[1].at + k - 1)
           /\ \A k \in 1..Len(Lossy(p, d)) : Lossy(p, d)[k].pipe = p
<1>1. Len(d) \in Nat /\ DOMAIN d = 1..Len(d)
  BY LenProperties
<1>2. CASE Len(d) = 0
  <2>1. d = <<>>
    BY <1>1, <1>2, EmptySeq
  <2>2. Lossy(p, d) = <<>>
    BY <2>1 DEF Lossy
  <2> QED BY <1>2, <2>2, EmptySeq
<1>3. CASE Len(d) > 0
  <2> DEFINE first == d[1].at
             n == d[Len(d)].at - first + 1
  <2>1. d # <<>> /\ 1 \in 1..Len(d) /\ Len(d) \in 1..Len(d)
    BY <1>1, <1>3, EmptySeq
  <2>2. first \in Nat \ {0} /\ n \in Nat
    <3>1. d[Len(d)].at >= first
      BY <1>3, CharactersOf
    <3>2. first \in Nat \ {0} /\ d[Len(d)].at \in Nat
      BY <2>1, ByteIs
    <3> QED BY <3>1, <3>2
  <2>3. Lossy(p, d) = [k \in 1..n |-> Decoded(p, d, first + k - 1)]
    BY <2>1 DEF Lossy
  <2> HIDE DEF n, first
  <2>4. ASSUME NEW k \in 1..n PROVE Decoded(p, d, first + k - 1) \in Chars /\ Decoded(p, d, first + k - 1).pipe = p
    <3> DEFINE i == first + k - 1
    <3>1. i \in Nat
      BY <2>2
    <3> HIDE DEF i
    <3>2. HasAll(d, i) \in BOOLEAN
      BY DEF HasAll
    <3>3. HasAll(d, i) => d[CHOOSE b \in DOMAIN d : d[b].at = i].size \in Nat
      <4> SUFFICES ASSUME HasAll(d, i) PROVE d[CHOOSE b \in DOMAIN d : d[b].at = i].size \in Nat
        OBVIOUS
      <4>1. (CHOOSE b \in DOMAIN d : d[b].at = i) \in 1..Len(d)
        BY <1>1 DEF HasAll
      <4> DEFINE c == CHOOSE b \in DOMAIN d : d[b].at = i
      <4> HIDE DEF c
      <4>2. d[c].size \in Nat
        BY <4>1, ByteIs DEF c
      <4> QED BY <4>2 DEF c
    <3>4. Decoded(p, d, i) = [pipe |-> p, at |-> i, whole |-> HasAll(d, i), size |-> Decoded(p, d, i).size]
          /\ Decoded(p, d, i).size \in Nat
      BY <3>3 DEF Decoded
    <3> QED BY <3>1, <3>2, <3>4 DEF Chars, i
  <2>5. Lossy(p, d) \in [1..n -> Chars]
    BY <2>3, <2>4
  <2>6. Lossy(p, d) \in Seq(Chars) /\ Len(Lossy(p, d)) = n
    BY <2>2, <2>5, SeqDef
  <2>7. \A k \in 1..n : Lossy(p, d)[k] = Decoded(p, d, first + k - 1)
    BY <2>3
  <2> QED BY <1>3, <2>4, <2>6, <2>7 DEF n, first
<1>4. Len(d) = 0 \/ Len(d) > 0
  BY <1>1
<1> QED BY <1>2, <1>3, <1>4

\* The longest part in front that is whole characters.
LEMMA ValidIs ==
    ASSUME NEW d \in Seq(Bytes)
    PROVE  /\ ValidLen(d) \in 0..Len(d) /\ Complete(d, ValidLen(d))
           /\ \A m \in ValidLen(d) + 1..Len(d) : ~Complete(d, m)
<1>1. Len(d) \in Nat
  BY LenProperties
<1>2. Complete(d, 0)
  BY DEF Complete
<1> DEFINE T == {n \in 0..Len(d) : Complete(d, Len(d) - n)}
<1>3. Len(d) \in T /\ T \subseteq Nat
  BY <1>1, <1>2
<1>4. PICK n \in T : \A m \in T : n <= m
  <2> HIDE DEF T
  <2> QED BY <1>3, LeastNumber
<1>5. Len(d) - n \in 0..Len(d) /\ Complete(d, Len(d) - n)
  BY <1>1, <1>4
<1>6. ASSUME NEW m \in Len(d) - n + 1..Len(d) PROVE ~Complete(d, m)
  <2>1. Len(d) - m \in 0..Len(d) /\ Len(d) - (Len(d) - m) = m /\ ~(n <= Len(d) - m)
    BY <1>1, <1>4
  <2>2. Len(d) - m \notin T
    <3> HIDE DEF T
    <3> QED BY <1>4, <2>1
  <2> QED BY <2>1, <2>2
<1>7. \E v \in 0..Len(d) : Complete(d, v) /\ \A m \in (v + 1)..Len(d) : ~Complete(d, m)
  BY <1>5, <1>6
<1> HIDE DEF T
<1> QED BY <1>7 DEF ValidLen

\* Behind whole characters there is less than one: at most three bytes.
LEMMA RestIsShort ==
    ASSUME NEW d \in Seq(Bytes), Follows(d), \A j \in 1..Len(d) : d[j].size # 0,
           Len(d) > 0 => d[1].nth = 1
    PROVE  /\ \A j \in ValidLen(d) + 1..Len(d) : d[j].nth # d[j].size
           /\ Len(d) - ValidLen(d) <= 3
<1> DEFINE v == ValidLen(d)
<1>1. Len(d) \in Nat /\ v \in 0..Len(d) /\ Complete(d, v) /\ \A m \in v + 1..Len(d) : ~Complete(d, m)
  BY ValidIs, LenProperties
<1> HIDE DEF v
<1>2. ASSUME NEW j \in v + 1..Len(d) PROVE d[j].nth # d[j].size
  <2>1. ~Complete(d, j) /\ j \in 1..Len(d) /\ Len(d) > 0 /\ \A b \in 1..j : b \in 1..Len(d)
    BY <1>1
  <2> QED BY <2>1 DEF Complete
<1>3. ASSUME Len(d) - v > 3 PROVE FALSE
  <2> DEFINE f == v + 1
  <2>1. f \in 1..Len(d) /\ f + 1 \in 1..Len(d) /\ f + 2 \in 1..Len(d) /\ f + 3 \in 1..Len(d)
        /\ f \in v + 1..Len(d) /\ f + 1 \in v + 1..Len(d) /\ f + 2 \in v + 1..Len(d) /\ f + 3 \in v + 1..Len(d)
    BY <1>1, <1>3
  <2>2. \A j \in 1..Len(d) : d[j].size \in 1..4 /\ d[j].nth \in 1..4 /\ Size(d[j].size) = d[j].size
    BY ByteIs DEF Size
  <2>3. d[f].nth = 1
    <3>1. CASE v = 0
      BY <1>1, <2>1, <3>1
    <3>2. CASE v > 0
      <4>1. d[v].nth = d[v].size /\ v \in 1..Len(d) /\ f > 1 /\ f - 1 = v
        BY <1>1, <3>2 DEF Complete
      <4>2. d[f].nth # 1 => d[v].size = d[f].size /\ d[v].nth = d[f].nth - 1
        <5> HIDE DEF f
        <5>1. d[f].nth # 1 => d[v] = [at |-> d[f].at, size |-> d[f].size, nth |-> d[f].nth - 1]
          BY <2>1, <4>1 DEF Follows
        <5> QED BY <5>1
      <4>3. d[f].nth <= d[f].size /\ d[f].nth \in 1..4 /\ d[f].size \in 1..4
        BY <2>1, <2>2 DEF Follows
      <4> HIDE DEF f
      <4> QED BY <4>1, <4>2, <4>3
    <3> QED BY <1>1, <3>1, <3>2
  <2>4. ASSUME NEW i \in v + 1..Len(d), i + 1 \in 1..Len(d)
        PROVE  d[i + 1].nth = d[i].nth + 1
    <3> DEFINE k == i + 1
    <3>1. k \in 1..Len(d) /\ k > 1 /\ k - 1 = i /\ i \in 1..Len(d)
      BY <1>1, <2>4
    <3> HIDE DEF k
    <3>2. d[i].nth # Size(d[i].size)
      BY <1>2, <2>2, <3>1
    <3>3. d[i] = [at |-> d[k].at, size |-> d[k].size, nth |-> d[k].nth - 1]
      BY <3>1, <3>2 DEF Follows
    <3>4. d[i].nth = d[k].nth - 1
      BY <3>3
    <3> QED BY <2>2, <3>1, <3>4 DEF k
  <2> HIDE DEF f
  <2>5. d[f + 1].nth = 2
    BY <2>1, <2>3, <2>4
  <2>6. d[(f + 1) + 1].nth = 3
    <3>1. (f + 1) + 1 = f + 2
      BY <2>1
    <3> QED BY <2>1, <2>4, <2>5, <3>1
  <2>7. d[(f + 2) + 1].nth = 4
    <3>1. (f + 1) + 1 = f + 2 /\ (f + 2) + 1 = f + 3
      BY <2>1
    <3> QED BY <2>1, <2>4, <2>6, <3>1
  <2>8. d[f + 3].nth = 4
    <3>1. (f + 2) + 1 = f + 3
      BY <2>1
    <3> QED BY <2>7, <3>1
  <2>9. d[f + 3].size \in 1..4 /\ 4 <= d[f + 3].size
    BY <2>1, <2>2, <2>8 DEF Follows
  <2>10. d[f + 3].nth # d[f + 3].size
    BY <1>2, <2>1
  <2> QED BY <2>8, <2>9, <2>10
<1> QED BY <1>1, <1>2, <1>3 DEF v

\* What a read passes on of the bytes it has, and what it holds back.
RestOf(d) == SubSeq(d, ValidLen(d) + 1, Len(d))
CharsOf(p, d) ==
    Lossy(p, SubSeq(d, 1, ValidLen(d))) \o IF HeldBack(RestOf(d)) = <<>> THEN Lossy(p, RestOf(d)) ELSE <<>>

\* The two parts of what a read has.
LEMMA TwoParts ==
    ASSUME NEW d \in Seq(Bytes), Follows(d)
    PROVE  /\ SubSeq(d, 1, ValidLen(d)) \in Seq(Bytes) /\ Len(SubSeq(d, 1, ValidLen(d))) = ValidLen(d)
           /\ Follows(SubSeq(d, 1, ValidLen(d)))
           /\ \A i \in 1..ValidLen(d) : SubSeq(d, 1, ValidLen(d))[i] = d[i]
           /\ RestOf(d) \in Seq(Bytes) /\ Len(RestOf(d)) = Len(d) - ValidLen(d) /\ Follows(RestOf(d))
<1> DEFINE v == ValidLen(d)
<1>1. Len(d) \in Nat /\ v \in 0..Len(d)
  BY ValidIs, LenProperties
<1>2. RestOf(d) = SubSeq(d, v + 1, Len(d))
  BY DEF RestOf
<1> HIDE DEF v
<1>3. 1 \in 1..Len(d) + 1 /\ v \in 1 - 1..Len(d) /\ v + 1 \in 1..Len(d) + 1 /\ Len(d) \in (v + 1) - 1..Len(d)
  BY <1>1
<1>4. SubSeq(d, 1, v) \in Seq(Bytes) /\ Len(SubSeq(d, 1, v)) = v - 1 + 1
      /\ (\A i \in 1..v - 1 + 1 : SubSeq(d, 1, v)[i] = d[1 + i - 1]) /\ Follows(SubSeq(d, 1, v))
  BY <1>3, PartOf, SMTT(20)
<1>5. v - 1 + 1 = v /\ \A i \in 1..v : 1 + i - 1 = i
  BY <1>1
<1>6. RestOf(d) \in Seq(Bytes) /\ Len(RestOf(d)) = Len(d) - (v + 1) + 1 /\ Follows(RestOf(d))
  BY <1>2, <1>3, PartOf, SMTT(20)
<1>7. Len(d) - (v + 1) + 1 = Len(d) - v
  BY <1>1
<1>8. \A i \in 1..v : SubSeq(d, 1, v)[i] = d[i]
  BY <1>4, <1>5
<1>9. Len(SubSeq(d, 1, v)) = v /\ Len(RestOf(d)) = Len(d) - v
  BY <1>4, <1>5, <1>6, <1>7
<1> QED BY <1>4, <1>6, <1>8, <1>9 DEF v

LEMMA CharsTyped ==
    ASSUME NEW p \in Pipe, NEW d \in Seq(Bytes), Follows(d)
    PROVE  /\ CharsOf(p, d) \in Seq(Chars)
           /\ \A k \in 1..Len(CharsOf(p, d)) : CharsOf(p, d)[k].pipe = p
           /\ Len(HeldBack(RestOf(d))) \in 0..3 /\ Len(HeldBack(RestOf(d))) <= Len(d)
<1> DEFINE one == Lossy(p, SubSeq(d, 1, ValidLen(d)))
           two == IF HeldBack(RestOf(d)) = <<>> THEN Lossy(p, RestOf(d)) ELSE <<>>
<1>1. one \in Seq(Chars) /\ \A k \in 1..Len(one) : one[k].pipe = p
  <2> DEFINE e == SubSeq(d, 1, ValidLen(d))
  <2>1. e \in Seq(Bytes) /\ Follows(e)
    BY TwoParts
  <2> HIDE DEF e
  <2> QED BY <2>1, LossyIs DEF e
<1>2. two \in Seq(Chars) /\ \A k \in 1..Len(two) : two[k].pipe = p
  <2>1. RestOf(d) \in Seq(Bytes) /\ Follows(RestOf(d))
    BY TwoParts
  <2>2. Lossy(p, RestOf(d)) \in Seq(Chars)
        /\ \A k \in 1..Len(Lossy(p, RestOf(d))) : Lossy(p, RestOf(d))[k].pipe = p
    BY <2>1, LossyIs
  <2>3. <<>> \in Seq(Chars) /\ 1..Len(<<>>) = {}
    OBVIOUS
  <2> QED BY <2>2, <2>3
<1>3. CharsOf(p, d) = one \o two
  BY DEF CharsOf
<1> HIDE DEF one, two
<1>4. CharsOf(p, d) \in Seq(Chars) /\ Len(CharsOf(p, d)) = Len(one) + Len(two)
      /\ \A i \in 1..Len(one) + Len(two) : CharsOf(p, d)[i] = IF i <= Len(one) THEN one[i] ELSE two[i - Len(one)]
  BY <1>1, <1>2, <1>3, ConcatProperties
<1>5. ASSUME NEW k \in 1..Len(CharsOf(p, d)) PROVE CharsOf(p, d)[k].pipe = p
  <2>1. Len(one) \in Nat /\ Len(two) \in Nat /\ k \in 1..Len(one) + Len(two)
    BY <1>1, <1>2, <1>4, LenProperties
  <2>2. CASE k <= Len(one)
    BY <1>1, <1>4, <2>1, <2>2
  <2>3. CASE ~(k <= Len(one))
    <3>1. k - Len(one) \in 1..Len(two)
      BY <2>1, <2>3
    <3> QED BY <1>2, <1>4, <2>1, <2>3, <3>1
  <2> QED BY <2>2, <2>3
<1>6. Len(HeldBack(RestOf(d))) \in 0..3 /\ Len(HeldBack(RestOf(d))) <= Len(d)
  <2>1. Len(d) \in Nat /\ Len(RestOf(d)) = Len(d) - ValidLen(d) /\ ValidLen(d) \in 0..Len(d)
    BY TwoParts, ValidIs, LenProperties
  <2>2. Len(<<>>) = 0
    OBVIOUS
  <2> QED BY <2>1, <2>2 DEF HeldBack
<1> QED BY <1>4, <1>5, <1>6

\* Of well-formed text a read passes on the whole characters in front.
LEMMA CharsWhole ==
    ASSUME NEW p \in Pipe, NEW d \in Seq(Bytes), Follows(d), Len(d) > 0, d[1].nth = 1,
           \A j \in 1..Len(d) : d[j].size # 0
    PROVE  /\ ValidLen(d) \in 0..Len(d) /\ Len(HeldBack(RestOf(d))) = Len(d) - ValidLen(d)
           /\ \A j \in ValidLen(d) + 1..Len(d) : d[j].nth # d[j].size
           /\ ValidLen(d) = 0 => CharsOf(p, d) = <<>>
           /\ ValidLen(d) > 0 =>
                /\ d[ValidLen(d)].nth = d[ValidLen(d)].size
                /\ Len(CharsOf(p, d)) = d[ValidLen(d)].at - d[1].at + 1
                /\ \A k \in 1..Len(CharsOf(p, d)) :
                    CharsOf(p, d)[k].whole /\ CharsOf(p, d)[k].at = d[1].at + k - 1
<1> DEFINE v == ValidLen(d)
           e == SubSeq(d, 1, v)
<1>1. Len(d) \in Nat /\ v \in 0..Len(d) /\ Complete(d, v)
  BY ValidIs, LenProperties
<1>2. e \in Seq(Bytes) /\ Len(e) = v /\ Follows(e) /\ (\A i \in 1..v : e[i] = d[i])
      /\ RestOf(d) \in Seq(Bytes) /\ Len(RestOf(d)) = Len(d) - v /\ Follows(RestOf(d))
  BY TwoParts
<1>3. (\A j \in v + 1..Len(d) : d[j].nth # d[j].size) /\ Len(d) - v <= 3
  BY RestIsShort
<1>4. CharsOf(p, d) = Lossy(p, e) \o IF HeldBack(RestOf(d)) = <<>> THEN Lossy(p, RestOf(d)) ELSE <<>>
  BY DEF CharsOf
<1> HIDE DEF v, e
<1>5. HeldBack(RestOf(d)) = RestOf(d)
  BY <1>1, <1>2, <1>3 DEF HeldBack
<1>6. CharsOf(p, d) = Lossy(p, e)
  <2>1. Lossy(p, <<>>) = <<>>
    BY DEF Lossy
  <2>2. CharsOf(p, d) = Lossy(p, e) \o <<>>
    BY <1>4, <1>5, <2>1
  <2>3. Lossy(p, e) \in Seq(Chars)
    BY <1>2, LossyIs
  <2> QED BY <2>2, <2>3, ConcatEmptySeq
<1>7. v = 0 => CharsOf(p, d) = <<>>
  BY <1>2, <1>6, LossyIs
<1>8. ASSUME v > 0
      PROVE  /\ d[v].nth = d[v].size
             /\ Len(CharsOf(p, d)) = d[v].at - d[1].at + 1
             /\ \A k \in 1..Len(CharsOf(p, d)) :
                    CharsOf(p, d)[k].whole /\ CharsOf(p, d)[k].at = d[1].at + k - 1
  <2>1. d[v].nth = d[v].size
    BY <1>1, <1>8 DEF Complete
  <2>2. 1 \in 1..v /\ v \in 1..v /\ Len(e) > 0 /\ e[1] = d[1] /\ e[Len(e)] = d[v] /\ v \in 1..Len(d)
    BY <1>1, <1>2, <1>8
  <2>3. \A j \in 1..Len(e) : e[j].size # 0
    <3>1. \A j \in 1..v : j \in 1..Len(d)
      BY <1>1
    <3> QED BY <1>2, <3>1
  <2>4. \A i \in d[1].at..d[v].at : HasAll(e, i)
    <3>1. \A i \in e[1].at..e[Len(e)].at : HasAll(e, i)
      BY <1>2, <2>1, <2>2, <2>3, CharactersOf
    <3> QED BY <2>2, <3>1
  <2>5. Len(Lossy(p, e)) = d[v].at - d[1].at + 1
        /\ \A k \in 1..Len(Lossy(p, e)) : Lossy(p, e)[k] = Decoded(p, e, d[1].at + k - 1)
    <3>1. Len(Lossy(p, e)) = e[Len(e)].at - e[1].at + 1
          /\ \A k \in 1..Len(Lossy(p, e)) : Lossy(p, e)[k] = Decoded(p, e, e[1].at + k - 1)
      BY <1>2, <2>2, LossyIs
    <3> QED BY <2>2, <3>1
  <2>6. d[1].at \in Nat /\ d[v].at \in Nat
    <3>1. 1 \in 1..Len(d)
      BY <1>1
    <3> QED BY <2>2, <3>1, ByteIs
  <2>7. ASSUME NEW k \in 1..Len(Lossy(p, e))
        PROVE  Lossy(p, e)[k].whole /\ Lossy(p, e)[k].at = d[1].at + k - 1
    <3> DEFINE i == d[1].at + k - 1
    <3>1. i \in d[1].at..d[v].at
      BY <2>5, <2>6, <2>7
    <3>2. Lossy(p, e)[k] = Decoded(p, e, i)
      BY <2>5, <2>7
    <3> HIDE DEF i
    <3>3. HasAll(e, i)
      BY <2>4, <3>1
    <3>4. Decoded(p, e, i).whole = HasAll(e, i) /\ Decoded(p, e, i).at = i
      BY DEF Decoded
    <3> QED BY <3>2, <3>3, <3>4 DEF i
  <2> QED BY <1>6, <2>1, <2>5, <2>7
<1>9. Len(HeldBack(RestOf(d))) = Len(d) - v
  BY <1>2, <1>5
<1> QED BY <1>1, <1>3, <1>7, <1>8, <1>9 DEF v

\* The characters of a pipe in what was printed: the first c, whole and in order.
InOrder(s, p, c) ==
    LET mine == {i \in 1..Len(s) : s[i].pipe = p} IN
    /\ \A i \in mine : s[i].whole /\ s[i].at \in 1..c
    /\ \A i, j \in mine : i < j => s[i].at < s[j].at
    /\ \A n \in 1..c : \E j \in mine : s[j].at = n

LEMMA MoreInOrder ==
    ASSUME NEW s \in Seq(Chars), NEW t \in Seq(Chars), NEW p, NEW c \in Nat, InOrder(s, p, c),
           \A k \in 1..Len(t) : t[k].pipe = p /\ t[k].whole /\ t[k].at = c + k
    PROVE  InOrder(s \o t, p, c + Len(t))
<1> DEFINE st == s \o t
           old == {i \in 1..Len(s) : s[i].pipe = p}
           new == {i \in 1..Len(st) : st[i].pipe = p}
<1>1. Len(s) \in Nat /\ Len(t) \in Nat /\ Len(st) = Len(s) + Len(t)
      /\ \A i \in 1..Len(s) + Len(t) : st[i] = IF i <= Len(s) THEN s[i] ELSE t[i - Len(s)]
  BY LenProperties, ConcatProperties
<1> HIDE DEF st
<1>2. \A i \in 1..Len(s) : i \in 1..Len(st) /\ st[i] = s[i]
  BY <1>1
<1>3. ASSUME NEW k \in 1..Len(t) PROVE Len(s) + k \in new /\ st[Len(s) + k] = t[k]
  <2>1. Len(s) + k \in 1..Len(s) + Len(t) /\ ~(Len(s) + k <= Len(s)) /\ (Len(s) + k) - Len(s) = k
    BY <1>1
  <2>2. st[Len(s) + k] = t[k]
    BY <1>1, <2>1
  <2> QED BY <1>1, <2>1, <2>2
<1>4. ASSUME NEW i \in new
      PROVE  i \in old \/ \E k \in 1..Len(t) : i = Len(s) + k /\ st[i] = t[k]
  <2>1. CASE i <= Len(s)
    BY <1>1, <1>2, <2>1
  <2>2. CASE ~(i <= Len(s))
    <3>1. i - Len(s) \in 1..Len(t) /\ i = Len(s) + (i - Len(s))
      BY <1>1, <2>2
    <3>2. st[i] = t[i - Len(s)]
      BY <1>1, <2>2
    <3> QED BY <3>1, <3>2
  <2> QED BY <2>1, <2>2
<1>5. \A i \in old : i \in 1..Len(s) /\ st[i] = s[i] /\ s[i].whole /\ s[i].at \in 1..c /\ i \in new
  BY <1>2 DEF InOrder
<1>6. (\A i, j \in old : i < j => s[i].at < s[j].at) /\ \A n \in 1..c : \E j \in old : s[j].at = n
  BY DEF InOrder
<1> HIDE DEF old, new
<1>7. \A i \in new : st[i].whole /\ st[i].at \in 1..c + Len(t)
  <2> TAKE i \in new
  <2>1. CASE i \in old
    BY <1>1, <1>5, <2>1
  <2>2. CASE \E k \in 1..Len(t) : i = Len(s) + k /\ st[i] = t[k]
    BY <1>1, <2>2
  <2> QED BY <1>4, <2>1, <2>2
<1>8. ASSUME NEW i \in new, NEW j \in new, i < j PROVE st[i].at < st[j].at
  <2>1. CASE i \in old /\ j \in old
    BY <1>5, <1>6, <1>8, <2>1
  <2>2. CASE i \in old /\ j \notin old
    <3>1. PICK k \in 1..Len(t) : j = Len(s) + k /\ st[j] = t[k]
      BY <1>4, <2>2
    <3>2. st[i].at \in 1..c /\ st[j].at = c + k
      BY <1>5, <2>2, <3>1
    <3> QED BY <1>1, <3>1, <3>2
  <2>3. CASE i \notin old
    <3>1. PICK k \in 1..Len(t) : i = Len(s) + k /\ st[i] = t[k]
      BY <1>4, <2>3
    <3>2. j \notin old
      <4>1. j \in old => j \in 1..Len(s)
        BY <1>5
      <4> QED BY <1>1, <1>8, <3>1, <4>1
    <3>3. PICK m \in 1..Len(t) : j = Len(s) + m /\ st[j] = t[m]
      BY <1>4, <3>2
    <3>4. st[i].at = c + k /\ st[j].at = c + m
      BY <3>1, <3>3
    <3> QED BY <1>1, <1>8, <3>1, <3>3, <3>4
  <2> QED BY <2>1, <2>2, <2>3
<1>9. ASSUME NEW n \in 1..c + Len(t) PROVE \E j \in new : st[j].at = n
  <2>1. CASE n \in 1..c
    BY <1>5, <1>6, <2>1
  <2>2. CASE n \notin 1..c
    <3>1. n - c \in 1..Len(t) /\ c + (n - c) = n
      BY <1>1, <2>2
    <3>2. st[Len(s) + (n - c)].at = n /\ Len(s) + (n - c) \in new
      BY <1>3, <3>1
    <3> QED BY <3>2
  <2> QED BY <2>1, <2>2
<1> QED BY <1>7, <1>8, <1>9 DEF InOrder, st, new

LEMMA OthersInOrder ==
    ASSUME NEW s \in Seq(Chars), NEW t \in Seq(Chars), NEW p, NEW q, p # q, NEW c, InOrder(s, q, c),
           \A k \in 1..Len(t) : t[k].pipe = p
    PROVE  InOrder(s \o t, q, c)
<1> DEFINE st == s \o t
           old == {i \in 1..Len(s) : s[i].pipe = q}
           new == {i \in 1..Len(st) : st[i].pipe = q}
<1>1. Len(s) \in Nat /\ Len(t) \in Nat /\ Len(st) = Len(s) + Len(t)
      /\ \A i \in 1..Len(s) + Len(t) : st[i] = IF i <= Len(s) THEN s[i] ELSE t[i - Len(s)]
  BY LenProperties, ConcatProperties
<1> HIDE DEF st
<1>2. \A i \in 1..Len(s) : i \in 1..Len(st) /\ st[i] = s[i]
  BY <1>1
<1>3. ASSUME NEW i \in 1..Len(st), ~(i <= Len(s)) PROVE st[i].pipe = p
  <2>1. i - Len(s) \in 1..Len(t) /\ st[i] = t[i - Len(s)]
    BY <1>1, <1>3
  <2> QED BY <2>1
<1>4. new = old
  <2>1. \A i \in 1..Len(st) : i <= Len(s) => i \in 1..Len(s)
    BY <1>1
  <2> QED BY <1>2, <1>3, <2>1
<1>5. \A i \in old : st[i] = s[i]
  BY <1>2
<1>6. /\ \A i \in old : s[i].whole /\ s[i].at \in 1..c
      /\ \A i, j \in old : i < j => s[i].at < s[j].at
      /\ \A n \in 1..c : \E j \in old : s[j].at = n
  BY DEF InOrder
<1> HIDE DEF old
<1>7. /\ \A i \in new : st[i].whole /\ st[i].at \in 1..c
      /\ \A i, j \in new : i < j => st[i].at < st[j].at
      /\ \A n \in 1..c : \E j \in new : st[j].at = n
  <2> HIDE DEF new
  <2> QED BY <1>4, <1>5, <1>6
<1> QED BY <1>7 DEF InOrder, st

\* What is told of a text t when g bytes are read and the last of them behind b wait: the
\* characters up to b, and behind b none is complete.
Told(t, b, g, s, p) ==
    /\ b > 0 => t[b].nth = t[b].size
    /\ \A j \in b + 1..g : t[j].nth # t[j].size
    /\ InOrder(s, p, IF b = 0 THEN 0 ELSE t[b].at)

WellFormed(t) == \A j \in 1..Len(t) : t[j].size # 0

\* The byte behind a complete character is the first of the next.
LEMMA NextBegins ==
    ASSUME NEW t \in Seq(Bytes), Spelled(t), WellFormed(t), NEW b \in Nat, b + 1 \in 1..Len(t),
           b > 0 => t[b].nth = t[b].size
    PROVE  t[b + 1].nth = 1 /\ t[b + 1].at = (IF b = 0 THEN 0 ELSE t[b].at) + 1
<1>1. DOMAIN t = 1..Len(t) /\ Len(t) \in Nat /\ Follows(t)
  BY LenProperties, SpelledFollows
<1>2. CASE b = 0
  <2>1. b + 1 = 1 /\ 1 \in DOMAIN t
    BY <1>1, <1>2
  <2>2. t[1].at = 1 /\ t[1].nth = 1
    BY <2>1 DEF Spelled
  <2> QED BY <1>2, <2>1, <2>2
<1>3. CASE b # 0
  <2> DEFINE j == b + 1
  <2>1. j \in 1..Len(t) /\ j > 1 /\ j - 1 = b /\ b \in 1..Len(t)
    BY <1>1, <1>3
  <2> HIDE DEF j
  <2>2. t[j].nth <= t[j].size /\ t[j].nth \in 1..4 /\ t[j].size \in 1..4
    <3>1. t[j].nth \in 1..4 /\ t[j].size \in 0..4
      BY <2>1, ByteIs
    <3>2. t[j].size # 0
      BY <2>1 DEF WellFormed
    <3>3. t[j].nth <= Size(t[j].size)
      BY <1>1, <2>1 DEF Follows
    <3> QED BY <3>1, <3>2, <3>3 DEF Size
  <2>3. t[j].nth = 1
    <3>1. SUFFICES ASSUME t[j].nth # 1 PROVE FALSE
      OBVIOUS
    <3>2. t[b] = [at |-> t[j].at, size |-> t[j].size, nth |-> t[j].nth - 1]
      BY <1>1, <2>1, <3>1 DEF Follows
    <3>3. t[b].size = t[j].size /\ t[b].nth = t[j].nth - 1
      BY <3>2
    <3>4. t[b].nth = t[b].size
      BY <2>1
    <3> QED BY <2>2, <3>3, <3>4
  <2>4. t[j].at = t[b].at + 1
    BY <1>1, <2>1, <2>3 DEF Follows
  <2> QED BY <1>3, <2>3, <2>4 DEF j
<1> QED BY <1>2, <1>3

\* A read of well-formed text tells the characters that it completes.
LEMMA ToldMore ==
    ASSUME NEW t \in Seq(Bytes), Spelled(t), WellFormed(t), NEW g \in Nat, NEW b \in 0..g,
           NEW n \in Nat \ {0}, g + n <= Len(t), NEW s \in Seq(Chars), NEW p \in Pipe, Told(t, b, g, s, p),
           NEW d, d = SubSeq(t, b + 1, g + n)
    PROVE  Told(t, (g + n) - Len(HeldBack(RestOf(d))), g + n, s \o CharsOf(p, d), p)
<1> DEFINE v == ValidLen(d)
           chars == CharsOf(p, d)
           out == IF b = 0 THEN 0 ELSE t[b].at
           m == g + n
<1>1. Len(t) \in Nat /\ Follows(t)
  BY LenProperties, SpelledFollows
<1>2. m \in b + 1..Len(t) /\ m - b \in Nat \ {0}
  BY <1>1
<1> HIDE DEF m
<1>3. d \in Seq(Bytes) /\ Len(d) = m - b /\ Follows(d) /\ \A i \in 1..m - b : d[i] = t[b + i]
  <2> DEFINE a == b + 1
  <2>1. a \in 1..Len(t) + 1 /\ m \in a - 1..Len(t) /\ m - a + 1 = m - b /\ \A i \in 1..m - b : a + i - 1 = b + i
    BY <1>2
  <2> HIDE DEF a
  <2>2. d = SubSeq(t, a, m)
    BY DEF a, m
  <2>3. a \in 1..Len(t) + 1 /\ m \in a - 1..Len(t)
    BY <2>1
  <2>4. /\ SubSeq(t, a, m) \in Seq(Bytes) /\ Len(SubSeq(t, a, m)) = m - a + 1
        /\ \A i \in 1..m - a + 1 : SubSeq(t, a, m)[i] = t[a + i - 1]
        /\ Follows(SubSeq(t, a, m))
    BY <1>1, <2>3, PartOf
  <2>5. d \in Seq(Bytes) /\ Len(d) = m - a + 1 /\ (\A i \in 1..m - a + 1 : d[i] = t[a + i - 1]) /\ Follows(d)
    BY <2>2, <2>4
  <2> QED BY <2>1, <2>5
<1>4. 1 \in 1..m - b /\ Len(d) > 0 /\ b + 1 \in 1..Len(t) /\ b \in Nat /\ d[1] = t[b + 1]
  BY <1>1, <1>2, <1>3
<1>5. d[1].nth = 1 /\ d[1].at = out + 1
  <2>1. b > 0 => t[b].nth = t[b].size
    BY DEF Told
  <2>2. b \in Nat /\ b + 1 \in 1..Len(t)
    BY <1>4
  <2>3. t[b + 1].nth = 1 /\ t[b + 1].at = (IF b = 0 THEN 0 ELSE t[b].at) + 1
    BY <2>1, <2>2, NextBegins
  <2> QED BY <1>4, <2>3
<1>6. \A j \in 1..Len(d) : d[j].size # 0
  <2> TAKE j \in 1..Len(d)
  <2>1. b + j \in 1..Len(t) /\ d[j] = t[b + j]
    BY <1>1, <1>2, <1>3
  <2> QED BY <2>1 DEF WellFormed
<1>7. /\ v \in 0..Len(d) /\ Len(HeldBack(RestOf(d))) = Len(d) - v
      /\ \A j \in v + 1..Len(d) : d[j].nth # d[j].size
      /\ v = 0 => chars = <<>>
      /\ v > 0 => /\ d[v].nth = d[v].size
                  /\ Len(chars) = d[v].at - d[1].at + 1
                  /\ \A k \in 1..Len(chars) : chars[k].whole /\ chars[k].at = d[1].at + k - 1
  BY <1>3, <1>4, <1>5, <1>6, CharsWhole
<1>8. chars \in Seq(Chars) /\ \A k \in 1..Len(chars) : chars[k].pipe = p
  BY <1>3, CharsTyped
<1> DEFINE c == b + v
           h == Len(HeldBack(RestOf(d)))
<1>9. m - h = c /\ c \in Nat /\ c \in b..m
  <2>1. h = Len(d) - v /\ v \in 0..Len(d)
    BY <1>7
  <2> HIDE DEF h, v
  <2> QED BY <1>2, <1>3, <2>1
<1> HIDE DEF h
<1>10. out \in Nat
  <2>1. b # 0 => b \in 1..Len(t)
    BY <1>1
  <2> QED BY <2>1, ByteIs
<1> HIDE DEF v, chars, out
<1>11. \A j \in c + 1..m : t[j].nth # t[j].size
  <2> TAKE j \in c + 1..m
  <2> DEFINE i == j - b
  <2>1. i \in v + 1..Len(d) /\ i \in 1..m - b /\ b + i = j
    BY <1>2, <1>3, <1>7
  <2> HIDE DEF i
  <2>2. d[i] = t[j]
    BY <1>3, <2>1
  <2>3. d[i].nth # d[i].size
    BY <1>7, <2>1
  <2> QED BY <2>2, <2>3
<1>12. ASSUME v = 0 PROVE Told(t, c, m, s \o chars, p)
  <2>1. c = b /\ chars = <<>>
    BY <1>7, <1>12
  <2>2. s \o chars = s
    BY <2>1, ConcatEmptySeq
  <2> HIDE DEF c
  <2>3. Told(t, c, m, s, p)
    BY <1>11, <2>1 DEF Told
  <2> QED BY <2>2, <2>3
<1>13. ASSUME v # 0 PROVE Told(t, c, m, s \o chars, p)
  <2>1. v > 0 /\ v \in 1..m - b /\ c > 0 /\ c \in 1..Len(t) /\ t[c] = d[v]
    BY <1>1, <1>2, <1>3, <1>7, <1>13
  <2>2. t[c].nth = t[c].size /\ Len(chars) = t[c].at - d[1].at + 1 /\ t[c].at \in Nat
        /\ \A k \in 1..Len(chars) : chars[k].whole /\ chars[k].at = d[1].at + k - 1
    BY <1>7, <2>1, ByteIs
  <2> HIDE DEF c
  <2>3. out + Len(chars) = t[c].at
    <3> DEFINE first == d[1].at
               last == t[c].at
               count == Len(chars)
    <3>1. first = out + 1 /\ count = last - first + 1 /\ last \in Nat /\ count \in Nat
      BY <1>5, <1>8, <2>2, LenProperties
    <3> HIDE DEF first, last, count
    <3>2. out + count = last
      BY <1>10, <3>1
    <3> QED BY <3>2 DEF last, count
  <2>4. InOrder(s, p, out)
    BY DEF Told, out
  <2>5. \A k \in 1..Len(chars) : chars[k].pipe = p /\ chars[k].whole /\ chars[k].at = out + k
    <3> TAKE k \in 1..Len(chars)
    <3>1. chars[k].at = d[1].at + k - 1 /\ chars[k].whole /\ chars[k].pipe = p
      BY <1>8, <2>2
    <3>2. d[1].at + k - 1 = out + k
      BY <1>5, <1>10
    <3> QED BY <3>1, <3>2
  <2>6. InOrder(s \o chars, p, out + Len(chars))
    BY <1>8, <1>10, <2>4, <2>5, MoreInOrder
  <2>7. InOrder(s \o chars, p, t[c].at)
    BY <2>3, <2>6
  <2>8. c # 0
    BY <2>1
  <2> QED BY <1>11, <2>2, <2>7, <2>8 DEF Told
<1> QED BY <1>9, <1>12, <1>13 DEF m, h, chars

-----------------------------------------------------------------------------
(* The invariant.                                                          *)

\* A reader reads on, up to three bytes are held back, and it ends with none.
PipesHold ==
    /\ text \in [Pipe -> Seq(Bytes)] /\ \A p \in Pipe : Spelled(text[p])
    /\ got \in [Pipe -> Nat] /\ end \in [Pipe -> Nat] /\ held \in [Pipe -> 0..3]
    /\ \A p \in Pipe : held[p] <= got[p] /\ got[p] <= end[p] /\ end[p] <= Len(text[p])
    /\ drained \subseteq Pipe
    /\ \A p \in drained : exited /\ held[p] = 0 /\ got[p] = end[p]

BufferHolds ==
    printed \in Seq(Chars) /\ kept \in Seq(Chars) /\ truncated \in BOOLEAN /\ KeepsTheEnd

\* The exit is told after the readers have ended, and what a poll took is the buffer
\* until it lets go of it, and for good if the exit was told then.
StatusHolds ==
    /\ status \in BOOLEAN /\ (status => drained = Pipe)
    /\ poll.step \in {"idle", "buffer", "answered"}
    /\ (poll.step = "buffer" \/ (poll.step = "answered" /\ poll.status)) =>
            poll.output = kept /\ poll.truncated = truncated
    /\ poll.step = "answered" /\ poll.status => status

\* Well-formed text of a pipe that was not cut short has been told so far.
TextHolds ==
    \A p \in Pipe :
        WellFormed(text[p]) /\ (p \notin drained \/ end[p] = Len(text[p])) =>
            Told(text[p], got[p] - held[p], got[p], printed, p)

SnapshotHolds == whole \in Seq(Letter) /\ seen \in 0..Len(whole) /\ NewestSnapshot

OutInv == PipesHold /\ BufferHolds /\ StatusHolds /\ TextHolds /\ SnapshotHolds

LEMMA OutInvImplies == OutInv => OutputHolds
<1> SUFFICES ASSUME OutInv PROVE OutputHolds
  OBVIOUS
<1> USE DEF OutInv
<1>1. ToTypeOK
  <2>1. \A p \in Pipe : got[p] \in 0..Len(text[p]) /\ held[p] \in 0..3
    <3> TAKE p \in Pipe
    <3>1. got[p] \in Nat /\ end[p] \in Nat /\ got[p] <= end[p] /\ end[p] <= Len(text[p]) /\ held[p] \in 0..3
          /\ text[p] \in Seq(Bytes)
      BY DEF PipesHold
    <3>2. Len(text[p]) \in Nat
      BY <3>1, LenProperties
    <3> QED BY <3>1, <3>2
  <2>2. drained \subseteq Pipe
    BY DEF PipesHold
  <2> QED BY <2>1, <2>2 DEF ToTypeOK, BufferHolds, StatusHolds
<1>2. CharactersWhole
  <2> SUFFICES ASSUME NEW p \in Pipe, \A b \in DOMAIN text[p] : text[p][b].size # 0,
                      p \notin drained \/ end[p] = Len(text[p])
               PROVE  LET mine == {i \in DOMAIN printed : printed[i].pipe = p} IN
                      /\ \A i \in mine : printed[i].whole
                      /\ \A i, j \in mine : i < j => printed[i].at < printed[j].at
                      /\ \A i \in mine : \A n \in 1..printed[i].at : \E j \in mine : printed[j].at = n
    BY DEF CharactersWhole
  <2> DEFINE b == got[p] - held[p]
             c == IF b = 0 THEN 0 ELSE text[p][b].at
             mine == {i \in DOMAIN printed : printed[i].pipe = p}
  <2>1. text[p] \in Seq(Bytes) /\ DOMAIN printed = 1..Len(printed) /\ DOMAIN text[p] = 1..Len(text[p])
        /\ Len(text[p]) \in Nat
    BY LenProperties DEF PipesHold, BufferHolds
  <2>2. Told(text[p], b, got[p], printed, p)
    BY <2>1 DEF TextHolds, WellFormed
  <2>3. c \in Nat
    <3>1. got[p] \in Nat /\ held[p] \in 0..3 /\ end[p] \in Nat /\ held[p] <= got[p] /\ got[p] <= end[p]
          /\ end[p] <= Len(text[p])
      BY DEF PipesHold
    <3>2. b # 0 => b \in 1..Len(text[p])
      BY <2>1, <3>1
    <3> HIDE DEF b
    <3> QED BY <2>1, <3>2, ByteIs
  <2>4. InOrder(printed, p, c)
    BY <2>2 DEF Told
  <2> HIDE DEF c
  <2>5. /\ \A i \in mine : printed[i].whole /\ printed[i].at \in 1..c
        /\ \A i, j \in mine : i < j => printed[i].at < printed[j].at
        /\ \A n \in 1..c : \E j \in mine : printed[j].at = n
    BY <2>1, <2>4 DEF InOrder
  <2> HIDE DEF mine
  <2>6. ASSUME NEW i \in mine, NEW n \in 1..printed[i].at PROVE \E j \in mine : printed[j].at = n
    <3>1. n \in 1..c
      BY <2>3, <2>5
    <3> QED BY <2>5, <3>1
  <2> QED BY <2>5, <2>6 DEF mine
<1>3. StatusMeansAll
  BY DEF StatusMeansAll, StatusHolds, PipesHold
<1> QED BY <1>1, <1>2, <1>3 DEF OutputHolds, BufferHolds, SnapshotHolds

LEMMA OutInvInit == ToInit => OutInv
<1> SUFFICES ASSUME ToInit PROVE OutInv
  OBVIOUS
<1>1. Limit \in Nat /\ \A t \in Texts : t \in [Pipe -> Seq(Bytes)] /\ \A p \in Pipe : Spelled(t[p])
  BY OutputAssumption
<1>2. text \in [Pipe -> Seq(Bytes)] /\ \A p \in Pipe : Spelled(text[p])
  <2>1. CASE managed
    BY <1>1, <2>1 DEF ToInit
  <2>2. CASE ~managed
    <3>1. text = [p \in Pipe |-> <<>>]
      BY <2>2 DEF ToInit
    <3>2. <<>> \in Seq(Bytes) /\ Spelled(<<>>)
      BY DEF Spelled
    <3> QED BY <3>1, <3>2
  <2> QED BY <2>1, <2>2
<1>3. whole \in Seq(Letter)
  <2>1. CASE managed
    BY <2>1 DEF ToInit
  <2>2. CASE ~managed
    BY <2>2, OutputAssumption DEF ToInit
  <2> QED BY <2>1, <2>2
<1>4. PipesHold
  <2>1. \A p \in Pipe : got[p] = 0 /\ held[p] = 0 /\ end[p] = Len(text[p]) /\ Len(text[p]) \in Nat
    BY <1>2, LenProperties DEF ToInit
  <2>2. got \in [Pipe -> Nat] /\ held \in [Pipe -> 0..3] /\ end \in [Pipe -> Nat] /\ drained = {}
    BY <2>1 DEF ToInit
  <2> QED BY <1>2, <2>1, <2>2 DEF PipesHold
<1>5. BufferHolds
  <2>1. kept = <<>> /\ printed = <<>> /\ truncated = FALSE /\ <<>> \in Seq(Chars) /\ Len(<<>>) = 0
    BY DEF ToInit
  <2>2. Ending(<<>>, Len(<<>>)) = <<>>
    BY <2>1, EndingAll
  <2>3. Weight(kept) <= Limit
    BY <1>1, <2>1, NoWeight
  <2> QED BY <2>1, <2>2, <2>3 DEF BufferHolds, KeepsTheEnd
<1>6. StatusHolds
  BY DEF ToInit, StatusHolds
<1>7. TextHolds
  <2> SUFFICES ASSUME NEW p \in Pipe PROVE Told(text[p], got[p] - held[p], got[p], printed, p)
    BY DEF TextHolds
  <2>1. got[p] = 0 /\ held[p] = 0 /\ printed = <<>> /\ got[p] - held[p] = 0
    BY DEF ToInit
  <2>2. InOrder(<<>>, p, 0)
    BY DEF InOrder
  <2> QED BY <2>1, <2>2 DEF Told
<1>8. SnapshotHolds
  <2>1. seen = 0 /\ shown = <<>> /\ Len(whole) \in Nat
    BY <1>3, LenProperties DEF ToInit
  <2>2. SubSeq(whole, 1, 0) = <<>>
    BY <1>3, SubSeqEmpty
  <2>3. Ending(<<>>, Limit) = <<>>
    BY <1>1, EndingAll
  <2>4. shown = Ending(SubSeq(whole, 1, seen), Limit)
    BY <2>1, <2>2, <2>3
  <2>5. seen \in 0..Len(whole)
    BY <2>1
  <2> QED BY <1>3, <2>4, <2>5 DEF SnapshotHolds, NewestSnapshot
<1> QED BY <1>4, <1>5, <1>6, <1>7, <1>8 DEF OutInv

\* The parts that a step leaves alone.
LEMMA SnapshotStays == SnapshotHolds /\ UNCHANGED <<whole, seen, shown>> => SnapshotHolds'
BY DEF SnapshotHolds, NewestSnapshot

LEMMA BufferStays == BufferHolds /\ UNCHANGED <<printed, kept, truncated>> => BufferHolds'
BY DEF BufferHolds, KeepsTheEnd

LEMMA TextStays == TextHolds /\ UNCHANGED <<text, got, held, end, drained, printed>> => TextHolds'
BY DEF TextHolds

\* A reader's append: nothing that was answered with the exit changes.
LEMMA StatusOverAppend ==
    ASSUME NEW p \in Pipe, p \notin drained, StatusHolds, CanAppend, UNCHANGED <<status, poll>>
    PROVE  StatusHolds' /\ ~status
<1>1. ~status
  BY DEF StatusHolds
<1> QED BY <1>1 DEF StatusHolds, CanAppend

LEMMA PipeIs ==
    ASSUME PipesHold, NEW p \in Pipe
    PROVE  /\ text[p] \in Seq(Bytes) /\ Spelled(text[p]) /\ Follows(text[p])
           /\ Len(text[p]) \in Nat /\ got[p] \in Nat /\ end[p] \in Nat /\ held[p] \in 0..3
           /\ held[p] <= got[p] /\ got[p] <= end[p] /\ end[p] <= Len(text[p])
           /\ got[p] - held[p] \in 0..got[p] /\ got[p] - held[p] \in Nat
<1>1. text[p] \in Seq(Bytes) /\ Spelled(text[p]) /\ got[p] \in Nat /\ end[p] \in Nat /\ held[p] \in 0..3
      /\ held[p] <= got[p] /\ got[p] <= end[p] /\ end[p] <= Len(text[p])
  BY DEF PipesHold
<1>2. Follows(text[p]) /\ Len(text[p]) \in Nat
  BY <1>1, SpelledFollows, LenProperties
<1>3. got[p] - held[p] \in 0..got[p] /\ got[p] - held[p] \in Nat
  BY <1>1
<1> QED BY <1>1, <1>2, <1>3

LEMMA OutInvRead == ASSUME OutInv, NEW p \in Pipe, ReadPipe(p) PROVE OutInv'
<1> USE DEF OutInv
<1>1. p \notin drained
      /\ UNCHANGED <<managed, text, end, exited, drained, status, poll, whole, seen, shown>>
  BY DEF ReadPipe
<1>2. PICK n \in 1..ReadSize :
        /\ got[p] + n <= end[p]
        /\ AppendOutput(CharsOf(p, SubSeq(text[p], got[p] - held[p] + 1, got[p] + n)))
        /\ held' = [held EXCEPT ![p] = Len(HeldBack(RestOf(SubSeq(text[p], got[p] - held[p] + 1, got[p] + n))))]
        /\ got' = [got EXCEPT ![p] = got[p] + n]
  BY DEF ReadPipe, CharsOf, RestOf
<1> DEFINE b == got[p] - held[p]
           m == got[p] + n
           d == SubSeq(text[p], b + 1, m)
           keep == Len(HeldBack(RestOf(d)))
           chars == CharsOf(p, d)
<1>3. AppendOutput(chars) /\ held' = [held EXCEPT ![p] = keep] /\ got' = [got EXCEPT ![p] = m]
  BY <1>2
<1>4. /\ text[p] \in Seq(Bytes) /\ Spelled(text[p]) /\ Follows(text[p])
      /\ Len(text[p]) \in Nat /\ got[p] \in Nat /\ end[p] \in Nat /\ held[p] \in 0..3
      /\ held[p] <= got[p] /\ got[p] <= end[p] /\ end[p] <= Len(text[p])
      /\ b \in 0..got[p] /\ b \in Nat
  BY PipeIs
<1>5. ReadSize \in Nat /\ Limit \in Nat
  BY OutputAssumption
<1>6. n \in Nat \ {0} /\ m \in Nat /\ m <= end[p] /\ m <= Len(text[p]) /\ got[p] <= m
  BY <1>2, <1>4, <1>5
<1>7. b + 1 \in 1..Len(text[p]) + 1 /\ m \in (b + 1) - 1..Len(text[p]) /\ m - (b + 1) + 1 <= m
      /\ m - (b + 1) + 1 \in Nat
  <2>1. b \in Nat /\ b <= m /\ m \in Nat /\ m <= Len(text[p]) /\ Len(text[p]) \in Nat
    BY <1>4, <1>6
  <2> HIDE DEF b, m
  <2> QED BY <2>1
<1>8. d \in Seq(Bytes) /\ Follows(d) /\ Len(d) <= m
  <2> DEFINE a == b + 1
  <2>1. a \in 1..Len(text[p]) + 1 /\ m \in a - 1..Len(text[p]) /\ m - a + 1 <= m
    BY <1>7
  <2> HIDE DEF a, m
  <2>2. SubSeq(text[p], a, m) \in Seq(Bytes) /\ Len(SubSeq(text[p], a, m)) = m - a + 1
        /\ Follows(SubSeq(text[p], a, m))
    BY <1>4, <2>1, PartOf
  <2> QED BY <2>1, <2>2 DEF a
<1>9. m = got[p] + n /\ d = SubSeq(text[p], b + 1, got[p] + n) /\ keep = Len(HeldBack(RestOf(d)))
      /\ chars = CharsOf(p, d)
  OBVIOUS
<1> HIDE DEF b, m, d, keep, chars
<1>10. chars \in Seq(Chars) /\ (\A k \in 1..Len(chars) : chars[k].pipe = p)
       /\ keep \in 0..3 /\ keep <= m
  <2>1. chars \in Seq(Chars) /\ (\A k \in 1..Len(chars) : chars[k].pipe = p)
    BY <1>8, <1>9, CharsTyped
  <2>2. keep \in 0..3 /\ keep <= Len(d)
    BY <1>8, <1>9, CharsTyped
  <2>3. Len(d) \in Nat
    BY <1>8, LenProperties
  <2> QED BY <1>6, <1>8, <2>1, <2>2, <2>3
<1>11. \A q \in Pipe : got'[q] = (IF q = p THEN m ELSE got[q]) /\ held'[q] = (IF q = p THEN keep ELSE held[q])
  BY <1>3 DEF PipesHold
<1>12. PipesHold'
  <2>1. got' \in [Pipe -> Nat] /\ held' \in [Pipe -> 0..3]
    BY <1>3, <1>6, <1>10 DEF PipesHold
  <2>2. \A q \in Pipe : held'[q] <= got'[q] /\ got'[q] <= end'[q] /\ end'[q] <= Len(text'[q])
    BY <1>1, <1>6, <1>10, <1>11 DEF PipesHold
  <2>3. \A q \in drained' : exited' /\ held'[q] = 0 /\ got'[q] = end'[q]
    BY <1>1, <1>11 DEF PipesHold
  <2> QED BY <1>1, <2>1, <2>2, <2>3 DEF PipesHold
<1>13. printed' = printed \o chars /\ printed \in Seq(Chars)
  BY <1>3 DEF AppendOutput, BufferHolds
<1>14. BufferHolds'
  BY <1>3, <1>5, <1>10, AppendKeeps DEF BufferHolds
<1>15. StatusHolds'
  <2>1. CanAppend
    BY <1>3 DEF AppendOutput
  <2> QED BY <1>1, <2>1, StatusOverAppend
<1>16. TextHolds'
  <2> SUFFICES ASSUME NEW q \in Pipe, WellFormed(text[q]), q \notin drained \/ end[q] = Len(text[q])
               PROVE  Told(text[q], got'[q] - held'[q], got'[q], printed \o chars, q)
    BY <1>1, <1>13 DEF TextHolds
  <2>1. Told(text[q], got[q] - held[q], got[q], printed, q)
    BY DEF TextHolds
  <2>2. CASE q = p
    <3>1. Told(text[p], b, got[p], printed, p)
      BY <2>1, <2>2 DEF b
    <3>2. Told(text[p], (got[p] + n) - Len(HeldBack(RestOf(d))), got[p] + n, printed \o CharsOf(p, d), p)
      <4>1. got[p] + n <= Len(text[p])
        BY <1>6, <1>9
      <4> QED BY <1>4, <1>6, <1>9, <1>13, <2>2, <3>1, <4>1, ToldMore
    <3>3. Told(text[p], m - keep, m, printed \o chars, p)
      BY <3>2 DEF m, keep, chars
    <3>4. got'[q] = m /\ held'[q] = keep
      BY <1>11, <2>2
    <3> QED BY <2>2, <3>3, <3>4
  <2>3. CASE q # p
    <3>1. got'[q] = got[q] /\ held'[q] = held[q]
      BY <1>11, <2>3
    <3> DEFINE c == IF got[q] - held[q] = 0 THEN 0 ELSE text[q][got[q] - held[q]].at
    <3>2. InOrder(printed, q, c)
      BY <2>1 DEF Told
    <3> HIDE DEF c
    <3>3. InOrder(printed \o chars, q, c)
      BY <1>10, <1>13, <2>3, <3>2, OthersInOrder
    <3> QED BY <2>1, <3>1, <3>3 DEF Told, c
  <2> QED BY <2>2, <2>3
<1>17. SnapshotHolds'
  BY <1>1, SnapshotStays
<1> QED BY <1>12, <1>14, <1>15, <1>16, <1>17

LEMMA OutInvEnds == ASSUME OutInv, NEW p \in Pipe, PipeEnds(p) PROVE OutInv'
<1> USE DEF OutInv
<1> DEFINE b == got[p] - held[p]
           d == SubSeq(text[p], b + 1, got[p])
           chars == Lossy(p, d)
<1>1. /\ exited /\ p \notin drained /\ got[p] = end[p] /\ AppendOutput(chars)
      /\ held' = [held EXCEPT ![p] = 0] /\ drained' = drained \cup {p}
      /\ UNCHANGED <<managed, text, got, end, exited, status, poll, whole, seen, shown>>
  BY DEF PipeEnds
<1>2. /\ text[p] \in Seq(Bytes) /\ Spelled(text[p]) /\ Follows(text[p])
      /\ Len(text[p]) \in Nat /\ got[p] \in Nat /\ end[p] \in Nat /\ held[p] \in 0..3
      /\ held[p] <= got[p] /\ got[p] <= end[p] /\ end[p] <= Len(text[p])
      /\ b \in 0..got[p] /\ b \in Nat
  BY PipeIs
<1>3. Limit \in Nat
  BY OutputAssumption
<1>4. d \in Seq(Bytes) /\ Follows(d) /\ Len(d) = held[p]
  <2> DEFINE a == b + 1
             m == got[p]
  <2>1. a \in 1..Len(text[p]) + 1 /\ m \in a - 1..Len(text[p]) /\ m - a + 1 = held[p]
    <3>1. b = m - held[p] /\ a = b + 1 /\ m \in Nat /\ held[p] \in Nat /\ Len(text[p]) \in Nat
          /\ held[p] <= m /\ m <= Len(text[p])
      BY <1>1, <1>2
    <3> HIDE DEF a, b, m
    <3> QED BY <3>1, SMTT(20)
  <2> HIDE DEF a, m
  <2>2. SubSeq(text[p], a, m) \in Seq(Bytes) /\ Len(SubSeq(text[p], a, m)) = m - a + 1
        /\ Follows(SubSeq(text[p], a, m))
    BY <1>2, <2>1, PartOf
  <2> QED BY <2>1, <2>2 DEF a, m
<1>5. b = got[p] - held[p] /\ chars = Lossy(p, d)
  OBVIOUS
<1> HIDE DEF b, d, chars
<1>6. chars \in Seq(Chars) /\ (\A k \in 1..Len(chars) : chars[k].pipe = p) /\ (held[p] = 0 => chars = <<>>)
  BY <1>4, <1>5, LossyIs
<1>7. \A q \in Pipe : held'[q] = IF q = p THEN 0 ELSE held[q]
  BY <1>1 DEF PipesHold
<1>8. PipesHold'
  <2>1. held' \in [Pipe -> 0..3]
    BY <1>1 DEF PipesHold
  <2>2. \A q \in Pipe : held'[q] <= got'[q] /\ got'[q] <= end'[q] /\ end'[q] <= Len(text'[q])
    BY <1>1, <1>2, <1>7 DEF PipesHold
  <2>3. \A q \in drained' : exited' /\ held'[q] = 0 /\ got'[q] = end'[q]
    BY <1>1, <1>7 DEF PipesHold
  <2> QED BY <1>1, <2>1, <2>2, <2>3 DEF PipesHold
<1>9. printed' = printed \o chars /\ printed \in Seq(Chars)
  BY <1>1 DEF AppendOutput, BufferHolds
<1>10. BufferHolds'
  BY <1>1, <1>3, <1>6, AppendKeeps DEF BufferHolds
<1>11. StatusHolds'
  <2>1. CanAppend
    BY <1>1 DEF AppendOutput
  <2> QED BY <1>1, <2>1, StatusOverAppend
<1>12. TextHolds'
  <2> SUFFICES ASSUME NEW q \in Pipe, WellFormed(text[q]), q \notin drained' \/ end[q] = Len(text[q])
               PROVE  Told(text[q], got[q] - held'[q], got[q], printed \o chars, q)
    BY <1>1, <1>9 DEF TextHolds
  <2>1. Told(text[q], got[q] - held[q], got[q], printed, q)
    BY <1>1 DEF TextHolds
  <2>2. CASE q = p
    <3>1. end[p] = Len(text[p]) /\ got[p] = Len(text[p])
      BY <1>1, <2>2
    \* The last byte of well-formed text is the last of a character.
    <3>2. held[p] = 0
      <4> SUFFICES ASSUME held[p] # 0 PROVE FALSE
        OBVIOUS
      <4>1. got[p] \in b + 1..got[p] /\ got[p] \in 1..Len(text[p])
        BY <1>2, <1>5, <3>1
      <4>2. text[p][got[p]].nth # text[p][got[p]].size
        BY <1>5, <2>1, <2>2, <4>1 DEF Told
      <4>3. got[p] \in DOMAIN text[p]
        BY <1>2, <4>1, LenProperties
      <4>4. text[p][got[p]].nth = Size(text[p][got[p]].size)
        BY <3>1, <4>3 DEF Spelled, PipesHold
      <4>5. text[p][got[p]].size # 0
        BY <2>2, <4>1 DEF WellFormed
      <4> QED BY <4>2, <4>4, <4>5 DEF Size
    <3>3. printed \o chars = printed
      BY <1>6, <1>9, <3>2, ConcatEmptySeq
    <3>4. held'[q] = held[q]
      BY <1>7, <2>2, <3>2
    <3> QED BY <2>1, <3>3, <3>4
  <2>3. CASE q # p
    <3>1. held'[q] = held[q]
      BY <1>7, <2>3
    <3> DEFINE c == IF got[q] - held[q] = 0 THEN 0 ELSE text[q][got[q] - held[q]].at
    <3>2. InOrder(printed, q, c)
      BY <2>1 DEF Told
    <3> HIDE DEF c
    <3>3. InOrder(printed \o chars, q, c)
      BY <1>6, <1>9, <2>3, <3>2, OthersInOrder
    <3> QED BY <2>1, <3>1, <3>3 DEF Told, c
  <2> QED BY <2>2, <2>3
<1>13. SnapshotHolds'
  BY <1>1, SnapshotStays
<1> QED BY <1>8, <1>10, <1>11, <1>12, <1>13

LEMMA OutInvNext == OutInv /\ [ToNext]_toVars => OutInv'
<1> SUFFICES ASSUME OutInv, [ToNext]_toVars PROVE OutInv'
  OBVIOUS
<1> USE DEF OutInv
<1>1. ASSUME NEW p \in Pipe, ReadPipe(p) PROVE OutInv'
  BY <1>1, OutInvRead
<1>2. ASSUME NEW p \in Pipe, PipeEnds(p) PROVE OutInv'
  BY <1>2, OutInvEnds
<1>3. CASE TreeExits
  <2> USE DEF TreeExits
  <2>1. BufferHolds' /\ SnapshotHolds'
    BY <1>3, BufferStays, SnapshotStays
  <2>2. \A p \in Pipe : got[p] \in Nat /\ end[p] \in Nat /\ end'[p] \in got[p]..end[p]
    BY <1>3 DEF PipesHold
  <2>3. drained = {}
    BY <1>3 DEF PipesHold
  <2>4. PipesHold'
    <3>1. end' \in [Pipe -> Nat]
      <4>1. end' \in [Pipe -> UNION {got[p]..end[p] : p \in Pipe}]
        BY <1>3
      <4> QED BY <2>2, <4>1
    <3>2. \A p \in Pipe : held'[p] <= got'[p] /\ got'[p] <= end'[p] /\ end'[p] <= Len(text'[p])
      <4> TAKE p \in Pipe
      <4>1. got[p] <= end'[p] /\ end'[p] <= end[p] /\ end'[p] \in Nat
        BY <2>2
      <4>2. held[p] <= got[p] /\ end[p] <= Len(text[p]) /\ Len(text[p]) \in Nat /\ end[p] \in Nat
        BY PipeIs
      <4> QED BY <1>3, <4>1, <4>2
    <3> QED BY <1>3, <2>3, <3>1, <3>2 DEF PipesHold
  <2>5. StatusHolds'
    BY <1>3 DEF StatusHolds
  <2>6. TextHolds'
    BY <1>3, <2>3 DEF TextHolds
  <2> QED BY <2>1, <2>4, <2>5, <2>6
<1>4. CASE RecordStatus
  <2> USE DEF RecordStatus
  <2>1. BufferHolds' /\ SnapshotHolds' /\ TextHolds'
    BY <1>4, BufferStays, SnapshotStays, TextStays
  <2>2. PipesHold'
    BY <1>4 DEF PipesHold
  <2>3. StatusHolds'
    BY <1>4 DEF StatusHolds
  <2> QED BY <2>1, <2>2, <2>3
<1>5. CASE TakeBuffer
  <2> USE DEF TakeBuffer
  <2>1. BufferHolds' /\ SnapshotHolds' /\ TextHolds'
    BY <1>5, BufferStays, SnapshotStays, TextStays
  <2>2. PipesHold'
    BY <1>5 DEF PipesHold
  <2>3. poll'.step = "buffer" /\ poll'.output = kept /\ poll'.truncated = truncated
        /\ UNCHANGED <<kept, truncated, status, drained>>
    BY <1>5
  <2>4. StatusHolds'
    BY <2>3 DEF StatusHolds
  <2> QED BY <2>1, <2>2, <2>4
<1>6. CASE AnswerOutput
  <2> USE DEF AnswerOutput
  <2>1. BufferHolds' /\ SnapshotHolds' /\ TextHolds'
    BY <1>6, BufferStays, SnapshotStays, TextStays
  <2>2. PipesHold'
    BY <1>6 DEF PipesHold
  <2>3. poll'.step = "answered" /\ poll'.output = poll.output /\ poll'.truncated = poll.truncated
        /\ poll'.status = status /\ UNCHANGED <<kept, truncated, status, drained>> /\ poll.step = "buffer"
    BY <1>6
  <2>4. StatusHolds'
    BY <2>3 DEF StatusHolds
  <2> QED BY <2>1, <2>2, <2>4
<1>7. CASE ReportSnapshot
  <2>1. PICK n \in 1..Len(whole) :
        /\ n >= seen \/ seen <= Limit
        /\ shown' = Ending(Merge(shown, SubSeq(whole, 1, n)), Limit)
        /\ seen' = IF n > seen THEN n ELSE seen
        /\ UNCHANGED <<managed, text, got, held, end, exited, drained, kept, truncated, printed, status, poll, whole>>
    BY <1>7 DEF ReportSnapshot
  <2>2. BufferHolds' /\ TextHolds'
    BY <2>1, BufferStays, TextStays
  <2>3. PipesHold'
    BY <2>1 DEF PipesHold
  <2>4. StatusHolds'
    BY <2>1 DEF StatusHolds
  <2>5. whole \in Seq(Letter) /\ seen \in 0..Len(whole) /\ shown = Ending(SubSeq(whole, 1, seen), Limit)
    BY DEF SnapshotHolds, NewestSnapshot
  <2>6. shown' = Ending(SubSeq(whole, 1, IF n > seen THEN n ELSE seen), Limit)
    <3>1. Limit \in Nat
      BY OutputAssumption
    <3> QED BY <2>1, <2>5, <3>1, SnapshotMerged
  <2>7. seen' \in 0..Len(whole) /\ shown' = Ending(SubSeq(whole, 1, seen'), Limit)
    <3>1. Len(whole) \in Nat
      BY <2>5, LenProperties
    <3> QED BY <2>1, <2>5, <2>6, <3>1
  <2>8. SnapshotHolds'
    BY <2>1, <2>5, <2>7 DEF SnapshotHolds, NewestSnapshot
  <2> QED BY <2>2, <2>3, <2>4, <2>8
<1>8. CASE UNCHANGED toVars
  <2> USE DEF toVars
  <2>1. BufferHolds' /\ SnapshotHolds' /\ TextHolds'
    BY <1>8, BufferStays, SnapshotStays, TextStays
  <2>2. PipesHold'
    BY <1>8 DEF PipesHold
  <2>3. StatusHolds'
    BY <1>8 DEF StatusHolds
  <2> QED BY <2>1, <2>2, <2>3
<1> QED BY <1>1, <1>2, <1>3, <1>4, <1>5, <1>6, <1>7, <1>8 DEF ToNext

\* The terminal output alone.
ToSpec == ToInit /\ [][ToNext]_toVars

\* However reads, cuts of characters, exits, polls and snapshots interleave, the output that
\* is kept is the end of what was printed, well-formed text comes out whole and in order, an
\* agent told of the exit is told all of it, and snapshots show the newest
\* (acp/callbacks.rs:985-1033, tasks/mod.rs:162-174 and 268-303).
THEOREM OutputHoldsAlways == ToSpec => []OutputHolds
<1>1. ToSpec => []OutInv
  BY OutInvInit, OutInvNext, PTL DEF ToSpec
<1> QED BY <1>1, OutInvImplies, PTL
============================================================================
