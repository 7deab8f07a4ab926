----------------------------- MODULE MCAgentLink -----------------------------
(***************************************************************************)
(* An agent's process for TLC: the environment it is started with, what it *)
(* offers, the connection to it, the terminal tasks of its chat and the    *)
(* output of one of them, and the answers to its forms and reads. None     *)
(* waits for another, so a behaviour moves one: `moves`, chosen at the     *)
(* start.                                                                  *)
(***************************************************************************)
EXTENDS AcpConnection, TerminalTasks, TerminalOutput, LaunchEnv, FormContent,
    AgentOffers

CONSTANTS l, p, k, t, o, w

VARIABLE moves

\* What the command prints on its two pipes, by the sizes of its characters, and what
\* the other one reports.
Spell(sizes) ==
    FlattenSeq([i \in DOMAIN sizes |->
        [n \in 1..Size(sizes[i]) |-> [at |-> i, size |-> sizes[i], nth |-> n]]])
Prints(a, b) == [pipe \in {"out", "err"} |-> Spell(IF pipe = "out" THEN a ELSE b)]
MCTexts == {Prints(<<1, 3, 2>>, <<2, 1>>), Prints(<<2, 0, 1, 3>>, <<1>>), Prints(<<3>>, <<0, 2>>)}
MCSnapshots == UNION {[1..n -> {"a", "b"}] : n \in 1..5}
NoText == <<"a">>

\* One field of any type and bounds, alone or beside a required one.
Properties(is, defaults, mins, maxs, choices) ==
    [is : {is}, required : BOOLEAN, default : {{}} \cup {{[is |-> is, n |-> d]} : d \in defaults},
     min : mins, max : maxs, choices : choices]
MCProperties ==
    Properties("string", {1}, {0, 1}, {1, 2}, {{1}, 0..2})
        \cup Properties("number", {1}, {-1, -9}, {1, 9}, {{}})
        \cup Properties("integer", {}, {-1, -9}, {1, 9}, {{}})
        \cup Properties("boolean", {0}, {0}, {0}, {{}})
        \cup Properties("list", {}, {0, 1}, {1, 2}, {{1}, 1..2})
Yes == [is |-> "boolean", required |-> TRUE, default |-> {}, min |-> 0, max |-> 0, choices |-> {}]
MCForms ==
    {[f \in d |-> IF f = "f" THEN q ELSE Yes] : d \in {{"f"}, {"f", "yes"}}, q \in MCProperties}
MCValues ==
    [is : {"string"}, n : 0..2] \cup [is : {"integer"}, n : {-4, -1, 0, 3}]
        \cup [is : {"number"}, n : {-10, -8, -1, 1, 2, 6, 7, 8, 10}]
        \cup [is : {"boolean"}, n : {0}] \cup [is : {"list"}, items : {<<>>, <<1>>, <<1, 2>>, <<3>>}]
MCContents ==
    {[f \in d |-> IF f = "f" THEN v ELSE [is |-> "boolean", n |-> 0]] :
        d \in SUBSET {"f", "yes"}, v \in MCValues}
MCFiles == UNION {[1..n -> {"a", "nl", "cr"}] : n \in 0..4}
NoFile == [is |-> "file", text |-> <<>>, line |-> {}, limit |-> {}]

\* Agents that lack one feature, or all, or speak another version; agents with one
\* method of any kind, and one that names a method twice. One update.
Features == {"image", "audio", "embedded", "load", "resume", "close", "list", "delete",
             "logout", "dirs", "http", "sse"}
Method(id, type, bridge) == [id |-> id, type |-> type, bridge |-> bridge]
Offer(features, methods) == [version |-> 1, features |-> features, methods |-> methods]
TwoWays == <<Method("a", "missing", "missing"), Method("b", "terminal", "missing")>>
First == Offer(Features, TwoWays)
MCOffers ==
    {Offer(Features \ {f}, TwoWays) : f \in Features}
        \cup {First, Offer({}, TwoWays), [First EXCEPT !.version = 2]}
        \cup {Offer(Features, <<Method("a", type, bridge)>>) :
                type \in {"missing", "agent", "terminal", "other"}, bridge \in Bridge}
        \cup {Offer(Features, <<Method("", "terminal", "missing"), Method("b", "agent", "missing"),
                                Method("b", "terminal", "usable")>>)}
MCUpdates == {First} \X {Offer({}, TwoWays), Offer(Features, <<Method("b", "missing", "missing")>>)}
MCBlocks ==
    Block("text", {1, 8}, {}) \cup Block("image", {4, 5}, {"encoding", "mime", "magic"})
        \cup Block("audio", {4}, {"mime"}) \cup Block("resource", {1, 2}, {})
        \cup Block("blob", {1}, {"encoding"}) \cup Block("link", {1}, {"scheme"})
        \cup Block("unknown", {1}, {})
MCPrompts ==
    {<<>>} \cup {<<b>> : b \in MCBlocks}
        \cup {<<b, c>> : b \in {x \in MCBlocks : x.flaw = "none"},
                         c \in Block("text", {1}, {}) \cup Block("image", {4}, {})}
NoNeeds == [roots |-> FALSE, transports |-> {"stdio"}]
MCNeeds == {NoNeeds, [roots |-> TRUE, transports |-> {"http"}], [roots |-> FALSE, transports |-> {"stdio", "sse"}]}

\* What does not move has one initial state.
Init ==
    /\ moves \in {"link", "tasks", "output", "launch", "answer", "offers"}
    /\ LinkInit /\ TasksInit
    /\ ToInit /\ (moves # "output" => ~managed /\ whole = NoText)
    /\ LeInit /\ (moves # "launch" =>
        DOMAIN host = {} /\ DOMAIN diff = {} /\ DOMAIN launch.env = {} /\ launch.pass = {})
    /\ IF moves = "answer" THEN FcInit ELSE question = NoFile /\ answer = [out |-> "none"]
    /\ AoInit /\ (moves # "offers" => ~pty /\ program = First /\ needs = NoNeeds)

others == <<toVars, leVars, fcVars, aoVars>>

Next ==
    \/ moves = "link" /\ LinkNext /\ UNCHANGED <<tasksVars, others, moves>>
    \/ moves = "tasks" /\ TasksNext /\ UNCHANGED <<linkVars, others, moves>>
    \/ moves = "output" /\ ToNext /\ UNCHANGED <<linkVars, tasksVars, leVars, fcVars, aoVars, moves>>
    \/ moves = "launch" /\ LeNext /\ UNCHANGED <<linkVars, tasksVars, toVars, fcVars, aoVars, moves>>
    \/ moves = "answer" /\ FcNext /\ UNCHANGED <<linkVars, tasksVars, toVars, leVars, aoVars, moves>>
    \/ moves = "offers" /\ AoNext /\ UNCHANGED <<linkVars, tasksVars, toVars, leVars, fcVars, moves>>

Spec ==
    Init /\ [][Next]_<<linkVars, tasksVars, others, moves>> /\ LinkFairness /\ TasksFairness
=============================================================================
