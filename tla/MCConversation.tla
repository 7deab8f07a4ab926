---------------------------- MODULE MCConversation ----------------------------
(***************************************************************************)
(* What an agent is connected with, one of its MCP servers, what it asks   *)
(* its user, the options of its session, the updates it sends and what a   *)
(* page shows of it, for TLC. None of them waits for another, so a         *)
(* behaviour moves one of them: `moves`, chosen at the start.              *)
(***************************************************************************)
EXTENDS Callbacks, ConnectionSetup, McpServers, SessionOptions, SessionUpdates, Transcript, TLC

CONSTANTS p, e, b1, b2, c1, o1, o2, u, v

VARIABLE moves

Symmetry == Permutations(Browser) \cup Permutations(Editor)

\* Agents with two fixed options and modes, and with one option only, which may
\* have another value.
Advertised(first, second) == [o \in Option |-> IF o = o1 THEN first ELSE second]
MCAdverts == {<<Advertised({u}, {u}), u>>, <<Advertised({u, v}, {}), Unset>>}

vars == <<cbVars, csVars, mcVars, soVars, suVars, trVars, moves>>

CallbackStep == moves = "callbacks" /\ CbNext /\ UNCHANGED <<csVars, mcVars, soVars, suVars, trVars, moves>>
SetupStep == moves = "setup" /\ CsNext /\ UNCHANGED <<cbVars, mcVars, soVars, suVars, trVars, moves>>
ServerStep == moves = "server" /\ McNext /\ UNCHANGED <<cbVars, csVars, soVars, suVars, trVars, moves>>
OptionStep == moves = "options" /\ SoNext /\ UNCHANGED <<cbVars, csVars, mcVars, suVars, trVars, moves>>
UpdateStep == moves = "updates" /\ SuNext /\ UNCHANGED <<cbVars, csVars, mcVars, soVars, trVars, moves>>
PageStep == moves = "page" /\ TrNext /\ UNCHANGED <<cbVars, csVars, mcVars, soVars, suVars, moves>>

Next == CallbackStep \/ SetupStep \/ ServerStep \/ OptionStep \/ UpdateStep \/ PageStep

Init ==
    /\ moves \in {"callbacks", "setup", "server", "options", "updates", "page"}
    /\ CbInit /\ CsInit /\ McInit /\ SoInit /\ SuInit /\ TrInit
    /\ moves # "updates" => row = [title |-> Default, over |-> FALSE]
Spec == Init /\ [][Next]_vars
=============================================================================
