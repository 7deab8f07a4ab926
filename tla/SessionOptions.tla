---------------------------- MODULE SessionOptions ----------------------------
(***************************************************************************)
(* The options and the mode of a chat's session, of which there are four   *)
(* copies: what the agent uses, the client's snapshot, the last event the  *)
(* log holds (what pages show) and the values saved with the chat, which a *)
(* new process of the agent is given again (session/mod.rs,                *)
(* acp/mod.rs, service/chats.rs).                                          *)
(*                                                                         *)
(* One request at a time sets an option or the mode, under turn_guard; a   *)
(* start, which any query may cause, and the reader of the agent's updates *)
(* do not hold it. A process keeps its offers while it lives.              *)
(***************************************************************************)
EXTENDS Naturals, Sequences, FiniteSets

CONSTANTS
    Option, Value,
    Adverts,   \* what an agent may advertise: <<offers, mode>>, with a set of values
               \* for each option and the mode it starts in, Unset if it has none
    Unset,     \* no value
    MaxStart,  \* bounds the processes started
    MaxMove    \* bounds the requests and unasked changes in one process

ASSUME OptionsAssumption ==
    /\ Unset \notin Value
    /\ Adverts \subseteq [Option -> SUBSET Value] \X (Value \cup {Unset})

VARIABLES
    proc,      \* "stopped", "opening", "applying", "publishing", "running"
    agent,     \* the process: [offers, conf, mode]; mode is Unset without modes
    inbox,     \* requests the agent has not handled
    out,       \* its answers and updates the reader has not taken
    reply,     \* what the reader put into the channel of the waiting caller
    snap,      \* the client's snapshots: [conf, mode]
    saved,     \* config_values
    session,   \* a session id is saved
    logged,    \* the last events: [conf, mode]
    plan,      \* the start: saved values still to be applied; or what it publishes
    req,       \* the request that holds turn_guard
    verdict,   \* what the last failed start tells the user
    own,       \* options this process changed unasked, or to another value
    refused,   \* options this process refused to set
    crossed,   \* history: an answer of this process was overtaken or lost
    starts, changes

link == <<agent, inbox, out, reply>>
copies == <<snap, saved, session, logged>>
counts == <<starts, changes>>
soVars == <<proc, link, copies, plan, req, verdict, own, refused, crossed, starts, changes>>

NoReply == [what |-> "none"]
Free == [step |-> "idle"]
Unsaved == [o \in Option |-> Unset]
Blank == [conf |-> Unsaved, mode |-> Unset]
State == [conf |-> agent.conf, mode |-> agent.mode]

OneMore == changes < MaxMove /\ changes' = changes + 1

\* Replies of the agent, as against its updates.
Replies == {"opened", "set", "moded", "refused", "error"}

\* Every copy has the type of what it copies.
SoTypeOK ==
    /\ proc \in {"stopped", "opening", "applying", "publishing", "running"}
    /\ \A o \in Option : saved[o] \in Value \cup {Unset} /\ snap.conf[o] \in Value \cup {Unset}
    /\ req.step \in {"idle", "want", "wait", "reply", "saved", "turn"}
    /\ Len(inbox) <= 2 /\ own \subseteq Option /\ refused \subseteq Option

SoInit ==
    /\ proc = "stopped" /\ agent = [offers |-> [o \in Option |-> {}], conf |-> Unsaved, mode |-> Unset]
    /\ inbox = <<>> /\ out = <<>> /\ reply = NoReply
    /\ snap = Blank /\ saved = Unsaved /\ session = FALSE /\ logged = Blank
    /\ plan = Unsaved /\ req = Free /\ verdict = [is |-> "none"]
    /\ own = {} /\ refused = {} /\ crossed = FALSE /\ starts = 0 /\ changes = 0

-----------------------------------------------------------------------------
(* The agent                                                               *)

Says(lines) == out' = out \o lines /\ inbox' = Tail(inbox) /\ UNCHANGED reply
Line(what, late) == [what |-> what, conf |-> agent'.conf, mode |-> agent'.mode, late |-> late]

AgentOpens ==
    /\ inbox # <<>> /\ Head(inbox).what = "open" /\ UNCHANGED agent
    /\ \E what \in {"opened", "error"} : Says(<<Line(what, FALSE)>>)
    /\ UNCHANGED <<proc, copies, plan, req, verdict, own, refused, crossed, counts>>

\* The option is set, to the value or to another one it offers; the agent may
\* announce it before it answers.
AgentSets ==
    /\ inbox # <<>> /\ Head(inbox).what = "set"
    /\ LET ask == Head(inbox) IN \E v \in agent.offers[ask.o] :
        /\ agent' = [agent EXCEPT !.conf[ask.o] = v]
        /\ own' = IF proc = "applying" /\ v # ask.v THEN own \cup {ask.o} ELSE own \ {ask.o}
        /\ \E before \in {<<>>, <<Line("config", FALSE)>>} :
            Says(Append(before, Line("set", ask.late)))
    /\ UNCHANGED <<proc, copies, plan, req, verdict, refused, crossed, counts>>

AgentSetsMode ==
    /\ inbox # <<>> /\ Head(inbox).what = "mode"
    /\ agent' = [agent EXCEPT !.mode = Head(inbox).v]
    /\ \E before \in {<<>>, <<Line("mode", FALSE)>>} :
        Says(Append(before, Line("moded", Head(inbox).late)))
    /\ UNCHANGED <<proc, copies, plan, req, verdict, own, refused, crossed, counts>>

\* An RPC error, or a request it was told to cancel and forgets.
AgentRefuses ==
    /\ inbox # <<>> /\ Head(inbox).what \in {"set", "mode"} /\ UNCHANGED agent
    /\ IF Head(inbox).late /\ Head(inbox).what = "set"
       THEN Says(<<>>) /\ UNCHANGED refused
       ELSE /\ Says(<<Line("refused", Head(inbox).late)>>)
            /\ refused' = IF Head(inbox).what = "set" THEN refused \cup {Head(inbox).o} ELSE refused
    /\ UNCHANGED <<proc, copies, plan, req, verdict, own, crossed, counts>>

\* The hub has an answer of the agent that it has not acted on.
InHand ==
    \/ reply # NoReply \/ req.step \in {"reply", "saved"} \/ proc = "publishing"
    \/ \E i \in DOMAIN out : out[i].what \in Replies

\* Unasked: an answer on its way is older than the update, and may win.
AgentChanges ==
    /\ proc # "stopped" /\ out = <<>> /\ OneMore
    /\ \/ \E o \in Option : \E v \in agent.offers[o] \ {agent.conf[o]} :
            /\ agent' = [agent EXCEPT !.conf[o] = v]
            /\ own' = own \cup {o} /\ out' = <<Line("config", FALSE)>>
       \/ \E m \in Value \ {agent.mode} :
            /\ agent.mode # Unset /\ agent' = [agent EXCEPT !.mode = m]
            /\ UNCHANGED own /\ out' = <<Line("mode", FALSE)>>
    /\ crossed' = (crossed \/ InHand)
    /\ UNCHANGED <<proc, inbox, reply, copies, plan, req, verdict, refused, starts>>

-----------------------------------------------------------------------------
(* The reader                                                              *)

\* open_session of a saved session: what the agent replays is not history again.
Replaying == proc = "opening" /\ session

\* An update goes into the snapshot, and outside a replay into the log.
ReadState ==
    /\ out # <<>> /\ Head(out).what \in {"config", "mode"} /\ out' = Tail(out)
    /\ LET line == Head(out)
           With(copy) == IF line.what = "config" THEN [copy EXCEPT !.conf = line.conf]
                         ELSE [copy EXCEPT !.mode = line.mode]
       IN /\ snap' = With(snap)
          /\ logged' = IF Replaying THEN logged ELSE With(logged)
    /\ UNCHANGED <<proc, agent, inbox, reply, saved, session, plan, req, verdict, own, refused, crossed, counts>>

\* An answer goes to whoever waits for it; after a timeout nobody does.
ReadReply ==
    /\ out # <<>> /\ Head(out).what \in Replies /\ out' = Tail(out)
    /\ reply' = IF Head(out).late THEN reply ELSE Head(out)
    /\ UNCHANGED <<proc, agent, inbox, copies, plan, req, verdict, own, refused, crossed, counts>>

-----------------------------------------------------------------------------
(* ensure_running                                                          *)

\* spawn and initialize; then session/new, or session/load or session/resume.
Start ==
    /\ proc = "stopped" /\ starts < MaxStart /\ starts' = starts + 1 /\ changes' = 0
    /\ \E advert \in Adverts, conf \in [Option -> Value \cup {Unset}] :
        /\ \A o \in Option : conf[o] \in IF advert[1][o] = {} THEN {Unset} ELSE advert[1][o]
        /\ agent' = [offers |-> advert[1], conf |-> conf, mode |-> advert[2]]
    /\ proc' = "opening" /\ snap' = Blank
    /\ inbox' = <<[what |-> "open"]>> /\ out' = <<>> /\ reply' = NoReply
    /\ own' = {} /\ refused' = {} /\ crossed' = (req.step \in {"reply", "saved"})
    /\ verdict' = [is |-> "none"]
    /\ UNCHANGED <<saved, session, logged, plan, req>>

\* The client is shut down and its pending requests fail.
Ends(why) ==
    /\ proc' = "stopped" /\ inbox' = <<>> /\ out' = <<>> /\ reply' = NoReply
    /\ plan' = Unsaved /\ verdict' = why
    /\ req' = IF req.step = "wait" THEN Free ELSE req
    /\ agent' = [agent EXCEPT !.conf = Unsaved, !.mode = Unset]
    /\ snap' = Blank /\ own' = {} /\ crossed' = FALSE
    /\ UNCHANGED <<logged, refused, counts>>

Retry == [is |-> "retry"]
Reset(o) == [is |-> "reset", o |-> o]

\* config_values, read once.
ValuesToApply == saved

\* The response is the snapshot; the session id is saved before anything can fail.
Opened ==
    /\ proc = "opening" /\ reply.what = "opened" /\ reply' = NoReply
    /\ snap' = [conf |-> reply.conf, mode |-> reply.mode]
    /\ session' = TRUE /\ proc' = "applying" /\ plan' = ValuesToApply
    /\ UNCHANGED <<agent, inbox, out, saved, logged, req, verdict, own, refused, crossed, counts>>

OpenFails ==
    /\ proc = "opening" /\ reply.what = "error" /\ Ends(Retry)
    /\ UNCHANGED <<saved, session>>

Waits == inbox # <<>> \/ reply # NoReply \/ \E i \in DOMAIN out : out[i].what \in Replies

\* set_config of a saved value: refused here if the agent no longer offers it.
ApplyNext ==
    /\ proc = "applying" /\ ~Waits
    /\ \E o \in Option :
        /\ plan[o] # Unset
        /\ IF plan[o] \in agent.offers[o]
           THEN /\ inbox' = <<[what |-> "set", o |-> o, v |-> plan[o], late |-> FALSE]>>
                /\ plan' = [plan EXCEPT ![o] = Unset]
                /\ UNCHANGED <<proc, agent, out, reply, snap, logged, req, verdict, own, refused, crossed, counts>>
           ELSE Ends(Reset(o))
    /\ UNCHANGED <<saved, session>>

Applied ==
    /\ proc = "applying" /\ reply.what = "set" /\ reply' = NoReply
    /\ snap' = [snap EXCEPT !.conf = reply.conf]
    /\ UNCHANGED <<proc, agent, inbox, out, saved, session, logged, plan, req, verdict, own, refused, crossed, counts>>

\* Only a refusal of the agent is one: SavedConfigRejected.
Blame(o, refusal) == IF refusal THEN Reset(o) ELSE Retry

\* The agent refused, or did not answer within 30 s: the client is shut down.
ApplyFails ==
    /\ proc = "applying" /\ Waits
    /\ \E o \in Option :
        \/ reply.what = "refused" /\ o \in refused /\ Ends(Blame(o, TRUE))
        \/ inbox # <<>> /\ o = Head(inbox).o /\ Ends(Blame(o, FALSE))
    /\ UNCHANGED <<saved, session>>

\* The snapshots are read ...
PublishReads ==
    /\ proc = "applying" /\ ~Waits /\ plan = Unsaved
    /\ proc' = "publishing" /\ plan' = snap /\ crossed' = (crossed \/ out # <<>>)
    /\ UNCHANGED <<link, copies, req, verdict, own, refused, counts>>

\* ... and appended; then the session is RUNNING.
PublishAppends ==
    /\ proc = "publishing" /\ proc' = "running" /\ plan' = Unsaved
    /\ logged' = IF plan.mode = Unset THEN [logged EXCEPT !.conf = plan.conf] ELSE plan
    /\ UNCHANGED <<link, snap, saved, session, req, verdict, own, refused, crossed, counts>>

-----------------------------------------------------------------------------
(* set_config and set_mode, under turn_guard                               *)

Asks ==
    /\ req.step = "idle" /\ OneMore
    /\ UNCHANGED <<proc, link, copies, plan, verdict, own, refused, crossed, starts>>

AskConfig ==
    Asks /\ \E o \in Option, v \in Value : req' = [step |-> "want", what |-> "set", o |-> o, v |-> v]
AskMode == Asks /\ \E v \in Value : req' = [step |-> "want", what |-> "mode", v |-> v]

\* A turn holds turn_guard.
TurnBegins == proc = "running" /\ Asks /\ req' = [step |-> "turn"]
TurnEnds ==
    /\ req.step = "turn" /\ req' = Free
    /\ UNCHANGED <<proc, link, copies, plan, verdict, own, refused, crossed, counts>>

\* The start failed, or the value or any mode is not on offer.
GivesUp ==
    /\ req.step = "want" /\ req' = Free
    /\ \/ proc = "stopped"
       \/ proc = "running" /\ req.what = "set" /\ req.v \notin agent.offers[req.o]
       \/ proc = "running" /\ req.what = "mode" /\ snap.mode = Unset
    /\ UNCHANGED <<proc, link, copies, plan, verdict, own, refused, crossed, counts>>

Sends ==
    /\ req.step = "want" /\ proc = "running" /\ Len(inbox) < 2
    /\ IF req.what = "set" THEN req.v \in agent.offers[req.o] ELSE snap.mode # Unset
    /\ inbox' = Append(inbox, IF req.what = "set"
                              THEN [what |-> "set", o |-> req.o, v |-> req.v, late |-> FALSE]
                              ELSE [what |-> "mode", v |-> req.v, late |-> FALSE])
    /\ req' = [req EXCEPT !.step = "wait"]
    /\ UNCHANGED <<proc, agent, out, reply, copies, plan, verdict, own, refused, crossed, counts>>

\* An answer without configOptions is an error too, and what was set stays set.
TakeReply ==
    /\ req.step = "wait" /\ reply # NoReply /\ reply' = NoReply
    /\ \/ /\ reply.what = "set"
          /\ snap' = [snap EXCEPT !.conf = reply.conf]
          /\ req' = [step |-> "reply", what |-> "set", o |-> req.o, v |-> req.v, hand |-> reply.conf]
          /\ UNCHANGED crossed
       \/ /\ reply.what = "moded"
          /\ snap' = [snap EXCEPT !.mode = req.v]
          /\ req' = [step |-> "saved", what |-> "mode", hand |-> req.v]
          /\ UNCHANGED crossed
       \/ reply.what = "refused" /\ req' = Free /\ UNCHANGED <<snap, crossed>>
       \/ reply.what = "set" /\ req' = Free /\ crossed' = TRUE /\ UNCHANGED snap
    /\ UNCHANGED <<proc, agent, inbox, out, saved, session, logged, plan, verdict, own, refused, counts>>

\* 30 s: the entry is dropped and the agent told to cancel, which it may not.
Late(line) == [line EXCEPT !.late = (line.what \notin {"config", "mode"} \/ "v" \in DOMAIN line)]
TimesOut ==
    /\ req.step = "wait" /\ reply = NoReply /\ req' = Free /\ crossed' = TRUE
    /\ inbox' = [i \in DOMAIN inbox |-> Late(inbox[i])]
    /\ out' = [i \in DOMAIN out |-> Late(out[i])]
    /\ UNCHANGED <<proc, agent, reply, copies, plan, verdict, own, refused, counts>>

\* Fault: what was asked for is saved.
SavesRequested == req.v

\* The value the agent says the option has now.
Authoritative == req.hand[req.o]

Save ==
    /\ req.step = "reply"
    /\ \/ /\ saved' = [saved EXCEPT ![req.o] = Authoritative]
          /\ req' = [step |-> "saved", what |-> "set", hand |-> req.hand] /\ UNCHANGED crossed
       \/ req' = Free /\ crossed' = TRUE /\ UNCHANGED saved
    /\ UNCHANGED <<proc, link, snap, session, logged, plan, verdict, own, refused, counts>>

Publish ==
    /\ req.step = "saved" /\ req' = Free
    /\ \/ /\ logged' = IF req.what = "set" THEN [logged EXCEPT !.conf = req.hand]
                     ELSE [logged EXCEPT !.mode = req.hand]
          /\ UNCHANGED crossed
       \/ crossed' = TRUE /\ UNCHANGED logged
    /\ UNCHANGED <<proc, link, snap, saved, session, plan, verdict, own, refused, counts>>

\* clear_saved_config does not take turn_guard.
ClearSaved ==
    /\ req.step # "turn"
    /\ \E o \in Option : saved[o] # Unset /\ saved' = [saved EXCEPT ![o] = Unset]
    /\ UNCHANGED <<proc, link, snap, session, logged, plan, req, verdict, own, refused, crossed, counts>>

-----------------------------------------------------------------------------
\* The process ends: by itself, stopped, or because the reader or the start
\* could not write.
Dies ==
    /\ proc # "stopped" /\ Ends(IF proc = "running" THEN verdict ELSE Retry)
    /\ UNCHANGED <<saved, session>>

HubDies ==
    /\ starts < MaxStart
    /\ proc' = "stopped" /\ inbox' = <<>> /\ out' = <<>> /\ reply' = NoReply
    /\ req' = Free /\ plan' = Unsaved /\ verdict' = [is |-> "none"]
    /\ agent' = [agent EXCEPT !.conf = Unsaved, !.mode = Unset]
    /\ snap' = Blank /\ own' = {} /\ crossed' = FALSE
    /\ UNCHANGED <<saved, session, logged, refused, counts>>

SoNext ==
    \/ AgentOpens \/ AgentSets \/ AgentSetsMode \/ AgentRefuses \/ AgentChanges
    \/ ReadState \/ ReadReply
    \/ Start \/ Opened \/ OpenFails \/ ApplyNext \/ Applied \/ ApplyFails
    \/ PublishReads \/ PublishAppends
    \/ AskConfig \/ AskMode \/ TurnBegins \/ TurnEnds \/ GivesUp \/ Sends \/ TakeReply
    \/ TimesOut \/ Save \/ Publish \/ ClearSaved \/ Dies \/ HubDies

-----------------------------------------------------------------------------
\* Once nothing is under way, the pages, the snapshot and the agent agree on every
\* option and on the mode, and an agent that has not chosen otherwise itself uses
\* what the chat has saved: through starts that reapply it, timeouts aside, and
\* unless the agent spoke up while the hub had an older answer in hand
\* (session/mod.rs:505-577, 1318-1360, acp/mod.rs:704-765).
CopiesAgree ==
    (proc = "running" /\ req = Free /\ inbox = <<>> /\ out = <<>> /\ ~crossed) =>
        /\ snap = State /\ logged.conf = agent.conf
        /\ agent.mode # Unset => logged.mode = agent.mode
        /\ \A o \in Option \ own : saved[o] \in {Unset, agent.conf[o]}

\* A user is asked to reset an option only if the agent does not offer what is
\* saved or refused it; anything transient is retried (session/mod.rs:519-523,
\* acp/mod.rs:748-766).
ResetIsGenuine ==
    verdict.is = "reset" => verdict.o \in refused \/ agent.offers[verdict.o] # Value

\* The copies of the options meet again, and a user is asked to reset an option only
\* if the agent does not take it (session/mod.rs, acp/mod.rs:748-766).
OptionsHold == SoTypeOK /\ CopiesAgree /\ ResetIsGenuine
=============================================================================
