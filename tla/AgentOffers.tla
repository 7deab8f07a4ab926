----------------------------- MODULE AgentOffers -----------------------------
(***************************************************************************)
(* What an agent offers when it is initialized and what Batey then asks of *)
(* it (acp/mod.rs, session/mod.rs), the content of prompts and answers     *)
(* (content.rs), the ways to authenticate (acp/auth.rs, auth/service.rs),  *)
(* and what Batey offers and serves in turn. A chat's process is asked by *)
(* what it said itself when it started; the program may have been updated  *)
(* since. One request at a time; how requests interleave is elsewhere.     *)
(***************************************************************************)
EXTENDS Naturals, Sequences, FiniteSets, SequencesExt, Folds

CONSTANTS
    Offers,      \* [version, features, methods] that a program may initialize with
    Updates,     \* pairs of them: a program and what it may be replaced by
    Prompts,     \* prompts: sequences of [is, size, flaw]
    Needs,       \* [roots, transports]: what the rows of a chat ask for
    Version,     \* the protocol version Batey speaks
    MaxMedia, MaxEmbedded, MaxTotal  \* limits, in units of MAX_EMBEDDED_RESOURCE_BYTES

\* The methods of an agent are a list.
ASSUME OffersAssumption ==
    \A agent \in Offers :
        Len(agent.methods) \in Nat /\ DOMAIN agent.methods = 1 .. Len(agent.methods)

VARIABLES
    pty,      \* the build has pseudo terminals
    program,  \* what the installed agent initializes with
    chat,     \* what the chat's process did, {} without one
    saved,    \* the chat has an agent session
    needs,    \* the chat's additional roots and the transports of its MCP servers
    listing,  \* the methods last read from the agent, as a page shows them
    deal      \* the last request, until its caller has the answer

aoVars == <<pty, program, chat, saved, needs, listing, deal>>

Quiet == [do |-> "nothing"]

AoInit ==
    /\ pty \in BOOLEAN /\ program \in Offers /\ chat = {} /\ saved = FALSE
    /\ needs \in Needs
    /\ listing = <<>> /\ deal = Quiet

Hear == deal # Quiet /\ deal' = Quiet /\ UNCHANGED <<pty, program, chat, saved, needs, listing>>

\* The agent is updated or reinstalled.
Update ==
    /\ deal = Quiet /\ \E next \in Offers : <<program, next>> \in Updates /\ program' = next
    /\ UNCHANGED <<pty, chat, saved, needs, listing, deal>>

Asks(r) == deal = Quiet /\ deal' = r /\ UNCHANGED <<pty, program, needs>>

-----------------------------------------------------------------------------
(* A chat's process                                                        *)

\* ensure_running after initialize: roots and transports the agent does not offer
\* end the start.
Fits(agent) ==
    /\ agent.version = Version
    /\ needs.roots => "dirs" \in agent.features
    /\ needs.transports \ {"stdio"} \subseteq agent.features

\* open_session.
Opening(agent) ==
    CASE ~saved -> {"session/new"}
      [] saved /\ "load" \in agent.features -> {"session/load"}
      [] saved /\ "load" \notin agent.features /\ "resume" \in agent.features -> {"session/resume"}
      [] OTHER -> {}

\* ensure_running. The agent may refuse; it may answer, and the start fail at an option.
StartSession ==
    LET sent == IF Fits(program) THEN Opening(program) ELSE {} IN
    \E got \in IF sent = {} THEN {"error"} ELSE {"error", "id", "session"} :
        /\ chat = {} /\ Asks([do |-> "start", to |-> program, sent |-> sent, saved |-> saved])
        /\ chat' = IF got = "session" THEN {program} ELSE {}
        /\ saved' = (saved \/ got # "error")
        /\ UNCHANGED listing

\* A request to the chat's process, sent if it may be and the agent has the feature.
AsksChat(do, request, feature, may) ==
    \E agent \in chat :
        Asks([do |-> do, to |-> agent,
              sent |-> IF may /\ feature \in agent.features THEN {request} ELSE {}])

\* shutdown, and the process may end by itself.
Stop ==
    /\ AsksChat("stop", "session/close", "close", TRUE)
    /\ chat' = {} /\ UNCHANGED <<saved, listing>>
Exits == deal = Quiet /\ chat # {} /\ chat' = {} /\ UNCHANGED <<pty, program, saved, needs, listing, deal>>

ListRemote ==
    /\ AsksChat("list", "session/list", "list", TRUE)
    /\ UNCHANGED <<chat, saved, listing>>

\* The chat's own session is never deleted this way.
DeleteRemote ==
    \E own \in BOOLEAN :
        /\ AsksChat("delete", "session/delete", "delete", ~own)
        /\ UNCHANGED <<chat, saved, listing>>

-----------------------------------------------------------------------------
(* Content                                                                 *)

\* What is wrong with a block: it is not base64, its MIME type is not one of the
\* accepted, its bytes are of another type, or its link is not http or https.
Flaw == {"none", "encoding", "mime", "magic", "scheme"}
Block(is, sizes, flaws) == [is : {is}, size : sizes, flaw : flaws \cup {"none"}]

SizeLimit(is) ==
    CASE is \in {"image", "audio"} -> MaxMedia
      [] is \in {"resource", "blob"} -> MaxEmbedded
      [] OTHER -> MaxTotal

ContentSize(content) == FoldLeft(LAMBDA n, block : n + block.size, 0, content)

\* validate. Where the agent's own links lead is not looked at.
Valid(content, byUser) ==
    /\ content # <<>> /\ ContentSize(content) <= MaxTotal
    /\ \A block \in Range(content) :
        /\ block.is # "unknown" /\ block.size <= SizeLimit(block.is)
        /\ block.flaw = "none" \/ (block.flaw = "scheme" /\ ~byUser)

Takes(block) ==
    CASE block.is \in {"image", "audio"} -> {block.is}
      [] block.is \in {"resource", "blob"} -> {"embedded"}
      [] OTHER -> {}

\* Fault: the last block speaks for all.
LastTaken(content, agent) == Takes(Last(content)) \subseteq agent.features

\* validate_prompt_capabilities.
Taken(content, agent) == \A block \in Range(content) : Takes(block) \subseteq agent.features

\* prompt_chat_content and admit_turn: the message is recorded before it is sent.
SubmitPrompt ==
    \E content \in Prompts, agent \in chat :
        LET ok == Valid(content, TRUE) /\ Taken(content, agent) IN
        /\ Asks([do |-> "prompt", to |-> agent, content |-> content, recorded |-> ok,
                 sent |-> IF ok THEN {"session/prompt"} ELSE {}])
        /\ UNCHANGED <<chat, saved, listing>>

\* A block of the agent's message, kept or dropped.
AgentSays ==
    \E content \in Prompts :
        /\ chat # {} /\ Len(content) = 1
        /\ Asks([do |-> "says", content |-> content, recorded |-> Valid(content, FALSE)])
        /\ UNCHANGED <<chat, saved, listing>>

-----------------------------------------------------------------------------
(* What Batey offers, and serves                                           *)

\* initialize.
Advertised ==
    {"fs/read_text_file", "fs/write_text_file", "terminal", "boolean options", "form", "url"}
        \cup IF pty THEN {"auth terminal", "legacy terminal"} ELSE {}

Terminals == {"terminal/create", "terminal/output", "terminal/release",
              "terminal/wait_for_exit", "terminal/kill"}
Served == {"session/request_permission", "elicitation/create", "fs/read_text_file",
           "fs/write_text_file"} \cup Terminals

\* handle_agent_request: a response in any case.
AgentAsks ==
    \E method \in Served \cup {"other"}, parses \in BOOLEAN :
        /\ chat # {}
        /\ Asks([do |-> "serve", method |-> method, parses |-> parses,
                 answer |-> IF method \notin Served THEN "unknown method"
                            ELSE IF parses THEN "handled" ELSE "error"])
        /\ UNCHANGED <<chat, saved, listing>>

-----------------------------------------------------------------------------
(* Authentication methods, [id, type, bridge]: `type` may be missing or    *)
(* one Batey does not know, `bridge` is the legacy command beside it.      *)

\* parse_legacy_terminal_meta: one program, at most 64 plain arguments, no shell line.
\* Whether the program can be found is LaunchEnv's.
Bridge == {"missing", "usable", "no command", "shell line", "bad argument", "too long"}

Kind(method) ==
    CASE method.type = "terminal" -> "terminal"
      [] method.type # "terminal" /\ method.bridge = "usable" -> "legacy"
      [] method.type \in {"missing", "agent"} /\ method.bridge # "usable" -> "agent"
      [] OTHER -> "unsupported"

\* parse_auth_methods: what has no id is dropped. The others keep their positions.
Methods(agent) ==
    Restrict(agent.methods, {i \in DOMAIN agent.methods : agent.methods[i].id # ""})

\* AgentAuthState::method: the first of the name.
Named(agent, id) ==
    LET at == {i \in DOMAIN Methods(agent) : Methods(agent)[i].id = id}
    IN {Methods(agent)[i] : i \in {i \in at : \A j \in at : i <= j}}

\* type_name and is_supported, as cached for the page.
Shown(method) ==
    [id |-> method.id,
     type |-> CASE Kind(method) \in {"terminal", "legacy"} -> "terminal"
                [] OTHER -> Kind(method),
     supported |-> Kind(method) = "agent" \/ (Kind(method) # "unsupported" /\ pty)]
Listed(agent) == [i \in DOMAIN Methods(agent) |-> Shown(Methods(agent)[i])]

\* What the agent says now.
KindNow(agent, id) == {Kind(method) : method \in Named(agent, id)}

\* A process of its own, which tells its methods again.
Probe(r) ==
    /\ Asks(r)
    /\ listing' = IF program.version = Version THEN Listed(program) ELSE listing
    /\ UNCHANGED <<chat, saved>>
AsksProbe(do, id, sent) ==
    Probe([do |-> do, to |-> program, id |-> id, pty |-> pty,
           sent |-> IF program.version = Version THEN sent ELSE {}])

Id == {"a", "b"}
Refresh == AsksProbe("refresh", "a", {})
Authenticate ==
    \E id \in Id : AsksProbe("authenticate", id, KindNow(program, id) \cap {"agent"})
StartTerminalLogin ==
    \E id \in Id :
        IF pty THEN AsksProbe("login", id, KindNow(program, id) \cap {"terminal", "legacy"})
        ELSE /\ Asks([do |-> "login", to |-> program, id |-> id, pty |-> pty, sent |-> {}])
             /\ UNCHANGED <<chat, saved, listing>>
Logout == AsksProbe("logout", "a", IF "logout" \in program.features THEN {"logout"} ELSE {})

AoNext ==
    \/ Hear \/ Update \/ StartSession \/ Stop \/ Exits \/ ListRemote \/ DeleteRemote \/ SubmitPrompt
    \/ AgentSays \/ AgentAsks \/ Refresh \/ Authenticate \/ StartTerminalLogin \/ Logout

AoTypeOK ==
    /\ program \in Offers /\ chat \subseteq Offers /\ Cardinality(chat) <= 1
    /\ saved \in BOOLEAN /\ \A shown \in Range(listing) : shown.id # ""

-----------------------------------------------------------------------------
\* The feature a request may only be sent for.
FeatureOf(request) ==
    CASE request = "session/load" -> {"load"} [] request = "session/resume" -> {"resume"}
      [] request = "session/close" -> {"close"} [] request = "session/list" -> {"list"}
      [] request = "session/delete" -> {"delete"} [] request = "logout" -> {"logout"}
      [] OTHER -> {}

\* A process is only sent what it offered itself, and a session is opened with the
\* roots and the servers of the chat only if the agent offered to have them
\* (acp/mod.rs:801-905, session/mod.rs:432-475).
OnlyOfferedIsSent ==
    "sent" \in DOMAIN deal =>
        \A request \in deal.sent :
            /\ FeatureOf(request) \subseteq deal.to.features /\ deal.to.version = Version
            /\ deal.do = "start" =>
                /\ needs.roots => "dirs" \in deal.to.features
                /\ needs.transports \cap {"http", "sse"} \subseteq deal.to.features

\* A chat never goes on in another agent session than its own: restored or not
\* started (acp/mod.rs:617-660).
SavedIsRestored ==
    (deal.do = "start" /\ deal.saved) => "session/new" \notin deal.sent

\* No message stands in the history that could not go to the agent it was for
\* (session/mod.rs:691-701).
HistoryIsSendable ==
    (deal.do = "prompt" /\ deal.recorded) =>
        /\ deal.sent # {} /\ ContentSize(deal.content) <= MaxTotal
        /\ \A i \in DOMAIN deal.content :
            LET block == deal.content[i] IN
            /\ block.flaw = "none"
            /\ block.is \in {"image", "audio"} => block.is \in deal.to.features
            /\ block.is \in {"resource", "blob"} => "embedded" \in deal.to.features

\* What a page is given to show, from either side, is of the type and size it may
\* have (content.rs:34-131).
MediaIsWhatItSays ==
    ("recorded" \in DOMAIN deal /\ deal.recorded) =>
        \A i \in DOMAIN deal.content :
            LET block == deal.content[i] IN
            /\ block.flaw \in {"none", "scheme"}
            /\ block.is \in {"image", "audio"} => block.size <= MaxMedia

\* What Batey offered, an agent that asks for it is not told to be unknown
\* (acp/mod.rs:477-502, 1597-1684).
OfferedIsServed ==
    (deal.do = "serve" /\ deal.answer = "unknown method") =>
        /\ deal.method \notin Advertised
        /\ deal.method \notin Terminals \/ "terminal" \notin Advertised
        /\ deal.method = "elicitation/create" => Advertised \cap {"form", "url"} = {}

\* A method goes the way that the agent, asked at that moment, gives for it, and that
\* a page would be shown for it: no login that needs a terminal is sent to the agent,
\* and no other run in one, whatever an older list says (acp/mod.rs:564-586,
\* auth/service.rs:653-800).
GoesItsWay ==
    deal.do \in {"authenticate", "login"} /\ deal.to.version = Version =>
        LET all == Listed(deal.to)
            first == {i \in DOMAIN all : /\ all[i].id = deal.id
                                         /\ \A j \in DOMAIN all : j < i => all[j].id # deal.id}
            way == IF deal.do = "login" THEN "terminal" ELSE "agent"
        IN deal.sent # {} <=> \E i \in first : all[i].type = way /\ all[i].supported

\* Whatever an agent offers, and however it is updated or restarted, what it is asked
\* is what the process that is asked offers, and what it asks is served as Batey offers
\* (acp/mod.rs, session/mod.rs, auth/service.rs).
OffersKept ==
    /\ AoTypeOK /\ OnlyOfferedIsSent /\ SavedIsRestored /\ HistoryIsSendable /\ MediaIsWhatItSays
    /\ OfferedIsServed /\ GoesItsWay
=============================================================================
