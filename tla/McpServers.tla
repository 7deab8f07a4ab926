------------------------------ MODULE McpServers ------------------------------
(***************************************************************************)
(* One MCP server of a chat, from what a form says (service/chats.rs) over *)
(* the row it becomes (store/session_config.rs) to what the agent is       *)
(* started with (acp/mod.rs). The form is checked when it is sent; the row *)
(* is trusted at the start, and a row that cannot be converted keeps every *)
(* agent of the chat from starting.                                        *)
(*                                                                         *)
(* Positions and requests that overlap are in ConnectionSetup: what a      *)
(* request writes here is made of one form and one row that was there.     *)
(***************************************************************************)
EXTENDS Naturals, Sequences, SequencesExt

CONSTANTS
    Secret,    \* names of secrets
    Word,      \* values of secrets, without the empty one
    NoField,   \* a field that is not there
    MaxForms   \* bound: forms that are accepted

ASSUME ServersAssumption ==
    /\ NoField \notin Word \cup {"", "http url", "absolute"}
    /\ MaxForms \in Nat

VARIABLES
    server,    \* the row, NoField without one; its secrets are a set of fields
    started,   \* what the last start or request came to
    given,     \* history: given[n], the values of secret n by what the forms said
    forms

mcVars == <<server, started, given, forms>>

\* The name is there or blank. A URL is one that may be used, or one with userinfo or
\* of another scheme; a command is absolute or not. A secret's name may be
\* blank or hold a line end.
Target ==
    [name : {"named", "blank"}, transport : {"http", "sse", "stdio"},
     url : {NoField, "http url", "other url"}, command : {NoField, "absolute", "relative"}]
SecretInput ==
    [name : Secret \cup {"unusable"}, value : Word \cup {NoField, ""},
     action : {"replace", "keep", "remove"}]
Field(name, value) == [name |-> name, value |-> value]
Outcome(is, to, with) == [is |-> is, to |-> to, with |-> with]

McInit ==
    /\ server = NoField /\ started = Outcome("nothing", NoField, {})
    /\ given = [n \in Secret |-> {}] /\ forms = 0

-----------------------------------------------------------------------------
(* validate_mcp_input                                                      *)

\* Fault: what a server of the other kind needs will do.
EitherTarget(target) ==
    target.name = "named" /\ (target.url = "http url" \/ target.command = "absolute")

ValidTarget(target) ==
    /\ target.name = "named"
    /\ IF target.transport = "stdio"
       THEN target.command = "absolute" /\ target.url = NoField
       ELSE target.url = "http url" /\ target.command = NoField

ValidSecret(input) ==
    /\ input.name # "unusable"
    /\ input.action = "replace" => input.value \notin {NoField, ""}

ValidSecrets == {inputs \in SeqOf(SecretInput, 2) : \A i \in DOMAIN inputs : ValidSecret(inputs[i])}

-----------------------------------------------------------------------------
\* A form that is accepted is stored.
Stores(target, secrets) ==
    /\ server' = [target |-> target, secrets |-> secrets]
    /\ forms' = forms + 1 /\ UNCHANGED started

\* create_mcp_server takes every value that is there, whatever the action says.
CreateServer(target) ==
    /\ forms < MaxForms /\ server = NoField /\ ValidTarget(target)
    /\ \E inputs \in ValidSecrets :
        LET valued == {input \in Range(inputs) : input.value # NoField} IN
        /\ Stores(target, {Field(input.name, input.value) : input \in valued})
        /\ given' = [n \in Secret |-> {input.value : input \in {x \in valued : x.name = n}}]

Edited(is, secrets) == [is |-> is, secrets |-> secrets]

\* One edit of the secrets: the request is refused, or panics on a replacement
\* without a value, or goes on.
EditSecret(sofar, input) ==
    LET others == {s \in sofar.secrets : s.name # input.name} IN
    IF sofar.is # "ok" THEN sofar
    ELSE IF input.action = "keep"
    THEN Edited(IF others = sofar.secrets THEN "refused" ELSE "ok", sofar.secrets)
    ELSE IF input.action = "remove" THEN Edited("ok", others)
    ELSE IF input.value = NoField THEN Edited("panicked", others)
    ELSE Edited("ok", others \cup {Field(input.name, input.value)})

\* The edits of a form in their order.
EditSecrets(secrets, inputs) ==
    LET upto[i \in 0 .. Len(inputs)] ==
            IF i = 0 THEN Edited("ok", secrets)
            ELSE EditSecret(upto[i - 1], inputs[i])
    IN  upto[Len(inputs)]

\* What a form says of a secret: its last word about it.
SaidLast(inputs, n) ==
    LET about == {i \in DOMAIN inputs : inputs[i].name = n /\ inputs[i].action # "keep"} IN
    IF about = {} THEN given[n]
    ELSE IF inputs[Max(about)].action = "remove" THEN {} ELSE {inputs[Max(about)].value}

\* edit_mcp_server: the form replaces the target and edits the secrets in order.
EditServer(target) ==
    /\ forms < MaxForms /\ server # NoField /\ ValidTarget(target)
    /\ \E inputs \in ValidSecrets :
        LET edited == EditSecrets(server.secrets, inputs) IN
        /\ edited.is # "refused"
        /\ IF edited.is = "ok"
           THEN /\ Stores(target, edited.secrets)
                /\ given' = [n \in Secret |-> SaidLast(inputs, n)]
           ELSE started' = Outcome("panicked", NoField, {}) /\ UNCHANGED <<server, given, forms>>

\* delete_mcp_server.
DeleteServer ==
    /\ server # NoField /\ server' = NoField
    /\ given' = [n \in Secret |-> {}] /\ UNCHANGED <<started, forms>>

\* configured_mcp_servers, at the start of the agent: the secrets become headers or
\* variables.
StartServer ==
    /\ server # NoField
    /\ LET to == IF server.target.transport = "stdio" THEN server.target.command ELSE server.target.url IN
        started' = IF server.target.name = "blank" \/ to = NoField
                   THEN Outcome("failed", NoField, {})
                   ELSE Outcome("started", to, server.secrets)
    /\ UNCHANGED <<server, given, forms>>

McNext ==
    \/ \E target \in Target : CreateServer(target) \/ EditServer(target)
    \/ DeleteServer \/ StartServer

-----------------------------------------------------------------------------
\* No form that was accepted keeps the agents of its chat from starting, and no edit
\* unwraps a value that is not there (service/chats.rs:40-92, 227; acp/mod.rs:1019-1085).
AcceptedStarts == started.is \notin {"failed", "panicked"}

\* The agent is given, of each secret, the values that the forms told to keep and no
\* other: one that was replaced or removed is gone, however often a form named it and
\* whatever its other entries say (service/chats.rs:180-189, 215-231).
SecretsAsTold ==
    server # NoField =>
        \A n \in Secret :
            {v \in Word \cup {""} : Field(n, v) \in server.secrets} = given[n]

McTypeOK ==
    /\ server \in {NoField} \cup
        [target : Target, secrets : SUBSET [name : Secret, value : Word \cup {""}]]
    /\ started.is \in {"nothing", "started", "failed", "panicked"}
    /\ given \in [Secret -> SUBSET (Word \cup {""})] /\ forms \in 0..MaxForms

\* What a form says is what the agent starts with (service/chats.rs, acp/mod.rs).
ServersHold == McTypeOK /\ AcceptedStarts /\ SecretsAsTold
=============================================================================
