\* One permission and one elicitation that share a permit, two browsers, cancel,
\* stop and a restart; two requests about three MCP servers and another project;
\* two forms for one server, of two secrets;
\* two options and two starts; two writers of a title; four events of a transcript.
SPECIFICATION Spec
CONSTANTS
    p = p
    e = e
    b1 = b1
    b2 = b2
    c1 = c1
    NoAnswer = NoAnswer
    Permission = {p}
    Elicitation = {e}
    Browser = {b1, b2}
    Canceller = {c1}
    Slots = 1
    Restarts = 1
    Editor = {e1, e2}
    Server = {s1, s2, s3}
    Other = {q}
    NoServer = NoServer
    NoProject = NoProject
    Secret = {n1, n2}
    Word = {u, v}
    NoField = NoField
    MaxForms = 2
    u = u
    v = v
    o1 = o1
    o2 = o2
    Option = {o1, o2}
    Value = {u, v}
    Adverts <- MCAdverts
    Unset = Unset
    MaxStart = 2
    MaxMove = 2
    Title = {x, y}
    Default = d0
    ToolCall = {t}
    Writer = {w1, w2}
    Kind = {"user_message", "chunk", "tool_call", "tool_call_update", "plan", "permission_request", "permission_response", "elicitation_request", "elicitation_response", "turn_complete", "error", "prompting"}
    Name = {n}
    Choice = {c, d}
    Nobody = Nobody
    MaxEvents = 4
SYMMETRY Symmetry
CHECK_DEADLOCK FALSE
INVARIANTS RequestsSettle  ServersHold OptionsHold UpdatesHold TranscriptFaithful
