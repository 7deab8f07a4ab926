\* Two browsers start a flow of each kind for one agent.
SPECIFICATION FlowSpec
CONSTANTS
    Manager = {m1, m2}
    Version = {1, 2}
    Session = {s1}
    None = None
    MaxPublish = 2
    MaxRestart = 1
    Asker = {a1, a2}
    Nobody = Nobody
    MaxChange = 2
    MaxCrash = 1
    Client = {c1, c2}
    Flow = {f1, f2}
    NoFlow = NoFlow
    Visitor = {v1, v2}
    Document <- Documents
    Unread = Unread
    MaxDeath = 1
    x = x
    y = y
    Operation = {1, 2}
    Agent = {x, y}
    Registry = Registry
    User = {user}
    NoOperation = NoOperation
    MaxTerminal = 1
    Retention = 1
    MaxTicks = 1
CHECK_DEADLOCK FALSE
INVARIANT OneFlow
