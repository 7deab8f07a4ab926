\* Two management requests of one agent, a publication and a crash; two
\* requests about its authentication, with a change of the agent; two
\* browsers and two flow ids; two visitors of a catalog of two entries; two
\* operations of two agents, one kept after its end, and a page that follows them.
SPECIFICATION Spec
CONSTANTS
    Manager = {m1, m2}
    Version = {1, 2}
    Session = {s1}
    None = None
    MaxPublish = 1
    MaxRestart = 1
    Asker = {a1, a2}
    Nobody = Nobody
    MaxChange = 1
    MaxCrash = 1
    Client = {c1, c2}
    Flow = {f1, f2}
    NoFlow = NoFlow
    Visitor = {v1, v2}
    Document <- Documents
    Unread = Unread
    MaxDeath = 1
    x = x
    y = y
    Operation = {1, 2}
    Agent = {x, y}
    Registry = Registry
    User = {user}
    NoOperation = NoOperation
    MaxTerminal = 1
    Retention = 1
    MaxTicks = 1
SYMMETRY Symmetry
CHECK_DEADLOCK FALSE
INVARIANTS OperationsFollowed OfferedIsInstalled EndedKeepsNoPrompt 
PROPERTIES GoodCatalogStays  OutcomeStays
