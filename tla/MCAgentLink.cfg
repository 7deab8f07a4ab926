\* One agent that may close its output; a terminal and an observed task; what one
\* command prints; an agent's environment; a form and a file.
SPECIFICATION Spec
CONSTANTS
    l = l
    p = p
    k = k
    t = t
    o = o
    w = w
    Loader = l
    Prompt = {p}
    Config = {k}
    QueueLimit = 1
    MaxUpdate = 1
    Stalls = TRUE
    Terminal = {t}
    Observed = {o}
    Waiter = {w}
    MaxTasks = 1
    Pipe = {"out", "err"}
    Texts <- MCTexts
    Letter = {"a", "b"}
    Snapshots <- MCSnapshots
    Limit = 4
    ReadSize = 3
    Agent = "agent"
    Other = "other"
    Name = {"KEY", "PATH"}
    SecretVars = {"KEY"}
    MaxVars = 1
    Compat = {"KEY"}
    Path = "PATH"
    Forms <- MCForms
    Contents <- MCContents
    MaxInt = 3
    Files <- MCFiles
    MaxLine = 4
    Offers <- MCOffers
    Updates <- MCUpdates
    Prompts <- MCPrompts
    Needs <- MCNeeds
    Version = 1
    MaxMedia = 4
    MaxEmbedded = 1
    MaxTotal = 8
CHECK_DEADLOCK FALSE
INVARIANTS TurnOutputRecorded TasksSettle OutputHolds FormFits WindowHasItsLines  OffersKept
PROPERTIES LostCallersReleased ExitIsTold
