\* The registry of one chat: starts, and a change of the agent's definition.
SPECIFICATION RegistrySpec
CONSTANTS
    Worker = {w1, w2}
    Chat = {c1, c2}
    main = main
    dev = dev
    Branch = {main, dev}
    Upstreamed = main
    Choice <- MCChoices
    MaxOutside = 1
    Caller = {r1, r2, r3}
    Handle = {h1, h2}
    Jobs = {"start", "invalidate"}
    EnvChat = {e1, e2}
    Content = {x, y}
    MaxEdit = 1
CHECK_DEADLOCK FALSE
INVARIANT OneProcessPerChat
