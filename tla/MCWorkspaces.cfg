\* Two requests and two chats in one repository; two callers of one chat's
\* session; two chats whose .envrc is approved.
SPECIFICATION Spec
CONSTANTS
    Worker = {w1, w2}
    Chat = {c1, c2}
    main = main
    dev = dev
    Branch = {main, dev}
    Upstreamed = main
    Choice <- MCChoices
    MaxOutside = 1
    Caller = {r1, r2}
    Handle = {h1, h2}
    Jobs = {"start", "query", "stop", "reap", "delete", "invalidate", "drain"}
    EnvChat = {e1, e2}
    Content = {x, y}
    MaxEdit = 1
SYMMETRY Symmetry
CHECK_DEADLOCK FALSE
INVARIANTS WorkSurvives CheckoutStays GrantWasReviewed RulesHold
PROPERTIES RetireSparesProcess
