SPECIFICATION Spec
CONSTANTS
    c1 = c1
    c2 = c2
    k1 = k1
    Chat = {c1, c2}
    Task = {t1, t2}
    Proc = {p1, p2, p3, p4}
    Checkout = {k1}
    CheckoutOf <- MCSharedCheckout
    Resumable = {c1}
    Requests = {"prompt", "resume", "stop", "delete", "edit", "reap"}
    NoTask = NoTask
    NoProc = NoProc
    NoChat = NoChat
    NoCheckout = NoCheckout
SYMMETRY MCSymmetry
INVARIANTS CheckoutExclusion OneProcess EditReaches
PROPERTY ImplementsTurns
