SPECIFICATION Spec
CONSTANTS
    c1 = c1
    c2 = c2
    k1 = k1
    Chat = {c1}
    Task = {t1, t2}
    Proc = {p1, p2, p3}
    Checkout = {k1}
    CheckoutOf <- MCNoCheckout
    Resumable = {c1}
    Requests = {"prompt", "resume", "query"}
    NoTask = NoTask
    NoProc = NoProc
    NoChat = NoChat
    NoCheckout = NoCheckout
SYMMETRY MCSymmetry
INVARIANT NeverFailsOnStarting
