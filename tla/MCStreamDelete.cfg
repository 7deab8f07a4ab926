\* Chats are deleted and connections lost.
SPECIFICATION Spec
CONSTANTS
    a = a
    b = b
    Chat = {a, b}
    Meta = Meta
    NoEvent = NoEvent
    Faults = {"delete", "drop"}
    PageSize = 1
    RingSize = 1
    MaxSeq = 3
SYMMETRY ChatSymmetry
CHECK_DEADLOCK FALSE
INVARIANTS NoGap
PROPERTY ImplementsFeed
