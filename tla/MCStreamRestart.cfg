\* The server is restarted, connections are lost, and the log may close.
SPECIFICATION FairSpec
CONSTANTS
    a = a
    b = b
    Chat = {a}
    Meta = Meta
    NoEvent = NoEvent
    Faults = {"restart", "drop", "fail", "lost"}
    PageSize = 1
    RingSize = 1
    MaxSeq = 4
CHECK_DEADLOCK FALSE
PROPERTIES  EventsArrive
