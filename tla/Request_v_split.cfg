CONSTANTS
    c1 = c1  c2 = c2
    select = select  insert = insert  long = long
    update = update  unknown = unknown  huge = huge  wrapped = wrapped  nil = nil  number = number
    Conn <- TwoConns
    Message <- Messages
    Body <- Bodies
    Sends <- LongOffers
    LenBytes = 4
    Base = 8
    RecvMax = 13
    MAX_MESSAGE_SIZE = 11
    Padding = {0, 1}
    ReplyLen = 2
    NULL = NULL
SPECIFICATION Spec
CHECK_DEADLOCK FALSE
INVARIANTS QueuedAsSent
