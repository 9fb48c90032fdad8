SPECIFICATION Spec
CONSTANTS
    Threads = {t1, t2}
    Tickets = {"a", "b", "r"}
    Ticket <- MCTicket
    Requests <- MCRequests
    Replies <- MCReplies
    FailureKinds = {"timeout", "4xx", "provider_failure"}
    CalibratedError = 1
    TokenMargin = 1
    ByteMargin = 1
    RequestCap = 3
    InputCap = 7
    OutputCap = 6
    CapabilityExpires = 0
    MaxSequence = 1
    MaxRestarts = 1
    NoTicket = NoTicket
    NoUsage = NoUsage
INVARIANTS CapsHold OneCall
PROPERTY BadUsageFreezes
CHECK_DEADLOCK FALSE
