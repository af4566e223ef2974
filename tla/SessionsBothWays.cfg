SPECIFICATION Spec
CONSTANTS
    Node = {1, 2}
    Senders = {1, 2}
    Connections = {0}
    SessionMask = 63
    IdleTimeout = {}
    MaxMessages = 3
    MaxSessions = 3
    MaxRestarts = 0
INVARIANT AckedWasDelivered
CHECK_DEADLOCK FALSE
