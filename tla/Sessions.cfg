SPECIFICATION Spec
CONSTANTS
    Node = {1, 2}
    Senders = {1, 2}
    Connections = {0}
    SessionMask = 3
    IdleTimeout = {1, 2}
    MaxMessages = 2
    MaxSessions = 2
    MaxRestarts = 1
INVARIANTS
    TypeOK
    AckedWithoutReuse
    AcceptedNotForgotten
    DeliveredOnce
CHECK_DEADLOCK FALSE
