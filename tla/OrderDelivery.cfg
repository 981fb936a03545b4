SPECIFICATION ProtocolSpec
CONSTANTS
    Slots = {}
    NoSlot = NoSlot
    Units = 1
    Points = {1}
    Webs = {w1}
    Callers <- MCCallers
    Commands = {"move", "abort", "redirect", "confirm"}
    Replies = {}
    AutoConfirm = {FALSE}
    Overlaps = {"order"}
    MaxOrders = 1
    MaxSent = 2
    MaxOutboxRetries = 2
    Batch = 2
    Faults = {"publish", "expire", "crash_edge", "crash_core", "reject", "fleet_ends", "cancel_refused", "reader_ends", "no_broker", "unkept"}
    MaxFaults = 1
    MaxCoreRows = 2
    MaxReplies = 3
INVARIANT ProtocolTypeOK
INVARIANT DeliveredIsReal
INVARIANT ConfirmedHasReceipt
INVARIANT AbortStopsRobot
PROPERTY SentIsRead
CHECK_DEADLOCK FALSE
