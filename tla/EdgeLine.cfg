SPECIFICATION LineSpec
CONSTANTS
    Slots = {s1}
    NoSlot = NoSlot
    Units = 3
    Points = {1, 2}
    Webs = {w1}
    Callers <- MCCallers
    Commands = {"store", "abort", "confirm", "point", "toggle", "edit", "recount", "reset"}
    Replies = {"ack", "waybill", "delivered", "error"}
    AutoConfirm = {TRUE}
    Overlaps = {}
    MaxOrders = 2
    MaxSent = 2
    Deltas = {2}
    MaxByHand = 1
INVARIANT LineTypeOK
INVARIANT ReplenishingHasOrder
INVARIANT OneReorderAtATime
PROPERTY Lifecycle
CHECK_DEADLOCK FALSE
