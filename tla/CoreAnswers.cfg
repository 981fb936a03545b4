SPECIFICATION FairSpec
CONSTANTS
    Uuids = {u1}
    Types = {"bin"}
    Payloads = {b1, b2}
    Available = {b1, b2}
    NoName = ""
    Names <- MCNames
    Nodes <- MCNodes
    Storage <- MCStorage
    Capacity <- MCCapacity
    TypeOf <- MCTypeOf
    StartAt <- MCStartAt
    Requests <- WideRequests
    Waybills <- WideWaybills
    NewDests = {"store2", "nowhere"}
    Inputs = {"request", "storage_waybill", "cancel", "receipt", "redirect"}
    FleetStates = {"WAITING", "FINISHED"}
    Faults = {"create_rejected"}
    MaxInputs = 2
INVARIANT EveryOrderAnswered
INVARIANT DeliveredIsTrue
PROPERTY DeliveryIsTold
CHECK_DEADLOCK FALSE
