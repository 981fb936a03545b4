SPECIFICATION FairSpec
CONSTANTS
    Uuids = {u1}
    Types = {"bin"}
    Payloads = {b1, b2}
    Available = {b1, b2}
    NoName = ""
    Names <- MCNames
    Nodes <- MCNodes
    Storage <- MCStorage
    Capacity <- MCCapacity
    TypeOf <- MCTypeOf
    StartAt <- MCStartAt
    Requests <- RetrieveRequests
    Waybills <- NoWaybills
    NewDests = {}
    Inputs = {"request", "repeat", "cancel", "receipt", "terminate", "crash"}
    FleetStates = {"RUNNING", "FINISHED"}
    Faults = {"create_rejected", "create_reply_lost"}
    MaxInputs = 3
INVARIANT DispatchedIsTracked
PROPERTY FleetEndReachesOrder
CHECK_DEADLOCK FALSE
